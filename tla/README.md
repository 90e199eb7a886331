# A TLA+ development of talent-copilot

talent-copilot is an assistant for recruiters: a chat in front of a language
model, two slow tools (crawling a GitHub repository, parsing a CV) and a rule
that no tool runs before a human has confirmed it. This directory holds TLA+
models of the parts of the system where requests, transactions, workers, the
browser's page and failures meet, the TLC configurations that check them, and
machine-checked proofs about each of them. Everything is translated from the
source; paths below are relative to `src/` of the repository (`app/` is
`backend/app/`).

Check a module with `tlc -workers 2 -config Api.cfg MCConfirmationApi.tla`, and
the proofs of a component with `tlapm ConfirmationApiProofs.tla` (or
`CeleryWorkerProofs`, `PipelineProofs`, `ChatProofs`, `ChatSummaryProofs`,
`ChatPromptProofs`, `GithubIngestionProofs`, `FrontendProofs`).

## 1. Inventory

| part | state it keeps | operations | here |
|---|---|---|---|
| The gate: `application/confirmation_service.py`, `application/tool_service.py`, `presentation/confirmations.py`, the asking half of `presentation/workspace.py` | rows of `confirmations` and `jobs`, one transaction per request | `POST /ingest/github`, `/upload/cv`, `/upload/cv/save-confirmation`, the graph's `confirmation_pending_node`; `POST /confirm` | `ConfirmationApi` |
| The Celery pool: `infrastructure/jobs/tasks.py`, `celery_app.py` | one attempt per process; rows of `jobs`, `candidates`, `repositories`; the upload volume | `ingest_github_repo`, `parse_cv_file`, `save_candidate_profile` | `CeleryWorker` |
| The schema, repositories and sessions of the database: `infrastructure/database/*` | all tables | SELECT, INSERT and UPDATE by tenant; commit or rollback at the end of a request | `Store`, and the statements inside each action |
| Redis and Celery's broker protocol (external) | messages, ready or reserved | publish, reserve, acknowledge late, put back | `queue` of `Store` |
| Chat and memory: `application/chat_service.py`, `memory_service.py`, `presentation/chat.py` | rows of `sessions`, `messages`, `session_summaries` | `POST /chat`; history and session list (read-only) | `Chat` |
| LangGraph conversation graph: `infrastructure/graph/*` | the state of one run | conversation, tool decision, confirmation pending, response generation | steps of a turn in `Chat`; what a tool request may hold in `ConfirmationApi` |
| GitHub tool: `infrastructure/tools/github_ingestion.py`, `RepositoryRepo.upsert` | one crawl; rows of `repositories` | `parse_owner_repo`, `_get`, `ingest` | `GithubIngestion`; its outcome for the job in `CeleryWorker` |
| CV tool: `infrastructure/tools/cv_parser.py` | none | `parse` | its outcome, in `CeleryWorker` |
| LLM provider: `infrastructure/llm/langchain_provider.py` (and the service behind it) | none | `ainvoke`, with a timeout of 60 s | any answer, or an error |
| Streamlit frontend: `frontend/streamlit_app.py` | the session state of one browser | runs of the script: poll, ask, chat, confirm, save, sign out | `Frontend` |
| Authentication and rate limits: `presentation/auth.py`, `infrastructure/security/*` | none between requests | login, token checks | not modelled: they decide the tenant a request acts for |
| Read-only endpoints: `presentation/jobs.py`, listings of `workspace.py` | none | SELECT | what `GET /jobs/{id}/status` shows is `JobView`; listings are left out |
| Wiring, DTOs, migrations, seed, deployment | none at run time | | `docker-compose.yml` gives the number of worker processes and the restart policy |

How the parts meet. A handler of the API process is a coroutine with one
transaction: `get_async_session` opens it, the endpoint runs, and the commit
happens after the endpoint has returned and before the response is sent, so a
client that sees 200 sees committed rows. Handlers interleave at every `await`.
The API and the workers share the database, the broker and the upload volume,
and no transaction covers two of the three. Workers acknowledge a message when
its task has ended (`task_acks_late`), and a message whose process dies is put
back (`task_reject_on_worker_lost`). The page talks to the API only, by requests
that it makes one at a time, and learns of a job's end only by polling.

What is hard, and what must be right about each part:

* **The gate.** Requests that decide the same confirmation interleave; each can
  fail at every step; the message leaves before the commit. Right means: what
  runs is what was approved; no half-written decision; no job row without a
  message; nobody waits forever for a row lock.
* **The pool.** Redelivery and retries run a task more than once, possibly at
  the same time, with the file already gone, or with no row to report to. Right
  means: a result, once shown, stays and has its rows; a candidate comes from a
  result; a CV is on the volume until a parse of it has been reported; one row per
  repository; the pool comes to rest. (A report may hit no row: then CV and result
  are both lost, and section 5 says so.)
* **API and pool.** The worker may run before, after or without the commit of
  the request that started it, and a chat request may name a file that is not its
  own. Right means: every effect, and every removal of a file, goes back to an
  approval of that call.
* **GitHub.** A repository changes while it is crawled, and an answer may be a
  rate limit or a refusal. Right means: a row is of the repository its URL names
  and of one attempt of one crawl; a snippet is of a file in its tree; a rate
  limit is never taken for an answer, and ends.
* **The page.** Any click stops the running script, a click in a dialog waits for
  it, answers are lost, requests time out. Right means: what is decided is what
  was shown; a tracked job is polled until it is seen ended; a parsed CV is
  offered, and saved once.
* **Chat.** A turn's transaction is open while a model answers, turns of one
  session do not see each other's messages, a prompt is put together from two
  reads, and summaries are made of what one turn saw, counted later and dated later
  still. Right means: messages belong to the owner of the
  session; summaries keep up; none but the limit of its read decides what a
  summary leaves out of what the one before it has counted; a reply and the
  confirmation it offers are there together or not at all.

Every place where one of these can go wrong is listed with its line under
"hazards" in `PROJECT.json`, with the properties that watch it.

## 2. Modules

| module | uses | for TLC | proofs |
|---|---|---|---|
| `Store` | | | |
| `ConfirmationApi` | `Store` | | |
| `ToolGate` | | | |
| `ConfirmationApiGate` | `ConfirmationApi`, `ToolGate` (refined) | `MCConfirmationApi` | `ConfirmationApiProofs` |
| `CeleryWorker` | `Store` | `MCCeleryWorker` | `CeleryWorkerProofs` |
| `JobView` | | | |
| `Pipeline` | `ConfirmationApi`, `CeleryWorker`, `JobView` (refined) | `MCPipeline` | `PipelineProofs` |
| `Chat` | | `MCChat` | `ChatProofs`, `ChatSummaryProofs`, `ChatPromptProofs` |
| `GithubIngestion` | | `MCGithubIngestion` | `GithubIngestionProofs` |
| `Frontend` | `JobView` (its actions) | `MCFrontend` | `FrontendProofs` |

**Store** is what is shared: `confirmations`, `jobs`, `files`, `queue` and
`tasks` (the arguments that the messages of a job carry). Its states are
committed states. Ids come from `uuid4()` and never collide, so an id is named
by the call that draws it: a confirmation, and the file of an upload, by an
element of `Confirmation`; a job by the `POST /confirm` that creates it, an
element of `Request`. A payload keeps only what the code looks at: a URL, a
file, a job id, `{}`, or a JSON value that is not an object, falsy or not,
because `_confirmation_from_model` turns every falsy payload into `{}`. A file
is never one of the other payloads (`StoreAssumption`). SHA-256
is an injection of its input. User and session of the hash are folded into the
tenant.

**ConfirmationApi** has an action per step of a handler that other handlers or
workers can tell apart. The asking handlers with one statement are one action
(`RequestGithubIngestion`, `ConfirmationPendingNode`); an upload saves its file
first (`SaveUpload`), a save request reads a job first (`CheckParseJob`), and
both then insert (`InsertAsked`) or fail (`AskFails`). Nothing checks the payload
of a request that comes from the model (`app/infrastructure/graph/nodes.py:73`):
in `Ask` it is any URL, job, other value, or any file there is or was (`Uploads`),
the file of a denied upload, of one that another job is parsing, or of another
tenant among them. Only a path outside the uploads is left out. `POST /confirm` is
`ReadPending` or `Refuse` (the SELECT of `decide`), `UpdateStatus` (its UPDATE,
which takes the row lock), `CreateJob` or `HashMismatch`
(`validate_for_execution` and the INSERT), `Dispatch` or `DispatchRaises`, and
`Commit`; `Abort` is possible in every open transaction. What a transaction has
written is implied by `req[r].pc` until `Commit` moves it to the rows, so a
rollback is a change of `pc`. Publishing is not undone by a rollback.

**ToolGate** is the gate without rows, transactions or a broker: a call is asked
for, granted at most once per grant, and started at most once per grant, as it
was granted. **ConfirmationApiGate** is the refinement mapping: a call is asked
for when its confirmation is committed, granted when an approving request reads
the pending row, started when its task is published.

**CeleryWorker** has the three tasks as one, since they have one shape, with
`TaskOf(w).tool` where they differ: `ReceiveTask`, `MarkRunning` (its own
commit), `RunTool` (the tool returns; `upsert` has done its SELECT), `Complete`
(rows and COMPLETED in one commit), `Cleanup` (parse only), and on an exception
`AttemptFails` or `UniqueViolation`, `MarkFailed` (a new session), `Retry`, and
`Ack`. `StatusWriteFails` is the failure of a status write itself; `Crash` is
the death of the process. `update_status` changes the row if there is one
(`RowOf`); an end that was written to no row is kept in the history variable
`missed` (`Note`), which no action reads, so that the properties can say what was
lost. The pool by itself starts with the rows of any of its jobs committed and
those of the others not. The delay before a retry is not modelled: a published
message may be taken at any later time.

**Pipeline** puts the two on one store, adding no action of its own.

**JobView** is a job as `GET /jobs/{id}/status` shows it, without tasks, messages
or workers: a row appears queued, goes to and fro between running, completed and
failed (a redelivered task takes a completed job back to running), is never
queued again, and keeps its result. The pipeline implements it
(`ImplementsJobView`, with the identity as the mapping), and `Frontend` takes its
jobs from it.

**Chat** has a turn as a program counter with what it has written so far:
`StartSession` (no session id) or `NameSession` (an id the client chose),
`InsertSession` or `SessionExists`, `SaveUserMessage`, the two reads of
`build_context` (`ReadSummary`, `ReadWindow`), the graph (`Converse` or
`ConverseAndAsk`, then `ConfirmationPending`), `SaveReply`, `CountMessages`,
`Check`, `ReadForSummary`, `CountForSummary` (the model has answered, and the
count is awaited), `SaveSummary` (only now `created_at` is taken), `Commit`, and
`Fail` at every step: each awaited statement is a step of its own, and other turns
commit between any two. A message is its tenant, its `created_at` and the
confirmation that its metadata names; a summary is the set of messages it was made
of and the set it counted. The number the code stores is the size of the latter.

**GithubIngestion** has an action per request of a crawl (`FetchMetadata` to
`FetchCodeSnippet`) and per statement of the upsert (`Lookup`, `Write`, `Commit`).
What an answer says is only the version of the repository it was given from, or
that the field was left empty, and which attempt of which task asked for it
(`by`); a path is a sequence of segments, a segment a sequence of pieces, of which
`.git` may be one, so that `parse_owner_repo` is an operator on sequences that can
be compared with what git makes of a name (`Named`). `Without` says which pieces
are left and in what order, instead of filtering them one by one, so that it can
be proved about. `RateLimited` is one 429 of `_get`, `Fails` any exception, and
`Retry` a new attempt of the task. The code's lists of files are sets of tree
items here, each with its place in the tree: a list in the order of the tree and
its first elements are told apart by nothing else.

**Frontend** has Streamlit's execution model as far as the page depends on it:
`run` is the run of the script, with what it was started for, the button that is
True in it, the request that is out and its answer. A click outside a dialog
(`ClickAround`) stops the run and starts another; a click in a dialog
(`PressButton`) waits for the run, after which only the dialog is called
(`RunFragment`) or the whole script is (`Rerun`). `Called` is the dialog that is
called then, with the slots as they are by then. The API is its answers: `Grant`,
`Refuse`, `Break` (done, and the answer lost), `TimeOut` (the exception ends the
script; the handler may go on, `ServeLate`). The steps of `POST /confirm`, and
the second decision that they may let through, are in `ConfirmationApi`; here it
grants what is pending. The variables `unseen` and `due` are not the page's: they
record what it was told of and has not yet seen ended, and what it has seen
completed and not yet settled.

A definition whose comment starts with "Mutant:" is a variant of an action or a
condition with a plausible bug. No specification uses them; each shows that a
property is able to fail.

## 3. Runs

| run | configuration | checks |
|---|---|---|
| `api` | 3 decisions, 2 tenants, 1 confirmation | `ApiInv` (the inductive invariant), `MismatchesAreFalsy`, `TaskIsTheApprovedCall`, `JobRowHasTask`, `StatusIsADecision`, `NeverReopened`, `RequestsEnd`, `ImplementsToolGate` |
| `api_saves` | from a state where one job has ended: 2 confirmations, 2 tenants, 2 more decisions | `ApiInv`, with saves of the result being asked for |
| `worker_safety` | 2 processes, 2 jobs with any tasks and with or without rows, 1 retry, 2 deaths | `WorkerInv` (the inductive invariant), `ConsumedJobsHaveEnded`, `FileOrResult`, `CandidatesHaveASource`, `DuplicatesNeedCrashes`, `ResultsHaveTheirRows`, `OneRepositoryPerUrl`, `ResultsAreKept` |
| `worker_liveness` | 2 processes, 1 job with any task, retries as in the source, 2 deaths, lost status writes | `PoolDrains` |
| `pipeline_chain` | 2 tenants, 2 confirmations, 2 decisions, 1 process, 1 death | `PipelineInv` (the inductive invariant, `ApiInv` among its parts), `EffectsWereApproved`, `FilesGoByApproval`, `ImplementsJobView` |
| `chat_turns` | 2 turns at a time, 5 in all, one asking for a tool, 2 tenants, 1 session | `ChatInv` (the inductive invariant), `MessagesAreTheOwners`, `SummariesKeepUp`, `NoMessageFallsBetween`, `RepliesAndConfirmationsAgree`, `PromptsMissLittle` |
| `frontend` | from a page that polls one parse job: 3 requests, 1 click around, 1 fault, 3 of these in all | `FrontendInv`, `SavesInv` (the inductive invariants), `KnownJobsAreWatched`, `SavedAgainNeedsAFault`, `SlotIsUndecided`, `EndsAreSeen` |
| `crawls` | 2 tasks, 3 URLs, 1 push, 2 errors, any number of 429 | `IngestionInv` (the inductive invariant), `RowsAreOfTheirUrls`, `EmptyFieldsWereRefused`, `RowsAreOfOneCrawl`, `SnippetsAreOfTheRowsTree`, `TasksComeToAnEnd` |

Bounds, and why they are enough:

* Three decisions of one confirmation give a holder of the row lock and two that
  wait, one of them with a stale read; a second tenant makes the tenant
  conditions of the queries matter. Two confirmations interact only through a
  save that names a job, which `api_saves` and `pipeline_chain` have; in the
  latter the job has really been run by the worker, and the inductive invariant is
  checked there too.
* Two processes and two jobs give every pair of tasks at once, among them two
  ingestions of one URL and a parse next to the save of its result. With
  `acks_late`, duplicates of one message need a death, and two deaths give two
  extra copies. One retry stands for 3 and 2 there (`OneRetry`), because the
  attempts differ only in the last one giving up; `worker_liveness` has the
  numbers of the source. In `pipeline_chain` every attempt is the last; its two
  tenants and two confirmations are enough for a request that names the other
  tenant's upload, decided or not, and it has 1.4
  million states. No status write fails there, so that `EndsAreOwed` is checked as
  well; what is proved of the pipeline covers those that do, and `worker_liveness`
  runs them.
* In `pipeline_chain` payloads that are not objects are left out (`Falsy`,
  `Scalar` are empty); `api` has them.
* In `chat_turns` a window of 2, a threshold of 4 and a limit of 7 are in the
  order of 20, 50 and 100: the window is smaller than the threshold, and the
  threshold than what a summary is given. Five turns (ten messages) reach a second
  summary next to a concurrent turn, and the limit leaves out messages of the
  first one. With two turns at once two messages may be put off, and are; between
  the two reads of one turn's prompt, and between the count and the time of its
  summary, the other one can commit several rounds and a summary. The run has 2.2
  million states. One answer may ask for a tool (`MaxAsks`): a turn inserts at
  most one confirmation, no other turn reads it, and the other turns run next to
  it.
* `frontend` starts where the recruiter has uploaded a CV and approved its
  parsing (`LaterInit`), which needs no fault and saves depth. From there
  `MaxEvents` is 3: any three of two more requests for a tool, one click outside
  the dialogs and one fault; presses and dismissals of the dialogs are not
  bounded. That is enough for a second parse job next to the first, a save whose
  answer is lost and that is pressed again, and a logout in a poll.
  `shown_decided` has 4 events.
* In `crawls` two tasks are two crawls of one URL or of two. One URL has a
  trailing path and the suffix `.git`, one has `.git` inside a name
  (`p.github.io`), one has no repository. A push moves a file away and another in
  front; two attempts of a request and one retry of a task stand for 5 and 3,
  since the attempts differ only in the last one giving up; a depth of 2 is the
  source's, and limits of 4 files, 1 directory and 2 snippets cut these trees as
  100, 50 and 5 cut real ones.
* Symmetry is used for processes, requests, confirmations, tenants, chat handlers
  and crawls, in runs that check only safety.
* Deadlock is not checked: with bounded requests, messages and turns every model
  may come to rest.

Fairness. `RequestsEnd` assumes weak fairness of the steps of each open request:
the event loop runs every ready coroutine, and PostgreSQL grants a row lock when
its holder ends. `PoolDrains` assumes weak fairness of each worker process: its
calls out have timeouts (60 s in `langchain_provider.py`, 30 s in
`github_ingestion.py`) so a tool returns or raises, and a free process takes the
next message; `restart: unless-stopped` brings a dead process back. `EndsAreSeen`
assumes weak fairness of the page's script (Streamlit runs it, and its last lines
sleep and start it over, `frontend/streamlit_app.py:600`) and of answers (every
request has a timeout, which raises); no job has to end. No fairness is assumed
of clients, and none of failures. That an access token expires after 30 minutes
is left out: then no poll is answered, which is `PollUnanswered` without end.

### Where the repository says otherwise

Four runs end in a counterexample: something a test, a comment or a document
says that the code does not do. Each is under "findings" with the quotation.

* `decided_once`: two requests that read `pending` before either writes both
  decide. The second overwrites a committed decision; two approvals make two
  jobs. `ToolGate` grants per request for this reason.
* `stuck_queued`: a worker that is faster than the commit of the job's row
  updates nothing, and the row stays `queued`.
* `shown_decided`: a button pressed while a chat message is out is run after the
  reply has put another confirmation in the slot, and decides that one.
* `parsed_offered`: a parse job seen completed while another result waits to be
  saved is dropped, and its result is never offered.

`JobsReachAnEnd` is `ConsumedJobsHaveEnded` without its exception. The latter
excuses a row if a worker has written an end of its job into no row; it is checked
of the pool and proved of the pool and of the pipeline, where no status write
fails. So the race with the commit is the only way, apart from such failures, to a
row that stays queued or running for ever.

## 4. Proofs

Each `...Proofs` module holds for all values of the constants that satisfy the
named assumption of its component: numbers are naturals, and `None` is none of
the values (`StoreAssumption`, `WorkerAssumption`, `ChatAssumption`,
`IngestionAssumption`, `FrontendAssumption`; TLC evaluates all of them). None of
the safety properties is inductive; in each module one inductive invariant implies
them, it is checked by a run, and the theorems named after the properties follow
from it.

**`ConfirmationApiProofs`.**

* `ApiInvariant`: `ApiSpec => []ApiInv`. Whether a task is the approved call
  depends on what the request read (tool and payload) still being what the row
  says: `ReadsAreCurrent`, which holds because rows are only inserted under
  unused ids (`AsksAreNew`) and only their status is updated. That the stored
  hash is of the row is `HashesAreOfTheRow`. `Progress` says what a program
  counter implies about the broker and `jobs`. `StatusIsADecision` needs
  `OneWriterPerRow`: the last of several decisions must be one whose request
  ended in "ok".
* From it: `ApiTypeCorrect`, `OneWriter`, `GateHolds`, `JobRowsHaveTasks`,
  `StatusesAreDecisions`.
* `MismatchesOfFalsyPayloads`: a request is refused as tampered with only when
  the hash of what it read is not the stored one; since what it read is the row
  as read back, and the hash is of the row, only a payload that is read back as
  another can do that (`MismatchesAreNew`, `HashMatchesKept`).
* `NeverReopenedHolds`, the action property, from the invariant and a frame
  lemma per group of actions.
* `ApiImplementsGate`: every step of the API is a step of `ToolGate` or a
  stutter under the mapping. `ReadPending` of an approval is `GrantCall`
  (the call is asked for because its row is committed), `Dispatch` is `Start`
  (the hash of what is dispatched is the hash granted, from `Progress`), an
  insertion is `AskFor`, all others leave the three abstract variables alone.

**`CeleryWorkerProofs`.** `WorkerInvariant` is about the pool by itself, with the
rows of its jobs there or not. `WorkerInv` counts: the copies of a message in the
broker, the processes that work on it and the candidates it has left are at most
one, and one more for each crash (`MessagesAreConserved`), so that a second
candidate of one task needs a crash (`DuplicatesAreRedeliveries`). Whatever is
left of a job goes back to the task that was published for it
(`EffectsHaveTasks`), a repository that `upsert` has found is still there
(`FoundIsStillThere`), and a file is removed only when its parse was reported
(`RemovedIsReported`, `FileOrResult`): to the row of the job, or to no row, which
is all that the code ensures. `Owed` says that a job that nobody has reported the
end of is still in the queue or at a worker (`EndsAreOwed`): `ConsumedJobsSayHow`
assumes that no status write is lost (`~LostStatusWrites`), since one that is
leaves the row as it was, in the code too. `ResultsStay` is the action property.

**`PipelineProofs`.** `PipelineInv` is `ApiInv`, `WorkerInv` and two links between
them: the row of a job is committed once, by the request that is answered 200
(`JobsAreOfAnsweredRequests`), and a file that a confirmation names, or an upload
on its way to be one, is there or has been parsed (`NamedFilesAreThere`), whoever
named it: a model's request can name a file that is there or was, and one that was
is gone because of a parse. The proofs of the two components are used as they are,
because each leaves what the other's invariant is about alone or changes it by one
of its own steps. From it `EffectsAreApproved`, `FilesGoByTheirApproval`,
`PipelineKeepsFiles`, `PipelineJobsSayHow` and `WorkersKeepTheirPromises`; and two
refinements, of `JobView` (`PipelineImplementsView`) and, by the API's steps while
workers stutter, of `ToolGate` (`PipelineImplementsGate`).

**`ChatProofs`, `ChatSummaryProofs`, `ChatPromptProofs`.** `ChatInv` has three
parts, one on top of the other; each module proves one.

* `TurnsInv`: `TurnsHoldTheirSession` (past `_ensure_session` a turn has either
  found the row of its own tenant or is the only one that has inserted it),
  `TurnsCommitTheirOwn`, `MessagesAreTheOwners` and
  `RepliesAndConfirmationsAgree`.
* `SummariesInv`: no two messages have one time (`TimesAreNew`), and a summary has
  counted what was committed and its turn's own (`CountsAreOfMessages`). Since the
  count is awaited before `created_at` is taken, the latest summary need not have
  counted the most; only that no two have one time and that one of them has counted
  the most (`OneIsLatestAndOneCountedMost`) holds. `SummariesKeepUp` is therefore
  about some summary. The count of a turn is soon stale, so it does not follow from
  that but from `BacklogIsBounded`: for every number that a summary has counted,
  committed or not (`CountsMade`), and that no committed one exceeds, the messages
  and two for each turn that may still commit without a greater count (`MayAdd`) stay
  below that number, a threshold and two for each other turn. A turn joins `MayAdd`
  when it counts, by having counted few, and leaves it when it commits.
  `FewArePassedOver` says the same of messages older than a counted one that were not
  counted: their turns were open, with two messages each. `ChatAssumption` has at
  least one handler, since bounds on what "each other turn" adds say nothing of none.
* `SummariesFollow`: the summary that a turn has found to be the latest is one of the
  session, and what the turn has read since fits it (`Follows`), because a later
  statement sees at least what an earlier one has. From it
  `SummariesFollowOneAnother`.
* `PromptsAreComplete`: a turn that reads its window has heard one summary or none
  (`HeardIsCommitted`). Under the two conditions of `PromptsMissLittle`, what the
  prompt misses, among the messages that a summary would be given, is not counted by
  the summary it heard (`MissedIsUntold`). If the window has a message that this
  summary has counted, all that is missed is older and `FewArePassedOver` bounds it
  (`MissedArePassedOver`); otherwise the window, what the summary has counted and
  what is missed are disjoint (`ThreeShares`) and `SummariesKeepUp` does, for the
  summary heard has counted the most.

That a summary follows the one before it is not that every message is in one: a turn
that stays open while others summarise commits messages with old times, and more than
100 newer ones keep them out of the next summary although its count has them. The
bound that the code sets is stated, and no more.

**`GithubIngestionProofs`.** `IngestionInv` says of a crawl, request by request,
from which version and by which attempt each of its fields is (`FieldsSoFar`), and
of which tree its snippets are (`SnippetsSoFar`, `Knows`); a row is the entity of
one finished crawl, hence all by one attempt (`AllBy`). From it
`RowsLackWhatWasRefused`, `RowsAreOneCrawls`, `SnippetsAreTheTrees`. That a row is
of what `parse_owner_repo` makes of its URL is in `IngestionInv` too; that this is
what the URL names (`RowsNameTheirRepositories`) is a fact about sequences of any
length: a path that can be parsed has a first and a last segment that is not empty
(`LeastOf`, `GreatestOf`, from the well-foundedness of the naturals), so its
second one is a name (`NameIsASequence`), and what is left of a name has as many
pieces as the name without a `.git` at its end only if there is no other
(`WithoutGit`). The one hypothesis about URLs is that they are sequences of
segments (`IngestionAssumption`). `TasksEnd` proves the action property
`TasksComeToAnEnd`: every step of a task uses up a retry, finishes a stage, reads
a file or uses up an attempt of a request, however often GitHub answers 429.

**`FrontendProofs`.**

* `FrontendInvariant`: `FrontendSpec => []FrontendInv`. The page and the API
  agree about every id the page holds (`SlotsAreKnown`), every request that is
  out has a row or an id of its own (`CallsFit`), an answer that has come is
  true (`AnswersAreTrue`), and a poll has what it has not seen ended still
  before it or keeps it (`PollDropsNothing`). From it `JobsStayWatched` and
  `SlotsStayUndecided`.
* `SavesArePaidFor`: `FrontendSpec => []SavesInv`, on top of it. For each parse
  job, what is saved of it or on its way to be (`Saves`), the question on the page
  (`Asked`) and the question that a poll may still put there (`MayBeAsked`) add up
  to at most one, and one more for each fault (`Paid`). `StillPaid` lists the ways
  in which a step may move it: a poll turns what may be asked into a question, a
  press turns the question into a save, an answer settles it, and only a fault
  lets one come back. It needs that a list never has a job twice
  (`JobsAreListedOnce`), that a save on its way is undecided
  (`SavingIsUndecided`), and that a job whose approval has come is new
  (`ApprovalsAreNew`). `SavesNeedFaults` is its conclusion.

Only model-checked: liveness under fairness, which the prover does not have
(`RequestsEnd`, `PoolDrains`, `EndsAreSeen`).

## 5. Not modelled

* Celery's visibility timeout (a task longer than it would be delivered twice
  without a death), a publish or a commit whose outcome is unknown to the
  client, and a broker that refuses `self.retry`.
* The connection pools. A chat turn and a decision that waits for a row hold a
  connection of the API's pool of 30 meanwhile; a task's engine is made anew for
  each attempt. Both are listed as hazards.
* What the CV tool extracts, prompts, and the wording of replies. A language model
  that fails in `_extract_structured_data` gives a profile named "Unknown", and
  the job completes.
* Login, tokens and rate limits: they decide the tenant a request acts for, or
  refuse it, which is `Refuse` for the page.
* `tool_execution_node`: registered in the graph, with no edge into it.
* Files other than uploads, which a request that a model wrote may name too.
* The workspace tab and the listings, which change no state.

Noticed, and without a run of its own:

* A payload from the model that is a falsy JSON value is hashed as it is and read
  back as `{}` (`app/infrastructure/database/repositories.py:102`), so its
  approval is refused with "possible tampering"
  (`app/presentation/confirmations.py:106`); `MismatchesAreFalsy`, which is also
  proved, says that nothing else is.
* README.md:122 says "Each LLM call gets recent messages + a session summary":
  between the 21st and the 50th message (`app/config.py:49`) a call has neither
  the oldest messages nor a summary. `PromptsMissLittle` says how many can be
  missing, under two conditions. Without them no constant bounds it, in three ways:
  another turn commits a summary, and more rounds, between the two SELECTs of
  `build_context` (`app/application/memory_service.py:211`, `:218`); messages are
  committed while the model writes the summary, which counts them and was not given
  them (`app/application/chat_service.py:164`, `:181`); and a summary gets a later
  `created_at` (`:188`) than one that has counted more, and is the "latest" from
  then on. `SummariesKeepUp` holds of some summary, not of that one. Messages older
  than the last 100 are in no later summary than those that were given them, and a
  prompt has only the last summary's text.
* The COMPLETED update of a parse may find no row, because the API has not committed
  it yet or never will: it changes nothing and raises nothing
  (`app/infrastructure/database/repositories.py:411`), and the file is removed all
  the same (`app/infrastructure/jobs/tasks.py:170`). The CV and its result are then
  both lost. This is the exception in `Reported`; `FileOrResult` says that there is
  no other.
* A `cv_parsing` request that a model wrote may name any file
  (`app/infrastructure/graph/nodes.py:73`). With its approval the file of a denied
  upload, or of another tenant's, is parsed and removed; `FilesGoByApproval` asks
  only that some human has approved a parse of that file.
* FAILED is committed before the retry (`app/infrastructure/jobs/tasks.py:111`),
  and the page stops polling at it, calling it terminal
  (`frontend/streamlit_app.py:280`), although the job may complete later.
  `JobView` allows it.
* Any completed job is accepted as the parse job of a save
  (`app/presentation/workspace.py:264`, whose docstring says "after a cv_parsing
  job completes").
* `.git` is removed from the middle of names, so `o/p.github.io` is crawled as
  `o/phub.io` (`RowsAreOfTheirUrls` says it is only these); and a URL such as
  `https://github.com//repo` is accepted by the request's pattern and fails in
  every attempt of the task.
* A repository that answers 404 or 403 is a completed job with an empty row, also
  over a row that was full; and of two crawls the one that commits last wins,
  although it may have started first.
* The last job that ends starts the script over, and the message or the logout of
  that run is lost (`frontend/streamlit_app.py:223`). Error answers are falsy, so
  the `elif resp:` that should show them never does
  (`frontend/streamlit_app.py:344`). The refresh token is never used.
* A session opened from the list shows its oldest 50 messages
  (`frontend/streamlit_app.py:413`).
* The tool may run while its confirmation
  is still committed as pending (`app/infrastructure/graph/nodes.py:108` says it
  cannot execute until approved); the file of a denied upload is never removed
  (`app/presentation/workspace.py:207` calls it temporary); `upsert` is a SELECT
  and then an INSERT that can meet the unique constraint (its docstring,
  `app/infrastructure/database/repositories.py:515`, names ON CONFLICT), so of
  two first ingestions of one URL one shows FAILED until its retry.

## 6. Plan

Done: Store, ConfirmationApi with ToolGate, CeleryWorker, Pipeline, JobView,
Chat with the graph, GithubIngestion, Frontend, and for each the inductive
invariant of its safety properties.

Left: every safety and action property of a run that is expected to pass is proved
or is a part of a proved invariant. What more could be shown is for TLC: the
limits of the connection pools, and a model of Celery's visibility timeout.
