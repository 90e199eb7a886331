---------------------------- MODULE CeleryWorker ----------------------------
(***************************************************************************)
(* The Celery pool (docker-compose: --concurrency=2) that runs             *)
(* ingest_github_repo, parse_cv_file and save_candidate_profile.  The      *)
(* tasks have one shape: commit RUNNING, run the tool, commit the result   *)
(* with COMPLETED; on an exception roll back, commit FAILED in a new       *)
(* session and retry.  Messages are acknowledged late, so a process that   *)
(* dies hands its message to another one.  Every action is at most one     *)
(* committed transaction, one operation on the broker, or one on the       *)
(* upload volume.                                                          *)
(***************************************************************************)
EXTENDS Store, FiniteSets

CONSTANTS
  Worker,           \* processes of the pool
  MaxCrashes,       \* bound: deaths of a process in the middle of a task
  LostStatusWrites  \* may the RUNNING and the FAILED updates fail?

ASSUME WorkerAssumption ==
  /\ IsFiniteSet(Worker)
  /\ MaxCrashes \in Nat
  /\ LostStatusWrites \in BOOLEAN
  /\ None \notin Worker

VARIABLES
  slot,          \* [Worker -> the attempt that the process is running]
  candidates,    \* [Request -> rows of `candidates` that save job inserted]
  repositories,  \* [Tenant -> [Url -> rows of `repositories`]]
  crashes,       \* deaths so far
  missed         \* the ends of jobs that were written to no row

workerOnly == <<slot, candidates, repositories, crashes, missed>>
workerVars == <<confirmations, jobs, files, queue, tasks,
                slot, candidates, repositories, crashes, missed>>

-----------------------------------------------------------------------------

EndStatus == {"completed", "failed"}

IdleSlot == [pc |-> "idle", job |-> None, attempt |-> 0, exists |-> FALSE]

SlotState ==
  [pc : {"idle", "received", "running", "commit", "cleanup", "failing",
         "retry", "ack"},
   job : Request \cup {None}, attempt : Attempt,
   exists : BOOLEAN]   \* RepositoryRepo.upsert found the row

Step(w, pc) == slot' = [slot EXCEPT ![w].pc = pc]

TaskOf(w) == tasks[slot[w].job]

WorkerTypeOK ==
  /\ StoreTypeOK
  /\ slot \in [Worker -> SlotState]
  /\ \A w \in Worker : slot[w].pc # "idle" =>
       slot[w].job # None /\ tasks[slot[w].job] # None
  /\ candidates \in [Request -> Nat]
  /\ repositories \in [Tenant -> [Url -> Nat]]
  /\ crashes \in 0 .. MaxCrashes
  /\ missed \subseteq Request \X EndStatus

WorkerOnlyInit ==
  /\ slot = [w \in Worker |-> IdleSlot]
  /\ candidates = [r \in Request |-> 0]
  /\ repositories = [t \in Tenant |-> [u \in Url |-> 0]]
  /\ crashes = 0
  /\ missed = {}

\* The pool by itself starts with a set of jobs whose messages are in the
\* broker, some with their rows, the others without (the commit failed), and
\* with every uploaded file in place.
WorkerInit ==
  /\ confirmations = [c \in Confirmation |-> None]
  /\ tasks \in [Request -> {task \in Task : task.payload \in Object}]
  /\ \E committed \in SUBSET Request :
       jobs = [r \in Request |-> IF r \notin committed THEN None ELSE
                [tenant |-> tasks[r].tenant, tool |-> tasks[r].tool,
                 status |-> "queued", result |-> FALSE]]
  /\ files = Confirmation
  /\ queue = [r \in Request |-> [NoMessages EXCEPT ![0] = 1]]
  /\ WorkerOnlyInit

RowOf(w) == HasJob(TaskOf(w).tenant, slot[w].job)

\* Nobody looks at how many rows the UPDATE has changed.
Note(w, status) ==
  missed' = IF RowOf(w) \/ status \notin EndStatus THEN missed
            ELSE missed \cup {<<slot[w].job, status>>}

\* Mutant: a status without a result clears the result.
update_status_clears(w, status) ==
  /\ jobs' = IF RowOf(w)
             THEN [jobs EXCEPT ![slot[w].job].status = status,
                               ![slot[w].job].result = FALSE] ELSE jobs
  /\ Note(w, status)

\* JobRepository.update_status: an UPDATE by tenant and id, which changes no
\* row, and raises nothing, when the row is not there.
update_status(w, status) ==
  /\ jobs' = IF RowOf(w)
             THEN [jobs EXCEPT ![slot[w].job].status = status] ELSE jobs
  /\ Note(w, status)

\* The same with a result, which is never taken back.
update_result(w) ==
  /\ jobs' = IF RowOf(w)
             THEN [jobs EXCEPT ![slot[w].job].status = "completed",
                               ![slot[w].job].result = TRUE] ELSE jobs
  /\ Note(w, "completed")

-----------------------------------------------------------------------------
(* One attempt *)

\* The process reserves a message: it is out of the queue, not acknowledged.
ReceiveTask(w, r, k) ==
  /\ slot[w].pc = "idle" /\ queue[r][k] > 0
  /\ queue' = Taken(queue, r, k)
  /\ slot' = [slot EXCEPT ![w] =
       [IdleSlot EXCEPT !.pc = "received", !.job = r, !.attempt = k]]
  /\ UNCHANGED <<confirmations, jobs, files, tasks>>
  /\ UNCHANGED <<candidates, repositories, crashes, missed>>

MarkRunning(w) ==
  /\ slot[w].pc = "received"
  /\ update_status(w, "running")
  /\ Step(w, "running")
  /\ UNCHANGED <<confirmations, files, queue, tasks>>
  /\ UNCHANGED <<candidates, repositories, crashes>>

\* GitHubIngestionTool.ingest: a URL with an owner and a repository.
IngestionCanRun(task) == task.payload \in Url

\* CVParserTool.parse: the file is still on the volume.
ParsingCanRun(task) == task.payload \in files

\* Mutant: save_candidate_profile does not check `parse_job.result is None`.
SavesWithoutResult(task) ==
  task.payload \in Request /\ HasJob(task.tenant, task.payload)

\* save_candidate_profile: the job it names is of its tenant and has a result.
SavingCanRun(task) ==
  /\ task.payload \in Request
  /\ HasJob(task.tenant, task.payload)
  /\ jobs[task.payload].result

ToolCanRun(task) ==
  \/ task.tool = "github_ingestion" /\ IngestionCanRun(task)
  \/ task.tool = "cv_parsing" /\ ParsingCanRun(task)
  \/ task.tool = "cv_save" /\ SavingCanRun(task)

\* Mutant: COMPLETED is committed before the rows are inserted.
RunToolCommitsFirst(w) ==
  /\ slot[w].pc = "running"
  /\ ToolCanRun(TaskOf(w))
  /\ update_result(w)
  /\ slot' = [slot EXCEPT ![w].pc = "commit",
       ![w].exists = /\ TaskOf(w).tool = "github_ingestion"
                     /\ repositories[TaskOf(w).tenant][TaskOf(w).payload] > 0]
  /\ UNCHANGED <<confirmations, files, queue, tasks>>
  /\ UNCHANGED <<candidates, repositories, crashes>>

\* The tool returns; upsert has looked for the row of the repository.
RunTool(w) ==
  /\ slot[w].pc = "running"
  /\ ToolCanRun(TaskOf(w))
  /\ slot' = [slot EXCEPT ![w].pc = "commit",
       ![w].exists = /\ TaskOf(w).tool = "github_ingestion"
                     /\ repositories[TaskOf(w).tenant][TaskOf(w).payload] > 0]
  /\ UNCHANGED storeVars
  /\ UNCHANGED <<candidates, repositories, crashes, missed>>

\* Mutant: the file is removed in a `finally`.
AttemptFailsAndCleansUp(w) ==
  /\ slot[w].pc \in {"running", "commit"}
  /\ Step(w, "failing")
  /\ files' = files \ {TaskOf(w).payload}
  /\ UNCHANGED <<confirmations, jobs, queue, tasks>>
  /\ UNCHANGED <<candidates, repositories, crashes, missed>>

\* GitHub, the file, the LLM or the database raises in the try block, the
\* parse job has no result, or the commit fails: rollback.
AttemptFails(w) ==
  /\ slot[w].pc \in {"running", "commit"}
  /\ Step(w, "failing")
  /\ UNCHANGED storeVars
  /\ UNCHANGED <<candidates, repositories, crashes, missed>>

\* Mutant: there is no unique constraint on (tenant_id, repo_url).
NeverCollides(w) == w \notin Worker

\* uq_repo_tenant_url: upsert saw no row, and another one is there by now.
Collides(w) ==
  /\ TaskOf(w).tool = "github_ingestion" /\ ~slot[w].exists
  /\ repositories[TaskOf(w).tenant][TaskOf(w).payload] > 0

UniqueViolation(w) ==
  /\ slot[w].pc = "commit" /\ Collides(w)
  /\ Step(w, "failing")
  /\ UNCHANGED storeVars
  /\ UNCHANGED <<candidates, repositories, crashes, missed>>

\* Mutant: a finished task is retried as a failed one is.
CompleteAndRetry(w) ==
  /\ slot[w].pc = "commit" /\ ~Collides(w)
  /\ update_result(w)
  /\ candidates' = IF TaskOf(w).tool = "cv_save"
                   THEN [candidates EXCEPT ![slot[w].job] = @ + 1]
                   ELSE candidates
  /\ Step(w, "retry")
  /\ UNCHANGED <<confirmations, files, queue, tasks, repositories, crashes>>

\* The tool's rows and COMPLETED with the result, in one commit.
Complete(w) ==
  /\ slot[w].pc = "commit" /\ ~Collides(w)
  /\ update_result(w)
  /\ repositories' =
       IF TaskOf(w).tool = "github_ingestion" /\ ~slot[w].exists
       THEN [repositories EXCEPT
               ![TaskOf(w).tenant][TaskOf(w).payload] = @ + 1]
       ELSE repositories
  /\ candidates' = IF TaskOf(w).tool = "cv_save"
                   THEN [candidates EXCEPT ![slot[w].job] = @ + 1]
                   ELSE candidates
  /\ Step(w, IF TaskOf(w).tool = "cv_parsing" THEN "cleanup" ELSE "ack")
  /\ UNCHANGED <<confirmations, files, queue, tasks, crashes>>

\* parse_cv_file removes its file; an OSError is only logged.
Cleanup(w) ==
  /\ slot[w].pc = "cleanup"
  /\ files' \in {files, files \ {TaskOf(w).payload}}
  /\ Step(w, "ack")
  /\ UNCHANGED <<confirmations, jobs, queue, tasks>>
  /\ UNCHANGED <<candidates, repositories, crashes, missed>>

MarkFailed(w) ==
  /\ slot[w].pc = "failing"
  /\ update_status(w, "failed")
  /\ Step(w, "retry")
  /\ UNCHANGED <<confirmations, files, queue, tasks>>
  /\ UNCHANGED <<candidates, repositories, crashes>>

\* The database refuses the RUNNING or the FAILED update itself: the exception
\* reaches self.retry with the row as it was.
StatusWriteFails(w) ==
  /\ LostStatusWrites
  /\ slot[w].pc \in {"received", "failing"}
  /\ Step(w, "retry")
  /\ UNCHANGED storeVars
  /\ UNCHANGED <<candidates, repositories, crashes, missed>>

\* Mutant: the retries are not counted.
RetryForever(w) ==
  /\ slot[w].pc = "retry"
  /\ queue' = Published(queue, slot[w].job, slot[w].attempt)
  /\ Step(w, "ack")
  /\ UNCHANGED <<confirmations, jobs, files, tasks>>
  /\ UNCHANGED <<candidates, repositories, crashes, missed>>

\* self.retry: publish the next attempt, or give up after max_retries.
Retry(w) ==
  /\ slot[w].pc = "retry"
  /\ queue' = IF slot[w].attempt < MaxRetries[TaskOf(w).tool]
              THEN Published(queue, slot[w].job, slot[w].attempt + 1)
              ELSE queue
  /\ Step(w, "ack")
  /\ UNCHANGED <<confirmations, jobs, files, tasks>>
  /\ UNCHANGED <<candidates, repositories, crashes, missed>>

\* acks_late: the message leaves the broker when the task has ended.
Ack(w) ==
  /\ slot[w].pc = "ack"
  /\ slot' = [slot EXCEPT ![w] = IdleSlot]
  /\ UNCHANGED storeVars
  /\ UNCHANGED <<candidates, repositories, crashes, missed>>

\* Mutant: the message is acknowledged when it is received.
CrashAfterEarlyAck(w) ==
  /\ slot[w].pc # "idle" /\ crashes < MaxCrashes
  /\ crashes' = crashes + 1
  /\ slot' = [slot EXCEPT ![w] = IdleSlot]
  /\ UNCHANGED storeVars /\ UNCHANGED <<candidates, repositories, missed>>

\* The process dies; task_reject_on_worker_lost puts its message back.
Crash(w) ==
  /\ slot[w].pc # "idle" /\ crashes < MaxCrashes
  /\ crashes' = crashes + 1
  /\ queue' = Published(queue, slot[w].job, slot[w].attempt)
  /\ slot' = [slot EXCEPT ![w] = IdleSlot]
  /\ UNCHANGED <<confirmations, jobs, files, tasks>>
  /\ UNCHANGED <<candidates, repositories, missed>>

-----------------------------------------------------------------------------

Work(w) ==
  \/ \E r \in Request, k \in Attempt : ReceiveTask(w, r, k)
  \/ MarkRunning(w)
  \/ RunTool(w)
  \/ AttemptFails(w)
  \/ UniqueViolation(w)
  \/ Complete(w)
  \/ Cleanup(w)
  \/ MarkFailed(w)
  \/ StatusWriteFails(w)
  \/ Retry(w)
  \/ Ack(w)

WorkerNext == \E w \in Worker : Work(w) \/ Crash(w)

WorkerSpec == WorkerInit /\ [][WorkerNext]_workerVars

\* A live process takes the next step of its task, the tool returns or raises
\* (every call out has a timeout), and a free process takes a message.
WorkerFairness == \A w \in Worker : WF_workerVars(Work(w))

FairWorkerSpec == WorkerSpec /\ WorkerFairness

-----------------------------------------------------------------------------
(* Properties *)

\* A copy of job r's message is in the broker or with a process.
InFlight(r) ==
  \/ \E k \in Attempt : queue[r][k] > 0
  \/ \E w \in Worker : slot[w].job = r

\* A worker has committed the result of job r, though maybe into no row.
Reported(r) == \/ jobs[r] # None /\ jobs[r].result
               \/ <<r, "completed">> \in missed

HasEnded(r) == \/ jobs[r] # None /\ jobs[r].status \in EndStatus
               \/ \E status \in EndStatus : <<r, status>> \in missed

\* A job whose messages are all consumed shows its client how it ended, unless
\* a worker said so before the row was there: no retry, crash or redelivery
\* drops the last message of an unfinished job.
ConsumedJobsHaveEnded ==
  \A r \in Request :
    jobs[r] # None /\ tasks[r] # None /\ ~InFlight(r) => HasEnded(r)

\* The file c has been parsed.
Parsed(c) ==
  \E r \in Request : /\ tasks[r] # None /\ tasks[r].tool = "cv_parsing"
                      /\ tasks[r].payload = c /\ Reported(r)

\* A CV that a task names is on the volume until a parse of it has succeeded:
\* no failed attempt, crash or second job on the same file loses it.  What was
\* parsed is then in a job, unless its update found no row: only that loses
\* the CV and the result of it both.
FileOrResult ==
  \A r \in Request :
    tasks[r] # None /\ tasks[r].payload \in Confirmation \ files =>
      Parsed(tasks[r].payload)

\* Every candidate row was built from the result of a job of its own tenant,
\* which is still there however often either job was redelivered.
CandidatesHaveASource ==
  \A r \in Request : candidates[r] > 0 =>
    /\ tasks[r].tool = "cv_save" /\ tasks[r].payload \in Request
    /\ HasJob(tasks[r].tenant, tasks[r].payload)
    /\ jobs[tasks[r].payload].result

\* A save job inserts its candidate once, and once more for each time a
\* process died before the acknowledgement: at-least-once, and no worse.
DuplicatesNeedCrashes == \A r \in Request : candidates[r] <= 1 + crashes

\* A result that a client can read came with its rows, in one commit: a saved
\* candidate or the repository of the URL is there whenever the job says so.
ResultsHaveTheirRows ==
  \A r \in Request : jobs[r] # None =>
    /\ jobs[r].status = "completed" => jobs[r].result
    /\ jobs[r].result /\ tasks[r].tool = "cv_save" => candidates[r] > 0
    /\ jobs[r].result /\ tasks[r].tool = "github_ingestion" =>
         /\ tasks[r].payload \in Url
         /\ repositories[tasks[r].tenant][tasks[r].payload] > 0

\* Workers that upsert one URL at the same time leave one row.
OneRepositoryPerUrl ==
  \A t \in Tenant, u \in Url : repositories[t][u] <= 1

\* A redelivered or retried attempt, running or failed, leaves the result of
\* an earlier one readable: a client that was shown a result can save it.
ResultsAreKept ==
  [][\A r \in Request : jobs[r] # None /\ jobs[r].result =>
       jobs'[r] # None /\ jobs'[r].result]_workerVars

\* Retries, redeliveries and crashes come to an end: from some time on no
\* message is left and every process is free.
PoolDrains == <>[](\A r \in Request : ~InFlight(r))
-----------------------------------------------------------------------------
(* The inductive invariant behind the properties above *)

\* Whatever is left of a job goes back to the task that was published for it.
EffectsHaveTasks ==
  /\ \A r \in Request :
       IF tasks[r] = None
       THEN /\ jobs[r] = None /\ candidates[r] = 0
            /\ \A k \in Attempt : queue[r][k] = 0
       ELSE jobs[r] # None => jobs[r].tenant = tasks[r].tenant
  /\ \A t \in Tenant, u \in Url : repositories[t][u] > 0 =>
       \E r \in Request :
         tasks[r] = [tenant |-> t, tool |-> "github_ingestion", payload |-> u]

\* What the tool found is still there when its attempt commits, and only an
\* attempt to parse has a file to remove.
FoundIsStillThere ==
  \A w \in Worker :
    /\ slot[w].pc = "commit" =>
         /\ TaskOf(w).tool = "github_ingestion" =>
              /\ TaskOf(w).payload \in Url
              /\ slot[w].exists =>
                   repositories[TaskOf(w).tenant][TaskOf(w).payload] > 0
         /\ TaskOf(w).tool = "cv_save" => SavingCanRun(TaskOf(w))
    /\ slot[w].pc = "cleanup" => TaskOf(w).tool = "cv_parsing"

\* The messages of job r that are not spent: in the broker, or with a process
\* that has neither committed the result nor published the retry.
Copies(r) == queue[r][0] + queue[r][1] + queue[r][2] + queue[r][3]

Working(r) ==
  {w \in Worker : /\ slot[w].job = r
                  /\ slot[w].pc \notin {"idle", "cleanup", "ack"}}

\* A message is spent by the candidate it leaves; only a death makes another.
MessagesAreConserved ==
  \A r \in Request :
    Copies(r) + Cardinality(Working(r)) + candidates[r] <= 1 + crashes

\* Only what has been parsed is removed.
RemovedIsReported ==
  \A w \in Worker : slot[w].pc = "cleanup" => Reported(slot[w].job)

\* Somebody still has to say how job r ended.
Owed(r) ==
  \/ \E k \in Attempt : queue[r][k] > 0
  \/ \E w \in Worker :
       /\ slot[w].job = r
       /\ slot[w].pc \in {"received", "running", "commit", "failing"}

EndsAreOwed == \A r \in Request : tasks[r] # None => Owed(r) \/ HasEnded(r)

\* Of the pool by itself, and beside the API.
WorkerInv ==
  /\ WorkerTypeOK
  /\ EffectsHaveTasks
  /\ FoundIsStillThere
  /\ MessagesAreConserved
  /\ CandidatesHaveASource
  /\ ResultsHaveTheirRows
  /\ OneRepositoryPerUrl
  /\ RemovedIsReported
  /\ FileOrResult
  /\ ~LostStatusWrites => EndsAreOwed
=============================================================================
