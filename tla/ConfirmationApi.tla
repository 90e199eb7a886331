-------------------------- MODULE ConfirmationApi --------------------------
(***************************************************************************)
(* The human-in-the-loop gate of the API process: the handlers that ask    *)
(* for a tool (each leaves a `pending` confirmation) and POST /confirm,    *)
(* which decides a confirmation and, when it is approved, creates a job    *)
(* and publishes its task.                                                 *)
(*                                                                         *)
(* One handler call is one PostgreSQL transaction at READ COMMITTED, begun *)
(* by get_async_session and committed after the endpoint returns; the      *)
(* handlers of one process interleave at every await.  A request's writes  *)
(* are implied by its program counter until Commit moves them to the rows  *)
(* of Store, so a rollback is only a change of pc.  Publishing to the      *)
(* broker is not transactional: it happens in Dispatch and stays.          *)
(***************************************************************************)
EXTENDS Store

VARIABLES
  asks,  \* [Confirmation -> what the call is about to ask for, or None]
  req    \* [Request -> the state of that POST /confirm]

apiVars == <<confirmations, jobs, files, queue, tasks, asks, req>>

-----------------------------------------------------------------------------
(* Requests *)

\* In the transaction, before and after its UPDATE of the confirmation row.
Open   == {"read", "updated", "created", "published"}
Locked == {"updated", "created", "published"}

\* 200, 404, 409 already decided, 409 hash mismatch, 500 or a lost request.
Ended == {"ok", "not_found", "conflict", "mismatch", "failed"}

RequestState == [pc : Open \cup Ended \cup {"idle"},
                 tenant : Tenant \cup {None},
                 conf : Confirmation \cup {None},
                 approved : BOOLEAN,
                 tool : Tool \cup {None},
                 payload : Payload \cup {None}]

IdleRequest == [pc |-> "idle", tenant |-> None, conf |-> None,
                approved |-> FALSE, tool |-> None, payload |-> None]

Goto(r, pc) == req' = [req EXCEPT ![r].pc = pc]

\* Mutants: the UPDATE takes no lock; a rolled back request keeps its lock.
RowNeverLocked(c) == c \in Confirmation
RowLockLeaks(c) ==
  \A q \in Request :
    ~(req[q].pc \in Locked \cup {"mismatch", "failed"} /\ req[q].conf = c)

\* PostgreSQL's row lock: the UPDATE waits for every other writer of the row.
RowFree(c) == \A q \in Request : ~(req[q].pc \in Locked /\ req[q].conf = c)

ApiTypeOK ==
  /\ StoreTypeOK
  /\ asks \in [Confirmation -> Task \cup {None}]
  /\ req  \in [Request -> RequestState]

ApiInit ==
  /\ StoreInit
  /\ asks = [c \in Confirmation |-> None]
  /\ req  = [r \in Request |-> IdleRequest]

-----------------------------------------------------------------------------
(* Asking for a tool *)

\* The files there are, and those there were: a file that is gone was removed
\* by a parse, which a row still names.
Uploads ==
  files \cup {f \in Confirmation : \E c \in Confirmation :
                  confirmations[c] # None /\ confirmations[c].payload = f}

Unused(c) == confirmations[c] = None /\ asks[c] = None /\ c \notin Uploads

\* ConfirmationService.request_confirmation: the hash is computed from the
\* payload as given, the row is what a later SELECT maps to an entity.
request_confirmation(c, t, tool, p) ==
  confirmations' = [confirmations EXCEPT ![c] =
    [tenant |-> t, tool |-> tool, payload |-> p,
     hash |-> compute_payload_hash(t, tool, p), status |-> "pending"]]

\* POST /ingest/github: one INSERT and the commit.
RequestGithubIngestion(c, t, u) ==
  /\ Unused(c)
  /\ request_confirmation(c, t, "github_ingestion", u)
  /\ UNCHANGED <<jobs, files, queue, tasks, asks, req>>

\* confirmation_pending_node, at the commit of its chat turn: the tool is a
\* ToolName, the payload any JSON value the model wrote, which may name the
\* file of any upload, of any tenant, parsed, denied or undecided.  (A path
\* that names no file is as good as {}.)
ConfirmationPendingNode(c, t, tool, p) ==
  /\ Unused(c)
  /\ request_confirmation(c, t, tool, p)
  /\ UNCHANGED <<jobs, files, queue, tasks, asks, req>>

\* POST /upload/cv: the file is on the volume before the row is inserted.
SaveUpload(c, t) ==
  /\ Unused(c)
  /\ files' = files \cup {c}
  /\ asks' = [asks EXCEPT ![c] =
       [tenant |-> t, tool |-> "cv_parsing", payload |-> c]]
  /\ UNCHANGED <<confirmations, jobs, queue, tasks, req>>

\* POST /upload/cv/save-confirmation: the job is read, whatever its tool ...
CheckParseJob(c, t, j) ==
  /\ Unused(c)
  /\ HasJob(t, j) /\ jobs[j].status = "completed" /\ jobs[j].result
  /\ asks' = [asks EXCEPT ![c] =
       [tenant |-> t, tool |-> "cv_save", payload |-> j]]
  /\ UNCHANGED storeVars /\ UNCHANGED req

\* Mutant: the hash is taken of the tool the job was for.
InsertAskedForParsing(c) ==
  /\ asks[c] # None
  /\ confirmations' = [confirmations EXCEPT ![c] =
       [tenant |-> asks[c].tenant, tool |-> asks[c].tool,
        payload |-> asks[c].payload, status |-> "pending",
        hash |-> compute_payload_hash(asks[c].tenant, "cv_parsing",
                                      asks[c].payload)]]
  /\ asks' = [asks EXCEPT ![c] = None]
  /\ UNCHANGED <<jobs, files, queue, tasks, req>>

\* ... and then the confirmation is inserted and committed,
InsertAsked(c) ==
  /\ asks[c] # None
  /\ request_confirmation(c, asks[c].tenant, asks[c].tool, asks[c].payload)
  /\ asks' = [asks EXCEPT ![c] = None]
  /\ UNCHANGED <<jobs, files, queue, tasks, req>>

\* unless the INSERT, the commit or the process fails in between.
AskFails(c) ==
  /\ asks[c] # None
  /\ asks' = [asks EXCEPT ![c] = None]
  /\ UNCHANGED storeVars /\ UNCHANGED req

-----------------------------------------------------------------------------
(* POST /confirm *)

PendingFor(t, c) ==
  HasConfirmation(t, c) /\ confirmations[c].status = "pending"

\* decide: the SELECT returns a pending row.
ReadPending(r, t, c, approved) ==
  /\ req[r].pc = "idle"
  /\ PendingFor(t, c)
  /\ req' = [req EXCEPT ![r] =
       [pc |-> "read", tenant |-> t, conf |-> c, approved |-> approved,
        tool |-> confirmations[c].tool,
        payload |-> PayloadAsRead(confirmations[c].payload)]]
  /\ UNCHANGED storeVars /\ UNCHANGED asks

\* decide: the SELECT returns nothing (404) or a decided row (409).
Refuse(r, t, c) ==
  /\ req[r].pc = "idle"
  /\ ~PendingFor(t, c)
  /\ Goto(r, IF HasConfirmation(t, c) THEN "conflict" ELSE "not_found")
  /\ UNCHANGED storeVars /\ UNCHANGED asks

\* Mutant: the UPDATE is committed at once, outside the transaction.
UpdateStatusAutocommit(r) ==
  /\ req[r].pc = "read"
  /\ RowFree(req[r].conf)
  /\ Goto(r, "updated")
  /\ confirmations' = [confirmations EXCEPT ![req[r].conf].status =
       IF req[r].approved THEN "approved" ELSE "denied"]
  /\ UNCHANGED <<jobs, files, queue, tasks, asks>>

\* decide: UPDATE confirmations SET status ... WHERE tenant_id AND id.
UpdateStatus(r) ==
  /\ req[r].pc = "read"
  /\ RowFree(req[r].conf)
  /\ Goto(r, "updated")
  /\ UNCHANGED storeVars /\ UNCHANGED asks

\* validate_for_execution: the transaction reads its own "approved"; the hash
\* is recomputed from the tool and the payload as decide read them.
HashMatches(r) ==
  compute_payload_hash(confirmations[req[r].conf].tenant,
                       req[r].tool, req[r].payload)
    = confirmations[req[r].conf].hash

\* Mutant: the tool is executed without validate_for_execution.
CreateJobUnvalidated(r) ==
  /\ req[r].pc = "updated" /\ req[r].approved
  /\ Goto(r, "created")
  /\ UNCHANGED storeVars /\ UNCHANGED asks

\* Mutant: `if not body.approved: return` is missing.
CreateJobOnDenial(r) ==
  /\ req[r].pc = "updated"
  /\ HashMatches(r)
  /\ Goto(r, "created")
  /\ UNCHANGED storeVars /\ UNCHANGED asks

\* execute_tool_after_approval: validate, then INSERT the job row.
CreateJob(r) ==
  /\ req[r].pc = "updated" /\ req[r].approved
  /\ HashMatches(r)
  /\ Goto(r, "created")
  /\ UNCHANGED storeVars /\ UNCHANGED asks

\* ConfirmationHashMismatch: 409 and rollback.
HashMismatch(r) ==
  /\ req[r].pc = "updated" /\ req[r].approved
  /\ ~HashMatches(r)
  /\ Goto(r, "mismatch")
  /\ UNCHANGED storeVars /\ UNCHANGED asks

\* dispatch_tool_task: .delay() puts the message in Redis, before the commit.
Dispatch(r) ==
  /\ req[r].pc = "created"
  /\ req[r].payload \in Object
  /\ queue' = Published(queue, r, 0)
  /\ tasks' = [tasks EXCEPT ![r] =
       [tenant |-> req[r].tenant, tool |-> req[r].tool,
        payload |-> req[r].payload]]
  /\ Goto(r, "published")
  /\ UNCHANGED <<confirmations, jobs, files, asks>>

\* dispatch_tool_task: `tool_payload.get` raises on anything but an object.
DispatchRaises(r) ==
  /\ req[r].pc = "created"
  /\ req[r].payload \notin Object
  /\ Goto(r, "failed")
  /\ UNCHANGED storeVars /\ UNCHANGED asks

\* Mutant: the job is committed before its task is published.
CommitBeforeDispatch(r) ==
  /\ req[r].pc = (IF req[r].approved THEN "created" ELSE "updated")
  /\ confirmations' = [confirmations EXCEPT ![req[r].conf].status =
       IF req[r].approved THEN "approved" ELSE "denied"]
  /\ jobs' = IF req[r].approved
             THEN [jobs EXCEPT ![r] =
                    [tenant |-> req[r].tenant, tool |-> req[r].tool,
                     status |-> "queued", result |-> FALSE]]
             ELSE jobs
  /\ Goto(r, "ok")
  /\ UNCHANGED <<files, queue, tasks, asks>>

\* get_async_session: the commit of a decision, with the job of an approval.
Commit(r) ==
  /\ req[r].pc = (IF req[r].approved THEN "published" ELSE "updated")
  /\ confirmations' = [confirmations EXCEPT ![req[r].conf].status =
       IF req[r].approved THEN "approved" ELSE "denied"]
  /\ jobs' = IF req[r].approved
             THEN [jobs EXCEPT ![r] =
                    [tenant |-> req[r].tenant, tool |-> req[r].tool,
                     status |-> "queued", result |-> FALSE]]
             ELSE jobs
  /\ Goto(r, "ok")
  /\ UNCHANGED <<files, queue, tasks, asks>>

\* Mutant: the row is set back to "pending" in place of a rollback.
AbortByReset(r) ==
  /\ req[r].pc \in Open
  /\ Goto(r, "failed")
  /\ confirmations' = [confirmations EXCEPT ![req[r].conf].status = "pending"]
  /\ UNCHANGED <<jobs, files, queue, tasks, asks>>

\* An exception in the handler, a refused publish or commit, a lost
\* connection, or the death of the process: the transaction rolls back.
Abort(r) ==
  /\ req[r].pc \in Open
  /\ Goto(r, "failed")
  /\ UNCHANGED storeVars /\ UNCHANGED asks

-----------------------------------------------------------------------------

Ask ==
  \E c \in Confirmation :
     \/ \E t \in Tenant, u \in Url : RequestGithubIngestion(c, t, u)
     \/ \E t \in Tenant, tool \in Tool,
          p \in (Payload \ Confirmation) \cup Uploads :
          ConfirmationPendingNode(c, t, tool, p)
     \/ \E t \in Tenant : SaveUpload(c, t)
     \/ \E t \in Tenant, j \in Request : CheckParseJob(c, t, j)
     \/ InsertAsked(c)
     \/ AskFails(c)

Receive(r) ==
  \E t \in Tenant, c \in Confirmation, approved \in BOOLEAN :
     ReadPending(r, t, c, approved) \/ Refuse(r, t, c)

Handle(r) ==
  \/ UpdateStatus(r)
  \/ CreateJob(r)
  \/ HashMismatch(r)
  \/ Dispatch(r)
  \/ DispatchRaises(r)
  \/ Commit(r)

ApiNext ==
  \/ Ask
  \/ \E r \in Request : Receive(r) \/ Handle(r) \/ Abort(r)

ApiSpec == ApiInit /\ [][ApiNext]_apiVars

\* asyncio resumes every handler that can go on, and PostgreSQL grants a row
\* lock once its holder has ended.  Nobody has to ask or to send a request,
\* and nothing has to fail.
ApiFairness == \A r \in Request : WF_apiVars(Handle(r))

FairApiSpec == ApiSpec /\ ApiFairness

-----------------------------------------------------------------------------
(* Properties *)

\* Two decisions of one confirmation never hold its row at once: what decide
\* wrote is still there when validate_for_execution reads it back.
OneWriterPerRow ==
  \A q, r \in Request :
    /\ req[q].pc \in Locked /\ req[r].pc \in Locked
    /\ req[q].conf = req[r].conf
    => q = r

\* The promise of the gate: every task ever handed to the broker was approved
\* by the human whose request created it, in the tenant of the confirmation,
\* and is the tool and the payload that the confirmation's hash was taken of.
TaskIsTheApprovedCall ==
  \A r \in Request : tasks[r] # None =>
    /\ req[r].approved
    /\ confirmations[req[r].conf] # None
    /\ confirmations[req[r].conf].hash =
         compute_payload_hash(tasks[r].tenant, tasks[r].tool, tasks[r].payload)

\* A job row that a client can poll has had its message published: no row
\* waits for a task that nobody sent, whatever step of the handler failed.
JobRowHasTask == \A r \in Request : jobs[r] # None => tasks[r] # None

\* A decided row shows the decision of a request that was answered 200, and
\* an approved row has a job: a failed request never leaves half of its work.
StatusIsADecision ==
  \A c \in Confirmation :
    confirmations[c] # None /\ confirmations[c].status # "pending" =>
      \E r \in Request :
        /\ req[r].pc = "ok" /\ req[r].conf = c
        /\ req[r].approved <=> confirmations[c].status = "approved"
        /\ req[r].approved => jobs[r] # None

\* Once a decision is committed nothing makes the confirmation pending again,
\* and what it asks for never changes under the human who decides it.
NeverReopened ==
  [][\A c \in Confirmation : confirmations[c] # None =>
       /\ confirmations'[c] # None
       /\ confirmations'[c].hash = confirmations[c].hash
       /\ confirmations[c].status # "pending" =>
            confirmations'[c].status # "pending"]_apiVars

\* An approval is refused as tampered with only when the payload was stored as
\* a falsy value, which is read back as {}: the 409 says "possible tampering",
\* and no step of this module changes a stored payload.
MismatchesAreFalsy ==
  \A r \in Request : req[r].pc = "mismatch" =>
    confirmations[req[r].conf].payload \in Falsy

\* Every request that opened a transaction is answered: no set of concurrent
\* decisions waits for a row lock forever.
RequestsEnd ==
  \A r \in Request : req[r].pc \in Open ~> req[r].pc \in Ended

-----------------------------------------------------------------------------
(* The inductive invariant behind the properties above *)

\* The requests that have read a pending row; the others know of none.
Deciding == Open \cup {"ok", "mismatch", "failed"}

\* What a request read is still what the row says, but for the status: rows
\* are never deleted, and nothing rewrites what a confirmation asks for.
ReadsAreCurrent ==
  \A r \in Request :
    IF req[r].pc \in Deciding
    THEN /\ req[r].conf # None /\ confirmations[req[r].conf] # None
         /\ req[r].tenant = confirmations[req[r].conf].tenant
         /\ req[r].tool = confirmations[req[r].conf].tool
         /\ req[r].payload = PayloadAsRead(confirmations[req[r].conf].payload)
    ELSE req[r].tool = None

\* What a call is about to insert is not there yet.
AsksAreNew ==
  \A c \in Confirmation : asks[c] # None => confirmations[c] = None

HashesAreOfTheRow ==
  \A c \in Confirmation : confirmations[c] # None =>
    confirmations[c].hash =
      compute_payload_hash(confirmations[c].tenant, confirmations[c].tool,
                           confirmations[c].payload)

\* How far a request is says what it has left in the broker and in `jobs`.
ProgressOf(r) ==
  /\ req[r].pc \in {"created", "published"} => req[r].approved /\ HashMatches(r)
  /\ req[r].pc = "published" => tasks[r] # None
  /\ tasks[r] # None =>
       /\ req[r].pc \in {"published", "ok", "failed"}
       /\ req[r].approved /\ HashMatches(r)
       /\ tasks[r] = [tenant |-> req[r].tenant, tool |-> req[r].tool,
                      payload |-> req[r].payload]
  /\ jobs[r] # None => tasks[r] # None
  /\ req[r].pc = "ok" /\ req[r].approved => jobs[r] # None

Progress == \A r \in Request : ProgressOf(r)

ApiInv ==
  /\ ApiTypeOK
  /\ AsksAreNew
  /\ ReadsAreCurrent
  /\ HashesAreOfTheRow
  /\ Progress
  /\ OneWriterPerRow
  /\ StatusIsADecision

-----------------------------------------------------------------------------
(* What the repository says and the code does not do *)

\* What test_hitl.py says of decide: "Cannot decide a confirmation that has
\* already been decided."
DecidedOnce ==
  [][\A c \in Confirmation :
       confirmations[c] # None /\ confirmations[c].status # "pending" =>
         confirmations'[c] = confirmations[c]]_apiVars
=============================================================================
