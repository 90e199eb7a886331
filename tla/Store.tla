------------------------------- MODULE Store -------------------------------
(***************************************************************************)
(* What the API process and the Celery workers of talent-copilot share:    *)
(* the committed rows of the tables `confirmations` and `jobs`, the upload *)
(* volume and the Redis broker.  A state of this module is a COMMITTED     *)
(* state; what a transaction has written and not yet committed is in the   *)
(* module of the process that runs it.                                     *)
(*                                                                         *)
(* Identifiers are drawn with uuid4() and never collide, so each is named  *)
(* by the call that draws it: a confirmation by the call that asks for it, *)
(* an uploaded file by the upload that saves it (an element of             *)
(* Confirmation too), and a job by the POST /confirm that creates it (an   *)
(* element of Request).                                                    *)
(***************************************************************************)
EXTENDS Naturals

CONSTANTS
  Tenant,        \* tenant ids
  Confirmation,  \* the calls that ask for a tool: confirmation and file ids
  Request,       \* the calls of POST /confirm: job ids
  Url,           \* repository URLs
  Falsy,         \* falsy JSON values other than {}: null, "", 0, [] ...
  Scalar,        \* truthy JSON values that are not objects: "x", 1, [1] ...
  EmptyObject,   \* the JSON object {}
  MaxRetries,    \* max_retries of each Celery task
  None           \* no row, no message, no value

Tool == {"github_ingestion", "cv_parsing", "cv_save"}

\* {"repo_url": u} is u, {"file_path": f, ...} is f, {"parse_job_id": j} is j.
Object  == Url \cup Confirmation \cup Request \cup {EmptyObject}
Payload == Object \cup Falsy \cup Scalar

Attempt == 0 .. 3

VARIABLES
  confirmations,  \* [Confirmation -> row or None]
  jobs,           \* [Request -> row or None]
  files,          \* the uploaded files on the shared volume
  queue,          \* [Request -> [Attempt -> copies of the message in Redis]]
  tasks           \* [Request -> the arguments its messages carry, or None]

storeVars == <<confirmations, jobs, files, queue, tasks>>

-----------------------------------------------------------------------------

DecisionStatus == {"approved", "denied"}
JobStatus      == {"queued", "running", "completed", "failed"}

\* compute_payload_hash: SHA-256 as an injection of what it is computed from.
Digest == [tenant : Tenant, tool : Tool, payload : Payload]

compute_payload_hash(tenant, tool, payload) ==
  [tenant |-> tenant, tool |-> tool, payload |-> payload]

\* Mutant: `... if isinstance(m.tool_payload, dict) else {}`.
PayloadAsReadDict(payload) == IF payload \in Object THEN payload ELSE EmptyObject

\* _confirmation_from_model: `tool_payload=m.tool_payload or {}`.
PayloadAsRead(payload) == IF payload \in Falsy THEN EmptyObject ELSE payload

ConfirmationRow == [tenant : Tenant, tool : Tool, payload : Payload,
                    hash : Digest, status : DecisionStatus \cup {"pending"}]

JobRow == [tenant : Tenant, tool : Tool, status : JobStatus,
           result : BOOLEAN]

Task == [tenant : Tenant, tool : Tool, payload : Payload]

ASSUME StoreAssumption ==
  /\ None \notin Tenant \cup Confirmation \cup Request \cup Payload \cup Tool
  /\ None \notin ConfirmationRow \cup JobRow \cup Task \cup Digest
  /\ Falsy \cap Object = {} /\ Scalar \cap Object = {}
  /\ Confirmation \cap (Url \cup Request \cup {EmptyObject}) = {}
  /\ MaxRetries \in [Tool -> Attempt]

NoMessages == [k \in Attempt |-> 0]

\* Put one copy of job r's message, on its k-th retry, in the broker.
Published(q, r, k) == [q EXCEPT ![r][k] = @ + 1]
Taken(q, r, k)     == [q EXCEPT ![r][k] = @ - 1]

StoreTypeOK ==
  /\ confirmations \in [Confirmation -> ConfirmationRow \cup {None}]
  /\ jobs  \in [Request -> JobRow \cup {None}]
  /\ files \subseteq Confirmation
  /\ queue \in [Request -> [Attempt -> Nat]]
  /\ tasks \in [Request -> Task \cup {None}]

StoreInit ==
  /\ confirmations = [c \in Confirmation |-> None]
  /\ jobs  = [r \in Request |-> None]
  /\ files = {}
  /\ queue = [r \in Request |-> NoMessages]
  /\ tasks = [r \in Request |-> None]

\* Mutant: the SELECT forgets `tenant_id = t`.
HasConfirmationOfAnyTenant(t, c) == confirmations[c] # None /\ t \in Tenant

\* The rows a SELECT ... WHERE tenant_id = t AND id = x returns.
HasConfirmation(t, c) == confirmations[c] # None /\ confirmations[c].tenant = t
HasJob(t, j)          == jobs[j] # None /\ jobs[j].tenant = t
=============================================================================
