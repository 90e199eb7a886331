--------------------------- MODULE PipelineProofs ---------------------------
(***************************************************************************)
(* Proofs about the API and the Celery pool together.  The invariants of   *)
(* the two are proved of their steps in ConfirmationApiProofs and          *)
(* CeleryWorkerProofs; here each is shown to survive the other's steps.    *)
(***************************************************************************)
EXTENDS Pipeline, ConfirmationApiProofs, CeleryWorkerProofs

-----------------------------------------------------------------------------
(* What a step of the API leaves to the workers *)

\* The arguments of a task and the row of a job are written once.
LEMMA ApiKeeps ==
  ASSUME ApiInv, JobsAreOfAnsweredRequests, ApiNext, NEW r \in Request
  PROVE  /\ tasks[r] # None => tasks'[r] = tasks[r]
         /\ jobs[r] # None => jobs'[r] = jobs[r] /\ req'[r].pc = "ok"
         /\ tasks[r] = None /\ tasks'[r] # None => Dispatch(r)
         /\ jobs[r] = None /\ jobs'[r] # None => Commit(r)
<1>. USE DEF ApiInv
<1>1. CASE Ask
  BY <1>1, AskFrame DEF JobsAreOfAnsweredRequests
<1>2. ASSUME NEW q \in Request, Receive(q) \/ Handle(q) \/ Abort(q)
      PROVE  /\ tasks[r] # None => tasks'[r] = tasks[r]
             /\ jobs[r] # None => jobs'[r] = jobs[r] /\ req'[r].pc = "ok"
             /\ tasks[r] = None /\ tasks'[r] # None => Dispatch(r)
             /\ jobs[r] = None /\ jobs'[r] # None => Commit(r)
  <2>1. CASE q # r
    BY <1>2, <2>1, RequestFrame DEF JobsAreOfAnsweredRequests
  <2>2. CASE q = r
    <3>1. jobs[r] # None => req[r].pc = "ok"
      BY DEF JobsAreOfAnsweredRequests
    <3>2. req[r].pc # "ok"
      BY <1>2, <2>2 DEF Receive, ReadPending, Refuse, Handle, UpdateStatus,
        CreateJob, HashMismatch, Dispatch, DispatchRaises, Commit, Abort, Open
    <3>3. Dispatch(r) => tasks[r] = None
      BY DEF Dispatch, Progress, ProgressOf
    <3>. QED BY <1>2, <2>2, <3>1, <3>2, <3>3, RequestFrame
  <2>. QED BY <2>1, <2>2
<1>. QED BY <1>1, <1>2 DEF ApiNext

\* The API removes no file.
LEMMA ApiFiles ==
  ASSUME ApiNext
  PROVE  files \subseteq files'
BY DEF ApiNext, Ask, RequestGithubIngestion, ConfirmationPendingNode,
  SaveUpload, CheckParseJob, InsertAsked, AskFails, Receive, ReadPending,
  Refuse, Handle, UpdateStatus, CreateJob, HashMismatch, Dispatch,
  DispatchRaises, Commit, Abort, storeVars

\* A message is published by a Dispatch, for a task that was not there.
LEMMA ApiPublishes ==
  ASSUME ApiInv, ApiNext
  PROVE  \/ queue' = queue
         \/ \E r \in Request :
              /\ Dispatch(r) /\ tasks[r] = None /\ tasks'[r] # None
              /\ queue' = Published(queue, r, 0)
<1>. USE DEF ApiInv
<1>1. CASE Ask
  BY <1>1, AskFrame
<1>2. ASSUME NEW r \in Request, Dispatch(r)
      PROVE  /\ tasks[r] = None /\ tasks'[r] # None
             /\ queue' = Published(queue, r, 0)
  <2>1. tasks[r] = None /\ queue' = Published(queue, r, 0)
    BY <1>2 DEF Dispatch, Progress, ProgressOf
  <2>2. tasks' \in [Request -> Task \cup {None}]
    BY <1>2, TypeStep DEF ApiNext, Handle, ApiTypeOK, StoreTypeOK
  <2>3. tasks'[r] = [tenant |-> req[r].tenant, tool |-> req[r].tool,
                     payload |-> req[r].payload]
    BY <1>2 DEF Dispatch, ApiTypeOK, StoreTypeOK
  <2>4. tasks'[r] \in Task
    <3>1. req[r].pc \in Deciding /\ req[r].payload \in Object
      BY <1>2 DEF Dispatch, Deciding, Open
    <3>2. /\ req[r].conf \in Confirmation
          /\ confirmations[req[r].conf] \in ConfirmationRow
          /\ req[r].tenant = confirmations[req[r].conf].tenant
          /\ req[r].tool = confirmations[req[r].conf].tool
      BY <3>1 DEF ReadsAreCurrent, ApiTypeOK, RequestState, StoreTypeOK
    <3>. QED BY <2>3, <3>1, <3>2 DEF ConfirmationRow, Task, Payload
  <2>. QED BY <2>1, <2>4, StoreAssumption
<1>3. ASSUME NEW r \in Request, Receive(r) \/ Handle(r) \/ Abort(r),
             ~Dispatch(r)
      PROVE  queue' = queue
  BY <1>3 DEF Receive, ReadPending, Refuse, Handle, UpdateStatus, CreateJob,
    HashMismatch, DispatchRaises, Commit, Abort, storeVars
<1>. QED BY <1>1, <1>2, <1>3 DEF ApiNext

-----------------------------------------------------------------------------
(* The invariant of the workers survives a step of the API *)

LEMMA ApiKeepsWorkerTypes ==
  ASSUME ApiInv, WorkerTypeOK, JobsAreOfAnsweredRequests, ApiStep
  PROVE  WorkerTypeOK'
<1>1. ApiNext /\ UNCHANGED workerOnly
  BY DEF ApiStep
<1>2. StoreTypeOK'
  BY <1>1, ApiInvStep DEF ApiInv, ApiTypeOK
<1>3. ASSUME NEW w \in Worker, slot[w].pc # "idle"
      PROVE  tasks'[slot[w].job] # None
  BY <1>1, <1>3, ApiKeeps, SlotHasTask DEF TaskOf
<1>. QED BY <1>1, <1>2, <1>3 DEF WorkerTypeOK, workerOnly

\* A commit inserts the row of a task that was published by its request.
LEMMA CommittedJob ==
  ASSUME ApiInv, NEW r \in Request, Commit(r), req[r].approved
  PROVE  /\ jobs[r] = None => jobs'[r] \in JobRow
         /\ tasks[r] # None /\ jobs'[r].tenant = tasks[r].tenant
         /\ jobs'[r].status = "queued" /\ ~jobs'[r].result
<1>. USE DEF ApiInv
<1>1. req[r].pc = "published"
  BY DEF Commit
<1>2. tasks[r] # None
      /\ tasks[r] = [tenant |-> req[r].tenant, tool |-> req[r].tool,
                     payload |-> req[r].payload]
  BY <1>1 DEF Progress, ProgressOf
<1>3. jobs'[r] = [tenant |-> req[r].tenant, tool |-> req[r].tool,
                  status |-> "queued", result |-> FALSE]
  BY DEF Commit, ApiTypeOK, StoreTypeOK
<1>4. req[r].tenant \in Tenant /\ req[r].tool \in Tool
  <2>1. tasks[r] \in Task
    BY <1>2 DEF ApiTypeOK, StoreTypeOK
  <2>. QED BY <1>2, <2>1 DEF Task
<1>. QED BY <1>2, <1>3, <1>4 DEF JobRow, JobStatus

LEMMA ApiKeepsEffects ==
  ASSUME ApiInv, WorkerTypeOK, EffectsHaveTasks, JobsAreOfAnsweredRequests,
         ApiStep
  PROVE  EffectsHaveTasks'
<1>1. ApiNext /\ candidates' = candidates /\ repositories' = repositories
  BY DEF ApiStep, workerOnly
<1>2. ApiInv'
  BY <1>1, ApiInvStep
<1>3. ASSUME NEW r \in Request, tasks'[r] = None
      PROVE  /\ jobs'[r] = None /\ candidates'[r] = 0
             /\ \A k \in Attempt : queue'[r][k] = 0
  <2>1. tasks[r] = None
    BY <1>1, <1>3, ApiKeeps
  <2>2. jobs'[r] = None
    BY <1>2, <1>3 DEF ApiInv, Progress, ProgressOf
  <2>3. candidates'[r] = 0 /\ \A k \in Attempt : queue[r][k] = 0
    BY <1>1, <2>1 DEF EffectsHaveTasks
  <2>4. ASSUME NEW q \in Request, tasks'[q] # None,
               queue' = Published(queue, q, 0)
        PROVE  queue'[r] = queue[r]
    BY <1>3, <2>4 DEF Published, WorkerTypeOK, StoreTypeOK
  <2>. QED BY <1>1, <2>2, <2>3, <2>4, ApiPublishes
<1>4. ASSUME NEW r \in Request, jobs'[r] # None
      PROVE  jobs'[r].tenant = tasks'[r].tenant
  <2>1. CASE jobs[r] # None
    <3>1. tasks[r] # None /\ jobs[r].tenant = tasks[r].tenant
      BY <2>1 DEF EffectsHaveTasks
    <3>. QED BY <1>1, <2>1, <3>1, ApiKeeps
  <2>2. CASE jobs[r] = None
    <3>1. Commit(r)
      BY <1>1, <1>4, <2>2, ApiKeeps
    <3>2. req[r].approved /\ tasks' = tasks
      BY <1>4, <2>2, <3>1 DEF Commit
    <3>. QED BY <3>1, <3>2, CommittedJob
  <2>. QED BY <2>1, <2>2
<1>5. ASSUME NEW t \in Tenant, NEW u \in Url, repositories'[t][u] > 0
      PROVE  \E r \in Request : tasks'[r] =
               [tenant |-> t, tool |-> "github_ingestion", payload |-> u]
  <2>1. PICK r \in Request : tasks[r] =
          [tenant |-> t, tool |-> "github_ingestion", payload |-> u]
    BY <1>1, <1>5 DEF EffectsHaveTasks
  <2>2. tasks[r] # None
    <3>1. [tenant |-> t, tool |-> "github_ingestion", payload |-> u] \in Task
      BY DEF Task, Tool, Payload, Object
    <3>. QED BY <2>1, <3>1, StoreAssumption
  <2>. QED BY <1>1, <2>1, <2>2, ApiKeeps
<1>. QED BY <1>3, <1>4, <1>5 DEF EffectsHaveTasks

LEMMA ApiKeepsFound ==
  ASSUME ApiInv, WorkerTypeOK, FoundIsStillThere, JobsAreOfAnsweredRequests,
         ApiStep
  PROVE  FoundIsStillThere'
<1>1. ApiNext /\ slot' = slot /\ repositories' = repositories
  BY DEF ApiStep, workerOnly
<1>2. ASSUME NEW w \in Worker, slot[w].pc # "idle"
      PROVE  TaskOf(w)' = TaskOf(w)
  BY <1>1, <1>2, ApiKeeps, SlotHasTask DEF TaskOf
<1>3. ASSUME NEW task, SavingCanRun(task)
      PROVE  SavingCanRun(task)'
  BY <1>1, <1>3, ApiKeeps DEF SavingCanRun, HasJob
<1>. QED BY <1>1, <1>2, <1>3 DEF FoundIsStillThere

\* A request publishes one message, for a job that had none.
LEMMA ApiKeepsConserved ==
  ASSUME ApiInv, WorkerTypeOK, EffectsHaveTasks, MessagesAreConserved,
         JobsAreOfAnsweredRequests, ApiStep
  PROVE  MessagesAreConserved'
<1>1. ApiNext /\ slot' = slot /\ candidates' = candidates /\ crashes' = crashes
  BY DEF ApiStep, workerOnly
<1>2. SUFFICES ASSUME NEW r \in Request
               PROVE  Copies(r)' + Cardinality(Working(r)') + candidates'[r]
                        <= 1 + crashes'
  BY DEF MessagesAreConserved
<1>3. Working(r)' = Working(r)
  BY <1>1 DEF Working
<1>4. Copies(r) + Cardinality(Working(r)) + candidates[r] <= 1 + crashes
  BY DEF MessagesAreConserved
<1>5. CASE queue' = queue
  BY <1>1, <1>3, <1>4, <1>5 DEF Copies
<1>6. ASSUME NEW q \in Request, tasks[q] = None,
             queue' = Published(queue, q, 0)
      PROVE  Copies(r)' + Cardinality(Working(r)') + candidates'[r]
               <= 1 + crashes'
  <2>1. Copies(r)' = IF r = q THEN Copies(r) + 1 ELSE Copies(r)
    BY <1>6, CopiesPublished DEF Attempt
  <2>2. CASE r # q
    BY <1>1, <1>3, <1>4, <2>1, <2>2
  <2>3. CASE r = q
    <3>1. Copies(r) = 0 /\ candidates[r] = 0
      BY <1>6, <2>3 DEF EffectsHaveTasks, Copies, Attempt
    <3>2. Working(r) = {}
      <4>1. \A w \in Worker : slot[w].pc # "idle" => slot[w].job # r
        BY <1>6, <2>3 DEF WorkerTypeOK
      <4>. QED BY <4>1 DEF Working
    <3>3. Cardinality(Working(r)) = 0
      BY <3>2, FS_EmptySet
    <3>4. crashes \in Nat
      BY WorkerAssumption DEF WorkerTypeOK
    <3>. QED BY <1>1, <1>3, <2>1, <2>3, <3>1, <3>3, <3>4
  <2>. QED BY <2>2, <2>3
<1>. QED BY <1>1, <1>5, <1>6, ApiPublishes

LEMMA ApiKeepsRows ==
  ASSUME ApiInv, WorkerInv, JobsAreOfAnsweredRequests, ApiStep
  PROVE  CandidatesHaveASource' /\ ResultsHaveTheirRows' /\ OneRepositoryPerUrl'
<1>1. /\ ApiNext /\ candidates' = candidates /\ repositories' = repositories
      /\ WorkerTypeOK /\ EffectsHaveTasks
  BY DEF ApiStep, workerOnly, WorkerInv
<1>2. ASSUME NEW r \in Request, candidates[r] > 0
      PROVE  /\ tasks'[r].tool = "cv_save" /\ tasks'[r].payload \in Request
             /\ HasJob(tasks[r].tenant, tasks[r].payload)'
             /\ jobs'[tasks'[r].payload].result
  <2>1. tasks'[r] = tasks[r]
    BY <1>1, <1>2, ApiKeeps DEF EffectsHaveTasks
  <2>2. /\ tasks[r].tool = "cv_save" /\ tasks[r].payload \in Request
        /\ HasJob(tasks[r].tenant, tasks[r].payload)
        /\ jobs[tasks[r].payload].result
    BY <1>2 DEF CandidatesHaveASource, WorkerInv
  <2>. QED BY <1>1, <2>1, <2>2, ApiKeeps DEF HasJob
<1>3. ASSUME NEW r \in Request, jobs'[r] # None
      PROVE  /\ jobs'[r].status = "completed" => jobs'[r].result
             /\ jobs'[r].result /\ tasks'[r].tool = "cv_save" =>
                  candidates'[r] > 0
             /\ jobs'[r].result /\ tasks'[r].tool = "github_ingestion" =>
                  /\ tasks'[r].payload \in Url
                  /\ repositories'[tasks'[r].tenant][tasks'[r].payload] > 0
  <2>1. CASE jobs[r] # None
    <3>1. tasks'[r] = tasks[r] /\ jobs'[r] = jobs[r]
      BY <1>1, <2>1, ApiKeeps DEF EffectsHaveTasks
    <3>. QED BY <1>1, <2>1, <3>1 DEF WorkerInv, ResultsHaveTheirRows
  <2>2. CASE jobs[r] = None
    <3>1. Commit(r)
      BY <1>1, <1>3, <2>2, ApiKeeps
    <3>2. req[r].approved
      BY <1>3, <2>2, <3>1 DEF Commit
    <3>. QED BY <3>1, <3>2, CommittedJob
  <2>. QED BY <2>1, <2>2
<1>4. OneRepositoryPerUrl'
  BY <1>1 DEF WorkerInv, OneRepositoryPerUrl
<1>5. CandidatesHaveASource'
  BY <1>1, <1>2 DEF CandidatesHaveASource, HasJob
<1>6. ResultsHaveTheirRows'
  BY <1>3 DEF ResultsHaveTheirRows
<1>. QED BY <1>4, <1>5, <1>6

\* What a worker has reported stays so, and with it what has been parsed.
LEMMA ApiKeepsReports ==
  ASSUME ApiInv, JobsAreOfAnsweredRequests, ApiStep, NEW r \in Request
  PROVE  /\ Reported(r) => Reported(r)'
         /\ HasEnded(r) => HasEnded(r)'
BY ApiKeeps DEF Reported, HasEnded, ApiStep, workerOnly

LEMMA ApiKeepsParsed ==
  ASSUME ApiInv, JobsAreOfAnsweredRequests, ApiStep,
         NEW f \in Confirmation, Parsed(f)
  PROVE  Parsed(f)'
<1>1. PICK r \in Request : /\ tasks[r] # None /\ tasks[r].tool = "cv_parsing"
                           /\ tasks[r].payload = f /\ Reported(r)
  BY DEF Parsed
<1>2. tasks'[r] = tasks[r] /\ Reported(r)'
  BY <1>1, ApiKeeps, ApiKeepsReports DEF ApiStep
<1>. QED BY <1>1, <1>2 DEF Parsed

LEMMA ApiKeepsRemoved ==
  ASSUME ApiInv, WorkerTypeOK, RemovedIsReported, JobsAreOfAnsweredRequests,
         ApiStep
  PROVE  RemovedIsReported'
<1>1. slot' = slot
  BY DEF ApiStep, workerOnly
<1>2. ASSUME NEW w \in Worker, slot[w].pc = "cleanup",
             NEW j, j = slot[w].job
      PROVE  Reported(j)'
  BY <1>2, SlotHasTask, ApiKeepsReports DEF RemovedIsReported
<1>. QED BY <1>1, <1>2 DEF RemovedIsReported

\* A task is published for what its confirmation names, which is there.
LEMMA ApiKeepsFileOrResult ==
  ASSUME ApiInv, FileOrResult, NamedFilesAreThere, JobsAreOfAnsweredRequests,
         ApiStep
  PROVE  FileOrResult'
<1>1. ApiNext
  BY DEF ApiStep
<1>2. files \subseteq files'
  BY <1>1, ApiFiles
<1>3. ASSUME NEW r \in Request, tasks'[r] # None,
             NEW f \in Confirmation, tasks'[r].payload = f, f \notin files'
      PROVE  Parsed(f)
  <2>1. CASE tasks[r] # None
    BY <1>1, <1>2, <1>3, <2>1, ApiKeeps DEF FileOrResult
  <2>2. CASE tasks[r] = None
    <3>1. Dispatch(r)
      BY <1>1, <1>3, <2>2, ApiKeeps
    <3>2. req[r].payload = f
      BY <1>3, <3>1 DEF Dispatch, ApiInv, ApiTypeOK, StoreTypeOK
    <3>. DEFINE c == req[r].conf
    <3>3. /\ c \in Confirmation /\ confirmations[c] # None
          /\ req[r].payload = PayloadAsRead(confirmations[c].payload)
      BY <3>1 DEF Dispatch, Deciding, Open, ApiInv, ReadsAreCurrent,
        ApiTypeOK, RequestState
    <3>4. confirmations[c].payload = f
      BY <3>2, <3>3, StoreAssumption DEF PayloadAsRead
    <3>5. Named(f)
      BY <3>3, <3>4 DEF Named, Names
    <3>. QED BY <1>2, <1>3, <3>5 DEF NamedFilesAreThere
  <2>. QED BY <2>1, <2>2
<1>4. ASSUME NEW r \in Request, tasks'[r] # None,
             NEW f \in Confirmation, tasks'[r].payload = f, f \notin files'
      PROVE  Parsed(f)'
  BY <1>3, <1>4, ApiKeepsParsed
<1>. QED BY <1>4 DEF FileOrResult

\* A job that somebody still has to end stays so, and a new one has a message.
LEMMA ApiKeepsEnds ==
  ASSUME ApiInv, WorkerTypeOK, EndsAreOwed, JobsAreOfAnsweredRequests, ApiStep
  PROVE  EndsAreOwed'
<1>1. ApiNext /\ slot' = slot
  BY DEF ApiStep, workerOnly
<1>2. queue \in [Request -> [Attempt -> Nat]]
  BY DEF WorkerTypeOK, StoreTypeOK
<1>3. ASSUME NEW q \in Request, queue' = Published(queue, q, 0)
      PROVE  /\ queue'[q][0] > 0
             /\ \A r \in Request, k \in Attempt :
                  queue[r][k] > 0 => queue'[r][k] > 0
  BY <1>2, <1>3 DEF Published, Attempt
<1>4. ASSUME NEW r \in Request, Owed(r)
      PROVE  Owed(r)'
  <2>1. \A k \in Attempt : queue[r][k] > 0 => queue'[r][k] > 0
    BY <1>1, <1>3, ApiPublishes
  <2>. QED BY <1>1, <1>4, <2>1 DEF Owed
<1>5. ASSUME NEW r \in Request, tasks'[r] # None
      PROVE  Owed(r)' \/ HasEnded(r)'
  <2>1. CASE tasks[r] # None
    BY <1>4, <2>1, ApiKeepsReports DEF EndsAreOwed
  <2>2. CASE tasks[r] = None
    <3>1. Dispatch(r)
      BY <1>1, <1>5, <2>2, ApiKeeps
    <3>2. queue'[r][0] > 0 /\ 0 \in Attempt
      BY <1>3, <3>1 DEF Dispatch, Attempt
    <3>. QED BY <3>2 DEF Owed
  <2>. QED BY <2>1, <2>2
<1>. QED BY <1>5 DEF EndsAreOwed

LEMMA ApiKeepsWorkerInv ==
  ASSUME ApiInv, WorkerInv, NamedFilesAreThere, JobsAreOfAnsweredRequests,
         ApiStep
  PROVE  WorkerInv'
BY ApiKeepsWorkerTypes, ApiKeepsEffects, ApiKeepsFound, ApiKeepsConserved,
   ApiKeepsRows, ApiKeepsRemoved, ApiKeepsFileOrResult, ApiKeepsEnds
DEF WorkerInv

-----------------------------------------------------------------------------
(* Jobs and uploaded files *)

LEMMA ApiKeepsAnswers ==
  ASSUME ApiInv, JobsAreOfAnsweredRequests, ApiStep
  PROVE  JobsAreOfAnsweredRequests'
<1>1. ASSUME NEW r \in Request, jobs'[r] # None
      PROVE  req'[r].pc = "ok"
  <2>1. Commit(r) => req'[r].pc = "ok"
    BY DEF Commit, Goto, ApiInv, ApiTypeOK, RequestState
  <2>. QED BY <1>1, <2>1, ApiKeeps DEF ApiStep
<1>. QED BY <1>1 DEF JobsAreOfAnsweredRequests

\* What a handler that asks for a tool names is a new file, what it was about
\* to ask for, or the file of an upload; every other call stays as it is.
AskStep(c) ==
  /\ files \subseteq files'
  /\ \A f \in Confirmation :
       /\ Names(asks'[c], f) => Names(asks[c], f) \/ f \in files'
       /\ Names(confirmations'[c], f) =>
            Names(confirmations[c], f) \/ Names(asks[c], f) \/ f \in Uploads

LEMMA AskRows ==
  ASSUME ApiInv, Ask, NEW c \in Confirmation
  PROVE  AskStep(c)
<1>. USE DEF AskStep, Names
<1>1. /\ asks \in [Confirmation -> Task \cup {None}]
      /\ confirmations \in [Confirmation -> ConfirmationRow \cup {None}]
  BY DEF ApiInv, ApiTypeOK, StoreTypeOK
<1>2. ASSUME NEW d \in Confirmation, NEW t \in Tenant, NEW tool \in Tool,
             NEW p \in Payload, request_confirmation(d, t, tool, p)
      PROVE  /\ c # d => confirmations'[c] = confirmations[c]
             /\ c = d => /\ confirmations'[c] # None
                         /\ confirmations'[c].tool = tool
                         /\ confirmations'[c].payload = p
  <2>1. confirmations' \in [Confirmation -> ConfirmationRow \cup {None}]
    BY <1>2, RequestConfirmationType DEF ApiInv, ApiTypeOK
  <2>. DEFINE row == [tenant |-> t, tool |-> tool, payload |-> p,
                      hash |-> compute_payload_hash(t, tool, p),
                      status |-> "pending"]
  <2>2. confirmations' = [confirmations EXCEPT ![d] = row]
    BY <1>2 DEF request_confirmation
  <2>3. row \in ConfirmationRow
    BY DEF ConfirmationRow, Digest, compute_payload_hash
  <2>4. row # None /\ row.tool = tool /\ row.payload = p
    BY <2>3, StoreAssumption
  <2>. HIDE DEF row
  <2>. QED BY <1>1, <2>2, <2>4
<1>3. ASSUME NEW d \in Confirmation, NEW t \in Tenant, NEW u \in Url,
             RequestGithubIngestion(d, t, u)
      PROVE  AskStep(c)
  <2>1. "github_ingestion" \in Tool /\ u \in Payload
    BY DEF Tool, Payload, Object
  <2>. QED BY <1>2, <1>3, <2>1, StoreAssumption DEF RequestGithubIngestion
<1>4. ASSUME NEW d \in Confirmation, NEW t \in Tenant, NEW tool \in Tool,
             NEW p \in (Payload \ Confirmation) \cup Uploads,
             ConfirmationPendingNode(d, t, tool, p)
      PROVE  AskStep(c)
  <2>1. p \in Payload
    BY AskedPayloads DEF ApiInv
  <2>. QED BY <1>2, <1>4, <2>1 DEF ConfirmationPendingNode
<1>5. ASSUME NEW d \in Confirmation, NEW t \in Tenant, SaveUpload(d, t)
      PROVE  AskStep(c)
  <2>. DEFINE ask == [tenant |-> t, tool |-> "cv_parsing", payload |-> d]
  <2>1. /\ asks' = [asks EXCEPT ![d] = ask] /\ files' = files \cup {d}
        /\ confirmations' = confirmations
    BY <1>5 DEF SaveUpload
  <2>2. ask \in Task /\ ask # None
    <3>1. ask \in Task
      BY DEF Task, Tool, Payload, Object
    <3>. QED BY <3>1, StoreAssumption
  <2>3. ask.payload = d
    OBVIOUS
  <2>. HIDE DEF ask
  <2>. QED BY <1>1, <2>1, <2>2, <2>3
<1>6. ASSUME NEW d \in Confirmation, NEW t \in Tenant, NEW j \in Request,
             CheckParseJob(d, t, j)
      PROVE  AskStep(c)
  <2>. DEFINE ask == [tenant |-> t, tool |-> "cv_save", payload |-> j]
  <2>1. /\ asks' = [asks EXCEPT ![d] = ask] /\ files' = files
        /\ confirmations' = confirmations
    BY <1>6 DEF CheckParseJob, storeVars
  <2>2. ask \in Task /\ ask # None
    <3>1. ask \in Task
      BY DEF Task, Tool, Payload, Object
    <3>. QED BY <3>1, StoreAssumption
  <2>3. ask.payload \notin Confirmation
    BY StoreAssumption
  <2>. HIDE DEF ask
  <2>. QED BY <1>1, <2>1, <2>2, <2>3
<1>7. ASSUME NEW d \in Confirmation, InsertAsked(d)
      PROVE  AskStep(c)
  <2>1. asks[d] \in Task
    BY <1>1, <1>7 DEF InsertAsked
  <2>2. asks[d].tenant \in Tenant /\ asks[d].tool \in Tool
        /\ asks[d].payload \in Payload
    BY <2>1 DEF Task
  <2>3. asks' = [asks EXCEPT ![d] = None] /\ files' = files /\ asks[d] # None
    BY <1>7 DEF InsertAsked
  <2>4. request_confirmation(d, asks[d].tenant, asks[d].tool, asks[d].payload)
    BY <1>7 DEF InsertAsked
  <2>. QED BY <1>1, <1>2, <2>2, <2>3, <2>4
<1>8. ASSUME NEW d \in Confirmation, AskFails(d)
      PROVE  AskStep(c)
  BY <1>1, <1>8 DEF AskFails, storeVars
<1>. QED BY <1>3, <1>4, <1>5, <1>6, <1>7, <1>8 DEF Ask

\* What a call names after a step was named before it, or is a file.
LEMMA ApiNames ==
  ASSUME ApiInv, ApiNext, NEW f \in Confirmation, Named(f)'
  PROVE  Named(f) \/ f \in files'
<1>1. PICK c \in Confirmation : Names(asks'[c], f) \/ Names(confirmations'[c], f)
  BY DEF Named
<1>2. CASE Ask
  <2>1. \/ Names(asks[c], f) \/ Names(confirmations[c], f)
        \/ f \in files' \/ f \in Uploads
    BY <1>1, <1>2, AskRows DEF AskStep
  <2>2. f \in Uploads => f \in files \/ Named(f)
    BY DEF Uploads, Named, Names
  <2>3. files \subseteq files'
    BY <1>2, AskRows DEF AskStep
  <2>. QED BY <2>1, <2>2, <2>3 DEF Named
<1>3. ASSUME NEW r \in Request, Receive(r) \/ Handle(r) \/ Abort(r)
      PROVE  Named(f)
  <2>1. asks' = asks
    BY <1>3, RequestFrame DEF ApiInv
  <2>2. Names(confirmations'[c], f) => Names(confirmations[c], f)
    <3>1. CASE confirmations' = confirmations
      BY <3>1
    <3>2. CASE Commit(r)
      BY <3>2, CommitRows DEF ApiInv, SameCall, Names
    <3>. QED BY <1>3, <3>1, <3>2, RequestFrame DEF ApiInv
  <2>. QED BY <1>1, <2>1, <2>2 DEF Named
<1>. QED BY <1>2, <1>3 DEF ApiNext

LEMMA ApiKeepsFiles ==
  ASSUME ApiInv, JobsAreOfAnsweredRequests, NamedFilesAreThere, ApiStep
  PROVE  NamedFilesAreThere'
<1>1. ApiNext /\ files \subseteq files'
  BY ApiFiles DEF ApiStep
<1>2. ASSUME NEW f \in Confirmation, Named(f)'
      PROVE  f \in files' \/ Parsed(f)'
  BY <1>1, <1>2, ApiNames, ApiKeepsParsed DEF NamedFilesAreThere
<1>. QED BY <1>2 DEF NamedFilesAreThere

-----------------------------------------------------------------------------
(* The invariant of the API survives a step of a worker *)

\* A worker changes no confirmation, request or task, and no job row comes or
\* goes.
LEMMA WorkerKeeps ==
  ASSUME WorkerInv, WorkerStep
  PROVE  /\ confirmations' = confirmations /\ tasks' = tasks
         /\ asks' = asks /\ req' = req
         /\ \A r \in Request : jobs'[r] = None <=> jobs[r] = None
<1>1. WorkerNext /\ asks' = asks /\ req' = req
  BY DEF WorkerStep
<1>2. \A r \in Request : jobs'[r] = None <=> jobs[r] = None
  BY <1>1, JobSteps DEF WorkerNext, WorkerInv
<1>. QED BY <1>1, <1>2, WorkerFrame

LEMMA WorkerKeepsApiInv ==
  ASSUME ApiInv, WorkerInv, WorkerStep
  PROVE  ApiInv'
<1>1. WorkerTypeOK'
  BY WorkerInvStep DEF WorkerStep, WorkerInv
<1>2. ApiTypeOK'
  BY <1>1, WorkerKeeps DEF ApiInv, ApiTypeOK, WorkerTypeOK
<1>3. AsksAreNew' /\ ReadsAreCurrent' /\ HashesAreOfTheRow' /\ OneWriterPerRow'
  BY WorkerKeeps DEF ApiInv, AsksAreNew, ReadsAreCurrent, HashesAreOfTheRow,
    OneWriterPerRow
<1>4. Progress'
  <2>1. ASSUME NEW r \in Request
        PROVE  ProgressOf(r)'
    <3>1. ProgressOf(r)
      BY DEF ApiInv, Progress
    <3>2. HashMatches(r)' <=> HashMatches(r)
      BY WorkerKeeps DEF HashMatches, compute_payload_hash
    <3>. QED BY <3>1, <3>2, WorkerKeeps DEF ProgressOf
  <2>. QED BY <2>1 DEF Progress
<1>5. StatusIsADecision'
  BY WorkerKeeps DEF ApiInv, StatusIsADecision
<1>. QED BY <1>2, <1>3, <1>4, <1>5 DEF ApiInv

\* A worker that removes a file has parsed it.
LEMMA WorkerKeepsFiles ==
  ASSUME WorkerInv, NamedFilesAreThere, WorkerStep
  PROVE  NamedFilesAreThere'
<1>1. WorkerTypeOK /\ FoundIsStillThere /\ RemovedIsReported
  BY DEF WorkerInv
<1>2. PICK w \in Worker : Work(w) \/ Crash(w)
  BY DEF WorkerStep, WorkerNext
<1>3. ASSUME NEW f \in Confirmation, Parsed(f)
      PROVE  Parsed(f)'
  BY <1>1, <1>2, <1>3, WorkerKeeps, ReportsStay DEF Parsed
<1>4. ASSUME NEW f \in Confirmation, f \in files, f \notin files'
      PROVE  Parsed(f)
  <2>1. Cleanup(w) /\ f = TaskOf(w).payload
    BY <1>2, <1>4 DEF Work, Crash, ReceiveTask, MarkRunning, RunTool,
      AttemptFails, UniqueViolation, Complete, Cleanup, MarkFailed,
      StatusWriteFails, Retry, Ack, storeVars
  <2>2. /\ slot[w].job \in Request /\ TaskOf(w) # None
        /\ TaskOf(w).tool = "cv_parsing" /\ Reported(slot[w].job)
    BY <1>1, <2>1, SlotHasTask DEF Cleanup, FoundIsStillThere,
      RemovedIsReported
  <2>. QED BY <2>1, <2>2 DEF TaskOf, Parsed
<1>. QED BY <1>3, <1>4, WorkerKeeps DEF NamedFilesAreThere, Named

-----------------------------------------------------------------------------
(* Theorems *)

LEMMA PipelineInitInv ==
  ASSUME PipelineInit
  PROVE  PipelineInv
<1>1. ApiInv
  BY ApiInitInv DEF PipelineInit
<1>2. /\ jobs = [r \in Request |-> None]
      /\ tasks = [r \in Request |-> None]
      /\ queue = [r \in Request |-> NoMessages]
      /\ confirmations = [c \in Confirmation |-> None]
      /\ asks = [c \in Confirmation |-> None]
      /\ slot = [w \in Worker |-> IdleSlot]
      /\ candidates = [r \in Request |-> 0]
      /\ repositories = [t \in Tenant |-> [u \in Url |-> 0]]
      /\ crashes = 0 /\ missed = {}
  BY DEF PipelineInit, ApiInit, StoreInit, WorkerOnlyInit
<1>3. \A w \in Worker : slot[w].pc = "idle" /\ slot[w].job = None
  BY <1>2 DEF IdleSlot
<1>4. WorkerTypeOK
  <2>1. IdleSlot \in SlotState
    BY DEF IdleSlot, SlotState, Attempt
  <2>. QED BY <1>1, <1>2, <1>3, <2>1, WorkerAssumption
       DEF WorkerTypeOK, ApiInv, ApiTypeOK
<1>5. EffectsHaveTasks
  <2>1. \A t \in Tenant, u \in Url : ~(repositories[t][u] > 0)
    BY <1>2
  <2>. QED BY <1>2, <2>1 DEF EffectsHaveTasks, NoMessages
<1>6. FoundIsStillThere
  BY <1>3 DEF FoundIsStillThere
<1>7. MessagesAreConserved
  <2>1. ASSUME NEW r \in Request
        PROVE  Copies(r) + Cardinality(Working(r)) + candidates[r] <= 1 + crashes
    <3>1. Working(r) = {}
      BY <1>3 DEF Working
    <3>2. Cardinality(Working(r)) = 0
      BY <3>1, FS_EmptySet
    <3>3. Copies(r) = 0
      BY <1>2 DEF Copies, NoMessages, Attempt
    <3>. QED BY <1>2, <3>2, <3>3
  <2>. QED BY <2>1 DEF MessagesAreConserved
<1>8. CandidatesHaveASource /\ ResultsHaveTheirRows /\ OneRepositoryPerUrl
  BY <1>2 DEF CandidatesHaveASource, ResultsHaveTheirRows, OneRepositoryPerUrl
<1>9. JobsAreOfAnsweredRequests /\ NamedFilesAreThere
  BY <1>2 DEF JobsAreOfAnsweredRequests, NamedFilesAreThere, Named, Names
<1>10. RemovedIsReported /\ FileOrResult /\ EndsAreOwed
  BY <1>2, <1>3 DEF RemovedIsReported, FileOrResult, EndsAreOwed
<1>. QED BY <1>1, <1>4, <1>5, <1>6, <1>7, <1>8, <1>9, <1>10
         DEF PipelineInv, WorkerInv

LEMMA PipelineInvStep ==
  ASSUME PipelineInv, [PipelineNext]_pipelineVars
  PROVE  PipelineInv'
<1>. USE DEF PipelineInv
<1>1. CASE ApiStep
  <2>1. ApiInv'
    BY <1>1, ApiInvStep DEF ApiStep
  <2>. QED BY <1>1, <2>1, ApiKeepsWorkerInv, ApiKeepsAnswers, ApiKeepsFiles
<1>2. CASE WorkerStep
  <2>1. WorkerInv'
    BY <1>2, WorkerInvStep DEF WorkerStep
  <2>2. JobsAreOfAnsweredRequests'
    BY <1>2, WorkerKeeps DEF JobsAreOfAnsweredRequests
  <2>. QED BY <1>2, <2>1, <2>2, WorkerKeepsApiInv, WorkerKeepsFiles
<1>3. CASE UNCHANGED pipelineVars
  <2>1. UNCHANGED apiVars /\ UNCHANGED workerVars
    BY <1>3 DEF pipelineVars, apiVars, workerVars
  <2>2. ApiInv' /\ WorkerInv'
    BY <2>1, ApiInvStep, WorkerInvStep
  <2>. QED BY <2>1, <2>2 DEF apiVars, workerVars, JobsAreOfAnsweredRequests,
         NamedFilesAreThere, Named, Parsed, Reported
<1>. QED BY <1>1, <1>2, <1>3 DEF PipelineNext

\* The invariants of the two hold of the composed system, however the steps of
\* requests and of workers interleave.
THEOREM PipelineInvariant == PipelineSpec => []PipelineInv
BY PipelineInitInv, PipelineInvStep, PTL DEF PipelineSpec

\* A task in the broker is the call that its request's confirmation was for.
LEMMA TaskWasApproved ==
  ASSUME ApiInv, NEW r \in Request, tasks[r] # None
  PROVE  /\ ApprovedBy(r, tasks[r].tenant, tasks[r].tool, tasks[r].payload)
         /\ req[r].conf \in Confirmation
<1>1. ProgressOf(r)
  BY DEF ApiInv, Progress
<1>2. req[r].pc \in Deciding
  BY <1>1 DEF ProgressOf, Deciding, Open
<1>3. /\ req[r].conf \in Confirmation /\ confirmations[req[r].conf] # None
      /\ req[r].tenant = confirmations[req[r].conf].tenant
  BY <1>2 DEF ApiInv, ReadsAreCurrent, ApiTypeOK, RequestState
<1>4. /\ req[r].approved /\ HashMatches(r)
      /\ tasks[r].tenant = req[r].tenant /\ tasks[r].tool = req[r].tool
      /\ tasks[r].payload = req[r].payload
  BY <1>1 DEF ProgressOf
<1>. QED BY <1>3, <1>4 DEF ApprovedBy, HashMatches, compute_payload_hash

\* Whatever a worker runs or leaves in a table was approved by a human of the
\* tenant, for this tool and payload.
THEOREM EffectsAreApproved == PipelineSpec => []EffectsWereApproved
<1>1. ASSUME PipelineInv
      PROVE  EffectsWereApproved
  <2>1. ASSUME NEW w \in Worker, slot[w].pc # "idle"
        PROVE  ApprovedBy(slot[w].job, TaskOf(w).tenant, TaskOf(w).tool,
                          TaskOf(w).payload)
    BY <1>1, <2>1, SlotHasTask, TaskWasApproved
    DEF PipelineInv, WorkerInv, TaskOf
  <2>2. ASSUME NEW r \in Request, candidates[r] > 0
        PROVE  ApprovedBy(r, tasks[r].tenant, "cv_save", tasks[r].payload)
    <3>1. tasks[r] # None /\ tasks[r].tool = "cv_save"
      BY <1>1, <2>2 DEF PipelineInv, WorkerInv, EffectsHaveTasks,
        CandidatesHaveASource
    <3>. QED BY <1>1, <3>1, TaskWasApproved DEF PipelineInv
  <2>3. ASSUME NEW t \in Tenant, NEW u \in Url, repositories[t][u] > 0
        PROVE  \E r \in Request : ApprovedBy(r, t, "github_ingestion", u)
    <3>1. PICK r \in Request : tasks[r] =
            [tenant |-> t, tool |-> "github_ingestion", payload |-> u]
      BY <1>1, <2>3 DEF PipelineInv, WorkerInv, EffectsHaveTasks
    <3>2. tasks[r] # None
      <4>1. [tenant |-> t, tool |-> "github_ingestion", payload |-> u] \in Task
        BY DEF Task, Tool, Payload, Object
      <4>. QED BY <3>1, <4>1, StoreAssumption
    <3>. QED BY <1>1, <3>1, <3>2, TaskWasApproved DEF PipelineInv
  <2>. QED BY <2>1, <2>2, <2>3 DEF EffectsWereApproved
<1>. QED BY <1>1, PipelineInvariant, PTL

\* A file that is gone, whoever uploaded it and whoever names it, was handed
\* to a parse by a human's approval.
THEOREM FilesGoByTheirApproval == PipelineSpec => []FilesGoByApproval
<1>1. ASSUME PipelineInv, NEW c \in Confirmation, NEW f \in Confirmation,
             Names(confirmations[c], f), f \notin files
      PROVE  \E r \in Request :
               /\ tasks[r] # None
               /\ ApprovedBy(r, tasks[r].tenant, "cv_parsing", f)
  <2>1. Parsed(f)
    BY <1>1 DEF PipelineInv, NamedFilesAreThere, Named
  <2>2. PICK r \in Request : /\ tasks[r] # None
                             /\ tasks[r].tool = "cv_parsing"
                             /\ tasks[r].payload = f
    BY <2>1 DEF Parsed
  <2>. QED BY <1>1, <2>2, TaskWasApproved DEF PipelineInv
<1>2. PipelineInv => FilesGoByApproval
  BY <1>1 DEF FilesGoByApproval
<1>. QED BY <1>2, PipelineInvariant, PTL

\* Beside the API too, whatever the commits of its requests do: a CV that is
\* gone has been parsed, and its result is in a job unless a worker was faster
\* than the commit of its row.
THEOREM PipelineKeepsFiles == PipelineSpec => []FileOrResult
<1>1. PipelineInv => FileOrResult
  BY DEF PipelineInv, WorkerInv
<1>. QED BY <1>1, PipelineInvariant, PTL

\* And a job row without messages shows its end, or a worker was faster.
THEOREM PipelineJobsSayHow ==
  ASSUME ~LostStatusWrites
  PROVE  PipelineSpec => []ConsumedJobsHaveEnded
<1>1. PipelineInv => ConsumedJobsHaveEnded
  BY DEF PipelineInv, WorkerInv, EndsAreOwed, Owed, ConsumedJobsHaveEnded,
    InFlight
<1>. QED BY <1>1, PipelineInvariant, PTL

\* What the workers keep by themselves they also keep while requests commit
\* the rows of their jobs: before, after, or not at all.
THEOREM WorkersKeepTheirPromises ==
  PipelineSpec => [](/\ TaskIsTheApprovedCall /\ StatusIsADecision
                     /\ CandidatesHaveASource /\ DuplicatesNeedCrashes
                     /\ ResultsHaveTheirRows /\ OneRepositoryPerUrl)
<1>1. PipelineInv => TaskIsTheApprovedCall
  BY TaskWasApproved DEF PipelineInv, TaskIsTheApprovedCall, ApprovedBy
<1>2. PipelineInv => DuplicatesNeedCrashes
  BY SpentMessages DEF PipelineInv, WorkerInv, DuplicatesNeedCrashes
<1>3. PipelineInv => /\ StatusIsADecision /\ CandidatesHaveASource
                     /\ ResultsHaveTheirRows /\ OneRepositoryPerUrl
  BY DEF PipelineInv, ApiInv, WorkerInv
<1>. QED BY <1>1, <1>2, <1>3, PipelineInvariant, PTL

-----------------------------------------------------------------------------
(* Refinements *)

\* A request's commit shows a new row that is queued.
LEMMA ApiStepRefinesView ==
  ASSUME PipelineInv, ApiStep
  PROVE  View!ViewNext \/ jobs' = jobs
<1>1. ASSUME NEW r \in Request, Commit(r), jobs' # jobs
      PROVE  View!Appear(r)
  <2>. DEFINE row == [tenant |-> req[r].tenant, tool |-> req[r].tool,
                      status |-> "queued", result |-> FALSE]
  <2>1. req[r].approved /\ jobs' = [jobs EXCEPT ![r] = row]
    BY <1>1 DEF Commit
  <2>2. jobs[r] = None
    BY <1>1, <2>1 DEF Commit, PipelineInv, JobsAreOfAnsweredRequests
  <2>3. jobs'[r] = row
    BY <2>1 DEF PipelineInv, ApiInv, ApiTypeOK, StoreTypeOK
  <2>4. row \in JobRow
    BY <1>1, <2>1, <2>2, <2>3, CommittedJob DEF PipelineInv
  <2>5. row \in View!NewRows
    BY <2>4 DEF View!NewRows, View!Rows
  <2>. HIDE DEF row
  <2>. QED BY <2>1, <2>2, <2>5 DEF View!Appear
<1>2. CASE Ask
  BY <1>2, AskFrame DEF PipelineInv, ApiInv
<1>3. ASSUME NEW r \in Request, Receive(r) \/ Handle(r) \/ Abort(r)
      PROVE  jobs' = jobs \/ Commit(r)
  BY <1>3, RequestFrame DEF PipelineInv, ApiInv
<1>. QED BY <1>1, <1>2, <1>3 DEF ApiStep, ApiNext, View!ViewNext

\* A worker's status update moves a row that is there, and no other.
LEMMA WorkerStepRefinesView ==
  ASSUME PipelineInv, WorkerStep
  PROVE  View!ViewNext \/ jobs' = jobs
<1>1. PICK w \in Worker : Work(w) \/ Crash(w)
  BY DEF WorkerStep, WorkerNext
<1>2. ASSUME slot[w].pc # "idle", update_status(w, "running")
      PROVE  View!Start(slot[w].job) \/ jobs' = jobs
  BY <1>2 DEF update_status, RowOf, HasJob, View!Start
<1>3. ASSUME slot[w].pc # "idle", update_status(w, "failed")
      PROVE  View!Fail(slot[w].job) \/ jobs' = jobs
  BY <1>3 DEF update_status, RowOf, HasJob, View!Fail
<1>4. ASSUME slot[w].pc # "idle", update_result(w)
      PROVE  View!Complete(slot[w].job) \/ jobs' = jobs
  BY <1>4 DEF update_result, RowOf, HasJob, View!Complete
<1>5. slot[w].pc # "idle" => slot[w].job \in Request
  BY SlotHasTask DEF PipelineInv, WorkerInv
<1>6. \/ slot[w].pc # "idle" /\ update_status(w, "running")
      \/ slot[w].pc # "idle" /\ update_status(w, "failed")
      \/ slot[w].pc # "idle" /\ update_result(w)
      \/ jobs' = jobs
  BY <1>1 DEF Work, Crash, ReceiveTask, MarkRunning, RunTool, AttemptFails,
    UniqueViolation, Complete, Cleanup, MarkFailed, StatusWriteFails, Retry,
    Ack, storeVars
<1>. QED BY <1>2, <1>3, <1>4, <1>5, <1>6 DEF View!ViewNext, View!Update

\* GET /jobs/{id}/status: the composed system implements JobView.
THEOREM PipelineImplementsView == PipelineSpec => ImplementsJobView
<1>1. PipelineInit => View!ViewInit
  BY DEF PipelineInit, ApiInit, StoreInit, View!ViewInit
<1>2. PipelineInv /\ [PipelineNext]_pipelineVars => [View!ViewNext]_jobs
  BY ApiStepRefinesView, WorkerStepRefinesView DEF PipelineNext, pipelineVars
<1>. QED BY <1>1, <1>2, PipelineInvariant, PTL
         DEF PipelineSpec, ImplementsJobView, View!ViewSpec

\* The gate of the API is not opened by the workers beside it: the composed
\* system implements ToolGate too.
THEOREM PipelineImplementsGate == PipelineSpec => ImplementsToolGate
<1>1. PipelineInit => Gate!GateInit
  BY GateInitRefines DEF PipelineInit
<1>2. ASSUME PipelineInv, [PipelineNext]_pipelineVars
      PROVE  [Gate!GateNext]_(Gate!gateVars)
  <2>1. CASE ApiStep
    BY <1>2, <2>1, GateStepRefines DEF ApiStep, PipelineInv
  <2>2. CASE WorkerStep \/ UNCHANGED pipelineVars
    <3>1. UNCHANGED <<confirmations, tasks, req>>
      BY <1>2, <2>2, WorkerKeeps DEF PipelineInv, pipelineVars
    <3>. QED BY <3>1 DEF Gate!gateVars, AskedCalls, GrantedCall, StartedCall,
           compute_payload_hash
  <2>. QED BY <1>2, <2>1, <2>2 DEF PipelineNext
<1>. QED BY <1>1, <1>2, PipelineInvariant, PTL
         DEF PipelineSpec, ImplementsToolGate, Gate!GateSpec

=============================================================================
