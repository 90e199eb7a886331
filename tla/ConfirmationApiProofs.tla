----------------------- MODULE ConfirmationApiProofs -----------------------
(***************************************************************************)
(* Proofs about ConfirmationApi, for every set of tenants, confirmations,  *)
(* requests and payloads.                                                  *)
(***************************************************************************)
EXTENDS ConfirmationApiGate, TLAPS

\* The rows a call of one of the asking handlers writes have their types.
LEMMA RequestConfirmationType ==
  ASSUME StoreTypeOK,
         NEW c \in Confirmation, NEW t \in Tenant, NEW tool \in Tool,
         NEW p \in Payload, request_confirmation(c, t, tool, p)
  PROVE  confirmations' \in [Confirmation -> ConfirmationRow \cup {None}]
<1>1. compute_payload_hash(t, tool, p) \in Digest
  BY DEF compute_payload_hash, Digest
<1>2. [tenant |-> t, tool |-> tool, payload |-> p,
       hash |-> compute_payload_hash(t, tool, p), status |-> "pending"]
        \in ConfirmationRow
  BY <1>1 DEF ConfirmationRow
<1>. QED BY <1>2 DEF request_confirmation, StoreTypeOK

\* What _confirmation_from_model hands to the handlers is a payload again.
LEMMA PayloadAsReadType ==
  \A p \in Payload : PayloadAsRead(p) \in Payload
BY DEF PayloadAsRead, Payload, Object

\* A publish adds one copy of one message and leaves the broker well formed.
LEMMA PublishedType ==
  ASSUME NEW q \in [Request -> [Attempt -> Nat]],
         NEW r \in Request, NEW k \in Attempt
  PROVE  Published(q, r, k) \in [Request -> [Attempt -> Nat]]
BY DEF Published

\* A change of pc to a state of a transaction keeps a request a request.
LEMMA GotoType ==
  ASSUME req \in [Request -> RequestState],
         NEW r \in Request, NEW pc \in Open \cup Ended, Goto(r, pc)
  PROVE  req' \in [Request -> RequestState]
<1>1. [req[r] EXCEPT !.pc = pc] \in RequestState
  BY DEF RequestState
<1>. QED BY <1>1 DEF Goto

\* A refused request has read nothing, and holds nothing after it.
LEMMA RefusedRequest ==
  ASSUME req \in [Request -> RequestState], NEW r \in Request,
         NEW t \in Tenant, NEW c \in Confirmation, Refuse(r, t, c)
  PROVE  /\ req' \in [Request -> RequestState]
         /\ UNCHANGED storeVars /\ UNCHANGED asks
         /\ \A q \in Request \ {r} : req'[q] = req[q]
         /\ req[r].pc = "idle" /\ req'[r].tool = req[r].tool
         /\ req'[r].pc \in {"conflict", "not_found"}
<1>1. PICK pc \in {"conflict", "not_found"} : Goto(r, pc)
  BY DEF Refuse
<1>2. pc \in Open \cup Ended
  BY DEF Ended
<1>3. req' \in [Request -> RequestState]
  BY <1>1, <1>2, GotoType
<1>4. \A q \in Request \ {r} : req'[q] = req[q]
  BY <1>1 DEF Goto
<1>5. req'[r].tool = req[r].tool /\ req'[r].pc = pc
  BY <1>1 DEF Goto, RequestState
<1>. QED BY <1>3, <1>4, <1>5 DEF Refuse

\* A chat request names the file of an upload, or what is no file.
LEMMA AskedPayloads ==
  ASSUME ApiTypeOK
  PROVE  (Payload \ Confirmation) \cup Uploads \subseteq Payload
BY DEF Uploads, Payload, Object, ApiTypeOK, StoreTypeOK

\* Every step keeps the types.  Dispatch and Commit need to know that the
\* request has read its row: an idle request has no tenant or tool to write.
LEMMA TypeStep ==
  ASSUME ApiTypeOK, ReadsAreCurrent, [ApiNext]_apiVars
  PROVE  ApiTypeOK'
<1>. USE DEF ApiTypeOK
<1>1. ASSUME NEW c \in Confirmation, NEW t \in Tenant, NEW u \in Url,
             RequestGithubIngestion(c, t, u)
      PROVE ApiTypeOK'
  <2>1. "github_ingestion" \in Tool /\ u \in Payload
    BY DEF Tool, Payload, Object
  <2>. QED BY <1>1, <2>1, RequestConfirmationType
           DEF RequestGithubIngestion, StoreTypeOK
<1>2. ASSUME NEW c \in Confirmation, NEW t \in Tenant, NEW tool \in Tool,
             NEW p \in Payload, ConfirmationPendingNode(c, t, tool, p)
      PROVE ApiTypeOK'
  BY <1>2, RequestConfirmationType DEF ConfirmationPendingNode, StoreTypeOK
<1>3. ASSUME NEW c \in Confirmation, NEW t \in Tenant, SaveUpload(c, t)
      PROVE ApiTypeOK'
  <2>1. [tenant |-> t, tool |-> "cv_parsing", payload |-> c] \in Task
    BY DEF Task, Tool, Payload, Object
  <2>. QED BY <1>3, <2>1 DEF SaveUpload, StoreTypeOK
<1>4. ASSUME NEW c \in Confirmation, NEW t \in Tenant, NEW j \in Request,
             CheckParseJob(c, t, j)
      PROVE ApiTypeOK'
  <2>1. [tenant |-> t, tool |-> "cv_save", payload |-> j] \in Task
    BY DEF Task, Tool, Payload, Object
  <2>. QED BY <1>4, <2>1 DEF CheckParseJob, StoreTypeOK, storeVars
<1>5. ASSUME NEW c \in Confirmation, InsertAsked(c)
      PROVE ApiTypeOK'
  <2>1. asks[c] \in Task
    BY <1>5 DEF InsertAsked
  <2>2. /\ asks[c].tenant \in Tenant /\ asks[c].tool \in Tool
        /\ asks[c].payload \in Payload
    BY <2>1 DEF Task
  <2>3. confirmations' \in [Confirmation -> ConfirmationRow \cup {None}]
    BY <1>5, <2>2, RequestConfirmationType DEF InsertAsked
  <2>. QED BY <1>5, <2>3 DEF InsertAsked, StoreTypeOK
<1>6. ASSUME NEW c \in Confirmation, AskFails(c)
      PROVE ApiTypeOK'
  BY <1>6 DEF AskFails, StoreTypeOK, storeVars
<1>7. ASSUME NEW r \in Request, NEW t \in Tenant, NEW c \in Confirmation,
             NEW approved \in BOOLEAN, ReadPending(r, t, c, approved)
      PROVE ApiTypeOK'
  <2>1. confirmations[c] \in ConfirmationRow
    BY <1>7 DEF ReadPending, PendingFor, HasConfirmation, StoreTypeOK
  <2>2. /\ confirmations[c].tool \in Tool
        /\ PayloadAsRead(confirmations[c].payload) \in Payload
    BY <2>1, PayloadAsReadType DEF ConfirmationRow
  <2>3. [pc |-> "read", tenant |-> t, conf |-> c, approved |-> approved,
         tool |-> confirmations[c].tool,
         payload |-> PayloadAsRead(confirmations[c].payload)] \in RequestState
    BY <2>2 DEF RequestState, Open
  <2>. QED BY <1>7, <2>3 DEF ReadPending, StoreTypeOK, storeVars
<1>8. ASSUME NEW r \in Request, NEW t \in Tenant, NEW c \in Confirmation,
             NEW approved \in BOOLEAN, Refuse(r, t, c)
      PROVE ApiTypeOK'
  BY <1>8, RefusedRequest DEF StoreTypeOK, storeVars
<1>9. ASSUME NEW r \in Request,
             \/ UpdateStatus(r) \/ CreateJob(r) \/ HashMismatch(r)
             \/ DispatchRaises(r) \/ Abort(r)
      PROVE ApiTypeOK'
  <2>1. UNCHANGED storeVars /\ UNCHANGED asks
    BY <1>9 DEF UpdateStatus, CreateJob, HashMismatch, DispatchRaises, Abort
  <2>2. PICK pc \in Open \cup Ended : Goto(r, pc)
    BY <1>9 DEF UpdateStatus, CreateJob, HashMismatch, DispatchRaises, Abort,
                Open, Ended
  <2>3. req' \in [Request -> RequestState]
    BY <2>2, GotoType
  <2>. QED BY <2>1, <2>3 DEF StoreTypeOK, storeVars
<1>10. ASSUME NEW r \in Request, Dispatch(r)
       PROVE ApiTypeOK'
  <2>1. queue' \in [Request -> [Attempt -> Nat]]
    <3>1. 0 \in Attempt
      BY DEF Attempt
    <3>2. queue \in [Request -> [Attempt -> Nat]]
      BY DEF StoreTypeOK
    <3>. QED BY <1>10, <3>1, <3>2, PublishedType DEF Dispatch
  <2>2. req' \in [Request -> RequestState]
    BY <1>10, GotoType DEF Dispatch, Open
  <2>3. [tenant |-> req[r].tenant, tool |-> req[r].tool,
         payload |-> req[r].payload] \in Task
    <3>1. req[r].conf \in Confirmation /\ confirmations[req[r].conf] \in ConfirmationRow
      BY <1>10 DEF Dispatch, ReadsAreCurrent, Deciding, Open, RequestState,
                   StoreTypeOK
    <3>2. /\ req[r].tenant \in Tenant /\ req[r].tool \in Tool
          /\ req[r].payload \in Payload
      BY <1>10, <3>1, PayloadAsReadType
         DEF Dispatch, ReadsAreCurrent, Deciding, Open, ConfirmationRow
    <3>. QED BY <3>2 DEF Task
  <2>4. tasks' \in [Request -> Task \cup {None}]
    BY <1>10, <2>3 DEF Dispatch, StoreTypeOK
  <2>. QED BY <1>10, <2>1, <2>2, <2>4 DEF Dispatch, StoreTypeOK
<1>11. ASSUME NEW r \in Request, Commit(r)
       PROVE ApiTypeOK'
  <2>1. /\ req[r].conf \in Confirmation
        /\ confirmations[req[r].conf] \in ConfirmationRow
        /\ req[r].tenant \in Tenant /\ req[r].tool \in Tool
    <3>1. req[r].pc \in Deciding
      BY <1>11 DEF Commit, Deciding, Open
    <3>2. /\ req[r].conf \in Confirmation
          /\ confirmations[req[r].conf] \in ConfirmationRow
      BY <3>1 DEF ReadsAreCurrent, RequestState, StoreTypeOK
    <3>. QED BY <3>1, <3>2 DEF ReadsAreCurrent, ConfirmationRow
  <2>2. confirmations' \in [Confirmation -> ConfirmationRow \cup {None}]
    <3>1. \A s \in DecisionStatus :
            [confirmations[req[r].conf] EXCEPT !.status = s] \in ConfirmationRow
      BY <2>1 DEF ConfirmationRow
    <3>. QED BY <1>11, <2>1, <3>1 DEF Commit, StoreTypeOK, DecisionStatus
  <2>3. jobs' \in [Request -> JobRow \cup {None}]
    <3>1. [tenant |-> req[r].tenant, tool |-> req[r].tool,
           status |-> "queued", result |-> FALSE] \in JobRow
      BY <2>1 DEF JobRow, JobStatus
    <3>. QED BY <1>11, <3>1 DEF Commit, StoreTypeOK
  <2>4. req' \in [Request -> RequestState]
    BY <1>11, GotoType DEF Commit, Ended
  <2>. QED BY <1>11, <2>2, <2>3, <2>4 DEF Commit, StoreTypeOK
<1>12. CASE UNCHANGED apiVars
  BY <1>12 DEF apiVars, StoreTypeOK
<1>. QED
  BY <1>1, <1>2, <1>3, <1>4, <1>5, <1>6, <1>7, <1>8, <1>9, <1>10, <1>11,
     <1>12, AskedPayloads DEF ApiNext, Ask, Receive, Handle

-----------------------------------------------------------------------------
(* What a step leaves alone *)

\* What the row of confirmation c asks for.
SameCall(c) ==
  /\ confirmations'[c] # None
  /\ confirmations'[c].tenant = confirmations[c].tenant
  /\ confirmations'[c].tool = confirmations[c].tool
  /\ confirmations'[c].payload = confirmations[c].payload
  /\ confirmations'[c].hash = confirmations[c].hash

\* The asking handlers only add rows, and touch no request, job or message.
LEMMA AskFrame ==
  ASSUME ApiTypeOK, AsksAreNew, Ask
  PROVE  /\ UNCHANGED <<jobs, queue, tasks, req>>
         /\ \A c \in Confirmation :
              confirmations[c] # None => confirmations'[c] = confirmations[c]
         /\ \A c \in Confirmation :
              confirmations[c] = None /\ confirmations'[c] # None =>
                /\ confirmations'[c].status = "pending"
                /\ confirmations'[c].hash = compute_payload_hash(
                     confirmations'[c].tenant, confirmations'[c].tool,
                     confirmations'[c].payload)
<1>. USE DEF ApiTypeOK, StoreTypeOK
<1>1. ASSUME NEW c \in Confirmation, NEW t, NEW tool, NEW p,
             confirmations[c] = None, request_confirmation(c, t, tool, p)
      PROVE  /\ \A d \in Confirmation :
                  confirmations[d] # None => confirmations'[d] = confirmations[d]
             /\ \A d \in Confirmation :
                  confirmations[d] = None /\ confirmations'[d] # None =>
                    /\ confirmations'[d].status = "pending"
                    /\ confirmations'[d].hash = compute_payload_hash(
                         confirmations'[d].tenant, confirmations'[d].tool,
                         confirmations'[d].payload)
  BY <1>1 DEF request_confirmation
<1>2. ASSUME NEW c \in Confirmation, NEW t \in Tenant, NEW u \in Url,
             RequestGithubIngestion(c, t, u)
      PROVE  UNCHANGED <<jobs, queue, tasks, req>> /\ confirmations[c] = None
             /\ request_confirmation(c, t, "github_ingestion", u)
  BY <1>2 DEF RequestGithubIngestion, Unused
<1>3. ASSUME NEW c \in Confirmation, NEW t \in Tenant, NEW tool \in Tool,
             NEW p \in Payload, ConfirmationPendingNode(c, t, tool, p)
      PROVE  UNCHANGED <<jobs, queue, tasks, req>> /\ confirmations[c] = None
             /\ request_confirmation(c, t, tool, p)
  BY <1>3 DEF ConfirmationPendingNode, Unused
<1>4. ASSUME NEW c \in Confirmation, InsertAsked(c)
      PROVE  UNCHANGED <<jobs, queue, tasks, req>> /\ confirmations[c] = None
             /\ request_confirmation(c, asks[c].tenant, asks[c].tool,
                                     asks[c].payload)
  BY <1>4 DEF InsertAsked, AsksAreNew
<1>5. ASSUME NEW c \in Confirmation, NEW t \in Tenant, NEW j \in Request,
             SaveUpload(c, t) \/ CheckParseJob(c, t, j) \/ AskFails(c)
      PROVE  UNCHANGED <<confirmations, jobs, queue, tasks, req>>
  BY <1>5 DEF SaveUpload, CheckParseJob, AskFails, storeVars
<1>6. ASSUME NEW c \in Confirmation, AskFails(c)
      PROVE  UNCHANGED <<confirmations, jobs, queue, tasks, req>>
  BY <1>6 DEF AskFails, storeVars
<1>7. ASSUME NEW c \in Confirmation, NEW t \in Tenant, SaveUpload(c, t)
      PROVE  UNCHANGED <<confirmations, jobs, queue, tasks, req>>
  BY <1>7 DEF SaveUpload
<1>. QED
  BY <1>1, <1>2, <1>3, <1>4, <1>5, <1>6, <1>7, AskedPayloads DEF Ask

\* A step of one POST /confirm leaves the other requests, their jobs and tasks
\* and the calls in progress as they are, and no row but its own changes.
LEMMA RequestFrame ==
  ASSUME ApiTypeOK, ReadsAreCurrent, NEW r \in Request,
         Receive(r) \/ Handle(r) \/ Abort(r)
  PROVE  /\ asks' = asks
         /\ \A q \in Request \ {r} :
              req'[q] = req[q] /\ jobs'[q] = jobs[q] /\ tasks'[q] = tasks[q]
         /\ confirmations' = confirmations \/ Commit(r)
         /\ jobs' = jobs \/ Commit(r)
         /\ tasks' = tasks \/ Dispatch(r)
<1>. USE DEF ApiTypeOK, StoreTypeOK
<1>1. CASE Receive(r)
  BY <1>1, RefusedRequest DEF Receive, ReadPending, storeVars
<1>2. CASE UpdateStatus(r) \/ CreateJob(r) \/ HashMismatch(r)
           \/ DispatchRaises(r) \/ Abort(r)
  BY <1>2 DEF UpdateStatus, CreateJob, HashMismatch, DispatchRaises, Abort,
              Goto, storeVars
<1>3. CASE Dispatch(r)
  BY <1>3 DEF Dispatch, Goto
<1>4. CASE Commit(r)
  BY <1>4 DEF Commit, Goto
<1>. QED BY <1>1, <1>2, <1>3, <1>4 DEF Handle

\* The commit of a decision changes the status of its row and nothing else.
LEMMA CommitRows ==
  ASSUME ApiTypeOK, ReadsAreCurrent, NEW r \in Request, Commit(r)
  PROVE  /\ req[r].conf \in Confirmation /\ confirmations[req[r].conf] # None
         /\ SameCall(req[r].conf)
         /\ confirmations'[req[r].conf].status =
              (IF req[r].approved THEN "approved" ELSE "denied")
         /\ \A c \in Confirmation \ {req[r].conf} :
              confirmations'[c] = confirmations[c]
<1>1. req[r].pc \in Deciding
  BY DEF Commit, Deciding, Open
<1>2. /\ req[r].conf \in Confirmation
      /\ confirmations[req[r].conf] \in ConfirmationRow
  BY <1>1 DEF ReadsAreCurrent, ApiTypeOK, RequestState, StoreTypeOK
<1>3. /\ confirmations[req[r].conf] # None
  BY <1>1 DEF ReadsAreCurrent
<1>4. confirmations' = [confirmations EXCEPT ![req[r].conf].status =
        IF req[r].approved THEN "approved" ELSE "denied"]
  BY DEF Commit
<1>5. \A c \in Confirmation \ {req[r].conf} :
        confirmations'[c] = confirmations[c]
  BY <1>2, <1>4 DEF ApiTypeOK, StoreTypeOK
<1>6. confirmations'[req[r].conf] =
        [confirmations[req[r].conf] EXCEPT !.status =
           IF req[r].approved THEN "approved" ELSE "denied"]
  BY <1>2, <1>4 DEF ApiTypeOK, StoreTypeOK
<1>7. confirmations'[req[r].conf] \in ConfirmationRow
  BY <1>2, <1>6 DEF ConfirmationRow, DecisionStatus
<1>. QED BY <1>2, <1>3, <1>5, <1>6, <1>7, StoreAssumption DEF SameCall

\* No step changes what an existing row asks for or makes it pending again.
LEMMA RowsAreKept ==
  ASSUME ApiTypeOK, AsksAreNew, ReadsAreCurrent, [ApiNext]_apiVars,
         NEW c \in Confirmation, confirmations[c] # None
  PROVE  /\ SameCall(c)
         /\ confirmations[c].status # "pending" =>
              confirmations'[c].status # "pending"
<1>1. CASE Ask
  BY <1>1, AskFrame DEF SameCall
<1>2. ASSUME NEW r \in Request, Receive(r) \/ Handle(r) \/ Abort(r)
      PROVE  /\ SameCall(c)
             /\ confirmations[c].status # "pending" =>
                  confirmations'[c].status # "pending"
  <2>1. CASE confirmations' = confirmations
    BY <2>1 DEF SameCall
  <2>2. CASE Commit(r) /\ c = req[r].conf
    BY <2>2, CommitRows
  <2>3. CASE Commit(r) /\ c # req[r].conf
    BY <2>3, CommitRows DEF SameCall
  <2>. QED BY <1>2, <2>1, <2>2, <2>3, RequestFrame
<1>3. CASE UNCHANGED apiVars
  BY <1>3 DEF apiVars, SameCall
<1>. QED BY <1>1, <1>2, <1>3 DEF ApiNext

-----------------------------------------------------------------------------
(* The parts of the inductive invariant *)

LEMMA AsksStep ==
  ASSUME ApiTypeOK, AsksAreNew, ReadsAreCurrent, [ApiNext]_apiVars
  PROVE  AsksAreNew'
<1>. USE DEF ApiTypeOK, StoreTypeOK
<1>1. ASSUME NEW c \in Confirmation, NEW t \in Tenant, NEW u \in Url,
             RequestGithubIngestion(c, t, u)
      PROVE  AsksAreNew'
  BY <1>1 DEF RequestGithubIngestion, Unused, request_confirmation, AsksAreNew
<1>2. ASSUME NEW c \in Confirmation, NEW t \in Tenant, NEW tool \in Tool,
             NEW p \in Payload, ConfirmationPendingNode(c, t, tool, p)
      PROVE  AsksAreNew'
  BY <1>2 DEF ConfirmationPendingNode, Unused, request_confirmation, AsksAreNew
<1>3. ASSUME NEW c \in Confirmation, NEW t \in Tenant, NEW j \in Request,
             CheckParseJob(c, t, j)
      PROVE  AsksAreNew'
  BY <1>3 DEF CheckParseJob, Unused, AsksAreNew, storeVars
<1>4. ASSUME NEW c \in Confirmation, NEW t \in Tenant, SaveUpload(c, t)
      PROVE  AsksAreNew'
  BY <1>4 DEF SaveUpload, Unused, AsksAreNew
<1>5. ASSUME NEW c \in Confirmation, InsertAsked(c)
      PROVE  AsksAreNew'
  BY <1>5 DEF InsertAsked, request_confirmation, AsksAreNew
<1>6. ASSUME NEW c \in Confirmation, AskFails(c)
      PROVE  AsksAreNew'
  BY <1>6 DEF AskFails, AsksAreNew, storeVars
<1>7. ASSUME NEW r \in Request, Receive(r) \/ Handle(r) \/ Abort(r)
      PROVE  AsksAreNew'
  <2>1. asks' = asks /\ (confirmations' = confirmations \/ Commit(r))
    BY <1>7, RequestFrame
  <2>2. CASE Commit(r)
    <3>1. \A c \in Confirmation :
            confirmations[c] = None => confirmations'[c] = None
      BY <2>2, CommitRows
    <3>. QED BY <2>1, <3>1 DEF AsksAreNew
  <2>. QED BY <2>1, <2>2 DEF AsksAreNew
<1>8. CASE UNCHANGED apiVars
  BY <1>8 DEF apiVars, AsksAreNew
<1>. QED
  BY <1>1, <1>2, <1>3, <1>4, <1>5, <1>6, <1>7, <1>8, AskedPayloads
     DEF ApiNext, Ask

LEMMA HashesStep ==
  ASSUME ApiTypeOK, AsksAreNew, ReadsAreCurrent, HashesAreOfTheRow,
         [ApiNext]_apiVars
  PROVE  HashesAreOfTheRow'
<1>. SUFFICES ASSUME NEW c \in Confirmation, confirmations'[c] # None
              PROVE  confirmations'[c].hash = compute_payload_hash(
                       confirmations'[c].tenant, confirmations'[c].tool,
                       confirmations'[c].payload)
  BY DEF HashesAreOfTheRow, compute_payload_hash
<1>1. CASE confirmations[c] # None
  BY <1>1, RowsAreKept DEF SameCall, HashesAreOfTheRow
<1>2. CASE confirmations[c] = None
  <2>1. CASE Ask
    BY <1>2, <2>1, AskFrame
  <2>2. ASSUME NEW r \in Request, Receive(r) \/ Handle(r) \/ Abort(r)
        PROVE  FALSE
    <3>1. CASE Commit(r)
      BY <1>2, <3>1, CommitRows
    <3>. QED BY <1>2, <2>2, <3>1, RequestFrame
  <2>3. ~UNCHANGED apiVars
    BY <1>2 DEF apiVars
  <2>. QED BY <2>1, <2>2, <2>3 DEF ApiNext
<1>. QED BY <1>1, <1>2

\* A request that has read its row keeps knowing what the row asks for.
LEMMA ReadsStep ==
  ASSUME ApiTypeOK, AsksAreNew, ReadsAreCurrent, [ApiNext]_apiVars
  PROVE  ReadsAreCurrent'
<1>. DEFINE Current(q) ==
       IF req[q].pc \in Deciding
       THEN /\ req[q].conf # None /\ confirmations[req[q].conf] # None
            /\ req[q].tenant = confirmations[req[q].conf].tenant
            /\ req[q].tool = confirmations[req[q].conf].tool
            /\ req[q].payload = PayloadAsRead(confirmations[req[q].conf].payload)
       ELSE req[q].tool = None
<1>. SUFFICES ASSUME NEW q \in Request PROVE Current(q)'
  BY DEF ReadsAreCurrent, PayloadAsRead
<1>1. CASE req'[q] = req[q]
  <2>1. Current(q)
    BY DEF ReadsAreCurrent
  <2>2. req[q].pc \in Deciding => SameCall(req[q].conf)
    <3>1. req[q].pc \in Deciding => req[q].conf \in Confirmation
      BY <2>1 DEF ApiTypeOK, RequestState
    <3>. QED BY <2>1, <3>1, RowsAreKept
  <2>. QED BY <1>1, <2>1, <2>2 DEF SameCall, PayloadAsRead
<1>2. ASSUME NEW t \in Tenant, NEW c \in Confirmation, NEW approved \in BOOLEAN,
             ReadPending(q, t, c, approved)
      PROVE  Current(q)'
  <2>1. confirmations' = confirmations
    BY <1>2 DEF ReadPending, storeVars
  <2>2. req'[q] = [pc |-> "read", tenant |-> t, conf |-> c,
          approved |-> approved, tool |-> confirmations[c].tool,
          payload |-> PayloadAsRead(confirmations[c].payload)]
    BY <1>2 DEF ReadPending, ApiTypeOK
  <2>3. confirmations[c] # None /\ confirmations[c].tenant = t
    BY <1>2 DEF ReadPending, PendingFor, HasConfirmation
  <2>4. c # None
    BY StoreAssumption
  <2>. QED BY <2>1, <2>2, <2>3, <2>4 DEF Deciding, Open, PayloadAsRead
<1>3. ASSUME NEW t \in Tenant, NEW c \in Confirmation, NEW approved \in BOOLEAN,
             Refuse(q, t, c)
      PROVE  Current(q)'
  BY <1>3, RefusedRequest DEF ApiTypeOK, ReadsAreCurrent, Deciding, Open
<1>4. CASE Handle(q) \/ Abort(q)
  <2>1. PICK pc \in Deciding : Goto(q, pc)
    BY <1>4 DEF Handle, UpdateStatus, CreateJob, HashMismatch, Dispatch,
                DispatchRaises, Commit, Abort, Deciding, Open
  <2>2. req[q].pc \in Deciding
    BY <1>4 DEF Handle, UpdateStatus, CreateJob, HashMismatch, Dispatch,
                DispatchRaises, Commit, Abort, Deciding, Open
  <2>3. /\ req'[q].pc = pc /\ req'[q].tenant = req[q].tenant
        /\ req'[q].conf = req[q].conf /\ req'[q].tool = req[q].tool
        /\ req'[q].payload = req[q].payload
    BY <2>1 DEF Goto, ApiTypeOK, RequestState
  <2>4. Current(q) /\ req[q].conf \in Confirmation
    BY <2>2 DEF ReadsAreCurrent, ApiTypeOK, RequestState
  <2>5. SameCall(req[q].conf)
    BY <2>2, <2>4, RowsAreKept
  <2>. QED BY <2>1, <2>2, <2>3, <2>4, <2>5 DEF SameCall, PayloadAsRead
<1>5. CASE \E r \in Request \ {q} : Receive(r) \/ Handle(r) \/ Abort(r)
  BY <1>1, <1>5, RequestFrame
<1>6. CASE Ask \/ UNCHANGED apiVars
  BY <1>1, <1>6, AskFrame DEF apiVars
<1>. QED BY <1>2, <1>3, <1>4, <1>5, <1>6 DEF ApiNext, Receive

\* The hash check of a request says the same as long as its reads stay.
LEMMA HashMatchesKept ==
  ASSUME ApiTypeOK, AsksAreNew, ReadsAreCurrent, [ApiNext]_apiVars,
         NEW q \in Request, req[q].pc \in Deciding,
         req'[q].conf = req[q].conf, req'[q].tool = req[q].tool,
         req'[q].payload = req[q].payload
  PROVE  HashMatches(q)' <=> HashMatches(q)
<1>1. req[q].conf \in Confirmation /\ confirmations[req[q].conf] # None
  BY DEF ReadsAreCurrent, ApiTypeOK, RequestState
<1>2. SameCall(req[q].conf)
  BY <1>1, RowsAreKept
<1>. QED BY <1>2 DEF SameCall, HashMatches, compute_payload_hash

\* What a request has left in the broker and in `jobs` follows its progress.
LEMMA ProgressStep ==
  ASSUME ApiTypeOK, AsksAreNew, ReadsAreCurrent, Progress, [ApiNext]_apiVars
  PROVE  Progress'
<1>. USE DEF ApiTypeOK, StoreTypeOK
<1>. SUFFICES ASSUME NEW q \in Request PROVE ProgressOf(q)'
  BY DEF Progress
<1>0. ProgressOf(q)
  BY DEF Progress
<1>1. CASE req'[q] = req[q] /\ jobs'[q] = jobs[q] /\ tasks'[q] = tasks[q]
  <2>1. req[q].pc \in {"created", "published", "ok", "failed"}
          => (HashMatches(q)' <=> HashMatches(q))
    BY <1>1, HashMatchesKept DEF Deciding, Open
  <2>. QED BY <1>0, <1>1, <2>1 DEF ProgressOf
<1>2. ASSUME NEW t \in Tenant, NEW c \in Confirmation, NEW approved \in BOOLEAN,
             ReadPending(q, t, c, approved) \/ Refuse(q, t, c)
      PROVE  ProgressOf(q)'
  <2>1. /\ req[q].pc = "idle"
        /\ req'[q].pc \in {"read", "conflict", "not_found"}
        /\ jobs' = jobs /\ tasks' = tasks
    <3>1. CASE ReadPending(q, t, c, approved)
      BY <3>1 DEF ReadPending, storeVars
    <3>2. CASE Refuse(q, t, c)
      BY <3>2, RefusedRequest DEF storeVars
    <3>. QED BY <1>2, <3>1, <3>2
  <2>. QED BY <1>0, <2>1 DEF ProgressOf
<1>3. CASE UpdateStatus(q) \/ HashMismatch(q) \/ DispatchRaises(q)
  <2>1. /\ req[q].pc \in {"read", "updated", "created"}
        /\ req'[q].pc \in {"updated", "mismatch", "failed"}
        /\ jobs' = jobs /\ tasks' = tasks
    BY <1>3 DEF UpdateStatus, HashMismatch, DispatchRaises, Goto, storeVars,
                RequestState
  <2>. QED BY <1>0, <2>1 DEF ProgressOf
<1>4. CASE CreateJob(q)
  <2>1. /\ req[q].pc = "updated" /\ req'[q].pc = "created"
        /\ req'[q].approved /\ jobs' = jobs /\ tasks' = tasks
        /\ HashMatches(q)
        /\ req'[q].conf = req[q].conf /\ req'[q].tool = req[q].tool
        /\ req'[q].payload = req[q].payload
    BY <1>4 DEF CreateJob, Goto, storeVars, RequestState
  <2>2. HashMatches(q)'
    BY <2>1, HashMatchesKept DEF Deciding, Open
  <2>. QED BY <1>0, <2>1, <2>2 DEF ProgressOf
<1>5. CASE Dispatch(q)
  <2>1. /\ req[q].pc = "created" /\ req'[q].pc = "published"
        /\ jobs' = jobs
        /\ req'[q].approved = req[q].approved
        /\ req'[q].tenant = req[q].tenant
        /\ req'[q].conf = req[q].conf /\ req'[q].tool = req[q].tool
        /\ req'[q].payload = req[q].payload
    BY <1>5 DEF Dispatch, Goto, RequestState
  <2>2. HashMatches(q)'
    BY <1>0, <2>1, HashMatchesKept DEF Deciding, Open, ProgressOf
  <2>3. tasks'[q] = [tenant |-> req[q].tenant, tool |-> req[q].tool,
                     payload |-> req[q].payload]
    BY <1>5 DEF Dispatch
  <2>4. tasks'[q] # None
    <3>1. req[q].tenant \in Tenant /\ req[q].tool \in Tool
          /\ req[q].payload \in Payload
      <4>1. req[q].pc \in Deciding
        BY <2>1 DEF Deciding, Open
      <4>2. confirmations[req[q].conf] \in ConfirmationRow
        BY <4>1 DEF ReadsAreCurrent, RequestState
      <4>. QED BY <4>1, <4>2, PayloadAsReadType
               DEF ReadsAreCurrent, ConfirmationRow
    <3>2. tasks'[q] \in Task
      BY <2>3, <3>1 DEF Task
    <3>. QED BY <3>2, StoreAssumption
  <2>. QED BY <1>0, <2>1, <2>2, <2>3, <2>4 DEF ProgressOf
<1>6. CASE Commit(q)
  <2>1. /\ req[q].pc = (IF req[q].approved THEN "published" ELSE "updated")
        /\ req'[q].pc = "ok" /\ tasks' = tasks
        /\ req'[q].approved = req[q].approved
        /\ req'[q].tenant = req[q].tenant
        /\ req'[q].conf = req[q].conf /\ req'[q].tool = req[q].tool
        /\ req'[q].payload = req[q].payload
    BY <1>6 DEF Commit, Goto, RequestState
  <2>2. HashMatches(q)' <=> HashMatches(q)
    BY <2>1, HashMatchesKept DEF Deciding, Open
  <2>3. CASE req[q].approved
    <3>1. jobs'[q] = [tenant |-> req[q].tenant, tool |-> req[q].tool,
                      status |-> "queued", result |-> FALSE]
      BY <1>6, <2>3 DEF Commit
    <3>2. jobs'[q] # None
      <4>1. tasks[q] \in Task
        BY <1>0, <2>1, <2>3 DEF ProgressOf
      <4>2. tasks[q].tenant = req[q].tenant /\ tasks[q].tool = req[q].tool
        BY <1>0, <2>1, <2>3 DEF ProgressOf
      <4>3. jobs'[q] \in JobRow
        BY <3>1, <4>1, <4>2 DEF Task, JobRow, JobStatus
      <4>. QED BY <4>3, StoreAssumption
    <3>. QED BY <1>0, <2>1, <2>2, <2>3, <3>2 DEF ProgressOf
  <2>4. CASE ~req[q].approved
    <3>1. jobs' = jobs
      BY <1>6, <2>4 DEF Commit
    <3>. QED BY <1>0, <2>1, <2>4, <3>1 DEF ProgressOf
  <2>. QED BY <2>3, <2>4
<1>7. CASE Abort(q)
  <2>1. /\ req[q].pc \in Open /\ req'[q].pc = "failed"
        /\ jobs' = jobs /\ tasks' = tasks
        /\ req'[q].approved = req[q].approved
        /\ req'[q].tenant = req[q].tenant
        /\ req'[q].conf = req[q].conf /\ req'[q].tool = req[q].tool
        /\ req'[q].payload = req[q].payload
    BY <1>7 DEF Abort, Goto, storeVars, RequestState
  <2>2. HashMatches(q)' <=> HashMatches(q)
    BY <2>1, HashMatchesKept DEF Deciding
  <2>. QED BY <1>0, <2>1, <2>2 DEF ProgressOf
<1>8. CASE \E r \in Request \ {q} : Receive(r) \/ Handle(r) \/ Abort(r)
  BY <1>1, <1>8, RequestFrame
<1>9. CASE Ask \/ UNCHANGED apiVars
  BY <1>1, <1>9, AskFrame DEF apiVars
<1>. QED
  BY <1>2, <1>3, <1>4, <1>5, <1>6, <1>7, <1>8, <1>9
  DEF ApiNext, Receive, Handle

\* An UPDATE takes the row lock only when no other request holds it, and no
\* other step takes one.
LEMMA OneWriterStep ==
  ASSUME ApiTypeOK, AsksAreNew, ReadsAreCurrent, OneWriterPerRow,
         [ApiNext]_apiVars
  PROVE  OneWriterPerRow'
<1>1. ASSUME NEW r \in Request, Receive(r) \/ Handle(r) \/ Abort(r),
             ~UpdateStatus(r)
      PROVE  req'[r].pc \in Locked =>
               req[r].pc \in Locked /\ req'[r].conf = req[r].conf
  <2>1. CASE CreateJob(r) \/ Dispatch(r)
    BY <2>1 DEF CreateJob, Dispatch, Goto, Locked, ApiTypeOK, RequestState
  <2>2. CASE HashMismatch(r) \/ DispatchRaises(r) \/ Commit(r) \/ Abort(r)
    <3>1. req'[r].pc \in {"mismatch", "failed", "ok"}
      BY <2>2 DEF HashMismatch, DispatchRaises, Commit, Abort, Goto, ApiTypeOK,
                  RequestState
    <3>. QED BY <3>1 DEF Locked
  <2>3. CASE Receive(r)
    <3>1. PICK t \in Tenant, c \in Confirmation, approved \in BOOLEAN :
            ReadPending(r, t, c, approved) \/ Refuse(r, t, c)
      BY <2>3 DEF Receive
    <3>2. req'[r].pc \in {"read", "conflict", "not_found"}
      <4>1. CASE ReadPending(r, t, c, approved)
        BY <4>1 DEF ReadPending, ApiTypeOK
      <4>2. CASE Refuse(r, t, c)
        BY <4>2, RefusedRequest DEF ApiTypeOK
      <4>. QED BY <3>1, <4>1, <4>2
    <3>. QED BY <3>2 DEF Locked
  <2>. QED BY <1>1, <2>1, <2>2, <2>3 DEF Handle
<1>2. ASSUME NEW r \in Request, UpdateStatus(r)
      PROVE  OneWriterPerRow'
  <2>1. RowFree(req[r].conf) /\ req'[r].conf = req[r].conf
    BY <1>2 DEF UpdateStatus, Goto, ApiTypeOK, RequestState
  <2>2. \A q \in Request \ {r} : req'[q] = req[q]
    BY <1>2 DEF UpdateStatus, Goto, ApiTypeOK
  <2>. QED BY <2>1, <2>2 DEF OneWriterPerRow, RowFree
<1>3. ASSUME NEW r \in Request, Receive(r) \/ Handle(r) \/ Abort(r)
      PROVE  OneWriterPerRow'
  <2>1. \A q \in Request \ {r} : req'[q] = req[q]
    BY <1>3, RequestFrame
  <2>2. CASE ~UpdateStatus(r)
    BY <1>1, <1>3, <2>1, <2>2 DEF OneWriterPerRow
  <2>. QED BY <1>2, <2>2
<1>4. CASE Ask \/ UNCHANGED apiVars
  BY <1>4, AskFrame DEF apiVars, OneWriterPerRow
<1>. QED BY <1>3, <1>4 DEF ApiNext

\* A decided row keeps a request that was answered with that decision.
LEMMA DecisionStep ==
  ASSUME ApiTypeOK, AsksAreNew, ReadsAreCurrent, Progress, StatusIsADecision,
         [ApiNext]_apiVars
  PROVE  StatusIsADecision'
<1>. DEFINE DecidedBy(c, r) ==
       /\ req[r].pc = "ok" /\ req[r].conf = c
       /\ req[r].approved <=> confirmations[c].status = "approved"
       /\ req[r].approved => jobs[r] # None
<1>. SUFFICES ASSUME NEW c \in Confirmation,
                     confirmations'[c] # None,
                     confirmations'[c].status # "pending"
              PROVE  \E r \in Request : DecidedBy(c, r)'
  BY DEF StatusIsADecision
<1>1. ASSUME confirmations'[c] = confirmations[c],
             \A r \in Request : req[r].pc = "ok" =>
               req'[r] = req[r] /\ jobs'[r] = jobs[r]
      PROVE  \E r \in Request : DecidedBy(c, r)'
  <2>1. PICK r \in Request : DecidedBy(c, r)
    BY <1>1 DEF StatusIsADecision
  <2>. QED BY <1>1, <2>1
<1>2. CASE Ask
  <2>1. confirmations'[c] = confirmations[c]
    BY <1>2, AskFrame
  <2>. QED BY <1>1, <1>2, <2>1, AskFrame
<1>3. ASSUME NEW r \in Request, Receive(r) \/ Handle(r) \/ Abort(r)
      PROVE  \E q \in Request : DecidedBy(c, q)'
  <2>1. req[r].pc # "ok"
    BY <1>3 DEF Receive, ReadPending, Refuse, Handle, UpdateStatus, CreateJob,
                HashMismatch, Dispatch, DispatchRaises, Commit, Abort, Open
  <2>2. CASE Commit(r) /\ c = req[r].conf
    <3>1. /\ req'[r].pc = "ok" /\ req'[r].conf = c
          /\ req'[r].approved = req[r].approved
          /\ req[r].approved \in BOOLEAN
      BY <2>2 DEF Commit, Goto, ApiTypeOK, RequestState
    <3>2. confirmations'[c].status =
            (IF req[r].approved THEN "approved" ELSE "denied")
      BY <2>2, CommitRows
    <3>3. req'[r].approved => jobs'[r] # None
      BY <3>1, ProgressStep DEF Progress, ProgressOf
    <3>. QED BY <3>1, <3>2, <3>3
  <2>3. CASE ~(Commit(r) /\ c = req[r].conf)
    <3>1. confirmations'[c] = confirmations[c]
      BY <1>3, <2>3, RequestFrame, CommitRows
    <3>2. \A q \in Request : req[q].pc = "ok" =>
            req'[q] = req[q] /\ jobs'[q] = jobs[q]
      BY <1>3, <2>1, RequestFrame
    <3>. QED BY <1>1, <3>1, <3>2
  <2>. QED BY <2>2, <2>3
<1>4. CASE UNCHANGED apiVars
  BY <1>1, <1>4 DEF apiVars
<1>. QED BY <1>2, <1>3, <1>4 DEF ApiNext

-----------------------------------------------------------------------------
(* Theorems *)

\* The inductive invariant holds of an empty database and broker ...
LEMMA ApiInitInv ==
  ASSUME ApiInit
  PROVE  ApiInv
<1>. USE DEF ApiInit, StoreInit
<1>1. ApiTypeOK
  BY DEF ApiTypeOK, StoreTypeOK, NoMessages, IdleRequest, RequestState
<1>2. AsksAreNew /\ HashesAreOfTheRow /\ StatusIsADecision
  BY DEF AsksAreNew, HashesAreOfTheRow, StatusIsADecision
<1>3. ReadsAreCurrent /\ OneWriterPerRow
  BY DEF ReadsAreCurrent, Deciding, Open, OneWriterPerRow, Locked, IdleRequest
<1>4. Progress
  BY DEF Progress, ProgressOf, IdleRequest
<1>. QED BY <1>1, <1>2, <1>3, <1>4 DEF ApiInv

\* ... and after every step of a handler.
LEMMA ApiInvStep ==
  ASSUME ApiInv, [ApiNext]_apiVars
  PROVE  ApiInv'
BY TypeStep, AsksStep, ReadsStep, HashesStep, ProgressStep, OneWriterStep,
   DecisionStep DEF ApiInv

\* So it holds in every state of the API by itself.
THEOREM ApiInvariant == ApiSpec => []ApiInv
BY ApiInitInv, ApiInvStep, PTL DEF ApiSpec

\* Every row, job, message and request has its type in every state.
THEOREM ApiTypeCorrect == ApiSpec => []ApiTypeOK
BY ApiInvariant, PTL DEF ApiInv

\* Two decisions of one confirmation never hold its row at the same time.
THEOREM OneWriter == ApiSpec => []OneWriterPerRow
BY ApiInvariant, PTL DEF ApiInv

\* The human-in-the-loop gate: whatever is in the broker was approved by the
\* request that created it, with the very tool and payload that were hashed.
THEOREM GateHolds == ApiSpec => []TaskIsTheApprovedCall
<1>1. ApiInv => TaskIsTheApprovedCall
  <2>. SUFFICES ASSUME ApiInv, NEW r \in Request, tasks[r] # None
                PROVE  /\ req[r].approved
                       /\ confirmations[req[r].conf] # None
                       /\ confirmations[req[r].conf].hash =
                            compute_payload_hash(tasks[r].tenant, tasks[r].tool,
                                                 tasks[r].payload)
    BY DEF TaskIsTheApprovedCall
  <2>1. /\ req[r].pc \in Deciding /\ req[r].approved /\ HashMatches(r)
        /\ tasks[r].tenant = req[r].tenant /\ tasks[r].tool = req[r].tool
        /\ tasks[r].payload = req[r].payload
    <3>1. ProgressOf(r)
      BY DEF ApiInv, Progress
    <3>2. tasks[r] = [tenant |-> req[r].tenant, tool |-> req[r].tool,
                      payload |-> req[r].payload]
      BY <3>1 DEF ProgressOf
    <3>. QED BY <3>1, <3>2 DEF ProgressOf, Deciding, Open
  <2>2. /\ confirmations[req[r].conf] # None
        /\ req[r].tenant = confirmations[req[r].conf].tenant
    BY <2>1 DEF ApiInv, ReadsAreCurrent
  <2>. QED BY <2>1, <2>2 DEF HashMatches
<1>. QED BY <1>1, ApiInvariant, PTL

\* No job row waits for a message that was never sent.
THEOREM JobRowsHaveTasks == ApiSpec => []JobRowHasTask
<1>1. ApiInv => JobRowHasTask
  BY DEF ApiInv, Progress, ProgressOf, JobRowHasTask
<1>. QED BY <1>1, ApiInvariant, PTL

\* A decided row is the decision of an answered request, with its job.
THEOREM StatusesAreDecisions == ApiSpec => []StatusIsADecision
BY ApiInvariant, PTL DEF ApiInv

\* A request that is refused as tampered with has just failed the hash check,
\* or has not moved.
LEMMA MismatchesAreNew ==
  ASSUME ApiTypeOK, AsksAreNew, ReadsAreCurrent, [ApiNext]_apiVars,
         NEW q \in Request, req'[q].pc = "mismatch"
  PROVE  HashMismatch(q) \/ req'[q] = req[q]
<1>1. CASE Ask \/ UNCHANGED apiVars
  BY <1>1, AskFrame DEF apiVars
<1>2. ASSUME NEW r \in Request \ {q}, Receive(r) \/ Handle(r) \/ Abort(r)
      PROVE  req'[q] = req[q]
  BY <1>2, RequestFrame
<1>3. CASE Receive(q)
  <2>1. PICK t \in Tenant, c \in Confirmation, approved \in BOOLEAN :
          ReadPending(q, t, c, approved) \/ Refuse(q, t, c)
    BY <1>3 DEF Receive
  <2>2. CASE ReadPending(q, t, c, approved)
    BY <2>2 DEF ReadPending, ApiTypeOK
  <2>3. CASE Refuse(q, t, c)
    BY <2>3, RefusedRequest DEF ApiTypeOK
  <2>. QED BY <2>1, <2>2, <2>3
<1>4. CASE Handle(q) \/ Abort(q)
  BY <1>4 DEF Handle, UpdateStatus, CreateJob, HashMismatch, Dispatch,
              DispatchRaises, Commit, Abort, Goto, ApiTypeOK, RequestState
<1>. QED BY <1>1, <1>2, <1>3, <1>4 DEF ApiNext

\* Nothing but a payload stored as a falsy value is refused as tampered with,
\* however many requests decide it.
THEOREM MismatchesOfFalsyPayloads == ApiSpec => []MismatchesAreFalsy
<1>. DEFINE Checked == \A r \in Request :
                         req[r].pc = "mismatch" => ~HashMatches(r)
<1>1. ApiInit => Checked
  BY DEF ApiInit, IdleRequest
<1>2. ApiInv /\ Checked /\ [ApiNext]_apiVars => Checked'
  <2>. SUFFICES ASSUME ApiInv, Checked, [ApiNext]_apiVars,
                       NEW q \in Request, req'[q].pc = "mismatch"
                PROVE  ~HashMatches(q)'
    OBVIOUS
  <2>. USE DEF ApiInv
  <2>1. CASE HashMismatch(q)
    <3>1. /\ req[q].pc \in Deciding /\ req'[q].conf = req[q].conf
          /\ req'[q].tool = req[q].tool /\ req'[q].payload = req[q].payload
      BY <2>1 DEF HashMismatch, Goto, Deciding, Open, ApiTypeOK, RequestState
    <3>2. ~HashMatches(q)
      BY <2>1 DEF HashMismatch
    <3>. QED BY <3>1, <3>2, HashMatchesKept
  <2>2. CASE req'[q] = req[q]
    <3>1. req[q].pc \in Deciding /\ ~HashMatches(q)
      BY <2>2 DEF Deciding
    <3>. QED BY <2>2, <3>1, HashMatchesKept
  <2>. QED BY <2>1, <2>2, MismatchesAreNew
<1>3. ApiInv /\ Checked => MismatchesAreFalsy
  <2>. SUFFICES ASSUME ApiInv, Checked, NEW r \in Request,
                       req[r].pc = "mismatch"
                PROVE  confirmations[req[r].conf].payload \in Falsy
    BY DEF MismatchesAreFalsy
  <2>1. /\ req[r].conf \in Confirmation /\ confirmations[req[r].conf] # None
        /\ req[r].tool = confirmations[req[r].conf].tool
        /\ req[r].payload = PayloadAsRead(confirmations[req[r].conf].payload)
    BY DEF ApiInv, ReadsAreCurrent, Deciding, ApiTypeOK, RequestState
  <2>2. ~HashMatches(r)
    OBVIOUS
  <2>. QED BY <2>1, <2>2 DEF ApiInv, HashesAreOfTheRow, HashMatches,
                             PayloadAsRead
<1>. HIDE DEF Checked
<1>. QED BY <1>1, <1>2, <1>3, ApiInvariant, PTL DEF ApiSpec

\* A committed decision is never undone, and never about another call.
THEOREM NeverReopenedHolds == ApiSpec => NeverReopened
<1>1. ApiInv /\ [ApiNext]_apiVars =>
        [\A c \in Confirmation : confirmations[c] # None =>
           /\ confirmations'[c] # None
           /\ confirmations'[c].hash = confirmations[c].hash
           /\ confirmations[c].status # "pending" =>
                confirmations'[c].status # "pending"]_apiVars
  BY RowsAreKept DEF ApiInv, SameCall
<1>. QED BY <1>1, ApiInvariant, PTL DEF ApiSpec, NeverReopened

-----------------------------------------------------------------------------
(* Refinement *)

\* The digest of an existing row is a call of the abstract gate.
LEMMA HashIsACall ==
  ASSUME ApiTypeOK, NEW c \in Confirmation, confirmations[c] # None
  PROVE  confirmations[c].hash \in Digest /\ confirmations[c].hash # None
<1>1. confirmations[c] \in ConfirmationRow
  BY DEF ApiTypeOK, StoreTypeOK
<1>. QED BY <1>1, StoreAssumption DEF ConfirmationRow

\* An asking handler asks for at most one call and moves no grant.
LEMMA AskRefines ==
  ASSUME ApiInv, Ask
  PROVE  Gate!GateNext \/ UNCHANGED <<AskedCalls, GrantedCall, StartedCall>>
<1>1. GrantedCall' = GrantedCall /\ StartedCall' = StartedCall
  <2>1. req' = req /\ tasks' = tasks
    BY AskFrame DEF ApiInv
  <2>2. \A r \in Request : req[r].approved /\ req[r].tool # None =>
          confirmations'[req[r].conf] = confirmations[req[r].conf]
    <3>1. \A r \in Request : req[r].tool # None =>
            req[r].conf \in Confirmation /\ confirmations[req[r].conf] # None
      BY DEF ApiInv, ReadsAreCurrent, ApiTypeOK, RequestState
    <3>. QED BY <3>1, AskFrame DEF ApiInv
  <2>. QED BY <2>1, <2>2 DEF GrantedCall, StartedCall, compute_payload_hash
<1>2. \E c \in Confirmation : \A d \in Confirmation \ {c} :
        confirmations'[d] = confirmations[d]
  BY DEF Ask, RequestGithubIngestion, ConfirmationPendingNode, SaveUpload,
         CheckParseJob, InsertAsked, AskFails, request_confirmation, storeVars,
         ApiInv, ApiTypeOK, StoreTypeOK
<1>3. PICK c \in Confirmation : \A d \in Confirmation \ {c} :
        confirmations'[d] = confirmations[d]
  BY <1>2
<1>4. CASE confirmations'[c] = confirmations[c]
  <2>1. confirmations' = confirmations
    <3>1. ApiTypeOK /\ ApiTypeOK'
      BY TypeStep DEF ApiInv, ApiNext
    <3>. QED BY <1>3, <1>4, <3>1 DEF ApiTypeOK, StoreTypeOK
  <2>2. AskedCalls' = AskedCalls
    BY <2>1 DEF AskedCalls
  <2>. QED BY <1>1, <2>2
<1>5. CASE confirmations'[c] # confirmations[c]
  <2>1. confirmations[c] = None /\ confirmations'[c] # None
    BY <1>5, AskFrame DEF ApiInv
  <2>2. AskedCalls' = AskedCalls \cup {confirmations'[c].hash}
    BY <1>3, <2>1 DEF AskedCalls
  <2>3. confirmations'[c].hash \in Digest
    <3>1. ApiTypeOK'
      BY TypeStep DEF ApiInv, ApiNext
    <3>2. confirmations'[c] \in ConfirmationRow
      BY <2>1, <3>1 DEF ApiTypeOK, StoreTypeOK
    <3>. QED BY <3>2 DEF ConfirmationRow
  <2>. QED BY <1>1, <2>2, <2>3 DEF Gate!GateNext, Gate!AskFor
<1>. QED BY <1>4, <1>5

\* A step of POST /confirm grants a call that was asked for, starts a call
\* that was granted, or is invisible to the gate.
LEMMA RequestRefines ==
  ASSUME ApiInv, NEW r \in Request, Receive(r) \/ Handle(r) \/ Abort(r)
  PROVE  Gate!GateNext \/ UNCHANGED <<AskedCalls, GrantedCall, StartedCall>>
<1>. USE DEF ApiInv
<1>0. [ApiNext]_apiVars
  BY DEF ApiNext
<1>1. \A c \in Confirmation :
        /\ confirmations'[c] # None <=> confirmations[c] # None
        /\ confirmations[c] # None => confirmations'[c].hash = confirmations[c].hash
  <2>1. \A c \in Confirmation : confirmations[c] # None => SameCall(c)
    BY <1>0, RowsAreKept
  <2>2. \A c \in Confirmation : confirmations[c] = None => confirmations'[c] = None
    BY RequestFrame, CommitRows
  <2>. QED BY <2>1, <2>2 DEF SameCall
<1>2. AskedCalls' = AskedCalls
  BY <1>1 DEF AskedCalls
<1>3. \A q \in Request : req[q].tool # None =>
        req[q].conf \in Confirmation /\ confirmations[req[q].conf] # None
  BY DEF ReadsAreCurrent, ApiTypeOK, RequestState
<1>4. \A q \in Request : req'[q].tool = req[q].tool
        /\ req'[q].approved = req[q].approved /\ req'[q].conf = req[q].conf
        => GrantedCall'[q] = GrantedCall[q]
  BY <1>1, <1>3 DEF GrantedCall
<1>5. \A q \in Request : tasks'[q] = tasks[q] => StartedCall'[q] = StartedCall[q]
  BY DEF StartedCall, compute_payload_hash
<1>6. \A q \in Request \ {r} :
        GrantedCall'[q] = GrantedCall[q] /\ StartedCall'[q] = StartedCall[q]
  BY <1>4, <1>5, RequestFrame
<1>7. CASE Receive(r)
  <2>1. PICK t \in Tenant, c \in Confirmation, approved \in BOOLEAN :
          ReadPending(r, t, c, approved) \/ Refuse(r, t, c)
    BY <1>7 DEF Receive
  <2>2. StartedCall' = StartedCall
    <3>1. tasks' = tasks
      BY <2>1 DEF ReadPending, Refuse, storeVars
    <3>. QED BY <3>1 DEF StartedCall, compute_payload_hash
  <2>3. GrantedCall[r] = None
    BY <2>1 DEF GrantedCall, ReadPending, Refuse, ReadsAreCurrent, Deciding, Open
  <2>4. CASE ReadPending(r, t, c, approved) /\ approved
    <3>1. confirmations[c] # None /\ confirmations' = confirmations
      BY <2>4 DEF ReadPending, PendingFor, HasConfirmation, storeVars
    <3>2. /\ req'[r].approved /\ req'[r].conf = c
          /\ req'[r].tool = confirmations[c].tool
      BY <2>4 DEF ReadPending, ApiTypeOK
    <3>3. confirmations[c] \in ConfirmationRow
      BY <3>1 DEF ApiTypeOK, StoreTypeOK
    <3>4. confirmations[c].tool # None
      BY <3>3, StoreAssumption DEF ConfirmationRow
    <3>5. GrantedCall'[r] = confirmations[c].hash
      BY <3>1, <3>2, <3>4 DEF GrantedCall
    <3>6. GrantedCall' = [GrantedCall EXCEPT ![r] = confirmations[c].hash]
      BY <1>6, <3>5 DEF GrantedCall
    <3>7. confirmations[c].hash \in Digest \cap AskedCalls
      BY <3>1, HashIsACall DEF AskedCalls
    <3>. QED BY <1>2, <2>2, <2>3, <3>6, <3>7 DEF Gate!GateNext, Gate!GrantCall
  <2>5. CASE ~(ReadPending(r, t, c, approved) /\ approved)
    <3>1. GrantedCall'[r] = None
      <4>1. CASE ReadPending(r, t, c, approved)
        <5>1. ~req'[r].approved
          BY <2>5, <4>1 DEF ReadPending, ApiTypeOK
        <5>. QED BY <5>1 DEF GrantedCall
      <4>2. CASE Refuse(r, t, c)
        <5>1. req'[r].tool = None
          BY <4>2, RefusedRequest
          DEF ApiTypeOK, ReadsAreCurrent, Deciding, Open
        <5>. QED BY <5>1 DEF GrantedCall
      <4>. QED BY <2>1, <4>1, <4>2
    <3>2. GrantedCall' = GrantedCall
      BY <1>6, <2>3, <3>1 DEF GrantedCall
    <3>. QED BY <1>2, <2>2, <3>2
  <2>. QED BY <2>4, <2>5
<1>8. CASE Dispatch(r)
  <2>1. /\ req[r].pc = "created" /\ tasks[r] = None
        /\ req[r].approved /\ HashMatches(r)
    BY <1>8 DEF Dispatch, Progress, ProgressOf
  <2>2. /\ req'[r].tool = req[r].tool /\ req'[r].conf = req[r].conf
        /\ req'[r].approved = req[r].approved
    BY <1>8 DEF Dispatch, Goto, ApiTypeOK, RequestState
  <2>3. GrantedCall' = GrantedCall
    BY <1>4, <1>6, <2>2 DEF GrantedCall
  <2>4. /\ req[r].conf \in Confirmation /\ confirmations[req[r].conf] # None
        /\ req[r].tenant = confirmations[req[r].conf].tenant
        /\ req[r].tool = confirmations[req[r].conf].tool
    BY <2>1 DEF ReadsAreCurrent, Deciding, Open, ApiTypeOK, RequestState
  <2>5. req[r].tool # None
    <3>1. confirmations[req[r].conf] \in ConfirmationRow
      BY <2>4 DEF ApiTypeOK, StoreTypeOK
    <3>. QED BY <2>4, <3>1, StoreAssumption DEF ConfirmationRow
  <2>6. GrantedCall[r] = confirmations[req[r].conf].hash
    BY <2>1, <2>5 DEF GrantedCall
  <2>7. GrantedCall[r] # None
    BY <2>4, <2>6, HashIsACall
  <2>8. tasks'[r] # None
    BY <1>0, <1>8, ProgressStep DEF Dispatch, Goto, Progress, ProgressOf,
       ApiTypeOK, RequestState
  <2>9. StartedCall'[r] = GrantedCall[r]
    <3>1. tasks'[r] = [tenant |-> req[r].tenant, tool |-> req[r].tool,
                       payload |-> req[r].payload]
      BY <1>8 DEF Dispatch, ApiTypeOK, StoreTypeOK
    <3>2. StartedCall'[r] = compute_payload_hash(req[r].tenant, req[r].tool,
                                                 req[r].payload)
      BY <2>8, <3>1 DEF StartedCall, compute_payload_hash
    <3>. QED BY <2>1, <2>4, <2>6, <3>2 DEF HashMatches
  <2>10. StartedCall' = [StartedCall EXCEPT ![r] = GrantedCall[r]]
    BY <1>6, <2>9 DEF StartedCall
  <2>11. StartedCall[r] = None
    BY <2>1 DEF StartedCall
  <2>. QED BY <1>2, <2>3, <2>7, <2>10, <2>11 DEF Gate!GateNext, Gate!Start
<1>9. CASE ~Receive(r) /\ ~Dispatch(r)
  <2>1. tasks' = tasks
    BY <1>9, RequestFrame
  <2>2. /\ req'[r].tool = req[r].tool /\ req'[r].conf = req[r].conf
        /\ req'[r].approved = req[r].approved
    <3>1. PICK pc \in Deciding : Goto(r, pc)
      BY <1>9 DEF Handle, UpdateStatus, CreateJob, HashMismatch,
                  DispatchRaises, Commit, Abort, Deciding, Open
    <3>. QED BY <3>1 DEF Goto, ApiTypeOK, RequestState
  <2>3. GrantedCall' = GrantedCall /\ StartedCall' = StartedCall
    BY <1>4, <1>6, <2>1, <2>2 DEF GrantedCall, StartedCall, compute_payload_hash
  <2>. QED BY <1>2, <2>3
<1>. QED BY <1>7, <1>8, <1>9

\* An empty database has asked for, granted and started nothing.
LEMMA GateInitRefines ==
  ASSUME ApiInit
  PROVE  Gate!GateInit
<1>1. AskedCalls = {}
  BY DEF ApiInit, StoreInit, AskedCalls
<1>2. GrantedCall = [r \in Request |-> None]
  BY DEF ApiInit, GrantedCall, IdleRequest
<1>3. StartedCall = [r \in Request |-> None]
  BY DEF ApiInit, StoreInit, StartedCall
<1>. QED BY <1>1, <1>2, <1>3 DEF Gate!GateInit

\* Every step of a handler is a step of the abstract gate or leaves it alone.
LEMMA GateStepRefines ==
  ASSUME ApiInv, [ApiNext]_apiVars
  PROVE  [Gate!GateNext]_(Gate!gateVars)
<1>1. CASE UNCHANGED apiVars
  BY <1>1 DEF apiVars, Gate!gateVars, AskedCalls, GrantedCall, StartedCall,
              compute_payload_hash
<1>. QED BY <1>1, AskRefines, RequestRefines DEF ApiNext, Gate!gateVars

\* The API implements the abstract gate: a tool call starts only under a
\* grant of exactly that call, and each grant starts at most one.
THEOREM ApiImplementsGate == ApiSpec => ImplementsToolGate
<1>1. ApiInit => Gate!GateInit
  BY GateInitRefines
<1>2. ApiInv /\ [ApiNext]_apiVars => [Gate!GateNext]_(Gate!gateVars)
  BY GateStepRefines
<1>. QED BY <1>1, <1>2, ApiInvariant, PTL
         DEF ApiSpec, ImplementsToolGate, Gate!GateSpec
=============================================================================
