------------------------- MODULE CeleryWorkerProofs -------------------------
(***************************************************************************)
(* Proofs about CeleryWorker, for every finite pool and for any sets of    *)
(* tenants, jobs, files and URLs, retries and deaths.                      *)
(***************************************************************************)
EXTENDS CeleryWorker, FiniteSetTheorems, TLAPS

-----------------------------------------------------------------------------
(* Slots, messages and rows *)

\* A process that is not idle has a job, and the job a task.
LEMMA SlotHasTask ==
  ASSUME WorkerTypeOK, NEW w \in Worker, slot[w].pc # "idle"
  PROVE  /\ slot[w].job \in Request /\ slot[w].job # None
         /\ slot[w].attempt \in Attempt
         /\ TaskOf(w) \in Task /\ TaskOf(w) # None
BY DEF WorkerTypeOK, StoreTypeOK, SlotState, TaskOf

\* A step of a task moves the program counter of its process and no other.
LEMMA StepSlot ==
  ASSUME WorkerTypeOK, NEW w \in Worker, NEW pc, Step(w, pc)
  PROVE  /\ slot'[w] = [slot[w] EXCEPT !.pc = pc]
         /\ slot'[w].pc = pc /\ slot'[w].job = slot[w].job
         /\ slot'[w].attempt = slot[w].attempt
         /\ slot'[w].exists = slot[w].exists
         /\ \A v \in Worker \ {w} : slot'[v] = slot[v]
         /\ pc \in {"running", "commit", "cleanup", "failing", "retry", "ack"}
              => slot' \in [Worker -> SlotState]
<1>1. slot[w] \in SlotState
  BY DEF WorkerTypeOK
<1>2. slot' = [slot EXCEPT ![w].pc = pc]
  BY DEF Step
<1>3. slot'[w] = [slot[w] EXCEPT !.pc = pc]
  BY <1>2 DEF WorkerTypeOK
<1>4. pc \in {"running", "commit", "cleanup", "failing", "retry", "ack"}
        => [slot[w] EXCEPT !.pc = pc] \in SlotState
  BY <1>1 DEF SlotState
<1>. QED BY <1>1, <1>2, <1>3, <1>4 DEF WorkerTypeOK, SlotState

\* JobRepository.update_status changes the status of one row, if it is there.
LEMMA StatusRow ==
  ASSUME WorkerTypeOK, NEW w \in Worker, slot[w].pc # "idle",
         NEW status \in JobStatus, update_status(w, status)
  PROVE  /\ jobs' \in [Request -> JobRow \cup {None}]
         /\ \A r \in Request \ {slot[w].job} : jobs'[r] = jobs[r]
         /\ \A r \in Request : jobs[r] = None => jobs'[r] = None
         /\ \A r \in Request : jobs[r] # None =>
              /\ jobs'[r] # None /\ jobs'[r].tenant = jobs[r].tenant
              /\ jobs'[r].result = jobs[r].result
         /\ HasJob(TaskOf(w).tenant, slot[w].job) =>
              jobs'[slot[w].job].status = status
<1>. DEFINE j == slot[w].job
<1>1. j \in Request /\ jobs \in [Request -> JobRow \cup {None}]
  BY SlotHasTask DEF WorkerTypeOK, StoreTypeOK
<1>2. CASE ~HasJob(TaskOf(w).tenant, j)
  <2>1. jobs' = jobs
    BY <1>2 DEF update_status, RowOf
  <2>. QED BY <1>1, <1>2, <2>1
<1>3. CASE HasJob(TaskOf(w).tenant, j)
  <2>1. jobs[j] \in JobRow /\ jobs[j] # None
    BY <1>1, <1>3 DEF HasJob
  <2>2. jobs' = [jobs EXCEPT ![j] = [jobs[j] EXCEPT !.status = status]]
    BY <1>3 DEF update_status, RowOf
  <2>3. [jobs[j] EXCEPT !.status = status] \in JobRow
    BY <2>1 DEF JobRow
  <2>. QED BY <1>1, <2>1, <2>2, <2>3, StoreAssumption DEF JobRow
<1>. QED BY <1>2, <1>3

\* So does a COMPLETED with its result.
LEMMA ResultRow ==
  ASSUME WorkerTypeOK, NEW w \in Worker, slot[w].pc # "idle",
         update_result(w)
  PROVE  /\ jobs' \in [Request -> JobRow \cup {None}]
         /\ \A r \in Request \ {slot[w].job} : jobs'[r] = jobs[r]
         /\ \A r \in Request : jobs[r] = None => jobs'[r] = None
         /\ \A r \in Request : jobs[r] # None =>
              /\ jobs'[r] # None /\ jobs'[r].tenant = jobs[r].tenant
              /\ jobs[r].result => jobs'[r].result
         /\ HasJob(TaskOf(w).tenant, slot[w].job) =>
              /\ jobs'[slot[w].job].status = "completed"
              /\ jobs'[slot[w].job].result
<1>. DEFINE j == slot[w].job
<1>1. j \in Request /\ jobs \in [Request -> JobRow \cup {None}]
  BY SlotHasTask DEF WorkerTypeOK, StoreTypeOK
<1>2. CASE ~HasJob(TaskOf(w).tenant, j)
  <2>1. jobs' = jobs
    BY <1>2 DEF update_result, RowOf
  <2>. QED BY <1>1, <1>2, <2>1
<1>3. CASE HasJob(TaskOf(w).tenant, j)
  <2>1. jobs[j] \in JobRow /\ jobs[j] # None
    BY <1>1, <1>3 DEF HasJob
  <2>2. jobs' = [jobs EXCEPT ![j] =
          [jobs[j] EXCEPT !.status = "completed", !.result = TRUE]]
    BY <1>3 DEF update_result, RowOf
  <2>3. [jobs[j] EXCEPT !.status = "completed", !.result = TRUE] \in JobRow
    BY <2>1 DEF JobRow, JobStatus
  <2>. QED BY <1>1, <2>1, <2>2, <2>3, StoreAssumption DEF JobRow
<1>. QED BY <1>2, <1>3

\* A message that is put in the broker or taken out of it.
LEMMA QueueType ==
  ASSUME NEW q \in [Request -> [Attempt -> Nat]],
         NEW r \in Request, NEW k \in Attempt
  PROVE  /\ Published(q, r, k) \in [Request -> [Attempt -> Nat]]
         /\ q[r][k] > 0 => Taken(q, r, k) \in [Request -> [Attempt -> Nat]]
BY DEF Published, Taken

-----------------------------------------------------------------------------
(* Types *)

\* No worker touches a confirmation or the arguments of a task.
LEMMA WorkerFrame ==
  ASSUME [WorkerNext]_workerVars
  PROVE  confirmations' = confirmations /\ tasks' = tasks
<1>1. CASE UNCHANGED workerVars
  BY <1>1 DEF workerVars
<1>2. ASSUME NEW w \in Worker, Work(w) \/ Crash(w)
      PROVE  confirmations' = confirmations /\ tasks' = tasks
  BY <1>2 DEF Work, Crash, ReceiveTask, MarkRunning, RunTool, AttemptFails,
       UniqueViolation, Complete, Cleanup, MarkFailed, StatusWriteFails,
       Retry, Ack, storeVars
<1>. QED BY <1>1, <1>2 DEF WorkerNext

\* What a step does to the slots: a process takes a message, goes on with the
\* task that it has, or becomes idle.
SlotStep(w) ==
  /\ slot' \in [Worker -> SlotState]
  /\ \A v \in Worker \ {w} : slot'[v] = slot[v]
  /\ \/ /\ slot[w].pc = "idle" /\ slot'[w].pc = "received"
        /\ slot'[w].job \in Request /\ slot'[w].attempt \in Attempt
        /\ queue[slot'[w].job][slot'[w].attempt] > 0
     \/ /\ slot[w].pc # "idle" /\ slot'[w].pc # "idle"
        /\ slot'[w].job = slot[w].job
        /\ slot'[w].attempt = slot[w].attempt
     \/ slot'[w] = IdleSlot

LEMMA SlotSteps ==
  ASSUME WorkerTypeOK, NEW w \in Worker, Work(w) \/ Crash(w)
  PROVE  SlotStep(w)
<1>1. ASSUME NEW pc \in {"running", "commit", "cleanup", "failing", "retry",
                         "ack"}, slot[w].pc # "idle", Step(w, pc)
      PROVE  SlotStep(w)
  BY <1>1, StepSlot DEF SlotStep
<1>2. ASSUME slot' = [slot EXCEPT ![w] = IdleSlot]
      PROVE  SlotStep(w)
  <2>1. IdleSlot \in SlotState
    BY DEF IdleSlot, SlotState, Attempt
  <2>. QED BY <1>2, <2>1 DEF WorkerTypeOK, SlotStep
<1>3. ASSUME NEW r \in Request, NEW k \in Attempt, ReceiveTask(w, r, k)
      PROVE  SlotStep(w)
  <2>. DEFINE new == [IdleSlot EXCEPT !.pc = "received", !.job = r,
                                      !.attempt = k]
  <2>1. new \in SlotState /\ new.pc = "received" /\ new.job = r
        /\ new.attempt = k
    BY DEF IdleSlot, SlotState
  <2>2. slot' = [slot EXCEPT ![w] = new] /\ slot[w].pc = "idle"
        /\ queue[r][k] > 0
    BY <1>3 DEF ReceiveTask
  <2>. QED BY <2>1, <2>2 DEF WorkerTypeOK, SlotStep
<1>4. CASE MarkRunning(w)
  BY <1>1, <1>4 DEF MarkRunning
<1>5. CASE RunTool(w)
  <2>. DEFINE e == TaskOf(w).tool = "github_ingestion"
                   /\ repositories[TaskOf(w).tenant][TaskOf(w).payload] > 0
              new == [slot[w] EXCEPT !.pc = "commit", !.exists = e]
  <2>1. slot' = [slot EXCEPT ![w] = new] /\ slot[w].pc = "running"
    BY <1>5 DEF RunTool, WorkerTypeOK
  <2>2. slot[w] \in SlotState /\ e \in BOOLEAN
    BY DEF WorkerTypeOK
  <2>3. new \in SlotState /\ new.pc = "commit" /\ new.job = slot[w].job
        /\ new.attempt = slot[w].attempt
    BY <2>2 DEF SlotState
  <2>4. slot'[w] = new
    BY <2>1 DEF WorkerTypeOK
  <2>. QED BY <2>1, <2>3, <2>4 DEF WorkerTypeOK, SlotStep
<1>6. CASE AttemptFails(w)
  BY <1>1, <1>6 DEF AttemptFails
<1>7. CASE UniqueViolation(w)
  BY <1>1, <1>7 DEF UniqueViolation
<1>8. CASE Complete(w)
  BY <1>1, <1>8 DEF Complete
<1>9. CASE Cleanup(w)
  BY <1>1, <1>9 DEF Cleanup
<1>10. CASE MarkFailed(w)
  BY <1>1, <1>10 DEF MarkFailed
<1>11. CASE StatusWriteFails(w)
  BY <1>1, <1>11 DEF StatusWriteFails
<1>12. CASE Retry(w)
  BY <1>1, <1>12 DEF Retry
<1>13. CASE Ack(w)
  BY <1>2, <1>13 DEF Ack
<1>14. CASE Crash(w)
  BY <1>2, <1>14 DEF Crash
<1>. QED
  BY <1>3, <1>4, <1>5, <1>6, <1>7, <1>8, <1>9, <1>10, <1>11, <1>12, <1>13,
     <1>14 DEF Work

\* What a step does to the rows of the jobs: none comes or goes, or loses its
\* tenant or its result.
LEMMA JobSteps ==
  ASSUME WorkerTypeOK, NEW w \in Worker, Work(w) \/ Crash(w)
  PROVE  /\ jobs' \in [Request -> JobRow \cup {None}]
         /\ \A r \in Request : jobs[r] = None => jobs'[r] = None
         /\ \A r \in Request : jobs[r] # None =>
              /\ jobs'[r] # None /\ jobs'[r].tenant = jobs[r].tenant
              /\ jobs[r].result => jobs'[r].result
<1>1. CASE MarkRunning(w) \/ MarkFailed(w)
  BY <1>1, StatusRow DEF MarkRunning, MarkFailed, JobStatus
<1>2. CASE Complete(w)
  BY <1>2, ResultRow DEF Complete
<1>3. CASE UNCHANGED jobs
  BY <1>3 DEF WorkerTypeOK, StoreTypeOK
<1>. QED
  BY <1>1, <1>2, <1>3 DEF Work, Crash, ReceiveTask, RunTool, AttemptFails,
    UniqueViolation, Cleanup, StatusWriteFails, Retry, Ack, storeVars

\* What a step does to the broker: one message is taken, or the next attempt
\* of the job that the process has is put there.
LEMMA QueueSteps ==
  ASSUME WorkerTypeOK, NEW w \in Worker, Work(w) \/ Crash(w)
  PROVE  /\ queue' \in [Request -> [Attempt -> Nat]]
         /\ \/ queue' = queue
            \/ /\ slot[w].pc = "idle"
               /\ queue' = Taken(queue, slot'[w].job, slot'[w].attempt)
            \/ /\ slot[w].pc # "idle"
               /\ \E k \in Attempt : queue' = Published(queue, slot[w].job, k)
<1>1. ASSUME NEW r \in Request, NEW k \in Attempt, ReceiveTask(w, r, k)
      PROVE  /\ queue' \in [Request -> [Attempt -> Nat]]
             /\ slot[w].pc = "idle"
             /\ queue' = Taken(queue, slot'[w].job, slot'[w].attempt)
  <2>. DEFINE new == [IdleSlot EXCEPT !.pc = "received", !.job = r,
                                      !.attempt = k]
  <2>1. slot' = [slot EXCEPT ![w] = new] /\ slot[w].pc = "idle"
        /\ queue[r][k] > 0 /\ queue' = Taken(queue, r, k)
    BY <1>1 DEF ReceiveTask
  <2>2. new.job = r /\ new.attempt = k
    BY DEF IdleSlot
  <2>. QED BY <2>1, <2>2, QueueType DEF WorkerTypeOK, StoreTypeOK
<1>2. CASE Retry(w)
  <2>1. slot[w].pc # "idle" /\ slot[w].job \in Request
        /\ slot[w].attempt \in Attempt
        /\ MaxRetries[TaskOf(w).tool] \in Attempt
    BY <1>2, SlotHasTask, StoreAssumption DEF Retry, Task
  <2>2. slot[w].attempt < MaxRetries[TaskOf(w).tool]
          => slot[w].attempt + 1 \in Attempt
    BY <2>1 DEF Attempt
  <2>3. queue \in [Request -> [Attempt -> Nat]]
    BY DEF WorkerTypeOK, StoreTypeOK
  <2>. QED BY <1>2, <2>1, <2>2, <2>3, QueueType DEF Retry
<1>3. CASE Crash(w)
  BY <1>3, SlotHasTask, QueueType DEF Crash, WorkerTypeOK, StoreTypeOK
<1>4. CASE UNCHANGED queue
  BY <1>4 DEF WorkerTypeOK, StoreTypeOK
<1>. QED
  BY <1>1, <1>2, <1>3, <1>4 DEF Work, MarkRunning, RunTool, AttemptFails,
    UniqueViolation, Complete, Cleanup, MarkFailed, StatusWriteFails, Ack,
    storeVars

\* What a step does to the rows of the tools: an attempt that commits inserts
\* a candidate, or the repository that its upsert did not find.
LEMMA RowSteps ==
  ASSUME WorkerTypeOK, NEW w \in Worker, Work(w) \/ Crash(w)
  PROVE  /\ \/ candidates' = candidates
            \/ /\ Complete(w) /\ TaskOf(w).tool = "cv_save"
               /\ candidates' = [candidates EXCEPT ![slot[w].job] = @ + 1]
         /\ \/ repositories' = repositories
            \/ /\ Complete(w) /\ TaskOf(w).tool = "github_ingestion"
               /\ ~slot[w].exists
               /\ repositories' = [repositories EXCEPT
                    ![TaskOf(w).tenant][TaskOf(w).payload] = @ + 1]
         /\ candidates' \in [Request -> Nat]
         /\ repositories' \in [Tenant -> [Url -> Nat]]
<1>1. CASE Complete(w)
  <2>1. /\ slot[w].job \in Request /\ TaskOf(w).tenant \in Tenant
        /\ candidates \in [Request -> Nat]
        /\ repositories \in [Tenant -> [Url -> Nat]]
    BY <1>1, SlotHasTask DEF Complete, Task, WorkerTypeOK
  <2>2. [repositories EXCEPT ![TaskOf(w).tenant][TaskOf(w).payload] = @ + 1]
          \in [Tenant -> [Url -> Nat]]
    <3>. DEFINE t == TaskOf(w).tenant
                u == TaskOf(w).payload
                rows == repositories[t]
    <3>1. rows \in [Url -> Nat]
      BY <2>1
    <3>2. [rows EXCEPT ![u] = @ + 1] \in [Url -> Nat]
      <4>1. CASE u \in Url
        BY <3>1, <4>1
      <4>2. CASE u \notin Url
        BY <3>1, <4>2
      <4>. QED BY <4>1, <4>2
    <3>. QED BY <2>1, <3>2
  <2>. QED BY <1>1, <2>1, <2>2 DEF Complete
<1>2. CASE UNCHANGED <<candidates, repositories>>
  BY <1>2 DEF WorkerTypeOK
<1>. QED
  BY <1>1, <1>2 DEF Work, Crash, ReceiveTask, MarkRunning, RunTool,
    AttemptFails, UniqueViolation, Cleanup, MarkFailed, StatusWriteFails,
    Retry, Ack

\* What a worker has written to no row stays known.
LEMMA MissedSteps ==
  ASSUME WorkerTypeOK, NEW w \in Worker, Work(w) \/ Crash(w)
  PROVE  missed \subseteq missed' /\ missed' \subseteq Request \X EndStatus
<1>. USE DEF WorkerTypeOK
<1>1. CASE MarkRunning(w)
  BY <1>1 DEF MarkRunning, update_status, Note, EndStatus
<1>2. CASE MarkFailed(w)
  BY <1>2, SlotHasTask DEF MarkFailed, update_status, Note, EndStatus
<1>3. CASE Complete(w)
  BY <1>3, SlotHasTask DEF Complete, update_result, Note, EndStatus
<1>4. CASE UNCHANGED missed
  BY <1>4
<1>. QED
  BY <1>1, <1>2, <1>3, <1>4 DEF Work, Crash, ReceiveTask, RunTool,
    AttemptFails, UniqueViolation, Cleanup, StatusWriteFails, Retry, Ack

LEMMA WorkerTypeStep ==
  ASSUME WorkerTypeOK, EffectsHaveTasks, [WorkerNext]_workerVars
  PROVE  WorkerTypeOK'
<1>1. CASE UNCHANGED workerVars
  BY <1>1 DEF workerVars, WorkerTypeOK, StoreTypeOK
<1>2. ASSUME NEW w \in Worker, Work(w) \/ Crash(w)
      PROVE  WorkerTypeOK'
  <2>1. StoreTypeOK'
    <3>1. files' \subseteq files
      BY <1>2 DEF Work, Crash, ReceiveTask, MarkRunning, RunTool,
        AttemptFails, UniqueViolation, Complete, Cleanup, MarkFailed,
        StatusWriteFails, Retry, Ack, storeVars
    <3>. QED BY <1>2, <3>1, JobSteps, QueueSteps, WorkerFrame
         DEF WorkerNext, WorkerTypeOK, StoreTypeOK
  <2>2. slot' \in [Worker -> SlotState]
    BY <1>2, SlotSteps DEF SlotStep
  <2>3. \A v \in Worker : slot'[v].pc # "idle" =>
          slot'[v].job # None /\ tasks'[slot'[v].job] # None
    <3>1. \A v \in Worker \ {w} : slot'[v] = slot[v]
      BY <1>2, SlotSteps DEF SlotStep
    <3>2. ASSUME slot'[w].pc # "idle"
          PROVE  slot'[w].job # None /\ tasks[slot'[w].job] # None
      <4>1. CASE slot[w].pc = "idle"
        <5>1. slot'[w].job \in Request /\ slot'[w].attempt \in Attempt
              /\ queue[slot'[w].job][slot'[w].attempt] > 0
          BY <1>2, <3>2, <4>1, SlotSteps DEF SlotStep, IdleSlot
        <5>. QED BY <5>1, StoreAssumption DEF EffectsHaveTasks
      <4>2. CASE slot[w].pc # "idle"
        <5>1. slot'[w].job = slot[w].job
          BY <1>2, <3>2, <4>2, SlotSteps DEF SlotStep, IdleSlot
        <5>. QED BY <4>2, <5>1, SlotHasTask DEF TaskOf
      <4>. QED BY <4>1, <4>2
    <3>3. tasks' = tasks
      BY <1>2, WorkerFrame DEF WorkerNext
    <3>. QED BY <3>1, <3>2, <3>3 DEF WorkerTypeOK
  <2>4. candidates' \in [Request -> Nat]
        /\ repositories' \in [Tenant -> [Url -> Nat]]
    BY <1>2, RowSteps
  <2>5. crashes' \in 0 .. MaxCrashes
    <3>1. crashes' = crashes \/ (crashes' = crashes + 1 /\ crashes < MaxCrashes)
      <4>1. Work(w) => crashes' = crashes
        BY DEF Work, ReceiveTask, MarkRunning, RunTool, AttemptFails,
          UniqueViolation, Complete, Cleanup, MarkFailed, StatusWriteFails,
          Retry, Ack
      <4>2. Crash(w) => crashes' = crashes + 1 /\ crashes < MaxCrashes
        BY DEF Crash
      <4>. QED BY <1>2, <4>1, <4>2
    <3>. QED BY <3>1, WorkerAssumption DEF WorkerTypeOK
  <2>6. missed' \subseteq Request \X EndStatus
    BY <1>2, MissedSteps
  <2>. QED BY <2>1, <2>2, <2>3, <2>4, <2>5, <2>6 DEF WorkerTypeOK
<1>. QED BY <1>1, <1>2 DEF WorkerNext

-----------------------------------------------------------------------------
(* What the workers keep *)

\* Rows of the tools only add up.
LEMMA RowsGrow ==
  ASSUME WorkerTypeOK, NEW w \in Worker, Work(w) \/ Crash(w)
  PROVE  /\ \A r \in Request : candidates[r] > 0 => candidates'[r] > 0
         /\ \A t \in Tenant, u \in Url :
              repositories[t][u] > 0 => repositories'[t][u] > 0
<1>1. candidates \in [Request -> Nat] /\ repositories \in [Tenant -> [Url -> Nat]]
  BY DEF WorkerTypeOK
<1>2. \A r \in Request : candidates[r] > 0 => candidates'[r] > 0
  <2>1. CASE candidates' = candidates
    BY <2>1
  <2>2. CASE candidates' = [candidates EXCEPT ![slot[w].job] = @ + 1]
    BY <1>1, <2>2
  <2>. QED BY <2>1, <2>2, RowSteps
<1>3. ASSUME NEW t \in Tenant, NEW u \in Url, repositories[t][u] > 0
      PROVE  repositories'[t][u] > 0
  <2>. DEFINE s == TaskOf(w).tenant
              p == TaskOf(w).payload
  <2>1. repositories' = repositories
        \/ repositories' = [repositories EXCEPT ![s][p] = @ + 1]
    BY RowSteps
  <2>2. ASSUME repositories' = [repositories EXCEPT ![s][p] = @ + 1]
        PROVE  repositories'[t][u] = repositories[t][u]
               \/ repositories'[t][u] = repositories[t][u] + 1
    <3>. HIDE DEF s, p
    <3>1. CASE t = s /\ u = p
      BY <1>1, <2>2, <3>1
    <3>2. CASE t = s /\ u # p
      BY <1>1, <2>2, <3>2
    <3>3. CASE t # s
      BY <1>1, <2>2, <3>3
    <3>. QED BY <3>1, <3>2, <3>3
  <2>3. repositories[t][u] \in Nat
    BY <1>1
  <2>. QED BY <1>3, <2>1, <2>2, <2>3
<1>. QED BY <1>2, <1>3

\* A saved profile stays savable: its parse job keeps its tenant and result.
LEMMA SavingStays ==
  ASSUME WorkerTypeOK, NEW w \in Worker, Work(w) \/ Crash(w),
         NEW j \in Request, NEW t
  PROVE  HasJob(t, j) /\ jobs[j].result => HasJob(t, j)' /\ jobs'[j].result
BY JobSteps DEF HasJob

LEMMA EffectsStep ==
  ASSUME WorkerTypeOK, EffectsHaveTasks, [WorkerNext]_workerVars
  PROVE  EffectsHaveTasks'
<1>1. CASE UNCHANGED workerVars
  BY <1>1 DEF workerVars, EffectsHaveTasks
<1>2. ASSUME NEW w \in Worker, Work(w) \/ Crash(w)
      PROVE  EffectsHaveTasks'
  <2>1. tasks' = tasks
    BY <1>2, WorkerFrame DEF WorkerNext
  <2>2. ASSUME NEW r \in Request, tasks[r] = None
        PROVE  /\ jobs'[r] = None /\ candidates'[r] = 0
               /\ \A k \in Attempt : queue'[r][k] = 0
    <3>1. /\ jobs[r] = None /\ candidates[r] = 0
          /\ \A k \in Attempt : queue[r][k] = 0
      BY <2>2 DEF EffectsHaveTasks
    <3>2. slot[w].pc # "idle" => slot[w].job # r
      BY <2>2 DEF WorkerTypeOK
    <3>3. jobs'[r] = None
      BY <1>2, <3>1, JobSteps
    <3>4. candidates'[r] = 0
      <4>1. CASE candidates' = candidates
        BY <3>1, <4>1
      <4>2. ASSUME Complete(w),
                   candidates' = [candidates EXCEPT ![slot[w].job] = @ + 1]
            PROVE  candidates'[r] = 0
        BY <3>1, <3>2, <4>2 DEF Complete, WorkerTypeOK
      <4>. QED BY <1>2, <4>1, <4>2, RowSteps
    <3>5. ASSUME NEW k \in Attempt
          PROVE  queue'[r][k] = 0
      <4>1. queue \in [Request -> [Attempt -> Nat]]
        BY DEF WorkerTypeOK, StoreTypeOK
      <4>2. CASE queue' = queue
        BY <3>1, <4>2
      <4>3. ASSUME slot[w].pc = "idle", queue' # queue
            PROVE  queue'[r][k] = 0
        <5>. DEFINE s == slot'[w].job
                    n == slot'[w].attempt
        <5>1. queue' = Taken(queue, s, n)
          BY <1>2, <4>3, QueueSteps
        <5>2. CASE s = r
          <6>1. slot'[w].pc = "received" => queue[s][n] > 0 /\ n \in Attempt
            BY <1>2, <4>3, SlotSteps DEF SlotStep, IdleSlot
          <6>2. slot'[w] # IdleSlot
            BY <5>2, StoreAssumption DEF IdleSlot
          <6>. QED BY <1>2, <3>1, <4>3, <5>2, <6>1, <6>2, SlotSteps
               DEF SlotStep
        <5>3. CASE s # r
          <6>. HIDE DEF s, n
          <6>. QED BY <3>1, <4>1, <5>1, <5>3 DEF Taken
        <5>. QED BY <5>2, <5>3
      <4>4. ASSUME slot[w].pc # "idle", NEW n \in Attempt,
                   queue' = Published(queue, slot[w].job, n)
            PROVE  queue'[r][k] = 0
        BY <3>1, <3>2, <4>1, <4>4 DEF Published
      <4>. QED BY <1>2, <4>2, <4>3, <4>4, QueueSteps
    <3>. QED BY <3>3, <3>4, <3>5
  <2>3. ASSUME NEW r \in Request, tasks[r] # None, jobs'[r] # None
        PROVE  jobs'[r].tenant = tasks[r].tenant
    BY <1>2, <2>3, JobSteps DEF EffectsHaveTasks
  <2>4. ASSUME NEW t \in Tenant, NEW u \in Url, repositories'[t][u] > 0
        PROVE  \E r \in Request : tasks[r] =
                 [tenant |-> t, tool |-> "github_ingestion", payload |-> u]
    <3>. DEFINE s == TaskOf(w).tenant
                p == TaskOf(w).payload
    <3>1. repositories \in [Tenant -> [Url -> Nat]]
      BY DEF WorkerTypeOK
    <3>2. CASE repositories[t][u] > 0
      BY <3>2 DEF EffectsHaveTasks
    <3>3. ASSUME ~(repositories[t][u] > 0)
          PROVE  /\ Complete(w) /\ TaskOf(w).tool = "github_ingestion"
                 /\ repositories' = [repositories EXCEPT ![s][p] = @ + 1]
      BY <1>2, <2>4, <3>3, RowSteps
    <3>4. ASSUME repositories' = [repositories EXCEPT ![s][p] = @ + 1],
                 ~(repositories[t][u] > 0)
          PROVE  t = s /\ u = p
      <4>. HIDE DEF s, p
      <4>. QED BY <2>4, <3>1, <3>4
    <3>5. ASSUME Complete(w), TaskOf(w).tool = "github_ingestion",
                 t = s, u = p
          PROVE  /\ slot[w].job \in Request
                 /\ tasks[slot[w].job] = [tenant |-> t,
                      tool |-> "github_ingestion", payload |-> u]
      <4>1. slot[w].job \in Request /\ tasks[slot[w].job] \in Task
        BY <3>5, SlotHasTask DEF Complete, TaskOf
      <4>. QED BY <3>5, <4>1 DEF Task, TaskOf
    <3>. QED BY <3>2, <3>3, <3>4, <3>5
  <2>. QED BY <2>1, <2>2, <2>3, <2>4 DEF EffectsHaveTasks
<1>. QED BY <1>1, <1>2 DEF WorkerNext

\* What an attempt found before its commit cannot go away under it.
LEMMA FoundStep ==
  ASSUME WorkerTypeOK, FoundIsStillThere, [WorkerNext]_workerVars
  PROVE  FoundIsStillThere'
<1>1. CASE UNCHANGED workerVars
  BY <1>1 DEF workerVars, FoundIsStillThere, TaskOf, SavingCanRun, HasJob
<1>2. ASSUME NEW w \in Worker, Work(w) \/ Crash(w)
      PROVE  FoundIsStillThere'
  <2>. DEFINE Found(v) ==
         /\ slot[v].pc = "commit" =>
              /\ TaskOf(v).tool = "github_ingestion" =>
                   /\ TaskOf(v).payload \in Url
                   /\ slot[v].exists =>
                        repositories[TaskOf(v).tenant][TaskOf(v).payload] > 0
              /\ TaskOf(v).tool = "cv_save" => SavingCanRun(TaskOf(v))
         /\ slot[v].pc = "cleanup" => TaskOf(v).tool = "cv_parsing"
  <2>1. tasks' = tasks
    BY <1>2, WorkerFrame DEF WorkerNext
  <2>2. ASSUME NEW task \in Task, SavingCanRun(task)
        PROVE  SavingCanRun(task)'
    BY <1>2, <2>2, SavingStays DEF SavingCanRun
  <2>3. ASSUME NEW v \in Worker, slot'[v] = slot[v]
        PROVE  Found(v)'
    <3>1. Found(v)
      BY DEF FoundIsStillThere
    <3>2. TaskOf(v)' = TaskOf(v)
      BY <2>1, <2>3 DEF TaskOf
    <3>3. slot[v].pc = "commit" => TaskOf(v) \in Task /\ TaskOf(v).tenant \in Tenant
      BY SlotHasTask DEF Task
    <3>. QED BY <1>2, <2>2, <2>3, <3>1, <3>2, <3>3, RowsGrow
  <2>4. Found(w)'
    <3>1. CASE RunTool(w)
      <4>. DEFINE e == TaskOf(w).tool = "github_ingestion"
                       /\ repositories[TaskOf(w).tenant][TaskOf(w).payload] > 0
      <4>1. /\ slot[w].pc = "running" /\ ToolCanRun(TaskOf(w))
            /\ jobs' = jobs /\ repositories' = repositories
            /\ slot' = [slot EXCEPT ![w].pc = "commit", ![w].exists = e]
        BY <3>1 DEF RunTool, storeVars
      <4>2. slot[w] \in SlotState /\ slot \in [Worker -> SlotState]
        BY DEF WorkerTypeOK
      <4>3. slot'[w].pc = "commit" /\ slot'[w].job = slot[w].job
            /\ slot'[w].exists = e
        BY <4>1, <4>2 DEF SlotState
      <4>4. TaskOf(w)' = TaskOf(w)
        BY <2>1, <4>3 DEF TaskOf
      <4>5. TaskOf(w).tool = "github_ingestion" => TaskOf(w).payload \in Url
        BY <4>1 DEF ToolCanRun, IngestionCanRun
      <4>6. TaskOf(w).tool = "cv_save" => SavingCanRun(TaskOf(w))
        BY <4>1 DEF ToolCanRun
      <4>7. SavingCanRun(TaskOf(w)) => SavingCanRun(TaskOf(w))'
        BY <4>1, <4>4 DEF SavingCanRun, HasJob
      <4>. QED BY <4>1, <4>3, <4>4, <4>5, <4>6, <4>7
    <3>2. CASE Complete(w)
      <4>1. slot'[w].pc = (IF TaskOf(w).tool = "cv_parsing"
                           THEN "cleanup" ELSE "ack")
            /\ slot'[w].job = slot[w].job
        BY <3>2, StepSlot DEF Complete
      <4>2. TaskOf(w)' = TaskOf(w)
        BY <2>1, <4>1 DEF TaskOf
      <4>. QED BY <4>1, <4>2
    <3>3. slot'[w].pc \notin {"commit", "cleanup"}
            \/ RunTool(w) \/ Complete(w)
      <4>1. ASSUME NEW pc \in {"running", "failing", "retry", "ack"},
                   Step(w, pc)
            PROVE  slot'[w].pc \notin {"commit", "cleanup"}
        BY <4>1, StepSlot
      <4>2. CASE slot' = [slot EXCEPT ![w] = IdleSlot]
        BY <4>2 DEF WorkerTypeOK, IdleSlot
      <4>3. ASSUME NEW r \in Request, NEW k \in Attempt, ReceiveTask(w, r, k)
            PROVE  slot'[w].pc = "received"
        BY <4>3 DEF ReceiveTask, WorkerTypeOK, IdleSlot
      <4>. QED BY <1>2, <4>1, <4>2, <4>3 DEF Work, Crash, MarkRunning,
             AttemptFails, UniqueViolation, Cleanup, MarkFailed,
             StatusWriteFails, Retry, Ack
    <3>. QED BY <3>1, <3>2, <3>3
  <2>5. \A v \in Worker \ {w} : slot'[v] = slot[v]
    BY <1>2, SlotSteps DEF SlotStep
  <2>6. \A v \in Worker : Found(v)'
    BY <2>3, <2>4, <2>5
  <2>. QED BY <2>6 DEF FoundIsStillThere
<1>. QED BY <1>1, <1>2 DEF WorkerNext

LEMMA CandidatesStep ==
  ASSUME WorkerTypeOK, FoundIsStillThere, CandidatesHaveASource,
         [WorkerNext]_workerVars
  PROVE  CandidatesHaveASource'
<1>1. CASE UNCHANGED workerVars
  BY <1>1 DEF workerVars, CandidatesHaveASource, HasJob
<1>2. ASSUME NEW w \in Worker, Work(w) \/ Crash(w)
      PROVE  CandidatesHaveASource'
  <2>1. tasks' = tasks
    BY <1>2, WorkerFrame DEF WorkerNext
  <2>2. ASSUME NEW r \in Request, candidates'[r] > 0
        PROVE  tasks[r].tool = "cv_save" /\ SavingCanRun(tasks[r])
    <3>1. CASE candidates[r] > 0
      BY <3>1 DEF CandidatesHaveASource, SavingCanRun
    <3>2. CASE ~(candidates[r] > 0)
      <4>1. /\ Complete(w) /\ TaskOf(w).tool = "cv_save"
            /\ candidates' = [candidates EXCEPT ![slot[w].job] = @ + 1]
        BY <1>2, <2>2, <3>2, RowSteps
      <4>2. r = slot[w].job
        BY <2>2, <3>2, <4>1 DEF WorkerTypeOK
      <4>3. slot[w].pc = "commit"
        BY <4>1 DEF Complete
      <4>. QED BY <4>1, <4>2, <4>3 DEF FoundIsStillThere, TaskOf
    <3>. QED BY <3>1, <3>2
  <2>3. ASSUME NEW r \in Request, SavingCanRun(tasks[r])
        PROVE  SavingCanRun(tasks[r])'
    BY <1>2, <2>1, <2>3, SavingStays DEF SavingCanRun
  <2>. QED BY <2>1, <2>2, <2>3 DEF CandidatesHaveASource, SavingCanRun
<1>. QED BY <1>1, <1>2 DEF WorkerNext

\* Only the commit of an attempt sets a result, and a status never says
\* completed without one.
LEMMA StatusSteps ==
  ASSUME WorkerTypeOK, NEW w \in Worker, Work(w) \/ Crash(w),
         NEW r \in Request, jobs[r] # None
  PROVE  \/ Complete(w) /\ slot[w].job = r /\ jobs'[r].result
         \/ /\ jobs'[r].result = jobs[r].result
            /\ jobs'[r].status \in {jobs[r].status, "running", "failed"}
<1>1. ASSUME NEW status \in {"running", "failed"}, slot[w].pc # "idle",
             update_status(w, status)
      PROVE  /\ jobs'[r].result = jobs[r].result
             /\ jobs'[r].status \in {jobs[r].status, status}
  <2>1. jobs'[r].result = jobs[r].result
    BY <1>1, StatusRow DEF JobStatus
  <2>2. CASE HasJob(TaskOf(w).tenant, slot[w].job) /\ r = slot[w].job
    BY <1>1, <2>2, StatusRow DEF JobStatus
  <2>3. CASE r # slot[w].job
    BY <1>1, <2>3, StatusRow DEF JobStatus
  <2>4. CASE ~HasJob(TaskOf(w).tenant, slot[w].job)
    BY <1>1, <2>4 DEF update_status
  <2>. QED BY <2>1, <2>2, <2>3, <2>4
<1>2. CASE Complete(w)
  <2>1. CASE HasJob(TaskOf(w).tenant, slot[w].job) /\ r = slot[w].job
    BY <1>2, <2>1, ResultRow DEF Complete
  <2>2. CASE r # slot[w].job
    BY <1>2, <2>2, ResultRow DEF Complete
  <2>3. CASE ~HasJob(TaskOf(w).tenant, slot[w].job)
    BY <1>2, <2>3 DEF Complete, update_result, RowOf
  <2>. QED BY <2>1, <2>2, <2>3
<1>3. CASE MarkRunning(w)
  BY <1>1, <1>3 DEF MarkRunning
<1>4. CASE MarkFailed(w)
  BY <1>1, <1>4 DEF MarkFailed
<1>5. CASE UNCHANGED jobs
  BY <1>5
<1>. QED
  BY <1>2, <1>3, <1>4, <1>5 DEF Work, Crash, ReceiveTask, RunTool,
    AttemptFails, UniqueViolation, Cleanup, StatusWriteFails, Retry, Ack,
    storeVars

\* The commit of an attempt leaves the row that its result speaks of.
LEMMA CompleteHasRows ==
  ASSUME WorkerTypeOK, FoundIsStillThere, NEW w \in Worker, Complete(w)
  PROVE  /\ TaskOf(w).tool = "cv_save" => candidates'[slot[w].job] > 0
         /\ TaskOf(w).tool = "github_ingestion" =>
              /\ TaskOf(w).payload \in Url
              /\ repositories'[TaskOf(w).tenant][TaskOf(w).payload] > 0
<1>1. /\ slot[w].pc = "commit" /\ slot[w].job \in Request
      /\ TaskOf(w).tenant \in Tenant
  BY SlotHasTask DEF Complete, Task
<1>2. TaskOf(w).tool = "cv_save" => candidates'[slot[w].job] > 0
  BY <1>1 DEF Complete, WorkerTypeOK
<1>3. ASSUME TaskOf(w).tool = "github_ingestion"
      PROVE  /\ TaskOf(w).payload \in Url
             /\ repositories'[TaskOf(w).tenant][TaskOf(w).payload] > 0
  <2>1. TaskOf(w).payload \in Url
        /\ (slot[w].exists =>
              repositories[TaskOf(w).tenant][TaskOf(w).payload] > 0)
    BY <1>1, <1>3 DEF FoundIsStillThere
  <2>2. CASE slot[w].exists
    BY <1>1, <1>3, <2>1, <2>2, RowsGrow DEF Work
  <2>3. CASE ~slot[w].exists
    <3>. DEFINE s == TaskOf(w).tenant
                p == TaskOf(w).payload
    <3>1. repositories' = [repositories EXCEPT ![s][p] = @ + 1]
      BY <1>3, <2>3 DEF Complete
    <3>2. repositories \in [Tenant -> [Url -> Nat]]
      BY DEF WorkerTypeOK
    <3>3. s \in Tenant /\ p \in Url
      BY <1>1, <2>1
    <3>4. repositories'[s][p] > 0
      <4>. HIDE DEF s, p
      <4>. QED BY <3>1, <3>2, <3>3
    <3>. QED BY <2>1, <3>4
  <2>. QED BY <2>1, <2>2, <2>3
<1>. QED BY <1>2, <1>3

LEMMA ResultsStep ==
  ASSUME WorkerTypeOK, EffectsHaveTasks, FoundIsStillThere,
         ResultsHaveTheirRows, [WorkerNext]_workerVars
  PROVE  ResultsHaveTheirRows'
<1>1. CASE UNCHANGED workerVars
  BY <1>1 DEF workerVars, ResultsHaveTheirRows
<1>2. ASSUME NEW w \in Worker, Work(w) \/ Crash(w)
      PROVE  ResultsHaveTheirRows'
  <2>. DEFINE HasRows(r) ==
         /\ tasks[r].tool = "cv_save" => candidates[r] > 0
         /\ tasks[r].tool = "github_ingestion" =>
              /\ tasks[r].payload \in Url
              /\ repositories[tasks[r].tenant][tasks[r].payload] > 0
  <2>1. tasks' = tasks
    BY <1>2, WorkerFrame DEF WorkerNext
  <2>2. ASSUME NEW r \in Request, jobs'[r] # None
        PROVE  /\ jobs'[r].status = "completed" => jobs'[r].result
               /\ jobs'[r].result => HasRows(r)'
    <3>1. jobs[r] # None /\ tasks[r] # None /\ tasks[r].tenant \in Tenant
      BY <1>2, <2>2, JobSteps DEF EffectsHaveTasks, WorkerTypeOK, StoreTypeOK,
        Task
    <3>2. /\ jobs[r].status = "completed" => jobs[r].result
          /\ jobs[r].result => HasRows(r)
      BY <3>1 DEF ResultsHaveTheirRows
    <3>3. HasRows(r) => HasRows(r)'
      BY <1>2, <2>1, <3>1, RowsGrow
    <3>4. ASSUME Complete(w), slot[w].job = r
          PROVE  HasRows(r)'
      BY <2>1, <3>4, CompleteHasRows DEF TaskOf
    <3>. QED BY <1>2, <3>1, <3>2, <3>3, <3>4, StatusSteps
  <2>. QED BY <2>2 DEF ResultsHaveTheirRows
<1>. QED BY <1>1, <1>2 DEF WorkerNext

\* The unique constraint: a second upsert that saw no row does not commit.
LEMMA OneRepositoryStep ==
  ASSUME WorkerTypeOK, OneRepositoryPerUrl, [WorkerNext]_workerVars
  PROVE  OneRepositoryPerUrl'
<1>1. CASE UNCHANGED workerVars
  BY <1>1 DEF workerVars, OneRepositoryPerUrl
<1>2. ASSUME NEW w \in Worker, Work(w) \/ Crash(w),
             NEW t \in Tenant, NEW u \in Url
      PROVE  repositories'[t][u] <= 1
  <2>. DEFINE s == TaskOf(w).tenant
              p == TaskOf(w).payload
  <2>1. /\ repositories \in [Tenant -> [Url -> Nat]]
        /\ repositories[t][u] \in Nat /\ repositories[t][u] <= 1
    BY DEF WorkerTypeOK, OneRepositoryPerUrl
  <2>2. CASE repositories' = repositories
    BY <2>1, <2>2
  <2>3. ASSUME Complete(w), TaskOf(w).tool = "github_ingestion",
               ~slot[w].exists,
               repositories' = [repositories EXCEPT ![s][p] = @ + 1]
        PROVE  repositories'[t][u] <= 1
    <3>1. ~(repositories[s][p] > 0)
      BY <2>3 DEF Complete, Collides
    <3>2. CASE t = s /\ u = p
      <4>. HIDE DEF s, p
      <4>. QED BY <2>1, <2>3, <3>1, <3>2
    <3>3. CASE ~(t = s /\ u = p)
      <4>. HIDE DEF s, p
      <4>. QED BY <2>1, <2>3, <3>3
    <3>. QED BY <3>2, <3>3
  <2>. QED BY <1>2, <2>2, <2>3, RowSteps
<1>. QED BY <1>1, <1>2 DEF WorkerNext, OneRepositoryPerUrl

-----------------------------------------------------------------------------
(* Counting messages *)

\* One message more, or one less, in the broker.
LEMMA CopiesPublished ==
  ASSUME WorkerTypeOK, NEW s \in Request, NEW k \in Attempt, NEW r \in Request,
         queue' = Published(queue, s, k)
  PROVE  Copies(r)' = IF r = s THEN Copies(r) + 1 ELSE Copies(r)
<1>1. queue \in [Request -> [Attempt -> Nat]] /\ k \in {0, 1, 2, 3}
      /\ {0, 1, 2, 3} \subseteq Attempt
  BY DEF WorkerTypeOK, StoreTypeOK, Attempt
<1>2. queue' = [queue EXCEPT ![s] = [queue[s] EXCEPT ![k] = @ + 1]]
  BY <1>1 DEF Published
<1>3. CASE r # s
  BY <1>1, <1>2, <1>3 DEF Copies
<1>4. CASE r = s
  <2>1. queue'[r] = [queue[r] EXCEPT ![k] = @ + 1]
    BY <1>1, <1>2, <1>4
  <2>. QED BY <1>1, <1>4, <2>1 DEF Copies
<1>. QED BY <1>3, <1>4

LEMMA CopiesTaken ==
  ASSUME WorkerTypeOK, NEW s \in Request, NEW k \in Attempt, NEW r \in Request,
         queue[s][k] > 0, queue' = Taken(queue, s, k)
  PROVE  Copies(r)' = IF r = s THEN Copies(r) - 1 ELSE Copies(r)
<1>1. queue \in [Request -> [Attempt -> Nat]] /\ k \in {0, 1, 2, 3}
      /\ {0, 1, 2, 3} \subseteq Attempt
  BY DEF WorkerTypeOK, StoreTypeOK, Attempt
<1>2. queue' = [queue EXCEPT ![s] = [queue[s] EXCEPT ![k] = @ - 1]]
  BY <1>1 DEF Taken
<1>3. CASE r # s
  BY <1>1, <1>2, <1>3 DEF Copies
<1>4. CASE r = s
  <2>1. queue'[r] = [queue[r] EXCEPT ![k] = @ - 1]
    BY <1>1, <1>2, <1>4
  <2>. QED BY <1>1, <1>4, <2>1 DEF Copies
<1>. QED BY <1>3, <1>4

LEMMA CopiesType ==
  ASSUME WorkerTypeOK, NEW r \in Request
  PROVE  Copies(r) \in Nat
BY DEF WorkerTypeOK, StoreTypeOK, Attempt, Copies

\* The processes of a finite pool that still owe job r an outcome.
LEMMA WorkingFinite ==
  ASSUME NEW r
  PROVE  /\ IsFiniteSet(Working(r)) /\ Cardinality(Working(r)) \in Nat
         /\ IsFiniteSet(Working(r)') /\ Cardinality(Working(r)') \in Nat
<1>1. Working(r) \subseteq Worker /\ Working(r)' \subseteq Worker
  BY DEF Working
<1>. QED BY <1>1, WorkerAssumption, FS_Subset, FS_CardinalityType

\* How a set of processes that loses one, or gains one, is counted.
LEMMA WorkingCount ==
  ASSUME NEW r, NEW w
  PROVE  /\ Working(r)' \subseteq Working(r) =>
              Cardinality(Working(r)') <= Cardinality(Working(r))
         /\ Working(r)' \subseteq Working(r) \cup {w} =>
              Cardinality(Working(r)') <= Cardinality(Working(r)) + 1
         /\ w \in Working(r) /\ Working(r)' \subseteq Working(r) \ {w} =>
              Cardinality(Working(r)') <= Cardinality(Working(r)) - 1
<1>. DEFINE W == Working(r)
<1>1. IsFiniteSet(W) /\ Cardinality(W) \in Nat
      /\ Cardinality(Working(r)') \in Nat
  BY WorkingFinite
<1>2. ASSUME Working(r)' \subseteq W
      PROVE  Cardinality(Working(r)') <= Cardinality(W)
  BY <1>1, <1>2, FS_Subset
<1>3. ASSUME Working(r)' \subseteq W \cup {w}
      PROVE  Cardinality(Working(r)') <= Cardinality(W) + 1
  <2>1. IsFiniteSet(W \cup {w})
        /\ (Cardinality(W \cup {w}) = Cardinality(W)
            \/ Cardinality(W \cup {w}) = Cardinality(W) + 1)
    BY <1>1, FS_AddElement
  <2>2. Cardinality(Working(r)') <= Cardinality(W \cup {w})
    BY <1>3, <2>1, FS_Subset
  <2>. QED BY <1>1, <2>1, <2>2
<1>4. ASSUME w \in W, Working(r)' \subseteq W \ {w}
      PROVE  Cardinality(Working(r)') <= Cardinality(W) - 1
  <2>1. IsFiniteSet(W \ {w}) /\ Cardinality(W \ {w}) = Cardinality(W) - 1
    BY <1>1, <1>4, FS_RemoveElement
  <2>2. Cardinality(Working(r)') <= Cardinality(W \ {w})
    BY <1>4, <2>1, FS_Subset
  <2>. QED BY <2>1, <2>2
<1>. QED BY <1>2, <1>3, <1>4

\* A step moves one process in or out of the processes that owe an outcome.
LEMMA WorkingSteps ==
  ASSUME WorkerTypeOK, NEW w \in Worker, Work(w) \/ Crash(w), NEW r \in Request
  PROVE  /\ Working(r)' \subseteq Working(r) \cup {w}
         /\ slot'[w].job # r \/ slot'[w].pc \in {"cleanup", "ack"} =>
              Working(r)' \subseteq Working(r) \ {w}
         /\ slot[w].job = r /\ slot[w].pc \notin {"idle", "cleanup", "ack"} =>
              w \in Working(r)
<1>1. \A v \in Worker \ {w} : slot'[v] = slot[v]
  BY SlotSteps DEF SlotStep
<1>2. Working(r)' = {v \in Worker : slot'[v].job = r
                          /\ slot'[v].pc \notin {"idle", "cleanup", "ack"}}
  BY DEF Working
<1>. QED BY <1>1, <1>2 DEF Working

\* No step but a death adds to the messages that are not spent: a process
\* takes one out of the broker, or puts one back, and a commit spends one.
LEMMA ConservedStep ==
  ASSUME WorkerTypeOK, MessagesAreConserved, [WorkerNext]_workerVars
  PROVE  MessagesAreConserved'
<1>1. CASE UNCHANGED workerVars
  BY <1>1 DEF workerVars, MessagesAreConserved, Copies, Working
<1>2. ASSUME NEW w \in Worker, Work(w) \/ Crash(w), NEW r \in Request
      PROVE  Copies(r)' + Cardinality(Working(r)') + candidates'[r]
               <= 1 + crashes'
  <2>. DEFINE W  == Cardinality(Working(r))
              W2 == Cardinality(Working(r)')
  <2>1. /\ Copies(r) \in Nat /\ W \in Nat /\ W2 \in Nat
        /\ candidates[r] \in Nat /\ crashes \in Nat
        /\ Copies(r) + W + candidates[r] <= 1 + crashes
    BY CopiesType, WorkingFinite, WorkerAssumption
    DEF WorkerTypeOK, MessagesAreConserved
  <2>2. /\ W2 <= W + 1
        /\ slot'[w].job # r \/ slot'[w].pc \in {"cleanup", "ack"} => W2 <= W
        /\ /\ slot[w].job = r /\ slot[w].pc \notin {"idle", "cleanup", "ack"}
           /\ slot'[w].job # r \/ slot'[w].pc \in {"cleanup", "ack"}
           => W2 <= W - 1
        /\ slot[w].job = r /\ slot[w].pc \notin {"idle", "cleanup", "ack"} => W2 <= W
    BY <1>2, WorkingSteps, WorkingCount
  <2>3. UNCHANGED queue => Copies(r)' = Copies(r)
    BY DEF Copies
  <2>4. ASSUME NEW s \in Request, NEW k \in Attempt, ReceiveTask(w, s, k)
        PROVE  Copies(r)' + W2 + candidates'[r] <= 1 + crashes'
    <3>1. /\ queue[s][k] > 0 /\ queue' = Taken(queue, s, k)
          /\ slot'[w].job = s
          /\ candidates' = candidates /\ crashes' = crashes
      BY <2>4 DEF ReceiveTask, WorkerTypeOK, IdleSlot
    <3>2. Copies(r)' = IF r = s THEN Copies(r) - 1 ELSE Copies(r)
      BY <3>1, CopiesTaken
    <3>3. CASE r = s
      BY <2>1, <2>2, <3>1, <3>2, <3>3
    <3>4. CASE r # s
      BY <2>1, <2>2, <3>1, <3>2, <3>4
    <3>. QED BY <3>3, <3>4
  <2>5. ASSUME slot[w].pc \in {"received", "running", "commit", "failing"},
               slot'[w].job = slot[w].job, UNCHANGED queue,
               UNCHANGED <<candidates, crashes>>
        PROVE  Copies(r)' + W2 + candidates'[r] <= 1 + crashes'
    <3>1. CASE slot[w].job = r
      BY <2>1, <2>2, <2>3, <2>5, <3>1
    <3>2. CASE slot[w].job # r
      BY <2>1, <2>2, <2>3, <2>5, <3>2
    <3>. QED BY <3>1, <3>2
  <2>6. ASSUME slot'[w].job # r \/ slot'[w].pc \in {"cleanup", "ack"},
               UNCHANGED queue, UNCHANGED <<candidates, crashes>>
        PROVE  Copies(r)' + W2 + candidates'[r] <= 1 + crashes'
    BY <2>1, <2>2, <2>3, <2>6
  <2>7. CASE Complete(w)
    <3>1. /\ slot[w].pc = "commit" /\ slot'[w].pc \in {"cleanup", "ack"}
          /\ slot'[w].job = slot[w].job
          /\ queue' = queue /\ crashes' = crashes
      BY <2>7, StepSlot DEF Complete
    <3>2. candidates' = candidates
          \/ candidates' = [candidates EXCEPT ![slot[w].job] = @ + 1]
      BY <1>2, RowSteps
    <3>3. CASE slot[w].job = r
      <4>1. candidates'[r] <= candidates[r] + 1 /\ candidates'[r] \in Nat
        BY <2>1, <3>2, <3>3 DEF WorkerTypeOK
      <4>. QED BY <2>1, <2>2, <2>3, <3>1, <3>3, <4>1
    <3>4. CASE slot[w].job # r
      <4>1. candidates'[r] = candidates[r]
        BY <3>2, <3>4 DEF WorkerTypeOK
      <4>. QED BY <2>1, <2>2, <2>3, <3>1, <3>4, <4>1
    <3>. QED BY <3>3, <3>4
  <2>8. CASE Retry(w)
    <3>1. /\ slot[w].pc = "retry" /\ slot'[w].pc = "ack"
          /\ slot'[w].job = slot[w].job
          /\ candidates' = candidates /\ crashes' = crashes
      BY <2>8, StepSlot DEF Retry
    <3>2. CASE queue' = queue
      BY <2>1, <2>2, <2>3, <3>1, <3>2
    <3>3. ASSUME NEW k \in Attempt, queue' = Published(queue, slot[w].job, k)
          PROVE  Copies(r)' + W2 + candidates'[r] <= 1 + crashes'
      <4>1. Copies(r)' = IF r = slot[w].job THEN Copies(r) + 1 ELSE Copies(r)
        BY <3>1, <3>3, CopiesPublished, SlotHasTask
      <4>2. CASE r = slot[w].job
        BY <2>1, <2>2, <3>1, <4>1, <4>2
      <4>3. CASE r # slot[w].job
        BY <2>1, <2>2, <3>1, <4>1, <4>3
      <4>. QED BY <4>2, <4>3
    <3>. QED BY <1>2, <3>1, <3>2, <3>3, QueueSteps
  <2>9. CASE Crash(w)
    <3>1. /\ slot[w].pc # "idle" /\ slot'[w].job = None
          /\ queue' = Published(queue, slot[w].job, slot[w].attempt)
          /\ candidates' = candidates /\ crashes' = crashes + 1
      BY <2>9 DEF Crash, WorkerTypeOK, IdleSlot
    <3>2. Copies(r)' = IF r = slot[w].job THEN Copies(r) + 1 ELSE Copies(r)
      BY <3>1, CopiesPublished, SlotHasTask
    <3>3. r # None
      BY StoreAssumption
    <3>. QED BY <2>1, <2>2, <3>1, <3>2, <3>3
  <2>10. CASE MarkRunning(w)
    BY <2>5, <2>10, StepSlot DEF MarkRunning
  <2>11. CASE RunTool(w)
    <3>1. slot'[w].job = slot[w].job
      BY <2>11 DEF RunTool, WorkerTypeOK, SlotState
    <3>. QED BY <2>5, <2>11, <3>1 DEF RunTool, storeVars
  <2>12. CASE AttemptFails(w)
    BY <2>5, <2>12, StepSlot DEF AttemptFails, storeVars
  <2>13. CASE UniqueViolation(w)
    BY <2>5, <2>13, StepSlot DEF UniqueViolation, storeVars
  <2>14. CASE MarkFailed(w)
    BY <2>5, <2>14, StepSlot DEF MarkFailed
  <2>15. CASE StatusWriteFails(w)
    BY <2>5, <2>15, StepSlot DEF StatusWriteFails, storeVars
  <2>16. CASE Cleanup(w)
    BY <2>6, <2>16, StepSlot DEF Cleanup
  <2>17. CASE Ack(w)
    <3>1. slot'[w].job # r
      BY <2>17, StoreAssumption DEF Ack, WorkerTypeOK, IdleSlot
    <3>. QED BY <2>6, <2>17, <3>1 DEF Ack, storeVars
  <2>. QED
    BY <1>2, <2>4, <2>7, <2>8, <2>9, <2>10, <2>11, <2>12, <2>13, <2>14,
       <2>15, <2>16, <2>17 DEF Work
<1>. QED BY <1>1, <1>2 DEF WorkerNext, MessagesAreConserved

\* What is conserved bounds the candidates by the deaths.
LEMMA SpentMessages ==
  ASSUME WorkerTypeOK, MessagesAreConserved, NEW r \in Request
  PROVE  candidates[r] <= 1 + crashes
<1>1. Copies(r) \in Nat /\ Cardinality(Working(r)) \in Nat
  BY CopiesType, WorkingFinite
<1>2. candidates[r] \in Nat /\ crashes \in Nat
  BY WorkerAssumption DEF WorkerTypeOK
<1>3. Copies(r) + Cardinality(Working(r)) + candidates[r] <= 1 + crashes
  BY DEF MessagesAreConserved
<1>. QED BY <1>1, <1>2, <1>3

-----------------------------------------------------------------------------
(* Ends of jobs, and files *)

\* An attempt that commits reports its job and ends it, whether or not there
\* is a row to say so.
LEMMA CompleteReports ==
  ASSUME WorkerTypeOK, NEW w \in Worker, Complete(w),
         NEW j \in Request, slot[w].job = j, jobs[j] # None => RowOf(w)
  PROVE  Reported(j)' /\ HasEnded(j)'
<1>1. slot[w].pc # "idle" /\ update_result(w)
  BY DEF Complete
<1>2. CASE RowOf(w)
  <2>1. jobs'[j] # None /\ jobs'[j].status = "completed" /\ jobs'[j].result
    BY <1>1, <1>2, ResultRow DEF RowOf, HasJob
  <2>. QED BY <2>1 DEF Reported, HasEnded, EndStatus
<1>3. CASE ~RowOf(w)
  <2>1. <<j, "completed">> \in missed'
    BY <1>1, <1>3 DEF update_result, Note, EndStatus
  <2>. QED BY <2>1 DEF Reported, HasEnded, EndStatus
<1>. QED BY <1>2, <1>3

\* One that says it has failed ends it too.
LEMMA FailedEnds ==
  ASSUME WorkerTypeOK, NEW w \in Worker, MarkFailed(w),
         NEW j \in Request, slot[w].job = j
  PROVE  HasEnded(j)'
<1>1. slot[w].pc # "idle" /\ update_status(w, "failed")
  BY DEF MarkFailed
<1>2. CASE RowOf(w)
  <2>1. jobs[j] # None /\ HasJob(TaskOf(w).tenant, slot[w].job)
    BY <1>2 DEF RowOf, HasJob
  <2>2. jobs'[j] # None /\ jobs'[j].status = "failed"
    BY <1>1, <2>1, StatusRow DEF JobStatus
  <2>. QED BY <2>2 DEF HasEnded, EndStatus
<1>3. CASE ~RowOf(w)
  <2>1. <<j, "failed">> \in missed'
    BY <1>1, <1>3 DEF update_status, Note, EndStatus
  <2>. QED BY <2>1 DEF HasEnded, EndStatus
<1>. QED BY <1>2, <1>3

\* What is reported stays so.
LEMMA ReportsStay ==
  ASSUME WorkerTypeOK, NEW w \in Worker, Work(w) \/ Crash(w),
         NEW r \in Request, Reported(r)
  PROVE  Reported(r)'
BY JobSteps, MissedSteps DEF Reported

\* A slot's job has a row of its tenant, or none.
LEMMA SlotsRow ==
  ASSUME WorkerTypeOK, EffectsHaveTasks, NEW w \in Worker, slot[w].pc # "idle",
         jobs[slot[w].job] # None
  PROVE  RowOf(w)
BY SlotHasTask DEF EffectsHaveTasks, RowOf, HasJob, TaskOf

\* A process that has a file to remove has committed the result first.
LEMMA RemovedStep ==
  ASSUME WorkerTypeOK, EffectsHaveTasks, RemovedIsReported,
         [WorkerNext]_workerVars
  PROVE  RemovedIsReported'
<1>1. CASE UNCHANGED workerVars
  BY <1>1 DEF workerVars, RemovedIsReported, Reported
<1>2. ASSUME NEW w \in Worker, Work(w) \/ Crash(w),
             NEW v \in Worker, slot'[v].pc = "cleanup",
             NEW j, j = slot'[v].job
      PROVE  Reported(j)'
  <2>1. CASE slot'[v] = slot[v]
    <3>1. j \in Request /\ Reported(j)
      BY <1>2, <2>1, SlotHasTask DEF RemovedIsReported
    <3>. QED BY <1>2, <3>1, ReportsStay
  <2>2. CASE Complete(w) /\ v = w
    <3>1. slot'[w].job = slot[w].job /\ slot[w].pc # "idle"
          /\ slot[w].job \in Request
      BY <2>2, StepSlot, SlotHasTask DEF Complete
    <3>. QED BY <1>2, <2>2, <3>1, SlotsRow, CompleteReports
  <2>3. ASSUME slot'[v] # slot[v]
        PROVE  Complete(w) /\ v = w
    <3>1. v = w
      BY <1>2, <2>3, SlotSteps DEF SlotStep
    <3>2. ASSUME NEW pc \in {"running", "failing", "retry", "ack"}
          PROVE  ~Step(w, pc)
      BY <1>2, <3>1, StepSlot
    <3>3. slot' # [slot EXCEPT ![w] = IdleSlot]
      BY <1>2, <3>1 DEF WorkerTypeOK, IdleSlot
    <3>4. ASSUME NEW r \in Request, NEW k \in Attempt, ReceiveTask(w, r, k)
          PROVE  FALSE
      <4>1. slot'[w].pc = "received"
        BY <3>4 DEF ReceiveTask, WorkerTypeOK, IdleSlot
      <4>. QED BY <1>2, <3>1, <4>1
    <3>5. ~RunTool(w)
      BY <1>2, <3>1 DEF RunTool, WorkerTypeOK, SlotState
    <3>. QED BY <1>2, <3>1, <3>2, <3>3, <3>4, <3>5 DEF Work, Crash,
           MarkRunning, AttemptFails, UniqueViolation, Cleanup, MarkFailed,
           StatusWriteFails, Retry, Ack
  <2>. QED BY <2>1, <2>2, <2>3
<1>. QED BY <1>1, <1>2 DEF WorkerNext, RemovedIsReported

\* A file goes when a task that parsed it is reported.
LEMMA FilesStep ==
  ASSUME WorkerTypeOK, FoundIsStillThere, RemovedIsReported, FileOrResult,
         [WorkerNext]_workerVars
  PROVE  FileOrResult'
<1>1. CASE UNCHANGED workerVars
  BY <1>1 DEF workerVars, FileOrResult, Parsed, Reported
<1>2. ASSUME NEW w \in Worker, Work(w) \/ Crash(w), NEW r \in Request,
             tasks[r] # None, tasks[r].payload \in Confirmation \ files'
      PROVE  \E q \in Request :
               /\ tasks[q] # None /\ tasks[q].tool = "cv_parsing"
               /\ tasks[q].payload = tasks[r].payload /\ Reported(q)'
  <2>1. CASE tasks[r].payload \notin files
    <3>1. PICK q \in Request :
            /\ tasks[q] # None /\ tasks[q].tool = "cv_parsing"
            /\ tasks[q].payload = tasks[r].payload /\ Reported(q)
      BY <1>2, <2>1 DEF FileOrResult, Parsed
    <3>. QED BY <1>2, <3>1, ReportsStay
  <2>2. CASE tasks[r].payload \in files
    <3>1. Cleanup(w) /\ tasks[r].payload = TaskOf(w).payload
      BY <1>2, <2>2 DEF Work, Crash, ReceiveTask, MarkRunning, RunTool,
        AttemptFails, UniqueViolation, Complete, Cleanup, MarkFailed,
        StatusWriteFails, Retry, Ack, storeVars
    <3>2. /\ slot[w].job \in Request /\ tasks[slot[w].job] # None
          /\ TaskOf(w).tool = "cv_parsing" /\ Reported(slot[w].job)
      BY <3>1, SlotHasTask DEF Cleanup, TaskOf, FoundIsStillThere,
        RemovedIsReported
    <3>3. PICK q \in Request : q = slot[w].job
      BY <3>2
    <3>. QED BY <1>2, <3>1, <3>2, <3>3, ReportsStay DEF TaskOf
  <2>. QED BY <2>1, <2>2
<1>. QED BY <1>1, <1>2, WorkerFrame DEF WorkerNext, FileOrResult, Parsed

\* No step drops the last message of an unfinished job: it is retried, handed
\* back by a death, or a worker has said how the job ended.
LEMMA OwedStep ==
  ASSUME WorkerTypeOK, EffectsHaveTasks, ~LostStatusWrites,
         NEW r \in Request, Owed(r) \/ HasEnded(r),
         [WorkerNext]_workerVars
  PROVE  Owed(r)' \/ HasEnded(r)'
<1>. DEFINE Busy(v) == /\ slot[v].job = r
                       /\ slot[v].pc \in {"received", "running", "commit",
                                          "failing"}
<1>1. CASE UNCHANGED workerVars
  BY <1>1 DEF workerVars, Owed, HasEnded
<1>2. ASSUME NEW w \in Worker, Work(w) \/ Crash(w)
      PROVE  Owed(r)' \/ HasEnded(r)'
  <2>1. (\E k \in Attempt : queue'[r][k] > 0) => Owed(r)'
    BY DEF Owed
  <2>2. \A v \in Worker : Busy(v)' => Owed(r)'
    BY DEF Owed
  <2>3. queue \in [Request -> [Attempt -> Nat]]
    BY DEF WorkerTypeOK, StoreTypeOK
  \* A row that said how the job ended still does, or the job is run again.
  <2>4. ASSUME HasEnded(r)
        PROVE  Busy(w)' \/ HasEnded(r)'
    <3>1. CASE MarkRunning(w)
      <4>1. slot'[w].pc = "running" /\ slot'[w].job = slot[w].job
        BY <3>1, StepSlot DEF MarkRunning
      <4>2. slot[w].job # r => jobs'[r] = jobs[r]
        BY <3>1, StatusRow DEF MarkRunning, JobStatus
      <4>. QED BY <1>2, <2>4, <4>1, <4>2, MissedSteps DEF HasEnded
    <3>2. CASE MarkFailed(w) \/ Complete(w)
      <4>1. CASE r = slot[w].job
        <5>1. Complete(w) /\ jobs[r] # None => RowOf(w)
          BY <4>1, SlotsRow DEF Complete
        <5>. QED BY <3>2, <4>1, <5>1, CompleteReports, FailedEnds
      <4>2. CASE r # slot[w].job
        <5>1. jobs'[r] = jobs[r]
          BY <3>2, <4>2, StatusRow, ResultRow
          DEF MarkFailed, Complete, JobStatus
        <5>. QED BY <1>2, <2>4, <5>1, MissedSteps DEF HasEnded
      <4>. QED BY <4>1, <4>2
    <3>3. CASE UNCHANGED jobs
      BY <1>2, <2>4, <3>3, MissedSteps DEF HasEnded
    <3>. QED BY <1>2, <3>1, <3>2, <3>3 DEF Work, Crash, ReceiveTask,
           RunTool, AttemptFails, UniqueViolation, Cleanup, StatusWriteFails,
           Retry, Ack, storeVars
  \* A message that leaves the broker is with the process that took it.
  <2>5. ASSUME NEW k \in Attempt, queue[r][k] > 0
        PROVE  Busy(w)' \/ queue'[r][k] > 0
    <3>1. ASSUME NEW s \in Request, NEW n \in Attempt, ReceiveTask(w, s, n)
          PROVE  Busy(w)' \/ queue'[r][k] > 0
      <4>1. /\ queue' = Taken(queue, s, n)
            /\ slot'[w].pc = "received" /\ slot'[w].job = s
        BY <3>1 DEF ReceiveTask, WorkerTypeOK, IdleSlot
      <4>2. CASE s = r
        BY <4>1, <4>2
      <4>3. CASE s # r
        BY <2>3, <2>5, <4>1, <4>3 DEF Taken
      <4>. QED BY <4>2, <4>3
    <3>2. ASSUME NEW s \in Request, NEW n \in Attempt,
                 queue' = Published(queue, s, n)
          PROVE  queue'[r][k] > 0
      <4>1. CASE r = s /\ k = n
        BY <2>3, <2>5, <3>2, <4>1 DEF Published
      <4>2. CASE r = s /\ k # n
        BY <2>3, <2>5, <3>2, <4>2 DEF Published
      <4>3. CASE r # s
        BY <2>3, <2>5, <3>2, <4>3 DEF Published
      <4>. QED BY <4>1, <4>2, <4>3
    <3>3. slot[w].pc # "idle" =>
            \/ queue' = queue
            \/ \E n \in Attempt : queue' = Published(queue, slot[w].job, n)
      BY <1>2, QueueSteps
    <3>4. slot[w].pc = "idle" =>
            \E s \in Request, n \in Attempt : ReceiveTask(w, s, n)
      BY <1>2 DEF Work, Crash, MarkRunning, RunTool, AttemptFails,
        UniqueViolation, Complete, Cleanup, MarkFailed, StatusWriteFails,
        Retry, Ack
    <3>. QED BY <2>5, <3>1, <3>2, <3>3, <3>4, SlotHasTask
  \* A process that has not said how its job ended keeps it, or says so.
  <2>6. ASSUME Busy(w)
        PROVE  \/ Busy(w)' \/ HasEnded(r)'
               \/ \E k \in Attempt : queue'[r][k] > 0
    <3>1. r = slot[w].job /\ slot[w].pc # "idle"
          /\ (jobs[r] # None => RowOf(w))
      BY <2>6, SlotsRow
    <3>2. CASE Complete(w)
      BY <3>1, <3>2, CompleteReports
    <3>3. CASE MarkFailed(w)
      BY <3>1, <3>3, FailedEnds
    <3>4. CASE Crash(w)
      <4>1. slot[w].attempt \in Attempt /\ slot[w].job \in Request
        BY <3>1, SlotHasTask
      <4>2. queue'[r][slot[w].attempt] > 0
        BY <2>3, <3>1, <3>4, <4>1 DEF Crash, Published
      <4>. QED BY <4>1, <4>2
    <3>5. ASSUME NEW pc \in {"running", "failing"}, Step(w, pc)
          PROVE  Busy(w)'
      BY <3>1, <3>5, StepSlot
    <3>6. CASE RunTool(w)
      BY <3>1, <3>6 DEF RunTool, WorkerTypeOK, SlotState
    <3>7. CASE MarkRunning(w) \/ AttemptFails(w) \/ UniqueViolation(w)
      BY <3>5, <3>7 DEF MarkRunning, AttemptFails, UniqueViolation
    <3>. QED BY <1>2, <2>6, <3>2, <3>3, <3>4, <3>6, <3>7 DEF Work,
           ReceiveTask, Cleanup, StatusWriteFails, Retry, Ack
  <2>7. \A v \in Worker \ {w} : Busy(v) => Busy(v)'
    BY <1>2, SlotSteps DEF SlotStep
  <2>8. \/ HasEnded(r) \/ (\E k \in Attempt : queue[r][k] > 0)
        \/ (\E v \in Worker : Busy(v))
    BY DEF Owed
  <2>. QED BY <2>1, <2>2, <2>4, <2>5, <2>6, <2>7, <2>8
<1>. QED BY <1>1, <1>2 DEF WorkerNext

LEMMA EndsStep ==
  ASSUME WorkerTypeOK, EffectsHaveTasks, ~LostStatusWrites, EndsAreOwed,
         [WorkerNext]_workerVars
  PROVE  EndsAreOwed'
BY OwedStep, WorkerFrame DEF EndsAreOwed

-----------------------------------------------------------------------------
(* The invariant of the workers *)

LEMMA WorkerInvStep ==
  ASSUME WorkerInv, [WorkerNext]_workerVars
  PROVE  WorkerInv'
BY WorkerTypeStep, EffectsStep, FoundStep, ConservedStep, CandidatesStep,
   ResultsStep, OneRepositoryStep, RemovedStep, FilesStep, EndsStep
DEF WorkerInv

\* A pool that starts with jobs of which some have their rows.
LEMMA PoolInit ==
  ASSUME WorkerInit
  PROVE  WorkerInv
<1>1. /\ confirmations \in [Confirmation -> ConfirmationRow \cup {None}]
      /\ files \subseteq Confirmation
  BY DEF WorkerInit
<1>2. \A r \in Request : tasks[r] \in Task /\ tasks[r] # None
  BY StoreAssumption DEF WorkerInit
<1>3. tasks \in [Request -> Task \cup {None}]
  BY <1>2 DEF WorkerInit
<1>4. \A r \in Request : jobs[r] # None =>
        /\ jobs[r] \in JobRow /\ jobs[r].tenant = tasks[r].tenant
        /\ jobs[r].status = "queued" /\ ~jobs[r].result
  <2>1. ASSUME NEW r \in Request, jobs[r] # None
        PROVE  jobs[r] = [tenant |-> tasks[r].tenant, tool |-> tasks[r].tool,
                          status |-> "queued", result |-> FALSE]
    BY <2>1 DEF WorkerInit
  <2>2. ASSUME NEW r \in Request
        PROVE  [tenant |-> tasks[r].tenant, tool |-> tasks[r].tool,
                status |-> "queued", result |-> FALSE] \in JobRow
    <3>1. tasks[r].tenant \in Tenant /\ tasks[r].tool \in Tool
      BY <1>2 DEF Task
    <3>. QED BY <3>1 DEF JobRow, JobStatus
  <2>3. ASSUME NEW r \in Request, jobs[r] # None
        PROVE  /\ jobs[r] \in JobRow /\ jobs[r].tenant = tasks[r].tenant
               /\ jobs[r].status = "queued" /\ ~jobs[r].result
    <3>. DEFINE row == [tenant |-> tasks[r].tenant, tool |-> tasks[r].tool,
                        status |-> "queued", result |-> FALSE]
    <3>1. row \in JobRow /\ row.tenant = tasks[r].tenant
          /\ row.status = "queued" /\ ~row.result
      BY <2>2
    <3>2. jobs[r] = row
      BY <2>1, <2>3
    <3>. HIDE DEF row
    <3>. QED BY <3>1, <3>2
  <2>. QED BY <2>3
<1>5. jobs \in [Request -> JobRow \cup {None}]
  <2>1. jobs = [r \in Request |-> jobs[r]]
    BY DEF WorkerInit
  <2>. QED BY <1>4, <2>1
<1>6. /\ queue \in [Request -> [Attempt -> Nat]]
      /\ \A r \in Request : queue[r][0] = 1 /\ queue[r][1] = 0
                            /\ queue[r][2] = 0 /\ queue[r][3] = 0
  BY DEF WorkerInit, NoMessages, Attempt
<1>7. /\ slot \in [Worker -> SlotState]
      /\ \A w \in Worker : slot[w].pc = "idle" /\ slot[w].job = None
  BY DEF WorkerInit, WorkerOnlyInit, IdleSlot, SlotState, Attempt
<1>8. /\ candidates = [r \in Request |-> 0]
      /\ repositories = [t \in Tenant |-> [u \in Url |-> 0]]
      /\ crashes = 0 /\ missed = {}
  BY DEF WorkerInit, WorkerOnlyInit
<1>9. WorkerTypeOK
  BY <1>1, <1>3, <1>5, <1>6, <1>7, <1>8, WorkerAssumption
  DEF WorkerTypeOK, StoreTypeOK
<1>10. EffectsHaveTasks
  <2>1. \A t \in Tenant, u \in Url : ~(repositories[t][u] > 0)
    BY <1>8
  <2>. QED BY <1>2, <1>4, <2>1 DEF EffectsHaveTasks
<1>11. FoundIsStillThere
  BY <1>7 DEF FoundIsStillThere
<1>12. MessagesAreConserved
  <2>1. ASSUME NEW r \in Request
        PROVE  Working(r) = {}
    BY <1>7, StoreAssumption DEF Working
  <2>2. ASSUME NEW r \in Request
        PROVE  Cardinality(Working(r)) = 0 /\ Copies(r) = 1
               /\ candidates[r] = 0
    <3>1. Cardinality(Working(r)) = 0
      BY <2>1, FS_EmptySet
    <3>. QED BY <1>6, <1>8, <3>1 DEF Copies
  <2>3. ASSUME NEW r \in Request
        PROVE  Copies(r) + Cardinality(Working(r)) + candidates[r] <= 1 + crashes
    BY <1>8, <2>2
  <2>. QED BY <2>3 DEF MessagesAreConserved
<1>13. CandidatesHaveASource
  BY <1>8 DEF CandidatesHaveASource
<1>14. ResultsHaveTheirRows
  BY <1>4 DEF ResultsHaveTheirRows
<1>15. OneRepositoryPerUrl
  BY <1>8 DEF OneRepositoryPerUrl
<1>16. FileOrResult
  BY DEF FileOrResult, WorkerInit
<1>17. RemovedIsReported
  BY <1>7 DEF RemovedIsReported
<1>18. EndsAreOwed
  BY <1>6 DEF EndsAreOwed, Owed, Attempt
<1>. QED BY <1>9, <1>10, <1>11, <1>12, <1>13, <1>14, <1>15, <1>16, <1>17,
            <1>18 DEF WorkerInv

-----------------------------------------------------------------------------
(* Theorems *)

\* The inductive invariant holds of every pool, whatever the jobs that it
\* starts with, the retries they have and the deaths of its processes.
THEOREM WorkerInvariant == WorkerSpec => []WorkerInv
<1>1. WorkerInit => WorkerInv
  BY PoolInit
<1>2. WorkerInv /\ [WorkerNext]_workerVars => WorkerInv'
  BY WorkerInvStep
<1>. QED BY <1>1, <1>2, PTL DEF WorkerSpec

\* parse_cv_file: an uploaded CV is on the volume until it has been parsed, and
\* what was parsed is then in a job unless the update of it found no row.
THEOREM FilesAreKept == WorkerSpec => []FileOrResult
<1>1. WorkerInv => FileOrResult
  BY DEF WorkerInv
<1>. QED BY <1>1, WorkerInvariant, PTL

\* save_candidate_profile: a candidate goes back to a job of its own tenant
\* whose result is still there.
THEOREM CandidatesAreSourced == WorkerSpec => []CandidatesHaveASource
<1>1. WorkerInv => CandidatesHaveASource
  BY DEF WorkerInv
<1>. QED BY <1>1, WorkerInvariant, PTL

\* acks_late: a save job inserts at most one candidate more than processes
\* have died.
THEOREM DuplicatesAreRedeliveries == WorkerSpec => []DuplicatesNeedCrashes
<1>1. WorkerInv => DuplicatesNeedCrashes
  BY SpentMessages DEF WorkerInv, DuplicatesNeedCrashes
<1>. QED BY <1>1, WorkerInvariant, PTL

\* One commit: a result that a client can read has its rows.
THEOREM ResultsComeWithRows == WorkerSpec => []ResultsHaveTheirRows
<1>1. WorkerInv => ResultsHaveTheirRows
  BY DEF WorkerInv
<1>. QED BY <1>1, WorkerInvariant, PTL

\* uq_repo_tenant_url: concurrent upserts of one URL leave one row.
THEOREM UpsertsLeaveOneRow == WorkerSpec => []OneRepositoryPerUrl
<1>1. WorkerInv => OneRepositoryPerUrl
  BY DEF WorkerInv
<1>. QED BY <1>1, WorkerInvariant, PTL

\* While the RUNNING and FAILED updates themselves do not fail, a job whose
\* messages are all consumed says how it ended, unless a worker said so before
\* the row was there.
THEOREM ConsumedJobsSayHow ==
  ASSUME ~LostStatusWrites
  PROVE  WorkerSpec => []ConsumedJobsHaveEnded
<1>1. WorkerInv => ConsumedJobsHaveEnded
  BY DEF WorkerInv, EndsAreOwed, Owed, ConsumedJobsHaveEnded, InFlight
<1>. QED BY <1>1, WorkerInvariant, PTL

\* update_status leaves a result where it is: none is ever taken back.
THEOREM ResultsStay == WorkerSpec => ResultsAreKept
<1>1. ASSUME WorkerInv, [WorkerNext]_workerVars, NEW r \in Request,
             jobs[r] # None, jobs[r].result
      PROVE  jobs'[r] # None /\ jobs'[r].result
  <2>1. WorkerTypeOK
    BY <1>1 DEF WorkerInv
  <2>2. CASE UNCHANGED workerVars
    BY <1>1, <2>2 DEF workerVars
  <2>. QED BY <1>1, <2>1, <2>2, JobSteps DEF WorkerNext
<1>2. WorkerInv /\ [WorkerNext]_workerVars =>
        [\A r \in Request : jobs[r] # None /\ jobs[r].result =>
           jobs'[r] # None /\ jobs'[r].result]_workerVars
  BY <1>1
<1>. QED BY <1>2, WorkerInvariant, PTL DEF WorkerSpec, ResultsAreKept

=============================================================================
