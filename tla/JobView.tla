------------------------------ MODULE JobView ------------------------------
(***************************************************************************)
(* What GET /jobs/{id}/status promises to whoever polls it, without tasks, *)
(* messages or workers: the row of a job appears queued, may go to and fro *)
(* between running, completed and failed, never back to queued, and keeps  *)
(* its result from the first time it is completed.                         *)
(***************************************************************************)
CONSTANTS Job, Row, None

VARIABLE jobs  \* [Job -> row or None]

Rows(status) == {row \in Row : row.status = status}

NewRows == {row \in Rows("queued") : ~row.result}

ViewInit == jobs \in [Job -> NewRows \cup {None}]

Appear(j) ==
  /\ jobs[j] = None
  /\ \E row \in NewRows : jobs' = [jobs EXCEPT ![j] = row]

Start(j) ==
  /\ jobs[j] # None
  /\ jobs' = [jobs EXCEPT ![j].status = "running"]

Complete(j) ==
  /\ jobs[j] # None
  /\ jobs' = [jobs EXCEPT ![j].status = "completed", ![j].result = TRUE]

Fail(j) ==
  /\ jobs[j] # None
  /\ jobs' = [jobs EXCEPT ![j].status = "failed"]

Update(j) == Start(j) \/ Complete(j) \/ Fail(j)

ViewNext == \E j \in Job : Appear(j) \/ Update(j)

ViewSpec == ViewInit /\ [][ViewNext]_jobs
=============================================================================
