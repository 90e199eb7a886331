--------------------------- MODULE MCCeleryWorker ---------------------------
(***************************************************************************)
(* CeleryWorker for TLC.                                                   *)
(***************************************************************************)
EXTENDS CeleryWorker, TLC

\* Bound: one retry of every task stands for the source's 3 and 2.
OneRetry == [tool \in Tool |-> 1]

\* max_retries of the tasks in tasks.py.
SourceRetries ==
  [tool \in Tool |-> IF tool = "github_ingestion" THEN 3 ELSE 2]

\* Any renaming of the processes together with any of the requests.
WorkerSymmetry ==
  {p @@ q : p \in Permutations(Worker), q \in Permutations(Request)}
=============================================================================
