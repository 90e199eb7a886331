----------------------------- MODULE MCPipeline -----------------------------
(***************************************************************************)
(* Pipeline for TLC.                                                       *)
(***************************************************************************)
EXTENDS Pipeline, TLC

\* Bound: where two jobs run, each attempt is the last one; retries are
\* checked in MCCeleryWorker.
NoRetry == [tool \in Tool |-> 0]

\* Any renaming of tenants, of confirmations and of requests.
PipelineSymmetry ==
  {p @@ q @@ o : p \in Permutations(Tenant), q \in Permutations(Confirmation),
                 o \in Permutations(Request)}
=============================================================================
