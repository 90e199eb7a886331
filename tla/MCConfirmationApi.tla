------------------------- MODULE MCConfirmationApi -------------------------
(***************************************************************************)
(* ConfirmationApi, with its refinement mapping, for TLC.                  *)
(***************************************************************************)
EXTENDS ConfirmationApiGate, TLC

\* max_retries of the tasks in tasks.py.
SourceRetries ==
  [tool \in Tool |-> IF tool = "github_ingestion" THEN 3 ELSE 2]

\* Any renaming of tenants, of confirmations and of requests.
ApiSymmetry ==
  {p @@ q @@ o : p \in Permutations(Tenant), q \in Permutations(Confirmation),
                 o \in Permutations(Request)}

\* The gate later in its life: a CV has been uploaded, its parsing approved and
\* done by a worker, which removed the file.
LaterInit ==
  \E t \in Tenant, c \in Confirmation, r \in Request :
    LET call == [tenant |-> t, tool |-> "cv_parsing", payload |-> c]
    IN
    /\ confirmations = [d \in Confirmation |-> IF d # c THEN None ELSE
         [tenant |-> t, tool |-> "cv_parsing", payload |-> c,
          hash |-> compute_payload_hash(t, "cv_parsing", c),
          status |-> "approved"]]
    /\ jobs = [q \in Request |-> IF q # r THEN None ELSE
         [tenant |-> t, tool |-> "cv_parsing", status |-> "completed",
          result |-> TRUE]]
    /\ files = {}
    /\ queue = [q \in Request |-> NoMessages]
    /\ tasks = [q \in Request |-> IF q # r THEN None ELSE call]
    /\ asks = [d \in Confirmation |-> None]
    /\ req = [q \in Request |-> IF q # r THEN IdleRequest ELSE
         [pc |-> "ok", tenant |-> t, conf |-> c, approved |-> TRUE,
          tool |-> "cv_parsing", payload |-> c]]

LaterSpec == LaterInit /\ [][ApiNext]_apiVars
=============================================================================
