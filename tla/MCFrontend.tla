----------------------------- MODULE MCFrontend -----------------------------
(***************************************************************************)
(* Frontend for TLC.                                                       *)
(***************************************************************************)
EXTENDS Frontend

\* The page a little later: in an open session the recruiter has uploaded a CV
\* and approved its parsing, and the page polls the job.
LaterInit ==
  /\ confs = [c \in Ask |-> IF c = 1
                THEN [tool |-> "cv_parsing", of |-> None, status |-> "approved"]
                ELSE None]
  /\ jobs = [c \in Ask |-> IF c = 1
               THEN [status |-> "queued", result |-> FALSE] ELSE None]
  /\ session = TRUE /\ active = <<1>> /\ unseen = {1}
  /\ run = [Resting EXCEPT !.pc = "sleep"]
  /\ asks = 1 /\ clicks = 0 /\ faults = 0 /\ late = {} /\ due = {}
  /\ pending = None /\ parsed = None /\ shown = None /\ click = None

LaterSpec == LaterInit /\ [][FrontendNext]_frontVars

FairLaterSpec == LaterSpec /\ FrontendFairness
=============================================================================
