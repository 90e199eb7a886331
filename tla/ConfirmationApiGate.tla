------------------------ MODULE ConfirmationApiGate ------------------------
(***************************************************************************)
(* ConfirmationApi implements ToolGate.  A call is asked for when its      *)
(* confirmation is committed, granted when POST /confirm with              *)
(* approved=true reads the pending row, and started when its task is       *)
(* published; the grant is the request.                                    *)
(***************************************************************************)
EXTENDS ConfirmationApi

AskedCalls ==
  {confirmations[c].hash : c \in {d \in Confirmation : confirmations[d] # None}}

\* The call an approving request decided on, from the read of the row onwards.
GrantedCall ==
  [r \in Request |->
     IF req[r].approved /\ req[r].tool # None
     THEN confirmations[req[r].conf].hash ELSE None]

StartedCall ==
  [r \in Request |->
     IF tasks[r] = None THEN None
     ELSE compute_payload_hash(tasks[r].tenant, tasks[r].tool, tasks[r].payload)]

Gate == INSTANCE ToolGate WITH
  Grant <- Request, Call <- Digest, NoCall <- None,
  asked <- AskedCalls, granted <- GrantedCall, started <- StartedCall

\* Every step of the API is a step of the abstract gate or leaves it alone.
ImplementsToolGate == Gate!GateSpec
=============================================================================
