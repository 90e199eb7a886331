------------------------------ MODULE ToolGate ------------------------------
(***************************************************************************)
(* What the human-in-the-loop gate promises, without rows, transactions or *)
(* a broker: a tool call (tenant, tool, payload) is first asked for, a     *)
(* human may grant it, each grant is for exactly one call that was asked   *)
(* for, and a grant starts its call at most once.  A grant is an id, so    *)
(* two humans may grant the same call and it then starts twice.            *)
(***************************************************************************)
CONSTANTS Grant,   \* ids of grants
          Call,    \* the tool calls
          NoCall   \* not a call

VARIABLES asked,    \* the calls somebody has asked for
          granted,  \* [Grant -> the call the human granted, or NoCall]
          started   \* [Grant -> the call started under the grant, or NoCall]

gateVars == <<asked, granted, started>>

GateInit ==
  /\ asked = {}
  /\ granted = [g \in Grant |-> NoCall]
  /\ started = [g \in Grant |-> NoCall]

AskFor(call) ==
  /\ asked' = asked \cup {call}
  /\ UNCHANGED <<granted, started>>

GrantCall(g, call) ==
  /\ call \in asked /\ granted[g] = NoCall
  /\ granted' = [granted EXCEPT ![g] = call]
  /\ UNCHANGED <<asked, started>>

Start(g) ==
  /\ granted[g] # NoCall /\ started[g] = NoCall
  /\ started' = [started EXCEPT ![g] = granted[g]]
  /\ UNCHANGED <<asked, granted>>

GateNext ==
  \/ \E call \in Call : AskFor(call)
  \/ \E g \in Grant, call \in Call : GrantCall(g, call)
  \/ \E g \in Grant : Start(g)

GateSpec == GateInit /\ [][GateNext]_gateVars
=============================================================================
