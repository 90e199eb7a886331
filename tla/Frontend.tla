------------------------------ MODULE Frontend ------------------------------
(***************************************************************************)
(* The Streamlit page of one signed-in recruiter, against the API.         *)
(*                                                                         *)
(* Streamlit runs the script from the top on every click: the sidebar with *)
(* its buttons and the poll of the active jobs, one dialog, the chat; with *)
(* active jobs it sleeps three seconds and starts over.  One thread runs   *)
(* the script, so one request is out at a time.  A click outside a dialog  *)
(* stops the running script at its next access to the session state, which *)
(* is before it stores the answer of the request that is out.  A click in  *)
(* a dialog (a fragment) does not: it waits for the script, and the dialog *)
(* is called again, with the slots as they are by then.  An exception, as  *)
(* for a request that times out, ends the script and its polling.          *)
(*                                                                         *)
(* The API is modelled by its answers: a handler is one step (the steps of *)
(* POST /confirm are in ConfirmationApi), and jobs change as JobView says. *)
(* Confirmations are numbered as their ids are drawn; a job has the number *)
(* of the confirmation that started it.                                    *)
(***************************************************************************)
EXTENDS Naturals, Sequences, FiniteSets

CONSTANTS
  MaxAsks,    \* bound: requests that ask for a tool
  MaxClicks,  \* bound: clicks on New Chat, a session or Logout, messages
  MaxFaults,  \* bound: answers lost, polls not answered, jobs that go on
  MaxEvents,  \* bound: all of these together
  Sidebar,    \* bound: the tools asked for in the sidebar
  ChatTools,  \* bound: the tools that a reply of the model asks for
  None

Ask      == 1 .. MaxAsks
PageTool == {"github_ingestion", "cv_parsing", "cv_save"}

VARIABLES
  confs,    \* [Ask -> the row of the confirmation, or None]
  jobs,     \* [Ask -> what the status of the job shows, or None]
  late,     \* requests that are out, but nobody waits for their answers
  session,  \* is current_session_id set?
  pending,  \* st.session_state.pending_confirmation: its id, or None
  parsed,   \* st.session_state.parse_job_completed: its parse_job_id, or None
  active,   \* st.session_state.active_jobs
  shown,    \* the dialog on the screen, or None
  click,    \* the click in a dialog that waits for the script, or None
  run,      \* the script
  asks, clicks, faults,  \* ids drawn, clicks and faults so far
  unseen,   \* jobs the page was told of and has not seen ended
  due       \* parse jobs seen completed, the question about them not answered

serverVars == <<confs, jobs, late>>
slotVars   == <<session, pending, parsed, active, unseen, due>>
pageVars   == <<session, pending, parsed, active, shown, click, run,
                unseen, due>>
boundVars  == <<asks, clicks, faults>>
frontVars  == <<confs, jobs, late, session, pending, parsed, active, shown,
                click, run, asks, clicks, faults, unseen, due>>

InBound(count, max) == count < max /\ asks + clicks + faults < MaxEvents
MayAsk   == InBound(asks, MaxAsks)
MayClick == InBound(clicks, MaxClicks)
MayFail  == InBound(faults, MaxFaults)

-----------------------------------------------------------------------------

JobRow == [status : {"queued", "running", "completed", "failed"},
           result : BOOLEAN]

View == INSTANCE JobView WITH Job <- Ask, Row <- JobRow

ConfRow == [tool : PageTool, of : Ask \cup {None},
            status : {"pending", "approved", "denied"}]

\* A request: one that inserts confirmation c, or one that decides it.
Insertion(c, tool, of) ==
  [decides |-> FALSE, conf |-> c, tool |-> tool, of |-> of, yes |-> FALSE]
Decision(c, yes) ==
  [decides |-> TRUE, conf |-> c, tool |-> "cv_save", of |-> None, yes |-> yes]

Call == [decides : BOOLEAN, conf : Ask, tool : PageTool,
         of : Ask \cup {None}, yes : BOOLEAN]

Dialog == [kind : {"confirm", "save"}, of : Ask]

Press == [shown : Dialog, yes : BOOLEAN]

ASSUME FrontendAssumption ==
  /\ {MaxAsks, MaxClicks, MaxFaults, MaxEvents} \subseteq Nat
  /\ ChatTools \subseteq PageTool
  /\ Sidebar \subseteq {"github_ingestion", "cv_parsing"}
  /\ None \notin Ask \cup ConfRow \cup JobRow \cup Call \cup Dialog \cup Press

RunState ==
  [pc : {"rest", "raised", "sleep", "poll", "dialog", "chat",
         "asking", "chatting", "deciding", "saving", "approving"},
   then  : {"auto", "chat", "logout", "fragment"},  \* what the run is for
   press : Press \cup {None},                       \* the button that is True
   call  : Call \cup {None},                        \* the request that is out
   got   : {"none", "ok", "error"},                 \* its answer
   todo  : Seq(Ask), still : Seq(Ask), ended : BOOLEAN]

Resting == [pc |-> "rest", then |-> "auto", press |-> None, call |-> None,
            got |-> "none", todo |-> <<>>, still |-> <<>>, ended |-> FALSE]

Waiting == {"asking", "chatting", "deciding", "saving", "approving"}

Elements(q) == {q[i] : i \in DOMAIN q}

FrontendTypeOK ==
  /\ confs \in [Ask -> ConfRow \cup {None}]
  /\ jobs \in [Ask -> JobRow \cup {None}]
  /\ late \subseteq Call
  /\ session \in BOOLEAN
  /\ pending \in Ask \cup {None} /\ parsed \in Ask \cup {None}
  /\ active \in Seq(Ask) /\ unseen \subseteq Ask /\ due \subseteq Ask
  /\ shown \in Dialog \cup {None} /\ click \in Press \cup {None}
  /\ run \in RunState
  /\ asks \in 0 .. MaxAsks /\ clicks \in 0 .. MaxClicks
  /\ faults \in 0 .. MaxFaults

\* init_state
FrontendInit ==
  /\ confs = [c \in Ask |-> None] /\ jobs = [c \in Ask |-> None] /\ late = {}
  /\ session = FALSE /\ pending = None /\ parsed = None /\ active = <<>>
  /\ shown = None /\ click = None /\ run = Resting
  /\ asks = 0 /\ clicks = 0 /\ faults = 0
  /\ unseen = {} /\ due = {}

-----------------------------------------------------------------------------
(* The API and the workers *)

\* What request k does when it is granted.
Effect(k) ==
  IF k.decides
  THEN /\ confs[k.conf].status = "pending"
       /\ confs' = [confs EXCEPT ![k.conf].status =
                      IF k.yes THEN "approved" ELSE "denied"]
       /\ IF k.yes THEN View!Appear(k.conf) ELSE UNCHANGED jobs
  ELSE /\ k.of # None => jobs[k.of].status = "completed"
       /\ confs' = [confs EXCEPT ![k.conf] =
                      [tool |-> k.tool, of |-> k.of, status |-> "pending"]]
       /\ UNCHANGED jobs

Got(answer) == run' = [run EXCEPT !.got = answer]

Grant ==
  /\ run.pc \in Waiting /\ run.got = "none"
  /\ Effect(run.call) /\ Got("ok")
  /\ UNCHANGED <<late, slotVars, boundVars, shown, click>>

\* 4xx, 5xx, no connection, or a reply of the model that asks for no tool.
Refuse ==
  /\ run.pc \in Waiting /\ run.got = "none"
  /\ Got("error")
  /\ UNCHANGED <<serverVars, slotVars, boundVars, shown, click>>

\* The connection breaks after the work was done: ConnectionError is caught,
\* and None is as false as a refusal.
Break ==
  /\ run.got = "ok" /\ MayFail
  /\ Got("error") /\ faults' = faults + 1
  /\ UNCHANGED <<serverVars, slotVars, shown, click, asks, clicks>>

\* A handler goes on although the page has stopped waiting, or fails.
ServeLate ==
  \E k \in late :
    /\ late' = late \ {k}
    /\ Effect(k) \/ UNCHANGED <<confs, jobs>>
    /\ UNCHANGED <<pageVars, boundVars>>

Parse(j) == confs[j].tool = "cv_parsing"

Ended(j) == jobs[j].status \in {"completed", "failed"}

\* A job ends.  That a queued one starts is left out, and that a job other
\* than a parse fails: the page treats it as it does one that completes.
JobEnds ==
  /\ \E j \in {k \in Ask : jobs[k] # None} :
       ~Ended(j) /\ (View!Complete(j) \/ (Parse(j) /\ View!Fail(j)))
  /\ UNCHANGED <<confs, late, pageVars, boundVars>>

\* A job retried, or delivered again.
JobGoesOn ==
  /\ \E j \in {k \in Ask : jobs[k] # None} : Ended(j) /\ View!Start(j)
  /\ MayFail /\ faults' = faults + 1
  /\ UNCHANGED <<confs, late, asks, clicks, pageVars>>

-----------------------------------------------------------------------------
(* The script *)

\* A whole run from the top; the click that waited in a dialog is in its
\* widget state.
RunFor(then, pressed, list) ==
  [Resting EXCEPT !.pc = "poll", !.then = then, !.press = pressed,
                  !.todo = list]

\* st.rerun(), or a click in the sidebar or the chat.
Rerun(then, list) == run' = RunFor(then, click, list) /\ click' = None

\* Mutant: no polling while a question is open.
FinishedUnlessAsked ==
  [Resting EXCEPT !.pc = IF active # <<>> /\ pending = None
                         THEN "sleep" ELSE "rest"]

\* The end of main(): sleep and start over if jobs are active.
Finished == [Resting EXCEPT !.pc = IF active # <<>> THEN "sleep" ELSE "rest"]

Wake ==
  /\ run.pc = "sleep"
  /\ Rerun("auto", active)
  /\ UNCHANGED <<serverVars, slotVars, boundVars, shown>>

\* A parse job whose result is there to be saved.
Parsed(j) == Parse(j) /\ jobs[j].status = "completed"

\* Mutant: the loop assigns active_jobs as it goes.
PollInPlace ==
  /\ run.pc = "poll" /\ run.todo # <<>>
  /\ LET j == Head(run.todo)
         still == IF Ended(j) THEN run.still ELSE Append(run.still, j)
     IN
     /\ parsed' = IF Parsed(j) /\ parsed = None THEN j ELSE parsed
     /\ run' = [run EXCEPT !.todo = Tail(@), !.ended = @ \/ Ended(j),
                           !.still = still]
     /\ active' = still
     /\ unseen' = IF Ended(j) THEN unseen \ {j} ELSE unseen
     /\ due' = IF Parsed(j) THEN due \cup {j} ELSE due
  /\ UNCHANGED <<serverVars, boundVars, session, pending, shown, click>>

\* Mutant: only a failed job is terminal.
PollKeeps ==
  /\ run.pc = "poll" /\ run.todo # <<>>
  /\ LET j == Head(run.todo)
         failed == jobs[j].status = "failed"
     IN
     /\ parsed' = IF Parsed(j) /\ parsed = None THEN j ELSE parsed
     /\ run' = [run EXCEPT !.todo = Tail(@), !.ended = @ \/ failed,
                           !.still = IF failed THEN @ ELSE Append(@, j)]
     /\ unseen' = IF Ended(j) THEN unseen \ {j} ELSE unseen
     /\ due' = IF Parsed(j) THEN due \cup {j} ELSE due
  /\ UNCHANGED <<serverVars, boundVars, session, pending, active, shown,
                 click>>

\* _render_job_status of the next job, and what the loop makes of it.
Poll ==
  /\ run.pc = "poll" /\ run.todo # <<>>
  /\ LET j == Head(run.todo) IN
     /\ parsed' = IF Parsed(j) /\ parsed = None THEN j ELSE parsed
     /\ run' = [run EXCEPT !.todo = Tail(@), !.ended = @ \/ Ended(j),
                           !.still = IF Ended(j) THEN @ ELSE Append(@, j)]
     /\ unseen' = IF Ended(j) THEN unseen \ {j} ELSE unseen
     /\ due' = IF Parsed(j) THEN due \cup {j} ELSE due
  /\ UNCHANGED <<serverVars, boundVars, session, pending, active, shown,
                 click>>

\* Not 200, or no connection: the job stays active.
PollUnanswered ==
  /\ run.pc = "poll" /\ run.todo # <<>> /\ MayFail
  /\ run' = [run EXCEPT !.todo = Tail(@), !.still = Append(@, Head(run.todo))]
  /\ faults' = faults + 1
  /\ UNCHANGED <<serverVars, slotVars, shown, click, asks, clicks>>

\* A request for the sidebar times out: ReadTimeout is not caught.
PollRaises ==
  /\ run.pc = "poll" /\ MayFail
  /\ run' = [Resting EXCEPT !.pc = "raised"]
  /\ faults' = faults + 1
  /\ UNCHANGED <<serverVars, slotVars, shown, click, asks, clicks>>

PollEnds == run.pc = "poll" /\ run.todo = <<>>

\* The last active job has ended: the script starts over at once, and with it
\* go the button, the chat message or the logout this run was started for.
EndPollAtOnce ==
  /\ PollEnds /\ run.ended /\ run.still = <<>>
  /\ active' = <<>>
  /\ Rerun("auto", <<>>)
  /\ UNCHANGED <<serverVars, boundVars, session, pending, parsed, shown,
                 unseen, due>>

EndPoll ==
  /\ PollEnds /\ ~(run.ended /\ run.still = <<>>) /\ run.then # "logout"
  /\ active' = run.still
  /\ run' = [run EXCEPT !.pc = "dialog", !.still = <<>>, !.ended = FALSE]
  /\ UNCHANGED <<serverVars, boundVars, session, pending, parsed, shown,
                 click, unseen, due>>

\* Every key of the session state is deleted.
EndLogout ==
  /\ PollEnds /\ ~(run.ended /\ run.still = <<>>) /\ run.then = "logout"
  /\ session' = FALSE /\ pending' = None /\ parsed' = None /\ active' = <<>>
  /\ shown' = None /\ click' = None /\ run' = Resting
  /\ unseen' = {} /\ due' = {}
  /\ UNCHANGED <<serverVars, boundVars>>

-----------------------------------------------------------------------------
(* The dialogs *)

\* A click in a dialog, with no run to wait for: only the dialog is called.
RunFragment ==
  /\ run.pc \in {"rest", "raised"} /\ click # None
  /\ run' = [Resting EXCEPT !.pc = "dialog", !.then = "fragment",
                            !.press = click]
  /\ click' = None
  /\ UNCHANGED <<serverVars, slotVars, boundVars, shown>>

\* The dialog that main() calls, or the one whose button was pressed.
Called ==
  LET kind == IF run.then = "fragment" THEN run.press.shown.kind
              ELSE IF pending # None THEN "confirm" ELSE "save"
      of == IF kind = "confirm" THEN pending ELSE parsed
  IN IF of = None THEN None ELSE [kind |-> kind, of |-> of]

Pressed(kind, yes) ==
  /\ run.pc = "dialog" /\ Called # None /\ Called.kind = kind
  /\ run.press # None /\ run.press.shown.kind = kind /\ run.press.yes = yes

\* The rest of the run after the dialog.  A fragment has none.
AfterDialog ==
  CASE run.then = "fragment" ->
         [Resting EXCEPT !.pc = IF active # <<>> THEN "raised" ELSE "rest"]
    [] run.then = "chat" /\ MayAsk ->
         [Resting EXCEPT !.pc = "chat", !.then = "chat"]
    [] OTHER -> Finished

CanSave == session /\ MayAsk

\* No button, or the one to save without an open session: the dialog is drawn.
Draw ==
  /\ run.pc = "dialog"
  /\ \A yes \in BOOLEAN : ~Pressed("confirm", yes)
  /\ ~Pressed("save", FALSE) /\ (Pressed("save", TRUE) => ~CanSave)
  /\ shown' = Called
  /\ run' = AfterDialog
  /\ UNCHANGED <<serverVars, slotVars, boundVars, click>>

Send(pc, call) == run' = [run EXCEPT !.pc = pc, !.call = call, !.got = "none"]

\* _handle_confirmation_decision sends what the slot holds now.
Decide(yes) ==
  /\ Pressed("confirm", yes)
  /\ Send("deciding", Decision(pending, yes))
  /\ shown' = Called
  /\ UNCHANGED <<serverVars, slotVars, boundVars, click>>

\* "Yes, Save"
Save ==
  /\ Pressed("save", TRUE) /\ CanSave
  /\ asks' = asks + 1
  /\ Send("saving", Insertion(asks', "cv_save", parsed))
  /\ shown' = Called
  /\ UNCHANGED <<serverVars, slotVars, click, clicks, faults>>

Settle == parsed' = None /\ due' = due \ {parsed}

\* "No, Discard"
Discard ==
  /\ Pressed("save", FALSE)
  /\ Settle /\ Rerun("auto", active)
  /\ UNCHANGED <<serverVars, boundVars, session, pending, active, shown,
                 unseen>>

\* render_chat: the message goes to the model.
Chat ==
  /\ run.pc = "chat"
  /\ asks' = asks + 1
  /\ \E tool \in ChatTools : Send("chatting", Insertion(asks', tool, None))
  /\ UNCHANGED <<serverVars, slotVars, shown, click, clicks, faults>>

-----------------------------------------------------------------------------
(* Answers *)

\* A job the API has told the page of.
Track(j) == active' = Append(active, j) /\ unseen' = unseen \cup {j}

Answered(pc, answer) == run.pc = pc /\ run.got = answer

\* POST /ingest/github and /upload/cv, at the top of the sidebar.
AskAnswered ==
  /\ \/ /\ Answered("asking", "ok")
        /\ pending' = run.call.conf /\ Rerun("auto", active)
     \/ /\ Answered("asking", "error")
        /\ run' = RunFor("auto", run.press, active)
        /\ UNCHANGED <<pending, click>>
  /\ UNCHANGED <<serverVars, boundVars, session, parsed, active, shown,
                 unseen, due>>

\* A reply opens its session; one that asks for a tool takes the slot.
ChatAnswered ==
  /\ \/ /\ Answered("chatting", "ok")
        /\ session' = TRUE /\ pending' = run.call.conf
        /\ Rerun("auto", active)
     \/ /\ Answered("chatting", "error")
        /\ session' \in {session, TRUE}
        /\ run' = Finished /\ UNCHANGED <<pending, click>>
  /\ UNCHANGED <<serverVars, boundVars, parsed, active, shown, unseen, due>>

\* Mutant: the slot is cleared by an approval only.
DecisionAnsweredKept ==
  /\ \/ /\ Answered("deciding", "ok")
        /\ IF run.call.yes THEN Track(run.call.conf) /\ pending' = None
                           ELSE UNCHANGED <<active, unseen, pending>>
        /\ Rerun("auto", active')
     \/ /\ Answered("deciding", "error")
        /\ run' = AfterDialog /\ UNCHANGED <<active, unseen, pending, click>>
  /\ UNCHANGED <<serverVars, boundVars, session, parsed, shown, due>>

\* Mutant: a job is tracked whatever was decided.
DecisionAnsweredTracks ==
  /\ \/ /\ Answered("deciding", "ok")
        /\ Track(run.call.conf)
        /\ pending' = None /\ Rerun("auto", active')
     \/ /\ Answered("deciding", "error")
        /\ run' = AfterDialog /\ UNCHANGED <<active, unseen, pending, click>>
  /\ UNCHANGED <<serverVars, boundVars, session, parsed, shown, due>>

DecisionAnswered ==
  /\ \/ /\ Answered("deciding", "ok")
        /\ IF run.call.yes THEN Track(run.call.conf)
                           ELSE UNCHANGED <<active, unseen>>
        /\ pending' = None /\ Rerun("auto", active')
     \/ /\ Answered("deciding", "error")
        /\ run' = AfterDialog /\ UNCHANGED <<active, unseen, pending, click>>
  /\ UNCHANGED <<serverVars, boundVars, session, parsed, shown, due>>

\* The confirmation of a save is approved at once.
SaveAnswered ==
  /\ \/ /\ Answered("saving", "ok")
        /\ Send("approving", Decision(run.call.conf, TRUE))
     \/ Answered("saving", "error") /\ run' = AfterDialog
  /\ UNCHANGED <<serverVars, slotVars, boundVars, shown, click>>

\* The question is settled, also when the approval was refused.
ApprovalAnswered ==
  /\ \/ Answered("approving", "ok") /\ Track(run.call.conf)
     \/ Answered("approving", "error") /\ UNCHANGED <<active, unseen>>
  /\ Settle /\ Rerun("auto", active')
  /\ UNCHANGED <<serverVars, boundVars, session, pending, shown>>

\* ReadTimeout: the script ends, the handler may go on.
TimeOut ==
  /\ run.pc \in Waiting /\ MayFail
  /\ faults' = faults + 1
  /\ late' = IF run.got = "none" THEN late \cup {run.call} ELSE late
  /\ run' = [Resting EXCEPT !.pc = "raised"]
  /\ UNCHANGED <<confs, jobs, asks, clicks, slotVars, shown, click>>

-----------------------------------------------------------------------------
(* The recruiter *)

\* Outside a dialog; an answer that has come and is not stored yet is lost.
ClickAround ==
  /\ shown = None
  /\ run.pc \in Waiting => run.got # "none" /\ MayFail
  /\ faults' = IF run.pc \in Waiting THEN faults + 1 ELSE faults

\* New Chat, or a session of the list.
OpenChat ==
  /\ ClickAround /\ MayClick /\ clicks' = clicks + 1
  /\ session' \in BOOLEAN
  /\ Rerun("auto", active)
  /\ UNCHANGED <<serverVars, pending, parsed, active, shown, asks, unseen,
                 due>>

Logout ==
  /\ ClickAround /\ MayClick /\ clicks' = clicks + 1
  /\ Rerun("logout", active)
  /\ UNCHANGED <<serverVars, slotVars, shown, asks>>

\* Request Ingestion, or Upload & Request Parse.
AskTool(tool) ==
  /\ ClickAround /\ session /\ MayAsk
  /\ asks' = asks + 1
  /\ run' = [Resting EXCEPT !.pc = "asking", !.press = click,
                            !.call = Insertion(asks', tool, None)]
  /\ click' = None
  /\ UNCHANGED <<serverVars, slotVars, shown, clicks>>

SendChat ==
  /\ ClickAround /\ MayClick /\ clicks' = clicks + 1
  /\ Rerun("chat", active)
  /\ UNCHANGED <<serverVars, slotVars, shown, asks>>

PressButton(yes) ==
  /\ shown # None /\ click = None
  /\ click' = [shown |-> shown, yes |-> yes]
  /\ UNCHANGED <<serverVars, slotVars, boundVars, shown, run>>

\* The dialog is closed without a button.
Dismiss ==
  /\ shown # None
  /\ shown' = None
  /\ UNCHANGED <<serverVars, slotVars, boundVars, click, run>>

-----------------------------------------------------------------------------

Script ==
  \/ Wake \/ Poll \/ EndPollAtOnce \/ EndPoll \/ EndLogout
  \/ RunFragment \/ Draw \/ Save \/ Discard \/ Chat
  \/ \E yes \in BOOLEAN : Decide(yes)
  \/ AskAnswered \/ ChatAnswered \/ DecisionAnswered
  \/ SaveAnswered \/ ApprovalAnswered

Answer == Grant \/ Refuse

Fault == Break \/ PollUnanswered \/ PollRaises \/ TimeOut \/ JobGoesOn

Recruiter ==
  \/ OpenChat \/ Logout \/ SendChat \/ Dismiss
  \/ \E tool \in Sidebar : AskTool(tool)
  \/ \E yes \in BOOLEAN : PressButton(yes)

FrontendNext == Script \/ Answer \/ ServeLate \/ JobEnds \/ Fault \/ Recruiter

FrontendSpec == FrontendInit /\ [][FrontendNext]_frontVars

\* The script thread runs, wakes from its sleep and gets answers.  Nobody has
\* to click, no job has to end and nothing has to fail.
FrontendFairness == WF_frontVars(Script) /\ WF_frontVars(Answer)

FairFrontendSpec == FrontendSpec /\ FrontendFairness

-----------------------------------------------------------------------------
(* Properties *)

\* A job the API has told the page of is polled until it is seen ended: no
\* click, exception or other job's end in the middle of a poll drops it.
KnownJobsAreWatched == unseen \subseteq Elements(active)

\* One parsed CV is saved once, and once more for each answer that was lost:
\* it is not offered again by a poll that was interrupted, nor saved by two
\* presses of one button.
SavedAgainNeedsAFault ==
  \A j \in Ask :
    Cardinality({c \in Ask : /\ confs[c] # None /\ confs[c].of = j
                             /\ confs[c].status = "approved"}) <= 1 + faults

\* The confirmation in the slot is one that can still be decided, unless its
\* decision is on its way back, or was lost.
SlotIsUndecided ==
  pending # None /\ confs[pending].status # "pending" =>
    \/ faults > 0
    \/ run.pc = "deciding" /\ run.got = "ok" /\ run.call.conf = pending

\* While its polling goes on, the page sees the end of every job it tracks,
\* unless the job goes on after all.  An exception ends the polling.
EndsAreSeen ==
  \A j \in Ask :
    (j \in Elements(active) /\ Ended(j)) ~>
      (j \notin Elements(active) \/ ~Ended(j) \/ run.pc = "raised")

-----------------------------------------------------------------------------
(* The inductive invariant behind KnownJobsAreWatched and SlotIsUndecided *)

Known   == {c \in Ask : confs[c] # None}
Started == {j \in Ask : jobs[j] # None}

\* A job is started by the approval of its confirmation.
JobsWereApproved ==
  \A j \in Started : j \in Known /\ confs[j].status = "approved"

\* What the page holds are ids that the API has answered with.
SlotsAreKnown ==
  /\ pending \in Known \cup {None} /\ parsed \in Started \cup {None}
  /\ Elements(active) \cup unseen \cup due \subseteq Started

\* The requests that the API may still do.
Out ==
  late \cup (IF run.pc \in Waiting /\ run.got = "none" THEN {run.call} ELSE {})

\* One that inserts has an id of its own, one that decides has a row.
CallsFit ==
  /\ Known \subseteq 1 .. asks
  /\ late # {} => faults > 0
  /\ run.pc \in Waiting /\ ~run.call.decides => run.call \notin late
  /\ \A k \in Out :
       /\ k.conf <= asks /\ k.of \in Started \cup {None}
       /\ k.decides <=> k.conf \in Known
       /\ ~k.decides => \A l \in Out : l.conf = k.conf => l = k

\* What a run has sent is what its stage says.
RunFits ==
  /\ run.pc \in Waiting <=> run.call # None
  /\ run.pc \notin Waiting => run.got = "none"
  /\ run.then = "fragment" => run.press # None
  /\ run.pc = "chat" => asks < MaxAsks
  /\ run.pc \in {"asking", "chatting", "saving"} => ~run.call.decides
  /\ run.pc = "deciding" => run.call.decides /\ run.call.conf = pending
  /\ run.pc = "approving" => run.call.decides /\ run.call.yes
  /\ run.pc \in {"saving", "approving"} => run.call.conf # pending

\* A 200 that the page has not looked at yet is true; that an insertion has
\* been decided by then takes a fault.
AnswersAreTrue ==
  run.got = "ok" =>
    /\ run.call.conf \in Known
    /\ IF run.call.decides
       THEN run.call.yes => run.call.conf \in Started
       ELSE faults > 0 \/ confs[run.call.conf].status = "pending"

\* A poll has what it has not seen ended still before it, or keeps it.
PollDropsNothing ==
  IF run.pc = "poll"
  THEN /\ Elements(run.todo) \cup Elements(run.still) \subseteq Elements(active)
       /\ unseen \subseteq Elements(run.todo) \cup Elements(run.still)
  ELSE run.todo = <<>> /\ run.still = <<>>

FrontendInv ==
  /\ FrontendTypeOK
  /\ JobsWereApproved
  /\ SlotsAreKnown
  /\ CallsFit
  /\ RunFits
  /\ AnswersAreTrue
  /\ PollDropsNothing
  /\ KnownJobsAreWatched
  /\ SlotIsUndecided

-----------------------------------------------------------------------------
(* The inductive invariant behind SavedAgainNeedsAFault *)

\* The saves of j that are approved, or that an approval is on its way for.
Saves(j) ==
  {c \in Ask :
     \/ run.pc = "saving" /\ run.call.conf = c /\ run.call.of = j
     \/ /\ confs[c] # None /\ confs[c].of = j
        /\ \/ confs[c].status = "approved"
           \/ \E k \in Out : k.decides /\ k.yes /\ k.conf = c}

\* The page asks whether to save j, and has not sent a save of it.
Asked(j) == parsed = j /\ run.pc \notin {"saving", "approving"}

\* A poll may still put j in the slot, now or after it has been settled: j is
\* tracked, and not about to be dropped by the poll that has put it there.
MayBeAsked(j) ==
  /\ j \in Elements(active)
  /\ ~(/\ parsed = j /\ Ended(j)
       /\ run.pc \in {"asking", "poll"} /\ j \notin Elements(run.still))

\* Each is one more save at most, and only a fault makes another.
Paid(j) ==
  Cardinality(Saves(j)) + (IF Asked(j) THEN 1 ELSE 0)
    + (IF MayBeAsked(j) THEN 1 ELSE 0) <= 1 + faults

\* A confirmation is of the result that its request named.
RowsAreAsSent ==
  /\ \A c \in Known : confs[c].of \in Started \cup {None}
  /\ pending # None => confs[pending].of = None
  /\ run.pc \in {"asking", "chatting"} => run.call.of = None
  /\ run.pc \in {"asking", "chatting", "saving"} /\ run.got = "ok" =>
       confs[run.call.conf].of = run.call.of

\* A save that is being inserted is of the slot, and nobody has decided it.
SavingIsUndecided ==
  run.pc = "saving" =>
    /\ parsed # None /\ run.call.of = parsed
    /\ \A k \in late : k.conf # run.call.conf
    /\ run.call.conf \in Known => confs[run.call.conf].status = "pending"

\* A job whose approval the page has not looked at is new to it.
ApprovalsAreNew ==
  run.got = "ok" /\ run.call.decides /\ run.call.yes =>
    /\ run.call.conf \notin Elements(active) \cup {parsed}
    /\ \A c \in Known : confs[c].of # run.call.conf
    /\ \A k \in late : k.of # run.call.conf

Distinct(q) == \A i, k \in DOMAIN q : q[i] = q[k] => i = k

JobsAreListedOnce ==
  /\ Distinct(active) /\ Distinct(run.todo) /\ Distinct(run.still)
  /\ Elements(run.todo) \cap Elements(run.still) = {}

SavesInv ==
  /\ RowsAreAsSent
  /\ SavingIsUndecided
  /\ ApprovalsAreNew
  /\ JobsAreListedOnce
  /\ \A j \in Ask : Paid(j)

-----------------------------------------------------------------------------
(* What the repository says and the code does not do *)

\* What the dialog says of itself: "Shows the HITL yes/no prompt via a popup
\* dialog": the yes or no that is sent is about what the prompt showed.
DecisionsAreForWhatWasShown ==
  run.pc = "deciding" => run.call.conf = run.press.shown.of

\* What _render_job_status says: "If parse job completed, store result for
\* save confirmation".
ParsedResultsAreOffered == due \subseteq {parsed}
=============================================================================
