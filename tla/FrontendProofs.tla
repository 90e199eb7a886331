--------------------------- MODULE FrontendProofs ---------------------------
(***************************************************************************)
(* Proofs about the page, for any numbers of requests, clicks, faults and  *)
(* events, and any tools the sidebar and the model ask for.                *)
(***************************************************************************)
EXTENDS Frontend, SequenceTheorems, FiniteSetTheorems, TLAPS

-----------------------------------------------------------------------------
(* Lists of jobs *)

LEMMA ElementsOfEmpty == <<>> \in Seq(Ask) /\ Elements(<<>>) = {}
  BY DEF Elements

LEMMA ElementsType ==
  ASSUME NEW S, NEW q \in Seq(S)
  PROVE  Elements(q) \subseteq S
  BY DEF Elements

LEMMA ElementsOfAppend ==
  ASSUME NEW S, NEW q \in Seq(S), NEW e \in S
  PROVE  /\ Append(q, e) \in Seq(S)
         /\ Elements(Append(q, e)) = Elements(q) \cup {e}
<1>1. /\ Append(q, e) \in Seq(S) /\ Len(Append(q, e)) = Len(q) + 1
      /\ \A i \in 1 .. Len(q) : Append(q, e)[i] = q[i]
      /\ Append(q, e)[Len(q) + 1] = e
  OBVIOUS
<1>2. DOMAIN q = 1 .. Len(q) /\ DOMAIN Append(q, e) = 1 .. Len(q) + 1
  BY <1>1
<1>3. Len(q) \in Nat
  OBVIOUS
<1>. QED BY <1>1, <1>2, <1>3 DEF Elements

LEMMA ElementsOfTail ==
  ASSUME NEW S, NEW q \in Seq(S), q # <<>>
  PROVE  /\ Head(q) \in S /\ Tail(q) \in Seq(S)
         /\ Elements(q) = {Head(q)} \cup Elements(Tail(q))
<1>1. /\ Head(q) \in S /\ Tail(q) \in Seq(S) /\ Head(q) = q[1]
      /\ Len(q) \in Nat \ {0} /\ Len(Tail(q)) = Len(q) - 1
      /\ \A i \in 1 .. Len(Tail(q)) : Tail(q)[i] = q[i + 1]
  BY HeadTailProperties
<1>2. DOMAIN q = 1 .. Len(q) /\ DOMAIN Tail(q) = 1 .. Len(q) - 1
  BY <1>1
<1>3. \A i \in DOMAIN q : i = 1 \/ (i - 1 \in DOMAIN Tail(q) /\ Tail(q)[i - 1] = q[i])
  BY <1>1, <1>2
<1>4. \A i \in DOMAIN Tail(q) : i + 1 \in DOMAIN q
  BY <1>1, <1>2
<1>5. Elements(q) \subseteq {Head(q)} \cup Elements(Tail(q))
  <2>. SUFFICES ASSUME NEW i \in DOMAIN q
                PROVE  q[i] \in {Head(q)} \cup Elements(Tail(q))
    BY DEF Elements
  <2>. QED BY <1>1, <1>3 DEF Elements
<1>6. {Head(q)} \cup Elements(Tail(q)) \subseteq Elements(q)
  BY <1>1, <1>2, <1>4 DEF Elements
<1>. QED BY <1>1, <1>5, <1>6

-----------------------------------------------------------------------------
(* Runs *)

\* A run that has not sent anything: it polls a list from its start, or none.
Anew(r, list) ==
  /\ r \in RunState /\ r.call = None /\ r.got = "none" /\ r.pc \notin Waiting
  /\ r.then = "fragment" => r.press # None
  /\ r.pc = "chat" => asks < MaxAsks
  /\ r.still = <<>> /\ r.todo = IF r.pc = "poll" THEN list ELSE <<>>

LEMMA RestingFacts ==
  /\ Resting \in RunState /\ Resting.call = None /\ Resting.got = "none"
  /\ Resting.press = None /\ Resting.then = "auto" /\ Resting.pc = "rest"
  /\ Resting.todo = <<>> /\ Resting.still = <<>>
  BY ElementsOfEmpty DEF Resting, RunState

LEMMA RestingIsAnew ==
  ASSUME NEW list, NEW pc \in {"rest", "raised", "sleep", "dialog"}
  PROVE  Anew([Resting EXCEPT !.pc = pc], list)
<1>. DEFINE r == [Resting EXCEPT !.pc = pc]
<1>1. /\ r \in RunState /\ r.call = None /\ r.got = "none" /\ r.pc = pc
      /\ r.then = "auto" /\ r.todo = <<>> /\ r.still = <<>>
  BY RestingFacts DEF RunState
<1>. QED BY <1>1 DEF Anew, Waiting

LEMMA FragmentIsAnew ==
  ASSUME NEW list, NEW press \in Press
  PROVE  Anew([Resting EXCEPT !.pc = "dialog", !.then = "fragment",
                              !.press = press], list)
<1>. DEFINE r == [Resting EXCEPT !.pc = "dialog", !.then = "fragment",
                                 !.press = press]
<1>1. /\ r \in RunState /\ r.call = None /\ r.got = "none" /\ r.pc = "dialog"
      /\ r.then = "fragment" /\ r.press = press /\ r.todo = <<>> /\ r.still = <<>>
  BY RestingFacts DEF RunState
<1>. QED BY <1>1, FrontendAssumption DEF Anew, Waiting

LEMMA RunForIsAnew ==
  ASSUME NEW then \in {"auto", "chat", "logout"}, NEW press \in Press \cup {None},
         NEW list \in Seq(Ask)
  PROVE  Anew(RunFor(then, press, list), list)
<1>. DEFINE r == RunFor(then, press, list)
<1>1. /\ r \in RunState /\ r.call = None /\ r.got = "none" /\ r.pc = "poll"
      /\ r.then = then /\ r.todo = list /\ r.still = <<>>
  BY RestingFacts DEF RunState, RunFor
<1>. QED BY <1>1 DEF Anew, Waiting

\* Nothing is asked of the API, and at most a request is given up.
LEMMA RunAnew ==
  ASSUME FrontendInv, UNCHANGED <<confs, jobs, asks>>, late' \subseteq Out,
         late' # {} => faults' > 0, faults' >= faults,
         Anew(run', active'),
         FrontendTypeOK', SlotsAreKnown', KnownJobsAreWatched', SlotIsUndecided'
  PROVE  FrontendInv'
<1>1. Known' = Known /\ Started' = Started
  BY DEF Known, Started
<1>2. JobsWereApproved'
  BY <1>1 DEF FrontendInv, JobsWereApproved
<1>3. run'.call = None /\ run'.got = "none" /\ run'.pc \notin Waiting
  BY DEF Anew
<1>4. Out' \subseteq Out
  BY <1>3 DEF Out
<1>5. CallsFit'
  BY <1>1, <1>3, <1>4 DEF FrontendInv, CallsFit
<1>6. RunFits'
  BY <1>3 DEF Anew, RunFits, Waiting
<1>7. AnswersAreTrue'
  BY <1>3 DEF AnswersAreTrue
<1>8. PollDropsNothing'
  BY ElementsOfEmpty DEF Anew, PollDropsNothing, KnownJobsAreWatched
<1>. QED BY <1>2, <1>5, <1>6, <1>7, <1>8 DEF FrontendInv

LEMMA FinishedIsAnew == \A list : Anew(Finished, list)
  BY RestingIsAnew DEF Finished

LEMMA AfterDialogIsAnew == \A list : Anew(AfterDialog, list)
<1>. SUFFICES ASSUME NEW list PROVE Anew(AfterDialog, list)
  OBVIOUS
<1>1. CASE run.then = "fragment"
  <2>1. AfterDialog = [Resting EXCEPT !.pc = IF active # <<>> THEN "raised" ELSE "rest"]
    BY <1>1 DEF AfterDialog
  <2>. QED BY <2>1, RestingIsAnew
<1>2. CASE run.then = "chat" /\ MayAsk
  <2>. DEFINE r == [Resting EXCEPT !.pc = "chat", !.then = "chat"]
  <2>1. AfterDialog = r
    BY <1>2 DEF AfterDialog
  <2>2. /\ r \in RunState /\ r.call = None /\ r.got = "none" /\ r.pc = "chat"
        /\ r.then = "chat" /\ r.todo = <<>> /\ r.still = <<>>
    BY RestingFacts DEF RunState
  <2>3. asks < MaxAsks
    BY <1>2 DEF MayAsk, InBound
  <2>. QED BY <2>1, <2>2, <2>3 DEF Anew, Waiting
<1>3. CASE run.then # "fragment" /\ ~(run.then = "chat" /\ MayAsk)
  <2>1. AfterDialog = Finished
    BY <1>3 DEF AfterDialog
  <2>. QED BY <2>1, FinishedIsAnew
<1>. QED BY <1>1, <1>2, <1>3

\* The slots are as they were: nothing an answer said is stored.
LEMMA NothingStored ==
  ASSUME FrontendInv,
         UNCHANGED <<confs, jobs, asks, pending, parsed, active, unseen, due>>,
         session' \in BOOLEAN, shown' \in Dialog \cup {None},
         click' \in Press \cup {None}, clicks' \in 0 .. MaxClicks,
         faults' \in 0 .. MaxFaults, faults' >= faults,
         late' \subseteq Out, late' # {} => faults' > 0,
         run.pc = "deciding" /\ run.got = "ok" => faults' > 0,
         Anew(run', active)
  PROVE  FrontendInv'
<1>1. Known' = Known /\ Started' = Started
  BY DEF Known, Started
<1>2. Out \subseteq Call
  BY DEF FrontendInv, FrontendTypeOK, RunState, RunFits, Out
<1>3. FrontendTypeOK'
  BY <1>2 DEF FrontendInv, FrontendTypeOK, Anew
<1>4. SlotsAreKnown' /\ KnownJobsAreWatched'
  BY <1>1 DEF FrontendInv, SlotsAreKnown, KnownJobsAreWatched
<1>5. SlotIsUndecided'
  <2>1. faults \in Nat /\ faults' \in Nat
    BY DEF FrontendInv, FrontendTypeOK
  <2>. QED BY <2>1 DEF FrontendInv, SlotIsUndecided
<1>. QED BY <1>3, <1>4, <1>5, RunAnew

\* What the following lemmas use of the types.
LEMMA PageFacts ==
  ASSUME FrontendInv
  PROVE  /\ active \in Seq(Ask) /\ session \in BOOLEAN
         /\ shown \in Dialog \cup {None} /\ click \in Press \cup {None}
         /\ asks \in 0 .. MaxAsks /\ clicks \in 0 .. MaxClicks
         /\ faults \in 0 .. MaxFaults
         /\ run \in RunState /\ run.press \in Press \cup {None}
         /\ late \subseteq Out /\ (late # {} => faults > 0)
  BY DEF FrontendInv, FrontendTypeOK, RunState, Out, CallsFit

LEMMA CalledType ==
  ASSUME FrontendInv
  PROVE  Called \in Dialog \cup {None}
<1>1. /\ pending \in Ask \cup {None} /\ parsed \in Ask \cup {None}
      /\ run.press \in Press \cup {None}
      /\ run.then = "fragment" => run.press # None
  BY PageFacts DEF FrontendInv, FrontendTypeOK, RunFits
<1>2. run.then = "fragment" => run.press.shown.kind \in {"confirm", "save"}
  BY <1>1 DEF Press, Dialog
<1>. QED BY <1>1, <1>2 DEF Called, Dialog

LEMMA RunsStartOver ==
  ASSUME FrontendInv, NEW then \in {"auto", "chat", "logout"}, Rerun(then, active)
  PROVE  Anew(run', active) /\ click' \in Press \cup {None}
  BY PageFacts, RunForIsAnew DEF Rerun

LEMMA ClickKeepsInv ==
  ASSUME FrontendInv, OpenChat \/ Logout \/ SendChat
  PROVE  FrontendInv'
<1>1. ClickAround /\ MayClick /\ clicks' = clicks + 1
  BY DEF OpenChat, Logout, SendChat
<1>2. Anew(run', active) /\ click' \in Press \cup {None}
  BY RunsStartOver DEF OpenChat, Logout, SendChat
<1>3. /\ faults' \in 0 .. MaxFaults /\ faults' >= faults
      /\ run.pc = "deciding" /\ run.got = "ok" => faults' > 0
  BY <1>1, PageFacts, FrontendAssumption DEF ClickAround, MayFail, InBound, Waiting
<1>4. clicks' \in 0 .. MaxClicks
  BY <1>1, PageFacts, FrontendAssumption DEF MayClick, InBound
<1>5. /\ UNCHANGED <<confs, jobs, late, asks, pending, parsed, active, shown,
                      unseen, due>>
      /\ session' \in BOOLEAN
  BY PageFacts DEF OpenChat, Logout, SendChat, serverVars, slotVars
<1>6. late' # {} => faults' > 0
  BY <1>3, <1>5, PageFacts
<1>. QED BY <1>2, <1>3, <1>4, <1>5, <1>6, PageFacts, NothingStored

LEMMA ScriptKeepsInv ==
  ASSUME FrontendInv, Wake \/ RunFragment \/ Draw
  PROVE  FrontendInv'
<1>1. Anew(run', active) /\ click' \in Press \cup {None}
  <2>1. CASE Wake
    BY <2>1, RunsStartOver DEF Wake
  <2>2. CASE RunFragment
    BY <2>2, PageFacts, FragmentIsAnew DEF RunFragment
  <2>3. CASE Draw
    BY <2>3, PageFacts, AfterDialogIsAnew DEF Draw
  <2>. QED BY <2>1, <2>2, <2>3
<1>2. /\ UNCHANGED <<confs, jobs, late, asks, clicks, faults, session, pending,
                      parsed, active, unseen, due>>
      /\ run.pc # "deciding"
  BY PageFacts DEF Wake, RunFragment, Draw, serverVars, slotVars, boundVars
<1>3. shown' \in Dialog \cup {None}
  BY PageFacts, CalledType DEF Wake, RunFragment, Draw
<1>. QED BY <1>1, <1>2, <1>3, PageFacts, NothingStored

LEMMA ExceptionKeepsInv ==
  ASSUME FrontendInv, PollRaises \/ TimeOut
  PROVE  FrontendInv'
<1>1. Anew(run', active)
  BY RestingIsAnew DEF PollRaises, TimeOut
<1>2. faults' \in 0 .. MaxFaults /\ faults' > faults /\ faults' > 0
  BY PageFacts, FrontendAssumption DEF PollRaises, TimeOut, MayFail, InBound
<1>3. late' \subseteq Out
  BY PageFacts DEF PollRaises, TimeOut, serverVars, Out
<1>4. UNCHANGED <<confs, jobs, asks, clicks, session, pending, parsed, active,
                  shown, click, unseen, due>>
  BY DEF PollRaises, TimeOut, serverVars, slotVars
<1>. QED BY <1>1, <1>2, <1>3, <1>4, PageFacts, NothingStored

\* The slot is as it was, or empty, and no decision about it is on its way.
LEMMA SlotStays ==
  ASSUME FrontendInv, UNCHANGED <<confs, faults>>, pending' \in {pending, None},
         run.pc # "deciding" \/ run.got # "ok" \/ pending' = None
  PROVE  SlotIsUndecided'
  BY DEF FrontendInv, SlotIsUndecided

LEMMA EndOfPollKeepsInv ==
  ASSUME FrontendInv, EndPollAtOnce \/ EndPoll \/ EndLogout
  PROVE  FrontendInv'
<1>1. /\ run.pc = "poll" /\ run.todo = <<>> /\ run.still \in Seq(Ask)
      /\ UNCHANGED <<confs, jobs, late, asks, clicks, faults>>
  BY PageFacts DEF EndPollAtOnce, EndPoll, EndLogout, PollEnds, serverVars,
                   boundVars, RunState
<1>2. /\ Known' = Known /\ Started' = Started
      /\ Elements(run.still) \subseteq Started /\ unseen \subseteq Elements(run.still)
  BY <1>1, ElementsOfEmpty
     DEF Known, Started, FrontendInv, PollDropsNothing, SlotsAreKnown
<1>3. CASE EndPollAtOnce
  <2>1. /\ UNCHANGED <<session, pending, parsed, shown, unseen, due>>
        /\ active' = <<>> /\ run.still = <<>> /\ Rerun("auto", <<>>)
    BY <1>3 DEF EndPollAtOnce
  <2>2. Anew(run', active') /\ active' \in Seq(Ask) /\ click' = None
    BY <2>1, PageFacts, RunForIsAnew, ElementsOfEmpty DEF Rerun
  <2>3. FrontendTypeOK'
    BY <1>1, <2>1, <2>2 DEF FrontendInv, FrontendTypeOK, Anew
  <2>4. SlotsAreKnown' /\ KnownJobsAreWatched'
    BY <1>2, <2>1 DEF FrontendInv, SlotsAreKnown, KnownJobsAreWatched
  <2>5. SlotIsUndecided'
    BY <1>1, <2>1, SlotStays
  <2>. QED BY <1>1, <2>2, <2>3, <2>4, <2>5, PageFacts, RunAnew
<1>4. CASE EndPoll
  <2>1. /\ UNCHANGED <<session, pending, parsed, shown, click, unseen, due>>
        /\ active' = run.still
        /\ run' = [run EXCEPT !.pc = "dialog", !.still = <<>>, !.ended = FALSE]
    BY <1>4 DEF EndPoll
  <2>2. run.call = None /\ run.got = "none" /\ (run.then = "fragment" => run.press # None)
    BY <1>1 DEF FrontendInv, RunFits, Waiting
  <2>3. /\ run' \in RunState /\ run'.call = None /\ run'.got = "none"
        /\ run'.pc = "dialog" /\ run'.then = run.then /\ run'.press = run.press
        /\ run'.todo = <<>> /\ run'.still = <<>>
    BY <1>1, <2>1, <2>2, PageFacts DEF RunState
  <2>4. Anew(run', active')
    BY <2>2, <2>3 DEF Anew, Waiting
  <2>5. FrontendTypeOK'
    BY <1>1, <2>1, <2>3 DEF FrontendInv, FrontendTypeOK
  <2>6. SlotsAreKnown' /\ KnownJobsAreWatched'
    BY <1>2, <2>1 DEF FrontendInv, SlotsAreKnown, KnownJobsAreWatched
  <2>7. SlotIsUndecided'
    BY <1>1, <2>1, SlotStays
  <2>. QED BY <1>1, <2>4, <2>5, <2>6, <2>7, PageFacts, RunAnew
<1>5. CASE EndLogout
  <2>1. /\ session' = FALSE /\ pending' = None /\ parsed' = None /\ active' = <<>>
        /\ shown' = None /\ click' = None /\ run' = Resting
        /\ unseen' = {} /\ due' = {}
    BY <1>5 DEF EndLogout
  <2>2. Anew(run', active')
    BY <2>1, RestingFacts DEF Anew, Waiting
  <2>3. FrontendTypeOK'
    BY <1>1, <2>1, RestingFacts, ElementsOfEmpty DEF FrontendInv, FrontendTypeOK
  <2>4. SlotsAreKnown' /\ KnownJobsAreWatched'
    BY <2>1, ElementsOfEmpty DEF SlotsAreKnown, KnownJobsAreWatched
  <2>5. SlotIsUndecided'
    BY <1>1, <2>1, SlotStays
  <2>. QED BY <1>1, <2>2, <2>3, <2>4, <2>5, PageFacts, RunAnew
<1>. QED BY <1>3, <1>4, <1>5

LEMMA DiscardKeepsInv ==
  ASSUME FrontendInv, Discard
  PROVE  FrontendInv'
<1>1. /\ UNCHANGED <<confs, jobs, late, asks, clicks, faults, session, pending,
                      active, shown, unseen>>
      /\ run.pc = "dialog" /\ parsed' = None /\ due' \subseteq due
      /\ Rerun("auto", active)
  BY DEF Discard, Settle, Pressed, serverVars, boundVars
<1>2. Anew(run', active') /\ click' \in Press \cup {None}
  BY <1>1, RunsStartOver
<1>3. FrontendTypeOK'
  BY <1>1, <1>2 DEF FrontendInv, FrontendTypeOK, Anew
<1>4. SlotsAreKnown' /\ KnownJobsAreWatched'
  BY <1>1 DEF FrontendInv, SlotsAreKnown, KnownJobsAreWatched, Known, Started
<1>5. SlotIsUndecided'
  BY <1>1, SlotStays
<1>. QED BY <1>1, <1>2, <1>3, <1>4, <1>5, PageFacts, RunAnew

-----------------------------------------------------------------------------
(* Answers *)

\* A job that the API has told the page of: it is there, and in the list.
LEMMA Tracked ==
  ASSUME FrontendInv, NEW j \in Started, Track(j), UNCHANGED jobs
  PROVE  /\ active' \in Seq(Ask)
         /\ Elements(active') \cup unseen' \subseteq Started'
         /\ unseen' \subseteq Elements(active')
<1>1. Elements(active') = Elements(active) \cup {j} /\ active' \in Seq(Ask)
  BY PageFacts, ElementsOfAppend DEF Track, Started
<1>. QED BY <1>1 DEF Track, Started, FrontendInv, SlotsAreKnown, KnownJobsAreWatched

LEMMA AskAnsweredKeepsInv ==
  ASSUME FrontendInv, AskAnswered \/ ChatAnswered
  PROVE  FrontendInv'
<1>1. /\ UNCHANGED <<confs, jobs, late, asks, clicks, faults, parsed, active,
                      shown, unseen, due>>
      /\ session' \in BOOLEAN
  BY PageFacts DEF AskAnswered, ChatAnswered, serverVars, boundVars
<1>2. CASE run.got = "error"
  <2>1. /\ pending' = pending /\ click' = click
        /\ run' \in {RunFor("auto", run.press, active), Finished}
    BY <1>2 DEF AskAnswered, ChatAnswered, Answered
  <2>2. Anew(run', active)
    BY <2>1, PageFacts, RunForIsAnew, FinishedIsAnew
  <2>. QED BY <1>1, <1>2, <2>1, <2>2, PageFacts, NothingStored
<1>3. CASE run.got = "ok"
  <2>1. /\ pending' = run.call.conf /\ Rerun("auto", active)
        /\ run.pc \in {"asking", "chatting"}
    BY <1>3 DEF AskAnswered, ChatAnswered, Answered
  <2>2. Anew(run', active') /\ click' \in Press \cup {None}
    BY <1>1, <2>1, RunsStartOver
  <2>3. /\ run.call.conf \in Known
        /\ faults > 0 \/ confs[run.call.conf].status = "pending"
    BY <1>3, <2>1 DEF FrontendInv, AnswersAreTrue, RunFits
  <2>4. FrontendTypeOK'
    BY <1>1, <2>1, <2>2, <2>3 DEF FrontendInv, FrontendTypeOK, Anew, Known
  <2>5. SlotsAreKnown' /\ KnownJobsAreWatched'
    BY <1>1, <2>1, <2>3 DEF FrontendInv, SlotsAreKnown, KnownJobsAreWatched, Known,
                            Started
  <2>6. SlotIsUndecided'
    BY <1>1, <2>1, <2>3 DEF SlotIsUndecided
  <2>. QED BY <1>1, <2>2, <2>4, <2>5, <2>6, PageFacts, RunAnew
<1>. QED BY <1>2, <1>3 DEF AskAnswered, ChatAnswered, Answered

LEMMA DecisionAnsweredKeepsInv ==
  ASSUME FrontendInv, DecisionAnswered
  PROVE  FrontendInv'
<1>1. /\ UNCHANGED <<confs, jobs, late, asks, clicks, faults, session, parsed,
                      shown, due>>
      /\ run.pc = "deciding"
  BY DEF DecisionAnswered, Answered, serverVars, boundVars
<1>2. CASE run.got = "error"
  <2>1. UNCHANGED <<active, unseen, pending, click>> /\ run' = AfterDialog
    BY <1>2 DEF DecisionAnswered, Answered
  <2>2. Anew(run', active)
    BY <2>1, AfterDialogIsAnew
  <2>. QED BY <1>1, <1>2, <2>1, <2>2, PageFacts, NothingStored
<1>3. CASE run.got = "ok"
  <2>1. /\ IF run.call.yes THEN Track(run.call.conf) ELSE UNCHANGED <<active, unseen>>
        /\ pending' = None /\ Rerun("auto", active')
    BY <1>3 DEF DecisionAnswered, Answered
  <2>2. run.call.yes => run.call.conf \in Started
    BY <1>1, <1>3 DEF FrontendInv, AnswersAreTrue, RunFits
  <2>3. /\ active' \in Seq(Ask) /\ Elements(active') \cup unseen' \subseteq Started'
        /\ unseen' \subseteq Elements(active')
    <3>1. CASE run.call.yes
      BY <1>1, <2>1, <2>2, <3>1, Tracked
    <3>2. CASE ~run.call.yes
      BY <1>1, <2>1, <3>2, PageFacts
         DEF FrontendInv, SlotsAreKnown, KnownJobsAreWatched, Started
    <3>. QED BY <3>1, <3>2
  <2>4. Anew(run', active') /\ click' = None
    BY <2>1, <2>3, PageFacts, RunForIsAnew DEF Rerun
  <2>5. FrontendTypeOK'
    BY <1>1, <2>1, <2>3, <2>4 DEF FrontendInv, FrontendTypeOK, Anew, Started
  <2>6. SlotsAreKnown' /\ KnownJobsAreWatched'
    BY <1>1, <2>1, <2>3 DEF FrontendInv, SlotsAreKnown, KnownJobsAreWatched, Known,
                            Started
  <2>7. SlotIsUndecided'
    BY <1>1, <2>1, SlotStays
  <2>. QED BY <1>1, <2>4, <2>5, <2>6, <2>7, PageFacts, RunAnew
<1>. QED BY <1>2, <1>3 DEF DecisionAnswered, Answered

LEMMA ApprovalAnsweredKeepsInv ==
  ASSUME FrontendInv, ApprovalAnswered
  PROVE  FrontendInv'
<1>1. /\ UNCHANGED <<confs, jobs, late, asks, clicks, faults, session, pending,
                      shown>>
      /\ run.pc = "approving" /\ parsed' = None /\ due' \subseteq due
      /\ Rerun("auto", active')
  BY DEF ApprovalAnswered, Answered, Settle, serverVars, boundVars
<1>2. /\ active' \in Seq(Ask) /\ Elements(active') \cup unseen' \subseteq Started'
      /\ unseen' \subseteq Elements(active')
  <2>1. CASE Answered("approving", "ok") /\ Track(run.call.conf)
    <3>1. run.call.conf \in Started
      BY <1>1, <2>1 DEF FrontendInv, AnswersAreTrue, RunFits, Answered
    <3>. QED BY <1>1, <2>1, <3>1, Tracked
  <2>2. CASE UNCHANGED <<active, unseen>>
    BY <1>1, <2>2, PageFacts
       DEF FrontendInv, SlotsAreKnown, KnownJobsAreWatched, Started
  <2>. QED BY <2>1, <2>2 DEF ApprovalAnswered
<1>3. Anew(run', active') /\ click' = None
  BY <1>1, <1>2, PageFacts, RunForIsAnew DEF Rerun
<1>4. FrontendTypeOK'
  BY <1>1, <1>2, <1>3 DEF FrontendInv, FrontendTypeOK, Anew, Started
<1>5. SlotsAreKnown' /\ KnownJobsAreWatched'
  BY <1>1, <1>2 DEF FrontendInv, SlotsAreKnown, KnownJobsAreWatched, Known, Started
<1>6. SlotIsUndecided'
  BY <1>1, SlotStays
<1>. QED BY <1>1, <1>3, <1>4, <1>5, <1>6, PageFacts, RunAnew

-----------------------------------------------------------------------------
(* Requests *)

\* What is sent decides a row, or inserts one under a new id.
Fits(k) ==
  /\ k \in Call /\ k.of \in Started \cup {None}
  /\ IF k.decides THEN k.conf \in Known ELSE k.conf = asks + 1

LEMMA SentKeepsInv ==
  ASSUME FrontendInv,
         UNCHANGED <<confs, jobs, late, session, pending, parsed, active,
                     unseen, due, clicks>>,
         shown' \in Dialog \cup {None}, click' \in Press \cup {None},
         faults' \in 0 .. MaxFaults, faults' >= faults,
         run.pc = "deciding" /\ run.got = "ok" => faults' > 0,
         NEW k, Fits(k), asks' = IF k.decides THEN asks ELSE asks + 1,
         run' \in RunState, run'.call = k, run'.pc \in Waiting, run'.got = "none",
         run'.todo = <<>>, run'.still = <<>>, RunFits'
  PROVE  FrontendInv'
<1>1. Known' = Known /\ Started' = Started
  BY DEF Known, Started
<1>2. k.conf \in Ask /\ asks \in Nat /\ asks' \in Nat /\ asks <= asks'
  BY PageFacts, FrontendAssumption DEF Fits, Call
<1>3. FrontendTypeOK'
  <2>1. asks' \in 0 .. MaxAsks
    BY <1>2, PageFacts DEF Fits, Ask
  <2>. QED BY <2>1 DEF FrontendInv, FrontendTypeOK
<1>4. JobsWereApproved' /\ SlotsAreKnown' /\ KnownJobsAreWatched'
  BY <1>1 DEF FrontendInv, JobsWereApproved, SlotsAreKnown, KnownJobsAreWatched
<1>5. CallsFit'
  <2>1. Out' \subseteq Out \cup {k} /\ Out \subseteq Call
    BY DEF Out, FrontendInv, FrontendTypeOK, RunState, RunFits
  <2>2. \A l \in Out : /\ l.conf \in Nat /\ l.conf <= asks
                       /\ l.of \in Started \cup {None}
                       /\ l.decides <=> l.conf \in Known
    BY <2>1 DEF FrontendInv, CallsFit, Call, Ask
  <2>3. Known \subseteq 1 .. asks /\ Known \subseteq Nat
    BY <1>2 DEF FrontendInv, CallsFit, Known, Ask
  <2>4. Known' \subseteq 1 .. asks' /\ (late' # {} => faults' > 0)
    BY <1>1, <1>2, <2>3, PageFacts
  <2>5. k.conf <= asks' /\ (k.decides <=> k.conf \in Known)
    <3>1. CASE k.decides
      <4>1. k.conf \in Known
        BY <3>1 DEF Fits
      <4>2. k.conf \in 1 .. asks
        BY <2>3, <4>1
      <4>3. k.conf <= asks'
        BY <1>2, <4>2
      <4>. QED BY <3>1, <4>1, <4>3
    <3>2. CASE ~k.decides
      BY <1>2, <2>3, <3>2 DEF Fits
    <3>. QED BY <3>1, <3>2
  <2>6. \A l \in Out : l.conf = k.conf => k.decides /\ l.decides
    BY <1>2, <2>2 DEF Fits
  <2>7. ASSUME NEW l \in Out'
        PROVE  /\ l.conf <= asks' /\ l.of \in Started' \cup {None}
               /\ l.decides <=> l.conf \in Known'
               /\ ~l.decides => \A m \in Out' : m.conf = l.conf => m = l
    <3>1. CASE l = k
      BY <1>1, <2>1, <2>5, <2>6, <3>1 DEF Fits
    <3>2. CASE l \in Out
      <4>1. l.conf <= asks'
        BY <1>2, <2>2, <3>2
      <4>2. ~l.decides => \A m \in Out : m.conf = l.conf => m = l
        BY <3>2 DEF FrontendInv, CallsFit
      <4>. QED BY <1>1, <2>1, <2>2, <2>6, <3>2, <4>1, <4>2
    <3>. QED BY <2>1, <3>1, <3>2
  <2>8. ~k.decides => k \notin late'
    BY <2>6, PageFacts
  <2>. QED BY <2>4, <2>7, <2>8 DEF CallsFit
<1>6. AnswersAreTrue'
  BY DEF AnswersAreTrue
<1>7. PollDropsNothing'
  BY DEF PollDropsNothing, Waiting
<1>8. SlotIsUndecided'
  BY PageFacts, FrontendAssumption DEF FrontendInv, SlotIsUndecided
<1>. QED BY <1>3, <1>4, <1>5, <1>6, <1>7, <1>8 DEF FrontendInv

LEMMA InsertionFits ==
  ASSUME FrontendInv, MayAsk, NEW tool \in PageTool, NEW of \in Started \cup {None}
  PROVE  Fits(Insertion(asks + 1, tool, of))
<1>1. asks + 1 \in Ask
  BY PageFacts, FrontendAssumption DEF MayAsk, InBound, Ask
<1>. QED BY <1>1 DEF Fits, Insertion, Call, Started

LEMMA DecisionFits ==
  ASSUME FrontendInv, NEW c \in Known, NEW yes \in BOOLEAN
  PROVE  Fits(Decision(c, yes))
  BY DEF Fits, Decision, Call, Known, PageTool

\* A run that goes on to wait for the answer to k.
LEMMA SendType ==
  ASSUME FrontendInv, NEW pc \in Waiting, NEW k \in Call, Send(pc, k)
  PROVE  /\ run' \in RunState /\ run'.call = k /\ run'.pc = pc /\ run'.got = "none"
         /\ run'.then = run.then /\ run'.press = run.press
         /\ run'.todo = run.todo /\ run'.still = run.still
  BY PageFacts DEF Send, RunState, Waiting

LEMMA DecideKeepsInv ==
  ASSUME FrontendInv, NEW yes \in BOOLEAN, Decide(yes)
  PROVE  FrontendInv'
<1>. DEFINE k == Decision(pending, yes)
<1>1. /\ UNCHANGED <<confs, jobs, late, session, pending, parsed, active,
                      unseen, due, asks, clicks, faults, click>>
      /\ shown' = Called /\ run.pc = "dialog" /\ Send("deciding", k)
      /\ Called # None /\ Called.kind = "confirm"
  BY DEF Decide, Pressed, serverVars, slotVars, boundVars
<1>2. pending \in Known
  BY <1>1 DEF Called, FrontendInv, SlotsAreKnown
<1>3. Fits(k) /\ k \in Call /\ k.decides /\ k.conf = pending
  BY <1>2, DecisionFits DEF Fits, Decision
<1>4. /\ run' \in RunState /\ run'.call = k /\ run'.pc = "deciding"
      /\ run'.got = "none" /\ run'.then = run.then /\ run'.press = run.press
      /\ run'.todo = <<>> /\ run'.still = <<>>
  BY <1>1, <1>3, SendType DEF Waiting, FrontendInv, PollDropsNothing
<1>5. RunFits'
  BY <1>1, <1>3, <1>4, FrontendAssumption DEF FrontendInv, RunFits, Waiting
<1>6. shown' \in Dialog \cup {None}
  BY <1>1, CalledType
<1>. HIDE DEF k
<1>. QED BY <1>1, <1>3, <1>4, <1>5, <1>6, PageFacts, SentKeepsInv DEF Waiting

LEMMA SaveKeepsInv ==
  ASSUME FrontendInv, Save
  PROVE  FrontendInv'
<1>. DEFINE k == Insertion(asks + 1, "cv_save", parsed)
<1>1. /\ UNCHANGED <<confs, jobs, late, session, pending, parsed, active,
                      unseen, due, clicks, faults, click>>
      /\ asks' = asks + 1 /\ MayAsk
      /\ shown' = Called /\ run.pc = "dialog" /\ Send("saving", k)
  BY DEF Save, CanSave, Pressed, serverVars, slotVars
<1>2. Fits(k) /\ k \in Call /\ ~k.decides /\ k.conf = asks + 1
  <2>1. parsed \in Started \cup {None} /\ "cv_save" \in PageTool
    BY DEF FrontendInv, SlotsAreKnown, PageTool
  <2>2. Fits(k)
    BY <1>1, <2>1, InsertionFits
  <2>. QED BY <2>2 DEF Fits, Insertion
<1>3. /\ run' \in RunState /\ run'.call = k /\ run'.pc = "saving"
      /\ run'.got = "none" /\ run'.then = run.then /\ run'.press = run.press
      /\ run'.todo = <<>> /\ run'.still = <<>>
  BY <1>1, <1>2, SendType DEF Waiting, FrontendInv, PollDropsNothing
<1>4. k.conf # pending
  <2>1. pending \in (1 .. asks) \cup {None}
    BY DEF FrontendInv, SlotsAreKnown, CallsFit
  <2>. QED BY <1>2, <2>1, PageFacts, FrontendAssumption DEF Call
<1>5. RunFits'
  BY <1>1, <1>2, <1>3, <1>4, FrontendAssumption DEF FrontendInv, RunFits, Waiting
<1>6. shown' \in Dialog \cup {None}
  BY <1>1, CalledType
<1>. HIDE DEF k
<1>. QED BY <1>1, <1>2, <1>3, <1>5, <1>6, PageFacts, SentKeepsInv DEF Waiting

LEMMA ChatKeepsInv ==
  ASSUME FrontendInv, Chat
  PROVE  FrontendInv'
<1>1. PICK tool \in ChatTools : Send("chatting", Insertion(asks', tool, None))
  BY DEF Chat
<1>. DEFINE k == Insertion(asks + 1, tool, None)
<1>2. /\ UNCHANGED <<confs, jobs, late, session, pending, parsed, active,
                      unseen, due, clicks, faults, click, shown>>
      /\ asks' = asks + 1 /\ run.pc = "chat" /\ Send("chatting", k)
  BY <1>1 DEF Chat, serverVars, slotVars
<1>3. Fits(k) /\ k \in Call /\ ~k.decides
  <2>1. asks + 1 \in Ask
    BY <1>2, PageFacts, FrontendAssumption DEF FrontendInv, RunFits, Ask
  <2>. QED BY <2>1, FrontendAssumption DEF Fits, Insertion, Call
<1>4. /\ run' \in RunState /\ run'.call = k /\ run'.pc = "chatting"
      /\ run'.got = "none" /\ run'.then = run.then /\ run'.press = run.press
      /\ run'.todo = <<>> /\ run'.still = <<>>
  BY <1>2, <1>3, SendType DEF Waiting, FrontendInv, PollDropsNothing
<1>5. RunFits'
  BY <1>2, <1>3, <1>4, FrontendAssumption DEF FrontendInv, RunFits, Waiting
<1>. HIDE DEF k
<1>. QED BY <1>2, <1>3, <1>4, <1>5, PageFacts, SentKeepsInv DEF Waiting

LEMMA AskToolKeepsInv ==
  ASSUME FrontendInv, NEW tool \in Sidebar, AskTool(tool)
  PROVE  FrontendInv'
<1>. DEFINE k == Insertion(asks + 1, tool, None)
            r == [Resting EXCEPT !.pc = "asking", !.press = click, !.call = k]
<1>1. /\ UNCHANGED <<confs, jobs, late, session, pending, parsed, active,
                      unseen, due, clicks, shown>>
      /\ asks' = asks + 1 /\ MayAsk /\ ClickAround /\ click' = None /\ run' = r
  BY DEF AskTool, serverVars, slotVars
<1>2. Fits(k) /\ k \in Call /\ ~k.decides
  <2>1. Fits(k)
    BY <1>1, InsertionFits, FrontendAssumption DEF PageTool
  <2>. QED BY <2>1 DEF Fits, Insertion
<1>3. /\ run' \in RunState /\ run'.call = k /\ run'.pc = "asking"
      /\ run'.got = "none" /\ run'.then = "auto" /\ run'.todo = <<>>
      /\ run'.still = <<>>
  <2>. HIDE DEF k
  <2>. QED BY <1>1, <1>2, RestingFacts, PageFacts DEF RunState
<1>4. RunFits'
  BY <1>1, <1>2, <1>3, FrontendAssumption DEF RunFits, Waiting
<1>5. /\ faults' \in 0 .. MaxFaults /\ faults' >= faults
      /\ run.pc = "deciding" /\ run.got = "ok" => faults' > 0
  BY <1>1, PageFacts, FrontendAssumption DEF ClickAround, MayFail, InBound, Waiting
<1>. HIDE DEF k, r
<1>. QED BY <1>1, <1>2, <1>3, <1>4, <1>5, PageFacts, SentKeepsInv DEF Waiting

LEMMA SaveAnsweredKeepsInv ==
  ASSUME FrontendInv, SaveAnswered
  PROVE  FrontendInv'
<1>1. /\ UNCHANGED <<confs, jobs, late, session, pending, parsed, active,
                      unseen, due, asks, clicks, faults, shown, click>>
      /\ run.pc = "saving"
  BY DEF SaveAnswered, Answered, serverVars, slotVars, boundVars
<1>2. CASE run.got = "ok"
  <2>. DEFINE k == Decision(run.call.conf, TRUE)
  <2>1. Send("approving", k)
    BY <1>2 DEF SaveAnswered, Answered
  <2>2. run.call.conf \in Known /\ run.call.conf # pending
    BY <1>1, <1>2 DEF FrontendInv, AnswersAreTrue, RunFits
  <2>3. Fits(k) /\ k \in Call /\ k.decides /\ k.yes /\ k.conf # pending
    BY <2>2, DecisionFits DEF Fits, Decision
  <2>4. /\ run' \in RunState /\ run'.call = k /\ run'.pc = "approving"
        /\ run'.got = "none" /\ run'.then = run.then /\ run'.press = run.press
        /\ run'.todo = <<>> /\ run'.still = <<>>
    <3>1. k \in Call /\ run.todo = <<>> /\ run.still = <<>>
      BY <1>1, <2>3 DEF FrontendInv, PollDropsNothing
    <3>. HIDE DEF k
    <3>. QED BY <2>1, <3>1, SendType DEF Waiting
  <2>5. RunFits'
    BY <1>1, <2>3, <2>4, FrontendAssumption DEF FrontendInv, RunFits, Waiting
  <2>. HIDE DEF k
  <2>. QED BY <1>1, <2>3, <2>4, <2>5, PageFacts, SentKeepsInv DEF Waiting
<1>3. CASE run.got # "ok"
  <2>1. Anew(run', active)
    BY <1>3, AfterDialogIsAnew DEF SaveAnswered, Answered
  <2>. QED BY <1>1, <2>1, PageFacts, NothingStored
<1>. QED BY <1>2, <1>3

-----------------------------------------------------------------------------
(* The API and the workers *)

\* What a request does: its row, and the job of an approval.
LEMMA EffectFacts ==
  ASSUME FrontendInv, NEW k \in Out, Effect(k)
  PROVE  /\ k \in Call
         /\ confs' \in [Ask -> ConfRow \cup {None}]
         /\ jobs' \in [Ask -> JobRow \cup {None}]
         /\ Known' = Known \cup {k.conf}
         /\ Started' = IF k.decides /\ k.yes THEN Started \cup {k.conf} ELSE Started
         /\ \A c \in Ask \ {k.conf} : confs'[c] = confs[c]
         /\ ~k.decides => confs'[k.conf].status = "pending"
         /\ JobsWereApproved'
<1>1. /\ k \in Call /\ k.conf \in Ask /\ k.of \in Started \cup {None}
      /\ k.decides <=> k.conf \in Known
      /\ confs \in [Ask -> ConfRow \cup {None}] /\ jobs \in [Ask -> JobRow \cup {None}]
  BY DEF FrontendInv, FrontendTypeOK, CallsFit, Out, RunState, RunFits, Call
<1>2. CASE k.decides
  <2>. DEFINE status == IF k.yes THEN "approved" ELSE "denied"
  <2>1. /\ confs[k.conf].status = "pending" /\ k.conf \in Known
        /\ confs' = [confs EXCEPT ![k.conf].status = status]
        /\ IF k.yes THEN View!Appear(k.conf) ELSE UNCHANGED jobs
    BY <1>1, <1>2 DEF Effect
  <2>2. confs[k.conf] \in ConfRow
    BY <1>1, <2>1 DEF Known
  <2>3. /\ confs'[k.conf] = [confs[k.conf] EXCEPT !.status = status]
        /\ confs'[k.conf] \in ConfRow /\ confs'[k.conf].status = status
        /\ confs' \in [Ask -> ConfRow \cup {None}]
        /\ \A c \in Ask \ {k.conf} : confs'[c] = confs[c]
    BY <1>1, <2>1, <2>2 DEF ConfRow
  <2>4. Known' = Known
    BY <1>1, <2>1, <2>3, FrontendAssumption DEF Known
  <2>5. k.conf \notin Started
    BY <2>1 DEF FrontendInv, JobsWereApproved
  <2>6. CASE k.yes
    <3>1. PICK row \in JobRow : jobs' = [jobs EXCEPT ![k.conf] = row]
      BY <2>1, <2>6 DEF View!Appear, View!NewRows, View!Rows
    <3>2. /\ jobs' \in [Ask -> JobRow \cup {None}] /\ Started' = Started \cup {k.conf}
      BY <1>1, <3>1, FrontendAssumption DEF Started
    <3>3. JobsWereApproved'
      BY <2>3, <2>4, <2>6, <3>2, <2>1 DEF FrontendInv, JobsWereApproved, Started, Known
    <3>. QED BY <1>1, <1>2, <2>1, <2>3, <2>4, <2>6, <3>2, <3>3
  <2>7. CASE ~k.yes
    <3>1. jobs' = jobs /\ Started' = Started
      BY <2>1, <2>7 DEF Started
    <3>2. JobsWereApproved'
      BY <2>3, <2>4, <2>5, <3>1 DEF FrontendInv, JobsWereApproved, Started
    <3>. QED BY <1>1, <1>2, <2>1, <2>3, <2>4, <2>7, <3>1, <3>2
  <2>. QED BY <2>6, <2>7
<1>3. CASE ~k.decides
  <2>. DEFINE row == [tool |-> k.tool, of |-> k.of, status |-> "pending"]
  <2>1. confs' = [confs EXCEPT ![k.conf] = row] /\ jobs' = jobs
    BY <1>3 DEF Effect
  <2>2. row \in ConfRow
    BY <1>1 DEF ConfRow, Call
  <2>3. /\ confs' \in [Ask -> ConfRow \cup {None}] /\ confs'[k.conf] = row
        /\ \A c \in Ask \ {k.conf} : confs'[c] = confs[c]
    BY <1>1, <2>1, <2>2
  <2>4. Known' = Known \cup {k.conf} /\ Started' = Started
    BY <1>1, <2>1, <2>2, <2>3, FrontendAssumption DEF Known, Started
  <2>5. k.conf \notin Started
    BY <1>1, <1>3 DEF FrontendInv, JobsWereApproved
  <2>6. JobsWereApproved'
    BY <2>3, <2>4, <2>5 DEF FrontendInv, JobsWereApproved, Started
  <2>. QED BY <1>1, <1>3, <2>1, <2>3, <2>4, <2>6
<1>. QED BY <1>2, <1>3

LEMMA EffectLeavesCallsFit ==
  ASSUME FrontendInv, NEW k \in Out, Effect(k), UNCHANGED <<asks, faults>>,
         Out' \subseteq Out, k.decides \/ k \notin Out', late' \subseteq late,
         run'.pc = run.pc, run'.call = run.call
  PROVE  CallsFit'
<1>1. /\ Known' = Known \cup {k.conf} /\ Started \subseteq Started'
      /\ k.conf \in Known => Known' = Known
  BY EffectFacts
<1>2. \A l \in Out : /\ l.conf <= asks /\ l.of \in Started \cup {None}
                     /\ l.decides <=> l.conf \in Known
                     /\ ~l.decides => \A m \in Out : m.conf = l.conf => m = l
  BY DEF FrontendInv, CallsFit
<1>3. \A l \in Out' : l.decides <=> l.conf \in Known'
  <2>. SUFFICES ASSUME NEW l \in Out' PROVE l.decides <=> l.conf \in Known'
    OBVIOUS
  <2>1. CASE l.conf # k.conf
    BY <1>1, <1>2, <2>1
  <2>2. CASE l.conf = k.conf /\ k.decides
    BY <1>1, <1>2, <2>2
  <2>3. CASE l.conf = k.conf /\ ~k.decides
    BY <1>2, <2>3
  <2>. QED BY <2>1, <2>2, <2>3
<1>4. Known' \subseteq 1 .. asks'
  <2>1. Known \subseteq 1 .. asks /\ k.conf \in Ask /\ k.conf <= asks /\ asks \in Nat
    BY <1>2, PageFacts, EffectFacts DEF FrontendInv, CallsFit, Call
  <2>2. k.conf \in 1 .. asks
    BY <2>1 DEF Ask
  <2>. QED BY <1>1, <2>1, <2>2
<1>5. /\ late' # {} => faults' > 0
      /\ run'.pc \in Waiting /\ ~run'.call.decides => run'.call \notin late'
  BY DEF FrontendInv, CallsFit
<1>6. \A l \in Out' : /\ l.conf <= asks' /\ l.of \in Started' \cup {None}
                      /\ ~l.decides => \A m \in Out' : m.conf = l.conf => m = l
  BY <1>1, <1>2
<1>. QED BY <1>3, <1>4, <1>5, <1>6 DEF CallsFit

LEMMA GrantKeepsInv ==
  ASSUME FrontendInv, Grant
  PROVE  FrontendInv'
<1>1. /\ run.pc \in Waiting /\ run.got = "none" /\ Effect(run.call)
      /\ run' = [run EXCEPT !.got = "ok"]
      /\ UNCHANGED <<late, session, pending, parsed, active, unseen, due, asks,
                      clicks, faults, shown, click>>
  BY DEF Grant, Got, slotVars, boundVars
<1>2. run.call \in Out /\ Out = late \cup {run.call}
  BY <1>1 DEF Out
<1>3. /\ run' \in RunState /\ run'.got = "ok" /\ run'.pc = run.pc
      /\ run'.call = run.call /\ run'.then = run.then /\ run'.press = run.press
      /\ run'.todo = run.todo /\ run'.still = run.still
  BY <1>1, PageFacts DEF RunState
<1>4. Out' = late
  BY <1>1, <1>3 DEF Out
<1>5. run.call.decides \/ run.call \notin late
  BY <1>1 DEF FrontendInv, CallsFit
<1>6. /\ confs' \in [Ask -> ConfRow \cup {None}] /\ jobs' \in [Ask -> JobRow \cup {None}]
      /\ Known' = Known \cup {run.call.conf} /\ Started \subseteq Started'
      /\ run.call.decides /\ run.call.yes => run.call.conf \in Started'
      /\ \A c \in Ask \ {run.call.conf} : confs'[c] = confs[c]
      /\ ~run.call.decides => confs'[run.call.conf].status = "pending"
      /\ JobsWereApproved'
  BY <1>1, <1>2, EffectFacts
<1>7. CallsFit'
  BY <1>1, <1>2, <1>3, <1>4, <1>5, EffectLeavesCallsFit
<1>8. FrontendTypeOK'
  BY <1>1, <1>3, <1>6 DEF FrontendInv, FrontendTypeOK
<1>9. SlotsAreKnown' /\ KnownJobsAreWatched'
  BY <1>1, <1>6 DEF FrontendInv, SlotsAreKnown, KnownJobsAreWatched
<1>10. RunFits'
  BY <1>1, <1>3 DEF FrontendInv, RunFits
<1>11. AnswersAreTrue'
  BY <1>1, <1>3, <1>6 DEF AnswersAreTrue
<1>12. PollDropsNothing'
  BY <1>1, <1>3 DEF FrontendInv, PollDropsNothing
<1>13. SlotIsUndecided'
  <2>1. CASE run.call.conf # pending
    <3>1. pending # None => confs'[pending] = confs[pending]
      BY <1>6, <2>1 DEF FrontendInv, FrontendTypeOK
    <3>. QED BY <1>1, <3>1 DEF FrontendInv, SlotIsUndecided
  <2>2. CASE run.call.conf = pending
    <3>1. pending \in Known
      BY <2>2, <1>1, <1>2, EffectFacts, FrontendAssumption
         DEF FrontendInv, SlotsAreKnown, Call
    <3>2. run.call.decides
      BY <1>2, <2>2, <3>1 DEF FrontendInv, CallsFit
    <3>3. run.pc = "deciding"
      BY <1>1, <2>2, <3>2 DEF FrontendInv, RunFits, Waiting
    <3>. QED BY <1>1, <1>3, <2>2, <3>3 DEF SlotIsUndecided
  <2>. QED BY <2>1, <2>2
<1>. QED BY <1>6, <1>7, <1>8, <1>9, <1>10, <1>11, <1>12, <1>13 DEF FrontendInv

\* An answer that is an error, or becomes one on its way.
LEMMA ErrorKeepsInv ==
  ASSUME FrontendInv, Refuse \/ Break
  PROVE  FrontendInv'
<1>1. /\ run' = [run EXCEPT !.got = "error"]
      /\ UNCHANGED <<confs, jobs, late, session, pending, parsed, active,
                      unseen, due, asks, clicks, shown, click>>
      /\ run.pc \in Waiting
  BY DEF Refuse, Break, Got, serverVars, slotVars, boundVars, FrontendInv, RunFits
<1>2. /\ faults' \in 0 .. MaxFaults /\ faults' >= faults
      /\ run.got = "ok" => faults' > 0
  BY PageFacts, FrontendAssumption DEF Refuse, Break, MayFail, InBound, boundVars
<1>3. /\ run' \in RunState /\ run'.got = "error" /\ run'.pc = run.pc
      /\ run'.call = run.call /\ run'.then = run.then /\ run'.press = run.press
      /\ run'.todo = run.todo /\ run'.still = run.still
  BY <1>1, PageFacts DEF RunState
<1>4. Out' \subseteq Out /\ Known' = Known /\ Started' = Started
  BY <1>1, <1>3 DEF Out, Known, Started
<1>5. FrontendTypeOK'
  BY <1>1, <1>2, <1>3 DEF FrontendInv, FrontendTypeOK
<1>6. JobsWereApproved' /\ SlotsAreKnown' /\ KnownJobsAreWatched'
  BY <1>1, <1>4 DEF FrontendInv, JobsWereApproved, SlotsAreKnown, KnownJobsAreWatched
<1>7. CallsFit'
  BY <1>1, <1>2, <1>3, <1>4, PageFacts DEF FrontendInv, CallsFit
<1>8. RunFits' /\ AnswersAreTrue' /\ PollDropsNothing'
  BY <1>1, <1>3 DEF FrontendInv, RunFits, AnswersAreTrue, PollDropsNothing
<1>9. SlotIsUndecided'
  BY <1>1, <1>2, <1>3, PageFacts DEF FrontendInv, SlotIsUndecided
<1>. QED BY <1>5, <1>6, <1>7, <1>8, <1>9 DEF FrontendInv

\* The API and the jobs go on, the page is as it was.
LEMMA ServeLateKeepsInv ==
  ASSUME FrontendInv, ServeLate
  PROVE  FrontendInv'
<1>1. PICK k \in late : /\ late' = late \ {k}
                        /\ Effect(k) \/ UNCHANGED <<confs, jobs>>
  BY DEF ServeLate
<1>2. UNCHANGED <<session, pending, parsed, active, shown, click, run, unseen,
                  due, asks, clicks, faults>>
  BY DEF ServeLate, pageVars, boundVars
<1>3. k \in Out /\ Out' \subseteq Out /\ faults > 0 /\ late' \subseteq late
  BY <1>1, <1>2, PageFacts DEF Out
<1>4. /\ confs' \in [Ask -> ConfRow \cup {None}] /\ jobs' \in [Ask -> JobRow \cup {None}]
      /\ Known \subseteq Known' /\ Started \subseteq Started' /\ JobsWereApproved'
  <2>1. CASE Effect(k)
    BY <1>3, <2>1, EffectFacts
  <2>2. CASE UNCHANGED <<confs, jobs>>
    BY <2>2 DEF FrontendInv, FrontendTypeOK, JobsWereApproved, Known, Started
  <2>. QED BY <1>1, <2>1, <2>2
<1>5. CallsFit'
  <2>1. CASE Effect(k)
    <3>1. k.decides \/ k \notin Out'
      BY <1>1, <1>2 DEF FrontendInv, CallsFit, Out
    <3>. QED BY <1>1, <1>2, <1>3, <2>1, <3>1, EffectLeavesCallsFit
  <2>2. CASE UNCHANGED <<confs, jobs>>
    BY <1>2, <1>3, <2>2 DEF FrontendInv, CallsFit, Known, Started
  <2>. QED BY <1>1, <2>1, <2>2
<1>6. FrontendTypeOK'
  BY <1>2, <1>3, <1>4 DEF FrontendInv, FrontendTypeOK
<1>7. SlotsAreKnown' /\ KnownJobsAreWatched'
  BY <1>2, <1>4 DEF FrontendInv, SlotsAreKnown, KnownJobsAreWatched
<1>8. RunFits' /\ PollDropsNothing'
  BY <1>2 DEF FrontendInv, RunFits, PollDropsNothing
<1>9. AnswersAreTrue' /\ SlotIsUndecided'
  BY <1>2, <1>3, <1>4 DEF FrontendInv, AnswersAreTrue, SlotIsUndecided
<1>. QED BY <1>4, <1>5, <1>6, <1>7, <1>8, <1>9 DEF FrontendInv

LEMMA JobKeepsInv ==
  ASSUME FrontendInv, JobEnds \/ JobGoesOn
  PROVE  FrontendInv'
<1>1. PICK j \in Started : View!Complete(j) \/ View!Fail(j) \/ View!Start(j)
  BY DEF JobEnds, JobGoesOn, Started
<1>2. /\ UNCHANGED <<confs, late, session, pending, parsed, active, shown,
                      click, run, unseen, due, asks, clicks>>
      /\ faults' \in 0 .. MaxFaults /\ faults' >= faults
  BY PageFacts, FrontendAssumption
     DEF JobEnds, JobGoesOn, MayFail, InBound, pageVars, boundVars
<1>3. jobs' \in [Ask -> JobRow \cup {None}] /\ Started' = Started
  <2>1. jobs \in [Ask -> JobRow \cup {None}] /\ j \in Ask /\ jobs[j] \in JobRow
    BY DEF FrontendInv, FrontendTypeOK, Started
  <2>2. PICK row \in JobRow : jobs' = [jobs EXCEPT ![j] = row]
    <3>1. /\ [jobs[j] EXCEPT !.status = "completed", !.result = TRUE] \in JobRow
          /\ [jobs[j] EXCEPT !.status = "failed"] \in JobRow
          /\ [jobs[j] EXCEPT !.status = "running"] \in JobRow
      BY <2>1 DEF JobRow
    <3>2. jobs' \in {[jobs EXCEPT ![j] = [jobs[j] EXCEPT !.status = "completed",
                                                          !.result = TRUE]],
                     [jobs EXCEPT ![j] = [jobs[j] EXCEPT !.status = "failed"]],
                     [jobs EXCEPT ![j] = [jobs[j] EXCEPT !.status = "running"]]}
      BY <1>1, <2>1 DEF View!Complete, View!Fail, View!Start
    <3>. QED BY <3>1, <3>2
  <2>. QED BY <2>1, <2>2, FrontendAssumption DEF Started
<1>4. Known' = Known /\ Out' = Out
  BY <1>2 DEF Known, Out
<1>5. FrontendTypeOK'
  BY <1>2, <1>3 DEF FrontendInv, FrontendTypeOK
<1>6. JobsWereApproved' /\ SlotsAreKnown' /\ KnownJobsAreWatched'
  BY <1>2, <1>3, <1>4 DEF FrontendInv, JobsWereApproved, SlotsAreKnown, KnownJobsAreWatched
<1>7. CallsFit'
  BY <1>2, <1>3, <1>4, PageFacts DEF FrontendInv, CallsFit
<1>8. RunFits' /\ PollDropsNothing'
  BY <1>2 DEF FrontendInv, RunFits, PollDropsNothing
<1>9. AnswersAreTrue' /\ SlotIsUndecided'
  BY <1>2, <1>3, <1>4, PageFacts DEF FrontendInv, AnswersAreTrue, SlotIsUndecided
<1>. QED BY <1>5, <1>6, <1>7, <1>8, <1>9 DEF FrontendInv

-----------------------------------------------------------------------------
(* The poll *)

\* One job is polled: it is kept, or it has been seen ended.
LEMMA PolledKeepsInv ==
  ASSUME FrontendInv, run.pc = "poll", run.todo # <<>>, NEW ended \in BOOLEAN,
         run'.still = IF ended THEN run.still ELSE Append(run.still, Head(run.todo)),
         run' \in RunState, run'.todo = Tail(run.todo),
         run'.pc = run.pc, run'.call = run.call, run'.got = run.got,
         run'.then = run.then, run'.press = run.press,
         unseen' = IF ended THEN unseen \ {Head(run.todo)} ELSE unseen,
         parsed' \in {parsed, Head(run.todo)},
         due' \subseteq due \cup {Head(run.todo)},
         UNCHANGED <<confs, jobs, late, session, pending, active, shown, click,
                     asks, clicks>>,
         faults' \in 0 .. MaxFaults, faults' >= faults
  PROVE  FrontendInv'
<1>1. /\ Head(run.todo) \in Ask /\ run.still \in Seq(Ask)
      /\ Elements(run.todo) = {Head(run.todo)} \cup Elements(run'.todo)
      /\ Elements(run'.still) = IF ended THEN Elements(run.still)
                                ELSE Elements(run.still) \cup {Head(run.todo)}
  <2>1. run.todo \in Seq(Ask) /\ run.still \in Seq(Ask)
    BY PageFacts DEF RunState
  <2>2. /\ Head(run.todo) \in Ask
        /\ Elements(run.todo) = {Head(run.todo)} \cup Elements(run'.todo)
    BY <2>1, ElementsOfTail
  <2>3. Elements(Append(run.still, Head(run.todo)))
          = Elements(run.still) \cup {Head(run.todo)}
    BY <2>1, <2>2, ElementsOfAppend
  <2>. QED BY <2>1, <2>2, <2>3
<1>2. /\ Elements(run.todo) \cup Elements(run.still) \subseteq Elements(active)
      /\ unseen \subseteq Elements(run.todo) \cup Elements(run.still)
  BY DEF FrontendInv, PollDropsNothing
<1>3. Head(run.todo) \in Started
  BY <1>1, <1>2 DEF FrontendInv, SlotsAreKnown
<1>4. Known' = Known /\ Started' = Started /\ Out' = Out
  BY DEF Known, Started, Out
<1>5. FrontendTypeOK'
  BY <1>3 DEF FrontendInv, FrontendTypeOK, Started
<1>6. JobsWereApproved' /\ SlotsAreKnown' /\ KnownJobsAreWatched'
  BY <1>3, <1>4 DEF FrontendInv, JobsWereApproved, SlotsAreKnown, KnownJobsAreWatched
<1>7. CallsFit'
  BY <1>4, PageFacts DEF FrontendInv, CallsFit
<1>8. RunFits'
  BY DEF FrontendInv, RunFits, Waiting
<1>9. PollDropsNothing'
  BY <1>1, <1>2 DEF PollDropsNothing
<1>10. AnswersAreTrue'
  BY PageFacts DEF FrontendInv, AnswersAreTrue, RunFits, Waiting
<1>11. SlotIsUndecided'
  BY PageFacts DEF FrontendInv, SlotIsUndecided
<1>. QED BY <1>5, <1>6, <1>7, <1>8, <1>9, <1>10, <1>11 DEF FrontendInv

LEMMA PollKeepsInv ==
  ASSUME FrontendInv, Poll \/ PollUnanswered
  PROVE  FrontendInv'
<1>. DEFINE j == Head(run.todo)
<1>1. /\ run.todo \in Seq(Ask) /\ run.still \in Seq(Ask) /\ run.todo # <<>>
      /\ j \in Ask /\ Tail(run.todo) \in Seq(Ask) /\ Append(run.still, j) \in Seq(Ask)
      /\ run.ended \in BOOLEAN
  <2>1. run.todo \in Seq(Ask) /\ run.still \in Seq(Ask) /\ run.todo # <<>>
    BY PageFacts DEF Poll, PollUnanswered, RunState
  <2>2. j \in Ask /\ Tail(run.todo) \in Seq(Ask)
    BY <2>1, ElementsOfTail
  <2>3. Append(run.still, j) \in Seq(Ask)
    BY <2>1, <2>2, ElementsOfAppend
  <2>. QED BY <2>1, <2>2, <2>3, PageFacts DEF RunState
<1>2. CASE Poll
  <2>1. /\ run' = [run EXCEPT !.todo = Tail(@), !.ended = @ \/ Ended(j),
                              !.still = IF Ended(j) THEN @ ELSE Append(@, j)]
        /\ unseen' = IF Ended(j) THEN unseen \ {j} ELSE unseen
        /\ parsed' \in {parsed, j} /\ due' \subseteq due \cup {j}
        /\ UNCHANGED <<confs, jobs, late, session, pending, active, shown, click,
                       asks, clicks, faults>>
        /\ run.pc = "poll" /\ Ended(j) \in BOOLEAN
    BY <1>2 DEF Poll, serverVars, boundVars, Ended
  <2>. HIDE DEF j
  <2>2. /\ run' \in RunState /\ run'.todo = Tail(run.todo)
        /\ run'.still = IF Ended(j) THEN run.still ELSE Append(run.still, j)
        /\ run'.pc = run.pc /\ run'.call = run.call /\ run'.got = run.got
        /\ run'.then = run.then /\ run'.press = run.press
    BY <1>1, <2>1, PageFacts DEF RunState
  <2>. QED BY <1>1, <2>1, <2>2, PageFacts, PolledKeepsInv DEF j
<1>3. CASE PollUnanswered
  <2>1. /\ run' = [run EXCEPT !.todo = Tail(@), !.still = Append(@, j)]
        /\ UNCHANGED <<confs, jobs, late, session, pending, parsed, active,
                       shown, click, unseen, due, asks, clicks>>
        /\ run.pc = "poll"
    BY <1>3 DEF PollUnanswered, serverVars, slotVars
  <2>2. faults' \in 0 .. MaxFaults /\ faults' >= faults
    BY <1>3, PageFacts, FrontendAssumption DEF PollUnanswered, MayFail, InBound
  <2>. HIDE DEF j
  <2>3. /\ run' \in RunState /\ run'.todo = Tail(run.todo)
        /\ run'.still = IF FALSE THEN run.still ELSE Append(run.still, j)
        /\ run'.pc = run.pc /\ run'.call = run.call /\ run'.got = run.got
        /\ run'.then = run.then /\ run'.press = run.press
    BY <1>1, <2>1, PageFacts DEF RunState
  <2>. QED BY <1>1, <2>1, <2>2, <2>3, PolledKeepsInv DEF j
<1>. QED BY <1>2, <1>3

-----------------------------------------------------------------------------

\* Only the dialog on the screen, or the click that waits, is another.
LEMMA ScreenKeepsInv ==
  ASSUME FrontendInv, shown' \in Dialog \cup {None}, click' \in Press \cup {None},
         UNCHANGED <<confs, jobs, late, session, pending, parsed, active, run,
                     asks, clicks, faults, unseen, due>>
  PROVE  FrontendInv'
<1>1. Known' = Known /\ Started' = Started /\ Out' = Out
  BY DEF Known, Started, Out
<1>2. FrontendTypeOK'
  BY DEF FrontendInv, FrontendTypeOK
<1>3. JobsWereApproved' /\ SlotsAreKnown' /\ KnownJobsAreWatched'
  BY <1>1 DEF FrontendInv, JobsWereApproved, SlotsAreKnown, KnownJobsAreWatched
<1>4. CallsFit'
  BY <1>1 DEF FrontendInv, CallsFit
<1>5. RunFits' /\ PollDropsNothing'
  BY DEF FrontendInv, RunFits, PollDropsNothing
<1>6. AnswersAreTrue' /\ SlotIsUndecided'
  BY <1>1 DEF FrontendInv, AnswersAreTrue, SlotIsUndecided
<1>. QED BY <1>2, <1>3, <1>4, <1>5, <1>6 DEF FrontendInv

LEMMA FrontendInitInv == FrontendInit => FrontendInv
<1>. SUFFICES ASSUME FrontendInit PROVE FrontendInv
  OBVIOUS
<1>1. Known = {} /\ Started = {} /\ Out = {}
  BY RestingFacts DEF FrontendInit, Known, Started, Out, Waiting
<1>2. FrontendTypeOK
  <2>1. /\ confs \in [Ask -> ConfRow \cup {None}]
        /\ jobs \in [Ask -> JobRow \cup {None}]
        /\ active \in Seq(Ask) /\ run \in RunState
    BY RestingFacts, ElementsOfEmpty DEF FrontendInit
  <2>2. session \in BOOLEAN
    BY DEF FrontendInit
  <2>3. asks \in 0 .. MaxAsks /\ clicks \in 0 .. MaxClicks /\ faults \in 0 .. MaxFaults
    BY FrontendAssumption DEF FrontendInit
  <2>4. late \subseteq Call /\ unseen \subseteq Ask /\ due \subseteq Ask
    BY DEF FrontendInit
  <2>5. /\ pending \in Ask \cup {None} /\ parsed \in Ask \cup {None}
        /\ shown \in Dialog \cup {None} /\ click \in Press \cup {None}
    BY DEF FrontendInit
  <2>. QED BY <2>1, <2>2, <2>3, <2>4, <2>5 DEF FrontendTypeOK
<1>3. JobsWereApproved /\ SlotsAreKnown /\ KnownJobsAreWatched
  BY <1>1, ElementsOfEmpty
     DEF FrontendInit, JobsWereApproved, SlotsAreKnown, KnownJobsAreWatched
<1>4. CallsFit
  BY <1>1, RestingFacts DEF FrontendInit, CallsFit, Waiting
<1>5. RunFits /\ PollDropsNothing /\ AnswersAreTrue /\ SlotIsUndecided
  BY RestingFacts DEF FrontendInit, RunFits, PollDropsNothing, AnswersAreTrue,
                      SlotIsUndecided, Waiting
<1>. QED BY <1>2, <1>3, <1>4, <1>5 DEF FrontendInv

LEMMA FrontendStepInv ==
  ASSUME FrontendInv, [FrontendNext]_frontVars
  PROVE  FrontendInv'
<1>1. CASE Script
  BY <1>1, ScriptKeepsInv, PollKeepsInv, EndOfPollKeepsInv, SaveKeepsInv,
     DiscardKeepsInv, ChatKeepsInv, DecideKeepsInv, AskAnsweredKeepsInv,
     DecisionAnsweredKeepsInv, SaveAnsweredKeepsInv, ApprovalAnsweredKeepsInv
     DEF Script
<1>2. CASE Answer \/ ServeLate \/ JobEnds
  BY <1>2, GrantKeepsInv, ErrorKeepsInv, ServeLateKeepsInv, JobKeepsInv DEF Answer
<1>3. CASE Fault
  BY <1>3, ErrorKeepsInv, PollKeepsInv, ExceptionKeepsInv, JobKeepsInv DEF Fault
<1>4. CASE OpenChat \/ Logout \/ SendChat
  BY <1>4, ClickKeepsInv
<1>5. ASSUME NEW tool \in Sidebar, AskTool(tool) PROVE FrontendInv'
  BY <1>5, AskToolKeepsInv
<1>6. ASSUME NEW yes \in BOOLEAN, PressButton(yes) PROVE FrontendInv'
  BY <1>6, PageFacts, ScreenKeepsInv
     DEF PressButton, Press, serverVars, slotVars, boundVars
<1>7. CASE Dismiss
  BY <1>7, PageFacts, ScreenKeepsInv DEF Dismiss, serverVars, slotVars, boundVars
<1>8. CASE UNCHANGED frontVars
  BY <1>8, PageFacts, ScreenKeepsInv DEF frontVars
<1>. QED BY <1>1, <1>2, <1>3, <1>4, <1>5, <1>6, <1>7, <1>8 DEF FrontendNext, Recruiter

\* The page and the API agree about every id the page holds and every request
\* that is out, however runs, clicks, answers and time-outs interleave.
THEOREM FrontendInvariant == FrontendSpec => []FrontendInv
  BY FrontendInitInv, FrontendStepInv, PTL DEF FrontendSpec

\* No click, exception or other job's end in the middle of a poll drops a job
\* that the page was told of before it is seen ended (_poll_active_jobs).
THEOREM JobsStayWatched == FrontendSpec => []KnownJobsAreWatched
<1>1. FrontendInv => KnownJobsAreWatched
  BY DEF FrontendInv
<1>. QED BY <1>1, FrontendInvariant, PTL

\* As long as no answer is lost, the confirmation in the slot can be decided.
THEOREM SlotsStayUndecided == FrontendSpec => []SlotIsUndecided
<1>1. FrontendInv => SlotIsUndecided
  BY DEF FrontendInv
<1>. QED BY <1>1, FrontendInvariant, PTL

-----------------------------------------------------------------------------
(* Counting the saves of a result *)

LEMMA SavesAreFinite ==
  ASSUME FrontendInv, NEW j
  PROVE  /\ IsFiniteSet(Ask) /\ Saves(j) \subseteq Ask /\ Saves(j)' \subseteq Ask
         /\ faults \in Nat
<1>1. IsFiniteSet(Ask)
  BY FS_Interval, FrontendAssumption DEF Ask
<1>. QED BY <1>1, PageFacts DEF Saves

LEMMA CountOfLess ==
  ASSUME NEW S, IsFiniteSet(S), NEW T, T \subseteq S
  PROVE  /\ Cardinality(T) \in Nat /\ Cardinality(S) \in Nat
         /\ Cardinality(T) <= Cardinality(S)
         /\ \A c \in S \ T : Cardinality(T) < Cardinality(S)
<1>1. /\ IsFiniteSet(T) /\ Cardinality(T) <= Cardinality(S)
      /\ Cardinality(S) = Cardinality(T) => S = T
  BY FS_Subset
<1>2. Cardinality(T) \in Nat /\ Cardinality(S) \in Nat
  BY <1>1, FS_CardinalityType
<1>. QED BY <1>1, <1>2

LEMMA CountOfOneMore ==
  ASSUME NEW S, IsFiniteSet(S), NEW c, NEW T, T \subseteq S \cup {c}
  PROVE  /\ Cardinality(T) \in Nat /\ Cardinality(S) \in Nat
         /\ Cardinality(T) <= Cardinality(S) + 1
<1>1. /\ IsFiniteSet(S \cup {c}) /\ Cardinality(S) \in Nat
      /\ Cardinality(S \cup {c}) \in {Cardinality(S), Cardinality(S) + 1}
  BY FS_AddElement, FS_CardinalityType
<1>2. Cardinality(T) \in Nat /\ Cardinality(T) <= Cardinality(S \cup {c})
  BY <1>1, CountOfLess
<1>. QED BY <1>1, <1>2

\* The ways in which a step may change what a result may still cost.
LEMMA StillPaid ==
  ASSUME FrontendInv, NEW j \in Ask, Paid(j), faults' \in Nat, faults' >= faults,
         \/ /\ Saves(j)' \subseteq Saves(j)
            /\ \/ (Asked(j)' => Asked(j)) /\ (MayBeAsked(j)' => MayBeAsked(j))
               \/ /\ faults' > faults
                  /\ (Asked(j)' => Asked(j)) \/ (MayBeAsked(j)' => MayBeAsked(j))
               \/ MayBeAsked(j) /\ ~MayBeAsked(j)'
         \/ /\ \E c \in Saves(j) : Saves(j)' \subseteq Saves(j) \ {c}
            /\ (Asked(j)' => Asked(j)) \/ (MayBeAsked(j)' => MayBeAsked(j))
         \/ /\ \E c \in Ask : Saves(j)' \subseteq Saves(j) \cup {c}
            /\ Asked(j) /\ ~Asked(j)' /\ (MayBeAsked(j)' => MayBeAsked(j))
         \/ Saves(j)' = {} /\ ~(Asked(j)' /\ MayBeAsked(j)')
  PROVE  Paid(j)'
<1>. DEFINE n == Cardinality(Saves(j))
            m == Cardinality(Saves(j)')
            a == IF Asked(j) THEN 1 ELSE 0
            b == IF MayBeAsked(j) THEN 1 ELSE 0
            x == IF Asked(j)' THEN 1 ELSE 0
            y == IF MayBeAsked(j)' THEN 1 ELSE 0
<1>1. IsFiniteSet(Saves(j)) /\ IsFiniteSet(Saves(j)') /\ faults \in Nat
  BY SavesAreFinite, FS_Subset
<1>2. n + a + b <= 1 + faults
  BY DEF Paid
<1>3. n \in Nat /\ m \in Nat
  BY <1>1, FS_CardinalityType
<1>4. {a, b, x, y} \subseteq {0, 1}
  OBVIOUS
<1>5. SUFFICES m + x + y <= 1 + faults'
  BY DEF Paid
<1>6. CASE Saves(j)' \subseteq Saves(j)
  <2>1. m <= n
    BY <1>1, <1>6, CountOfLess
  <2>2. CASE (Asked(j)' => Asked(j)) /\ (MayBeAsked(j)' => MayBeAsked(j))
    <3>1. x <= a /\ y <= b
      BY <2>2
    <3>. HIDE DEF n, m, a, b, x, y
    <3>. QED BY <1>1, <1>2, <1>3, <1>4, <2>1, <3>1
  <2>3. CASE /\ faults' > faults
             /\ (Asked(j)' => Asked(j)) \/ (MayBeAsked(j)' => MayBeAsked(j))
    <3>1. x <= a \/ y <= b
      BY <2>3
    <3>. HIDE DEF n, m, a, b, x, y
    <3>. QED BY <1>1, <1>2, <1>3, <1>4, <2>1, <2>3, <3>1
  <2>4. CASE MayBeAsked(j) /\ ~MayBeAsked(j)'
    <3>1. b = 1 /\ y = 0
      BY <2>4
    <3>. HIDE DEF n, m, a, b, x, y
    <3>. QED BY <1>1, <1>2, <1>3, <1>4, <2>1, <3>1
  <2>5. CASE /\ \E c \in Saves(j) : Saves(j)' \subseteq Saves(j) \ {c}
             /\ (Asked(j)' => Asked(j)) \/ (MayBeAsked(j)' => MayBeAsked(j))
    <3>1. m < n
      BY <1>1, <1>6, <2>5, CountOfLess
    <3>2. x <= a \/ y <= b
      BY <2>5
    <3>. HIDE DEF n, m, a, b, x, y
    <3>. QED BY <1>1, <1>2, <1>3, <1>4, <3>1, <3>2
  <2>6. CASE Asked(j) /\ ~Asked(j)' /\ (MayBeAsked(j)' => MayBeAsked(j))
    <3>1. a = 1 /\ x = 0 /\ y <= b
      BY <2>6
    <3>. HIDE DEF n, m, a, b, x, y
    <3>. QED BY <1>1, <1>2, <1>3, <1>4, <2>1, <3>1
  <2>7. CASE Saves(j)' = {} /\ ~(Asked(j)' /\ MayBeAsked(j)')
    <3>1. m = 0
      BY <2>7, FS_EmptySet
    <3>2. x = 0 \/ y = 0
      BY <2>7
    <3>. HIDE DEF n, m, a, b, x, y
    <3>. QED BY <1>1, <1>4, <3>1, <3>2
  <2>. QED BY <1>6, <2>2, <2>3, <2>4, <2>5, <2>6, <2>7
<1>7. CASE ~(Saves(j)' \subseteq Saves(j))
  <2>1. PICK c \in Ask : Saves(j)' \subseteq Saves(j) \cup {c}
    BY <1>7
  <2>2. m <= n + 1
    BY <1>1, <2>1, CountOfOneMore
  <2>3. a = 1 /\ x = 0 /\ y <= b
    BY <1>7
  <2>. HIDE DEF n, m, a, b, x, y
  <2>. QED BY <1>1, <1>2, <1>3, <1>4, <2>2, <2>3
<1>. QED BY <1>6, <1>7

-----------------------------------------------------------------------------
(* Lists without repetitions *)

LEMMA EmptyIsDistinct == Distinct(<<>>)
  BY DEF Distinct

LEMMA AppendIsDistinct ==
  ASSUME NEW q \in Seq(Ask), Distinct(q), NEW e \in Ask, e \notin Elements(q)
  PROVE  Distinct(Append(q, e))
<1>1. /\ DOMAIN q = 1 .. Len(q) /\ Len(q) \in Nat
      /\ DOMAIN Append(q, e) = 1 .. Len(q) + 1
      /\ \A i \in 1 .. Len(q) : Append(q, e)[i] = q[i]
      /\ Append(q, e)[Len(q) + 1] = e
  OBVIOUS
<1>2. \A i \in 1 .. Len(q) : q[i] # e
  BY <1>1 DEF Elements
<1>. QED BY <1>1, <1>2 DEF Distinct

LEMMA TailIsDistinct ==
  ASSUME NEW q \in Seq(Ask), q # <<>>, Distinct(q)
  PROVE  Distinct(Tail(q)) /\ Head(q) \notin Elements(Tail(q))
<1>1. /\ Head(q) = q[1] /\ Len(q) \in Nat \ {0}
      /\ Tail(q) \in Seq(Ask) /\ Len(Tail(q)) = Len(q) - 1
      /\ \A i \in 1 .. Len(Tail(q)) : Tail(q)[i] = q[i + 1]
  BY HeadTailProperties
<1>2. DOMAIN q = 1 .. Len(q) /\ DOMAIN Tail(q) = 1 .. Len(q) - 1
  BY <1>1
<1>3. ASSUME NEW i \in DOMAIN Tail(q)
      PROVE  i + 1 \in DOMAIN q /\ Tail(q)[i] = q[i + 1] /\ i + 1 # 1 /\ i \in Nat
  BY <1>1, <1>2
<1>4. Distinct(Tail(q))
  <2>. SUFFICES ASSUME NEW i \in DOMAIN Tail(q), NEW k \in DOMAIN Tail(q),
                       Tail(q)[i] = Tail(q)[k]
                PROVE  i = k
    BY DEF Distinct
  <2>1. i + 1 = k + 1
    BY <1>3 DEF Distinct
  <2>. QED BY <1>3, <2>1
<1>5. 1 \in DOMAIN q
  BY <1>1, <1>2
<1>6. Head(q) \notin Elements(Tail(q))
  BY <1>1, <1>3, <1>5 DEF Distinct, Elements
<1>. QED BY <1>4, <1>6

-----------------------------------------------------------------------------
(* The steps that send nothing *)

\* Where nothing is inserted, saves are lost at most: the one of a request that
\* is given up.
LEMMA SavesAreLost ==
  ASSUME FrontendInv, SavesInv, UNCHANGED confs, late' \subseteq Out,
         Anew(run', active'), NEW j \in Ask
  PROVE  /\ Saves(j)' \subseteq Saves(j)
         /\ run.pc = "saving" /\ run.call.of = j =>
              /\ run.call.conf \in Saves(j)
              /\ Saves(j)' \subseteq Saves(j) \ {run.call.conf}
<1>1. Out' \subseteq Out /\ run'.pc \notin Waiting
  BY DEF Anew, Out
<1>2. Saves(j)' \subseteq Saves(j)
  BY <1>1 DEF Saves, Waiting
<1>3. ASSUME run.pc = "saving", run.call.of = j
      PROVE  run.call.conf \in Saves(j) /\ run.call.conf \notin Saves(j)'
  <2>1. run.call \in Call /\ run.call.conf \in Ask /\ ~run.call.decides
    BY <1>3, PageFacts DEF FrontendInv, RunFits, RunState, Call, Waiting
  <2>2. run.call.conf \in Saves(j)
    BY <1>3, <2>1 DEF Saves
  <2>3. confs[run.call.conf] # None => confs[run.call.conf].status = "pending"
    BY <1>3, <2>1 DEF SavesInv, SavingIsUndecided, Known
  <2>4. \A k \in Out' : k.decides => k.conf # run.call.conf
    BY <1>1, <1>3, <2>1 DEF SavesInv, SavingIsUndecided, Out
  <2>. QED BY <1>1, <2>2, <2>3, <2>4 DEF Saves, Waiting
<1>. QED BY <1>2, <1>3

\* What a new run asks for, and what may be asked for again in it.
LEMMA QuietKeepsSaves ==
  ASSUME FrontendInv, SavesInv,
         UNCHANGED <<confs, jobs, pending, parsed, active>>,
         late' \subseteq Out, Anew(run', active),
         faults' \in Nat, faults' >= faults,
         \/ faults' > faults
         \/ /\ run.pc # "approving"
            /\ run.pc \in {"asking", "poll"} => run'.pc = "poll"
  PROVE  SavesInv'
<1>1. /\ run'.pc \notin Waiting /\ run'.got = "none" /\ run'.still = <<>>
      /\ run'.todo = IF run'.pc = "poll" THEN active ELSE <<>>
  BY DEF Anew
<1>2. RowsAreAsSent' /\ SavingIsUndecided' /\ ApprovalsAreNew'
  BY <1>1 DEF SavesInv, RowsAreAsSent, SavingIsUndecided, ApprovalsAreNew, Known,
              Started, Waiting
<1>3. JobsAreListedOnce'
  BY <1>1, EmptyIsDistinct, ElementsOfEmpty DEF SavesInv, JobsAreListedOnce
<1>4. ASSUME NEW j \in Ask PROVE Paid(j)'
  <2>1. /\ Paid(j) /\ Saves(j)' \subseteq Saves(j)
        /\ run.pc = "saving" /\ run.call.of = j =>
             /\ run.call.conf \in Saves(j)
             /\ Saves(j)' \subseteq Saves(j) \ {run.call.conf}
    BY <1>4, SavesAreLost DEF SavesInv
  <2>2. CASE run.pc = "saving"
    <3>1. MayBeAsked(j)' => MayBeAsked(j)
      BY <1>1, <2>2 DEF MayBeAsked
    <3>2. Asked(j)' => run.call.of = j
      BY <2>2 DEF Asked, SavesInv, SavingIsUndecided
    <3>. QED BY <2>1, <2>2, <3>1, <3>2, StillPaid
  <2>3. CASE run.pc = "approving"
    <3>1. faults' > faults /\ (MayBeAsked(j)' => MayBeAsked(j))
      BY <1>1, <2>3 DEF MayBeAsked
    <3>. QED BY <2>1, <3>1, StillPaid
  <2>4. CASE run.pc \notin {"saving", "approving"}
    <3>1. Asked(j)' => Asked(j)
      BY <2>4 DEF Asked
    <3>2. faults' > faults \/ (MayBeAsked(j)' => MayBeAsked(j))
      <4>1. CASE ~(faults' > faults)
        <5>1. run.pc \in {"asking", "poll"} => run'.pc = "poll"
          BY <4>1
        <5>2. Ended(j)' = Ended(j) /\ run'.still = <<>>
          BY <1>1 DEF Ended
        <5>. QED BY <5>1, <5>2, ElementsOfEmpty DEF MayBeAsked
      <4>. QED BY <4>1
    <3>. QED BY <2>1, <3>1, <3>2, StillPaid
  <2>. QED BY <2>2, <2>3, <2>4
<1>. QED BY <1>2, <1>3, <1>4 DEF SavesInv

LEMMA QuietStepsKeepSaves ==
  ASSUME FrontendInv, SavesInv,
         \/ OpenChat \/ Logout \/ SendChat
         \/ Wake \/ RunFragment \/ Draw \/ PollRaises \/ TimeOut
  PROVE  SavesInv'
<1>1. CASE OpenChat \/ Logout \/ SendChat
  <2>1. \E then \in {"auto", "chat", "logout"} : Rerun(then, active)
    BY <1>1 DEF OpenChat, Logout, SendChat
  <2>2. Anew(run', active) /\ run'.pc = "poll"
    BY <2>1, RunsStartOver, RestingFacts DEF Rerun, RunFor, RunState
  <2>3. /\ faults' \in Nat /\ faults' >= faults
        /\ run.pc = "approving" => faults' > faults
    BY <1>1, PageFacts, FrontendAssumption
       DEF OpenChat, Logout, SendChat, ClickAround, Waiting
  <2>4. UNCHANGED <<confs, jobs, late, pending, parsed, active>>
    BY <1>1 DEF OpenChat, Logout, SendChat, serverVars, slotVars
  <2>. QED BY <2>2, <2>3, <2>4, PageFacts, QuietKeepsSaves
<1>2. CASE Wake \/ RunFragment \/ Draw
  <2>1. Anew(run', active)
    <3>1. CASE Wake
      BY <3>1, RunsStartOver DEF Wake
    <3>2. CASE RunFragment
      BY <3>2, PageFacts, FragmentIsAnew DEF RunFragment
    <3>3. CASE Draw
      BY <3>3, AfterDialogIsAnew DEF Draw
    <3>. QED BY <1>2, <3>1, <3>2, <3>3
  <2>2. /\ UNCHANGED <<confs, jobs, late, faults, pending, parsed, active>>
        /\ run.pc \notin {"approving", "asking", "poll"}
    BY <1>2 DEF Wake, RunFragment, Draw, serverVars, slotVars, boundVars
  <2>. QED BY <2>1, <2>2, PageFacts, QuietKeepsSaves
<1>3. CASE PollRaises \/ TimeOut
  <2>1. Anew(run', active)
    BY <1>3, RestingIsAnew DEF PollRaises, TimeOut
  <2>2. faults' \in Nat /\ faults' > faults
    BY <1>3, PageFacts DEF PollRaises, TimeOut
  <2>3. late' \subseteq Out
    BY <1>3, PageFacts DEF PollRaises, TimeOut, serverVars, Out
  <2>4. UNCHANGED <<confs, jobs, pending, parsed, active>>
    BY <1>3 DEF PollRaises, TimeOut, serverVars, slotVars
  <2>. QED BY <2>1, <2>2, <2>3, <2>4, PageFacts, QuietKeepsSaves
<1>. QED BY <1>1, <1>2, <1>3

\* What an answer or the end of a poll stores in the slots.
LEMMA StoredKeepsSaves ==
  ASSUME FrontendInv, SavesInv,
         UNCHANGED <<confs, jobs, late, faults>>, Anew(run', active'),
         run.pc # "saving", Distinct(active'),
         pending' # None => confs[pending'].of = None,
         \A j \in Ask :
           \/ (Asked(j)' => Asked(j)) /\ (MayBeAsked(j)' => MayBeAsked(j))
           \/ Saves(j) = {} /\ ~Asked(j)'
  PROVE  SavesInv'
<1>1. /\ run'.pc \notin Waiting /\ run'.got = "none" /\ run'.still = <<>>
      /\ run'.todo = IF run'.pc = "poll" THEN active' ELSE <<>>
  BY DEF Anew
<1>2. RowsAreAsSent' /\ SavingIsUndecided' /\ ApprovalsAreNew'
  BY <1>1 DEF SavesInv, RowsAreAsSent, SavingIsUndecided, ApprovalsAreNew, Known,
              Started, Waiting
<1>3. JobsAreListedOnce'
  BY <1>1, EmptyIsDistinct, ElementsOfEmpty DEF SavesInv, JobsAreListedOnce
<1>4. ASSUME NEW j \in Ask PROVE Paid(j)'
  <2>1. Paid(j) /\ Saves(j)' \subseteq Saves(j) /\ faults' \in Nat /\ faults' >= faults
    BY <1>4, PageFacts, SavesAreLost DEF SavesInv
  <2>. QED BY <1>4, <2>1, StillPaid
<1>. QED BY <1>2, <1>3, <1>4 DEF SavesInv

LEMMA EndOfPollKeepsSaves ==
  ASSUME FrontendInv, SavesInv, EndPollAtOnce \/ EndPoll \/ EndLogout
  PROVE  SavesInv'
<1>1. /\ run.pc = "poll" /\ run.todo = <<>>
      /\ UNCHANGED <<confs, jobs, late, faults>>
  BY DEF EndPollAtOnce, EndPoll, EndLogout, PollEnds, serverVars, boundVars
<1>2. CASE EndPollAtOnce
  <2>1. active' = <<>> /\ UNCHANGED <<pending, parsed>> /\ Rerun("auto", <<>>)
    BY <1>2 DEF EndPollAtOnce
  <2>2. Anew(run', active')
    BY <2>1, PageFacts, RunForIsAnew, ElementsOfEmpty DEF Rerun
  <2>3. \A j \in Ask : (Asked(j)' => Asked(j)) /\ ~MayBeAsked(j)'
    BY <1>1, <2>1, ElementsOfEmpty DEF Asked, MayBeAsked
  <2>. QED BY <1>1, <2>1, <2>2, <2>3, EmptyIsDistinct, StoredKeepsSaves
           DEF SavesInv, RowsAreAsSent
<1>3. CASE EndPoll
  <2>1. /\ UNCHANGED <<pending, parsed>> /\ active' = run.still
        /\ run' = [run EXCEPT !.pc = "dialog", !.still = <<>>, !.ended = FALSE]
    BY <1>3 DEF EndPoll
  <2>2. run.call = None /\ run.got = "none" /\ (run.then = "fragment" => run.press # None)
    BY <1>1 DEF FrontendInv, RunFits, Waiting
  <2>3. /\ run' \in RunState /\ run'.call = None /\ run'.got = "none"
        /\ run'.pc = "dialog" /\ run'.then = run.then /\ run'.press = run.press
        /\ run'.todo = <<>> /\ run'.still = <<>>
    BY <1>1, <2>1, <2>2, PageFacts, ElementsOfEmpty DEF RunState
  <2>4. Anew(run', active')
    BY <2>2, <2>3 DEF Anew, Waiting
  <2>5. Elements(run.still) \subseteq Elements(active)
    BY <1>1 DEF FrontendInv, PollDropsNothing
  <2>6. \A j \in Ask : (Asked(j)' => Asked(j)) /\ (MayBeAsked(j)' => MayBeAsked(j))
    BY <1>1, <2>1, <2>3, <2>5 DEF Asked, MayBeAsked
  <2>. QED BY <1>1, <2>1, <2>4, <2>6, StoredKeepsSaves
           DEF SavesInv, RowsAreAsSent, JobsAreListedOnce
<1>4. CASE EndLogout
  <2>1. active' = <<>> /\ pending' = None /\ parsed' = None /\ run' = Resting
    BY <1>4 DEF EndLogout
  <2>2. Anew(run', active')
    BY <2>1, RestingFacts DEF Anew, Waiting
  <2>3. \A j \in Ask : ~Asked(j)' /\ ~MayBeAsked(j)'
    BY <2>1, ElementsOfEmpty, FrontendAssumption DEF Asked, MayBeAsked
  <2>. QED BY <1>1, <2>1, <2>2, <2>3, EmptyIsDistinct, StoredKeepsSaves
<1>. QED BY <1>2, <1>3, <1>4

\* The slot is emptied, or left, and a new run polls the list.
LEMMA SettledKeepsSaves ==
  ASSUME FrontendInv, SavesInv, UNCHANGED <<confs, jobs, late, faults>>,
         Rerun("auto", active'), run.pc \notin {"poll", "saving"},
         pending' # None => confs[pending'].of = None,
         parsed' \in {parsed, None}, run.pc = "approving" => parsed' = None,
         run.pc = "asking" => parsed' = parsed,
         \/ active' = active
         \/ /\ run.pc \in {"deciding", "approving"} /\ run.got = "ok"
            /\ run.call.decides /\ run.call.yes
            /\ active' = Append(active, run.call.conf)
  PROVE  SavesInv'
<1>1. active' \in Seq(Ask) /\ active \in Seq(Ask)
  <2>1. CASE active' = active
    BY <2>1, PageFacts
  <2>2. CASE active' # active
    <3>1. run.call \in Call /\ run.call.conf \in Ask
      BY <2>2, PageFacts DEF FrontendInv, RunFits, RunState, Call, Waiting
    <3>. QED BY <2>2, <3>1, PageFacts, ElementsOfAppend
  <2>. QED BY <2>1, <2>2
<1>2. Anew(run', active') /\ run'.still = <<>> /\ run'.pc = "poll"
  <2>1. run' = RunFor("auto", click, active')
    BY DEF Rerun
  <2>2. Anew(run', active')
    BY <1>1, <2>1, PageFacts, RunForIsAnew
  <2>3. run'.pc = "poll"
    BY <2>1, RestingFacts DEF RunFor, RunState
  <2>. QED BY <2>2, <2>3 DEF Anew
<1>3. ASSUME NEW j \in Ask PROVE Asked(j)' => Asked(j)
  BY <1>3, FrontendAssumption DEF Asked
<1>4. ASSUME NEW j \in Elements(active), MayBeAsked(j)' PROVE MayBeAsked(j)
  <2>1. Ended(j)' = Ended(j)
    BY DEF Ended
  <2>2. CASE run.pc # "asking" \/ parsed # j
    BY <2>2 DEF MayBeAsked
  <2>3. CASE run.pc = "asking" /\ parsed = j
    <3>1. parsed' = j /\ j \notin Elements(run'.still) /\ run'.pc = "poll"
      BY <1>2, <2>3, ElementsOfEmpty
    <3>2. ~Ended(j)
      BY <1>4, <2>1, <3>1 DEF MayBeAsked
    <3>. QED BY <3>2 DEF MayBeAsked
  <2>. QED BY <2>2, <2>3
<1>5. CASE active' = active
  <2>1. \A j \in Ask : MayBeAsked(j)' => MayBeAsked(j)
    BY <1>4, <1>5 DEF MayBeAsked
  <2>. QED BY <1>2, <1>3, <1>5, <2>1, StoredKeepsSaves DEF SavesInv, JobsAreListedOnce
<1>6. CASE active' # active
  <2>1. /\ run.pc \in {"deciding", "approving"} /\ run.got = "ok"
        /\ run.call.decides /\ run.call.yes
        /\ active' = Append(active, run.call.conf)
    BY <1>6
  <2>2. PICK n \in Ask : n = run.call.conf
    BY <2>1, PageFacts DEF FrontendInv, RunFits, RunState, Call, Waiting
  <2>3. /\ n \notin Elements(active) /\ n # parsed
        /\ \A c \in Known : confs[c].of # n
    BY <2>1, <2>2 DEF SavesInv, ApprovalsAreNew
  <2>4. Elements(active') = Elements(active) \cup {n} /\ Distinct(active')
    BY <1>1, <2>1, <2>2, <2>3, ElementsOfAppend, AppendIsDistinct
       DEF SavesInv, JobsAreListedOnce
  <2>5. Saves(n) = {}
    BY <2>1, <2>3 DEF Saves, Known
  <2>6. ~Asked(n)'
    BY <2>2, <2>3, FrontendAssumption DEF Asked
  <2>7. ASSUME NEW j \in Ask, j # n PROVE MayBeAsked(j)' => MayBeAsked(j)
    BY <1>4, <2>4, <2>7 DEF MayBeAsked
  <2>8. \A j \in Ask :
           \/ (Asked(j)' => Asked(j)) /\ (MayBeAsked(j)' => MayBeAsked(j))
           \/ Saves(j) = {} /\ ~Asked(j)'
    BY <1>3, <2>5, <2>6, <2>7
  <2>9. run.pc # "saving"
    OBVIOUS
  <2>. QED BY <1>2, <2>4, <2>8, <2>9, StoredKeepsSaves
<1>. QED BY <1>5, <1>6

LEMMA AnswersKeepSaves ==
  ASSUME FrontendInv, SavesInv,
         \/ AskAnswered \/ ChatAnswered \/ DecisionAnswered \/ ApprovalAnswered
         \/ Discard \/ (SaveAnswered /\ run.got # "ok")
  PROVE  SavesInv'
<1>1. /\ UNCHANGED <<confs, jobs, late, faults>>
      /\ pending # None => confs[pending].of = None
  BY DEF AskAnswered, ChatAnswered, DecisionAnswered, ApprovalAnswered, Discard,
         SaveAnswered, serverVars, boundVars, SavesInv, RowsAreAsSent
<1>2. CASE Discard
  <2>1. /\ UNCHANGED <<pending, active>> /\ parsed' = None /\ Rerun("auto", active')
        /\ run.pc = "dialog"
    BY <1>2 DEF Discard, Settle, Pressed
  <2>. QED BY <1>1, <2>1, SettledKeepsSaves
<1>3. CASE ApprovalAnswered
  <2>1. /\ pending' = pending /\ parsed' = None /\ Rerun("auto", active')
        /\ run.pc = "approving" /\ run.call.decides /\ run.call.yes
        /\ \/ active' = active
           \/ run.got = "ok" /\ active' = Append(active, run.call.conf)
    BY <1>3 DEF ApprovalAnswered, Settle, Answered, Track, FrontendInv, RunFits
  <2>. QED BY <1>1, <2>1, SettledKeepsSaves
<1>4. CASE DecisionAnswered /\ run.got = "ok"
  <2>1. /\ pending' = None /\ parsed' = parsed /\ Rerun("auto", active')
        /\ run.pc = "deciding" /\ run.call.decides
        /\ active' = active \/ (run.call.yes /\ active' = Append(active, run.call.conf))
    BY <1>4 DEF DecisionAnswered, Answered, Track, FrontendInv, RunFits
  <2>. QED BY <1>1, <1>4, <2>1, SettledKeepsSaves
<1>5. CASE (AskAnswered \/ ChatAnswered) /\ run.got = "ok"
  <2>1. /\ pending' = run.call.conf /\ UNCHANGED <<parsed, active>>
        /\ Rerun("auto", active') /\ run.pc \in {"asking", "chatting"}
    BY <1>5 DEF AskAnswered, ChatAnswered, Answered
  <2>2. confs[pending'].of = None
    BY <1>5, <2>1 DEF FrontendInv, AnswersAreTrue, SavesInv, RowsAreAsSent
  <2>. QED BY <1>1, <2>1, <2>2, SettledKeepsSaves
<1>6. CASE AskAnswered /\ run.got # "ok"
  <2>1. /\ UNCHANGED <<pending, parsed, active>> /\ run.pc = "asking"
        /\ run' = RunFor("auto", run.press, active)
    BY <1>6 DEF AskAnswered, Answered
  <2>2. Anew(run', active)
    BY <2>1, PageFacts, RunForIsAnew
  <2>3. run'.pc = "poll"
    BY <2>1, RestingFacts DEF RunFor, RunState
  <2>. QED BY <1>1, <2>1, <2>2, <2>3, PageFacts, QuietKeepsSaves
<1>7. CASE (ChatAnswered \/ DecisionAnswered \/ SaveAnswered) /\ run.got # "ok"
  <2>1. /\ UNCHANGED <<pending, parsed, active>>
        /\ run.pc \in {"chatting", "deciding", "saving"}
        /\ run' \in {Finished, AfterDialog}
    BY <1>7 DEF ChatAnswered, DecisionAnswered, SaveAnswered, Answered, slotVars
  <2>2. Anew(run', active)
    BY <2>1, FinishedIsAnew, AfterDialogIsAnew
  <2>. QED BY <1>1, <2>1, <2>2, PageFacts, QuietKeepsSaves
<1>. QED BY <1>2, <1>3, <1>4, <1>5, <1>6, <1>7

-----------------------------------------------------------------------------
(* The steps that send a request *)

\* A request makes a save more at most: the one that it inserts or approves.
LEMMA SavesOfSent ==
  ASSUME UNCHANGED <<confs, late>>, NEW j \in Ask, NEW c \in Saves(j)'
  PROVE  \/ c \in Saves(j)
         \/ /\ run'.pc \in Waiting /\ run'.got = "none" /\ c = run'.call.conf
            /\ run'.call.decides /\ confs[c] # None /\ confs[c].of = j
         \/ run'.pc = "saving" /\ c = run'.call.conf /\ run'.call.of = j
<1>1. c \in Ask /\ late \subseteq Out
  BY DEF Saves, Out
<1>2. CASE run'.pc = "saving" /\ run'.call.conf = c /\ run'.call.of = j
  BY <1>2
<1>3. CASE confs[c] # None /\ confs[c].of = j /\ confs[c].status = "approved"
  BY <1>1, <1>3 DEF Saves
<1>4. ASSUME confs[c] # None, confs[c].of = j,
             NEW k \in Out', k.decides, k.yes, k.conf = c
      PROVE  \/ c \in Saves(j)
             \/ run'.pc \in Waiting /\ run'.got = "none" /\ run'.call = k
  <2>1. CASE k \in late
    BY <1>1, <1>4, <2>1 DEF Saves
  <2>2. CASE k \notin late
    BY <1>4, <2>2 DEF Out
  <2>. QED BY <2>1, <2>2
<1>. QED BY <1>2, <1>3, <1>4 DEF Saves

\* A request is sent in the place of what the run was doing.
LEMMA SentKeepsSaves ==
  ASSUME FrontendInv, SavesInv,
         UNCHANGED <<confs, jobs, late, pending, parsed, active>>,
         faults' \in Nat, faults' >= faults, NEW k, Fits(k),
         run'.call = k, run'.got = "none", run'.todo = <<>>, run'.still = <<>>,
         run'.pc \in {"asking", "chatting"} => k.of = None,
         run'.pc \in {"asking", "chatting", "saving"} => ~k.decides,
         run'.pc = "saving" => parsed # None /\ k.of = parsed,
         run'.pc # "asking" => run.pc \notin {"asking", "poll"} /\ run'.pc # "poll",
         \A j \in Ask :
           \/ /\ Saves(j)' \subseteq Saves(j)
              /\ faults' > faults \/ (Asked(j)' => Asked(j))
           \/ /\ Saves(j)' \subseteq Saves(j) \cup {k.conf}
              /\ Asked(j) /\ ~Asked(j)'
  PROVE  SavesInv'
<1>1. Known' = Known /\ Started' = Started
  BY DEF Known, Started
<1>2. /\ late \subseteq Out /\ \A l \in Out : l.conf \in Nat /\ l.conf <= asks
      /\ Known \subseteq 1 .. asks /\ asks \in Nat /\ k.conf \in Ask
  BY PageFacts DEF FrontendInv, FrontendTypeOK, CallsFit, Out, Call, Ask, Fits,
                   RunFits, RunState
<1>3. ASSUME ~k.decides
      PROVE  k.conf \notin Known /\ \A l \in late : l.conf # k.conf
  <2>1. k.conf = asks + 1
    BY <1>3 DEF Fits
  <2>. QED BY <1>2, <2>1
<1>4. RowsAreAsSent'
  BY <1>1, <1>3 DEF SavesInv, RowsAreAsSent
<1>5. SavingIsUndecided' /\ ApprovalsAreNew'
  BY <1>1, <1>3 DEF SavingIsUndecided, ApprovalsAreNew
<1>6. JobsAreListedOnce'
  BY EmptyIsDistinct, ElementsOfEmpty DEF SavesInv, JobsAreListedOnce
<1>7. ASSUME NEW j \in Ask PROVE Paid(j)'
  <2>1. MayBeAsked(j)' => MayBeAsked(j)
    <3>1. Ended(j)' = Ended(j)
      BY DEF Ended
    <3>2. CASE run'.pc = "asking"
      BY <3>1, <3>2, ElementsOfEmpty DEF MayBeAsked
    <3>3. CASE run'.pc # "asking"
      BY <3>3 DEF MayBeAsked
    <3>. QED BY <3>2, <3>3
  <2>2. Paid(j)
    BY DEF SavesInv
  <2>. QED BY <1>2, <1>7, <2>1, <2>2, StillPaid
<1>. QED BY <1>4, <1>5, <1>6, <1>7 DEF SavesInv

LEMMA DecideKeepsSaves ==
  ASSUME FrontendInv, SavesInv, NEW yes \in BOOLEAN, Decide(yes)
  PROVE  SavesInv'
<1>. DEFINE k == Decision(pending, yes)
<1>1. /\ UNCHANGED <<confs, jobs, late, pending, parsed, active, faults>>
      /\ run.pc = "dialog" /\ Send("deciding", k)
      /\ Called # None /\ Called.kind = "confirm"
  BY DEF Decide, Pressed, serverVars, slotVars, boundVars
<1>2. pending \in Known /\ confs[pending].of = None
  BY <1>1 DEF Called, FrontendInv, SlotsAreKnown, SavesInv, RowsAreAsSent
<1>3. Fits(k) /\ k \in Call /\ k.decides /\ k.conf = pending
  BY <1>2, DecisionFits DEF Fits, Decision
<1>4. /\ run'.call = k /\ run'.pc = "deciding" /\ run'.got = "none"
      /\ run'.todo = <<>> /\ run'.still = <<>>
  BY <1>1, <1>3, SendType DEF Waiting, FrontendInv, PollDropsNothing
<1>. HIDE DEF k
<1>5. ASSUME NEW j \in Ask PROVE Saves(j)' \subseteq Saves(j)
  BY <1>1, <1>2, <1>3, <1>4, <1>5, SavesOfSent, FrontendAssumption
<1>6. \A j \in Ask : Asked(j)' => Asked(j)
  BY <1>1 DEF Asked
<1>. QED BY <1>1, <1>3, <1>4, <1>5, <1>6, PageFacts, SentKeepsSaves

LEMMA SaveKeepsSaves ==
  ASSUME FrontendInv, SavesInv, Save
  PROVE  SavesInv'
<1>. DEFINE k == Insertion(asks + 1, "cv_save", parsed)
<1>1. /\ UNCHANGED <<confs, jobs, late, pending, parsed, active, faults>>
      /\ asks' = asks + 1 /\ MayAsk
      /\ run.pc = "dialog" /\ Send("saving", k)
      /\ Called # None /\ Called.kind = "save"
  BY DEF Save, CanSave, Pressed, serverVars, slotVars
<1>2. parsed # None
  <2>1. CASE run.then # "fragment"
    BY <1>1, <2>1 DEF Called
  <2>2. CASE run.then = "fragment"
    BY <1>1, <2>2 DEF Called
  <2>. QED BY <2>1, <2>2
<1>3. Fits(k) /\ k \in Call /\ ~k.decides /\ k.of = parsed
  <2>1. parsed \in Started \cup {None} /\ "cv_save" \in PageTool
    BY DEF FrontendInv, SlotsAreKnown, PageTool
  <2>2. Fits(k)
    BY <1>1, <2>1, InsertionFits
  <2>. QED BY <2>2 DEF Fits, Insertion
<1>4. /\ run'.call = k /\ run'.pc = "saving" /\ run'.got = "none"
      /\ run'.todo = <<>> /\ run'.still = <<>>
  BY <1>1, <1>3, SendType DEF Waiting, FrontendInv, PollDropsNothing
<1>. HIDE DEF k
<1>5. ASSUME NEW j \in Ask
      PROVE  \/ Saves(j)' \subseteq Saves(j) /\ (Asked(j)' => Asked(j))
             \/ Saves(j)' \subseteq Saves(j) \cup {k.conf} /\ Asked(j) /\ ~Asked(j)'
  <2>1. CASE parsed = j
    <3>1. Saves(j)' \subseteq Saves(j) \cup {k.conf}
      BY <1>1, <1>4, <1>5, SavesOfSent
    <3>2. Asked(j) /\ ~Asked(j)'
      BY <1>1, <1>4, <2>1 DEF Asked
    <3>. QED BY <3>1, <3>2
  <2>2. CASE parsed # j
    <3>1. Saves(j)' \subseteq Saves(j)
      BY <1>1, <1>3, <1>4, <1>5, <2>2, SavesOfSent
    <3>2. Asked(j)' => Asked(j)
      BY <1>1, <1>4 DEF Asked
    <3>. QED BY <3>1, <3>2
  <2>. QED BY <2>1, <2>2
<1>. QED BY <1>1, <1>2, <1>3, <1>4, <1>5, PageFacts, SentKeepsSaves

LEMMA ChatKeepsSaves ==
  ASSUME FrontendInv, SavesInv, Chat
  PROVE  SavesInv'
<1>1. PICK tool \in ChatTools : Send("chatting", Insertion(asks', tool, None))
  BY DEF Chat
<1>. DEFINE k == Insertion(asks + 1, tool, None)
<1>2. /\ UNCHANGED <<confs, jobs, late, pending, parsed, active, faults>>
      /\ asks' = asks + 1 /\ run.pc = "chat" /\ Send("chatting", k)
  BY <1>1 DEF Chat, serverVars, slotVars
<1>3. Fits(k) /\ k \in Call /\ ~k.decides /\ k.of = None
  <2>1. asks + 1 \in Ask
    BY <1>2, PageFacts, FrontendAssumption DEF FrontendInv, RunFits, Ask
  <2>. QED BY <2>1, FrontendAssumption DEF Fits, Insertion, Call
<1>4. /\ run'.call = k /\ run'.pc = "chatting" /\ run'.got = "none"
      /\ run'.todo = <<>> /\ run'.still = <<>>
  BY <1>2, <1>3, SendType DEF Waiting, FrontendInv, PollDropsNothing
<1>. HIDE DEF k
<1>5. ASSUME NEW j \in Ask PROVE Saves(j)' \subseteq Saves(j)
  BY <1>2, <1>3, <1>4, <1>5, SavesOfSent
<1>6. \A j \in Ask : Asked(j)' => Asked(j)
  BY <1>2 DEF Asked
<1>. QED BY <1>2, <1>3, <1>4, <1>5, <1>6, PageFacts, SentKeepsSaves

LEMMA AskToolKeepsSaves ==
  ASSUME FrontendInv, SavesInv, NEW tool \in Sidebar, AskTool(tool)
  PROVE  SavesInv'
<1>. DEFINE k == Insertion(asks + 1, tool, None)
            r == [Resting EXCEPT !.pc = "asking", !.press = click, !.call = k]
<1>1. /\ UNCHANGED <<confs, jobs, late, pending, parsed, active>>
      /\ asks' = asks + 1 /\ MayAsk /\ ClickAround /\ run' = r
  BY DEF AskTool, serverVars, slotVars
<1>2. Fits(k) /\ k \in Call /\ ~k.decides /\ k.of = None
  <2>1. Fits(k)
    BY <1>1, InsertionFits, FrontendAssumption DEF PageTool
  <2>. QED BY <2>1 DEF Fits, Insertion
<1>3. /\ run'.call = k /\ run'.pc = "asking" /\ run'.got = "none"
      /\ run'.todo = <<>> /\ run'.still = <<>>
  <2>. HIDE DEF k
  <2>. QED BY <1>1, <1>2, RestingFacts, PageFacts DEF RunState
<1>4. /\ faults' \in Nat /\ faults' >= faults
      /\ run.pc \in {"saving", "approving"} => faults' > faults
  BY <1>1, PageFacts DEF ClickAround, Waiting
<1>. HIDE DEF k, r
<1>5. ASSUME NEW j \in Ask PROVE Saves(j)' \subseteq Saves(j)
  BY <1>1, <1>2, <1>3, <1>5, SavesOfSent
<1>6. \A j \in Ask : faults' > faults \/ (Asked(j)' => Asked(j))
  BY <1>1, <1>4 DEF Asked
<1>. QED BY <1>1, <1>2, <1>3, <1>4, <1>5, <1>6, SentKeepsSaves

\* The save that was being inserted is the one that is now being approved.
LEMMA SaveAnsweredKeepsSaves ==
  ASSUME FrontendInv, SavesInv, SaveAnswered, run.got = "ok"
  PROVE  SavesInv'
<1>. DEFINE k == Decision(run.call.conf, TRUE)
<1>1. /\ UNCHANGED <<confs, jobs, late, pending, parsed, active, faults>>
      /\ run.pc = "saving" /\ Send("approving", k)
  BY DEF SaveAnswered, Answered, serverVars, slotVars, boundVars
<1>2. /\ run.call.conf \in Known /\ ~run.call.decides
      /\ confs[run.call.conf].of = run.call.of
  BY <1>1 DEF FrontendInv, AnswersAreTrue, RunFits, SavesInv, RowsAreAsSent
<1>3. Fits(k) /\ k \in Call /\ k.decides /\ k.conf = run.call.conf
  BY <1>2, DecisionFits DEF Fits, Decision
<1>4. /\ run'.call = k /\ run'.pc = "approving" /\ run'.got = "none"
      /\ run'.todo = <<>> /\ run'.still = <<>>
  BY <1>1, <1>3, SendType DEF Waiting, FrontendInv, PollDropsNothing
<1>. HIDE DEF k
<1>5. ASSUME NEW j \in Ask PROVE Saves(j)' \subseteq Saves(j)
  <2>. SUFFICES ASSUME NEW c \in Saves(j)', c \notin Saves(j) PROVE FALSE
    OBVIOUS
  <2>1. c = run.call.conf /\ confs[c].of = j
    BY <1>1, <1>3, <1>4, SavesOfSent
  <2>. QED BY <1>1, <1>2, <2>1 DEF Saves, Known
<1>6. \A j \in Ask : Asked(j)' => Asked(j)
  BY <1>1, <1>4 DEF Asked
<1>. QED BY <1>1, <1>3, <1>4, <1>5, <1>6, PageFacts, SentKeepsSaves

-----------------------------------------------------------------------------
(* The API, the jobs and the polls *)

LEMMA EffectOnRows ==
  ASSUME FrontendInv, NEW k \in Out, Effect(k)
  PROVE  /\ \A j \in Started : jobs'[j] = jobs[j]
         /\ IF k.decides
            THEN /\ k.conf \in Known /\ k.conf \notin Started
                 /\ confs'[k.conf].of = confs[k.conf].of
                 /\ confs'[k.conf].status = "approved" => k.yes
            ELSE k.conf \notin Known /\ confs'[k.conf].of = k.of
<1>1. /\ k \in Call /\ k.conf \in Ask /\ (k.decides <=> k.conf \in Known)
      /\ confs \in [Ask -> ConfRow \cup {None}] /\ jobs \in [Ask -> JobRow \cup {None}]
  BY DEF FrontendInv, FrontendTypeOK, CallsFit, Out, RunState, RunFits, Call
<1>2. CASE k.decides
  <2>. DEFINE status == IF k.yes THEN "approved" ELSE "denied"
  <2>1. /\ confs[k.conf].status = "pending" /\ k.conf \in Known
        /\ confs' = [confs EXCEPT ![k.conf].status = status]
        /\ IF k.yes THEN View!Appear(k.conf) ELSE UNCHANGED jobs
    BY <1>1, <1>2 DEF Effect
  <2>2. confs[k.conf] \in ConfRow /\ k.conf \notin Started
    BY <1>1, <2>1 DEF Known, FrontendInv, JobsWereApproved
  <2>3. confs'[k.conf].of = confs[k.conf].of /\ confs'[k.conf].status = status
    BY <1>1, <2>1, <2>2 DEF ConfRow
  <2>4. \A j \in Started : jobs'[j] = jobs[j]
    BY <1>1, <2>1, <2>2 DEF View!Appear, Started
  <2>. QED BY <1>2, <2>1, <2>2, <2>3, <2>4
<1>3. CASE ~k.decides
  <2>. DEFINE row == [tool |-> k.tool, of |-> k.of, status |-> "pending"]
  <2>1. confs' = [confs EXCEPT ![k.conf] = row] /\ jobs' = jobs
    BY <1>3 DEF Effect
  <2>. QED BY <1>1, <1>3, <2>1
<1>. QED BY <1>2, <1>3

\* The rows of the saves of a result are as many as before.
LEMMA EffectOnSaves ==
  ASSUME FrontendInv, NEW k \in Out, Effect(k), Out' \subseteq Out,
         run'.pc = run.pc, run'.call = run.call, NEW j \in Ask
  PROVE  Saves(j)' \subseteq Saves(j)
<1>. SUFFICES ASSUME NEW c \in Saves(j)', c \notin Saves(j) PROVE FALSE
  OBVIOUS
<1>1. /\ c \in Ask /\ confs'[c] # None /\ confs'[c].of = j
      /\ \/ confs'[c].status = "approved"
         \/ \E l \in Out : l.decides /\ l.yes /\ l.conf = c
  BY DEF Saves
<1>2. CASE c # k.conf
  <2>1. confs'[c] = confs[c]
    BY <1>1, <1>2, EffectFacts
  <2>. QED BY <1>1, <2>1 DEF Saves
<1>3. CASE c = k.conf /\ k.decides
  <2>1. /\ c \in Known /\ confs[c].of = j
        /\ confs'[c].status = "approved" => k.yes
    BY <1>1, <1>3, EffectOnRows
  <2>. QED BY <1>1, <1>3, <2>1 DEF Saves, Known
<1>4. CASE c = k.conf /\ ~k.decides
  <2>1. \A l \in Out : l.conf = c => l = k
    BY <1>4 DEF FrontendInv, CallsFit
  <2>2. confs'[c].status = "pending"
    BY <1>4, EffectFacts
  <2>. QED BY <1>1, <1>4, <2>1, <2>2
<1>. QED BY <1>2, <1>3, <1>4

LEMMA ServedKeepsSaves ==
  ASSUME FrontendInv, SavesInv, Grant \/ ServeLate
  PROVE  SavesInv'
<1>1. CASE ServeLate /\ UNCHANGED <<confs, jobs>>
  <2>1. /\ UNCHANGED <<pending, parsed, active, run, faults>> /\ late' \subseteq late
    BY <1>1 DEF ServeLate, pageVars, boundVars
  <2>2. Out' \subseteq Out /\ Known' = Known /\ Started' = Started
    BY <1>1, <2>1 DEF Out, Known, Started
  <2>3. RowsAreAsSent' /\ SavingIsUndecided' /\ ApprovalsAreNew' /\ JobsAreListedOnce'
    BY <1>1, <2>1, <2>2
       DEF SavesInv, RowsAreAsSent, SavingIsUndecided, ApprovalsAreNew, JobsAreListedOnce
  <2>4. ASSUME NEW j \in Ask PROVE Paid(j)'
    <3>1. Saves(j)' \subseteq Saves(j)
      BY <1>1, <2>1, <2>2 DEF Saves
    <3>2. (Asked(j)' => Asked(j)) /\ (MayBeAsked(j)' => MayBeAsked(j))
      BY <1>1, <2>1 DEF Asked, MayBeAsked, Ended
    <3>. QED BY <2>1, <2>4, <3>1, <3>2, PageFacts, StillPaid DEF SavesInv
  <2>. QED BY <2>3, <2>4 DEF SavesInv
<1>2. CASE ~(ServeLate /\ UNCHANGED <<confs, jobs>>)
  <2>1. PICK k \in Out :
          /\ Effect(k) /\ Out' \subseteq Out /\ late' \subseteq late
          /\ UNCHANGED <<pending, parsed, active, faults>>
          /\ run'.pc = run.pc /\ run'.call = run.call
          /\ run'.todo = run.todo /\ run'.still = run.still
          /\ \/ run' = run /\ k \in late
             \/ k = run.call /\ run.pc \in Waiting
    <3>1. CASE Grant
      <4>1. run' \in RunState /\ run' = [run EXCEPT !.got = "ok"]
        BY <3>1, PageFacts DEF Grant, Got, RunState
      <4>2. /\ run'.pc = run.pc /\ run'.call = run.call /\ run'.got = "ok"
            /\ run'.todo = run.todo /\ run'.still = run.still
        BY <4>1, PageFacts DEF RunState
      <4>3. /\ run.call \in Out /\ Effect(run.call) /\ run.pc \in Waiting
            /\ UNCHANGED <<late, pending, parsed, active, faults>>
        BY <3>1 DEF Grant, Out, slotVars, boundVars
      <4>4. Out' \subseteq Out
        BY <4>2, <4>3 DEF Out
      <4>. QED BY <4>2, <4>3, <4>4
    <3>2. CASE ServeLate
      <4>1. PICK k \in late : late' = late \ {k} /\ Effect(k)
        BY <1>2, <3>2 DEF ServeLate
      <4>2. UNCHANGED <<pending, parsed, active, run, faults>>
        BY <3>2 DEF ServeLate, pageVars, boundVars
      <4>3. k \in Out /\ Out' \subseteq Out /\ late' \subseteq late
        BY <4>1, <4>2 DEF Out
      <4>. QED BY <4>1, <4>2, <4>3
    <3>. QED BY <3>1, <3>2
  <2>2. /\ Known' = Known \cup {k.conf} /\ Started \subseteq Started'
        /\ \A c \in Ask \ {k.conf} : confs'[c] = confs[c]
        /\ k.conf \in Ask /\ k.of \in Started \cup {None}
        /\ IF k.decides
           THEN /\ k.conf \in Known /\ k.conf \notin Started
                /\ confs'[k.conf].of = confs[k.conf].of
           ELSE /\ k.conf \notin Known /\ confs'[k.conf].of = k.of
                /\ confs'[k.conf].status = "pending"
    BY <2>1, EffectFacts, EffectOnRows DEF Call, FrontendInv, CallsFit
  <2>3. RowsAreAsSent'
    <3>1. ASSUME NEW c \in Known' PROVE confs'[c].of \in Started' \cup {None}
      BY <2>2 DEF SavesInv, RowsAreAsSent, Known
    <3>2. pending # None => confs'[pending].of = None
      <4>1. pending \in Known \cup {None}
        BY DEF FrontendInv, SlotsAreKnown
      <4>. QED BY <2>2, <4>1 DEF SavesInv, RowsAreAsSent, Known
    <3>3. run.pc \in {"asking", "chatting"} => run.call.of = None
      BY DEF SavesInv, RowsAreAsSent
    <3>4. ASSUME run.pc \in {"asking", "chatting", "saving"}, run'.got = "ok"
          PROVE  confs'[run.call.conf].of = run.call.of
      <4>1. CASE k = run.call
        BY <2>2, <3>4, <4>1 DEF FrontendInv, RunFits
      <4>2. CASE k # run.call
        <5>1. /\ run' = run /\ run.call.conf \in Known
              /\ confs[run.call.conf].of = run.call.of
          BY <2>1, <3>4, <4>2 DEF FrontendInv, AnswersAreTrue, SavesInv, RowsAreAsSent
        <5>. QED BY <2>2, <5>1 DEF Known
      <4>. QED BY <4>1, <4>2
    <3>. QED BY <2>1, <3>1, <3>2, <3>3, <3>4 DEF RowsAreAsSent
  <2>4. SavingIsUndecided'
    <3>. SUFFICES ASSUME run.pc = "saving"
                  PROVE  /\ parsed # None /\ run.call.of = parsed
                         /\ \A l \in late' : l.conf # run.call.conf
                         /\ run.call.conf \in Known' =>
                              confs'[run.call.conf].status = "pending"
      BY <2>1 DEF SavingIsUndecided
    <3>1. /\ parsed # None /\ run.call.of = parsed
          /\ \A l \in late : l.conf # run.call.conf
          /\ run.call.conf \in Known => confs[run.call.conf].status = "pending"
      BY DEF SavesInv, SavingIsUndecided
    <3>2. CASE k = run.call
      BY <2>1, <2>2, <3>1, <3>2 DEF FrontendInv, RunFits
    <3>3. CASE k # run.call
      BY <2>1, <2>2, <3>1, <3>3 DEF Known
    <3>. QED BY <3>2, <3>3
  <2>5. ApprovalsAreNew'
    <3>. SUFFICES ASSUME run'.got = "ok", run.call.decides, run.call.yes
                  PROVE  /\ run.call.conf \notin Elements(active) \cup {parsed}
                         /\ \A c \in Known' : confs'[c].of # run.call.conf
                         /\ \A l \in late' : l.of # run.call.conf
      BY <2>1 DEF ApprovalsAreNew
    <3>1. CASE k = run.call
      <4>1. run.call.conf \notin Started \cup {None} /\ Known' = Known
        BY <2>2, <3>1, FrontendAssumption
      <4>2. Elements(active) \cup {parsed} \subseteq Started \cup {None}
        BY DEF FrontendInv, SlotsAreKnown
      <4>3. \A l \in late : l.of \in Started \cup {None}
        BY PageFacts DEF FrontendInv, CallsFit
      <4>4. \A c \in Known : confs'[c].of \in Started \cup {None}
        BY <2>2, <3>1 DEF SavesInv, RowsAreAsSent, Known
      <4>. QED BY <2>1, <4>1, <4>2, <4>3, <4>4
    <3>2. CASE k # run.call
      <4>1. /\ run.call.conf \notin Elements(active) \cup {parsed}
            /\ \A c \in Known : confs[c].of # run.call.conf
            /\ \A l \in late : l.of # run.call.conf
            /\ k \in late
        BY <2>1, <3>2 DEF SavesInv, ApprovalsAreNew
      <4>2. \A c \in Known' : confs'[c].of # run.call.conf
        BY <2>2, <4>1 DEF Known
      <4>. QED BY <2>1, <4>1, <4>2
    <3>. QED BY <3>1, <3>2
  <2>6. JobsAreListedOnce'
    BY <2>1 DEF SavesInv, JobsAreListedOnce
  <2>7. ASSUME NEW j \in Ask PROVE Paid(j)'
    <3>1. Saves(j)' \subseteq Saves(j)
      BY <2>1, <2>7, EffectOnSaves
    <3>2. Asked(j)' => Asked(j)
      BY <2>1 DEF Asked
    <3>3. MayBeAsked(j)' => MayBeAsked(j)
      <4>1. j \in Elements(active) => Ended(j)' = Ended(j)
        BY <2>1, EffectOnRows DEF FrontendInv, SlotsAreKnown, Ended
      <4>. QED BY <2>1, <4>1 DEF MayBeAsked
    <3>. QED BY <2>1, <2>7, <3>1, <3>2, <3>3, PageFacts, StillPaid DEF SavesInv
  <2>. QED BY <2>3, <2>4, <2>5, <2>6, <2>7 DEF SavesInv
<1>. QED BY <1>1, <1>2

\* The slots, the lists and the rows are as they were.
LEMMA UnmovedKeepsSaves ==
  ASSUME FrontendInv, SavesInv,
         UNCHANGED <<confs, late, pending, parsed, active>>, Started' = Started,
         run'.pc = run.pc, run'.call = run.call, run'.got \in {run.got, "error"},
         run'.todo = run.todo, run'.still = run.still,
         faults' \in Nat, faults' >= faults,
         faults' > faults \/ \A j \in Started : Ended(j) => Ended(j)'
  PROVE  SavesInv'
<1>1. Known' = Known /\ Out' \subseteq Out
  BY DEF Known, Out
<1>2. RowsAreAsSent' /\ SavingIsUndecided' /\ ApprovalsAreNew' /\ JobsAreListedOnce'
  BY <1>1 DEF SavesInv, RowsAreAsSent, SavingIsUndecided, ApprovalsAreNew,
              JobsAreListedOnce
<1>3. ASSUME NEW j \in Ask PROVE Paid(j)'
  <2>1. Saves(j)' \subseteq Saves(j)
    BY <1>1 DEF Saves
  <2>2. Asked(j)' => Asked(j)
    BY DEF Asked
  <2>3. faults' > faults \/ (MayBeAsked(j)' => MayBeAsked(j))
    <3>1. CASE \A i \in Started : Ended(i) => Ended(i)'
      <4>1. j \in Elements(active) /\ Ended(j) => Ended(j)'
        BY <3>1 DEF FrontendInv, SlotsAreKnown
      <4>. QED BY <4>1 DEF MayBeAsked
    <3>. QED BY <3>1
  <2>. QED BY <1>3, <2>1, <2>2, <2>3, StillPaid DEF SavesInv
<1>. QED BY <1>2, <1>3 DEF SavesInv

LEMMA ErrorKeepsSaves ==
  ASSUME FrontendInv, SavesInv, Refuse \/ Break
  PROVE  SavesInv'
<1>1. /\ run' = [run EXCEPT !.got = "error"]
      /\ UNCHANGED <<confs, jobs, late, pending, parsed, active>>
  BY DEF Refuse, Break, Got, serverVars, slotVars
<1>2. faults' \in Nat /\ faults' >= faults
  BY PageFacts DEF Refuse, Break, boundVars
<1>3. /\ run'.got = "error" /\ run'.pc = run.pc /\ run'.call = run.call
      /\ run'.todo = run.todo /\ run'.still = run.still
  BY <1>1, PageFacts DEF RunState
<1>4. Started' = Started /\ \A j \in Started : Ended(j) => Ended(j)'
  BY <1>1 DEF Started, Ended
<1>. QED BY <1>1, <1>2, <1>3, <1>4, UnmovedKeepsSaves

LEMMA JobKeepsSaves ==
  ASSUME FrontendInv, SavesInv, JobEnds \/ JobGoesOn
  PROVE  SavesInv'
<1>1. PICK j \in Started :
        \/ faults' = faults /\ (View!Complete(j) \/ View!Fail(j))
        \/ faults' = faults + 1 /\ View!Start(j)
  BY DEF JobEnds, JobGoesOn, Started, boundVars
<1>2. UNCHANGED <<confs, late, pending, parsed, active, run>>
  BY DEF JobEnds, JobGoesOn, pageVars
<1>3. jobs \in [Ask -> JobRow \cup {None}] /\ j \in Ask /\ jobs[j] \in JobRow
  BY DEF FrontendInv, FrontendTypeOK, Started
<1>4. PICK row \in JobRow :
        /\ jobs' = [jobs EXCEPT ![j] = row]
        /\ faults' > faults \/ row.status \in {"completed", "failed"}
  <2>1. CASE View!Complete(j)
    <3>. DEFINE row == [jobs[j] EXCEPT !.status = "completed", !.result = TRUE]
    <3>1. row \in JobRow /\ row.status = "completed"
      BY <1>3 DEF JobRow
    <3>2. jobs' = [jobs EXCEPT ![j] = row]
      BY <1>3, <2>1 DEF View!Complete
    <3>. QED BY <3>1, <3>2
  <2>2. CASE View!Fail(j)
    <3>. DEFINE row == [jobs[j] EXCEPT !.status = "failed"]
    <3>1. row \in JobRow /\ row.status = "failed"
      BY <1>3 DEF JobRow
    <3>2. jobs' = [jobs EXCEPT ![j] = row]
      BY <1>3, <2>2 DEF View!Fail
    <3>. QED BY <3>1, <3>2
  <2>3. CASE faults' = faults + 1 /\ View!Start(j)
    <3>. DEFINE row == [jobs[j] EXCEPT !.status = "running"]
    <3>1. row \in JobRow /\ faults' > faults
      BY <1>3, <2>3, PageFacts DEF JobRow
    <3>2. jobs' = [jobs EXCEPT ![j] = row]
      BY <1>3, <2>3 DEF View!Start
    <3>. QED BY <3>1, <3>2
  <2>. QED BY <1>1, <2>1, <2>2, <2>3
<1>5. Started' = Started
  BY <1>3, <1>4, FrontendAssumption DEF Started
<1>6. faults' > faults \/ \A i \in Started : Ended(i) => Ended(i)'
  <2>. SUFFICES ASSUME ~(faults' > faults), NEW i \in Started, Ended(i)
                PROVE  Ended(i)'
    OBVIOUS
  <2>1. jobs'[i] \in {jobs[i], row} /\ (jobs'[i] = row \/ i # j)
    BY <1>3, <1>4 DEF Started
  <2>. QED BY <1>4, <2>1 DEF Ended
<1>7. faults' \in Nat /\ faults' >= faults
  BY <1>1, PageFacts
<1>. QED BY <1>2, <1>5, <1>6, <1>7, UnmovedKeepsSaves

\* Of a job that has just been put in the slot the poll does not keep the id;
\* of one that was there, and has ended, it does not add it.
LEMMA PollKeepsSaves ==
  ASSUME FrontendInv, SavesInv, Poll \/ PollUnanswered
  PROVE  SavesInv'
<1>1. PICK j \in Ask : j = Head(run.todo)
  BY PageFacts, ElementsOfTail DEF Poll, PollUnanswered, RunState
<1>2. /\ run.pc = "poll" /\ run.todo # <<>> /\ run.todo \in Seq(Ask)
      /\ run.still \in Seq(Ask)
      /\ UNCHANGED <<confs, jobs, late, pending, active>>
  BY PageFacts DEF Poll, PollUnanswered, RunState, serverVars, slotVars
<1>3. PICK ended \in BOOLEAN :
        /\ run'.pc = run.pc /\ run'.call = run.call /\ run'.got = run.got
        /\ run'.todo = Tail(run.todo)
        /\ run'.still = IF ended THEN run.still ELSE Append(run.still, j)
        /\ faults' \in Nat /\ faults' >= faults
        /\ \/ faults' > faults /\ ended = FALSE /\ parsed' = parsed
           \/ ended = Ended(j) /\ parsed' = parsed
           \/ ended = TRUE /\ Ended(j) /\ parsed = None /\ parsed' = j
  <2>1. CASE Poll
    <3>1. /\ run' = [run EXCEPT !.todo = Tail(@), !.ended = @ \/ Ended(j),
                                !.still = IF Ended(j) THEN @ ELSE Append(@, j)]
          /\ parsed' = IF Parsed(j) /\ parsed = None THEN j ELSE parsed
          /\ faults' = faults
      BY <1>1, <2>1 DEF Poll, boundVars
    <3>2. Ended(j) \in BOOLEAN /\ (Parsed(j) => Ended(j))
      BY DEF Ended, Parsed
    <3>3. /\ run'.pc = run.pc /\ run'.call = run.call /\ run'.got = run.got
          /\ run'.todo = Tail(run.todo)
          /\ run'.still = IF Ended(j) THEN run.still ELSE Append(run.still, j)
      BY <3>1, PageFacts DEF RunState
    <3>4. faults' \in Nat /\ faults' >= faults
      BY <3>1, PageFacts
    <3>. QED BY <3>1, <3>2, <3>3, <3>4
  <2>2. CASE PollUnanswered
    <3>1. /\ run' = [run EXCEPT !.todo = Tail(@), !.still = Append(@, j)]
          /\ parsed' = parsed /\ faults' = faults + 1
      BY <1>1, <2>2 DEF PollUnanswered, slotVars
    <3>2. /\ run'.pc = run.pc /\ run'.call = run.call /\ run'.got = run.got
          /\ run'.todo = Tail(run.todo) /\ run'.still = Append(run.still, j)
      BY <3>1, PageFacts DEF RunState
    <3>3. faults' \in Nat /\ faults' > faults /\ faults' >= faults
      BY <3>1, PageFacts
    <3>4. run'.still = IF FALSE THEN run.still ELSE Append(run.still, j)
      BY <3>2
    <3>. WITNESS FALSE \in BOOLEAN
    <3>. QED BY <3>1, <3>2, <3>3, <3>4
  <2>. QED BY <2>1, <2>2
<1>4. /\ Tail(run.todo) \in Seq(Ask) /\ j \notin Elements(Tail(run.todo))
      /\ Elements(run.todo) = {j} \cup Elements(Tail(run.todo))
      /\ Distinct(Tail(run.todo))
  BY <1>1, <1>2, ElementsOfTail, TailIsDistinct DEF SavesInv, JobsAreListedOnce
<1>5. j \notin Elements(run.still) /\ j \in Elements(active)
  BY <1>2, <1>4 DEF SavesInv, JobsAreListedOnce, FrontendInv, PollDropsNothing
<1>6. /\ Elements(Append(run.still, j)) = Elements(run.still) \cup {j}
      /\ Distinct(Append(run.still, j))
  BY <1>2, <1>5, ElementsOfAppend, AppendIsDistinct DEF SavesInv, JobsAreListedOnce
<1>7. Known' = Known /\ Started' = Started /\ Out' = Out
  BY <1>2, <1>3 DEF Known, Started, Out
<1>8. RowsAreAsSent' /\ SavingIsUndecided' /\ ApprovalsAreNew'
  <2>1. run.got = "none"
    BY <1>2 DEF FrontendInv, RunFits, Waiting
  <2>. QED BY <1>2, <1>3, <1>7, <2>1
           DEF SavesInv, RowsAreAsSent, SavingIsUndecided, ApprovalsAreNew
<1>9. JobsAreListedOnce'
  BY <1>2, <1>3, <1>4, <1>5, <1>6 DEF SavesInv, JobsAreListedOnce
<1>10. ASSUME NEW i \in Ask PROVE Paid(i)'
  <2>1. Saves(i)' \subseteq Saves(i)
    BY <1>2, <1>3, <1>7 DEF Saves
  <2>2. Ended(i)' = Ended(i)
    BY <1>2 DEF Ended
  <2>3. CASE parsed' = parsed
    <3>1. Asked(i)' => Asked(i)
      BY <1>2, <1>3, <2>3 DEF Asked
    <3>2. CASE faults' > faults
      BY <1>3, <1>10, <2>1, <3>1, <3>2, StillPaid DEF SavesInv
    <3>3. CASE ended = Ended(j)
      <4>1. MayBeAsked(i)' => MayBeAsked(i)
        <5>1. Ended(i) /\ i \notin Elements(run.still) => i \notin Elements(run'.still)
          BY <1>3, <1>6, <3>3
        <5>. QED BY <1>2, <1>3, <2>2, <2>3, <5>1 DEF MayBeAsked
      <4>. QED BY <1>3, <1>10, <2>1, <3>1, <4>1, StillPaid DEF SavesInv
    <3>4. CASE parsed = None /\ parsed' = j
      BY <2>3, <3>4, FrontendAssumption
    <3>. QED BY <1>3, <3>2, <3>3, <3>4
  <2>4. CASE parsed' # parsed
    <3>1. /\ ended = TRUE /\ Ended(j) /\ parsed = None /\ parsed' = j
          /\ run'.still = run.still
      BY <1>3, <2>4
    <3>2. MayBeAsked(i)' => MayBeAsked(i)
      BY <1>2, <1>10, <3>1, FrontendAssumption DEF MayBeAsked
    <3>3. CASE i = j
      <4>1. MayBeAsked(i)
        BY <1>5, <1>10, <3>1, <3>3, FrontendAssumption DEF MayBeAsked
      <4>2. ~MayBeAsked(i)'
        BY <1>2, <1>3, <1>5, <2>2, <3>1, <3>3 DEF MayBeAsked
      <4>. QED BY <1>3, <1>10, <2>1, <4>1, <4>2, StillPaid DEF SavesInv
    <3>4. CASE i # j
      <4>1. ~Asked(i)'
        BY <3>1, <3>4 DEF Asked
      <4>. QED BY <1>3, <1>10, <2>1, <3>2, <4>1, StillPaid DEF SavesInv
    <3>. QED BY <3>3, <3>4
  <2>. QED BY <2>3, <2>4
<1>. QED BY <1>8, <1>9, <1>10 DEF SavesInv

-----------------------------------------------------------------------------

LEMMA FrontendInitSaves == FrontendInit => SavesInv
<1>. SUFFICES ASSUME FrontendInit PROVE SavesInv
  OBVIOUS
<1>1. Known = {}
  BY DEF FrontendInit, Known
<1>2. RowsAreAsSent /\ SavingIsUndecided /\ ApprovalsAreNew
  BY <1>1, RestingFacts
     DEF FrontendInit, RowsAreAsSent, SavingIsUndecided, ApprovalsAreNew
<1>3. JobsAreListedOnce
  BY RestingFacts, EmptyIsDistinct, ElementsOfEmpty DEF FrontendInit, JobsAreListedOnce
<1>4. ASSUME NEW j \in Ask PROVE Paid(j)
  <2>1. Saves(j) = {}
    BY RestingFacts DEF FrontendInit, Saves
  <2>2. ~Asked(j) /\ ~MayBeAsked(j)
    BY <1>4, ElementsOfEmpty, FrontendAssumption DEF FrontendInit, Asked, MayBeAsked
  <2>. QED BY <2>1, <2>2, FS_EmptySet DEF FrontendInit, Paid
<1>. QED BY <1>2, <1>3, <1>4 DEF SavesInv

LEMMA FrontendStepSaves ==
  ASSUME FrontendInv, SavesInv, [FrontendNext]_frontVars
  PROVE  SavesInv'
<1>1. CASE Script
  BY <1>1, QuietStepsKeepSaves, PollKeepsSaves, EndOfPollKeepsSaves, SaveKeepsSaves,
     ChatKeepsSaves, DecideKeepsSaves, AnswersKeepSaves, SaveAnsweredKeepsSaves
     DEF Script
<1>2. CASE Answer \/ ServeLate \/ JobEnds
  BY <1>2, ServedKeepsSaves, ErrorKeepsSaves, JobKeepsSaves DEF Answer
<1>3. CASE Fault
  BY <1>3, ErrorKeepsSaves, PollKeepsSaves, QuietStepsKeepSaves, JobKeepsSaves DEF Fault
<1>4. CASE OpenChat \/ Logout \/ SendChat
  BY <1>4, QuietStepsKeepSaves
<1>5. ASSUME NEW tool \in Sidebar, AskTool(tool) PROVE SavesInv'
  BY <1>5, AskToolKeepsSaves
<1>6. CASE Dismiss \/ (\E yes \in BOOLEAN : PressButton(yes)) \/ UNCHANGED frontVars
  <2>1. UNCHANGED <<confs, jobs, late, pending, parsed, active, run, faults>>
    BY <1>6 DEF Dismiss, PressButton, serverVars, slotVars, boundVars, frontVars
  <2>2. Started' = Started /\ \A j \in Started : Ended(j) => Ended(j)'
    BY <2>1 DEF Started, Ended
  <2>. QED BY <2>1, <2>2, PageFacts, UnmovedKeepsSaves
<1>. QED BY <1>1, <1>2, <1>3, <1>4, <1>5, <1>6 DEF FrontendNext, Recruiter

\* What is saved of a parsed CV, what the page asks about it and what a poll
\* may make it ask again add up to one, and one more for each fault.
THEOREM SavesArePaidFor == FrontendSpec => []SavesInv
<1>1. FrontendInv /\ FrontendInv' /\ SavesInv /\ [FrontendNext]_frontVars => SavesInv'
  BY FrontendStepSaves
<1>. QED BY <1>1, FrontendInitSaves, FrontendInvariant, PTL DEF FrontendSpec

\* One parsed CV is saved once, and once more for each answer that was lost
\* (_poll_active_jobs, _show_save_dialog, _save_parsed_cv).
THEOREM SavesNeedFaults == FrontendSpec => []SavedAgainNeedsAFault
<1>1. FrontendInv /\ SavesInv => SavedAgainNeedsAFault
  <2>. SUFFICES ASSUME FrontendInv, SavesInv, NEW j \in Ask
                PROVE  Cardinality({c \in Ask : /\ confs[c] # None /\ confs[c].of = j
                                                /\ confs[c].status = "approved"})
                         <= 1 + faults
    BY DEF SavedAgainNeedsAFault
  <2>. DEFINE T == {c \in Ask : /\ confs[c] # None /\ confs[c].of = j
                                /\ confs[c].status = "approved"}
              a == IF Asked(j) THEN 1 ELSE 0
              b == IF MayBeAsked(j) THEN 1 ELSE 0
  <2>1. IsFiniteSet(Saves(j)) /\ T \subseteq Saves(j) /\ faults \in Nat
    <3>1. T \subseteq Saves(j)
      BY DEF Saves
    <3>. QED BY <3>1, SavesAreFinite, FS_Subset
  <2>2. /\ Cardinality(T) \in Nat /\ Cardinality(Saves(j)) \in Nat
        /\ Cardinality(T) <= Cardinality(Saves(j))
    BY <2>1, CountOfLess
  <2>3. Cardinality(Saves(j)) + a + b <= 1 + faults
    BY DEF SavesInv, Paid
  <2>4. a \in {0, 1} /\ b \in {0, 1}
    OBVIOUS
  <2>. HIDE DEF T, a, b
  <2>5. Cardinality(T) <= 1 + faults
    BY <2>1, <2>2, <2>3, <2>4
  <2>. QED BY <2>5 DEF T
<1>. QED BY <1>1, FrontendInvariant, SavesArePaidFor, PTL

=============================================================================
