-------------------------- MODULE ChatPromptProofs --------------------------
(***************************************************************************)
(* Proofs about what Chat's summaries are given one after the other, and   *)
(* about what its prompts miss.                                            *)
(***************************************************************************)
EXTENDS ChatSummaryProofs

-----------------------------------------------------------------------------
(* The next summary *)

\* What the limit left out stays left out when there are more messages.
LEMMA MoreIsLeftOut ==
  ASSUME NEW S, NEW T, S \subseteq T, IsFiniteSet(T), NEW a, NEW given,
         GivenOrLeftOut(a, given, S)
  PROVE  GivenOrLeftOut(a, given, T)
<1>. SUFFICES ASSUME NEW x \in a.counted, x \notin given
              PROVE  Cardinality({m \in T : m.at > x}) >= SummaryLimit
  BY DEF GivenOrLeftOut
<1>. DEFINE A == {m \in S : m.at > x}
            B == {m \in T : m.at > x}
<1>1. Cardinality(A) >= SummaryLimit
  BY DEF GivenOrLeftOut
<1>2. A \subseteq B /\ B \subseteq T
  OBVIOUS
<1>. HIDE DEF A, B
<1>3. IsFiniteSet(A) /\ IsFiniteSet(B) /\ Cardinality(A) <= Cardinality(B)
  BY <1>2, FS_Subset
<1>4. Cardinality(A) \in Nat /\ Cardinality(B) \in Nat /\ SummaryLimit \in Nat
  BY <1>3, FS_CardinalityType, ChatAssumption
<1>5. Cardinality(B) >= SummaryLimit
  BY <1>1, <1>3, <1>4
<1>. QED BY <1>5 DEF B

\* A step that commits nothing has to keep only its own turn in order.
LEMMA FollowsKept ==
  ASSUME CountsInv, SummariesFollow, NEW h \in Handler, Frame(h), Follows(h)'
  PROVE  SummariesFollow'
<1>1. ASSUME NEW g \in Handler \ {h} PROVE Follows(g)'
  <2>1. turn'[g] = turn[g] /\ messages' = messages /\ summaries' = summaries
    BY DEF Frame
  <2>2. Visible(g)' = Visible(g)
    BY <2>1 DEF Visible, Own
  <2>3. \A after, given : Fits(g, after, given) => Fits(g, after, given)'
    BY <2>1, <2>2 DEF Fits, GivenOrLeftOut
  <2>4. \A s, at : IsSummaryOf(s, at) => IsSummaryOf(s, at)'
    BY <2>1 DEF IsSummaryOf
  <2>5. Follows(g)
    BY DEF SummariesFollow
  <2>. QED BY <2>1, <2>3, <2>4, <2>5 DEF Follows
<1>2. messages' = messages /\ summaries' = summaries
  BY DEF Frame
<1>3. \A s \in Session : \A b \in summaries'[s] : IsSummaryOf(s, b.after)'
  BY <1>2 DEF SummariesFollow, IsSummaryOf
<1>4. NoMessageFallsBetween'
  BY <1>2 DEF SummariesFollow, NoMessageFallsBetween, GivenOrLeftOut
<1>. QED BY <1>1, <1>3, <1>4 DEF SummariesFollow

\* A turn that neither reads for a summary nor has one yet.
LEMMA NothingToFollow ==
  ASSUME CountsInv, SummariesFollow, NEW h \in Handler, Frame(h),
         turn'[h].pc \notin {"llm", "save"}, turn'[h].summary = {},
         IsSummaryOf(turn'[h].session, turn'[h].after)
  PROVE  SummariesFollow'
<1>1. summaries' = summaries
  BY DEF Frame
<1>2. Follows(h)'
  BY <1>1 DEF Follows, IsSummaryOf
<1>. QED BY <1>2, FollowsKept

LEMMA PlainStepsFollow ==
  ASSUME CountsInv, TurnsInv', SummariesFollow, NEW h \in Handler,
         \/ Begin(h) \/ SessionExists(h) \/ Fail(h)
         \/ InsertSession(h) \/ SaveUserMessage(h) \/ ReadSummary(h) \/ ReadWindow(h)
         \/ Converse(h) \/ ConverseAndAsk(h) \/ ConfirmationPending(h)
         \/ SaveReply(h) \/ CountMessages(h)
  PROVE  SummariesFollow'
<1>1. /\ turn \in [Handler -> TurnState] /\ turn' \in [Handler -> TurnState]
      /\ clock \in Nat /\ clock' \in Nat /\ IdleTurn \in TurnState
      /\ turn[h] \in TurnState
      /\ turn[h].pc # "commit" => turn[h].summary = {}
  BY OpenTurnFacts, IdleIsATurn DEF CountsInv, TurnsInv, ChatTypeOK
<1>2. CASE Begin(h) \/ SessionExists(h) \/ Fail(h)
  <2>1. /\ UNCHANGED <<messages, summaries, clock>>
        /\ \A g \in Handler \ {h} : turn'[g] = turn[g]
        /\ turn'[h].pc \notin {"llm", "save"} /\ turn'[h].summary = {} /\ turn'[h].after = 0
    <3>1. CASE Begin(h)
      <4>1. PICK tn \in Tenant, s \in Session : StartSession(h, tn, s) \/ NameSession(h, tn, s)
        BY <3>1 DEF Begin
      <4>2. PICK p \in {"insert", "user"} :
              Set(h, [IdleTurn EXCEPT !.pc = p, !.tenant = tn, !.session = s])
        <5>1. CASE StartSession(h, tn, s)
          BY <5>1 DEF StartSession
        <5>2. CASE NameSession(h, tn, s)
          <6>. DEFINE q == IF owner[s] = tn THEN "user" ELSE "insert"
          <6>1. Set(h, [IdleTurn EXCEPT !.tenant = tn, !.session = s, !.pc = q])
            BY <5>2 DEF NameSession
          <6>2. q \in {"insert", "user"}
            OBVIOUS
          <6>. HIDE DEF q
          <6>3. Set(h, [IdleTurn EXCEPT !.pc = q, !.tenant = tn, !.session = s])
            BY <6>1 DEF IdleTurn
          <6>. QED BY <6>2, <6>3
        <5>. QED BY <4>1, <5>1, <5>2
      <4>3. UNCHANGED <<messages, summaries, clock>>
        BY <4>1 DEF StartSession, NameSession, Rows
      <4>. QED BY <1>1, <4>2, <4>3 DEF Set, IdleTurn
    <3>2. CASE SessionExists(h) \/ Fail(h)
      BY <1>1, <3>2 DEF SessionExists, Fail, Set, Rows, Counts, IdleTurn
    <3>. QED BY <1>2, <3>1, <3>2
  <2>2. Frame(h)
    BY <1>1, <2>1 DEF Frame
  <2>. QED BY <2>1, <2>2, NothingToFollow DEF IsSummaryOf
<1>3. CASE \/ InsertSession(h) \/ SaveUserMessage(h) \/ ReadSummary(h) \/ ReadWindow(h)
           \/ Converse(h) \/ ConverseAndAsk(h) \/ ConfirmationPending(h)
           \/ SaveReply(h) \/ CountMessages(h)
  <2>1. /\ UNCHANGED <<messages, summaries>> /\ clock' >= clock
        /\ \A g \in Handler \ {h} : turn'[g] = turn[g]
        /\ turn[h].pc \notin {"idle", "commit"}
        /\ turn'[h].pc \notin {"llm", "save"} /\ turn'[h].summary = turn[h].summary
        /\ turn'[h].after = turn[h].after /\ turn'[h].session = turn[h].session
    <3>1. CASE InsertSession(h)
      BY <1>1, <3>1 DEF InsertSession, At, Set, Rows, Counts, TurnState
    <3>2. CASE SaveUserMessage(h)
      BY <1>1, <3>2 DEF SaveUserMessage, At, Set, Rows, Counts, TurnState
    <3>3. CASE ReadSummary(h)
      BY <1>1, <3>3 DEF ReadSummary, At, Set, Rows, Counts, TurnState
    <3>9. CASE ReadWindow(h)
      BY <1>1, <3>9 DEF ReadWindow, At, Set, Rows, Counts, TurnState
    <3>4. CASE Converse(h)
      BY <1>1, <3>4 DEF Converse, At, Set, Rows, Counts, TurnState
    <3>8. CASE ConverseAndAsk(h)
      BY <1>1, <3>8 DEF ConverseAndAsk, At, Set, Rows, Counts, TurnState
    <3>5. CASE ConfirmationPending(h)
      BY <1>1, <3>5 DEF ConfirmationPending, At, Set, Rows, Counts, TurnState
    <3>6. CASE SaveReply(h)
      BY <1>1, <3>6 DEF SaveReply, At, Set, Rows, Counts, TurnState
    <3>7. CASE CountMessages(h)
      BY <1>1, <3>7 DEF CountMessages, At, Set, Rows, Counts, TurnState
    <3>. QED BY <1>3, <3>1, <3>2, <3>3, <3>4, <3>5, <3>6, <3>7, <3>8, <3>9
  <2>2. Frame(h)
    BY <1>1, <2>1 DEF Frame
  <2>3. IsSummaryOf(turn[h].session, turn[h].after)
    BY <2>1 DEF SummariesFollow, Follows
  <2>. QED BY <1>1, <2>1, <2>2, <2>3, NothingToFollow
<1>. QED BY <1>2, <1>3

\* Check: the summary that get_latest returns is one of the session.
LEMMA CheckFollows ==
  ASSUME CountsInv, TurnsInv', SummariesFollow, NEW h \in Handler, Check(h)
  PROVE  SummariesFollow'
<1>. DEFINE last == AtOf(Latest(h))
<1>1. /\ turn \in [Handler -> TurnState] /\ turn' \in [Handler -> TurnState]
      /\ clock \in Nat /\ turn[h] \in TurnState
      /\ turn[h].pc = "check" /\ turn[h].summary = {}
  BY OpenTurnFacts DEF CountsInv, TurnsInv, ChatTypeOK, Check, At
<1>2. IsSummaryOf(turn[h].session, last)
  <2>1. Latest(h) = Recent(summaries[turn[h].session], 1)
    BY <1>1, SeesItsSession DEF CountsInv
  <2>2. Latest(h) \subseteq summaries[turn[h].session]
    BY <2>1 DEF Recent
  <2>3. Latest(h) # {} => last \in Ats(Latest(h))
    BY DEF AtOf, Ats
  <2>4. Latest(h) = {} => last = 0
    BY DEF AtOf
  <2>. QED BY <2>2, <2>3, <2>4 DEF IsSummaryOf, Ats
<1>. HIDE DEF last
<1>3. /\ UNCHANGED <<messages, summaries, clock>>
      /\ \A g \in Handler \ {h} : turn'[g] = turn[g]
      /\ turn'[h].pc \notin {"llm", "save"} /\ turn'[h].summary = {}
      /\ turn'[h].after \in {0, last} /\ turn'[h].session = turn[h].session
  BY <1>1 DEF Check, Set, Rows, Counts, TurnState, last
<1>4. Frame(h)
  BY <1>1, <1>3 DEF Frame
<1>5. IsSummaryOf(turn'[h].session, turn'[h].after)
  BY <1>2, <1>3 DEF IsSummaryOf
<1>. QED BY <1>3, <1>4, <1>5, NothingToFollow

\* get_recent: the session's summaries have counted messages of the session, and
\* the turn is given those of them that its limit does not leave out.
LEMMA ReadFollows ==
  ASSUME CountsInv, TurnsInv', SummariesFollow, NEW h \in Handler, ReadForSummary(h)
  PROVE  SummariesFollow'
<1>. DEFINE s == turn[h].session
            seen == Ats(Recent(Visible(h), SummaryLimit))
<1>1. /\ turn \in [Handler -> TurnState] /\ turn' \in [Handler -> TurnState]
      /\ clock \in Nat /\ turn[h] \in TurnState
      /\ turn[h].pc = "summarise" /\ turn[h].summary = {}
  BY OpenTurnFacts DEF CountsInv, TurnsInv, ChatTypeOK, ReadForSummary, At
<1>2. ASSUME NEW a \in summaries[s] PROVE GivenOrLeftOut(a, seen, Visible(h))
  <2>. SUFFICES ASSUME NEW x \in a.counted, x \notin seen
                PROVE  Cardinality({m \in Visible(h) : m.at > x}) >= SummaryLimit
    BY DEF GivenOrLeftOut
  <2>1. s \in Session /\ Visible(h) = Own(h) \cup messages[s]
    BY <1>1, SeesItsSession DEF CountsInv
  <2>2. a.counted \subseteq Ats(messages[s])
    BY <2>1 DEF CountsInv, SummariesInv, CountsAreOfMessages
  <2>3. PICK m \in Visible(h) : m.at = x
    BY <2>1, <2>2 DEF Ats
  <2>4. m \notin Recent(Visible(h), SummaryLimit)
    BY <2>3 DEF Ats
  <2>5. ~(Cardinality({k \in Visible(h) : k.at > x}) < SummaryLimit)
    BY <2>3, <2>4 DEF Recent
  <2>6. IsFiniteSet({k \in Visible(h) : k.at > x})
    <3>1. IsFiniteSet(Visible(h))
      BY <1>1, SeesAll DEF CountsInv, SummariesInv
    <3>. QED BY <3>1, FS_Subset
  <2>7. Cardinality({k \in Visible(h) : k.at > x}) \in Nat /\ SummaryLimit \in Nat
    BY <2>6, FS_CardinalityType, ChatAssumption
  <2>. QED BY <2>5, <2>7
<1>. HIDE DEF seen
<1>3. /\ UNCHANGED <<messages, summaries, clock>>
      /\ \A g \in Handler \ {h} : turn'[g] = turn[g]
      /\ turn'[h].pc = "llm" /\ turn'[h].summary = {} /\ turn'[h].given = seen
      /\ turn'[h].after = turn[h].after /\ turn'[h].session = turn[h].session
      /\ Visible(h)' = Visible(h)
  <2>1. Set(h, [turn[h] EXCEPT !.pc = "llm", !.given = seen])
    BY DEF ReadForSummary, seen
  <2>2. UNCHANGED <<messages, summaries, clock>>
    BY DEF ReadForSummary, Rows, Counts
  <2>3. turn'[h] = [turn[h] EXCEPT !.pc = "llm", !.given = seen]
    BY <1>1, <2>1 DEF Set
  <2>4. /\ turn'[h].pc = "llm" /\ turn'[h].summary = {} /\ turn'[h].given = seen
        /\ turn'[h].after = turn[h].after /\ turn'[h].session = turn[h].session
        /\ turn'[h].user = turn[h].user /\ turn'[h].reply = turn[h].reply
        /\ turn'[h].tenant = turn[h].tenant /\ turn'[h].conf = turn[h].conf
    BY <1>1, <2>3 DEF TurnState
  <2>5. Visible(h)' = Visible(h)
    BY <2>2, <2>4 DEF Visible, Own
  <2>. QED BY <1>1, <2>1, <2>2, <2>4, <2>5 DEF Set
<1>4. Frame(h)
  BY <1>1, <1>3 DEF Frame
<1>5. IsSummaryOf(s, turn[h].after)
  BY <1>1 DEF SummariesFollow, Follows
<1>6. Follows(h)'
  BY <1>2, <1>3, <1>5 DEF Follows, Fits, GivenOrLeftOut, IsSummaryOf
<1>. QED BY <1>4, <1>6, FollowsKept

\* The count leaves what the turn was given as it is.
LEMMA CountFollows ==
  ASSUME CountsInv, TurnsInv', SummariesFollow, NEW h \in Handler, CountForSummary(h)
  PROVE  SummariesFollow'
<1>. DEFINE seen == Ats(Visible(h))
<1>1. /\ turn \in [Handler -> TurnState] /\ turn' \in [Handler -> TurnState]
      /\ clock \in Nat /\ turn[h] \in TurnState
      /\ turn[h].pc = "llm" /\ turn[h].summary = {}
  BY OpenTurnFacts DEF CountsInv, TurnsInv, ChatTypeOK, CountForSummary, At
<1>2. Set(h, [turn[h] EXCEPT !.counted = seen, !.pc = "save"])
  BY DEF CountForSummary
<1>. HIDE DEF seen
<1>3. turn'[h] = [turn[h] EXCEPT !.counted = seen, !.pc = "save"]
  BY <1>1, <1>2 DEF Set
<1>4. /\ turn'[h].pc = "save" /\ turn'[h].summary = {}
      /\ turn'[h].after = turn[h].after /\ turn'[h].given = turn[h].given
      /\ turn'[h].session = turn[h].session
      /\ turn'[h].user = turn[h].user /\ turn'[h].reply = turn[h].reply
      /\ turn'[h].tenant = turn[h].tenant /\ turn'[h].conf = turn[h].conf
  BY <1>1, <1>3 DEF TurnState
<1>5. UNCHANGED <<messages, summaries, clock>>
  BY DEF CountForSummary, Rows, Counts
<1>6. Visible(h)' = Visible(h)
  BY <1>4, <1>5 DEF Visible, Own
<1>7. Frame(h)
  BY <1>1, <1>2, <1>5 DEF Frame, Set
<1>8. IsSummaryOf(turn[h].session, turn[h].after) /\ Fits(h, turn[h].after, turn[h].given)
  BY <1>1 DEF SummariesFollow, Follows
<1>9. Follows(h)'
  BY <1>4, <1>5, <1>6, <1>8 DEF Follows, Fits, GivenOrLeftOut, IsSummaryOf
<1>. QED BY <1>7, <1>9, FollowsKept

\* The summary is inserted with what the turn has read.
LEMMA SaveSummaryFollows ==
  ASSUME CountsInv, TurnsInv', SummariesFollow, NEW h \in Handler, SaveSummary(h)
  PROVE  SummariesFollow'
<1>. DEFINE s == turn[h].session
            k == [at |-> clock + 1, tenant |-> turn[h].tenant,
                  given |-> turn[h].given, counted |-> turn[h].counted,
                  after |-> turn[h].after]
<1>1. /\ turn \in [Handler -> TurnState] /\ turn' \in [Handler -> TurnState]
      /\ clock \in Nat /\ turn[h] \in TurnState
      /\ turn[h].pc = "save" /\ turn[h].summary = {}
  BY OpenTurnFacts DEF CountsInv, TurnsInv, ChatTypeOK, SaveSummary, At
<1>2. k.given = turn[h].given /\ k.after = turn[h].after
  OBVIOUS
<1>3. Set(h, [turn[h] EXCEPT !.pc = "commit", !.given = {}, !.counted = {},
                 !.after = 0, !.summary = {k}])
  BY DEF SaveSummary
<1>. HIDE DEF k
<1>4. turn'[h] = [turn[h] EXCEPT !.pc = "commit", !.given = {}, !.counted = {},
                    !.after = 0, !.summary = {k}]
  BY <1>1, <1>3 DEF Set
<1>5. /\ turn'[h].pc = "commit" /\ turn'[h].summary = {k} /\ turn'[h].after = 0
      /\ turn'[h].session = turn[h].session
      /\ turn'[h].user = turn[h].user /\ turn'[h].reply = turn[h].reply
      /\ turn'[h].tenant = turn[h].tenant /\ turn'[h].conf = turn[h].conf
  BY <1>1, <1>4 DEF TurnState
<1>6. UNCHANGED <<messages, summaries>> /\ clock' = clock + 1
  BY DEF SaveSummary, Rows
<1>7. Visible(h)' = Visible(h)
  BY <1>5, <1>6 DEF Visible, Own
<1>8. Frame(h)
  BY <1>1, <1>3, <1>6 DEF Frame, Set
<1>9. IsSummaryOf(s, k.after) /\ Fits(h, k.after, k.given)
  BY <1>1, <1>2 DEF SummariesFollow, Follows
<1>10. Follows(h)'
  BY <1>5, <1>6, <1>7, <1>9 DEF Follows, Fits, GivenOrLeftOut, IsSummaryOf
<1>. QED BY <1>8, <1>10, FollowsKept

\* The times of summaries tell them apart: after a commit it is still the same
\* summary that another one was made after.
LEMMA TheOneBefore ==
  ASSUME CountsInv, NEW h \in Handler, Commits(h), NEW s \in Session,
         NEW a \in summaries'[s], IsSummaryOf(s, a.at)
  PROVE  a \in summaries[s]
<1>1. a \in Made(s)' /\ Made(s)' \subseteq Made(s)
  <2>1. a \in Made(s)'
    BY DEF Made
  <2>. QED BY <2>1, CommitMakesNone
<1>2. a.at # 0
  BY <1>1 DEF CountsInv, SummariesInv, OneIsLatestAndOneCountedMost
<1>3. PICK b \in summaries[s] : b.at = a.at
  BY <1>2 DEF IsSummaryOf
<1>4. b \in Made(s)
  BY DEF Made
<1>5. a = b
  BY <1>1, <1>3, <1>4 DEF CountsInv, SummariesInv, OneIsLatestAndOneCountedMost
<1>. QED BY <1>5

LEMMA CommitFollows ==
  ASSUME CountsInv, TurnsInv', SummariesFollow, NEW h \in Handler, Commit(h)
  PROVE  SummariesFollow'
<1>1. Commits(h) /\ turn[h].session \in Session
  BY CommitCommits DEF Commits
<1>2. \A s \in Session : /\ summaries[s] \subseteq summaries'[s]
                         /\ messages[s] \subseteq messages'[s]
                         /\ IsFiniteSet(messages'[s])
  <2>. SUFFICES ASSUME NEW s \in Session
                PROVE  /\ summaries[s] \subseteq summaries'[s]
                       /\ messages[s] \subseteq messages'[s]
                       /\ IsFiniteSet(messages'[s])
    OBVIOUS
  <2>1. IsFiniteSet(messages'[s])
    BY DEF TurnsInv, ChatTypeOK
  <2>2. CASE s = turn[h].session
    <3>1. Visible(h) = Own(h) \cup messages[s]
      BY <1>1, <2>2, SeesItsSession DEF Commits, CountsInv
    <3>. QED BY <1>1, <2>1, <2>2, <3>1 DEF Commits
  <2>3. CASE s # turn[h].session
    BY <1>1, <2>1, <2>3 DEF Commits
  <2>. QED BY <2>2, <2>3
<1>3. \A s \in Session : \A at : IsSummaryOf(s, at) => IsSummaryOf(s, at)'
  BY <1>2 DEF IsSummaryOf
<1>4. ASSUME NEW g \in Handler PROVE Follows(g)'
  <2>1. CASE g = h
    BY <1>1, <2>1 DEF Commits, IdleTurn, Follows, IsSummaryOf
  <2>2. CASE g # h
    <3>1. turn'[g] = turn[g] /\ Follows(g)
      BY <1>1, <2>2 DEF Commits, SummariesFollow
    <3>2. CASE turn[g].pc = "idle"
      <4>1. turn[g].summary = {}
        BY <3>2, OpenTurnFacts
      <4>. QED BY <3>1, <3>2, <4>1 DEF Follows
    <3>3. CASE turn[g].pc # "idle"
      <4>. DEFINE s == turn[g].session
      <4>1. s \in Session
        BY <3>3, OpenTurnFacts DEF CountsInv, TurnsInv, ChatTypeOK, TurnState
      <4>2. Visible(g) \subseteq Visible(g)' /\ IsFiniteSet(Visible(g)')
        <5>1. Own(g)' = Own(g) /\ IsFiniteSet(Own(g))
          BY <3>1, <3>3, VisibleMessages DEF Own, CountsInv, TurnsInv
        <5>2. Visible(g)' = Own(g) \cup {m \in messages'[s] : m.tenant = turn[g].tenant}
          BY <3>1, <5>1 DEF Visible
        <5>3. Visible(g) = Own(g) \cup {m \in messages[s] : m.tenant = turn[g].tenant}
          BY DEF Visible
        <5>. DEFINE A == {m \in messages[s] : m.tenant = turn[g].tenant}
                    B == {m \in messages'[s] : m.tenant = turn[g].tenant}
        <5>4. IsFiniteSet(B) /\ A \subseteq B
          BY <1>2, <4>1, FS_Subset
        <5>. HIDE DEF A, B
        <5>5. IsFiniteSet(Own(g) \cup B)
          BY <5>1, <5>4, FS_Union
        <5>6. Visible(g)' = Own(g) \cup B /\ Visible(g) = Own(g) \cup A
          BY <5>2, <5>3 DEF A, B
        <5>. QED BY <5>4, <5>5, <5>6
      <4>3. ASSUME NEW after, NEW given, IsSummaryOf(s, after), Fits(g, after, given)
            PROVE  Fits(g, after, given)'
        <5>. SUFFICES ASSUME NEW a \in summaries'[s], after = a.at
                      PROVE  GivenOrLeftOut(a, given, Visible(g)')
          BY <3>1 DEF Fits, GivenOrLeftOut
        <5>1. a \in summaries[s]
          BY <1>1, <4>1, <4>3, TheOneBefore
        <5>2. GivenOrLeftOut(a, given, Visible(g))
          BY <4>3, <5>1 DEF Fits
        <5>. QED BY <4>2, <5>2, MoreIsLeftOut
      <4>. QED BY <1>3, <3>1, <3>3, <4>1, <4>3 DEF Follows
    <3>. QED BY <3>2, <3>3
  <2>. QED BY <2>1, <2>2
<1>5. ASSUME NEW s \in Session, NEW b \in summaries'[s]
      PROVE  /\ IsSummaryOf(s, b.after)'
             /\ \A a \in summaries'[s] :
                  b.after = a.at => GivenOrLeftOut(a, b.given, messages'[s])
  <2>1. CASE b \in summaries[s]
    <3>1. IsSummaryOf(s, b.after)
      BY <2>1 DEF SummariesFollow
    <3>2. ASSUME NEW a \in summaries'[s], b.after = a.at
          PROVE  GivenOrLeftOut(a, b.given, messages'[s])
      <4>1. a \in summaries[s]
        BY <1>1, <3>1, <3>2, TheOneBefore
      <4>2. GivenOrLeftOut(a, b.given, messages[s])
        BY <2>1, <3>2, <4>1 DEF SummariesFollow, NoMessageFallsBetween
      <4>. QED BY <1>2, <4>2, MoreIsLeftOut
    <3>. QED BY <1>3, <3>1, <3>2
  <2>2. CASE b \notin summaries[s]
    <3>1. s = turn[h].session /\ b \in turn[h].summary /\ messages'[s] = Visible(h)
      BY <1>1, <2>2 DEF Commits
    <3>2. IsSummaryOf(s, b.after) /\ Fits(h, b.after, b.given)
      BY <3>1 DEF SummariesFollow, Follows
    <3>3. ASSUME NEW a \in summaries'[s], b.after = a.at
          PROVE  GivenOrLeftOut(a, b.given, messages'[s])
      <4>1. a \in summaries[s]
        BY <1>1, <3>2, <3>3, TheOneBefore
      <4>. QED BY <3>1, <3>2, <3>3, <4>1 DEF Fits
    <3>. QED BY <1>3, <3>2, <3>3
  <2>. QED BY <2>1, <2>2
<1>6. NoMessageFallsBetween'
  BY <1>5 DEF NoMessageFallsBetween, GivenOrLeftOut
<1>. QED BY <1>4, <1>5, <1>6 DEF SummariesFollow

\* The whole invariant: what a turn holds, what summaries have counted, and what
\* each is given after the one before it.
THEOREM ChatInvariant == ChatSpec => []ChatInv
<1>1. ChatInit => SummariesFollow
  BY DEF ChatInit, IdleTurn, SummariesFollow, Follows, IsSummaryOf,
         NoMessageFallsBetween
<1>2. CountsInv /\ SummariesFollow /\ TurnsInv' /\ [ChatNext]_chatVars => SummariesFollow'
  <2>. SUFFICES ASSUME CountsInv, SummariesFollow, TurnsInv', [ChatNext]_chatVars
                PROVE  SummariesFollow'
    OBVIOUS
  <2>1. CASE UNCHANGED chatVars
    <3>1. turn' = turn /\ messages' = messages /\ summaries' = summaries
      BY <2>1 DEF chatVars
    <3>2. \A h : Visible(h)' = Visible(h)
      BY <3>1 DEF Visible, Own
    <3>3. ASSUME NEW h \in Handler PROVE Follows(h)'
      <4>1. Follows(h)
        BY DEF SummariesFollow
      <4>2. \A after, given : Fits(h, after, given) => Fits(h, after, given)'
        BY <3>1, <3>2 DEF Fits, GivenOrLeftOut
      <4>3. \A s, at : IsSummaryOf(s, at) => IsSummaryOf(s, at)'
        BY <3>1 DEF IsSummaryOf
      <4>. QED BY <3>1, <4>1, <4>2, <4>3 DEF Follows
    <3>4. NoMessageFallsBetween' <=> NoMessageFallsBetween
      BY <3>1 DEF NoMessageFallsBetween, GivenOrLeftOut
    <3>5. \A s \in Session : \A b \in summaries'[s] : IsSummaryOf(s, b.after)'
      BY <3>1 DEF SummariesFollow, IsSummaryOf
    <3>. QED BY <3>3, <3>4, <3>5 DEF SummariesFollow
  <2>2. ASSUME NEW h \in Handler, Begin(h) \/ Serve(h) \/ Fail(h)
        PROVE  SummariesFollow'
    BY <2>2, PlainStepsFollow, CheckFollows, ReadFollows, CountFollows,
       SaveSummaryFollows, CommitFollows DEF Serve
  <2>. QED BY <2>1, <2>2 DEF ChatNext
<1>3. /\ ChatInv <=> CountsInv /\ SummariesFollow
      /\ CountsInv => TurnsInv
  BY DEF ChatInv, CountsInv
<1>. QED BY <1>1, <1>2, <1>3, CountsInvariant, PTL DEF ChatSpec

\* Between two summaries of a conversation only those messages fall that the
\* second one's limit leaves out, whichever turns were open meanwhile.
THEOREM SummariesFollowOneAnother == ChatSpec => []NoMessageFallsBetween
<1>1. ChatInv => NoMessageFallsBetween
  BY DEF ChatInv, SummariesFollow
<1>. QED BY <1>1, ChatInvariant, PTL

-----------------------------------------------------------------------------
(* What a prompt misses *)

\* What PromptsMissLittle allows.
Allowed ==
  (IF WindowSize <= SummaryThreshold THEN SummaryThreshold - WindowSize ELSE 0)
    + 2 * (Cardinality(Handler) - 1)

LEMMA AllowedIsANumber ==
  /\ Allowed \in Nat /\ Allowed >= 2 * (Cardinality(Handler) - 1)
  /\ Allowed >= SummaryThreshold - WindowSize + 2 * (Cardinality(Handler) - 1)
<1>1. Cardinality(Handler) \in Nat \ {0}
  BY HandlersAreMany
<1>2. WindowSize \in Nat /\ SummaryThreshold \in Nat
  BY ChatAssumption
<1>. QED BY <1>1, <1>2 DEF Allowed

\* Without a counted message in the window, the window, what the summary has
\* counted and what the prompt misses are apart.
LEMMA ThreeShares ==
  ASSUME NEW V, IsFiniteSet(V), \A a, b \in V : a.at = b.at => a = b,
         NEW R, R \subseteq V, NEW C, C \subseteq Ats(V), Ats(R) \cap C = {}
  PROVE  Cardinality({m \in V \ R : m.at \notin C}) + Cardinality(R) + Cardinality(C)
           <= Cardinality(V)
<1>. DEFINE U == {m \in V \ R : m.at \notin C}
<1>1. U \subseteq V /\ U \cap R = {} /\ Ats(U) \cap C = {}
  BY DEF Ats
<1>. HIDE DEF U
<1>2. IsFiniteSet(U \cup R) /\ Cardinality(U \cup R) = Cardinality(U) + Cardinality(R)
      /\ Cardinality(U) \in Nat /\ Cardinality(R) \in Nat
  <2>1. IsFiniteSet(U) /\ IsFiniteSet(R)
    BY <1>1, FS_Subset
  <2>. QED BY <1>1, <2>1, DisjointSum
<1>3. U \cup R \subseteq V /\ \A a, b \in U \cup R : a.at = b.at => a = b
  BY <1>1
<1>4. IsFiniteSet(Ats(V)) /\ Cardinality(Ats(V)) = Cardinality(V)
  BY TimesTellApart
<1>5. IsFiniteSet(Ats(U \cup R)) /\ Cardinality(Ats(U \cup R)) = Cardinality(U \cup R)
  BY <1>2, <1>3, TimesTellApart
<1>6. Ats(U \cup R) \cap C = {} /\ Ats(U \cup R) \cup C \subseteq Ats(V)
  BY <1>1, <1>3 DEF Ats
<1>7. IsFiniteSet(C)
  BY <1>4, FS_Subset
<1>8. /\ Cardinality(Ats(U \cup R) \cup C) = Cardinality(Ats(U \cup R)) + Cardinality(C)
      /\ Cardinality(C) \in Nat
  BY <1>5, <1>6, <1>7, DisjointSum
<1>9. Cardinality(Ats(U \cup R) \cup C) <= Cardinality(Ats(V))
  BY <1>4, <1>6, FS_Subset
<1>10. Cardinality(U) + Cardinality(R) + Cardinality(C) <= Cardinality(V)
  BY <1>2, <1>4, <1>5, <1>8, <1>9
<1>. QED BY <1>10 DEF U

\* With a counted message in the window, the summary has passed over what the
\* prompt misses: older messages of turns that were open when it was counted.
LEMMA MissedArePassedOver ==
  ASSUME CountsInv, NEW h \in Handler, turn[h].pc = "window",
         NEW C \in CountsMade(turn[h].session),
         NEW x \in Visible(h), x.at \in C
  PROVE  Cardinality({m \in Visible(h) : m.at < x.at /\ m.at \notin C})
           <= 2 * (Cardinality(Handler) - 1)
<1>. DEFINE s == turn[h].session
            U == {m \in Visible(h) : m.at < x.at /\ m.at \notin C}
            P == PassedOver(s, C)
            O == StillOpen(s, C)
            N == Cardinality(Handler)
<1>1. TurnsInv /\ TimesAreNew
  BY DEF CountsInv, SummariesInv
<1>2. s \in Session /\ Visible(h) = Own(h) \cup messages[s]
  BY <1>1, SeesItsSession
<1>7. Cardinality(P) + 2 * Cardinality(O) <= 2 * (N - 1)
  BY <1>2 DEF CountsInv, SummariesInv, FewArePassedOver
<1>8. IsFiniteSet(P) /\ Cardinality(P) \in Nat /\ O \in SUBSET Handler /\ N \in Nat
      /\ Cardinality(O) \in Nat
  <2>1. IsFiniteSet(P) /\ Cardinality(P) \in Nat
    BY <1>1, <1>2, PassedOverCounts
  <2>2. O \in SUBSET Handler
    BY DEF StillOpen
  <2>. QED BY <2>1, <2>2, HandlersAreMany
<1>9. Ats(Own(h)) = {turn[h].user} /\ turn[h].user # 0
  <2>1. turn[h].user # 0 /\ turn[h].reply = 0
    BY OpenTurnFacts
  <2>2. Ats(Own(h)) = Times(h)
    BY <1>1, TimesOfItsOwn
  <2>. QED BY <2>1, <2>2 DEF Times
<1>10. CASE h \in O
  <2>1. IsFiniteSet(Own(h)) /\ Cardinality(Own(h)) = 1
    <3>1. \A a, b \in Own(h) : a.at = b.at => a = b
      BY <1>1, TimesOfItsOwn
    <3>2. PICK m \in Own(h) : m.at = turn[h].user
      BY <1>9 DEF Ats
    <3>3. Own(h) = {m}
      BY <1>9, <3>1, <3>2 DEF Ats
    <3>. QED BY <3>3, FS_Singleton
  <2>2. U \subseteq P \cup Own(h)
    BY <1>2 DEF PassedOver
  <2>. HIDE DEF U, P, O, N
  <2>3. /\ IsFiniteSet(P \cup Own(h))
        /\ Cardinality(P \cup Own(h)) <= Cardinality(P) + 1
    <3>1. /\ IsFiniteSet(P \cup Own(h))
          /\ Cardinality(P \cup Own(h)) =
               Cardinality(P) + Cardinality(Own(h)) - Cardinality(P \cap Own(h))
      BY <1>8, <2>1, FS_Union
    <3>2. IsFiniteSet(P \cap Own(h))
      BY <1>8, FS_Subset
    <3>3. Cardinality(P \cap Own(h)) \in Nat
      BY <3>2, FS_CardinalityType
    <3>. QED BY <1>8, <2>1, <3>1, <3>3
  <2>4. Cardinality(U) <= Cardinality(P \cup Own(h)) /\ IsFiniteSet(U)
    BY <2>2, <2>3, FS_Subset
  <2>5. Cardinality(U) \in Nat /\ Cardinality(P \cup Own(h)) \in Nat
    BY <2>3, <2>4, FS_CardinalityType
  <2>6. Cardinality(O) >= 1
    <3>1. Cardinality(O \ {h}) = Cardinality(O) - 1
      BY <1>8, <1>10, HandlersAreMany
    <3>2. O \ {h} \in SUBSET Handler
      BY <1>8
    <3>3. Cardinality(O \ {h}) \in Nat
      BY <3>2, HandlersAreMany
    <3>. QED BY <1>8, <3>1, <3>3
  <2>7. Cardinality(U) <= 2 * (N - 1)
    BY <1>7, <1>8, <2>3, <2>4, <2>5, <2>6
  <2>. QED BY <2>7 DEF U, N
<1>11. CASE h \notin O
  <2>1. \A m \in U : m \notin Own(h)
    BY <1>9, <1>11 DEF StillOpen, Ats
  <2>2. U \subseteq P
    BY <1>2, <2>1 DEF PassedOver
  <2>. HIDE DEF U, P, O, N
  <2>3. Cardinality(U) <= Cardinality(P) /\ IsFiniteSet(U)
    BY <1>8, <2>2, FS_Subset
  <2>4. Cardinality(U) \in Nat
    BY <2>3, FS_CardinalityType
  <2>5. Cardinality(U) <= 2 * (N - 1)
    BY <1>7, <1>8, <2>3, <2>4
  <2>. QED BY <2>5 DEF U, N
<1>. QED BY <1>10, <1>11

\* What a turn that reads its window sees, and no summary it has read has counted.
Untold(h) ==
  {m \in Visible(h) \ Recent(Visible(h), WindowSize) :
     m.at \notin UNION {k.counted : k \in turn[h].heard}}

\* The summary in a prompt, one or none, is a committed one of the session.
HeardIsCommitted(h) ==
  turn[h].pc = "window" =>
    /\ turn[h].heard \subseteq summaries[turn[h].session]
    /\ \A a, b \in turn[h].heard : a = b

LEMMA HeardCounts ==
  ASSUME CountsInv, NEW h \in Handler, turn[h].pc = "window", HeardIsCommitted(h)
  PROVE  LET C == UNION {k.counted : k \in turn[h].heard} IN
         /\ C = {} \/ C \in CountsMade(turn[h].session)
         /\ C \subseteq Ats(Visible(h))
<1>. DEFINE s == turn[h].session
            C == UNION {k.counted : k \in turn[h].heard}
<1>1. s \in Session /\ Visible(h) = Own(h) \cup messages[s]
  BY SeesItsSession DEF CountsInv
<1>2. CASE turn[h].heard = {}
  BY <1>2
<1>3. CASE turn[h].heard # {}
  <2>1. PICK k \in turn[h].heard : turn[h].heard = {k}
    BY <1>3 DEF HeardIsCommitted
  <2>2. k \in summaries[s] /\ C = k.counted
    BY <2>1 DEF HeardIsCommitted
  <2>3. C \in CountsMade(s)
    BY <2>2 DEF CountsMade
  <2>4. C \subseteq Ats(messages[s])
    BY <1>1, <2>2 DEF CountsInv, SummariesInv, CountsAreOfMessages
  <2>. QED BY <1>1, <2>3, <2>4 DEF Ats
<1>. QED BY <1>2, <1>3

LEMMA LittleIsUntold ==
  ASSUME CountsInv, NEW h \in Handler, turn[h].pc = "window", HeardIsCommitted(h),
         HeardTheMost(h)
  PROVE  Cardinality(Untold(h)) <= Allowed /\ IsFiniteSet(Untold(h))
<1>. DEFINE s == turn[h].session
            V == Visible(h)
            R == Recent(V, WindowSize)
            C == UNION {k.counted : k \in turn[h].heard}
            N == Cardinality(Handler)
<1>1. TurnsInv /\ TimesAreNew /\ CountsAreOfMessages
  BY DEF CountsInv, SummariesInv
<1>2. s \in Session /\ V = Own(h) \cup messages[s]
  BY <1>1, SeesItsSession
<1>3. /\ IsFiniteSet(V) /\ \A a, b \in V : a.at = b.at => a = b
      /\ \A a \in V : a.at \in Nat
      /\ Cardinality(V) = Cardinality(messages[s]) + 1
      /\ Cardinality(messages[s]) \in Nat
  <2>1. Cardinality(Times(h)) = 1
    <3>1. turn[h].user # 0 /\ turn[h].reply = 0
      BY OpenTurnFacts
    <3>2. Times(h) = {turn[h].user}
      BY <3>1 DEF Times
    <3>. QED BY <3>2, FS_Singleton
  <2>2. Cardinality(messages[s]) \in Nat
    BY <1>1, <1>2, SessionTimes
  <2>3. /\ IsFiniteSet(V) /\ \A a, b \in V : a.at = b.at => a = b
        /\ \A a \in V : a.at \in Nat
        /\ Cardinality(V) = Cardinality(messages[s]) + Cardinality(Times(h))
    BY <1>1, SeesAll
  <2>. QED BY <2>1, <2>2, <2>3
<1>4. Untold(h) = {m \in V \ R : m.at \notin C} /\ IsFiniteSet(Untold(h))
  <2>1. Untold(h) = {m \in V \ R : m.at \notin C} /\ Untold(h) \subseteq V
    BY DEF Untold
  <2>. QED BY <1>3, <2>1, FS_Subset
<1>5. /\ R \subseteq V
      /\ WindowSize <= Cardinality(V) => Cardinality(R) = WindowSize
      /\ WindowSize >= Cardinality(V) => R = V
      /\ \A m \in R : \A j \in V \ R : j.at < m.at
  <2>. HIDE DEF V
  <2>1. WindowSize \in Nat
    BY ChatAssumption
  <2>. QED BY <1>3, <2>1, WindowIsFull
<1>6. /\ Cardinality(messages[s]) < Cardinality(C) + SummaryThreshold + 2 * (N - 1)
      /\ Cardinality(C) \in Nat /\ N \in Nat \ {0} /\ SummaryThreshold \in Nat
      /\ WindowSize \in Nat
  <2>1. PICK n \in {0} \cup {Counted(k) : k \in summaries[s]} :
          Cardinality(messages[s]) < n + SummaryThreshold + 2 * (N - 1)
    BY <1>2, InTime DEF SummariesKeepUp
  <2>2. IsFiniteSet(C) /\ Cardinality(C) \in Nat
    <3>1. C = {} \/ C \in CountsMade(s)
      BY HeardCounts
    <3>2. IsFiniteSet({}) /\ Cardinality({}) = 0
      BY FS_EmptySet
    <3>3. \A D \in CountsMade(s) : IsFiniteSet(D) /\ Cardinality(D) \in Nat
      BY <1>1, <1>2, CountsAreFinite
    <3>. HIDE DEF C, s
    <3>. QED BY <3>1, <3>2, <3>3
  <2>3. n \in Nat /\ n <= Cardinality(C)
    <3>1. CASE n = 0
      BY <2>2, <3>1
    <3>2. CASE n # 0
      <4>1. PICK k \in summaries[s] : n = Counted(k)
        BY <2>1, <3>2
      <4>2. k.counted \in CountsMade(s)
        BY DEF CountsMade
      <4>3. Counted(k) \in Nat
        BY <1>1, <1>2, <4>2, CountsAreFinite DEF Counted
      <4>. QED BY <4>1, <4>3 DEF HeardTheMost, CountOf
    <3>. QED BY <3>1, <3>2
  <2>. HIDE DEF C
  <2>4. Cardinality(messages[s]) \in Nat /\ N \in Nat \ {0} /\ SummaryThreshold \in Nat
        /\ WindowSize \in Nat
    BY <1>3, HandlersAreMany, ChatAssumption
  <2>. QED BY <2>1, <2>2, <2>3, <2>4
<1>7. CASE WindowSize >= Cardinality(V)
  <2>1. Untold(h) = {}
    BY <1>4, <1>5, <1>7
  <2>2. Cardinality(Untold(h)) = 0
    BY <2>1, FS_EmptySet
  <2>. QED BY <1>4, <2>2, AllowedIsANumber
<1>8. CASE WindowSize < Cardinality(V) /\ Ats(R) \cap C = {}
  <2>1. C \subseteq Ats(V)
    BY HeardCounts
  <2>. HIDE DEF V, R, C, N
  <2>2. Cardinality(Untold(h)) + Cardinality(R) + Cardinality(C) <= Cardinality(V)
    BY <1>3, <1>4, <1>5, <1>8, <2>1, ThreeShares
  <2>3. Cardinality(R) = WindowSize /\ Cardinality(V) \in Nat
    BY <1>3, <1>5, <1>6, <1>8
  <2>4. Cardinality(Untold(h)) \in Nat
    BY <1>4, FS_CardinalityType
  <2>5. Cardinality(Untold(h)) <= SummaryThreshold - WindowSize + 2 * (N - 1)
    BY <1>3, <1>6, <2>2, <2>3, <2>4
  <2>. QED BY <1>4, <1>6, <2>4, <2>5, AllowedIsANumber DEF N
<1>9. CASE ~(Ats(R) \cap C = {})
  <2>1. PICK x \in R : x.at \in C
    BY <1>9 DEF Ats
  <2>2. C \in CountsMade(s)
    BY <2>1, HeardCounts
  <2>. DEFINE U == {m \in V : m.at < x.at /\ m.at \notin C}
  <2>3. Cardinality(U) <= 2 * (N - 1)
    BY <1>5, <2>1, <2>2, MissedArePassedOver
  <2>4. Untold(h) \subseteq U
    BY <1>4, <1>5, <2>1
  <2>5. IsFiniteSet(U)
    BY <1>3, FS_Subset
  <2>. HIDE DEF U, N
  <2>6. Cardinality(Untold(h)) <= Cardinality(U)
    BY <2>4, <2>5, FS_Subset
  <2>7. Cardinality(Untold(h)) \in Nat /\ Cardinality(U) \in Nat
    BY <1>4, <2>5, FS_CardinalityType
  <2>. QED BY <1>4, <1>6, <2>3, <2>6, <2>7, AllowedIsANumber DEF N
<1>10. Cardinality(V) \in Nat /\ WindowSize \in Nat
  BY <1>3, <1>6
<1>11. WindowSize >= Cardinality(V) \/ WindowSize < Cardinality(V)
  <2>. HIDE DEF V
  <2>. QED BY <1>10
<1>. QED BY <1>7, <1>8, <1>9, <1>11

\* What a summary has counted and was not given is not among the most recent
\* messages: so what the prompt misses is what the summary has not counted.
LEMMA MissedIsUntold ==
  ASSUME CountsInv, NEW h \in Handler, turn[h].pc = "window", HeardIsCommitted(h),
         \A k \in turn[h].heard : GivenWhatItCounted(k)
  PROVE  Missed(h) \subseteq Untold(h)
<1>. DEFINE V == Visible(h)
            C == UNION {k.counted : k \in turn[h].heard}
<1>1. IsFiniteSet(V) /\ \A a, b \in V : a.at = b.at => a = b
  BY SeesAll DEF CountsInv, SummariesInv
<1>. SUFFICES ASSUME NEW m \in Missed(h) PROVE m \in Untold(h)
  OBVIOUS
<1>2. m \in V /\ m \notin Recent(V, WindowSize) /\ m \in Recent(V, SummaryLimit)
      /\ \A k \in turn[h].heard : m.at \notin k.given
  BY DEF Missed, Recent
<1>3. ASSUME m.at \in C PROVE FALSE
  <2>1. PICK k \in turn[h].heard : m.at \in k.counted
    BY <1>3
  <2>. DEFINE D == {y \in k.counted : y > m.at}
              E == {v \in V : v.at > m.at}
  <2>2. Cardinality(D) >= SummaryLimit
    BY <1>2, <2>1 DEF GivenWhatItCounted
  <2>3. k.counted \subseteq Ats(V)
    BY HeardCounts
  <2>4. D \subseteq Ats(E)
    BY <2>3 DEF Ats
  <2>5. IsFiniteSet(E) /\ \A a, b \in E : a.at = b.at => a = b
    BY <1>1, FS_Subset
  <2>6. ~(Cardinality(E) >= SummaryLimit)
    <3>1. Cardinality(E) < SummaryLimit
      BY <1>2 DEF Recent
    <3>2. Cardinality(E) \in Nat /\ SummaryLimit \in Nat
      BY <2>5, FS_CardinalityType, ChatAssumption
    <3>. HIDE DEF E
    <3>. QED BY <3>1, <3>2
  <2>. HIDE DEF D, E
  <2>7. IsFiniteSet(Ats(E)) /\ Cardinality(Ats(E)) = Cardinality(E)
    BY <2>5, TimesTellApart
  <2>8. Cardinality(D) <= Cardinality(Ats(E)) /\ IsFiniteSet(D)
    BY <2>4, <2>7, FS_Subset
  <2>9. Cardinality(D) \in Nat /\ Cardinality(E) \in Nat /\ SummaryLimit \in Nat
    BY <2>5, <2>8, FS_CardinalityType, ChatAssumption
  <2>. QED BY <2>2, <2>6, <2>7, <2>8, <2>9
<1>. QED BY <1>2, <1>3 DEF Untold

\* A turn that is about to read its window has just read a summary, or has not
\* moved since.
LEMMA OnlyReadersHear ==
  ASSUME CountsInv, NEW h \in Handler, Begin(h) \/ Serve(h) \/ Fail(h)
  PROVE  /\ turn'[h].pc = "window" => ReadSummary(h)
         /\ \A g \in Handler \ {h} : turn'[g] = turn[g]
<1>1. turn \in [Handler -> TurnState] /\ turn[h] \in TurnState
  BY DEF CountsInv, TurnsInv, ChatTypeOK
<1>2. CASE Begin(h)
  <2>1. PICK tn \in Tenant, s \in Session : StartSession(h, tn, s) \/ NameSession(h, tn, s)
    BY <1>2 DEF Begin
  <2>2. CASE StartSession(h, tn, s)
    BY <1>1, <2>2 DEF StartSession, Set, IdleTurn
  <2>3. CASE NameSession(h, tn, s)
    <3>. DEFINE p == IF owner[s] = tn THEN "user" ELSE "insert"
    <3>1. Set(h, [IdleTurn EXCEPT !.tenant = tn, !.session = s, !.pc = p])
          /\ p # "window"
      BY <2>3 DEF NameSession
    <3>. HIDE DEF p
    <3>. QED BY <1>1, <3>1 DEF Set, IdleTurn
  <2>. QED BY <2>1, <2>2, <2>3
<1>3. CASE SessionExists(h) \/ Commit(h) \/ Fail(h)
  <2>1. Set(h, IdleTurn)
    BY <1>3 DEF SessionExists, Commit, Fail
  <2>. QED BY <1>1, <2>1 DEF Set, IdleTurn
<1>4. ASSUME NEW p, p # "window", NEW f, f = [turn[h] EXCEPT !.pc = p]
      PROVE  f.pc # "window"
  BY <1>1, <1>4 DEF TurnState
<1>5. CASE ReadSummary(h)
  BY <1>1, <1>5 DEF ReadSummary, Set
<1>6. CASE InsertSession(h) \/ SaveUserMessage(h) \/ ReadWindow(h)
  BY <1>1, <1>6 DEF InsertSession, SaveUserMessage, ReadWindow, Set, TurnState
<1>7. CASE Converse(h) \/ ConverseAndAsk(h) \/ ConfirmationPending(h) \/ SaveReply(h)
  BY <1>1, <1>7 DEF Converse, ConverseAndAsk, ConfirmationPending, SaveReply, Set, TurnState
<1>8. CASE CountMessages(h)
  <2>. DEFINE n == Cardinality(Visible(h))
  <2>1. Set(h, [turn[h] EXCEPT !.count = n, !.pc = "check"])
    BY <1>8 DEF CountMessages
  <2>. HIDE DEF n
  <2>. QED BY <1>1, <2>1 DEF Set, TurnState
<1>9. CASE Check(h)
  <2>. DEFINE p == IF SummaryDue(h) THEN "summarise" ELSE "commit"
              a == IF SummaryDue(h) THEN AtOf(Latest(h)) ELSE 0
  <2>1. Set(h, [turn[h] EXCEPT !.count = 0, !.pc = p, !.after = a]) /\ p # "window"
    BY <1>9 DEF Check
  <2>. HIDE DEF p, a
  <2>. QED BY <1>1, <2>1 DEF Set, TurnState
<1>10. CASE ReadForSummary(h)
  <2>. DEFINE seen == Ats(Recent(Visible(h), SummaryLimit))
  <2>1. Set(h, [turn[h] EXCEPT !.pc = "llm", !.given = seen])
    BY <1>10 DEF ReadForSummary
  <2>. HIDE DEF seen
  <2>. QED BY <1>1, <2>1 DEF Set, TurnState
<1>11. CASE CountForSummary(h)
  <2>. DEFINE seen == Ats(Visible(h))
  <2>1. Set(h, [turn[h] EXCEPT !.counted = seen, !.pc = "save"])
    BY <1>11 DEF CountForSummary
  <2>. HIDE DEF seen
  <2>. QED BY <1>1, <2>1 DEF Set, TurnState
<1>12. CASE SaveSummary(h)
  <2>. DEFINE S == {[at |-> clock + 1, tenant |-> turn[h].tenant,
                     given |-> turn[h].given, counted |-> turn[h].counted,
                     after |-> turn[h].after]}
  <2>1. Set(h, [turn[h] EXCEPT !.pc = "commit", !.given = {}, !.counted = {},
                  !.after = 0, !.summary = S])
    BY <1>12 DEF SaveSummary
  <2>. HIDE DEF S
  <2>. QED BY <1>1, <2>1 DEF Set, TurnState
<1>. QED BY <1>2, <1>3, <1>5, <1>6, <1>7, <1>8, <1>9, <1>10, <1>11, <1>12 DEF Serve

\* The summary is read from the committed ones, and committed ones stay.
LEMMA HearingIsKept ==
  ASSUME CountsInv, \A g \in Handler : HeardIsCommitted(g),
         NEW h \in Handler, Begin(h) \/ Serve(h) \/ Fail(h), NEW g \in Handler
  PROVE  HeardIsCommitted(g)'
<1>1. \A s \in Session : summaries[s] \subseteq summaries'[s]
  <2>1. CASE Commit(h)
    BY <2>1 DEF Commit, CountsInv, TurnsInv, ChatTypeOK
  <2>2. CASE ~Commit(h)
    <3>1. summaries' = summaries
      BY <2>2 DEF Begin, StartSession, NameSession, Serve, InsertSession, SessionExists,
             SaveUserMessage, ReadSummary, ReadWindow, Converse, ConverseAndAsk,
             ConfirmationPending, SaveReply, CountMessages, Check, ReadForSummary,
             CountForSummary, SaveSummary, Fail, Rows
    <3>. QED BY <3>1
  <2>. QED BY <2>1, <2>2
<1>2. /\ turn'[h].pc = "window" => ReadSummary(h)
      /\ \A i \in Handler \ {h} : turn'[i] = turn[i]
  BY OnlyReadersHear
<1>. SUFFICES ASSUME turn'[g].pc = "window"
              PROVE  /\ turn'[g].heard \subseteq summaries'[turn'[g].session]
                     /\ \A a, b \in turn'[g].heard : a = b
  BY DEF HeardIsCommitted
<1>3. CASE g # h
  <2>1. turn'[g] = turn[g]
    BY <1>2, <1>3
  <2>2. turn[g].session \in Session
    BY <2>1, SeesItsSession DEF CountsInv
  <2>. QED BY <1>1, <2>1, <2>2 DEF HeardIsCommitted
<1>4. CASE g = h
  <2>. DEFINE s == turn[h].session
  <2>1. ReadSummary(h) /\ turn[h].pc = "context" /\ turn[h] \in TurnState
        /\ turn \in [Handler -> TurnState]
    BY <1>2, <1>4 DEF ReadSummary, At, CountsInv, TurnsInv, ChatTypeOK
  <2>2. turn'[h].heard = Latest(h) /\ turn'[h].session = s
    <3>. DEFINE L == Latest(h)
    <3>1. Set(h, [turn[h] EXCEPT !.heard = L, !.pc = "window"])
      BY <2>1 DEF ReadSummary
    <3>. HIDE DEF L
    <3>2. turn'[h].heard = L /\ turn'[h].session = s
      BY <2>1, <3>1 DEF Set, TurnState
    <3>. QED BY <3>2 DEF L
  <2>3. s \in Session /\ Latest(h) = Recent(summaries[s], 1)
    BY <2>1, SeesItsSession DEF CountsInv
  <2>4. \A a, b \in Recent(summaries[s], 1) : a = b
    <3>1. summaries[s] \subseteq Made(s) /\ OneIsLatestAndOneCountedMost
      BY DEF Made, CountsInv, SummariesInv
    <3>2. IsFiniteSet(summaries[s])
      BY <2>3, <3>1, FS_Subset DEF OneIsLatestAndOneCountedMost
    <3>3. \A a, b \in summaries[s] : a.at \in Nat /\ (a.at = b.at => a = b)
      BY <2>3, <3>1 DEF OneIsLatestAndOneCountedMost, CountsInv, TurnsInv, ChatTypeOK
    <3>. QED BY <3>2, <3>3, LatestCounts
  <2>. QED BY <1>1, <1>4, <2>2, <2>3, <2>4 DEF Recent
<1>. QED BY <1>3, <1>4

\* However long a conversation is and however many of its turns are open, a
\* prompt misses no more of the last SummaryLimit messages than a threshold of
\* them, less its window, and two of each other turn: if the summary it has read
\* counted the most, and was given what it counted.
THEOREM PromptsAreComplete == ChatSpec => []PromptsMissLittle
<1>. DEFINE Heard == \A g \in Handler : HeardIsCommitted(g)
<1>1. ChatInit => Heard
  BY DEF ChatInit, IdleTurn, HeardIsCommitted
<1>2. CountsInv /\ Heard /\ [ChatNext]_chatVars => Heard'
  <2>. SUFFICES ASSUME CountsInv, Heard, [ChatNext]_chatVars, NEW g \in Handler
                PROVE  HeardIsCommitted(g)'
    OBVIOUS
  <2>1. CASE UNCHANGED chatVars
    BY <2>1 DEF chatVars, HeardIsCommitted
  <2>2. ASSUME NEW h \in Handler, Begin(h) \/ Serve(h) \/ Fail(h)
        PROVE  HeardIsCommitted(g)'
    BY <2>2, HearingIsKept
  <2>. QED BY <2>1, <2>2 DEF ChatNext
<1>3. CountsInv /\ Heard => PromptsMissLittle
  <2>. SUFFICES ASSUME CountsInv, Heard, NEW h \in Handler, turn[h].pc = "window",
                       HeardTheMost(h), \A k \in turn[h].heard : GivenWhatItCounted(k)
                PROVE  Cardinality(Missed(h)) <= Allowed
    BY DEF PromptsMissLittle, Allowed
  <2>1. Missed(h) \subseteq Untold(h)
    BY MissedIsUntold
  <2>2. Cardinality(Untold(h)) <= Allowed /\ IsFiniteSet(Untold(h))
    BY LittleIsUntold
  <2>3. Cardinality(Missed(h)) <= Cardinality(Untold(h)) /\ IsFiniteSet(Missed(h))
    BY <2>1, <2>2, FS_Subset
  <2>4. Cardinality(Missed(h)) \in Nat /\ Cardinality(Untold(h)) \in Nat
    BY <2>2, <2>3, FS_CardinalityType
  <2>. QED BY <2>2, <2>3, <2>4, AllowedIsANumber
<1>. QED BY <1>1, <1>2, <1>3, CountsInvariant, PTL DEF ChatSpec

=============================================================================
