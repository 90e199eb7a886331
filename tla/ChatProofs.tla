----------------------------- MODULE ChatProofs -----------------------------
(***************************************************************************)
(* Proofs about Chat, for any handlers, sessions and tenants, any number   *)
(* of turns and any window and threshold.                                  *)
(***************************************************************************)
EXTENDS Chat, FiniteSetTheorems, TLAPS

-----------------------------------------------------------------------------
(* What a turn reads *)

\* A turn sees finitely many messages, each of its own tenant.
LEMMA VisibleMessages ==
  ASSUME ChatTypeOK, NEW h \in Handler, turn[h].pc # "idle"
  PROVE  /\ Own(h) \subseteq Message /\ Visible(h) \subseteq Message
         /\ IsFiniteSet(Own(h)) /\ IsFiniteSet(Visible(h))
         /\ \A m \in Own(h) : m.tenant = turn[h].tenant
<1>. DEFINE u == [at |-> turn[h].user, tenant |-> turn[h].tenant, conf |-> 0]
            r == [at |-> turn[h].reply, tenant |-> turn[h].tenant,
                  conf |-> turn[h].conf]
            S == {m \in messages[turn[h].session] : m.tenant = turn[h].tenant}
<1>1. /\ turn[h].session \in Session /\ turn[h].tenant \in Tenant
      /\ turn[h].user \in Nat /\ turn[h].reply \in Nat /\ turn[h].conf \in Nat
  BY DEF ChatTypeOK, TurnState
<1>2. u \in Message /\ r \in Message
      /\ u.tenant = turn[h].tenant /\ r.tenant = turn[h].tenant
  BY <1>1 DEF Message
<1>3. Own(h) = {m \in {u, r} : m.at # 0} /\ Visible(h) = Own(h) \cup S
  BY DEF Own, Visible
<1>4. IsFiniteSet({u, r}) /\ IsFiniteSet(messages[turn[h].session])
  <2>1. IsFiniteSet({u} \cup {r})
    BY FS_Singleton, FS_Union
  <2>2. {u, r} = {u} \cup {r}
    OBVIOUS
  <2>. QED BY <1>1, <2>1, <2>2 DEF ChatTypeOK
<1>. HIDE DEF u, r
<1>5. IsFiniteSet(Own(h)) /\ IsFiniteSet(S)
  <2>1. Own(h) \subseteq {u, r} /\ S \subseteq messages[turn[h].session]
    BY <1>3
  <2>. QED BY <1>4, <2>1, FS_Subset
<1>6. IsFiniteSet(Visible(h))
  <2>. HIDE DEF S
  <2>1. IsFiniteSet(Own(h) \cup S)
    BY <1>5, FS_Union
  <2>. QED BY <1>3, <2>1
<1>7. S \subseteq Message
  BY <1>1 DEF ChatTypeOK
<1>. QED BY <1>2, <1>3, <1>5, <1>6, <1>7

LEMMA CountsAreNumbers ==
  ASSUME ChatTypeOK, NEW h \in Handler, turn[h].pc # "idle"
  PROVE  /\ Cardinality(Visible(h)) \in Nat /\ Latest(h) \subseteq Summary
         /\ Ats(Visible(h)) \subseteq Nat
         /\ \A n : Ats(Recent(Visible(h), n)) \subseteq Nat
         /\ AtOf(Latest(h)) \in Nat
<1>1. Visible(h) \subseteq Message /\ IsFiniteSet(Visible(h))
  BY VisibleMessages
<1>2. \A S : S \subseteq Visible(h) => IsFiniteSet(S) /\ Cardinality(S) \in Nat
  BY <1>1, FS_Subset, FS_CardinalityType
<1>3. Latest(h) \subseteq Summary
  <2>1. turn[h].session \in Session
    BY DEF ChatTypeOK, TurnState
  <2>. QED BY <2>1 DEF Latest, Recent, ChatTypeOK
<1>4. \A n : Recent(Visible(h), n) \subseteq Visible(h)
  BY DEF Recent
<1>5. \A S : S \subseteq Message => Ats(S) \subseteq Nat
  BY DEF Ats, Message
<1>6. AtOf(Latest(h)) \in Nat
  <2>2. \A m \in Latest(h) : m.at \in Nat
    BY <1>3 DEF Summary
  <2>3. Latest(h) # {} => \E k \in Ats(Latest(h)) : k \in Nat
    BY <2>2 DEF Ats
  <2>4. \A k \in Ats(Latest(h)) : k \in Nat
    BY <2>2 DEF Ats
  <2>. QED BY <2>3, <2>4 DEF AtOf
<1>. QED BY <1>1, <1>2, <1>3, <1>4, <1>5, <1>6

-----------------------------------------------------------------------------
(* A step of a turn that goes on *)

\* A step of turn h that commits nothing and keeps its session, between the
\* insert of the session and the end of the transaction.
GoesOn(h) ==
  /\ UNCHANGED Rows
  /\ clock' \in Nat /\ UNCHANGED turns /\ asks' \in 0 .. MaxAsks
  /\ turn' \in [Handler -> TurnState]
  /\ \A g \in Handler \ {h} : turn'[g] = turn[g]
  /\ {turn[h].pc, turn'[h].pc} \cap {"idle", "insert"} = {}
  /\ turn'[h].session = turn[h].session
  /\ turn'[h].tenant = turn[h].tenant
  /\ turn'[h].inserted = turn[h].inserted
  /\ turn'[h].pc \in {"count", "check", "summarise", "llm", "save", "commit"} =>
       turn'[h].reply # 0
  /\ \A m \in turn'[h].summary : m.tenant = turn'[h].tenant

\* What the turn becomes is all there is to show of such a step.
LEMMA GoesOnTo ==
  ASSUME TurnsInv, NEW h \in Handler, NEW t \in TurnState, Set(h, t),
         UNCHANGED Rows, clock' \in Nat, UNCHANGED turns, asks' \in 0 .. MaxAsks,
         turn[h].pc \notin {"idle", "insert"}, t.pc \notin {"idle", "insert"},
         t.session = turn[h].session, t.tenant = turn[h].tenant,
         t.inserted = turn[h].inserted,
         t.pc \in {"count", "check", "summarise", "llm", "save", "commit"} => t.reply # 0,
         \A m \in t.summary : m.tenant = t.tenant
  PROVE  GoesOn(h)
<1>1. turn \in [Handler -> TurnState]
  BY DEF TurnsInv, ChatTypeOK
<1>2. /\ turn' \in [Handler -> TurnState]
      /\ turn'[h] = t
      /\ \A g \in Handler \ {h} : turn'[g] = turn[g]
  BY <1>1 DEF Set
<1>. QED BY <1>2 DEF GoesOn

LEMMA TurnsStayTyped ==
  ASSUME TurnsInv, NEW h \in Handler, GoesOn(h)
  PROVE  ChatTypeOK'
<1>1. \A g \in Handler : turn'[g].pc # "idle" =>
        turn'[g].session # None /\ turn'[g].tenant # None
  <2>. TAKE g \in Handler
  <2>1. CASE g = h
    BY <2>1 DEF GoesOn, TurnsInv, ChatTypeOK
  <2>2. CASE g # h
    BY <2>2 DEF GoesOn, TurnsInv, ChatTypeOK
  <2>. QED BY <2>1, <2>2
<1>2. /\ owner' \in [Session -> Tenant \cup {None}]
      /\ messages' \in [Session -> SUBSET Message]
      /\ \A s \in Session : IsFiniteSet(messages'[s])
      /\ summaries' \in [Session -> SUBSET Summary]
      /\ confirmations' \in [Session -> SUBSET Nat]
  BY DEF GoesOn, Rows, TurnsInv, ChatTypeOK
<1>3. /\ turn' \in [Handler -> TurnState] /\ clock' \in Nat
      /\ turns' \in 0 .. MaxTurns /\ asks' \in 0 .. MaxAsks
  BY DEF GoesOn, TurnsInv, ChatTypeOK
<1>. QED BY <1>1, <1>2, <1>3 DEF ChatTypeOK

LEMMA GoesOnKeepsTheRest ==
  ASSUME TurnsInv, NEW h \in Handler, GoesOn(h)
  PROVE  TurnsInv'
<1>1. ChatTypeOK'
  BY TurnsStayTyped
<1>2. \A g \in Handler : /\ turn'[g].session = turn[g].session
                         /\ turn'[g].tenant = turn[g].tenant
                         /\ turn'[g].inserted = turn[g].inserted
                         /\ turn'[g].pc \in {"idle", "insert"}
                              <=> turn[g].pc \in {"idle", "insert"}
  BY DEF GoesOn
<1>3. /\ owner' = owner /\ messages' = messages /\ summaries' = summaries
      /\ confirmations' = confirmations
  BY DEF GoesOn, Rows
<1>4. TurnsHoldTheirSession'
  <2>1. TurnsHoldTheirSession
    BY DEF TurnsInv
  <2>. QED BY <1>2, <1>3, <2>1 DEF TurnsHoldTheirSession
<1>5. TurnsCommitTheirOwn'
  <2>1. TurnsCommitTheirOwn
    BY DEF TurnsInv
  <2>. QED BY <2>1 DEF TurnsCommitTheirOwn, GoesOn
<1>6. MessagesAreTheOwners' /\ RepliesAndConfirmationsAgree'
  BY <1>3 DEF TurnsInv, MessagesAreTheOwners, RepliesAndConfirmationsAgree
<1>. QED BY <1>1, <1>4, <1>5, <1>6 DEF TurnsInv

-----------------------------------------------------------------------------
(* The steps between the insert of the session and the commit *)

LEMMA TurnFacts ==
  ASSUME TurnsInv, NEW h \in Handler
  PROVE  /\ turn[h] \in TurnState /\ clock \in Nat /\ asks \in 0 .. MaxAsks
         /\ turns \in 0 .. MaxTurns
         /\ clock + 1 \in Nat /\ clock + 1 # 0
         /\ \A m \in turn[h].summary : m.tenant = turn[h].tenant
         /\ turn[h].pc \in {"count", "check", "summarise", "llm", "save", "commit"} =>
              turn[h].reply # 0
BY DEF TurnsInv, ChatTypeOK, TurnsCommitTheirOwn

LEMMA MessagesGoOn ==
  ASSUME TurnsInv, NEW h \in Handler,
         SaveUserMessage(h) \/ ReadSummary(h) \/ ReadWindow(h) \/ SaveReply(h)
  PROVE  GoesOn(h)
<1>1. CASE SaveUserMessage(h)
  <2>. DEFINE t == [turn[h] EXCEPT !.user = clock + 1, !.pc = "context"]
  <2>1. t \in TurnState
    BY TurnFacts DEF TurnState
  <2>2. Set(h, t)
    BY <1>1 DEF SaveUserMessage, Set
  <2>. QED BY <1>1, <2>1, <2>2, TurnFacts, GoesOnTo DEF SaveUserMessage, At, TurnState
<1>2. CASE ReadSummary(h)
  <2>. DEFINE last == Latest(h)
              t == [turn[h] EXCEPT !.heard = last, !.pc = "window"]
  <2>1. Set(h, t)
    BY <1>2 DEF ReadSummary, Set
  <2>2. last \subseteq Summary
    BY <1>2, CountsAreNumbers DEF TurnsInv, ReadSummary, At
  <2>. HIDE DEF last
  <2>3. t \in TurnState
    BY <2>2, TurnFacts DEF TurnState
  <2>. QED BY <1>2, <2>1, <2>3, TurnFacts, GoesOnTo DEF ReadSummary, Counts, At, TurnState
<1>3. CASE ReadWindow(h)
  <2>. DEFINE t == [turn[h] EXCEPT !.heard = {}, !.pc = "graph"]
  <2>1. t \in TurnState
    BY TurnFacts DEF TurnState
  <2>2. Set(h, t)
    BY <1>3 DEF ReadWindow, Set
  <2>. QED BY <1>3, <2>1, <2>2, TurnFacts, GoesOnTo DEF ReadWindow, Counts, At, TurnState
<1>4. CASE SaveReply(h)
  <2>. DEFINE t == [turn[h] EXCEPT !.reply = clock + 1, !.pc = "count"]
  <2>1. t \in TurnState
    BY TurnFacts DEF TurnState
  <2>2. Set(h, t)
    BY <1>4 DEF SaveReply, Set
  <2>. QED BY <1>4, <2>1, <2>2, TurnFacts, GoesOnTo DEF SaveReply, At, TurnState
<1>. QED BY <1>1, <1>2, <1>3, <1>4

LEMMA AnswersGoOn ==
  ASSUME TurnsInv, NEW h \in Handler,
         Converse(h) \/ ConverseAndAsk(h) \/ ConfirmationPending(h)
  PROVE  GoesOn(h)
<1>1. CASE Converse(h)
  <2>. DEFINE t == [turn[h] EXCEPT !.pc = "reply"]
  <2>1. t \in TurnState
    BY TurnFacts DEF TurnState
  <2>2. Set(h, t)
    BY <1>1 DEF Converse, Set
  <2>. QED BY <1>1, <2>1, <2>2, TurnFacts, GoesOnTo DEF Converse, Counts, At, TurnState
<1>2. CASE ConverseAndAsk(h)
  <2>. DEFINE t == [turn[h] EXCEPT !.pc = "confirm"]
  <2>1. t \in TurnState
    BY TurnFacts DEF TurnState
  <2>2. Set(h, t)
    BY <1>2 DEF ConverseAndAsk, Set
  <2>3. asks' \in 0 .. MaxAsks
    BY <1>2, TurnFacts, ChatAssumption DEF ConverseAndAsk
  <2>. QED BY <1>2, <2>1, <2>2, <2>3, TurnFacts, GoesOnTo DEF ConverseAndAsk, At, TurnState
<1>3. CASE ConfirmationPending(h)
  <2>. DEFINE t == [turn[h] EXCEPT !.conf = turn[h].user, !.pc = "reply"]
  <2>1. t \in TurnState
    BY TurnFacts DEF TurnState
  <2>2. Set(h, t)
    BY <1>3 DEF ConfirmationPending, Set
  <2>. QED BY <1>3, <2>1, <2>2, TurnFacts, GoesOnTo
           DEF ConfirmationPending, Counts, At, TurnState
<1>. QED BY <1>1, <1>2, <1>3

LEMMA SummariesGoOn ==
  ASSUME TurnsInv, NEW h \in Handler,
         \/ CountMessages(h) \/ Check(h) \/ ReadForSummary(h)
         \/ CountForSummary(h) \/ SaveSummary(h)
  PROVE  GoesOn(h)
<1>. /\ turn[h].pc # "idle"
     /\ turn[h] \in TurnState
  BY TurnFacts DEF CountMessages, Check, ReadForSummary, CountForSummary, SaveSummary, At
<1>. /\ Cardinality(Visible(h)) \in Nat /\ AtOf(Latest(h)) \in Nat
     /\ Ats(Visible(h)) \subseteq Nat
     /\ Ats(Recent(Visible(h), SummaryLimit)) \subseteq Nat
  BY CountsAreNumbers DEF TurnsInv
<1>1. CASE CountMessages(h)
  <2>. DEFINE t == [turn[h] EXCEPT !.count = Cardinality(Visible(h)), !.pc = "check"]
  <2>1. t \in TurnState
    BY TurnFacts DEF TurnState
  <2>2. Set(h, t)
    BY <1>1 DEF CountMessages, Set
  <2>. QED BY <1>1, <2>1, <2>2, TurnFacts, GoesOnTo DEF CountMessages, Counts, At, TurnState
<1>2. CASE Check(h)
  <2>. DEFINE due == SummaryDue(h)
              last == AtOf(Latest(h))
              t == [turn[h] EXCEPT !.count = 0,
                      !.pc = IF due THEN "summarise" ELSE "commit",
                      !.after = IF due THEN last ELSE 0]
  <2>1. Set(h, t)
    BY <1>2 DEF Check, Set
  <2>. HIDE DEF due, last
  <2>2. last \in Nat
    BY DEF last
  <2>3. t \in TurnState
    BY <2>2, TurnFacts DEF TurnState
  <2>4. /\ t.pc \in {"summarise", "commit"} /\ t.session = turn[h].session
        /\ t.tenant = turn[h].tenant /\ t.inserted = turn[h].inserted
        /\ t.reply = turn[h].reply /\ t.summary = turn[h].summary
    BY TurnFacts DEF TurnState
  <2>. HIDE DEF t
  <2>. QED BY <1>2, <2>1, <2>3, <2>4, TurnFacts, GoesOnTo DEF Check, Counts, At
<1>3. CASE ReadForSummary(h)
  <2>. DEFINE t == [turn[h] EXCEPT !.pc = "llm",
                      !.given = Ats(Recent(Visible(h), SummaryLimit))]
  <2>1. t \in TurnState
    BY TurnFacts DEF TurnState
  <2>2. Set(h, t)
    BY <1>3 DEF ReadForSummary, Set
  <2>. QED BY <1>3, <2>1, <2>2, TurnFacts, GoesOnTo DEF ReadForSummary, Counts, At, TurnState
<1>4. CASE CountForSummary(h)
  <2>. DEFINE t == [turn[h] EXCEPT !.counted = Ats(Visible(h)), !.pc = "save"]
  <2>1. t \in TurnState
    BY TurnFacts DEF TurnState
  <2>2. Set(h, t)
    BY <1>4 DEF CountForSummary, Set
  <2>. QED BY <1>4, <2>1, <2>2, TurnFacts, GoesOnTo
           DEF CountForSummary, Counts, At, TurnState
<1>5. CASE SaveSummary(h)
  <2>. DEFINE k == [at |-> clock + 1, tenant |-> turn[h].tenant,
                    given |-> turn[h].given, counted |-> turn[h].counted,
                    after |-> turn[h].after]
              t == [turn[h] EXCEPT !.pc = "commit", !.given = {}, !.counted = {},
                                   !.after = 0, !.summary = {k}]
  <2>1. turn[h].tenant \in Tenant
    BY DEF TurnsInv, ChatTypeOK, TurnState
  <2>2. Set(h, t)
    BY <1>5 DEF SaveSummary, Set
  <2>3. k \in Summary /\ k.tenant = turn[h].tenant
    BY <2>1, TurnFacts DEF Summary, TurnState
  <2>. HIDE DEF k
  <2>4. t \in TurnState /\ \A m \in t.summary : m.tenant = t.tenant
    BY <2>3, TurnFacts DEF TurnState
  <2>. QED BY <1>5, <2>2, <2>4, TurnFacts, GoesOnTo DEF SaveSummary, At, TurnState
<1>. QED BY <1>1, <1>2, <1>3, <1>4, <1>5

-----------------------------------------------------------------------------
(* Turns that begin, insert their session, or end with nothing kept *)

\* A turn that has no session yet, has none any more, or has found its own.
LEMMA OpensOrEnds ==
  ASSUME TurnsInv, NEW h \in Handler, NEW t \in TurnState, Set(h, t),
         UNCHANGED Rows, UNCHANGED <<clock, asks>>, turns' \in 0 .. MaxTurns,
         ~t.inserted, t.summary = {},
         \/ t.pc = "idle"
         \/ t.pc = "insert" /\ t.session # None /\ t.tenant # None
         \/ /\ t.pc = "user" /\ t.session \in Session /\ t.tenant \in Tenant
            /\ owner[t.session] = t.tenant
  PROVE  TurnsInv'
<1>1. /\ turn' \in [Handler -> TurnState]
      /\ turn'[h] = t
      /\ \A g \in Handler \ {h} : turn'[g] = turn[g]
  BY DEF Set, TurnsInv, ChatTypeOK
<1>2. /\ owner' = owner /\ messages' = messages /\ summaries' = summaries
      /\ confirmations' = confirmations
  BY DEF Rows
<1>3. ChatTypeOK'
  <2>1. \A g \in Handler : turn'[g].pc # "idle" =>
          turn'[g].session # None /\ turn'[g].tenant # None
    <3>. TAKE g \in Handler
    <3>1. CASE g = h
      BY <1>1, <3>1, ChatAssumption
    <3>2. CASE g # h
      BY <1>1, <3>2 DEF TurnsInv, ChatTypeOK
    <3>. QED BY <3>1, <3>2
  <2>. QED BY <1>1, <1>2, <2>1 DEF TurnsInv, ChatTypeOK
<1>4. TurnsHoldTheirSession'
  <2>1. \A g \in Handler : turn'[g].inserted => g # h
    BY <1>1
  <2>. SUFFICES ASSUME NEW g \in Handler
                PROVE  IF turn'[g].pc \in {"idle", "insert"} THEN ~turn'[g].inserted
                       ELSE IF turn'[g].inserted
                            THEN /\ owner'[turn'[g].session] = None
                                 /\ \A f \in Handler :
                                      turn'[f].inserted
                                        /\ turn'[f].session = turn'[g].session
                                        => f = g
                            ELSE owner'[turn'[g].session] = turn'[g].tenant
    BY DEF TurnsHoldTheirSession
  <2>2. CASE g = h
    BY <1>1, <1>2, <2>2
  <2>3. CASE g # h
    BY <1>1, <1>2, <2>1, <2>3 DEF TurnsInv, TurnsHoldTheirSession
  <2>. QED BY <2>2, <2>3
<1>5. TurnsCommitTheirOwn'
  <2>. SUFFICES ASSUME NEW g \in Handler
                PROVE  /\ turn'[g].pc \in {"count", "check", "summarise",
                                           "llm", "save", "commit"} => turn'[g].reply # 0
                       /\ \A m \in turn'[g].summary : m.tenant = turn'[g].tenant
    BY DEF TurnsCommitTheirOwn
  <2>1. CASE g = h
    BY <1>1, <2>1
  <2>2. CASE g # h
    BY <1>1, <2>2 DEF TurnsInv, TurnsCommitTheirOwn
  <2>. QED BY <2>1, <2>2
<1>6. MessagesAreTheOwners' /\ RepliesAndConfirmationsAgree'
  BY <1>2 DEF TurnsInv, MessagesAreTheOwners, RepliesAndConfirmationsAgree
<1>. QED BY <1>3, <1>4, <1>5, <1>6 DEF TurnsInv

LEMMA IdleIsATurn == IdleTurn \in TurnState
<1>1. {} \in SUBSET Nat /\ {} \in SUBSET Summary
  OBVIOUS
<1>. QED BY <1>1 DEF IdleTurn, TurnState

LEMMA BeginStep ==
  ASSUME TurnsInv, NEW h \in Handler, Begin(h)
  PROVE  TurnsInv'
<1>. PICK n \in Tenant, s \in Session : StartSession(h, n, s) \/ NameSession(h, n, s)
  BY DEF Begin
<1>1. n # None /\ s # None
  BY ChatAssumption
<1>2. turns < MaxTurns => turns + 1 \in 0 .. MaxTurns
  BY TurnFacts, ChatAssumption
<1>3. CASE StartSession(h, n, s)
  <2>. DEFINE t == [IdleTurn EXCEPT !.pc = "insert", !.tenant = n, !.session = s]
  <2>1. t \in TurnState
    BY IdleIsATurn DEF TurnState
  <2>2. ~t.inserted /\ t.summary = {} /\ t.pc = "insert" /\ t.session = s /\ t.tenant = n
    BY DEF IdleTurn
  <2>3. Set(h, t)
    BY <1>3 DEF StartSession
  <2>. QED BY <1>1, <1>2, <1>3, <2>1, <2>2, <2>3, OpensOrEnds DEF StartSession
<1>4. CASE NameSession(h, n, s)
  <2>. DEFINE p == IF owner[s] = n THEN "user" ELSE "insert"
              t == [IdleTurn EXCEPT !.tenant = n, !.session = s, !.pc = p]
  <2>1. t \in TurnState
    BY IdleIsATurn DEF TurnState
  <2>2. ~t.inserted /\ t.summary = {} /\ t.pc = p /\ t.session = s /\ t.tenant = n
    BY DEF IdleTurn
  <2>3. Set(h, t)
    BY <1>4 DEF NameSession
  <2>. QED BY <1>1, <1>2, <1>4, <2>1, <2>2, <2>3, OpensOrEnds DEF NameSession
<1>. QED BY <1>3, <1>4

LEMMA NothingKeptStep ==
  ASSUME TurnsInv, NEW h \in Handler, SessionExists(h) \/ Fail(h)
  PROVE  TurnsInv'
<1>1. /\ IdleTurn \in TurnState /\ ~IdleTurn.inserted /\ IdleTurn.summary = {}
      /\ IdleTurn.pc = "idle"
  BY IdleIsATurn DEF IdleTurn
<1>2. Set(h, IdleTurn) /\ UNCHANGED Rows /\ UNCHANGED <<clock, turns, asks>>
  BY DEF SessionExists, Fail, Counts
<1>3. turns' \in 0 .. MaxTurns
  BY <1>2, TurnFacts
<1>. QED BY <1>1, <1>2, <1>3, OpensOrEnds

\* Nobody else has inserted the session, for the key was free; and its row is
\* not there.
LEMMA InsertStep ==
  ASSUME TurnsInv, NEW h \in Handler, InsertSession(h)
  PROVE  TurnsInv'
<1>. DEFINE t == [turn[h] EXCEPT !.inserted = TRUE, !.pc = "user"]
<1>1. t \in TurnState /\ turn[h].session # None /\ turn[h].tenant # None
  <2>1. t \in TurnState
    BY TurnFacts DEF TurnState
  <2>2. turn[h].session # None /\ turn[h].tenant # None
    BY DEF InsertSession, At, TurnsInv, ChatTypeOK
  <2>. QED BY <2>1, <2>2
<1>2. /\ turn' \in [Handler -> TurnState]
      /\ turn'[h] = t
      /\ \A g \in Handler \ {h} : turn'[g] = turn[g]
  BY <1>1 DEF InsertSession, Set, TurnsInv, ChatTypeOK
<1>3. /\ t.pc = "user" /\ t.inserted /\ t.session = turn[h].session
      /\ t.tenant = turn[h].tenant /\ t.summary = turn[h].summary
  BY TurnFacts DEF TurnState
<1>4. /\ owner' = owner /\ messages' = messages /\ summaries' = summaries
      /\ confirmations' = confirmations
      /\ clock' = clock /\ turns' = turns /\ asks' = asks
  BY DEF InsertSession, Rows, Counts
<1>. HIDE DEF t
<1>5. ChatTypeOK'
  <2>1. \A g \in Handler : turn'[g].pc # "idle" =>
          turn'[g].session # None /\ turn'[g].tenant # None
    <3>. TAKE g \in Handler
    <3>1. CASE g = h
      BY <1>1, <1>2, <1>3, <3>1
    <3>2. CASE g # h
      BY <1>2, <3>2 DEF TurnsInv, ChatTypeOK
    <3>. QED BY <3>1, <3>2
  <2>. QED BY <1>2, <1>4, <2>1 DEF TurnsInv, ChatTypeOK
<1>6. TurnsHoldTheirSession'
  <2>1. /\ owner[turn[h].session] = None
        /\ \A g \in Handler : ~(turn[g].inserted /\ turn[g].session = turn[h].session)
    BY DEF InsertSession, KeyFree
  <2>. SUFFICES ASSUME NEW g \in Handler
                PROVE  IF turn'[g].pc \in {"idle", "insert"} THEN ~turn'[g].inserted
                       ELSE IF turn'[g].inserted
                            THEN /\ owner'[turn'[g].session] = None
                                 /\ \A f \in Handler :
                                      turn'[f].inserted
                                        /\ turn'[f].session = turn'[g].session
                                        => f = g
                            ELSE owner'[turn'[g].session] = turn'[g].tenant
    BY DEF TurnsHoldTheirSession
  <2>2. CASE g = h
    BY <1>2, <1>3, <1>4, <2>1, <2>2
  <2>3. CASE g # h
    BY <1>2, <1>3, <1>4, <2>1, <2>3 DEF TurnsInv, TurnsHoldTheirSession
  <2>. QED BY <2>2, <2>3
<1>7. TurnsCommitTheirOwn'
  <2>. SUFFICES ASSUME NEW g \in Handler
                PROVE  /\ turn'[g].pc \in {"count", "check", "summarise",
                                           "llm", "save", "commit"} => turn'[g].reply # 0
                       /\ \A m \in turn'[g].summary : m.tenant = turn'[g].tenant
    BY DEF TurnsCommitTheirOwn
  <2>1. CASE g = h
    BY <1>2, <1>3, <2>1 DEF TurnsInv, TurnsCommitTheirOwn
  <2>2. CASE g # h
    BY <1>2, <2>2 DEF TurnsInv, TurnsCommitTheirOwn
  <2>. QED BY <2>1, <2>2
<1>8. MessagesAreTheOwners' /\ RepliesAndConfirmationsAgree'
  BY <1>4 DEF TurnsInv, MessagesAreTheOwners, RepliesAndConfirmationsAgree
<1>. QED BY <1>5, <1>6, <1>7, <1>8 DEF TurnsInv

-----------------------------------------------------------------------------
(* The commit *)

\* The session a turn commits: its row is the tenant's afterwards, whether the
\* turn inserted it or found it, and no row of another session changes.
LEMMA CommitSetsTheOwner ==
  ASSUME TurnsInv, NEW h \in Handler, Commit(h)
  PROVE  /\ turn[h].session \in Session /\ turn[h].tenant \in Tenant
         /\ owner' \in [Session -> Tenant \cup {None}]
         /\ owner'[turn[h].session] = turn[h].tenant
         /\ owner[turn[h].session] \in {turn[h].tenant, None}
         /\ \A s \in Session \ {turn[h].session} : owner'[s] = owner[s]
<1>1. /\ turn[h].session \in Session /\ turn[h].tenant \in Tenant
      /\ turn[h].pc = "commit"
  BY DEF TurnsInv, ChatTypeOK, TurnState, Commit, At
<1>2. owner \in [Session -> Tenant \cup {None}]
  BY DEF TurnsInv, ChatTypeOK
<1>3. IF turn[h].inserted THEN owner[turn[h].session] = None
      ELSE owner[turn[h].session] = turn[h].tenant
  BY <1>1 DEF TurnsInv, TurnsHoldTheirSession
<1>4. CASE turn[h].inserted
  BY <1>1, <1>2, <1>3, <1>4 DEF Commit
<1>5. CASE ~turn[h].inserted
  BY <1>1, <1>2, <1>3, <1>5 DEF Commit
<1>. QED BY <1>4, <1>5

\* What a commit does to the rows of a session.
LEMMA CommitWrites ==
  ASSUME TurnsInv, NEW h \in Handler, Commit(h), NEW s \in Session
  PROVE  IF s = turn[h].session
         THEN /\ messages'[s] = messages[s] \cup Own(h)
              /\ summaries'[s] = summaries[s] \cup turn[h].summary
              /\ confirmations'[s] = confirmations[s] \cup ({turn[h].conf} \ {0})
         ELSE /\ messages'[s] = messages[s]
              /\ summaries'[s] = summaries[s]
              /\ confirmations'[s] = confirmations[s]
<1>1. /\ messages \in [Session -> SUBSET Message]
      /\ summaries \in [Session -> SUBSET Summary]
      /\ confirmations \in [Session -> SUBSET Nat]
  BY DEF TurnsInv, ChatTypeOK
<1>. QED BY <1>1 DEF Commit

LEMMA CommitKeepsTypes ==
  ASSUME TurnsInv, NEW h \in Handler, Commit(h)
  PROVE  /\ ChatTypeOK'
         /\ turn'[h] = IdleTurn
         /\ \A g \in Handler \ {h} : turn'[g] = turn[g]
<1>1. turn[h].pc # "idle"
  BY DEF Commit, At
<1>2. /\ turn' \in [Handler -> TurnState]
      /\ turn'[h] = IdleTurn
      /\ \A g \in Handler \ {h} : turn'[g] = turn[g]
  BY IdleIsATurn DEF Commit, Set, TurnsInv, ChatTypeOK
<1>3. owner' \in [Session -> Tenant \cup {None}]
  BY CommitSetsTheOwner
<1>4. /\ Own(h) \subseteq Message /\ IsFiniteSet(Own(h))
      /\ turn[h].summary \subseteq Summary /\ turn[h].conf \in Nat
  BY <1>1, VisibleMessages DEF TurnsInv, ChatTypeOK, TurnState
<1>5. /\ messages' \in [Session -> SUBSET Message]
      /\ summaries' \in [Session -> SUBSET Summary]
      /\ confirmations' \in [Session -> SUBSET Nat]
  <2>. HIDE DEF Own
  <2>1. /\ messages \in [Session -> SUBSET Message]
        /\ summaries \in [Session -> SUBSET Summary]
        /\ confirmations \in [Session -> SUBSET Nat]
    BY DEF TurnsInv, ChatTypeOK
  <2>. QED BY <1>4, <2>1 DEF Commit
<1>6. \A s \in Session : IsFiniteSet(messages'[s])
  <2>. TAKE s \in Session
  <2>1. IsFiniteSet(messages[s])
    BY DEF TurnsInv, ChatTypeOK
  <2>2. IsFiniteSet(messages[s] \cup Own(h))
    BY <1>4, <2>1, FS_Union
  <2>. QED BY <2>1, <2>2, CommitWrites
<1>7. \A g \in Handler : turn'[g].pc # "idle" =>
        turn'[g].session # None /\ turn'[g].tenant # None
  BY <1>2 DEF IdleTurn, TurnsInv, ChatTypeOK
<1>8. clock' \in Nat /\ turns' \in 0 .. MaxTurns /\ asks' \in 0 .. MaxAsks
  BY DEF Commit, Counts, TurnsInv, ChatTypeOK
<1>. QED BY <1>2, <1>3, <1>5, <1>6, <1>7, <1>8 DEF ChatTypeOK

\* A turn that inserted the session is the only one that did; with any other
\* turn the tenant agrees.
LEMMA CommitKeepsTheOthersSessions ==
  ASSUME TurnsInv, NEW h \in Handler, Commit(h)
  PROVE  TurnsHoldTheirSession'
<1>1. /\ turn'[h] = IdleTurn
      /\ \A g \in Handler \ {h} : turn'[g] = turn[g]
  BY CommitKeepsTypes
<1>2. IdleTurn.pc = "idle" /\ ~IdleTurn.inserted
  BY DEF IdleTurn
<1>. SUFFICES ASSUME NEW g \in Handler
              PROVE  IF turn'[g].pc \in {"idle", "insert"} THEN ~turn'[g].inserted
                     ELSE IF turn'[g].inserted
                          THEN /\ owner'[turn'[g].session] = None
                               /\ \A f \in Handler :
                                    turn'[f].inserted
                                      /\ turn'[f].session = turn'[g].session
                                      => f = g
                          ELSE owner'[turn'[g].session] = turn'[g].tenant
  BY DEF TurnsHoldTheirSession
<1>3. CASE g = h
  BY <1>1, <1>2, <1>3
<1>4. CASE g # h /\ turn[g].pc \in {"idle", "insert"}
  BY <1>1, <1>4 DEF TurnsInv, TurnsHoldTheirSession
<1>5. CASE g # h /\ turn[g].pc \notin {"idle", "insert"}
  <2>1. turn[g].session \in Session /\ turn[g].tenant # None
    BY <1>5 DEF TurnsInv, ChatTypeOK, TurnState
  <2>2. IF turn[g].inserted
        THEN /\ owner[turn[g].session] = None
             /\ \A f \in Handler :
                  turn[f].inserted /\ turn[f].session = turn[g].session => f = g
        ELSE owner[turn[g].session] = turn[g].tenant
    BY <1>5 DEF TurnsInv, TurnsHoldTheirSession
  <2>3. CASE turn[g].session # turn[h].session
    <3>1. owner'[turn[g].session] = owner[turn[g].session]
      BY <2>1, <2>3, CommitSetsTheOwner
    <3>. QED BY <1>1, <1>2, <1>5, <2>2, <3>1
  <2>4. CASE turn[g].session = turn[h].session
    <3>1. turn[h].pc = "commit"
      BY DEF Commit, At
    <3>2. ~turn[g].inserted
      <4>1. SUFFICES ASSUME turn[g].inserted PROVE FALSE
        OBVIOUS
      <4>2. owner[turn[h].session] = None
        BY <2>2, <2>4, <4>1
      <4>3. turn[h].inserted
        <5>1. turn[h].tenant # None
          BY CommitSetsTheOwner, ChatAssumption
        <5>. QED BY <3>1, <4>2, <5>1 DEF TurnsInv, TurnsHoldTheirSession
      <4>. QED BY <1>5, <2>2, <2>4, <4>1, <4>3
    <3>3. owner[turn[h].session] = turn[g].tenant
      BY <2>2, <2>4, <3>2
    <3>4. turn[g].tenant = turn[h].tenant
      BY <2>1, <3>3, CommitSetsTheOwner
    <3>. QED BY <1>1, <1>5, <2>4, <3>2, <3>4, CommitSetsTheOwner
  <2>. QED BY <2>3, <2>4
<1>. QED BY <1>3, <1>4, <1>5

LEMMA CommitKeepsOwners ==
  ASSUME TurnsInv, NEW h \in Handler, Commit(h)
  PROVE  MessagesAreTheOwners'
<1>. SUFFICES ASSUME NEW s \in Session, NEW m \in messages'[s] \cup summaries'[s]
              PROVE  m.tenant = owner'[s]
  BY DEF MessagesAreTheOwners
<1>1. \A k \in messages[s] \cup summaries[s] : k.tenant = owner[s] /\ k.tenant \in Tenant
  <2>1. messages[s] \subseteq Message /\ summaries[s] \subseteq Summary
    BY DEF TurnsInv, ChatTypeOK
  <2>. QED BY <2>1 DEF TurnsInv, MessagesAreTheOwners, Message, Summary
<1>2. CASE s # turn[h].session
  BY <1>1, <1>2, CommitWrites, CommitSetsTheOwner
<1>3. CASE s = turn[h].session
  <2>1. \A k \in Own(h) \cup turn[h].summary : k.tenant = turn[h].tenant
    <3>1. turn[h].pc # "idle"
      BY DEF Commit, At
    <3>2. \A k \in turn[h].summary : k.tenant = turn[h].tenant
      BY TurnFacts
    <3>. QED BY <3>1, <3>2, VisibleMessages DEF TurnsInv
  <2>2. m \in messages[s] \cup summaries[s] \cup Own(h) \cup turn[h].summary
    BY <1>3, CommitWrites
  <2>3. \A k \in messages[s] \cup summaries[s] : k.tenant = turn[h].tenant
    BY <1>1, <1>3, CommitSetsTheOwner, ChatAssumption
  <2>. QED BY <1>3, <2>1, <2>2, <2>3, CommitSetsTheOwner
<1>. QED BY <1>2, <1>3

\* The reply is there, so that its confirmation goes with it.
LEMMA CommitKeepsOffers ==
  ASSUME TurnsInv, NEW h \in Handler, Commit(h)
  PROVE  RepliesAndConfirmationsAgree'
<1>. SUFFICES ASSUME NEW s \in Session
              PROVE  confirmations'[s] = {m.conf : m \in messages'[s]} \ {0}
  BY DEF RepliesAndConfirmationsAgree
<1>1. confirmations[s] = {m.conf : m \in messages[s]} \ {0}
  BY DEF TurnsInv, RepliesAndConfirmationsAgree
<1>2. CASE s # turn[h].session
  BY <1>1, <1>2, CommitWrites
<1>3. CASE s = turn[h].session
  <2>1. turn[h].reply # 0
    BY TurnFacts DEF Commit, At
  <2>. DEFINE r == [at |-> turn[h].reply, tenant |-> turn[h].tenant,
                    conf |-> turn[h].conf]
  <2>2. r \in Own(h) /\ \A m \in Own(h) : m.conf \in {0, turn[h].conf}
    BY <2>1 DEF Own
  <2>3. {m.conf : m \in Own(h)} \ {0} = {turn[h].conf} \ {0}
    <3>1. r.conf = turn[h].conf
      OBVIOUS
    <3>. QED BY <2>2, <3>1
  <2>4. /\ messages'[s] = messages[s] \cup Own(h)
        /\ confirmations'[s] = confirmations[s] \cup ({turn[h].conf} \ {0})
    BY <1>3, CommitWrites
  <2>5. {m.conf : m \in messages[s] \cup Own(h)}
          = {m.conf : m \in messages[s]} \cup {m.conf : m \in Own(h)}
    OBVIOUS
  <2>. QED BY <1>1, <2>3, <2>4, <2>5
<1>. QED BY <1>2, <1>3

LEMMA CommitStep ==
  ASSUME TurnsInv, NEW h \in Handler, Commit(h)
  PROVE  TurnsInv'
<1>1. TurnsCommitTheirOwn'
  <2>1. IdleTurn.pc = "idle" /\ IdleTurn.summary = {}
    BY DEF IdleTurn
  <2>. QED BY <2>1, CommitKeepsTypes DEF TurnsInv, TurnsCommitTheirOwn
<1>. QED BY <1>1, CommitKeepsTypes, CommitKeepsTheOthersSessions,
            CommitKeepsOwners, CommitKeepsOffers DEF TurnsInv

-----------------------------------------------------------------------------
(* The theorems *)

\* The sessions' rows, messages, summaries and confirmations have their types;
\* a turn that is past ChatService._ensure_session holds its session; and what
\* is committed is the owner's and offered by a reply.
THEOREM TurnsInvariant == ChatSpec => []TurnsInv
<1>1. ChatInit => TurnsInv
  <2>. SUFFICES ASSUME ChatInit PROVE TurnsInv
    OBVIOUS
  <2>1. ChatTypeOK
    <3>1. \A s \in Session : messages[s] = {} /\ IsFiniteSet({})
      BY FS_EmptySet DEF ChatInit
    <3>. QED BY <3>1, IdleIsATurn, ChatAssumption DEF ChatInit, ChatTypeOK, IdleTurn
  <2>2. TurnsHoldTheirSession /\ TurnsCommitTheirOwn
    BY DEF ChatInit, TurnsHoldTheirSession, TurnsCommitTheirOwn, IdleTurn
  <2>3. MessagesAreTheOwners /\ RepliesAndConfirmationsAgree
    BY DEF ChatInit, MessagesAreTheOwners, RepliesAndConfirmationsAgree
  <2>. QED BY <2>1, <2>2, <2>3 DEF TurnsInv
<1>2. TurnsInv /\ [ChatNext]_chatVars => TurnsInv'
  <2>. SUFFICES ASSUME TurnsInv, [ChatNext]_chatVars
                PROVE  TurnsInv'
    OBVIOUS
  <2>1. CASE UNCHANGED chatVars
    BY <2>1 DEF chatVars, TurnsInv, ChatTypeOK, TurnsHoldTheirSession,
                TurnsCommitTheirOwn, MessagesAreTheOwners,
                RepliesAndConfirmationsAgree
  <2>2. ASSUME NEW h \in Handler, Begin(h) \/ Serve(h) \/ Fail(h)
        PROVE  TurnsInv'
    <3>1. CASE Begin(h)
      BY <3>1, BeginStep
    <3>2. CASE Fail(h) \/ SessionExists(h)
      BY <3>2, NothingKeptStep
    <3>3. CASE InsertSession(h)
      BY <3>3, InsertStep
    <3>4. CASE SaveUserMessage(h) \/ ReadSummary(h) \/ ReadWindow(h) \/ SaveReply(h)
      BY <3>4, MessagesGoOn, GoesOnKeepsTheRest
    <3>5. CASE Converse(h) \/ ConverseAndAsk(h) \/ ConfirmationPending(h)
      BY <3>5, AnswersGoOn, GoesOnKeepsTheRest
    <3>6. CASE \/ CountMessages(h) \/ Check(h) \/ ReadForSummary(h)
               \/ CountForSummary(h) \/ SaveSummary(h)
      BY <3>6, SummariesGoOn, GoesOnKeepsTheRest
    <3>7. CASE Commit(h)
      BY <3>7, CommitStep
    <3>. QED BY <2>2, <3>1, <3>2, <3>3, <3>4, <3>5, <3>6, <3>7 DEF Serve
  <2>. QED BY <2>1, <2>2 DEF ChatNext
<1>. QED BY <1>1, <1>2, PTL DEF ChatSpec

\* Two tenants that name one new session id at the same time never end up in
\* one conversation: every committed message and summary is the owner's.
THEOREM ConversationsAreOneTenants == ChatSpec => []MessagesAreTheOwners
<1>1. TurnsInv => MessagesAreTheOwners
  BY DEF TurnsInv
<1>. QED BY <1>1, TurnsInvariant, PTL

\* A confirmation and the reply that offers it are committed together or not
\* at all, whatever fails after confirmation_pending_node has inserted it.
THEOREM OffersAreCommittedWhole == ChatSpec => []RepliesAndConfirmationsAgree
<1>1. TurnsInv => RepliesAndConfirmationsAgree
  BY DEF TurnsInv
<1>. QED BY <1>1, TurnsInvariant, PTL

=============================================================================
