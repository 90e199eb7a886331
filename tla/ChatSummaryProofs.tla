------------------------- MODULE ChatSummaryProofs -------------------------
(***************************************************************************)
(* Proofs about what Chat's summaries count and its prompts hold, however  *)
(* many turns of a session are open at once.                               *)
(***************************************************************************)
EXTENDS ChatProofs, FunctionTheorems

-----------------------------------------------------------------------------
(* Counting *)

\* Sets whose members have a time each have as many times as members.
LEMMA TimesTellApart ==
  ASSUME NEW S, IsFiniteSet(S), \A a, b \in S : a.at = b.at => a = b
  PROVE  IsFiniteSet(Ats(S)) /\ Cardinality(Ats(S)) = Cardinality(S)
<1>. DEFINE f == [m \in S |-> m.at]
<1>1. f \in Bijection(S, Ats(S))
  <2>1. f \in Injection(S, Ats(S))
    BY DEF Injection, IsInjective, Ats
  <2>2. f \in Surjection(S, Ats(S))
    BY DEF Surjection, Ats
  <2>. QED BY <2>1, <2>2 DEF Bijection
<1>2. ExistsBijection(S, Ats(S))
  BY <1>1 DEF ExistsBijection
<1>. QED BY <1>2, FS_Bijection

LEMMA DisjointSum ==
  ASSUME NEW S, NEW T, IsFiniteSet(S), IsFiniteSet(T), S \cap T = {}
  PROVE  /\ IsFiniteSet(S \cup T)
         /\ Cardinality(S \cup T) = Cardinality(S) + Cardinality(T)
         /\ Cardinality(S) \in Nat /\ Cardinality(T) \in Nat
<1>1. Cardinality(S) \in Nat /\ Cardinality(T) \in Nat
  BY FS_CardinalityType
<1>2. Cardinality({}) = 0
  BY FS_EmptySet
<1>3. /\ IsFiniteSet(S \cup T)
      /\ Cardinality(S \cup T) = Cardinality(S) + Cardinality(T) - Cardinality({})
  BY FS_Union
<1>. QED BY <1>1, <1>2, <1>3

LEMMA NoneCountsNothing == Recent({}, 1) = {} /\ CountOf({}) = 0
<1>1. Recent({}, 1) = {}
  BY DEF Recent
<1>2. UNION {m.counted : m \in {}} = {}
  OBVIOUS
<1>. QED BY <1>1, <1>2, FS_EmptySet DEF CountOf

\* get_latest: of summaries with different times it returns one at most, and
\* the count is that one's.
LEMMA LatestCounts ==
  ASSUME NEW S, IsFiniteSet(S), \A a \in S : a.at \in Nat,
         \A a, b \in S : a.at = b.at => a = b
  PROVE  /\ \A a, b \in Recent(S, 1) : a = b
         /\ \A k \in Recent(S, 1) : k \in S /\ CountOf(Recent(S, 1)) = Counted(k)
         /\ Recent(S, 1) = {} => CountOf(Recent(S, 1)) = 0
<1>1. ASSUME NEW m \in Recent(S, 1)
      PROVE  m \in S /\ \A a \in S : ~(a.at > m.at)
  <2>. DEFINE later == {a \in S : a.at > m.at}
  <2>1. m \in S /\ Cardinality(later) < 1
    BY DEF Recent
  <2>2. IsFiniteSet(later)
    BY FS_Subset
  <2>3. later = {}
    <3>. HIDE DEF later
    <3>1. Cardinality(later) \in Nat
      BY <2>2, FS_CardinalityType
    <3>2. Cardinality(later) = 0
      BY <2>1, <3>1
    <3>. QED BY <2>2, <3>2, FS_EmptySet
  <2>. QED BY <2>1, <2>3
<1>2. ASSUME NEW a \in Recent(S, 1), NEW b \in Recent(S, 1) PROVE a = b
  <2>1. a \in S /\ b \in S /\ ~(a.at > b.at) /\ ~(b.at > a.at)
    BY <1>1
  <2>. QED BY <2>1
<1>3. ASSUME NEW k \in Recent(S, 1) PROVE CountOf(Recent(S, 1)) = Counted(k)
  <2>1. Recent(S, 1) = {k}
    BY <1>2
  <2>2. UNION {m.counted : m \in {k}} = k.counted
    OBVIOUS
  <2>. QED BY <2>1, <2>2 DEF CountOf, Counted
<1>. QED BY <1>1, <1>2, <1>3, NoneCountsNothing

-----------------------------------------------------------------------------
(* The window *)

Later(S, m) == {k \in S : k.at > m.at}

\* The place of a message in ORDER BY created_at DESC tells it apart.
LEMMA PlacesTellApart ==
  ASSUME NEW S, IsFiniteSet(S), \A a \in S : a.at \in Nat,
         \A a, b \in S : a.at = b.at => a = b
  PROVE  [m \in S |-> Cardinality(Later(S, m))] \in
           Bijection(S, 0 .. Cardinality(S) - 1)
<1>. DEFINE f == [m \in S |-> Cardinality(Later(S, m))]
            N == Cardinality(S)
<1>1. N \in Nat
  BY FS_CardinalityType
<1>2. \A m \in S : /\ Later(S, m) \subseteq S \ {m} /\ IsFiniteSet(Later(S, m))
                   /\ Cardinality(Later(S, m)) \in 0 .. N - 1
  <2>. TAKE m \in S
  <2>1. Later(S, m) \subseteq S \ {m}
    BY DEF Later
  <2>2. IsFiniteSet(S \ {m}) /\ Cardinality(S \ {m}) = N - 1
    BY FS_RemoveElement
  <2>3. /\ IsFiniteSet(Later(S, m))
        /\ Cardinality(Later(S, m)) <= Cardinality(S \ {m})
    BY <2>1, <2>2, FS_Subset
  <2>4. Cardinality(Later(S, m)) \in Nat
    BY <2>3, FS_CardinalityType
  <2>. HIDE DEF N
  <2>. QED BY <1>1, <2>1, <2>2, <2>3, <2>4
<1>3. \A a, b \in S : a.at < b.at => Cardinality(Later(S, b)) # Cardinality(Later(S, a))
  <2>. SUFFICES ASSUME NEW a \in S, NEW b \in S, a.at < b.at
                PROVE  Cardinality(Later(S, b)) # Cardinality(Later(S, a))
    OBVIOUS
  <2>1. Later(S, b) \subseteq Later(S, a) /\ b \in Later(S, a) /\ b \notin Later(S, b)
    BY DEF Later
  <2>. QED BY <1>2, <2>1, FS_Subset
<1>4. f \in [S -> 0 .. N - 1]
  BY <1>2
<1>5. f \in Injection(S, 0 .. N - 1)
  <2>. SUFFICES ASSUME NEW a \in S, NEW b \in S, f[a] = f[b]
                PROVE  a = b
    BY <1>4 DEF Injection, IsInjective
  <2>1. Cardinality(Later(S, a)) = Cardinality(Later(S, b))
    OBVIOUS
  <2>2. ~(a.at < b.at) /\ ~(b.at < a.at)
    BY <1>3, <2>1
  <2>. QED BY <2>2
<1>6. IsFiniteSet(0 .. N - 1) /\ Cardinality(0 .. N - 1) = N
  <2>. HIDE DEF N
  <2>1. 0 \in Int /\ N - 1 \in Int
    BY <1>1
  <2>2. /\ IsFiniteSet(0 .. N - 1)
        /\ Cardinality(0 .. N - 1) = IF 0 > N - 1 THEN 0 ELSE N - 1 - 0 + 1
    BY <2>1, FS_Interval
  <2>. QED BY <1>1, <2>2
<1>7. f \in Surjection(S, 0 .. N - 1)
  <2>. HIDE DEF f
  <2>. QED BY <1>5, <1>6, FS_Injection
<1>. QED BY <1>5, <1>7 DEF Bijection

\* LIMIT n leaves n messages, or all there are; and what it leaves out is older
\* than what it leaves.
LEMMA WindowIsFull ==
  ASSUME NEW S, IsFiniteSet(S), \A a \in S : a.at \in Nat,
         \A a, b \in S : a.at = b.at => a = b, NEW n \in Nat
  PROVE  /\ Recent(S, n) \subseteq S
         /\ n <= Cardinality(S) => Cardinality(Recent(S, n)) = n
         /\ n >= Cardinality(S) => Recent(S, n) = S
         /\ \A m \in Recent(S, n) : \A k \in S \ Recent(S, n) : k.at < m.at
<1>. DEFINE f == [m \in S |-> Cardinality(Later(S, m))]
            N == Cardinality(S)
            W == Recent(S, n)
<1>1. N \in Nat
  BY FS_CardinalityType
<1>2. f \in Bijection(S, 0 .. N - 1)
  BY PlacesTellApart
<1>3. f \in [S -> 0 .. N - 1]
  BY <1>2 DEF Bijection, Injection
<1>4. W = {m \in S : f[m] < n}
  BY DEF Recent, Later
<1>5. N <= n => W = S
  <2>. HIDE DEF N, f
  <2>. QED BY <1>1, <1>3, <1>4
<1>6. n <= N => Cardinality(W) = n
  <2>. SUFFICES ASSUME n <= N PROVE Cardinality(W) = n
    OBVIOUS
  <2>. DEFINE g == [m \in W |-> f[m]]
  <2>. HIDE DEF N, f, W
  <2>1. g \in [W -> 0 .. n - 1]
    BY <1>1, <1>3, <1>4
  <2>2. g \in Injection(W, 0 .. n - 1)
    BY <1>2, <1>4, <2>1 DEF Bijection, Injection, IsInjective
  <2>3. g \in Surjection(W, 0 .. n - 1)
    <3>. SUFFICES ASSUME NEW i \in 0 .. n - 1
                  PROVE  \E m \in W : g[m] = i
      BY <2>1 DEF Surjection
    <3>1. PICK m \in S : f[m] = i
      BY <1>1, <1>2 DEF Bijection, Surjection
    <3>2. m \in W
      BY <1>4, <3>1
    <3>. QED BY <3>1, <3>2
  <2>4. ExistsBijection(W, 0 .. n - 1)
    BY <2>2, <2>3 DEF Bijection, ExistsBijection
  <2>5. ExistsBijection(0 .. n - 1, W)
    BY <2>4, Fun_ExistsBijSymmetric
  <2>6. IsFiniteSet(0 .. n - 1) /\ Cardinality(0 .. n - 1) = n
    <3>1. 0 \in Int /\ n - 1 \in Int
      OBVIOUS
    <3>2. /\ IsFiniteSet(0 .. n - 1)
          /\ Cardinality(0 .. n - 1) = IF 0 > n - 1 THEN 0 ELSE n - 1 - 0 + 1
      BY <3>1, FS_Interval
    <3>. QED BY <3>2
  <2>. QED BY <2>5, <2>6, FS_Bijection
<1>7. ASSUME NEW m \in W, NEW k \in S \ W PROVE k.at < m.at
  <2>1. m \in S /\ Cardinality(Later(S, m)) < n /\ ~(Cardinality(Later(S, k)) < n)
    BY DEF Recent, Later
  <2>2. CASE k.at > m.at
    <3>1. Later(S, k) \subseteq Later(S, m)
      BY <2>1, <2>2 DEF Later
    <3>2. IsFiniteSet(Later(S, m)) /\ Later(S, m) \subseteq S
      BY FS_Subset DEF Later
    <3>3. /\ Cardinality(Later(S, k)) <= Cardinality(Later(S, m))
          /\ IsFiniteSet(Later(S, k))
      BY <3>1, <3>2, FS_Subset
    <3>4. Cardinality(Later(S, k)) \in Nat /\ Cardinality(Later(S, m)) \in Nat
      BY <3>2, <3>3, FS_CardinalityType
    <3>. QED BY <2>1, <3>3, <3>4
  <2>3. CASE k.at = m.at
    BY <2>1, <2>3
  <2>. QED BY <2>1, <2>2, <2>3
<1>8. W \subseteq S
  BY DEF Recent
<1>. QED BY <1>5, <1>6, <1>7, <1>8, <1>1

-----------------------------------------------------------------------------
(* What a turn sees of its session *)

\* Everything in the session is of the turn's tenant, so that it sees all of it.
LEMMA SeesItsSession ==
  ASSUME TurnsInv, NEW h \in Handler, turn[h].pc \notin {"idle", "insert"}
  PROVE  /\ turn[h].session \in Session /\ turn[h].tenant \in Tenant
         /\ Visible(h) = Own(h) \cup messages[turn[h].session]
         /\ Latest(h) = Recent(summaries[turn[h].session], 1)
<1>. DEFINE s == turn[h].session
<1>1. s \in Session /\ turn[h].tenant \in Tenant
  BY DEF TurnsInv, ChatTypeOK, TurnState
<1>2. \A k \in messages[s] \cup summaries[s] : k.tenant = owner[s] /\ k.tenant \in Tenant
  <2>1. messages[s] \subseteq Message /\ summaries[s] \subseteq Summary
    BY <1>1 DEF TurnsInv, ChatTypeOK
  <2>. QED BY <1>1, <2>1 DEF TurnsInv, MessagesAreTheOwners, Message, Summary
<1>3. owner[s] \in {None, turn[h].tenant}
  BY DEF TurnsInv, TurnsHoldTheirSession
<1>4. \A k \in messages[s] \cup summaries[s] : k.tenant = turn[h].tenant
  BY <1>2, <1>3, ChatAssumption
<1>5. {k \in messages[s] : k.tenant = turn[h].tenant} = messages[s]
  BY <1>4
<1>6. {k \in summaries[s] : k.tenant = turn[h].tenant} = summaries[s]
  BY <1>4
<1>. QED BY <1>1, <1>5, <1>6 DEF Visible, Latest

\* The times of a turn's own messages: two, once it has replied.
LEMMA TimesOfItsOwn ==
  ASSUME TurnsInv, TimesAreNew, NEW h \in Handler
  PROVE  /\ Ats(Own(h)) = Times(h)
         /\ \A a, b \in Own(h) : a.at = b.at => a = b
         /\ IsFiniteSet(Times(h)) /\ Times(h) \subseteq Nat
         /\ Cardinality(Times(h)) \in 0 .. 2
         /\ turn[h].pc = "context" => Cardinality(Times(h)) = 1
         /\ turn[h].reply # 0 => Cardinality(Times(h)) = 2
<1>. DEFINE u == [at |-> turn[h].user, tenant |-> turn[h].tenant, conf |-> 0]
            r == [at |-> turn[h].reply, tenant |-> turn[h].tenant,
                  conf |-> turn[h].conf]
<1>1. /\ turn[h].user \in Nat /\ turn[h].reply \in Nat
      /\ turn[h].reply # 0 => 0 < turn[h].user /\ turn[h].user < turn[h].reply
      /\ turn[h].pc = "context" => turn[h].user # 0 /\ turn[h].reply = 0
  BY DEF TurnsInv, ChatTypeOK, TurnState, TimesAreNew
<1>2. Own(h) = {m \in {u, r} : m.at # 0}
  BY DEF Own
<1>3. u.at = turn[h].user /\ r.at = turn[h].reply
  OBVIOUS
<1>4. Ats(Own(h)) = Times(h)
  <2>. HIDE DEF u, r
  <2>. QED BY <1>2, <1>3 DEF Ats, Times
<1>5. \A a, b \in Own(h) : a.at = b.at => a = b
  <2>. HIDE DEF u, r
  <2>. QED BY <1>1, <1>2, <1>3
<1>6. CASE turn[h].reply # 0
  <2>1. Times(h) = {turn[h].user} \cup {turn[h].reply}
    BY <1>1, <1>6 DEF Times
  <2>2. turn[h].reply \notin {turn[h].user}
    BY <1>1, <1>6
  <2>3. IsFiniteSet({turn[h].user}) /\ Cardinality({turn[h].user}) = 1
    BY FS_Singleton
  <2>4. IsFiniteSet(Times(h)) /\ Cardinality(Times(h)) = 2
    <3>. DEFINE U == {turn[h].user}
    <3>. HIDE DEF U
    <3>1. IsFiniteSet(U) /\ Cardinality(U) = 1 /\ turn[h].reply \notin U
      BY <2>2, <2>3 DEF U
    <3>2. /\ IsFiniteSet(U \cup {turn[h].reply})
          /\ Cardinality(U \cup {turn[h].reply}) = Cardinality(U) + 1
      BY <3>1, FS_AddElement
    <3>. QED BY <2>1, <3>1, <3>2 DEF U
  <2>. QED BY <1>1, <1>4, <1>5, <1>6, <2>1, <2>4
<1>7. CASE turn[h].reply = 0 /\ turn[h].user # 0
  <2>1. Times(h) = {turn[h].user}
    BY <1>7 DEF Times
  <2>2. IsFiniteSet(Times(h)) /\ Cardinality(Times(h)) = 1
    BY <2>1, FS_Singleton
  <2>. QED BY <1>1, <1>4, <1>5, <1>7, <2>1, <2>2
<1>8. CASE turn[h].reply = 0 /\ turn[h].user = 0
  <2>1. Times(h) = {}
    BY <1>8 DEF Times
  <2>2. IsFiniteSet(Times(h)) /\ Cardinality(Times(h)) = 0
    BY <2>1, FS_EmptySet
  <2>. QED BY <1>1, <1>4, <1>5, <1>8, <2>1, <2>2
<1>. QED BY <1>1, <1>6, <1>7, <1>8

LEMMA SessionTimes ==
  ASSUME TurnsInv, TimesAreNew, NEW s \in Session
  PROVE  /\ IsFiniteSet(messages[s]) /\ Cardinality(messages[s]) \in Nat
         /\ IsFiniteSet(Ats(messages[s]))
         /\ Cardinality(Ats(messages[s])) = Cardinality(messages[s])
         /\ Ats(messages[s]) \subseteq Nat
<1>1. IsFiniteSet(messages[s]) /\ \A a, b \in messages[s] : a.at = b.at => a = b
  BY DEF TurnsInv, ChatTypeOK, TimesAreNew
<1>2. /\ IsFiniteSet(Ats(messages[s]))
      /\ Cardinality(Ats(messages[s])) = Cardinality(messages[s])
  BY <1>1, TimesTellApart
<1>3. Ats(messages[s]) \subseteq 1 .. clock
  BY DEF TimesAreNew
<1>4. 1 .. clock \subseteq Nat
  BY DEF TurnsInv, ChatTypeOK
<1>. QED BY <1>1, <1>2, <1>3, <1>4, FS_CardinalityType

\* What a turn sees: the messages of the session and its own, all told apart by
\* their times.
LEMMA SeesAll ==
  ASSUME TurnsInv, TimesAreNew, NEW h \in Handler,
         turn[h].pc \notin {"idle", "insert"}
  PROVE  LET s == turn[h].session
         IN  /\ IsFiniteSet(Visible(h))
             /\ Ats(Visible(h)) = Ats(messages[s]) \cup Times(h)
             /\ \A a, b \in Visible(h) : a.at = b.at => a = b
             /\ \A a \in Visible(h) : a.at \in Nat
             /\ Cardinality(Visible(h)) =
                  Cardinality(messages[s]) + Cardinality(Times(h))
             /\ Cardinality(Ats(Visible(h))) = Cardinality(Visible(h))
             /\ IsFiniteSet(Ats(Visible(h)))
<1>. DEFINE s == turn[h].session
<1>1. s \in Session /\ Visible(h) = Own(h) \cup messages[s]
  BY SeesItsSession
<1>2. /\ IsFiniteSet(messages[s]) /\ Ats(messages[s]) \subseteq Nat
      /\ \A a, b \in messages[s] : a.at = b.at => a = b
      /\ Times(h) \cap Ats(messages[s]) = {}
  BY <1>1, SessionTimes DEF TimesAreNew
<1>3. IsFiniteSet(Own(h)) /\ IsFiniteSet(Visible(h))
  BY VisibleMessages DEF TurnsInv
<1>4. Cardinality(Own(h)) = Cardinality(Times(h))
  <2>1. /\ Ats(Own(h)) = Times(h)
        /\ \A a, b \in Own(h) : a.at = b.at => a = b
    BY TimesOfItsOwn
  <2>. QED BY <1>3, <2>1, TimesTellApart
<1>5. \A a \in Own(h) : \A b \in messages[s] : a.at # b.at
  <2>1. Ats(Own(h)) = Times(h)
    BY TimesOfItsOwn
  <2>. QED BY <1>2, <2>1 DEF Ats
<1>6. \A a, b \in Visible(h) : a.at = b.at => a = b
  <2>1. \A a, b \in Own(h) : a.at = b.at => a = b
    BY TimesOfItsOwn
  <2>. QED BY <1>1, <1>2, <1>5, <2>1
<1>7. Cardinality(Visible(h)) = Cardinality(messages[s]) + Cardinality(Times(h))
  <2>1. Own(h) \cap messages[s] = {}
    BY <1>5
  <2>2. /\ Cardinality(Own(h) \cup messages[s])
             = Cardinality(Own(h)) + Cardinality(messages[s])
        /\ Cardinality(Own(h)) \in Nat /\ Cardinality(messages[s]) \in Nat
    BY <1>2, <1>3, <2>1, DisjointSum
  <2>. QED BY <1>1, <1>4, <2>2
<1>8. Ats(Visible(h)) = Ats(messages[s]) \cup Times(h)
  <2>1. Ats(Own(h) \cup messages[s]) = Ats(Own(h)) \cup Ats(messages[s])
    BY DEF Ats
  <2>2. Ats(Own(h)) = Times(h)
    BY TimesOfItsOwn
  <2>. QED BY <1>1, <2>1, <2>2
<1>9. \A a \in Visible(h) : a.at \in Nat
  <2>1. Ats(Visible(h)) \subseteq Nat
    BY <1>2, <1>8, TimesOfItsOwn
  <2>. QED BY <2>1 DEF Ats
<1>10. /\ IsFiniteSet(Ats(Visible(h)))
       /\ Cardinality(Ats(Visible(h))) = Cardinality(Visible(h))
  BY <1>3, <1>6, TimesTellApart
<1>. QED BY <1>3, <1>6, <1>7, <1>8, <1>9, <1>10

-----------------------------------------------------------------------------
(* What a step does to times and summaries *)

\* A step of turn h that commits nothing.
Frame(h) ==
  /\ messages' = messages /\ summaries' = summaries
  /\ clock' \in Nat /\ clock' >= clock
  /\ turn' \in [Handler -> TurnState]
  /\ \A g \in Handler \ {h} : turn'[g] = turn[g]

\* ... and counts nothing: what the turn has counted it had counted before, and
\* a time it has for the user's message is the one it had in that session, or a
\* new one.
Plain(h) ==
  /\ Frame(h)
  /\ turn'[h].user \in 1 .. clock =>
       turn'[h].user = turn[h].user /\ turn'[h].session = turn[h].session
  /\ CountedBy(h)' # {} =>
       /\ CountedBy(h)' = CountedBy(h) /\ Times(h)' = Times(h)
       /\ turn'[h].session = turn[h].session

\* After a step the turn has no summary, or one that is made now.
SummaryFits(h) ==
  \/ turn'[h].summary = {}
  \/ /\ turn'[h].pc = "commit" /\ clock' = clock + 1
     /\ \E k : turn'[h].summary = {k} /\ k.at = clock'

\* What turn h has got after a step fits its times.
TimesFit(h) ==
  /\ turn'[h].pc \in {"idle", "insert", "user"} => turn'[h].user = 0
  /\ turn'[h].pc \in {"context", "window", "graph", "confirm", "reply"} =>
       turn'[h].user # 0 /\ turn'[h].reply = 0
  /\ turn'[h].reply # 0 => 0 < turn'[h].user /\ turn'[h].user < turn'[h].reply
  /\ Times(h)' \subseteq Times(h) \cup (clock + 1 .. clock')

LEMMA TimesKept ==
  ASSUME TurnsInv, TimesAreNew, NEW h \in Handler, Frame(h), TimesFit(h)
  PROVE  TimesAreNew'
<1>1. clock \in Nat /\ clock' \in Nat /\ clock' >= clock /\ messages' = messages
  BY DEF Frame, TurnsInv, ChatTypeOK
<1>2. \A g \in Handler : /\ Times(g) \subseteq 1 .. clock
                         /\ \A s \in Session : Times(g) \cap Ats(messages[s]) = {}
  BY DEF TimesAreNew
<1>3. \A s \in Session : Ats(messages[s]) \subseteq 1 .. clock
  BY DEF TimesAreNew
<1>4. \A i \in 1 .. clock : i \notin clock + 1 .. clock'
  BY <1>1
<1>5. \A i \in 1 .. clock : i \in 1 .. clock'
  BY <1>1
<1>6. \A i \in clock + 1 .. clock' : i \in 1 .. clock'
  BY <1>1
<1>7. \A g \in Handler \ {h} : Times(g)' = Times(g)
  BY DEF Times, Frame
<1>8. \A g \in Handler : Times(g)' \subseteq 1 .. clock'
  BY <1>2, <1>5, <1>6, <1>7 DEF TimesFit
<1>9. \A g \in Handler \ {h} : Times(g)' \cap Times(h)' = {}
  <2>. TAKE g \in Handler \ {h}
  <2>1. Times(g) \cap Times(h) = {}
    BY DEF TimesAreNew
  <2>. QED BY <1>2, <1>4, <1>7, <2>1 DEF TimesFit
<1>10. \A s \in Session : Times(h)' \cap Ats(messages[s]) = {}
  BY <1>2, <1>3, <1>4 DEF TimesFit
<1>11. ASSUME NEW g \in Handler
       PROVE  /\ turn'[g].pc \in {"idle", "insert", "user"} => turn'[g].user = 0
              /\ turn'[g].pc \in {"context", "window", "graph", "confirm", "reply"} =>
                   turn'[g].user # 0 /\ turn'[g].reply = 0
              /\ turn'[g].reply # 0 =>
                   0 < turn'[g].user /\ turn'[g].user < turn'[g].reply
  <2>1. CASE g = h
    BY <2>1 DEF TimesFit
  <2>2. CASE g # h
    BY <2>2 DEF Frame, TimesAreNew
  <2>. QED BY <2>1, <2>2
<1>12. ASSUME NEW g \in Handler
       PROVE  /\ \A f \in Handler \ {g} : Times(f)' \cap Times(g)' = {}
              /\ \A s \in Session : Times(g)' \cap Ats(messages[s]) = {}
  <2>1. CASE g = h
    BY <1>9, <1>10, <2>1
  <2>2. CASE g # h
    <3>1. \A f \in Handler \ {g} : Times(f) \cap Times(g) = {}
      BY DEF TimesAreNew
    <3>2. Times(g) \cap Times(h)' = {}
      BY <1>7, <1>9, <2>2
    <3>. QED BY <1>2, <1>7, <2>2, <3>1, <3>2
  <2>. QED BY <2>1, <2>2
<1>13. \A s \in Session : /\ Ats(messages[s]) \subseteq 1 .. clock'
                          /\ \A a, b \in messages[s] : a.at = b.at => a = b
  BY <1>3, <1>5 DEF TimesAreNew
<1>14. \A s \in Session : Ats(messages[s])' = Ats(messages[s])
  BY <1>1 DEF Ats
<1>. QED BY <1>1, <1>8, <1>11, <1>12, <1>13, <1>14 DEF TimesAreNew

\* What a turn has counted is what it holds.
LEMMA OthersCounts ==
  ASSUME NEW h \in Handler, \A g \in Handler \ {h} : turn'[g] = turn[g]
  PROVE  \A g \in Handler \ {h} : CountedBy(g)' = CountedBy(g) /\ Times(g)' = Times(g)
BY DEF CountedBy, Times

LEMMA CountsMadeByPlainSteps ==
  ASSUME NEW h \in Handler, Plain(h), NEW s \in Session
  PROVE  CountsMade(s)' \subseteq CountsMade(s)
<1>. SUFFICES ASSUME NEW C \in CountsMade(s)' PROVE C \in CountsMade(s)
  OBVIOUS
<1>. HIDE DEF CountedBy
<1>1. CASE C \in {k.counted : k \in summaries'[s]}
  BY <1>1 DEF Plain, Frame, CountsMade
<1>2. CASE C \notin {k.counted : k \in summaries'[s]}
  <2>1. PICK g \in Handler : turn'[g].session = s /\ C \in CountedBy(g)'
    BY <1>2 DEF CountsMade
  <2>2. turn[g].session = s /\ C \in CountedBy(g)
    <3>1. CASE g = h
      BY <2>1, <3>1 DEF Plain
    <3>2. CASE g # h
      BY <2>1, <3>2, OthersCounts DEF Plain, Frame
    <3>. QED BY <3>1, <3>2
  <2>. QED BY <2>1, <2>2 DEF CountsMade
<1>. QED BY <1>1, <1>2

\* CountsAreOfMessages, of one turn.
CountsFit(h) ==
  /\ turn[h].summary # {} => turn[h].pc = "commit"
  /\ \A a, b \in turn[h].summary : a = b
  /\ \A C \in CountedBy(h) :
       Times(h) \subseteq C /\ C \subseteq Ats(messages[turn[h].session]) \cup Times(h)

LEMMA CountsFitAll ==
  CountsAreOfMessages <=>
    /\ \A s \in Session : \A k \in summaries[s] : k.counted \subseteq Ats(messages[s])
    /\ \A h \in Handler : CountsFit(h)
BY DEF CountsAreOfMessages, CountsFit

LEMMA CountsKept ==
  ASSUME CountsAreOfMessages, NEW h \in Handler, Plain(h), SummaryFits(h)
  PROVE  CountsAreOfMessages'
<1>1. messages' = messages /\ summaries' = summaries
      /\ \A g \in Handler \ {h} : turn'[g] = turn[g]
  BY DEF Plain, Frame
<1>2. \A s : Ats(messages[s])' = Ats(messages[s])
  BY <1>1 DEF Ats
<1>3. ASSUME NEW g \in Handler PROVE CountsFit(g)'
  <2>1. CountsFit(g)
    BY CountsFitAll
  <2>2. CASE g = h
    <3>1. /\ turn'[h].summary # {} => turn'[h].pc = "commit"
          /\ \A a, b \in turn'[h].summary : a = b
      BY DEF SummaryFits
    <3>2. ASSUME NEW C \in CountedBy(h)'
          PROVE  /\ Times(h)' \subseteq C
                 /\ C \subseteq Ats(messages[turn'[h].session]) \cup Times(h)'
      <4>1. /\ C \in CountedBy(h) /\ Times(h)' = Times(h)
            /\ turn'[h].session = turn[h].session
        BY DEF Plain
      <4>. HIDE DEF CountedBy, Times
      <4>. QED BY <2>1, <2>2, <4>1 DEF CountsFit
    <3>. HIDE DEF CountedBy, Times
    <3>. QED BY <1>2, <2>2, <3>1, <3>2 DEF CountsFit
  <2>3. CASE g # h
    <3>1. turn'[g] = turn[g] /\ CountedBy(g)' = CountedBy(g) /\ Times(g)' = Times(g)
      BY <1>1, <2>3, OthersCounts
    <3>. QED BY <1>2, <2>1, <3>1 DEF CountsFit
  <2>. QED BY <2>2, <2>3
<1>4. \A s \in Session : \A k \in summaries'[s] : k.counted \subseteq Ats(messages[s])'
  BY <1>1, <1>2 DEF CountsAreOfMessages
<1>. QED BY <1>3, <1>4 DEF CountsAreOfMessages, CountsFit

\* Whatever is made by a step is made now.
LEMMA MadeNow ==
  ASSUME NEW h \in Handler, Frame(h), turn'[h].summary # {} => SummaryFits(h),
         NEW s \in Session
  PROVE  \/ Made(s)' \subseteq Made(s)
         \/ \E k : /\ Made(s)' \subseteq Made(s) \cup {k}
                   /\ k.at = clock' /\ clock' = clock + 1
<1>1. ASSUME NEW a \in Made(s)' PROVE a \in Made(s) \cup turn'[h].summary
  <2>1. CASE a \in summaries'[s]
    BY <2>1 DEF Frame, Made
  <2>2. CASE a \notin summaries'[s]
    <3>1. PICK g \in Handler : turn'[g].session = s /\ a \in turn'[g].summary
      BY <2>2 DEF Made
    <3>2. CASE g = h
      BY <3>1, <3>2
    <3>3. CASE g # h
      BY <3>1, <3>3 DEF Frame, Made
    <3>. QED BY <3>2, <3>3
  <2>. QED BY <2>1, <2>2
<1>2. CASE turn'[h].summary = {}
  BY <1>1, <1>2
<1>3. CASE turn'[h].summary # {}
  <2>1. PICK k : turn'[h].summary = {k} /\ k.at = clock' /\ clock' = clock + 1
    BY <1>3 DEF SummaryFits
  <2>. QED BY <1>1, <2>1
<1>. QED BY <1>2, <1>3

LEMMA LatestKept ==
  ASSUME TurnsInv, OneIsLatestAndOneCountedMost, NEW h \in Handler, Frame(h),
         SummaryFits(h)
  PROVE  OneIsLatestAndOneCountedMost'
<1>1. summaries' = summaries /\ clock \in Nat /\ clock' \in Nat /\ clock' >= clock
  BY DEF Frame, TurnsInv, ChatTypeOK
<1>2. ASSUME NEW s \in Session
      PROVE  /\ IsFiniteSet(Made(s)')
             /\ \A a, b \in Made(s)' : a.at \in 1 .. clock' /\ (a.at = b.at => a = b)
  <2>1. /\ IsFiniteSet(Made(s))
        /\ \A a, b \in Made(s) : a.at \in 1 .. clock /\ (a.at = b.at => a = b)
    BY DEF OneIsLatestAndOneCountedMost
  <2>2. \A i \in 1 .. clock : i \in 1 .. clock'
    BY <1>1
  <2>3. CASE Made(s)' \subseteq Made(s)
    BY <2>1, <2>2, <2>3, FS_Subset
  <2>4. CASE ~(Made(s)' \subseteq Made(s))
    <3>1. PICK k : Made(s)' \subseteq Made(s) \cup {k} /\ k.at = clock' /\ clock' = clock + 1
      BY <2>4, MadeNow
    <3>2. IsFiniteSet(Made(s) \cup {k})
      BY <2>1, FS_AddElement
    <3>3. k.at \in 1 .. clock' /\ k.at \notin 1 .. clock
      BY <1>1, <3>1
    <3>4. IsFiniteSet(Made(s)')
      BY <3>1, <3>2, FS_Subset
    <3>5. \A a \in Made(s)' : a \in Made(s) \/ a = k
      BY <3>1
    <3>. QED BY <2>1, <2>2, <3>3, <3>4, <3>5
  <2>. QED BY <2>3, <2>4
<1>3. \A s \in Session : summaries'[s] # {} =>
        \E k \in summaries'[s] : \A a \in summaries'[s] : Counted(a) <= Counted(k)
  BY <1>1 DEF OneIsLatestAndOneCountedMost
<1>4. \A a : Counted(a)' = Cardinality(a.counted) /\ Counted(a) = Cardinality(a.counted)
  BY DEF Counted
<1>. QED BY <1>2, <1>3 DEF OneIsLatestAndOneCountedMost, Counted

-----------------------------------------------------------------------------
(* What was counted, and the turns that it does not count *)

LEMMA CountsAreFinite ==
  ASSUME TurnsInv, TimesAreNew, CountsAreOfMessages, NEW s \in Session,
         NEW C \in CountsMade(s)
  PROVE  IsFiniteSet(C) /\ Cardinality(C) \in Nat /\ C \subseteq 1 .. clock /\ clock \in Nat
<1>1. IsFiniteSet(Ats(messages[s])) /\ Ats(messages[s]) \subseteq 1 .. clock
  BY SessionTimes DEF TimesAreNew
<1>2. \E g \in Handler : C \subseteq Ats(messages[s]) \cup Times(g)
  <2>1. CASE C \in {k.counted : k \in summaries[s]}
    <3>1. C \subseteq Ats(messages[s])
      BY <2>1 DEF CountsAreOfMessages
    <3>2. Handler # {}
      BY ChatAssumption
    <3>. QED BY <3>1, <3>2
  <2>2. CASE C \notin {k.counted : k \in summaries[s]}
    <3>1. PICK g \in Handler : turn[g].session = s /\ C \in CountedBy(g)
      BY <2>2 DEF CountsMade
    <3>2. C \subseteq Ats(messages[s]) \cup Times(g)
      BY <3>1 DEF CountsAreOfMessages
    <3>. QED BY <3>2
  <2>. QED BY <2>1, <2>2
<1>3. PICK g \in Handler : C \subseteq Ats(messages[s]) \cup Times(g)
  BY <1>2
<1>4. IsFiniteSet(Times(g)) /\ Times(g) \subseteq 1 .. clock
  BY TimesOfItsOwn DEF TimesAreNew
<1>5. IsFiniteSet(Ats(messages[s]) \cup Times(g))
  BY <1>1, <1>4, FS_Union
<1>6. IsFiniteSet(C)
  BY <1>3, <1>5, FS_Subset
<1>7. clock \in Nat
  BY DEF TurnsInv, ChatTypeOK
<1>. QED BY <1>1, <1>3, <1>4, <1>6, <1>7, FS_CardinalityType

\* Every committed summary has counted n messages at most.
Above(s, n) == \A k \in summaries[s] : Counted(k) <= n

\* The count that should_summarise compares with is one of the committed ones.
LEMMA LatestIsCounted ==
  ASSUME TurnsInv, TimesAreNew, CountsAreOfMessages, OneIsLatestAndOneCountedMost,
         NEW s \in Session, NEW n \in Nat, Above(s, n)
  PROVE  /\ CountOf(Recent(summaries[s], 1)) \in Nat
         /\ CountOf(Recent(summaries[s], 1)) <= n
<1>1. summaries[s] \subseteq Made(s)
  BY DEF Made
<1>2. IsFiniteSet(summaries[s])
  BY <1>1, FS_Subset DEF OneIsLatestAndOneCountedMost
<1>3. \A a, b \in summaries[s] : a.at \in Nat /\ (a.at = b.at => a = b)
  BY <1>1 DEF OneIsLatestAndOneCountedMost, TurnsInv, ChatTypeOK
<1>4. \A k \in summaries[s] : Counted(k) \in Nat
  <2>. TAKE k \in summaries[s]
  <2>1. k.counted \in CountsMade(s)
    BY DEF CountsMade
  <2>. QED BY <2>1, CountsAreFinite DEF Counted
<1>5. CASE Recent(summaries[s], 1) = {}
  <2>1. CountOf(Recent(summaries[s], 1)) = 0
    BY <1>5, NoneCountsNothing
  <2>. QED BY <2>1
<1>6. CASE Recent(summaries[s], 1) # {}
  <2>1. PICK k \in Recent(summaries[s], 1) : TRUE
    BY <1>6
  <2>2. k \in summaries[s] /\ CountOf(Recent(summaries[s], 1)) = Counted(k)
    BY <1>2, <1>3, LatestCounts
  <2>3. Counted(k) \in Nat /\ Counted(k) <= n
    BY <1>4, <2>2 DEF Above
  <2>. QED BY <2>2, <2>3
<1>. QED BY <1>5, <1>6

LEMMA HandlersAreMany ==
  /\ IsFiniteSet(Handler) /\ Cardinality(Handler) \in Nat \ {0}
  /\ \A A \in SUBSET Handler :
       /\ IsFiniteSet(A) /\ Cardinality(A) \in Nat
       /\ Cardinality(A) <= Cardinality(Handler)
       /\ \A h \in Handler \ A : Cardinality(A) <= Cardinality(Handler) - 1
       /\ \A h \in A : Cardinality(A \ {h}) = Cardinality(A) - 1
       /\ \A B \in SUBSET A : Cardinality(B) <= Cardinality(A)
<1>1. IsFiniteSet(Handler) /\ Handler # {}
  BY ChatAssumption
<1>2. Cardinality(Handler) \in Nat \ {0}
  BY <1>1, FS_CardinalityType, FS_EmptySet
<1>3. ASSUME NEW A \in SUBSET Handler
      PROVE  /\ IsFiniteSet(A) /\ Cardinality(A) \in Nat
             /\ Cardinality(A) <= Cardinality(Handler)
             /\ \A h \in Handler \ A : Cardinality(A) <= Cardinality(Handler) - 1
             /\ \A h \in A : Cardinality(A \ {h}) = Cardinality(A) - 1
             /\ \A B \in SUBSET A : Cardinality(B) <= Cardinality(A)
  <2>1. IsFiniteSet(A) /\ Cardinality(A) <= Cardinality(Handler)
    BY <1>1, FS_Subset
  <2>2. Cardinality(A) \in Nat
    BY <2>1, FS_CardinalityType
  <2>3. \A h \in A : Cardinality(A \ {h}) = Cardinality(A) - 1
    BY <2>1, FS_RemoveElement
  <2>4. \A B \in SUBSET A : Cardinality(B) <= Cardinality(A)
    BY <2>1, FS_Subset
  <2>5. ASSUME NEW h \in Handler \ A
        PROVE  Cardinality(A) <= Cardinality(Handler) - 1
    <3>1. /\ IsFiniteSet(Handler \ {h})
          /\ Cardinality(Handler \ {h}) = Cardinality(Handler) - 1
      BY <1>1, FS_RemoveElement
    <3>2. A \subseteq Handler \ {h}
      OBVIOUS
    <3>3. Cardinality(A) <= Cardinality(Handler \ {h})
      BY <3>1, <3>2, FS_Subset
    <3>. QED BY <3>1, <3>3
  <2>. QED BY <2>1, <2>2, <2>3, <2>4, <2>5
<1>. QED BY <1>1, <1>2, <1>3

Levels(s) == {0} \cup {Cardinality(C) : C \in CountsMade(s)}

\* BacklogIsBounded, of one session at one count.
Bounded(s, n) ==
  Cardinality(messages[s]) + 2 * Cardinality(MayAdd(s, n)) <
    n + SummaryThreshold + 2 * (Cardinality(Handler) - 1)

LEMMA BacklogIsLevelled ==
  BacklogIsBounded <=>
    \A s \in Session : \A n \in Levels(s) : Above(s, n) => Bounded(s, n)
BY DEF BacklogIsBounded, Levels, Bounded, Above

LEMMA LevelsAreNumbers ==
  ASSUME TurnsInv, TimesAreNew, CountsAreOfMessages, NEW s \in Session,
         NEW n \in Levels(s)
  PROVE  n \in Nat
BY CountsAreFinite DEF Levels

LEMMA BoundedKept ==
  ASSUME TurnsInv, TimesAreNew, NEW s \in Session, messages'[s] = messages[s],
         NEW n \in Nat, MayAdd(s, n)' \subseteq MayAdd(s, n), Bounded(s, n)
  PROVE  Bounded(s, n)'
<1>1. MayAdd(s, n) \in SUBSET Handler
  BY DEF MayAdd
<1>2. /\ Cardinality(MayAdd(s, n)') <= Cardinality(MayAdd(s, n))
      /\ Cardinality(MayAdd(s, n)) \in Nat
      /\ Cardinality(MayAdd(s, n)') \in Nat
  BY <1>1, HandlersAreMany
<1>3. Cardinality(messages[s]) \in Nat
  BY SessionTimes
<1>4. SummaryThreshold \in Nat /\ Cardinality(Handler) \in Nat
  BY ChatAssumption, HandlersAreMany
<1>. QED BY <1>2, <1>3, <1>4 DEF Bounded

\* A plain step after which no more turns may add to what they could before.
LEMMA BacklogKept ==
  ASSUME TurnsInv, TimesAreNew, CountsAreOfMessages, BacklogIsBounded,
         NEW h \in Handler, Plain(h),
         \A s \in Session : \A n \in Levels(s) :
           Above(s, n) => MayAdd(s, n)' \subseteq MayAdd(s, n) \/ Bounded(s, n)'
  PROVE  BacklogIsBounded'
<1>1. messages' = messages /\ summaries' = summaries
  BY DEF Plain, Frame
<1>2. \A s \in Session : Levels(s)' \subseteq Levels(s)
  BY CountsMadeByPlainSteps DEF Levels
<1>3. ASSUME NEW s \in Session, NEW n \in Levels(s)', Above(s, n)'
      PROVE  Bounded(s, n)'
  <2>1. n \in Levels(s) /\ n \in Nat /\ Above(s, n)
    <3>1. n \in Levels(s)
      BY <1>2
    <3>2. Above(s, n)
      BY <1>1, <1>3 DEF Above, Counted
    <3>. QED BY <3>1, <3>2, LevelsAreNumbers
  <2>2. Bounded(s, n)
    BY <2>1, BacklogIsLevelled
  <2>3. CASE MayAdd(s, n)' \subseteq MayAdd(s, n)
    BY <1>1, <2>1, <2>2, <2>3, BoundedKept
  <2>4. CASE Bounded(s, n)'
    BY <2>4
  <2>. QED BY <2>1, <2>3, <2>4
<1>. QED BY <1>3 DEF BacklogIsBounded, Levels, Bounded, Above

LEMMA PassedOverCounts ==
  ASSUME TurnsInv, NEW s \in Session, NEW C
  PROVE  IsFiniteSet(PassedOver(s, C)) /\ Cardinality(PassedOver(s, C)) \in Nat
<1>1. IsFiniteSet(messages[s])
  BY DEF TurnsInv, ChatTypeOK
<1>2. PassedOver(s, C) \subseteq messages[s]
  BY DEF PassedOver
<1>. QED BY <1>1, <1>2, FS_Subset, FS_CardinalityType

LEMMA FewKept ==
  ASSUME TurnsInv, TimesAreNew, CountsAreOfMessages, FewArePassedOver,
         NEW h \in Handler, Plain(h)
  PROVE  FewArePassedOver'
<1>. SUFFICES ASSUME NEW s \in Session, NEW C \in CountsMade(s)'
              PROVE  (Cardinality(PassedOver(s, C)) + 2 * Cardinality(StillOpen(s, C)) <=
                        2 * (Cardinality(Handler) - 1))'
  BY DEF FewArePassedOver
<1>1. C \in CountsMade(s) /\ C \subseteq 1 .. clock /\ clock \in Nat
  BY CountsMadeByPlainSteps, CountsAreFinite
<1>2. PassedOver(s, C)' = PassedOver(s, C)
  BY DEF PassedOver, Plain, Frame
<1>3. StillOpen(s, C)' \subseteq StillOpen(s, C)
  <2>. SUFFICES ASSUME NEW g \in StillOpen(s, C)' PROVE g \in StillOpen(s, C)
    OBVIOUS
  <2>1. /\ g \in Handler /\ turn'[g].session = s /\ turn'[g].user \notin C \cup {0}
        /\ \E x \in C : turn'[g].user < x
    BY DEF StillOpen
  <2>2. turn'[g].user \in Nat
    BY <2>1 DEF Plain, Frame, TurnState
  <2>3. turn'[g].user \in 1 .. clock
    BY <1>1, <2>1, <2>2
  <2>4. turn'[g].user = turn[g].user /\ turn'[g].session = turn[g].session
    BY <2>1, <2>3 DEF Plain, Frame
  <2>. QED BY <2>1, <2>4 DEF StillOpen
<1>4. StillOpen(s, C) \in SUBSET Handler
  BY DEF StillOpen
<1>5. /\ Cardinality(StillOpen(s, C)') <= Cardinality(StillOpen(s, C))
      /\ Cardinality(StillOpen(s, C)) \in Nat /\ Cardinality(StillOpen(s, C)') \in Nat
  BY <1>3, <1>4, HandlersAreMany
<1>6. Cardinality(PassedOver(s, C)) + 2 * Cardinality(StillOpen(s, C)) <=
        2 * (Cardinality(Handler) - 1)
  BY <1>1 DEF FewArePassedOver
<1>7. Cardinality(PassedOver(s, C)) \in Nat /\ Cardinality(Handler) \in Nat
  BY PassedOverCounts, HandlersAreMany
<1>. QED BY <1>2, <1>5, <1>6, <1>7

\* All of SummariesInv, by a plain step.
LEMMA PlainStep ==
  ASSUME CountsInv, NEW h \in Handler, Plain(h), TimesFit(h), SummaryFits(h),
         \A s \in Session : \A n \in Levels(s) :
           Above(s, n) => MayAdd(s, n)' \subseteq MayAdd(s, n) \/ Bounded(s, n)'
  PROVE  SummariesInv'
<1>1. TurnsInv /\ TimesAreNew /\ CountsAreOfMessages /\ OneIsLatestAndOneCountedMost
      /\ BacklogIsBounded /\ FewArePassedOver
  BY DEF CountsInv, SummariesInv
<1>2. Frame(h)
  BY DEF Plain
<1>3. TimesAreNew'
  BY <1>1, <1>2, TimesKept
<1>4. CountsAreOfMessages' /\ OneIsLatestAndOneCountedMost'
  BY <1>1, <1>2, CountsKept, LatestKept
<1>5. BacklogIsBounded'
  BY <1>1, BacklogKept
<1>6. FewArePassedOver'
  BY <1>1, FewKept
<1>. QED BY <1>3, <1>4, <1>5, <1>6 DEF SummariesInv

-----------------------------------------------------------------------------
(* The plain steps *)

\* A step to t leaves no more turns to add, unless t is about to.
LEMMA NoMoreMayAdd ==
  ASSUME NEW h \in Handler, \A g \in Handler \ {h} : turn'[g] = turn[g],
         NEW s, NEW n, h \in MayAdd(s, n)' => h \in MayAdd(s, n)
  PROVE  MayAdd(s, n)' \subseteq MayAdd(s, n)
<1>. SUFFICES ASSUME NEW g \in MayAdd(s, n)' PROVE g \in MayAdd(s, n)
  OBVIOUS
<1>1. CASE g = h
  BY <1>1
<1>2. CASE g # h
  <2>1. g \in Handler /\ turn'[g] = turn[g]
    BY <1>2 DEF MayAdd
  <2>2. CountedBy(g)' = CountedBy(g)
    BY <1>2, <2>1, OthersCounts
  <2>. QED BY <2>1, <2>2 DEF MayAdd
<1>. QED BY <1>1, <1>2

\* A turn that is not saving a summary, nor committing one, has not counted.
LEMMA HasNotCounted ==
  ASSUME CountsAreOfMessages, NEW h \in Handler
  PROVE  turn[h].pc \notin {"save", "commit"} => CountedBy(h) = {}
BY DEF CountsAreOfMessages, CountedBy

\* A turn that begins, or of which nothing is kept.
LEMMA EndsPlainly ==
  ASSUME CountsInv, NEW h \in Handler, UNCHANGED <<messages, summaries, clock>>,
         NEW t \in TurnState, Set(h, t), t.pc \in {"idle", "insert", "user"},
         t.user = 0, t.reply = 0, t.summary = {}
  PROVE  SummariesInv'
<1>1. /\ turn' \in [Handler -> TurnState] /\ turn'[h] = t
      /\ \A g \in Handler \ {h} : turn'[g] = turn[g]
      /\ clock \in Nat /\ 0 \notin 1 .. clock
  BY DEF CountsInv, TurnsInv, ChatTypeOK, Set
<1>2. CountedBy(h)' = {} /\ Times(h)' = {}
  BY <1>1 DEF CountedBy, Times
<1>3. Plain(h) /\ SummaryFits(h)
  BY <1>1, <1>2 DEF Plain, Frame, SummaryFits
<1>4. TimesFit(h)
  BY <1>1, <1>2 DEF TimesFit
<1>5. \A s, n : MayAdd(s, n)' \subseteq MayAdd(s, n)
  BY <1>1, NoMoreMayAdd DEF MayAdd
<1>. QED BY <1>3, <1>4, <1>5, PlainStep

LEMMA EndsKeepCounts ==
  ASSUME CountsInv, NEW h \in Handler, Begin(h) \/ SessionExists(h) \/ Fail(h)
  PROVE  SummariesInv'
<1>1. CASE Begin(h)
  <2>1. PICK tn \in Tenant, s \in Session : StartSession(h, tn, s) \/ NameSession(h, tn, s)
    BY <1>1 DEF Begin
  <2>3. CASE StartSession(h, tn, s)
    <3>. DEFINE t == [IdleTurn EXCEPT !.pc = "insert", !.tenant = tn, !.session = s]
    <3>1. t \in TurnState
      BY IdleIsATurn DEF TurnState
    <3>2. t.pc = "insert" /\ t.user = 0 /\ t.reply = 0 /\ t.summary = {}
      BY DEF IdleTurn
    <3>3. Set(h, t) /\ UNCHANGED <<messages, summaries, clock>>
      BY <2>3 DEF StartSession, Rows
    <3>. HIDE DEF t
    <3>. QED BY <3>1, <3>2, <3>3, EndsPlainly
  <2>4. CASE NameSession(h, tn, s)
    <3>. DEFINE p == IF owner[s] = tn THEN "user" ELSE "insert"
                t == [IdleTurn EXCEPT !.tenant = tn, !.session = s, !.pc = p]
    <3>1. t \in TurnState
      BY IdleIsATurn DEF TurnState
    <3>2. t.pc \in {"user", "insert"} /\ t.user = 0 /\ t.reply = 0 /\ t.summary = {}
      BY DEF IdleTurn
    <3>3. Set(h, t) /\ UNCHANGED <<messages, summaries, clock>>
      BY <2>4 DEF NameSession, Rows
    <3>. HIDE DEF t
    <3>. QED BY <3>1, <3>2, <3>3, EndsPlainly
  <2>. QED BY <2>1, <2>3, <2>4
<1>2. CASE SessionExists(h) \/ Fail(h)
  <2>1. Set(h, IdleTurn) /\ UNCHANGED <<messages, summaries, clock>>
    BY <1>2 DEF SessionExists, Fail, Rows, Counts
  <2>2. /\ IdleTurn.pc = "idle" /\ IdleTurn.user = 0 /\ IdleTurn.reply = 0
        /\ IdleTurn.summary = {}
    BY DEF IdleTurn
  <2>. QED BY <2>1, <2>2, IdleIsATurn, EndsPlainly
<1>. QED BY <1>1, <1>2

\* What is known of a turn that is in its transaction.
LEMMA OpenTurnFacts ==
  ASSUME CountsInv, NEW h \in Handler
  PROVE  /\ turn[h] \in TurnState /\ clock \in Nat /\ clock + 1 \in Nat
         /\ turn[h].pc # "commit" => turn[h].summary = {}
         /\ turn[h].pc \in {"insert", "user"} => turn[h].user = 0 /\ turn[h].reply = 0
         /\ turn[h].pc \in {"context", "window", "graph", "confirm", "reply"} =>
              turn[h].user # 0 /\ turn[h].reply = 0
         /\ turn[h].pc \in {"count", "check", "summarise", "llm", "save", "commit"} =>
              turn[h].reply # 0
         /\ turn[h].reply # 0 => 0 < turn[h].user /\ turn[h].user < turn[h].reply
         /\ turn[h].user \in 0 .. clock
<1>1. turn[h] \in TurnState /\ clock \in Nat
  BY DEF CountsInv, TurnsInv, ChatTypeOK
<1>2. /\ turn[h].pc \in {"idle", "insert", "user"} => turn[h].user = 0
      /\ turn[h].pc \in {"context", "window", "graph", "confirm", "reply"} =>
           turn[h].user # 0 /\ turn[h].reply = 0
      /\ turn[h].reply # 0 => 0 < turn[h].user /\ turn[h].user < turn[h].reply
      /\ Times(h) \subseteq 1 .. clock
  BY DEF CountsInv, SummariesInv, TimesAreNew
<1>3. turn[h].pc # "commit" => turn[h].summary = {}
  BY DEF CountsInv, SummariesInv, CountsAreOfMessages
<1>4. turn[h].user \in Nat /\ turn[h].reply \in Nat
  BY <1>1 DEF TurnState
<1>5. turn[h].user \in 0 .. clock
  BY <1>1, <1>2, <1>4 DEF Times
<1>6. turn[h].pc \in {"count", "check", "summarise", "llm", "save", "commit"} =>
        turn[h].reply # 0
  BY DEF CountsInv, TurnsInv, TurnsCommitTheirOwn
<1>. QED BY <1>1, <1>2, <1>3, <1>4, <1>5, <1>6

\* A step of the turn that reads, or waits for the model.
LEMMA ReadsPlainly ==
  ASSUME CountsInv, NEW h \in Handler, UNCHANGED <<messages, summaries, clock>>,
         NEW t \in TurnState, Set(h, t), turn[h].pc # "commit", t.pc # "save",
         t.session = turn[h].session, t.user = turn[h].user,
         t.reply = turn[h].reply, t.summary = turn[h].summary,
         t.pc \in {"idle", "insert", "user"} => t.user = 0,
         t.pc \in {"context", "window", "graph", "confirm", "reply"} =>
           t.user # 0 /\ t.reply = 0,
         \A s \in Session : \A n \in Levels(s) :
           Above(s, n) => (h \in MayAdd(s, n)' => h \in MayAdd(s, n)) \/ Bounded(s, n)'
  PROVE  SummariesInv'
<1>1. /\ turn' \in [Handler -> TurnState] /\ turn'[h] = t
      /\ \A g \in Handler \ {h} : turn'[g] = turn[g]
  BY DEF CountsInv, TurnsInv, ChatTypeOK, Set
<1>2. CountedBy(h)' = {} /\ t.summary = {}
  BY <1>1, OpenTurnFacts DEF CountedBy
<1>3. Plain(h) /\ SummaryFits(h)
  BY <1>1, <1>2, OpenTurnFacts DEF Plain, Frame, SummaryFits
<1>4. Times(h)' = Times(h)
  BY <1>1 DEF Times
<1>5. TimesFit(h)
  BY <1>1, <1>4, OpenTurnFacts DEF TimesFit
<1>6. ASSUME NEW s \in Session, NEW n \in Levels(s), Above(s, n)
      PROVE  MayAdd(s, n)' \subseteq MayAdd(s, n) \/ Bounded(s, n)'
  BY <1>1, <1>6, NoMoreMayAdd
<1>. QED BY <1>3, <1>5, <1>6, PlainStep

LEMMA ReadsKeepCounts ==
  ASSUME CountsInv, NEW h \in Handler,
         \/ InsertSession(h) \/ ReadSummary(h) \/ ReadWindow(h)
         \/ Converse(h) \/ ConverseAndAsk(h)
         \/ ConfirmationPending(h) \/ ReadForSummary(h)
  PROVE  SummariesInv'
<1>0. turn'[h].pc \notin {"check", "save", "commit"} =>
        \A s, n : h \in MayAdd(s, n)' => h \in MayAdd(s, n)
  BY DEF MayAdd
<1>. turn \in [Handler -> TurnState]
  BY DEF CountsInv, TurnsInv, ChatTypeOK
<1>1. CASE InsertSession(h)
  <2>. DEFINE t == [turn[h] EXCEPT !.inserted = TRUE, !.pc = "user"]
  <2>1. t \in TurnState
    BY OpenTurnFacts DEF TurnState
  <2>2. Set(h, t) /\ turn[h].pc = "insert" /\ UNCHANGED <<messages, summaries, clock>>
    BY <1>1 DEF InsertSession, At, Rows, Counts
  <2>3. /\ t.pc = "user" /\ t.session = turn[h].session /\ t.user = turn[h].user
        /\ t.reply = turn[h].reply /\ t.summary = turn[h].summary
    BY OpenTurnFacts DEF TurnState
  <2>4. turn'[h] = t
    BY <2>2 DEF Set
  <2>. HIDE DEF t
  <2>. QED BY <1>0, <2>1, <2>2, <2>3, <2>4, OpenTurnFacts, ReadsPlainly
<1>2. CASE ReadSummary(h)
  <2>. DEFINE last == Latest(h)
              t == [turn[h] EXCEPT !.heard = last, !.pc = "window"]
  <2>1. Set(h, t) /\ turn[h].pc = "context" /\ UNCHANGED <<messages, summaries, clock>>
    BY <1>2 DEF ReadSummary, At, Rows, Counts
  <2>2. last \subseteq Summary
    BY <2>1, CountsAreNumbers DEF CountsInv, TurnsInv
  <2>. HIDE DEF last
  <2>3. t \in TurnState
    BY <2>2, OpenTurnFacts DEF TurnState
  <2>4. /\ t.pc = "window" /\ t.session = turn[h].session /\ t.user = turn[h].user
        /\ t.reply = turn[h].reply /\ t.summary = turn[h].summary
    BY OpenTurnFacts DEF TurnState
  <2>5. turn'[h] = t
    BY <2>1 DEF Set
  <2>. HIDE DEF t
  <2>. QED BY <1>0, <2>1, <2>3, <2>4, <2>5, OpenTurnFacts, ReadsPlainly
<1>6. CASE ReadWindow(h)
  <2>. DEFINE t == [turn[h] EXCEPT !.heard = {}, !.pc = "graph"]
  <2>1. t \in TurnState
    BY OpenTurnFacts DEF TurnState
  <2>2. Set(h, t) /\ turn[h].pc = "window" /\ UNCHANGED <<messages, summaries, clock>>
    BY <1>6 DEF ReadWindow, At, Rows, Counts
  <2>3. /\ t.pc = "graph" /\ t.session = turn[h].session /\ t.user = turn[h].user
        /\ t.reply = turn[h].reply /\ t.summary = turn[h].summary
    BY OpenTurnFacts DEF TurnState
  <2>4. turn'[h] = t
    BY <2>2 DEF Set
  <2>. HIDE DEF t
  <2>. QED BY <1>0, <2>1, <2>2, <2>3, <2>4, OpenTurnFacts, ReadsPlainly
<1>3. CASE Converse(h) \/ ConverseAndAsk(h)
  <2>1. PICK p \in {"reply", "confirm"} :
          Set(h, [turn[h] EXCEPT !.pc = p])
    BY <1>3 DEF Converse, ConverseAndAsk
  <2>. DEFINE t == [turn[h] EXCEPT !.pc = p]
  <2>2. t \in TurnState
    BY OpenTurnFacts DEF TurnState
  <2>3. Set(h, t) /\ turn[h].pc = "graph" /\ UNCHANGED <<messages, summaries, clock>>
    BY <1>3, <2>1 DEF Converse, ConverseAndAsk, At, Rows, Counts
  <2>4. /\ t.pc = p /\ t.session = turn[h].session /\ t.user = turn[h].user
        /\ t.reply = turn[h].reply /\ t.summary = turn[h].summary
    BY OpenTurnFacts DEF TurnState
  <2>5. turn'[h] = t
    BY <2>3 DEF Set
  <2>. HIDE DEF t
  <2>. QED BY <1>0, <2>2, <2>3, <2>4, <2>5, OpenTurnFacts, ReadsPlainly
<1>4. CASE ConfirmationPending(h)
  <2>. DEFINE t == [turn[h] EXCEPT !.conf = turn[h].user, !.pc = "reply"]
  <2>1. t \in TurnState
    BY OpenTurnFacts DEF TurnState
  <2>2. Set(h, t) /\ turn[h].pc = "confirm" /\ UNCHANGED <<messages, summaries, clock>>
    BY <1>4 DEF ConfirmationPending, At, Rows, Counts
  <2>3. /\ t.pc = "reply" /\ t.session = turn[h].session /\ t.user = turn[h].user
        /\ t.reply = turn[h].reply /\ t.summary = turn[h].summary
    BY OpenTurnFacts DEF TurnState
  <2>4. turn'[h] = t
    BY <2>2 DEF Set
  <2>. HIDE DEF t
  <2>. QED BY <1>0, <2>1, <2>2, <2>3, <2>4, OpenTurnFacts, ReadsPlainly
<1>5. CASE ReadForSummary(h)
  <2>. DEFINE seen == Ats(Recent(Visible(h), SummaryLimit))
              t == [turn[h] EXCEPT !.pc = "llm", !.given = seen]
  <2>1. Set(h, t) /\ turn[h].pc = "summarise" /\ UNCHANGED <<messages, summaries, clock>>
    BY <1>5 DEF ReadForSummary, At, Rows, Counts
  <2>2. seen \subseteq Nat
    BY <2>1, CountsAreNumbers DEF CountsInv, TurnsInv
  <2>. HIDE DEF seen
  <2>3. t \in TurnState
    BY <2>2, OpenTurnFacts DEF TurnState
  <2>4. /\ t.pc = "llm" /\ t.session = turn[h].session /\ t.user = turn[h].user
        /\ t.reply = turn[h].reply /\ t.summary = turn[h].summary
    BY OpenTurnFacts DEF TurnState
  <2>5. turn'[h] = t
    BY <2>1 DEF Set
  <2>. HIDE DEF t
  <2>. QED BY <1>0, <2>1, <2>3, <2>4, <2>5, OpenTurnFacts, ReadsPlainly
<1>. QED BY <1>1, <1>2, <1>3, <1>4, <1>5, <1>6

\* A turn that has counted is one of those that may add without a summary only
\* while it has counted little; and all turns together add two each.
LEMMA CountKeepsCounts ==
  ASSUME CountsInv, NEW h \in Handler, CountMessages(h)
  PROVE  SummariesInv'
<1>. DEFINE c == Cardinality(Visible(h))
            m == Cardinality(messages[turn[h].session])
            t == [turn[h] EXCEPT !.count = c, !.pc = "check"]
<1>1. Set(h, t) /\ turn[h].pc = "count" /\ UNCHANGED <<messages, summaries, clock>>
  BY DEF CountMessages, At, Rows, Counts
<1>2. turn[h].session \in Session /\ c = m + 2 /\ m \in Nat /\ c \in Nat
  <2>1. TurnsInv /\ TimesAreNew
    BY DEF CountsInv, SummariesInv
  <2>2. turn[h].session \in Session
    BY <1>1, <2>1, SeesItsSession
  <2>3. Cardinality(Times(h)) = 2
    BY <1>1, <2>1, OpenTurnFacts, TimesOfItsOwn
  <2>4. c = m + Cardinality(Times(h))
    BY <1>1, <2>1, SeesAll
  <2>5. m \in Nat
    BY <2>1, <2>2, SessionTimes
  <2>. QED BY <2>2, <2>3, <2>4, <2>5
<1>. HIDE DEF c, m
<1>3. t \in TurnState
  BY <1>2, OpenTurnFacts DEF TurnState
<1>4. /\ t.pc = "check" /\ t.session = turn[h].session /\ t.user = turn[h].user
      /\ t.reply = turn[h].reply /\ t.summary = turn[h].summary /\ t.count = c
  BY OpenTurnFacts DEF TurnState
<1>5. turn'[h] = t
  BY <1>1 DEF Set, CountsInv, TurnsInv, ChatTypeOK
<1>. HIDE DEF t
<1>6. ASSUME NEW s \in Session, NEW n \in Levels(s), h \in MayAdd(s, n)'
      PROVE  Bounded(s, n)'
  <2>1. turn[h].session = s /\ c < n + SummaryThreshold
    BY <1>4, <1>5, <1>6 DEF MayAdd
  <2>2. n \in Nat
    BY LevelsAreNumbers DEF CountsInv, SummariesInv
  <2>3. MayAdd(s, n)' \in SUBSET Handler
    BY DEF MayAdd
  <2>4. /\ Cardinality(MayAdd(s, n)') <= Cardinality(Handler)
        /\ Cardinality(MayAdd(s, n)') \in Nat /\ Cardinality(Handler) \in Nat
    BY <2>3, HandlersAreMany
  <2>5. Cardinality(messages'[s]) = m
    BY <1>1, <2>1 DEF m
  <2>6. SummaryThreshold \in Nat
    BY ChatAssumption
  <2>7. m + 2 * Cardinality(MayAdd(s, n)') <
          n + SummaryThreshold + 2 * (Cardinality(Handler) - 1)
    BY <1>2, <2>1, <2>2, <2>4, <2>6
  <2>. QED BY <2>5, <2>7 DEF Bounded
<1>. QED BY <1>1, <1>3, <1>4, <1>6, ReadsPlainly

LEMMA CheckKeepsCounts ==
  ASSUME CountsInv, NEW h \in Handler, Check(h)
  PROVE  SummariesInv'
<1>. DEFINE due == SummaryDue(h)
            last == AtOf(Latest(h))
            p == IF due THEN "summarise" ELSE "commit"
            a == IF due THEN last ELSE 0
            t == [turn[h] EXCEPT !.count = 0, !.pc = p, !.after = a]
<1>1. Set(h, t) /\ turn[h].pc = "check" /\ UNCHANGED <<messages, summaries, clock>>
  BY DEF Check, At, Rows, Counts
<1>2. last \in Nat
  BY <1>1, CountsAreNumbers DEF CountsInv, TurnsInv
<1>. HIDE DEF due, last
<1>7. p \in {"summarise", "commit"} /\ a \in Nat /\ (p = "commit" => ~due)
  BY <1>2
<1>. HIDE DEF p, a
<1>3. t \in TurnState
  BY <1>7, OpenTurnFacts DEF TurnState
<1>4. /\ t.pc = p /\ t.session = turn[h].session /\ t.user = turn[h].user
      /\ t.reply = turn[h].reply /\ t.summary = turn[h].summary
  BY OpenTurnFacts DEF TurnState
<1>5. turn'[h] = t
  BY <1>1 DEF Set, CountsInv, TurnsInv, ChatTypeOK
<1>. HIDE DEF t
<1>6. ASSUME NEW s \in Session, NEW n \in Levels(s), Above(s, n), h \in MayAdd(s, n)'
      PROVE  h \in MayAdd(s, n)
  <2>1. turn[h].session = s /\ ~due
    BY <1>4, <1>5, <1>6, <1>7 DEF MayAdd
  <2>2. Latest(h) = Recent(summaries[s], 1)
    BY <1>1, <2>1, SeesItsSession DEF CountsInv
  <2>3. ~(turn[h].count >= CountOf(Recent(summaries[s], 1)) + SummaryThreshold)
    BY <2>1, <2>2 DEF due, SummaryDue
  <2>4. /\ n \in Nat /\ CountOf(Recent(summaries[s], 1)) \in Nat
        /\ CountOf(Recent(summaries[s], 1)) <= n
    BY <1>6, LevelsAreNumbers, LatestIsCounted DEF CountsInv, SummariesInv
  <2>5. turn[h].count \in Nat /\ SummaryThreshold \in Nat
    BY OpenTurnFacts, ChatAssumption DEF TurnState
  <2>6. turn[h].count < n + SummaryThreshold
    <3>. DEFINE K == CountOf(Recent(summaries[s], 1))
    <3>. HIDE DEF K
    <3>1. ~(turn[h].count >= K + SummaryThreshold) /\ K \in Nat /\ n >= K
      BY <2>3, <2>4 DEF K
    <3>. QED BY <2>4, <2>5, <3>1
  <2>. QED BY <1>1, <2>1, <2>6 DEF MayAdd
<1>. QED BY <1>1, <1>3, <1>4, <1>6, <1>7, OpenTurnFacts, ReadsPlainly

\* The two messages: each has a time that no other message has had.
LEMMA MessagesKeepCounts ==
  ASSUME CountsInv, NEW h \in Handler, SaveUserMessage(h) \/ SaveReply(h)
  PROVE  SummariesInv'
<1>. /\ turn \in [Handler -> TurnState]
     /\ clock \in Nat /\ clock + 1 \in clock + 1 .. clock + 1 /\ clock + 1 \notin 1 .. clock
  BY DEF CountsInv, TurnsInv, ChatTypeOK
<1>0. turn'[h].pc \notin {"check", "save", "commit"} =>
        \A s, n : h \in MayAdd(s, n)' => h \in MayAdd(s, n)
  BY DEF MayAdd
<1>1. CASE SaveUserMessage(h)
  <2>. DEFINE t == [turn[h] EXCEPT !.user = clock + 1, !.pc = "context"]
  <2>1. t \in TurnState
    BY OpenTurnFacts DEF TurnState
  <2>2. Set(h, t) /\ turn[h].pc = "user" /\ messages' = messages
        /\ summaries' = summaries /\ clock' = clock + 1
    BY <1>1 DEF SaveUserMessage, At, Rows, Set
  <2>3. /\ t.pc = "context" /\ t.session = turn[h].session /\ t.user = clock + 1
        /\ t.reply = turn[h].reply /\ t.summary = turn[h].summary
    BY OpenTurnFacts DEF TurnState
  <2>4. /\ turn' \in [Handler -> TurnState] /\ turn'[h] = t
        /\ \A g \in Handler \ {h} : turn'[g] = turn[g]
    BY <2>1, <2>2 DEF Set
  <2>. HIDE DEF t
  <2>5. turn[h].summary = {} /\ turn[h].reply = 0 /\ clock + 1 \in Nat /\ clock + 1 >= clock
    BY <2>2, OpenTurnFacts
  <2>6. Frame(h)
    BY <2>2, <2>4, <2>5 DEF Frame
  <2>7. Plain(h) /\ SummaryFits(h)
    <3>1. CountedBy(h)' = {}
      BY <2>3, <2>4, <2>5 DEF CountedBy
    <3>. QED BY <2>3, <2>4, <2>5, <2>6, <3>1 DEF Plain, SummaryFits
  <2>8. Times(h)' \subseteq {clock + 1}
    BY <2>3, <2>4, <2>5 DEF Times
  <2>9. TimesFit(h)
    BY <2>2, <2>3, <2>4, <2>5, <2>8 DEF TimesFit
  <2>10. \A s, n : MayAdd(s, n)' \subseteq MayAdd(s, n)
    BY <1>0, <2>3, <2>4, NoMoreMayAdd
  <2>. QED BY <2>7, <2>9, <2>10, PlainStep
<1>2. CASE SaveReply(h)
  <2>. DEFINE t == [turn[h] EXCEPT !.reply = clock + 1, !.pc = "count"]
  <2>1. t \in TurnState
    BY OpenTurnFacts DEF TurnState
  <2>2. Set(h, t) /\ turn[h].pc = "reply" /\ messages' = messages
        /\ summaries' = summaries /\ clock' = clock + 1
    BY <1>2 DEF SaveReply, At, Rows, Set
  <2>3. /\ t.pc = "count" /\ t.session = turn[h].session /\ t.user = turn[h].user
        /\ t.reply = clock + 1 /\ t.summary = turn[h].summary
    BY OpenTurnFacts DEF TurnState
  <2>4. /\ turn' \in [Handler -> TurnState] /\ turn'[h] = t
        /\ \A g \in Handler \ {h} : turn'[g] = turn[g]
    BY <2>1, <2>2 DEF Set
  <2>. HIDE DEF t
  <2>5. /\ turn[h].summary = {} /\ turn[h].reply = 0 /\ turn[h].user # 0
        /\ turn[h].user \in 0 .. clock /\ clock + 1 \in Nat /\ clock + 1 >= clock
    BY <2>2, OpenTurnFacts
  <2>6. Frame(h)
    BY <2>2, <2>4, <2>5 DEF Frame
  <2>7. Plain(h) /\ SummaryFits(h)
    <3>1. CountedBy(h)' = {}
      BY <2>3, <2>4, <2>5 DEF CountedBy
    <3>. QED BY <2>3, <2>4, <2>5, <2>6, <3>1 DEF Plain, SummaryFits
  <2>8. Times(h)' \subseteq Times(h) \cup {clock + 1}
    BY <2>3, <2>4, <2>5 DEF Times
  <2>9. TimesFit(h)
    BY <2>2, <2>3, <2>4, <2>5, <2>8 DEF TimesFit
  <2>10. \A s, n : MayAdd(s, n)' \subseteq MayAdd(s, n)
    BY <1>0, <2>3, <2>4, NoMoreMayAdd
  <2>. QED BY <2>7, <2>9, <2>10, PlainStep
<1>. QED BY <1>1, <1>2

\* The summary gets its time, and the turn has counted what it had counted.
LEMMA SaveSummaryKeepsCounts ==
  ASSUME CountsInv, NEW h \in Handler, SaveSummary(h)
  PROVE  SummariesInv'
<1>. DEFINE k == [at |-> clock + 1, tenant |-> turn[h].tenant,
                  given |-> turn[h].given, counted |-> turn[h].counted,
                  after |-> turn[h].after]
            t == [turn[h] EXCEPT !.pc = "commit", !.given = {}, !.counted = {},
                                 !.after = 0, !.summary = {k}]
<1>1. /\ Set(h, t) /\ turn[h].pc = "save" /\ messages' = messages
      /\ summaries' = summaries /\ clock' = clock + 1
  BY DEF SaveSummary, At, Rows, Set
<1>2. turn[h].tenant \in Tenant
  BY <1>1, SeesItsSession DEF CountsInv
<1>3. k \in Summary /\ k.at = clock + 1 /\ k.counted = turn[h].counted
  BY <1>2, OpenTurnFacts DEF Summary, TurnState
<1>. HIDE DEF k
<1>4. t \in TurnState
  BY <1>3, OpenTurnFacts DEF TurnState
<1>5. /\ t.pc = "commit" /\ t.session = turn[h].session /\ t.user = turn[h].user
      /\ t.reply = turn[h].reply /\ t.summary = {k}
  BY OpenTurnFacts DEF TurnState
<1>6. /\ turn' \in [Handler -> TurnState] /\ turn'[h] = t
      /\ \A g \in Handler \ {h} : turn'[g] = turn[g]
  BY <1>1, <1>4 DEF Set, CountsInv, TurnsInv, ChatTypeOK
<1>. HIDE DEF t
<1>7. CountedBy(h) = {turn[h].counted} /\ CountedBy(h)' = {turn[h].counted}
  <2>1. turn[h].summary = {}
    BY <1>1, OpenTurnFacts
  <2>. QED BY <1>1, <1>3, <1>5, <1>6, <2>1 DEF CountedBy
<1>8. Times(h)' = Times(h)
  BY <1>5, <1>6 DEF Times
<1>9. Plain(h) /\ SummaryFits(h)
  <2>1. Frame(h)
    BY <1>1, <1>6, OpenTurnFacts DEF Frame
  <2>2. SummaryFits(h)
    BY <1>1, <1>3, <1>5, <1>6 DEF SummaryFits
  <2>. QED BY <1>5, <1>6, <1>7, <1>8, <2>1, <2>2 DEF Plain
<1>10. TimesFit(h)
  BY <1>1, <1>5, <1>6, <1>8, OpenTurnFacts DEF TimesFit
<1>11. \A s, n : MayAdd(s, n)' \subseteq MayAdd(s, n)
  <2>1. \A s, n : h \in MayAdd(s, n)' => h \in MayAdd(s, n)
    BY <1>1, <1>5, <1>6, <1>7 DEF MayAdd
  <2>. QED BY <1>6, <2>1, NoMoreMayAdd
<1>. QED BY <1>9, <1>10, <1>11, PlainStep

-----------------------------------------------------------------------------
(* A count is made *)

\* _trigger_summarisation when the model has answered: C is what turn h counts,
\* everything in its session and the turn's own.
CountsNow(h, C) ==
  /\ Frame(h)
  /\ turn[h].session \in Session
  /\ turn'[h].session = turn[h].session /\ turn'[h].pc = "save"
  /\ turn'[h].user = turn[h].user /\ turn'[h].reply = turn[h].reply
  /\ turn'[h].summary = {}
  /\ turn[h].user # 0 /\ clock' = clock /\ turn[h].pc = "llm"
  /\ CountedBy(h) = {} /\ CountedBy(h)' = {C}
  /\ C = Ats(messages[turn[h].session]) \cup Times(h)
  /\ Cardinality(C) = Cardinality(messages[turn[h].session]) + 2

LEMMA CountForSummaryCounts ==
  ASSUME CountsInv, NEW h \in Handler, CountForSummary(h)
  PROVE  \E C : CountsNow(h, C)
<1>. DEFINE C == Ats(Visible(h))
            t == [turn[h] EXCEPT !.counted = C, !.pc = "save"]
<1>1. /\ Set(h, t) /\ turn[h].pc = "llm" /\ messages' = messages
      /\ summaries' = summaries /\ clock' = clock
  BY DEF CountForSummary, At, Rows, Counts
<1>2. TurnsInv /\ TimesAreNew
  BY DEF CountsInv, SummariesInv
<1>3. turn[h].session \in Session
  BY <1>1, <1>2, SeesItsSession
<1>4. /\ C = Ats(messages[turn[h].session]) \cup Times(h)
      /\ Cardinality(C) = Cardinality(messages[turn[h].session]) + 2
      /\ C \subseteq Nat
  <2>1. Cardinality(Times(h)) = 2
    BY <1>1, <1>2, OpenTurnFacts, TimesOfItsOwn
  <2>. QED BY <1>1, <1>2, <2>1, SeesAll, CountsAreNumbers DEF TurnsInv
<1>. HIDE DEF C
<1>5. t \in TurnState
  BY <1>4, OpenTurnFacts DEF TurnState
<1>6. /\ t.pc = "save" /\ t.session = turn[h].session /\ t.user = turn[h].user
      /\ t.reply = turn[h].reply /\ t.summary = turn[h].summary /\ t.counted = C
  BY OpenTurnFacts DEF TurnState
<1>7. /\ turn' \in [Handler -> TurnState] /\ turn'[h] = t
      /\ \A g \in Handler \ {h} : turn'[g] = turn[g]
  BY <1>1, <1>5 DEF Set, CountsInv, TurnsInv, ChatTypeOK
<1>. HIDE DEF t
<1>8. Frame(h) /\ turn[h].user # 0 /\ turn[h].summary = {}
  BY <1>1, <1>7, OpenTurnFacts DEF Frame
<1>9. CountedBy(h) = {} /\ CountedBy(h)' = {C}
  BY <1>1, <1>6, <1>7, <1>8 DEF CountedBy
<1>10. CountsNow(h, C)
  BY <1>1, <1>3, <1>4, <1>6, <1>7, <1>8, <1>9 DEF CountsNow
<1>. QED BY <1>10

LEMMA CountedNow ==
  ASSUME NEW h \in Handler, NEW C, CountsNow(h, C), NEW s \in Session
  PROVE  /\ CountsMade(s)' \subseteq CountsMade(s) \cup {C}
         /\ s # turn[h].session => CountsMade(s)' \subseteq CountsMade(s)
<1>. SUFFICES ASSUME NEW A \in CountsMade(s)'
              PROVE  A \in CountsMade(s) \/ (A = C /\ s = turn[h].session)
  OBVIOUS
<1>. HIDE DEF CountedBy
<1>1. CASE A \in {k.counted : k \in summaries'[s]}
  BY <1>1 DEF CountsNow, Frame, CountsMade
<1>2. CASE A \notin {k.counted : k \in summaries'[s]}
  <2>1. PICK g \in Handler : turn'[g].session = s /\ A \in CountedBy(g)'
    BY <1>2 DEF CountsMade
  <2>2. CASE g = h
    BY <2>1, <2>2 DEF CountsNow
  <2>3. CASE g # h
    BY <2>1, <2>3, OthersCounts DEF CountsNow, Frame, CountsMade
  <2>. QED BY <2>2, <2>3
<1>. QED BY <1>1, <1>2

LEMMA CountKeepsTimes ==
  ASSUME CountsInv, NEW h \in Handler, NEW C, CountsNow(h, C)
  PROVE  TimesAreNew' /\ CountsAreOfMessages' /\ OneIsLatestAndOneCountedMost'
<1>. USE DEF CountsInv, SummariesInv
<1>1. Times(h)' = Times(h) /\ Frame(h)
  BY DEF CountsNow, Times
<1>2. TimesFit(h)
  BY <1>1, OpenTurnFacts DEF TimesFit, CountsNow
<1>3. TimesAreNew'
  BY <1>1, <1>2, TimesKept
<1>4. messages' = messages /\ summaries' = summaries
      /\ \A g \in Handler \ {h} : turn'[g] = turn[g]
  BY <1>1 DEF Frame
<1>5. \A s : Ats(messages[s])' = Ats(messages[s])
  BY <1>4 DEF Ats
<1>6. ASSUME NEW g \in Handler PROVE CountsFit(g)'
  <2>1. CASE g = h
    <3>. HIDE DEF CountedBy, Times
    <3>. QED BY <1>1, <1>5, <2>1 DEF CountsNow, CountsFit
  <2>2. CASE g # h
    <3>1. turn'[g] = turn[g] /\ CountedBy(g)' = CountedBy(g) /\ Times(g)' = Times(g)
      BY <1>4, <2>2, OthersCounts
    <3>2. CountsFit(g)
      BY CountsFitAll
    <3>. QED BY <1>5, <3>1, <3>2 DEF CountsFit
  <2>. QED BY <2>1, <2>2
<1>7. \A s \in Session : \A a \in summaries'[s] : a.counted \subseteq Ats(messages[s])'
  BY <1>4, <1>5 DEF CountsAreOfMessages
<1>8. CountsAreOfMessages'
  BY <1>6, <1>7 DEF CountsAreOfMessages, CountsFit
<1>9. SummaryFits(h)
  BY DEF CountsNow, SummaryFits
<1>. QED BY <1>1, <1>3, <1>8, <1>9, LatestKept

LEMMA CountKeepsBacklog ==
  ASSUME CountsInv, NEW h \in Handler, NEW C, CountsNow(h, C)
  PROVE  BacklogIsBounded'
<1>. USE DEF CountsInv, SummariesInv
<1>1. messages' = messages /\ summaries' = summaries
  BY DEF CountsNow, Frame
<1>2. Cardinality(C) = Cardinality(messages[turn[h].session]) + 2 /\ Cardinality(C) \in Nat
  BY SessionTimes DEF CountsNow
<1>3. ASSUME NEW s \in Session, NEW n \in Levels(s)', Above(s, n)'
      PROVE  Bounded(s, n)'
  <2>1. \/ n \in Levels(s)
        \/ n = Cardinality(C) /\ s = turn[h].session
    BY CountedNow DEF Levels
  <2>2. n \in Nat
    BY <1>2, <2>1, LevelsAreNumbers
  <2>3. CASE h \in MayAdd(s, n)'
    <3>1. s = turn[h].session /\ Cardinality(C) <= n
      BY <2>3 DEF MayAdd, CountsNow
    <3>2. MayAdd(s, n)' \in SUBSET Handler
      BY DEF MayAdd
    <3>3. /\ Cardinality(MayAdd(s, n)') <= Cardinality(Handler)
          /\ Cardinality(MayAdd(s, n)') \in Nat /\ Cardinality(Handler) \in Nat
      BY <3>2, HandlersAreMany
    <3>4. Cardinality(messages[s]) \in Nat
      BY SessionTimes
    <3>5. SummaryThreshold \in Nat \ {0}
      BY ChatAssumption
    <3>6. Cardinality(messages[s]) + 2 <= n
      BY <1>2, <3>1
    <3>7. Cardinality(messages[s]) + 2 * Cardinality(MayAdd(s, n)') <
            n + SummaryThreshold + 2 * (Cardinality(Handler) - 1)
      BY <2>2, <3>3, <3>4, <3>5, <3>6
    <3>. QED BY <1>1, <3>7 DEF Bounded
  <2>4. CASE h \notin MayAdd(s, n)'
    <3>1. n \in Levels(s)
      <4>1. SUFFICES ASSUME n = Cardinality(C), s = turn[h].session PROVE FALSE
        BY <2>1
      <4>2. Cardinality(C) <= n
        BY <1>2, <4>1
      <4>. QED BY <2>4, <4>1, <4>2 DEF MayAdd, CountsNow
    <3>2. Above(s, n)
      BY <1>1, <1>3 DEF Above, Counted
    <3>3. Bounded(s, n)
      BY <3>1, <3>2, BacklogIsLevelled
    <3>4. MayAdd(s, n)' \subseteq MayAdd(s, n)
      BY <2>4, NoMoreMayAdd DEF CountsNow, Frame
    <3>. QED BY <1>1, <2>2, <3>3, <3>4, BoundedKept
  <2>. QED BY <2>3, <2>4
<1>. QED BY <1>3 DEF BacklogIsBounded, Levels, Bounded, Above

\* What it passes over is what the other open turns have.
LEMMA CountKeepsFew ==
  ASSUME CountsInv, NEW h \in Handler, NEW C, CountsNow(h, C)
  PROVE  FewArePassedOver'
<1>. USE DEF CountsInv, SummariesInv
<1>. SUFFICES ASSUME NEW s \in Session, NEW A \in CountsMade(s)'
              PROVE  (Cardinality(PassedOver(s, A)) + 2 * Cardinality(StillOpen(s, A)) <=
                        2 * (Cardinality(Handler) - 1))'
  BY DEF FewArePassedOver
<1>1. messages' = messages /\ Cardinality(Handler) \in Nat
  BY HandlersAreMany DEF CountsNow, Frame
<1>2. \A g \in Handler : turn'[g].session = turn[g].session /\ turn'[g].user = turn[g].user
  BY DEF CountsNow, Frame
<1>3. CASE A \in CountsMade(s)
  <2>1. PassedOver(s, A)' = PassedOver(s, A) /\ StillOpen(s, A)' = StillOpen(s, A)
    BY <1>1, <1>2 DEF PassedOver, StillOpen
  <2>. QED BY <1>3, <2>1 DEF FewArePassedOver
<1>4. CASE A \notin CountsMade(s)
  <2>1. A = C /\ s = turn[h].session
    BY <1>4, CountedNow
  <2>2. PassedOver(s, C)' = {}
    BY <1>1, <2>1 DEF PassedOver, CountsNow, Ats
  <2>3. turn[h].user \in C
    BY DEF CountsNow, Times
  <2>4. h \notin StillOpen(s, C)' /\ StillOpen(s, C)' \in SUBSET Handler
    BY <1>2, <2>3 DEF StillOpen
  <2>5. /\ Cardinality(StillOpen(s, C)') <= Cardinality(Handler) - 1
        /\ Cardinality(StillOpen(s, C)') \in Nat
    BY <2>4, HandlersAreMany
  <2>6. Cardinality(PassedOver(s, C)') = 0
    BY <2>2, FS_EmptySet
  <2>. QED BY <1>1, <2>1, <2>5, <2>6
<1>. QED BY <1>3, <1>4

LEMMA CountForSummaryKeepsCounts ==
  ASSUME CountsInv, NEW h \in Handler, CountForSummary(h)
  PROVE  SummariesInv'
<1>. PICK C : CountsNow(h, C)
  BY CountForSummaryCounts
<1>. QED BY CountKeepsTimes, CountKeepsBacklog, CountKeepsFew DEF SummariesInv

-----------------------------------------------------------------------------
(* The commit *)

\* What a commit leaves: the turn's messages and its summary in its session.
Commits(h) ==
  /\ turn[h].session \in Session /\ turn[h].pc = "commit"
  /\ messages'[turn[h].session] = Visible(h)
  /\ Ats(Visible(h)) = Ats(messages[turn[h].session]) \cup Times(h)
  /\ Cardinality(Visible(h)) = Cardinality(messages[turn[h].session]) + 2
  /\ summaries'[turn[h].session] = summaries[turn[h].session] \cup turn[h].summary
  /\ \A s \in Session \ {turn[h].session} :
       messages'[s] = messages[s] /\ summaries'[s] = summaries[s]
  /\ clock' = clock
  /\ turn'[h] = IdleTurn
  /\ \A g \in Handler \ {h} : turn'[g] = turn[g]

LEMMA CommitCommits ==
  ASSUME CountsInv, NEW h \in Handler, Commit(h)
  PROVE  Commits(h)
<1>1. TurnsInv /\ TimesAreNew /\ turn[h].pc = "commit" /\ clock' = clock
  BY DEF CountsInv, SummariesInv, Commit, At, Counts
<1>2. turn[h].session \in Session
  BY <1>1, CommitSetsTheOwner
<1>3. /\ messages'[turn[h].session] = messages[turn[h].session] \cup Own(h)
      /\ summaries'[turn[h].session] = summaries[turn[h].session] \cup turn[h].summary
      /\ \A s \in Session \ {turn[h].session} :
           messages'[s] = messages[s] /\ summaries'[s] = summaries[s]
  BY <1>1, <1>2, CommitWrites
<1>4. Visible(h) = Own(h) \cup messages[turn[h].session]
  BY <1>1, SeesItsSession
<1>5. /\ Ats(Visible(h)) = Ats(messages[turn[h].session]) \cup Times(h)
      /\ Cardinality(Visible(h)) =
           Cardinality(messages[turn[h].session]) + Cardinality(Times(h))
  BY <1>1, SeesAll
<1>6. Cardinality(Times(h)) = 2
  BY <1>1, OpenTurnFacts, TimesOfItsOwn
<1>7. turn'[h] = IdleTurn /\ \A g \in Handler \ {h} : turn'[g] = turn[g]
  BY <1>1, CommitKeepsTypes
<1>. QED BY <1>1, <1>2, <1>3, <1>4, <1>5, <1>6, <1>7 DEF Commits

LEMMA CommitKeepsTimes ==
  ASSUME CountsInv, NEW h \in Handler, Commits(h)
  PROVE  TimesAreNew'
<1>. USE DEF CountsInv, SummariesInv
<1>. DEFINE S == turn[h].session
<1>1. \A g \in Handler \ {h} : turn'[g] = turn[g] /\ Times(g)' = Times(g)
  BY DEF Commits, Times
<1>2. turn'[h].pc = "idle" /\ turn'[h].user = 0 /\ turn'[h].reply = 0 /\ Times(h)' = {}
  BY DEF Commits, Times, IdleTurn
<1>3. /\ S \in Session /\ clock' = clock
      /\ Ats(messages'[S]) = Ats(messages[S]) \cup Times(h)
      /\ \A s \in Session \ {S} : messages'[s] = messages[s]
  BY DEF Commits
<1>4. \A s \in Session : Ats(messages'[s]) \subseteq Ats(messages[s]) \cup Times(h)
  BY <1>3
<1>5. ASSUME NEW g \in Handler
      PROVE  /\ turn'[g].pc \in {"idle", "insert", "user"} => turn'[g].user = 0
             /\ turn'[g].pc \in {"context", "window", "graph", "confirm", "reply"} =>
                  turn'[g].user # 0 /\ turn'[g].reply = 0
             /\ turn'[g].reply # 0 =>
                  0 < turn'[g].user /\ turn'[g].user < turn'[g].reply
             /\ Times(g)' \subseteq 1 .. clock
             /\ \A f \in Handler \ {g} : Times(f)' \cap Times(g)' = {}
             /\ \A s \in Session : Times(g)' \cap Ats(messages'[s]) = {}
  <2>1. CASE g = h
    BY <1>2, <2>1
  <2>2. CASE g # h
    <3>1. turn'[g] = turn[g] /\ Times(g)' = Times(g)
      BY <1>1, <2>2
    <3>2. Times(h) \cap Times(g) = {}
      BY <2>2 DEF TimesAreNew
    <3>3. \A f \in Handler \ {g} : Times(f)' \cap Times(g)' = {}
      BY <1>1, <1>2, <3>1 DEF TimesAreNew
    <3>4. \A s \in Session : Times(g) \cap Ats(messages[s]) = {}
      BY DEF TimesAreNew
    <3>5. \A s \in Session : Times(g)' \cap Ats(messages'[s]) = {}
      BY <1>4, <3>1, <3>2, <3>4
    <3>6. Times(g) \subseteq 1 .. clock
      BY DEF TimesAreNew
    <3>7. /\ turn[g].pc \in {"idle", "insert", "user"} => turn[g].user = 0
          /\ turn[g].pc \in {"context", "window", "graph", "confirm", "reply"} =>
               turn[g].user # 0 /\ turn[g].reply = 0
          /\ turn[g].reply # 0 => 0 < turn[g].user /\ turn[g].user < turn[g].reply
      BY DEF TimesAreNew
    <3>. QED BY <3>1, <3>3, <3>5, <3>6, <3>7
  <2>. QED BY <2>1, <2>2
<1>6. ASSUME NEW s \in Session
      PROVE  /\ Ats(messages'[s]) \subseteq 1 .. clock
             /\ \A a, b \in messages'[s] : a.at = b.at => a = b
  <2>1. Ats(messages[s]) \subseteq 1 .. clock /\ Times(h) \subseteq 1 .. clock
    BY DEF TimesAreNew
  <2>2. \A a, b \in messages'[s] : a.at = b.at => a = b
    <3>1. CASE s = S
      <4>1. turn[h].pc \notin {"idle", "insert"}
        BY DEF Commits
      <4>2. \A a, b \in Visible(h) : a.at = b.at => a = b
        BY <4>1, SeesAll
      <4>3. messages'[s] = Visible(h)
        BY <3>1 DEF Commits
      <4>. QED BY <4>2, <4>3
    <3>2. CASE s # S
      <4>1. messages'[s] = messages[s]
        BY <1>3, <3>2
      <4>. QED BY <4>1 DEF TimesAreNew
    <3>. QED BY <3>1, <3>2
  <2>. QED BY <1>4, <2>1, <2>2
<1>7. \A s \in Session : Ats(messages[s])' = Ats(messages'[s])
  BY DEF Ats
<1>. QED BY <1>3, <1>5, <1>6, <1>7 DEF TimesAreNew

LEMMA CommitMakesNone ==
  ASSUME CountsInv, NEW h \in Handler, Commits(h), NEW s \in Session
  PROVE  Made(s)' \subseteq Made(s) /\ CountsMade(s)' \subseteq CountsMade(s)
<1>1. IdleTurn.summary = {} /\ IdleTurn.pc = "idle"
  BY DEF IdleTurn
<1>2. CountedBy(h)' = {}
  BY <1>1 DEF Commits, CountedBy
<1>3. \A g \in Handler \ {h} : turn'[g] = turn[g] /\ CountedBy(g)' = CountedBy(g)
  BY OthersCounts DEF Commits
<1>4. \A k \in summaries'[s] :
        k \in summaries[s] \/ (s = turn[h].session /\ k \in turn[h].summary)
  BY DEF Commits
<1>5. ASSUME NEW k \in Made(s)' PROVE k \in Made(s)
  <2>1. CASE k \in summaries'[s]
    BY <1>4, <2>1 DEF Made
  <2>2. CASE k \notin summaries'[s]
    <3>1. PICK g \in Handler : turn'[g].session = s /\ k \in turn'[g].summary
      BY <2>2 DEF Made
    <3>2. g # h
      BY <1>1, <3>1 DEF Commits
    <3>. QED BY <1>3, <3>1, <3>2 DEF Made
  <2>. QED BY <2>1, <2>2
<1>6. ASSUME NEW C \in CountsMade(s)' PROVE C \in CountsMade(s)
  <2>1. CASE C \in {k.counted : k \in summaries'[s]}
    <3>1. PICK k \in summaries'[s] : C = k.counted
      BY <2>1
    <3>2. CASE k \in summaries[s]
      BY <3>1, <3>2 DEF CountsMade
    <3>3. CASE k \notin summaries[s]
      <4>1. s = turn[h].session /\ k \in turn[h].summary
        BY <1>4, <3>3
      <4>2. C \in CountedBy(h)
        BY <3>1, <4>1 DEF CountedBy
      <4>. QED BY <4>1, <4>2 DEF CountsMade
    <3>. QED BY <3>2, <3>3
  <2>2. CASE C \notin {k.counted : k \in summaries'[s]}
    <3>1. PICK g \in Handler : turn'[g].session = s /\ C \in CountedBy(g)'
      BY <2>2 DEF CountsMade
    <3>2. g # h
      BY <1>2, <3>1
    <3>. HIDE DEF CountedBy
    <3>. QED BY <1>3, <3>1, <3>2 DEF CountsMade
  <2>. QED BY <2>1, <2>2
<1>. QED BY <1>5, <1>6

LEMMA CommitKeepsCounts ==
  ASSUME CountsInv, NEW h \in Handler, Commits(h)
  PROVE  CountsAreOfMessages'
<1>. USE DEF CountsInv, SummariesInv
<1>1. \A s \in Session : Ats(messages[s]) \subseteq Ats(messages'[s])
  BY DEF Commits
<1>2. ASSUME NEW s \in Session, NEW k \in summaries'[s]
      PROVE  k.counted \subseteq Ats(messages'[s])
  <2>1. CASE k \in summaries[s]
    BY <1>1, <2>1 DEF CountsAreOfMessages
  <2>2. CASE k \notin summaries[s]
    <3>1. s = turn[h].session /\ k \in turn[h].summary
      BY <1>2, <2>2 DEF Commits
    <3>2. k.counted \in CountedBy(h)
      BY <3>1 DEF CountedBy
    <3>3. k.counted \subseteq Ats(messages[s]) \cup Times(h)
      BY <3>1, <3>2 DEF CountsAreOfMessages
    <3>. QED BY <3>1, <3>3 DEF Commits
  <2>. QED BY <2>1, <2>2
<1>3. \A s : Ats(messages[s])' = Ats(messages'[s])
  BY DEF Ats
<1>4. ASSUME NEW g \in Handler PROVE CountsFit(g)'
  <2>1. CASE g = h
    <3>1. turn'[h].summary = {} /\ CountedBy(h)' = {}
      BY DEF Commits, IdleTurn, CountedBy
    <3>. QED BY <2>1, <3>1 DEF CountsFit
  <2>2. CASE g # h
    <3>1. turn'[g] = turn[g] /\ CountedBy(g)' = CountedBy(g) /\ Times(g)' = Times(g)
      BY <2>2, OthersCounts DEF Commits
    <3>2. CountsFit(g)
      BY CountsFitAll
    <3>3. CountedBy(g) # {} => turn[g].session \in Session
      <4>1. CountedBy(g) # {} => turn[g].pc \in {"save", "commit"}
        BY HasNotCounted
      <4>. QED BY <4>1, SeesItsSession
    <3>. QED BY <1>1, <1>3, <3>1, <3>2, <3>3 DEF CountsFit
  <2>. QED BY <2>1, <2>2
<1>. QED BY <1>2, <1>3, <1>4 DEF CountsAreOfMessages, CountsFit

LEMMA CommitKeepsLatest ==
  ASSUME CountsInv, NEW h \in Handler, Commits(h)
  PROVE  OneIsLatestAndOneCountedMost'
<1>. USE DEF CountsInv, SummariesInv
<1>1. \A s \in Session : Made(s)' \subseteq Made(s)
  BY CommitMakesNone
<1>2. \A s \in Session : IsFiniteSet(Made(s)')
  BY <1>1, FS_Subset DEF OneIsLatestAndOneCountedMost
<1>3. \A s \in Session : \A a, b \in Made(s)' :
        a.at \in 1 .. clock' /\ (a.at = b.at => a = b)
  BY <1>1 DEF OneIsLatestAndOneCountedMost, Commits
<1>4. ASSUME NEW s \in Session, summaries'[s] # {}
      PROVE  \E k \in summaries'[s] : \A a \in summaries'[s] : Counted(a) <= Counted(k)
  <2>1. summaries[s] # {} =>
          \E k \in summaries[s] : \A a \in summaries[s] : Counted(a) <= Counted(k)
    BY DEF OneIsLatestAndOneCountedMost
  <2>2. CASE summaries'[s] = summaries[s]
    BY <1>4, <2>1, <2>2
  <2>3. CASE summaries'[s] # summaries[s]
    <3>1. s = turn[h].session /\ summaries'[s] = summaries[s] \cup turn[h].summary
      BY <2>3 DEF Commits
    <3>2. PICK k : k \in turn[h].summary
      BY <2>3, <3>1
    <3>3. turn[h].summary = {k}
      BY <3>2 DEF CountsAreOfMessages
    <3>4. \A a \in summaries'[s] : Counted(a) \in Nat
      <4>. TAKE a \in summaries'[s]
      <4>1. a.counted \in CountsMade(s)'
        BY DEF CountsMade
      <4>2. a.counted \in CountsMade(s)
        BY <4>1, CommitMakesNone
      <4>. QED BY <4>2, CountsAreFinite DEF Counted
    <3>5. CASE summaries[s] = {}
      BY <3>1, <3>3, <3>4, <3>5
    <3>6. CASE summaries[s] # {}
      <4>1. PICK j \in summaries[s] : \A a \in summaries[s] : Counted(a) <= Counted(j)
        BY <2>1, <3>6
      <4>2. j \in summaries'[s] /\ k \in summaries'[s]
        BY <3>1, <3>3
      <4>3. CASE Counted(j) <= Counted(k)
        <5>1. \A a \in summaries'[s] : Counted(a) <= Counted(k)
          BY <3>1, <3>3, <3>4, <4>1, <4>2, <4>3
        <5>. QED BY <4>2, <5>1
      <4>4. CASE ~(Counted(j) <= Counted(k))
        <5>1. \A a \in summaries'[s] : Counted(a) <= Counted(j)
          BY <3>1, <3>3, <3>4, <4>1, <4>2, <4>4
        <5>. QED BY <4>2, <5>1
      <4>. QED BY <4>3, <4>4
    <3>. QED BY <3>5, <3>6
  <2>. QED BY <2>2, <2>3
<1>. QED BY <1>2, <1>3, <1>4 DEF OneIsLatestAndOneCountedMost, Counted

\* The turn that commits was one of those that may add, unless it commits a
\* summary that has counted more.
LEMMA CommitKeepsBacklog ==
  ASSUME CountsInv, NEW h \in Handler, Commits(h)
  PROVE  BacklogIsBounded'
<1>. USE DEF CountsInv, SummariesInv
<1>1. \A g \in Handler \ {h} : turn'[g] = turn[g]
  BY DEF Commits
<1>2. \A s, n : h \notin MayAdd(s, n)'
  BY DEF Commits, MayAdd, IdleTurn
<1>3. ASSUME NEW s \in Session, NEW n \in Levels(s)', Above(s, n)'
      PROVE  Bounded(s, n)'
  <2>1. n \in Levels(s) /\ n \in Nat
    <3>1. n \in Levels(s)
      BY CommitMakesNone DEF Levels
    <3>. QED BY <3>1, LevelsAreNumbers
  <2>2. MayAdd(s, n)' \subseteq MayAdd(s, n)
    BY <1>1, <1>2, NoMoreMayAdd
  <2>3. \A a \in summaries'[s] : Counted(a) <= n
    BY <1>3 DEF Above, Counted
  <2>4. CASE s # turn[h].session
    <3>1. messages'[s] = messages[s] /\ summaries'[s] = summaries[s]
      BY <2>4 DEF Commits
    <3>2. Bounded(s, n)
      BY <2>1, <2>3, <3>1, BacklogIsLevelled DEF Above
    <3>. QED BY <2>1, <2>2, <3>1, <3>2, BoundedKept
  <2>5. CASE s = turn[h].session
    <3>1. summaries'[s] = summaries[s] \cup turn[h].summary
      BY <2>5 DEF Commits
    <3>2. Bounded(s, n)
      BY <2>1, <2>3, <3>1, BacklogIsLevelled DEF Above
    <3>3. h \in MayAdd(s, n)
      <4>1. turn[h].pc = "commit"
        BY DEF Commits
      <4>2. CountedBy(h) = {k.counted : k \in turn[h].summary}
        BY <4>1 DEF CountedBy
      <4>3. \A C \in CountedBy(h) : Cardinality(C) <= n
        BY <2>3, <3>1, <4>2 DEF Counted
      <4>. QED BY <2>5, <4>1, <4>3 DEF MayAdd
    <3>4. MayAdd(s, n)' \in SUBSET (MayAdd(s, n) \ {h}) /\ MayAdd(s, n) \in SUBSET Handler
      BY <1>2, <2>2 DEF MayAdd
    <3>5. Cardinality(MayAdd(s, n) \ {h}) = Cardinality(MayAdd(s, n)) - 1
      BY <3>3, <3>4, HandlersAreMany
    <3>6. /\ Cardinality(MayAdd(s, n)') <= Cardinality(MayAdd(s, n) \ {h})
          /\ Cardinality(MayAdd(s, n)') \in Nat /\ Cardinality(MayAdd(s, n)) \in Nat
      BY <3>4, HandlersAreMany
    <3>7. /\ Cardinality(messages'[s]) = Cardinality(messages[s]) + 2
          /\ Cardinality(messages[s]) \in Nat
      BY <2>5, SessionTimes DEF Commits
    <3>8. SummaryThreshold \in Nat /\ Cardinality(Handler) \in Nat
      BY ChatAssumption, HandlersAreMany
    <3>9. Cardinality(messages'[s]) + 2 * Cardinality(MayAdd(s, n)') <
            n + SummaryThreshold + 2 * (Cardinality(Handler) - 1)
      BY <2>1, <3>2, <3>5, <3>6, <3>7, <3>8 DEF Bounded
    <3>. QED BY <3>9 DEF Bounded
  <2>. QED BY <2>4, <2>5
<1>. QED BY <1>3 DEF BacklogIsBounded, Levels, Bounded, Above

LEMMA OwnMessages ==
  ASSUME TurnsInv, TimesAreNew, NEW h \in Handler, turn[h].pc # "idle"
  PROVE  /\ IsFiniteSet(Own(h)) /\ Ats(Own(h)) = Times(h)
         /\ Cardinality(Own(h)) = Cardinality(Times(h))
<1>1. IsFiniteSet(Own(h))
  BY VisibleMessages DEF TurnsInv
<1>2. Ats(Own(h)) = Times(h) /\ \A a, b \in Own(h) : a.at = b.at => a = b
  BY TimesOfItsOwn
<1>. QED BY <1>1, <1>2, TimesTellApart

\* A turn that was open when another counted has at most its two messages passed
\* over when it commits; one that is younger, or has counted itself, has none.
LEMMA CommitKeepsFew ==
  ASSUME CountsInv, NEW h \in Handler, Commits(h)
  PROVE  FewArePassedOver'
<1>. USE DEF CountsInv, SummariesInv
<1>. SUFFICES ASSUME NEW s \in Session, NEW C \in CountsMade(s)'
              PROVE  (Cardinality(PassedOver(s, C)) + 2 * Cardinality(StillOpen(s, C)) <=
                        2 * (Cardinality(Handler) - 1))'
  BY DEF FewArePassedOver
<1>1. C \in CountsMade(s)
  BY CommitMakesNone
<1>2. Cardinality(PassedOver(s, C)) + 2 * Cardinality(StillOpen(s, C)) <=
        2 * (Cardinality(Handler) - 1)
  BY <1>1 DEF FewArePassedOver
<1>3. /\ IsFiniteSet(PassedOver(s, C)) /\ Cardinality(PassedOver(s, C)) \in Nat
      /\ Cardinality(Handler) \in Nat
  BY PassedOverCounts, HandlersAreMany
<1>4. /\ StillOpen(s, C)' \in SUBSET (StillOpen(s, C) \ {h})
      /\ StillOpen(s, C) \in SUBSET Handler
  <2>1. IdleTurn.user = 0
    BY DEF IdleTurn
  <2>. QED BY <2>1 DEF StillOpen, Commits
<1>5. /\ Cardinality(StillOpen(s, C)) \in Nat /\ Cardinality(StillOpen(s, C)') \in Nat
      /\ Cardinality(StillOpen(s, C)') <= Cardinality(StillOpen(s, C))
      /\ h \in StillOpen(s, C) =>
           Cardinality(StillOpen(s, C)') <= Cardinality(StillOpen(s, C)) - 1
  <2>1. /\ Cardinality(StillOpen(s, C)) \in Nat /\ Cardinality(StillOpen(s, C)') \in Nat
        /\ Cardinality(StillOpen(s, C)') <= Cardinality(StillOpen(s, C))
    BY <1>4, HandlersAreMany
  <2>2. h \in StillOpen(s, C) =>
          Cardinality(StillOpen(s, C) \ {h}) = Cardinality(StillOpen(s, C)) - 1
    BY <1>4, HandlersAreMany
  <2>3. Cardinality(StillOpen(s, C)') <= Cardinality(StillOpen(s, C) \ {h})
    BY <1>4, HandlersAreMany
  <2>. QED BY <2>1, <2>2, <2>3
<1>6. CASE s # turn[h].session
  <2>1. PassedOver(s, C)' = PassedOver(s, C)
    BY <1>6 DEF PassedOver, Commits
  <2>. QED BY <1>2, <1>3, <1>5, <2>1
<1>7. CASE s = turn[h].session /\ h \in StillOpen(s, C)
  <2>1. IsFiniteSet(Own(h)) /\ Cardinality(Own(h)) = 2
    <3>1. Cardinality(Times(h)) = 2
      BY OpenTurnFacts, TimesOfItsOwn DEF Commits
    <3>. QED BY <3>1, OwnMessages DEF Commits
  <2>2. PassedOver(s, C)' \subseteq PassedOver(s, C) \cup Own(h)
    <3>1. messages'[s] = Own(h) \cup messages[s]
      BY <1>7, SeesItsSession DEF Commits
    <3>. QED BY <3>1 DEF PassedOver
  <2>3. /\ IsFiniteSet(PassedOver(s, C) \cup Own(h))
        /\ Cardinality(PassedOver(s, C) \cup Own(h)) <= Cardinality(PassedOver(s, C)) + 2
    <3>1. /\ IsFiniteSet(PassedOver(s, C) \cup Own(h))
          /\ Cardinality(PassedOver(s, C) \cup Own(h)) =
               Cardinality(PassedOver(s, C)) + Cardinality(Own(h))
                 - Cardinality(PassedOver(s, C) \cap Own(h))
      BY <1>3, <2>1, FS_Union
    <3>2. IsFiniteSet(PassedOver(s, C) \cap Own(h))
      BY <1>3, FS_Subset
    <3>3. Cardinality(PassedOver(s, C) \cap Own(h)) \in Nat
      BY <3>2, FS_CardinalityType
    <3>. QED BY <1>3, <2>1, <3>1, <3>3
  <2>4. /\ Cardinality(PassedOver(s, C)') <= Cardinality(PassedOver(s, C) \cup Own(h))
        /\ IsFiniteSet(PassedOver(s, C)')
    BY <2>2, <2>3, FS_Subset
  <2>5. Cardinality(PassedOver(s, C)') \in Nat
        /\ Cardinality(PassedOver(s, C) \cup Own(h)) \in Nat
    BY <2>3, <2>4, FS_CardinalityType
  <2>. QED BY <1>2, <1>3, <1>5, <1>7, <2>3, <2>4, <2>5
<1>8. CASE s = turn[h].session /\ h \notin StillOpen(s, C)
  <2>1. /\ turn[h].user \in Nat /\ turn[h].reply \in Nat /\ C \subseteq Nat
        /\ 0 < turn[h].user /\ turn[h].user < turn[h].reply
    <3>1. turn[h].reply # 0
      BY OpenTurnFacts DEF Commits
    <3>. QED BY <1>1, <3>1, OpenTurnFacts, CountsAreFinite DEF TurnState
  <2>2. \A i \in Times(h) : i \in C \/ ~(\E x \in C : i < x)
    <3>1. CASE turn[h].user \in C
      <4>1. Times(h) \cap Ats(messages[s]) = {} /\ turn[h].user \in Times(h)
        BY <2>1 DEF TimesAreNew, Times
      <4>2. C \notin {k.counted : k \in summaries[s]}
        BY <3>1, <4>1 DEF CountsAreOfMessages
      <4>3. PICK g \in Handler : turn[g].session = s /\ C \in CountedBy(g)
        BY <1>1, <4>2 DEF CountsMade
      <4>4. C \subseteq Ats(messages[s]) \cup Times(g) /\ Times(g) \subseteq C
        BY <4>3 DEF CountsAreOfMessages
      <4>5. turn[h].user \in Times(g)
        BY <3>1, <4>1, <4>4
      <4>6. g = h
        BY <4>1, <4>5 DEF TimesAreNew
      <4>. QED BY <4>4, <4>6
    <3>2. CASE turn[h].user \notin C
      <4>1. ~(\E x \in C : turn[h].user < x)
        BY <1>8, <2>1, <3>2 DEF StillOpen
      <4>. QED BY <2>1, <4>1 DEF Times
    <3>. QED BY <3>1, <3>2
  <2>3. \A m \in Own(h) : m.at \in C \/ ~(\E x \in C : m.at < x)
    <3>1. Ats(Own(h)) = Times(h)
      BY OwnMessages DEF Commits
    <3>. QED BY <2>2, <3>1 DEF Ats
  <2>4. messages'[s] = Own(h) \cup messages[s]
    BY <1>8, SeesItsSession DEF Commits
  <2>5. PassedOver(s, C)' = PassedOver(s, C)
    BY <2>3, <2>4 DEF PassedOver
  <2>. QED BY <1>2, <1>3, <1>5, <2>5
<1>. QED BY <1>6, <1>7, <1>8

LEMMA CommitKeepsSummaries ==
  ASSUME CountsInv, NEW h \in Handler, Commit(h)
  PROVE  SummariesInv'
<1>1. Commits(h)
  BY CommitCommits
<1>2. TimesAreNew' /\ CountsAreOfMessages' /\ OneIsLatestAndOneCountedMost'
  BY <1>1, CommitKeepsTimes, CommitKeepsCounts, CommitKeepsLatest
<1>3. BacklogIsBounded' /\ FewArePassedOver'
  BY <1>1, CommitKeepsBacklog, CommitKeepsFew
<1>. QED BY <1>2, <1>3 DEF SummariesInv

-----------------------------------------------------------------------------
(* The invariant and what follows from it *)

\* What a turn holds of its session, what summaries have counted, and how much
\* the turns that are open may still add to it.
THEOREM CountsInvariant == ChatSpec => []CountsInv
<1>1. ChatInit => SummariesInv
  <2>. SUFFICES ASSUME ChatInit PROVE SummariesInv
    OBVIOUS
  <2>1. /\ clock = 0
        /\ \A h \in Handler :
             /\ turn[h].pc = "idle" /\ turn[h].user = 0 /\ turn[h].reply = 0
             /\ turn[h].summary = {} /\ Times(h) = {} /\ CountedBy(h) = {}
        /\ \A s \in Session : messages[s] = {} /\ summaries[s] = {}
    BY DEF ChatInit, IdleTurn, Times, CountedBy
  <2>2. TimesAreNew
    BY <2>1 DEF TimesAreNew, Ats
  <2>3. CountsAreOfMessages
    BY <2>1 DEF CountsAreOfMessages
  <2>4. \A s \in Session : Made(s) = {} /\ CountsMade(s) = {}
    BY <2>1 DEF Made, CountsMade
  <2>5. OneIsLatestAndOneCountedMost
    BY <2>1, <2>4, FS_EmptySet DEF OneIsLatestAndOneCountedMost
  <2>6. FewArePassedOver
    BY <2>4 DEF FewArePassedOver
  <2>7. BacklogIsBounded
    <3>. SUFFICES ASSUME NEW s \in Session
                  PROVE  Cardinality(messages[s]) + 2 * Cardinality(MayAdd(s, 0)) <
                           0 + SummaryThreshold + 2 * (Cardinality(Handler) - 1)
      BY <2>4 DEF BacklogIsBounded
    <3>1. MayAdd(s, 0) = {}
      BY <2>1 DEF MayAdd
    <3>2. Cardinality(MayAdd(s, 0)) = 0 /\ Cardinality(messages[s]) = 0
      BY <2>1, <3>1, FS_EmptySet
    <3>3. SummaryThreshold \in Nat \ {0} /\ Cardinality(Handler) \in Nat \ {0}
      BY ChatAssumption, HandlersAreMany
    <3>. QED BY <3>2, <3>3
  <2>. QED BY <2>2, <2>3, <2>5, <2>6, <2>7 DEF SummariesInv
<1>2. CountsInv /\ TurnsInv' /\ [ChatNext]_chatVars => SummariesInv'
  <2>. SUFFICES ASSUME CountsInv, [ChatNext]_chatVars
                PROVE  SummariesInv'
    OBVIOUS
  <2>1. CASE UNCHANGED chatVars
    <3>1. /\ turn' = turn /\ messages' = messages /\ summaries' = summaries
          /\ clock' = clock
      BY <2>1 DEF chatVars
    <3>2. \A h : CountedBy(h)' = CountedBy(h) /\ Times(h)' = Times(h)
      BY <3>1 DEF CountedBy, Times
    <3>3. TimesAreNew' /\ CountsAreOfMessages'
      BY <3>1, <3>2 DEF CountsInv, SummariesInv, TimesAreNew, CountsAreOfMessages, Ats
    <3>4. \A s : Made(s)' = Made(s) /\ CountsMade(s)' = CountsMade(s)
      BY <3>1, <3>2 DEF Made, CountsMade
    <3>5. OneIsLatestAndOneCountedMost'
      BY <3>1, <3>4 DEF CountsInv, SummariesInv, OneIsLatestAndOneCountedMost, Counted
    <3>6. \A s, n : MayAdd(s, n)' = MayAdd(s, n)
      BY <3>1, <3>2 DEF MayAdd
    <3>7. BacklogIsBounded'
      BY <3>1, <3>4, <3>6 DEF CountsInv, SummariesInv, BacklogIsBounded, Counted
    <3>8. \A s, C : PassedOver(s, C)' = PassedOver(s, C) /\ StillOpen(s, C)' = StillOpen(s, C)
      BY <3>1 DEF PassedOver, StillOpen
    <3>9. FewArePassedOver'
      BY <3>4, <3>8 DEF CountsInv, SummariesInv, FewArePassedOver
    <3>. QED BY <3>3, <3>5, <3>7, <3>9 DEF SummariesInv
  <2>2. ASSUME NEW h \in Handler, Begin(h) \/ Serve(h) \/ Fail(h)
        PROVE  SummariesInv'
    <3>1. CASE Begin(h) \/ SessionExists(h) \/ Fail(h)
      BY <3>1, EndsKeepCounts
    <3>2. CASE \/ InsertSession(h) \/ ReadSummary(h) \/ ReadWindow(h)
               \/ Converse(h) \/ ConverseAndAsk(h)
               \/ ConfirmationPending(h) \/ ReadForSummary(h)
      BY <3>2, ReadsKeepCounts
    <3>3. CASE SaveUserMessage(h) \/ SaveReply(h)
      BY <3>3, MessagesKeepCounts
    <3>4. CASE CountMessages(h)
      BY <3>4, CountKeepsCounts
    <3>5. CASE Check(h)
      BY <3>5, CheckKeepsCounts
    <3>6. CASE CountForSummary(h) \/ SaveSummary(h)
      BY <3>6, CountForSummaryKeepsCounts, SaveSummaryKeepsCounts
    <3>7. CASE Commit(h)
      BY <3>7, CommitKeepsSummaries
    <3>. QED BY <2>2, <3>1, <3>2, <3>3, <3>4, <3>5, <3>6, <3>7 DEF Serve
  <2>. QED BY <2>1, <2>2 DEF ChatNext
<1>3. CountsInv <=> TurnsInv /\ SummariesInv
  BY DEF CountsInv
<1>. QED BY <1>1, <1>2, <1>3, TurnsInvariant, PTL DEF ChatSpec

\* The turns that may add without a summary that has counted more are counted in.
LEMMA InTime == CountsInv => SummariesKeepUp
<1>. SUFFICES ASSUME CountsInv, NEW s \in Session
              PROVE  \E n \in {0} \cup {Counted(k) : k \in summaries[s]} :
                       Cardinality(messages[s]) <
                         n + SummaryThreshold + 2 * (Cardinality(Handler) - 1)
  BY DEF SummariesKeepUp
<1>1. TurnsInv /\ TimesAreNew /\ CountsAreOfMessages /\ BacklogIsBounded
  BY DEF CountsInv, SummariesInv
<1>2. PICK n \in {0} \cup {Counted(k) : k \in summaries[s]} : Above(s, n)
  <2>1. CASE summaries[s] = {}
    BY <2>1 DEF Above
  <2>2. CASE summaries[s] # {}
    <3>1. PICK k \in summaries[s] : \A a \in summaries[s] : Counted(a) <= Counted(k)
      BY <2>2 DEF CountsInv, SummariesInv, OneIsLatestAndOneCountedMost
    <3>. QED BY <3>1 DEF Above
  <2>. QED BY <2>1, <2>2
<1>3. n \in Levels(s)
  BY DEF Levels, CountsMade, Counted
<1>4. n \in Nat /\ Bounded(s, n)
  BY <1>1, <1>2, <1>3, LevelsAreNumbers, BacklogIsLevelled
<1>5. MayAdd(s, n) \in SUBSET Handler
  BY DEF MayAdd
<1>6. /\ Cardinality(MayAdd(s, n)) \in Nat /\ Cardinality(Handler) \in Nat
      /\ Cardinality(messages[s]) \in Nat /\ SummaryThreshold \in Nat
  BY <1>1, <1>5, HandlersAreMany, SessionTimes, ChatAssumption
<1>7. Cardinality(messages[s]) < n + SummaryThreshold + 2 * (Cardinality(Handler) - 1)
  BY <1>4, <1>6 DEF Bounded
<1>. QED BY <1>7

\* However many turns of a session do not see each other's messages, a summary
\* is at most two messages of each other turn late.
THEOREM SummariesAreMadeInTime == ChatSpec => []SummariesKeepUp
BY InTime, CountsInvariant, PTL

=============================================================================
