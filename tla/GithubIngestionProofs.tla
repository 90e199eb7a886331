------------------------ MODULE GithubIngestionProofs ------------------------
(***************************************************************************)
(* Proofs about GithubIngestion, for any crawls, URLs and repositories,    *)
(* any number of pushes and errors and any limits of the tool.             *)
(***************************************************************************)
EXTENDS GithubIngestion, FiniteSetTheorems, SequenceTheorems, WellFoundedInduction,
        TLAPS

-----------------------------------------------------------------------------
(* What the names of URLs are read as *)

\* A set of naturals that is not empty has a least element.
LEMMA LeastOf ==
  ASSUME NEW T \in SUBSET Nat, T # {}
  PROVE  \E x \in T : \A y \in T : x <= y
<1>. DEFINE R == {p \in Nat \X Nat : p[1] < p[2]}
<1>1. IsWellFoundedOn(R, Nat)
  BY NatLessThanWellFounded DEF OpToRel
<1>2. PICK x \in T : \A y \in T : ~(<<y, x>> \in R)
  BY <1>1, WFMin
<1>3. ASSUME NEW y \in T PROVE x <= y
  <2>1. <<y, x>> \in Nat \X Nat /\ <<y, x>>[1] = y /\ <<y, x>>[2] = x
    OBVIOUS
  <2>. QED BY <1>2, <2>1
<1>. QED BY <1>3

\* And a greatest one, if it has a bound.
LEMMA GreatestOf ==
  ASSUME NEW n \in Nat, NEW T \in SUBSET (1 .. n), T # {}
  PROVE  \E x \in T : \A y \in T : y <= x
<1>. DEFINE U == {n - x : x \in T}
<1>1. U \in SUBSET Nat /\ U # {}
  <2>1. \A x \in T : x \in Nat /\ n - x \in Nat
    OBVIOUS
  <2>2. U \subseteq Nat
    BY <2>1
  <2>3. PICK x \in T : TRUE
    OBVIOUS
  <2>4. n - x \in U
    BY <2>3
  <2>. QED BY <2>2, <2>4
<1>2. PICK u \in U : \A v \in U : u <= v
  BY <1>1, LeastOf
<1>3. PICK x \in T : u = n - x
  OBVIOUS
<1>4. ASSUME NEW y \in T PROVE y <= x
  <2>1. u <= n - y
    BY <1>2
  <2>. QED BY <1>3, <2>1
<1>. QED BY <1>4

\* The name in a URL that can be parsed is a sequence of pieces.
LEMMA NameIsASequence ==
  ASSUME NEW path \in Seq(Seq(STRING)), CanParse(path)
  PROVE  Strip(path)[2] \in Seq(STRING)
<1>. DEFINE full == {i \in DOMAIN path : path[i] # <<>>}
            low  == CHOOSE i \in full : \A j \in full : i <= j
            high == CHOOSE i \in full : \A j \in full : j <= i
<1>1. full \in SUBSET (1 .. Len(path)) /\ Len(path) \in Nat
  OBVIOUS
<1>2. full # {}
  <2>1. SUFFICES ASSUME full = {} PROVE FALSE
    OBVIOUS
  <2>2. Strip(path) = <<>>
    BY <2>1 DEF Strip
  <2>. QED BY <2>2 DEF CanParse
<1>3. Strip(path) = SubSeq(path, low, high)
  BY <1>2 DEF Strip
<1>4. low \in full /\ high \in full
  <2>0. full \in SUBSET Nat
    BY <1>1
  <2>. HIDE DEF full
  <2>1. \E i \in full : \A j \in full : i <= j
    BY <2>0, <1>2, LeastOf
  <2>2. \E i \in full : \A j \in full : j <= i
    BY <1>1, <1>2, GreatestOf
  <2>. QED BY <2>1, <2>2
<1>5. low \in 1 .. Len(path) /\ high \in 1 .. Len(path)
  BY <1>1, <1>4
<1>. HIDE DEF low, high, full
<1>6. SubSeq(path, low, high) \in Seq(Seq(STRING))
  BY <1>5
<1>7. Strip(path) \in Seq(Seq(STRING)) /\ Len(Strip(path)) >= 2
  BY <1>3, <1>6 DEF CanParse
<1>. QED BY <1>7

\* The first pieces of a name.
LEMMA PrefixFacts ==
  ASSUME NEW name \in Seq(STRING), NEW m \in 0 .. Len(name)
  PROVE  /\ SubSeq(name, 1, m) \in Seq(STRING)
         /\ Len(SubSeq(name, 1, m)) = m
         /\ \A i \in 1 .. m : SubSeq(name, 1, m)[i] = name[i]
<1>1. \A i \in 1 .. m : name[i] \in STRING
  OBVIOUS
<1>2. /\ SubSeq(name, 1, m) \in Seq(STRING)
      /\ Len(SubSeq(name, 1, m)) = IF 1 <= m THEN m - 1 + 1 ELSE 0
      /\ \A i \in 1 .. m - 1 + 1 : SubSeq(name, 1, m)[i] = name[1 + i - 1]
  <2>1. 1 \in Int /\ m \in Int
    OBVIOUS
  <2>. QED BY <1>1, <2>1, SubSeqProperties
<1>. QED BY <1>2

\* What is left without ".git" is the name without a ".git" at its end, if and
\* only if that holds no other.
LEMMA WithoutGit ==
  ASSUME NEW name \in Seq(STRING), NEW cut,
         cut = IF name # <<>> /\ name[Len(name)] = ".git"
               THEN SubSeq(name, 1, Len(name) - 1) ELSE name
  PROVE  Without(name) = cut <=> \A i \in DOMAIN cut : cut[i] # ".git"
<1>. DEFINE kept == {i \in DOMAIN name : name[i] # ".git"}
            least(n) == CHOOSE i \in kept : Cardinality({j \in kept : j < i}) = n - 1
<1>1. PICK k \in Nat : /\ cut \in Seq(STRING) /\ Len(cut) = k
                       /\ kept \subseteq 1 .. k /\ 1 .. k \subseteq DOMAIN name
                       /\ \A i \in 1 .. k : cut[i] = name[i]
  <2>1. CASE name # <<>> /\ name[Len(name)] = ".git"
    <3>1. Len(name) \in Nat \ {0}
      BY <2>1
    <3>2. cut = SubSeq(name, 1, Len(name) - 1)
      BY <2>1
    <3>3. PICK m \in 0 .. Len(name) : m = Len(name) - 1
      BY <3>1
    <3>4. /\ cut \in Seq(STRING) /\ Len(cut) = m
          /\ \A i \in 1 .. m : cut[i] = name[i]
      BY <3>2, <3>3, PrefixFacts
    <3>5. kept \subseteq 1 .. Len(name) - 1
      BY <2>1, <3>1
    <3>. QED BY <3>1, <3>3, <3>4, <3>5
  <2>2. CASE ~(name # <<>> /\ name[Len(name)] = ".git")
    BY <2>2
  <2>. QED BY <2>1, <2>2
<1>2. Without(name) = [n \in 1 .. Cardinality(kept) |-> name[least(n)]]
  BY DEF Without
<1>3. IsFiniteSet(1 .. k) /\ Cardinality(1 .. k) = k
  <2>1. 1 \in Int /\ k \in Int /\ (IF 1 > k THEN 0 ELSE k - 1 + 1) = k
    OBVIOUS
  <2>. QED BY <2>1, FS_Interval
<1>4. ASSUME \A i \in DOMAIN cut : cut[i] # ".git"
      PROVE  Without(name) = cut
  <2>1. kept = 1 .. k
    BY <1>1, <1>4
  <2>2. ASSUME NEW i \in 1 .. k
        PROVE  Cardinality({j \in kept : j < i}) = i - 1
    <3>1. {j \in kept : j < i} = 1 .. i - 1
      BY <2>1
    <3>2. 1 \in Int /\ i - 1 \in Int /\ (IF 1 > i - 1 THEN 0 ELSE (i - 1) - 1 + 1) = i - 1
      OBVIOUS
    <3>3. Cardinality(1 .. i - 1) = i - 1
      BY <3>2, FS_Interval
    <3>. QED BY <3>1, <3>3
  <2>3. ASSUME NEW n \in 1 .. k PROVE least(n) = n
    <3>1. n \in kept /\ Cardinality({j \in kept : j < n}) = n - 1
      BY <2>1, <2>2
    <3>2. least(n) \in kept /\ Cardinality({j \in kept : j < least(n)}) = n - 1
      BY <3>1
    <3>3. least(n) \in 1 .. k
      BY <2>1, <3>2
    <3>4. Cardinality({j \in kept : j < least(n)}) = least(n) - 1
      BY <2>2, <3>3
    <3>. HIDE DEF least, kept
    <3>. QED BY <3>2, <3>3, <3>4
  <2>4. Cardinality(kept) = k
    BY <1>3, <2>1
  <2>. HIDE DEF least, kept
  <2>5. Without(name) = [n \in 1 .. k |-> cut[n]]
    BY <1>1, <1>2, <2>3, <2>4
  <2>. QED BY <1>1, <2>5
<1>5. ASSUME NEW i \in DOMAIN cut, cut[i] = ".git"
      PROVE  Without(name) # cut
  <2>1. i \in 1 .. k /\ i \notin kept
    BY <1>1, <1>5
  <2>2. kept \in SUBSET ((1 .. k) \ {i})
    BY <1>1, <2>1
  <2>3. IsFiniteSet((1 .. k) \ {i}) /\ Cardinality((1 .. k) \ {i}) = k - 1
    BY <1>3, <2>1, FS_RemoveElement
  <2>4. IsFiniteSet(kept) /\ Cardinality(kept) <= k - 1
    BY <2>2, <2>3, FS_Subset
  <2>5. Cardinality(kept) \in Nat
    BY <2>4, FS_CardinalityType
  <2>. HIDE DEF least, kept
  <2>6. DOMAIN Without(name) = 1 .. Cardinality(kept)
    BY <1>2
  <2>7. k \in DOMAIN cut /\ k \notin DOMAIN Without(name)
    BY <1>1, <2>1, <2>4, <2>5, <2>6
  <2>. QED BY <2>7
<1>. QED BY <1>4, <1>5

-----------------------------------------------------------------------------
(* What the answers to a crawl leave *)

\* What _get's caller stores of an answer: one field and no other.
LEMMA WithFacts ==
  ASSUME NEW c \in Crawl, task[c] \in TaskState, NEW e, e = task[c].entity,
         NEW f \in Field, NEW status \in Nat, head \in Version
  PROVE  /\ With(c, f, status) \in Entity
         /\ With(c, f, status).of = e.of
         /\ With(c, f, status).files = e.files
         /\ With(c, f, status).dirs = e.dirs
         /\ With(c, f, status).snippets = e.snippets
         /\ With(c, f, status).fields[f] = (IF status = 200 THEN head ELSE None)
         /\ \A g \in Field \ {f} : With(c, f, status).fields[g] = e.fields[g]
         /\ With(c, f, status).by[f] = AttemptOf(c)
         /\ \A g \in Field \ {f} : With(c, f, status).by[g] = e.by[g]
         /\ e.refused \subseteq With(c, f, status).refused
         /\ status # 200 => f \in With(c, f, status).refused
<1>. DEFINE x == IF status = 200 THEN head ELSE None
            r == IF status = 200 THEN e.refused ELSE e.refused \cup {f}
            F == [e.fields EXCEPT ![f] = x]
            B == [e.by EXCEPT ![f] = AttemptOf(c)]
<1>0. e \in Entity /\ AttemptOf(c) \in Attempt
  BY DEF TaskState, AttemptOf, Attempt
<1>1. x \in Version \cup {None} /\ r \in SUBSET (Field \cup Path)
  BY <1>0 DEF Entity
<1>2. /\ F \in [Field -> Version \cup {None}] /\ F[f] = x
      /\ \A g \in Field \ {f} : F[g] = e.fields[g]
      /\ B \in [Field -> Attempt \cup {None}] /\ B[f] = AttemptOf(c)
      /\ \A g \in Field \ {f} : B[g] = e.by[g]
  BY <1>0, <1>1 DEF Entity
<1>3. With(c, f, status) = [e EXCEPT !.fields = F, !.by = B, !.refused = r]
  BY <1>0 DEF With, Entity
<1>. HIDE DEF F, B, r, x
<1>4. [e EXCEPT !.fields = F, !.by = B, !.refused = r] \in Entity
  BY <1>0, <1>1, <1>2 DEF Entity
<1>5. /\ With(c, f, status).of = e.of
      /\ With(c, f, status).files = e.files
      /\ With(c, f, status).dirs = e.dirs
      /\ With(c, f, status).snippets = e.snippets
      /\ With(c, f, status).fields = F
      /\ With(c, f, status).by = B
      /\ With(c, f, status).refused = r
  BY <1>0, <1>3 DEF Entity
<1>. QED BY <1>2, <1>3, <1>4, <1>5 DEF r, x

\* The stages after the fields, in the order of the requests.
LEMMA StageAfter ==
  \A f \in Field : /\ Stage[f] \in Nat /\ Stage[After[f]] = Stage[f] + 1
                   /\ \A g \in Field : Stage[g] = Stage[f] => g = f
BY DEF Field, Stage, After

\* An answer to the request for a field: the head is at least as new as what
\* was read before.
LEMMA FieldFetched ==
  ASSUME IngestionAssumption, head \in Version,
         NEW c \in Crawl, task[c] \in TaskState, NEW e, e = task[c].entity,
         NEW f \in Field, NEW status \in Nat, FieldsSoFar(e, f, head, AttemptOf(c))
  PROVE  FieldsSoFar(With(c, f, status), After[f], head, AttemptOf(c))
<1>. DEFINE w == With(c, f, status)
<1>1. /\ w.fields[f] = (IF status = 200 THEN head ELSE None)
      /\ \A g \in Field \ {f} : w.fields[g] = e.fields[g]
      /\ w.by[f] = AttemptOf(c)
      /\ \A g \in Field \ {f} : w.by[g] = e.by[g]
      /\ e.refused \subseteq w.refused
      /\ status # 200 => f \in w.refused
  <2>1. w.fields[f] = (IF status = 200 THEN head ELSE None)
    BY WithFacts
  <2>2. \A g \in Field \ {f} : w.fields[g] = e.fields[g]
    BY WithFacts
  <2>3. e.refused \subseteq w.refused
    BY WithFacts
  <2>4. status # 200 => f \in w.refused
    BY WithFacts
  <2>5. w.by[f] = AttemptOf(c)
    BY WithFacts
  <2>6. \A g \in Field \ {f} : w.by[g] = e.by[g]
    BY WithFacts
  <2>. QED BY <2>1, <2>2, <2>3, <2>4, <2>5, <2>6
<1>2. head \in Nat /\ head # None
  BY DEF IngestionAssumption, Version
<1>. HIDE DEF w
<1>3. \A g \in Field : IF Stage[g] < Stage[After[f]] THEN ~Missing(w, g)
                                                   ELSE w.fields[g] = None
  <2>. TAKE g \in Field
  <2>1. CASE g = f
    BY <1>1, <1>2, <2>1, StageAfter DEF Missing
  <2>2. CASE g # f
    <3>1. Stage[g] < Stage[After[f]] <=> Stage[g] < Stage[f]
      BY <2>2, StageAfter
    <3>. QED BY <1>1, <2>2, <3>1 DEF FieldsSoFar, Missing
  <2>. QED BY <2>1, <2>2
<1>6. \A g \in Field :
        w.by[g] = IF Stage[g] < Stage[After[f]] THEN AttemptOf(c) ELSE None
  <2>. TAKE g \in Field
  <2>1. CASE g = f
    BY <1>1, <2>1, StageAfter
  <2>2. CASE g # f
    <3>1. Stage[g] < Stage[After[f]] <=> Stage[g] < Stage[f]
      BY <2>2, StageAfter
    <3>. QED BY <1>1, <2>2, <3>1 DEF FieldsSoFar
  <2>. QED BY <2>1, <2>2
<1>4. \A g \in Field : w.fields[g] # None => w.fields[g] <= head
  BY <1>1, <1>2 DEF FieldsSoFar
<1>5. InOrder(w)
  <2>. SUFFICES ASSUME NEW g \in Field, NEW k \in Field, Stage[g] < Stage[k],
                       w.fields[g] # None, w.fields[k] # None
                PROVE  w.fields[g] <= w.fields[k]
    BY DEF InOrder
  <2>1. CASE k = f
    BY <1>1, <1>4, <2>1
  <2>2. CASE k # f /\ g = f
    <3>1. ~(Stage[k] < Stage[f])
      BY <2>2, StageAfter
    <3>. QED BY <1>1, <2>2, <3>1 DEF FieldsSoFar
  <2>3. CASE k # f /\ g # f
    BY <1>1, <2>3 DEF FieldsSoFar, InOrder
  <2>. QED BY <2>1, <2>2, <2>3
<1>. QED BY <1>3, <1>4, <1>5, <1>6 DEF FieldsSoFar, w

-----------------------------------------------------------------------------
(* A step of one crawl *)

Tasked(t) == t \in TaskState /\ (t.pc \notin {"waiting", "completed"} => t.url # None)

LEMMA TaskFacts ==
  ASSUME IngestionInv, NEW c \in Crawl
  PROVE  /\ Tasked(task[c]) /\ Knows(c, task[c], head)
         /\ head \in Version /\ errors \in 0 .. MaxErrors
         /\ row \in [Url -> Entity \cup {None}] /\ task \in [Crawl -> TaskState]
BY DEF IngestionInv, IngestionTypeOK, Tasked

\* A step that moves one crawl on and writes no row.
LEMMA TaskStep ==
  ASSUME IngestionInv, NEW c \in Crawl, NEW t, Set(c, t), Tasked(t), Knows(c, t, head),
         UNCHANGED <<head, row>>, errors' \in 0 .. MaxErrors
  PROVE  IngestionInv'
<1>1. /\ task' \in [Crawl -> TaskState] /\ task'[c] = t
      /\ \A d \in Crawl \ {c} : task'[d] = task[d]
  BY TaskFacts DEF Set, Tasked
<1>2. \A d \in Crawl : Tasked(task'[d]) /\ Knows(d, task'[d], head)
  BY <1>1, TaskFacts
<1>3. IngestionTypeOK'
  BY <1>1, <1>2 DEF IngestionInv, IngestionTypeOK, Tasked
<1>4. /\ EmptyFieldsWereRefused' /\ RowsAreOfOneCrawl' /\ SnippetsAreOfTheRowsTree'
      /\ \A u \in Url : row'[u] # None => CanParse(u) /\ row'[u].of = parse_owner_repo(u)
  BY DEF IngestionInv, EmptyFieldsWereRefused, RowsAreOfOneCrawl,
         SnippetsAreOfTheRowsTree
<1>. QED BY <1>2, <1>3, <1>4 DEF IngestionInv

\* What GoOn makes of a task.
LEMMA GoOnStep ==
  ASSUME IngestionInv, NEW c \in Crawl, NEW pc \in Crawling, NEW e \in Entity,
         NEW todo \in SUBSET Item, NEW status \in Nat,
         GoOn(c, pc, e, todo, status), status = 401 => MayFail,
         task[c].pc \in Crawling,
         e.of = task[c].entity.of,
         FieldsSoFar(e, pc, head, AttemptOf(c)), SnippetsSoFar(e, pc, todo, AttemptOf(c))
  PROVE  IngestionInv'
<1>. DEFINE t == [task[c] EXCEPT !.pc = pc, !.entity = e, !.todo = todo,
                                 !.attempt = 1]
<1>1. task[c] \in TaskState /\ task[c].url # None /\ Knows(c, task[c], head)
  BY TaskFacts DEF Tasked, Crawling
<1>2. 1 \in 1 .. MaxAttempts
  BY IngestionAssumption DEF IngestionAssumption
<1>3. t \in TaskState /\ t.pc = pc /\ t.entity = e /\ t.todo = todo /\ t.url = task[c].url
      /\ t.retries = task[c].retries
  BY <1>1, <1>2 DEF TaskState, Crawling
<1>4. Set(c, t) /\ UNCHANGED <<head, row>>
  BY DEF GoOn
<1>5. errors' \in 0 .. MaxErrors
  BY TaskFacts, IngestionAssumption DEF GoOn, MayFail, IngestionAssumption
<1>. HIDE DEF t
<1>6. Tasked(t) /\ Knows(c, t, head)
  BY <1>1, <1>3 DEF Tasked, Knows, AttemptOf
<1>. QED BY <1>4, <1>5, <1>6, TaskStep

-----------------------------------------------------------------------------
(* The requests *)

\* The lists of files that are made of a list are parts of it.
LEMMA ListsArePartsOf ==
  /\ \A S, n : FirstOf(S, n) \subseteq S
  /\ \A S, type : Shallow(S, type) \subseteq S
  /\ \A e : SnippetFiles(e) \subseteq e.files
BY DEF FirstOf, Shallow, SnippetFiles

LEMMA StagesOfFields ==
  /\ \A f \in Field : f \in Crawling /\ After[f] \in Crawling
  /\ Stage["description"] = 1 /\ Stage["readme_content"] = 2
  /\ Stage["structure"] = 3 /\ Stage["languages"] = 4
  /\ Stage["code_snippets"] = 5 /\ Stage["lookup"] = 6
  /\ After["description"] = "readme_content" /\ After["readme_content"] = "structure"
  /\ After["structure"] = "languages" /\ After["languages"] = "code_snippets"
BY DEF Field, Crawling, Stage, After

\* What a crawl knows while it asks for a field.
LEMMA AskingForAField ==
  ASSUME IngestionInv, NEW c \in Crawl, task[c].pc \in Field
  PROVE  /\ task[c] \in TaskState /\ task[c].entity \in Entity
         /\ task[c].pc \in Crawling
         /\ FieldsSoFar(task[c].entity, task[c].pc, head, AttemptOf(c))
         /\ SnippetsSoFar(task[c].entity, task[c].pc, task[c].todo, AttemptOf(c))
         /\ task[c].todo = {} /\ task[c].entity.snippets = {}
<1>1. task[c] \in TaskState /\ Knows(c, task[c], head) /\ task[c].pc \in Crawling
  BY TaskFacts, StagesOfFields DEF Tasked
<1>2. task[c].entity \in Entity
  BY <1>1 DEF TaskState
<1>3. Stage[task[c].pc] < Stage["code_snippets"]
  BY DEF Field, Stage
<1>. QED BY <1>1, <1>2, <1>3 DEF Knows, AttemptOf, SnippetsSoFar

\* _fetch_metadata and _fetch_readme, answered.
LEMMA FirstFieldsStep ==
  ASSUME IngestionInv, NEW c \in Crawl, NEW f \in {"description", "readme_content"},
         At(c, f), NEW status \in Answers(IsHosted(c)),
         GoOn(c, After[f], With(c, f, status), {}, status)
  PROVE  IngestionInv'
<1>. DEFINE e == task[c].entity
            w == With(c, f, status)
<1>1. f \in Field /\ task[c].pc = f
  BY DEF Field, At
<1>2. /\ task[c] \in TaskState /\ e \in Entity
      /\ FieldsSoFar(e, f, head, AttemptOf(c)) /\ SnippetsSoFar(e, f, {}, AttemptOf(c))
      /\ e.snippets = {}
  BY <1>1, AskingForAField
<1>3. status \in Nat /\ (status = 401 => MayFail) /\ head \in Version
  <2>1. status \in Nat /\ (status = 401 => MayFail)
    BY DEF Answers
  <2>. QED BY <2>1, TaskFacts
<1>4. FieldsSoFar(w, After[f], head, AttemptOf(c))
  BY <1>1, <1>2, <1>3, FieldFetched, IngestionAssumption
<1>5. e.fields["structure"] = None /\ e.files = {}
  <2>1. "structure" \in Field /\ ~(Stage["structure"] < Stage[f])
    BY DEF Field, Stage
  <2>. QED BY <1>2, <2>1 DEF FieldsSoFar, SnippetsSoFar
<1>6. w \in Entity
  BY <1>1, <1>2, <1>3, WithFacts
<1>7. w.of = e.of
  BY <1>1, <1>2, <1>3, WithFacts
<1>8. w.files = {} /\ w.snippets = {}
  <2>1. w.files = e.files
    BY <1>1, <1>2, <1>3, WithFacts
  <2>2. w.snippets = e.snippets
    BY <1>1, <1>2, <1>3, WithFacts
  <2>. QED BY <1>2, <1>5, <2>1, <2>2
<1>9. Stage[After[f]] < Stage["code_snippets"] /\ After[f] \in Crawling
  BY DEF Stage, After, Crawling
<1>10. GoOn(c, After[f], w, {}, status)
  OBVIOUS
<1>. HIDE DEF w
<1>11. SnippetsSoFar(w, After[f], {}, AttemptOf(c))
  BY <1>8, <1>9, StagesOfFields DEF SnippetsSoFar
<1>. QED BY <1>1, <1>3, <1>4, <1>6, <1>7, <1>9, <1>10, <1>11, GoOnStep, StagesOfFields

\* A refused tree leaves no files, and a listed one its own.
LEMMA StructureStep ==
  ASSUME IngestionInv, NEW c \in Crawl, FetchStructure(c)
  PROVE  IngestionInv'
<1>. PICK status \in Answers(IsHosted(c)) :
       LET e    == With(c, "structure", status)
           tree == IF status = 200 THEN Tree[head] ELSE {}
       IN GoOn(c, "languages",
               [e EXCEPT !.files = FirstOf(Shallow(tree, "blob"), MaxFiles),
                         !.dirs  = FirstOf(Shallow(tree, "tree"), MaxDirs)],
               {}, status)
  BY DEF FetchStructure
<1>. DEFINE e == task[c].entity
            w == With(c, "structure", status)
            tree == IF status = 200 THEN Tree[head] ELSE {}
            files == FirstOf(Shallow(tree, "blob"), MaxFiles)
            dirs == FirstOf(Shallow(tree, "tree"), MaxDirs)
            x == [w EXCEPT !.files = files, !.dirs = dirs]
<1>1. "structure" \in Field /\ task[c].pc = "structure"
  BY DEF Field, At, FetchStructure
<1>2. /\ task[c] \in TaskState /\ e \in Entity
      /\ FieldsSoFar(e, "structure", head, AttemptOf(c))
      /\ e.snippets = {}
  BY <1>1, AskingForAField
<1>3. status \in Nat /\ (status = 401 => MayFail) /\ head \in Version
  <2>1. status \in Nat /\ (status = 401 => MayFail)
    BY DEF Answers
  <2>. QED BY <2>1, TaskFacts
<1>4. FieldsSoFar(w, "languages", head, AttemptOf(c))
  <2>1. FieldsSoFar(w, After["structure"], head, AttemptOf(c))
    BY <1>1, <1>2, <1>3, FieldFetched, IngestionAssumption
  <2>. QED BY <2>1, StagesOfFields
<1>5. w \in Entity
  BY <1>1, <1>2, <1>3, WithFacts
<1>6. w.of = e.of
  BY <1>1, <1>2, <1>3, WithFacts
<1>7. w.snippets = {}
  <2>1. w.snippets = e.snippets
    BY <1>1, <1>2, <1>3, WithFacts
  <2>. QED BY <1>2, <2>1
<1>8. w.fields["structure"] = (IF status = 200 THEN head ELSE None)
  BY <1>1, <1>2, <1>3, WithFacts
<1>9. files \subseteq tree /\ dirs \subseteq tree /\ tree \subseteq Item
  <2>1. tree \subseteq Item
    BY <1>3 DEF Item
  <2>. QED BY <2>1, ListsArePartsOf
<1>10. GoOn(c, "languages", x, {}, status)
  OBVIOUS
<1>. HIDE DEF w, files, dirs
<1>11. /\ x \in Entity /\ x.of = e.of /\ x.snippets = {} /\ x.files = files
       /\ x.fields = w.fields /\ x.by = w.by /\ x.refused = w.refused
  BY <1>5, <1>6, <1>7, <1>9 DEF Entity
<1>12. files # {} => w.fields["structure"] # None
  BY <1>3, <1>8, <1>9, IngestionAssumption DEF IngestionAssumption, Version
<1>. HIDE DEF x
<1>13. FieldsSoFar(x, "languages", head, AttemptOf(c))
  BY <1>4, <1>11 DEF FieldsSoFar, Missing, InOrder
<1>14. SnippetsSoFar(x, "languages", {}, AttemptOf(c))
  BY <1>11, <1>12, StagesOfFields DEF SnippetsSoFar
<1>15. "languages" \in Crawling /\ task[c].pc \in Crawling
  BY <1>1, StagesOfFields DEF Crawling
<1>. QED BY <1>3, <1>10, <1>11, <1>13, <1>14, <1>15, GoOnStep

LEMMA LanguagesStep ==
  ASSUME IngestionInv, NEW c \in Crawl, FetchLanguages(c)
  PROVE  IngestionInv'
<1>. PICK status \in Answers(IsHosted(c)) :
       LET e == With(c, "languages", status)
       IN GoOn(c, "code_snippets", e, SnippetFiles(e), status)
  BY DEF FetchLanguages
<1>. DEFINE e == task[c].entity
            w == With(c, "languages", status)
<1>1. "languages" \in Field /\ task[c].pc = "languages"
  BY DEF Field, At, FetchLanguages
<1>2. /\ task[c] \in TaskState /\ e \in Entity
      /\ FieldsSoFar(e, "languages", head, AttemptOf(c))
      /\ SnippetsSoFar(e, "languages", {}, AttemptOf(c)) /\ e.snippets = {}
  BY <1>1, AskingForAField
<1>3. status \in Nat /\ (status = 401 => MayFail) /\ head \in Version
  <2>1. status \in Nat /\ (status = 401 => MayFail)
    BY DEF Answers
  <2>. QED BY <2>1, TaskFacts
<1>4. FieldsSoFar(w, "code_snippets", head, AttemptOf(c))
  <2>1. FieldsSoFar(w, After["languages"], head, AttemptOf(c))
    BY <1>1, <1>2, <1>3, FieldFetched, IngestionAssumption
  <2>. QED BY <2>1, StagesOfFields
<1>5. w \in Entity
  BY <1>1, <1>2, <1>3, WithFacts
<1>6. w.of = e.of
  BY <1>1, <1>2, <1>3, WithFacts
<1>7. w.snippets = {}
  <2>1. w.snippets = e.snippets
    BY <1>1, <1>2, <1>3, WithFacts
  <2>. QED BY <1>2, <2>1
<1>8. w.files # {} => w.fields["structure"] # None
  <2>1. w.files = e.files
    BY <1>1, <1>2, <1>3, WithFacts
  <2>2. "structure" \in Field \ {"languages"}
    BY DEF Field
  <2>3. w.fields["structure"] = e.fields["structure"]
    BY <1>1, <1>2, <1>3, <2>2, WithFacts
  <2>. QED BY <1>2, <2>1, <2>3 DEF SnippetsSoFar
<1>9. GoOn(c, "code_snippets", w, SnippetFiles(w), status)
  OBVIOUS
<1>. HIDE DEF w
<1>10. SnippetFiles(w) \subseteq w.files /\ w.files \subseteq Item
  BY <1>5, ListsArePartsOf DEF Entity
<1>11. SnippetsSoFar(w, "code_snippets", SnippetFiles(w), AttemptOf(c))
  BY <1>7, <1>8, <1>10, StagesOfFields DEF SnippetsSoFar
<1>12. "code_snippets" \in Crawling /\ task[c].pc \in Crawling
  BY <1>1, StagesOfFields DEF Crawling
<1>. QED BY <1>3, <1>4, <1>5, <1>6, <1>9, <1>10, <1>11, <1>12, GoOnStep

-----------------------------------------------------------------------------
(* The snippets, and the end of the crawl *)

LEMMA CodeStages ==
  \A pc \in {"code_snippets", "lookup", "write", "commit"} :
    pc \in Crawling /\ \A f \in Field : Stage[f] < Stage[pc]
BY DEF Field, Crawling, Stage

\* A file is read as it is now, which is no earlier than its tree was listed;
\* one that is refused is remembered as refused.
LEMMA SnippetStep ==
  ASSUME IngestionInv, NEW c \in Crawl, FetchCodeSnippet(c)
  PROVE  IngestionInv'
<1>. DEFINE e == task[c].entity
            todo == task[c].todo
<1>0. PICK item \in todo :
        LET there == item.path \in {i.path : i \in Tree[head]}
        IN \E status \in Answers(IsHosted(c) /\ there) :
             GoOn(c, "code_snippets",
                  IF status = 200
                  THEN [e EXCEPT !.snippets =
                          @ \cup {[path |-> item.path, version |-> head,
                               by |-> AttemptOf(c)]}]
                  ELSE [e EXCEPT !.refused = @ \cup {item.path}],
                  todo \ {item}, status)
  BY DEF FetchCodeSnippet
<1>1. PICK status \in Answers(IsHosted(c)
                                /\ item.path \in {i.path : i \in Tree[head]}) :
        GoOn(c, "code_snippets",
             IF status = 200
             THEN [e EXCEPT !.snippets =
                     @ \cup {[path |-> item.path, version |-> head,
                               by |-> AttemptOf(c)]}]
             ELSE [e EXCEPT !.refused = @ \cup {item.path}],
             todo \ {item}, status)
  BY <1>0
<1>2. /\ task[c] \in TaskState /\ task[c].pc = "code_snippets"
      /\ Knows(c, task[c], head) /\ head \in Version
  BY TaskFacts DEF FetchCodeSnippet, At, Tasked
<1>3. e \in Entity /\ todo \in SUBSET Item
  BY <1>2 DEF TaskState
<1>4. /\ FieldsSoFar(e, "code_snippets", head, AttemptOf(c))
      /\ SnippetsSoFar(e, "code_snippets", todo, AttemptOf(c))
  BY <1>2, CodeStages DEF Knows, AttemptOf
<1>5. /\ status \in Nat /\ (status = 401 => MayFail)
      /\ status = 200 => item.path \in {i.path : i \in Tree[head]}
  BY <1>1 DEF Answers
<1>. DEFINE s == [path |-> item.path, version |-> head, by |-> AttemptOf(c)]
            snippets == IF status = 200 THEN e.snippets \cup {s} ELSE e.snippets
            refused == IF status = 200 THEN e.refused ELSE e.refused \cup {item.path}
            x == [e EXCEPT !.snippets = snippets, !.refused = refused]
<1>6. GoOn(c, "code_snippets", x, todo \ {item}, status)
  <2>1. CASE status = 200
    BY <1>1, <1>3, <2>1 DEF Entity
  <2>2. CASE status # 200
    BY <1>1, <1>3, <2>2 DEF Entity
  <2>. QED BY <2>1, <2>2
<1>7. /\ snippets \in SUBSET Snippet /\ refused \in SUBSET (Field \cup Path)
      /\ item.path \in Path
  <2>1. item.path \in Path
    BY <1>3 DEF Path
  <2>2. s \in Snippet
    BY <1>2, <2>1 DEF Snippet, AttemptOf, Attempt, TaskState
  <2>. HIDE DEF s
  <2>. QED BY <1>3, <2>1, <2>2 DEF Entity
<1>8. \A k \in snippets : OfItsTree(e, k) /\ k.by = AttemptOf(c)
  <2>1. status = 200 => OfItsTree(e, s) /\ s.by = AttemptOf(c)
    <3>1. item \in e.files
      BY <1>4 DEF SnippetsSoFar
    <3>2. "structure" \in Field /\ e.fields["structure"] <= head
      BY <1>4, <3>1 DEF FieldsSoFar, SnippetsSoFar, Field
    <3>. QED BY <1>5, <3>1, <3>2 DEF OfItsTree
  <2>2. \A k \in e.snippets : OfItsTree(e, k) /\ k.by = AttemptOf(c)
    BY <1>4 DEF SnippetsSoFar
  <2>. HIDE DEF s
  <2>. QED BY <2>1, <2>2
<1>9. item.path \in {k.path : k \in snippets} \cup refused
  <2>1. CASE status = 200
    <3>1. s \in snippets /\ s.path = item.path
      BY <2>1
    <3>. QED BY <3>1
  <2>2. CASE status # 200
    BY <2>2
  <2>. QED BY <2>1, <2>2
<1>10. e.snippets \subseteq snippets /\ e.refused \subseteq refused
  OBVIOUS
<1>. HIDE DEF snippets, refused, s
<1>11. /\ x \in Entity /\ x.of = e.of /\ x.files = e.files /\ x.fields = e.fields
       /\ x.by = e.by /\ x.snippets = snippets /\ x.refused = refused
  BY <1>3, <1>7 DEF Entity
<1>. HIDE DEF x
<1>12. FieldsSoFar(x, "code_snippets", head, AttemptOf(c))
  BY <1>4, <1>10, <1>11 DEF FieldsSoFar, Missing, InOrder
<1>13. SnippetsSoFar(x, "code_snippets", todo \ {item}, AttemptOf(c))
  <2>1. \A k \in x.snippets : OfItsTree(x, k) /\ k.by = AttemptOf(c)
    BY <1>8, <1>11 DEF OfItsTree
  <2>2. ASSUME NEW i \in SnippetFiles(x) \ (todo \ {item})
        PROVE  ~Skipped(x, i)
    <3>1. SnippetFiles(x) = SnippetFiles(e)
      BY <1>11 DEF SnippetFiles
    <3>2. CASE i = item
      BY <1>9, <1>11, <3>2 DEF Skipped
    <3>3. CASE i # item
      <4>1. ~Skipped(e, i)
        BY <1>4, <2>2, <3>1, <3>3, StagesOfFields DEF SnippetsSoFar
      <4>. QED BY <1>10, <1>11, <4>1 DEF Skipped
    <3>. QED BY <3>2, <3>3
  <2>. QED BY <1>4, <1>11, <2>1, <2>2, StagesOfFields DEF SnippetsSoFar
<1>. QED BY <1>2, <1>3, <1>5, <1>6, <1>11, <1>12, <1>13, CodeStages, GoOnStep

\* What is known at the end of the snippets is known until the commit.
LEMMA KnownToTheEnd ==
  ASSUME NEW c, NEW e, NEW now, NEW pc \in {"code_snippets", "lookup", "write", "commit"},
         NEW to \in {"lookup", "write", "commit"},
         FieldsSoFar(e, pc, now, AttemptOf(c)), SnippetsSoFar(e, pc, {}, AttemptOf(c))
  PROVE  FieldsSoFar(e, to, now, AttemptOf(c)) /\ SnippetsSoFar(e, to, {}, AttemptOf(c))
<1>1. FieldsSoFar(e, to, now, AttemptOf(c))
  BY CodeStages DEF FieldsSoFar
<1>2. /\ Stage[pc] >= Stage["code_snippets"] /\ Stage[to] >= Stage["code_snippets"]
      /\ ~(Stage[to] < Stage["code_snippets"])
  BY DEF Stage
<1>. QED BY <1>1, <1>2 DEF SnippetsSoFar

LEMMA CrawledStep ==
  ASSUME IngestionInv, NEW c \in Crawl, Crawled(c)
  PROVE  IngestionInv'
<1>1. /\ task[c] \in TaskState /\ task[c].pc = "code_snippets" /\ task[c].todo = {}
      /\ Knows(c, task[c], head)
  BY TaskFacts DEF Crawled, At, Tasked
<1>2. task[c].entity \in Entity
  BY <1>1 DEF TaskState
<1>3. /\ FieldsSoFar(task[c].entity, "code_snippets", head, AttemptOf(c))
      /\ SnippetsSoFar(task[c].entity, "code_snippets", {}, AttemptOf(c))
  BY <1>1, CodeStages DEF Knows, AttemptOf
<1>4. /\ FieldsSoFar(task[c].entity, "lookup", head, AttemptOf(c))
      /\ SnippetsSoFar(task[c].entity, "lookup", {}, AttemptOf(c))
  BY <1>3, KnownToTheEnd
<1>5. GoOn(c, "lookup", task[c].entity, {}, 200)
  BY DEF Crawled
<1>. QED BY <1>1, <1>2, <1>4, <1>5, CodeStages, GoOnStep

-----------------------------------------------------------------------------
(* Attempts that begin and end, and the row *)

LEMMA NewTaskFacts ==
  /\ EmptyEntity \in Entity
  /\ NewTask \in TaskState /\ NewTask.entity = EmptyEntity /\ NewTask.todo = {}
<1>1. EmptyEntity \in Entity
  BY DEF EmptyEntity, Entity
<1>2. 1 \in 1 .. MaxAttempts /\ 0 \in 0 .. MaxRetries
  BY IngestionAssumption DEF IngestionAssumption
<1>. QED BY <1>1, <1>2 DEF NewTask, TaskState

\* An exception leaves nothing of the attempt.
LEMMA RaisedFacts ==
  ASSUME NEW c \in Crawl, NEW t \in TaskState, t.url # None, NEW now
  PROVE  /\ Tasked(Raised(t)) /\ Knows(c, Raised(t), now)
         /\ Raised(t).pc = "failed" /\ Raised(t).retries = t.retries
<1>1. /\ Raised(t) \in TaskState /\ Raised(t).pc = "failed"
      /\ Raised(t).url = t.url /\ Raised(t).retries = t.retries
      /\ Raised(t).entity = EmptyEntity /\ Raised(t).todo = {}
  BY NewTaskFacts DEF Raised, TaskState
<1>. QED BY <1>1 DEF Tasked, Knows, AttemptOf, Crawling

LEMMA RaiseStep ==
  ASSUME IngestionInv, NEW c \in Crawl, Raise(c),
         task[c].pc \notin {"waiting", "completed"},
         UNCHANGED <<head, row>>, errors' \in 0 .. MaxErrors
  PROVE  IngestionInv'
<1>1. task[c] \in TaskState /\ task[c].url # None
  BY TaskFacts DEF Tasked
<1>2. Set(c, Raised(task[c])) /\ Tasked(Raised(task[c])) /\ Knows(c, Raised(task[c]), head)
  BY <1>1, RaisedFacts DEF Raise
<1>. QED BY <1>2, TaskStep

\* An attempt that begins knows nothing yet but the repository it asks for.
LEMMA BegunFacts ==
  ASSUME NEW c \in Crawl, NEW t \in TaskState, t.entity = EmptyEntity, t.todo = {},
         NEW u \in Url, NEW now
  PROVE  /\ Tasked(Begun(t, u)) /\ Knows(c, Begun(t, u), now)
         /\ Begun(t, u).pc \in {"description", "failed"}
         /\ Begun(t, u).retries = t.retries
<1>. DEFINE b == [t EXCEPT !.url = u, !.pc = "description"]
            e == [EmptyEntity EXCEPT !.of = parse_owner_repo(u)]
            x == [b EXCEPT !.entity = e]
<1>1. b \in TaskState /\ b.url = u /\ b.entity = EmptyEntity /\ b.retries = t.retries
  BY DEF TaskState
<1>2. u # None
  BY IngestionAssumption DEF IngestionAssumption
<1>3. CASE ~CanParse(u)
  <2>1. Begun(t, u) = Raised(b)
    BY <1>3 DEF Begun
  <2>. QED BY <1>1, <1>2, <2>1, RaisedFacts
<1>4. CASE CanParse(u)
  <2>1. parse_owner_repo(u) \in Repo
    BY <1>4 DEF Repo
  <2>2. Begun(t, u) = x
    BY <1>1, <1>4 DEF Begun, TaskState
  <2>3. /\ e \in Entity /\ e.of = parse_owner_repo(u) /\ e.files = {} /\ e.snippets = {}
        /\ \A f \in Field : e.fields[f] = None /\ e.by[f] = None
    BY <2>1, NewTaskFacts DEF EmptyEntity, Entity
  <2>. HIDE DEF b, e
  <2>4. /\ x \in TaskState /\ x.pc = "description" /\ x.url = u /\ x.entity = e
        /\ x.todo = {} /\ x.retries = t.retries
    BY <1>1, <2>3 DEF TaskState, b
  <2>. HIDE DEF x
  <2>5. FieldsSoFar(e, "description", now, <<c, t.retries>>)
    <3>1. \A f \in Field : ~(Stage[f] < Stage["description"])
      BY DEF Field, Stage
    <3>. QED BY <2>3, <3>1 DEF FieldsSoFar, InOrder
  <2>6. SnippetsSoFar(e, "description", {}, <<c, t.retries>>)
    BY <2>3, StagesOfFields DEF SnippetsSoFar
  <2>7. "description" \in Crawling
    BY DEF Crawling
  <2>. QED BY <1>2, <1>4, <2>2, <2>3, <2>4, <2>5, <2>6, <2>7 DEF Tasked, Knows, AttemptOf
<1>. QED BY <1>3, <1>4

LEMMA BeginStep ==
  ASSUME IngestionInv, NEW c \in Crawl, Begin(c) \/ Retry(c)
  PROVE  IngestionInv'
<1>1. /\ task[c] \in TaskState /\ Knows(c, task[c], head) /\ errors \in 0 .. MaxErrors
      /\ task[c].pc # "waiting" /\ task[c].pc # "completed" => task[c].url \in Url
  BY TaskFacts DEF Tasked, TaskState
<1>2. CASE Begin(c)
  <2>1. PICK u \in Url : Set(c, Begun(task[c], u))
    BY <1>2 DEF Begin
  <2>2. task[c].entity = EmptyEntity /\ task[c].todo = {}
    BY <1>1, <1>2 DEF Begin, At, Knows, AttemptOf, Crawling
  <2>3. Tasked(Begun(task[c], u)) /\ Knows(c, Begun(task[c], u), head)
    BY <1>1, <2>2, BegunFacts
  <2>. QED BY <1>1, <1>2, <2>1, <2>3, TaskStep DEF Begin
<1>3. CASE Retry(c)
  <2>. DEFINE t == [NewTask EXCEPT !.retries = task[c].retries + 1]
  <2>1. task[c].url \in Url
    BY <1>1, <1>3 DEF Retry, At
  <2>2. task[c].retries + 1 \in 0 .. MaxRetries
    BY <1>1, <1>3, IngestionAssumption DEF Retry, TaskState, IngestionAssumption
  <2>3. t \in TaskState /\ t.entity = EmptyEntity /\ t.todo = {}
    BY <2>2, NewTaskFacts DEF TaskState
  <2>4. Set(c, Begun(t, task[c].url)) /\ UNCHANGED <<head, row, errors>>
    BY <1>3 DEF Retry
  <2>. HIDE DEF t
  <2>5. Tasked(Begun(t, task[c].url)) /\ Knows(c, Begun(t, task[c].url), head)
    BY <2>1, <2>3, BegunFacts
  <2>. QED BY <1>1, <2>4, <2>5, TaskStep
<1>. QED BY <1>2, <1>3

LEMMA RateLimitedStep ==
  ASSUME IngestionInv, NEW c \in Crawl, RateLimited(c)
  PROVE  IngestionInv'
<1>1. /\ task[c] \in TaskState /\ Knows(c, task[c], head) /\ errors \in 0 .. MaxErrors
      /\ Tasked(task[c])
  BY TaskFacts DEF Tasked
<1>2. task[c].pc \notin {"waiting", "completed"}
  BY DEF RateLimited, Asking, At, Field
<1>3. CASE task[c].attempt < MaxAttempts
  <2>. DEFINE t == [task[c] EXCEPT !.attempt = @ + 1]
  <2>1. task[c].attempt + 1 \in 1 .. MaxAttempts
    BY <1>1, <1>3, IngestionAssumption DEF TaskState, IngestionAssumption
  <2>2. /\ t \in TaskState /\ t.pc = task[c].pc /\ t.url = task[c].url
        /\ t.entity = task[c].entity /\ t.todo = task[c].todo
        /\ t.retries = task[c].retries
    BY <1>1, <2>1 DEF TaskState
  <2>3. Set(c, t) /\ UNCHANGED <<head, row, errors>>
    BY <1>3 DEF RateLimited
  <2>. HIDE DEF t
  <2>4. Tasked(t) /\ Knows(c, t, head)
    BY <1>1, <2>2 DEF Tasked, Knows, AttemptOf
  <2>. QED BY <1>1, <2>3, <2>4, TaskStep
<1>4. CASE ~(task[c].attempt < MaxAttempts)
  BY <1>1, <1>2, <1>4, RaiseStep DEF RateLimited
<1>. QED BY <1>3, <1>4

LEMMA ErrorStep ==
  ASSUME IngestionInv, MayFail, errors' = errors + 1
  PROVE  errors' \in 0 .. MaxErrors
BY IngestionAssumption DEF IngestionInv, IngestionTypeOK, MayFail, IngestionAssumption

LEMMA FailsStep ==
  ASSUME IngestionInv, NEW c \in Crawl, Fails(c)
  PROVE  IngestionInv'
BY ErrorStep, RaiseStep DEF Fails

LEMMA MetadataStep ==
  ASSUME IngestionInv, NEW c \in Crawl, FetchMetadata(c)
  PROVE  IngestionInv'
<1>1. PICK status \in Answers(IsHosted(c)) :
        \/ GoOn(c, "readme_content", With(c, "description", status),
                {}, status)
        \/ /\ status = 401
           /\ errors' = errors + 1 /\ Raise(c) /\ UNCHANGED <<head, row>>
  BY DEF FetchMetadata
<1>2. At(c, "description")
  BY DEF FetchMetadata
<1>3. CASE GoOn(c, "readme_content", With(c, "description", status),
                {}, status)
  BY <1>2, <1>3, FirstFieldsStep, StagesOfFields
<1>4. CASE /\ status = 401
           /\ errors' = errors + 1 /\ Raise(c) /\ UNCHANGED <<head, row>>
  <2>1. MayFail
    BY <1>4 DEF Answers
  <2>2. task[c].pc \notin {"waiting", "completed"}
    BY <1>2 DEF At
  <2>. QED BY <1>4, <2>1, <2>2, ErrorStep, RaiseStep
<1>. QED BY <1>1, <1>3, <1>4

LEMMA ReadmeStep ==
  ASSUME IngestionInv, NEW c \in Crawl, FetchReadme(c)
  PROVE  IngestionInv'
BY FirstFieldsStep, StagesOfFields DEF FetchReadme

\* get_by_url, and the statement that writes the row or finds its key taken.
LEMMA WriteStep ==
  ASSUME IngestionInv, NEW c \in Crawl, Lookup(c) \/ Write(c)
  PROVE  IngestionInv'
<1>1. /\ task[c] \in TaskState /\ Knows(c, task[c], head) /\ errors \in 0 .. MaxErrors
      /\ task[c].pc \in {"lookup", "write"} /\ task[c].url # None
  BY TaskFacts DEF Tasked, Lookup, Write, At
<1>2. FieldsSoFar(task[c].entity, task[c].pc, head, AttemptOf(c))
      /\ SnippetsSoFar(task[c].entity, task[c].pc, {}, AttemptOf(c)) /\ task[c].todo = {}
      /\ CanParse(task[c].url) /\ task[c].entity.of = parse_owner_repo(task[c].url)
  <2>1. Stage[task[c].pc] > Stage["code_snippets"] /\ task[c].pc \in Crawling
    BY <1>1 DEF Stage, Crawling
  <2>. QED BY <1>1, <2>1 DEF Knows, AttemptOf, SnippetsSoFar
<1>3. ASSUME NEW found \in BOOLEAN, NEW pc \in {"write", "commit"},
             Set(c, [task[c] EXCEPT !.pc = pc, !.found = found]),
             UNCHANGED <<head, row, errors>>
      PROVE  IngestionInv'
  <2>. DEFINE t == [task[c] EXCEPT !.pc = pc, !.found = found]
  <2>1. /\ t \in TaskState /\ t.pc = pc /\ t.url = task[c].url
        /\ t.entity = task[c].entity /\ t.todo = {} /\ t.retries = task[c].retries
    BY <1>1, <1>2 DEF TaskState
  <2>2. /\ FieldsSoFar(t.entity, pc, head, AttemptOf(c))
        /\ SnippetsSoFar(t.entity, pc, {}, AttemptOf(c))
    BY <1>1, <1>2, <2>1, KnownToTheEnd
  <2>3. Set(c, t)
    BY <1>3
  <2>. HIDE DEF t
  <2>4. Tasked(t) /\ Knows(c, t, head)
    BY <1>1, <1>2, <2>1, <2>2, CodeStages DEF Tasked, Knows, AttemptOf
  <2>. QED BY <1>1, <1>3, <2>3, <2>4, TaskStep
<1>4. CASE Lookup(c)
  BY <1>3, <1>4 DEF Lookup
<1>5. CASE Write(c) /\ (task[c].found \/ row[task[c].url] = None)
  <2>1. [task[c] EXCEPT !.pc = "commit"]
          = [task[c] EXCEPT !.pc = "commit", !.found = task[c].found]
    BY <1>1 DEF TaskState
  <2>2. task[c].found \in BOOLEAN
    BY <1>1 DEF TaskState
  <2>. QED BY <1>3, <1>5, <2>1, <2>2 DEF Write
<1>6. CASE Write(c) /\ ~(task[c].found \/ row[task[c].url] = None)
  BY <1>1, <1>6, RaiseStep DEF Write
<1>. QED BY <1>4, <1>5, <1>6

\* A push makes no field newer than the repository is.
LEMMA PushStep ==
  ASSUME IngestionInv, Push
  PROVE  IngestionInv'
<1>1. /\ head \in Nat /\ head + 1 \in Version /\ head' = head + 1
      /\ row' = row /\ task' = task /\ errors' = errors
  BY DEF Push, IngestionInv, IngestionTypeOK, Version
<1>2. ASSUME NEW c \in Crawl
      PROVE  Knows(c, task[c], head + 1)
  <2>1. Knows(c, task[c], head) /\ task[c].entity \in Entity
    BY TaskFacts DEF Tasked, TaskState
  <2>2. FieldsSoFar(task[c].entity, task[c].pc, head, AttemptOf(c)) =>
          FieldsSoFar(task[c].entity, task[c].pc, head + 1, AttemptOf(c))
    <3>1. \A f \in Field : task[c].entity.fields[f] \in Nat \cup {None}
      BY <2>1 DEF Entity, Version
    <3>. QED BY <1>1, <3>1 DEF FieldsSoFar
  <2>. QED BY <2>1, <2>2 DEF Knows, AttemptOf
<1>3. IngestionTypeOK'
  BY <1>1 DEF IngestionInv, IngestionTypeOK
<1>4. /\ EmptyFieldsWereRefused' /\ RowsAreOfOneCrawl' /\ SnippetsAreOfTheRowsTree'
      /\ \A u \in Url : row'[u] # None => CanParse(u) /\ row'[u].of = parse_owner_repo(u)
  BY <1>1 DEF IngestionInv, EmptyFieldsWereRefused, RowsAreOfOneCrawl,
              SnippetsAreOfTheRowsTree
<1>. QED BY <1>1, <1>2, <1>3, <1>4 DEF IngestionInv

\* The row becomes what one crawl has got, whole.
LEMMA CommitStep ==
  ASSUME IngestionInv, NEW c \in Crawl, Commit(c)
  PROVE  IngestionInv'
<1>. DEFINE e == task[c].entity
            u == task[c].url
            t == [NewTask EXCEPT !.pc = "completed", !.retries = task[c].retries]
<1>1. /\ task[c] \in TaskState /\ Knows(c, task[c], head) /\ task[c].pc = "commit"
      /\ u # None /\ e \in Entity /\ u \in Url
      /\ row \in [Url -> Entity \cup {None}]
  BY TaskFacts DEF Tasked, Commit, At, TaskState
<1>2. /\ CanParse(u) /\ e.of = parse_owner_repo(u) /\ task[c].todo = {}
      /\ FieldsSoFar(e, "commit", head, AttemptOf(c))
      /\ SnippetsSoFar(e, "commit", {}, AttemptOf(c))
  BY <1>1, StagesOfFields, CodeStages DEF Knows, AttemptOf, SnippetsSoFar, Stage
<1>3. /\ \A f \in Field : ~Missing(e, f)
      /\ \A item \in SnippetFiles(e) : ~Skipped(e, item)
      /\ InOrder(e) /\ \A s \in e.snippets : OfItsTree(e, s)
      /\ AttemptOf(c) \in Attempt /\ AllBy(e, AttemptOf(c))
  <2>1. Stage["commit"] >= Stage["code_snippets"]
    BY DEF Stage
  <2>2. AttemptOf(c) \in Attempt
    BY <1>1 DEF AttemptOf, Attempt, TaskState
  <2>. QED BY <1>2, <2>1, <2>2, CodeStages DEF FieldsSoFar, SnippetsSoFar, AllBy
<1>4. t \in TaskState /\ t.pc = "completed" /\ t.entity = EmptyEntity /\ t.todo = {}
  BY <1>1, NewTaskFacts DEF TaskState
<1>5. /\ row' = [row EXCEPT ![u] = e] /\ Set(c, t)
      /\ head' = head /\ errors' = errors
  BY DEF Commit, Written
<1>. HIDE DEF t
<1>6. /\ task' \in [Crawl -> TaskState] /\ task'[c] = t
      /\ \A d \in Crawl \ {c} : task'[d] = task[d]
  BY <1>4, <1>5, TaskFacts DEF Set
<1>7. /\ row' \in [Url -> Entity \cup {None}] /\ row'[u] = e
      /\ \A v \in Url \ {u} : row'[v] = row[v]
  BY <1>1, <1>5
<1>. HIDE DEF e, u
<1>8. \A d \in Crawl : Tasked(task'[d]) /\ Knows(d, task'[d], head)
  <2>1. Tasked(t) /\ Knows(c, t, head)
    BY <1>4 DEF Tasked, Knows, AttemptOf, Crawling
  <2>. QED BY <1>6, <2>1, TaskFacts
<1>9. IngestionTypeOK'
  BY <1>5, <1>6, <1>7, <1>8 DEF IngestionInv, IngestionTypeOK, Tasked
<1>10. \A v \in Url : row'[v] # None => CanParse(v) /\ row'[v].of = parse_owner_repo(v)
  BY <1>2, <1>7 DEF IngestionInv
<1>11. EmptyFieldsWereRefused'
  BY <1>3, <1>7 DEF IngestionInv, EmptyFieldsWereRefused
<1>12. RowsAreOfOneCrawl'
  BY <1>3, <1>7 DEF IngestionInv, RowsAreOfOneCrawl
<1>13. SnippetsAreOfTheRowsTree'
  BY <1>3, <1>7 DEF IngestionInv, SnippetsAreOfTheRowsTree
<1>. QED BY <1>5, <1>8, <1>9, <1>10, <1>11, <1>12, <1>13 DEF IngestionInv

-----------------------------------------------------------------------------
(* The rows *)

\* Whatever is pushed, limited or refused, and however tasks overwrite each
\* other's rows: a crawl knows what it has got, and a row is one whole crawl.
THEOREM IngestionInvariant == IngestionSpec => []IngestionInv
<1>1. IngestionInit => IngestionInv
  <2>. SUFFICES ASSUME IngestionInit PROVE IngestionInv
    OBVIOUS
  <2>1. IngestionTypeOK
    BY NewTaskFacts, IngestionAssumption
       DEF IngestionInit, IngestionTypeOK, NewTask, Version, IngestionAssumption
  <2>2. \A c \in Crawl : Knows(c, task[c], head)
    BY NewTaskFacts DEF IngestionInit, Knows, AttemptOf, NewTask, Crawling
  <2>3. \A u \in Url : row[u] = None
    BY DEF IngestionInit
  <2>. QED BY <2>1, <2>2, <2>3 DEF IngestionInv, EmptyFieldsWereRefused,
              RowsAreOfOneCrawl, SnippetsAreOfTheRowsTree
<1>2. IngestionInv /\ [IngestionNext]_ingestionVars => IngestionInv'
  <2>. SUFFICES ASSUME IngestionInv, [IngestionNext]_ingestionVars
                PROVE  IngestionInv'
    OBVIOUS
  <2>1. CASE UNCHANGED ingestionVars
    BY <2>1 DEF ingestionVars, IngestionInv, IngestionTypeOK,
                EmptyFieldsWereRefused, RowsAreOfOneCrawl, SnippetsAreOfTheRowsTree
  <2>2. CASE Push
    BY <2>2, PushStep
  <2>3. ASSUME NEW c \in Crawl,
               Begin(c) \/ Retry(c) \/ RateLimited(c) \/ Fails(c) \/ Step(c)
        PROVE  IngestionInv'
    <3>1. CASE Begin(c) \/ Retry(c)
      BY <3>1, BeginStep
    <3>2. CASE RateLimited(c)
      BY <3>2, RateLimitedStep
    <3>3. CASE Fails(c)
      BY <3>3, FailsStep
    <3>4. CASE FetchMetadata(c)
      BY <3>4, MetadataStep
    <3>5. CASE FetchReadme(c)
      BY <3>5, ReadmeStep
    <3>6. CASE FetchStructure(c)
      BY <3>6, StructureStep
    <3>7. CASE FetchLanguages(c)
      BY <3>7, LanguagesStep
    <3>8. CASE FetchCodeSnippet(c)
      BY <3>8, SnippetStep
    <3>9. CASE Crawled(c)
      BY <3>9, CrawledStep
    <3>10. CASE Lookup(c) \/ Write(c)
      BY <3>10, WriteStep
    <3>11. CASE Commit(c)
      BY <3>11, CommitStep
    <3>. QED BY <2>3, <3>1, <3>2, <3>3, <3>4, <3>5, <3>6, <3>7, <3>8, <3>9,
                <3>10, <3>11 DEF Step
  <2>. QED BY <2>1, <2>2, <2>3 DEF IngestionNext
<1>. QED BY <1>1, <1>2, PTL DEF IngestionSpec

\* A row is of the repository its URL names, whatever follows it in the path,
\* and only a ".git" inside the name makes parse_owner_repo miss it.
THEOREM RowsNameTheirRepositories == IngestionSpec => []RowsAreOfTheirUrls
<1>1. IngestionInv => RowsAreOfTheirUrls
  <2>. SUFFICES ASSUME IngestionInv, NEW u \in Url, row[u] # None
                PROVE  row[u].of = Named(u)
                       <=> \A i \in DOMAIN Named(u)[2] : Named(u)[2][i] # ".git"
    BY DEF RowsAreOfTheirUrls
  <2>. DEFINE name == Strip(u)[2]
              cut == IF name # <<>> /\ name[Len(name)] = ".git"
                     THEN SubSeq(name, 1, Len(name) - 1) ELSE name
  <2>1. CanParse(u) /\ row[u].of = parse_owner_repo(u)
    BY DEF IngestionInv
  <2>2. name \in Seq(STRING)
    BY <2>1, NameIsASequence, IngestionAssumption DEF IngestionAssumption
  <2>3. Named(u) = <<Strip(u)[1], cut>> /\ Named(u)[2] = cut
    BY DEF Named
  <2>4. row[u].of = <<Strip(u)[1], Without(name)>>
    BY <2>1 DEF parse_owner_repo
  <2>5. Without(name) = cut <=> \A i \in DOMAIN cut : cut[i] # ".git"
    BY <2>2, WithoutGit
  <2>. HIDE DEF name, cut
  <2>. QED BY <2>3, <2>4, <2>5
<1>. QED BY <1>1, IngestionInvariant, PTL

\* A rate limit is never taken for an answer: what a row lacks, GitHub refused.
THEOREM RowsLackWhatWasRefused == IngestionSpec => []EmptyFieldsWereRefused
<1>1. IngestionInv => EmptyFieldsWereRefused
  BY DEF IngestionInv
<1>. QED BY <1>1, IngestionInvariant, PTL

\* RepositoryRepo.upsert never mixes two crawls in one row.
THEOREM RowsAreOneCrawls == IngestionSpec => []RowsAreOfOneCrawl
<1>1. IngestionInv => RowsAreOfOneCrawl
  BY DEF IngestionInv
<1>. QED BY <1>1, IngestionInvariant, PTL

\* The snippets of a row are of files in its own tree.
THEOREM SnippetsAreTheTrees == IngestionSpec => []SnippetsAreOfTheRowsTree
<1>1. IngestionInv => SnippetsAreOfTheRowsTree
  BY DEF IngestionInv
<1>. QED BY <1>1, IngestionInvariant, PTL

-----------------------------------------------------------------------------
(* The end of every task *)

\* git/trees lists finitely many files.
LEMMA ItemsAreFinite == IsFiniteSet(Item)
<1>. DEFINE T == {Tree[v] : v \in Version}
            f == [v \in Version |-> Tree[v]]
<1>1. IsFiniteSet(Version)
  BY FS_Interval, IngestionAssumption DEF Version, IngestionAssumption
<1>2. f \in Surjection(Version, T)
  BY DEF Surjection
<1>3. IsFiniteSet(T)
  BY <1>1, <1>2, FS_Surjection DEF ExistsSurjection
<1>4. \A S \in T : IsFiniteSet(S)
  BY IngestionAssumption DEF IngestionAssumption
<1>5. Item = UNION T
  BY DEF Item
<1>. HIDE DEF T
<1>. QED BY <1>3, <1>4, <1>5, FS_UNION

LEMMA SetChangesOne ==
  ASSUME IngestionInv, NEW c \in Crawl, NEW t, Set(c, t)
  PROVE  task'[c] = t /\ \A d \in Crawl \ {c} : task'[d] = task[d]
BY TaskFacts DEF Set

LEMMA LaterIsNearer ==
  ASSUME NEW t, NEW s, t.retries = s.retries, Stage[t.pc] > Stage[s.pc]
  PROVE  Nearer(t, s)
BY DEF Nearer

\* An attempt that is given up is at the last stage.
LEMMA RaisedIsNearer ==
  ASSUME IngestionInv, NEW c \in Crawl, Raise(c),
         task[c].pc \notin {"waiting", "failed", "completed"}
  PROVE  Nearer(task'[c], task[c])
<1>1. task[c] \in TaskState /\ task[c].url # None
  BY TaskFacts DEF Tasked
<1>2. task'[c] = Raised(task[c])
  BY SetChangesOne DEF Raise
<1>3. task'[c].retries = task[c].retries /\ task'[c].pc = "failed"
  BY <1>1, <1>2, RaisedFacts
<1>4. Stage["failed"] > Stage[task[c].pc]
  BY <1>1 DEF TaskState, Stage
<1>. QED BY <1>3, <1>4, LaterIsNearer

LEMMA GoOnIsNearer ==
  ASSUME IngestionInv, NEW c \in Crawl, NEW pc, NEW e, NEW todo, NEW status,
         GoOn(c, pc, e, todo, status), Stage[pc] > Stage[task[c].pc]
  PROVE  Nearer(task'[c], task[c])
<1>1. task[c] \in TaskState
  BY TaskFacts DEF Tasked
<1>2. task'[c] = [task[c] EXCEPT !.pc = pc, !.entity = e, !.todo = todo, !.attempt = 1]
  BY SetChangesOne DEF GoOn
<1>3. task'[c].retries = task[c].retries /\ task'[c].pc = pc
  BY <1>1, <1>2 DEF TaskState
<1>. QED BY <1>3, LaterIsNearer

\* The file that is asked for is taken off the list.
LEMMA SnippetGoesOn ==
  ASSUME NEW c \in Crawl, FetchCodeSnippet(c)
  PROVE  \E item \in task[c].todo : \E e, status :
           GoOn(c, "code_snippets", e, task[c].todo \ {item}, status)
  BY DEF FetchCodeSnippet

LEMMA SnippetIsNearer ==
  ASSUME IngestionInv, NEW c \in Crawl, FetchCodeSnippet(c)
  PROVE  Nearer(task'[c], task[c])
<1>0. PICK item \in task[c].todo :
        \E e, status : GoOn(c, "code_snippets", e, task[c].todo \ {item}, status)
  BY SnippetGoesOn
<1>1. PICK e, status :
        GoOn(c, "code_snippets", e, task[c].todo \ {item}, status)
  BY <1>0
<1>2. task[c] \in TaskState /\ task[c].pc = "code_snippets"
  BY TaskFacts DEF Tasked, FetchCodeSnippet, At
<1>3. task'[c] = [task[c] EXCEPT !.pc = "code_snippets", !.entity = e,
                    !.todo = task[c].todo \ {item}, !.attempt = 1]
  BY <1>1, SetChangesOne DEF GoOn
<1>4. /\ task'[c].retries = task[c].retries /\ task'[c].pc = task[c].pc
      /\ task'[c].todo = task[c].todo \ {item}
  BY <1>2, <1>3 DEF TaskState
<1>5. IsFiniteSet(task[c].todo)
  <2>1. task[c].todo \subseteq Item
    BY <1>2 DEF TaskState
  <2>. QED BY <2>1, ItemsAreFinite, FS_Subset
<1>6. Cardinality(task[c].todo \ {item}) < Cardinality(task[c].todo)
  <2>1. Cardinality(task[c].todo) \in Nat
    BY <1>5, FS_CardinalityType
  <2>2. Cardinality(task[c].todo \ {item}) = Cardinality(task[c].todo) - 1
    <3>. DEFINE todo == task[c].todo
    <3>1. item \in todo /\ IsFiniteSet(todo)
      BY <1>5
    <3>. HIDE DEF todo
    <3>2. Cardinality(todo \ {item}) = Cardinality(todo) - 1
      BY <3>1, FS_RemoveElement
    <3>. QED BY <3>2 DEF todo
  <2>. QED BY <2>1, <2>2
<1>. QED BY <1>4, <1>6 DEF Nearer

LEMMA RateLimitedIsNearer ==
  ASSUME IngestionInv, NEW c \in Crawl, RateLimited(c)
  PROVE  Nearer(task'[c], task[c])
<1>1. /\ task[c] \in TaskState
      /\ task[c].pc \notin {"waiting", "failed", "completed"}
  BY TaskFacts DEF Tasked, RateLimited, Asking, At, Field
<1>2. CASE task[c].attempt < MaxAttempts
  <2>1. task'[c] = [task[c] EXCEPT !.attempt = @ + 1]
    BY <1>2, SetChangesOne DEF RateLimited
  <2>2. /\ task'[c].retries = task[c].retries /\ task'[c].pc = task[c].pc
        /\ task'[c].todo = task[c].todo /\ task'[c].attempt = task[c].attempt + 1
        /\ task[c].attempt \in Nat
    BY <1>1, <2>1, IngestionAssumption DEF TaskState, IngestionAssumption
  <2>. QED BY <2>2 DEF Nearer
<1>3. CASE ~(task[c].attempt < MaxAttempts)
  BY <1>1, <1>3, RaisedIsNearer DEF RateLimited
<1>. QED BY <1>2, <1>3

LEMMA BeginIsNearer ==
  ASSUME IngestionInv, NEW c \in Crawl, Begin(c) \/ Retry(c)
  PROVE  Nearer(task'[c], task[c])
<1>1. /\ task[c] \in TaskState /\ Knows(c, task[c], head) /\ task[c].retries \in Nat
      /\ task[c].pc \notin {"waiting", "completed"} => task[c].url \in Url
  BY TaskFacts, IngestionAssumption DEF Tasked, TaskState, IngestionAssumption
<1>2. CASE Begin(c)
  <2>1. PICK u \in Url : Set(c, Begun(task[c], u))
    BY <1>2 DEF Begin
  <2>2. task[c].pc = "waiting" /\ task[c].entity = EmptyEntity /\ task[c].todo = {}
    BY <1>1, <1>2 DEF Begin, At, Knows, AttemptOf, Crawling
  <2>3. task'[c] = Begun(task[c], u)
    BY <2>1, SetChangesOne
  <2>4. /\ task'[c].retries = task[c].retries
        /\ task'[c].pc \in {"description", "failed"}
    BY <1>1, <2>2, <2>3, BegunFacts
  <2>5. Stage[task'[c].pc] > Stage[task[c].pc]
    BY <2>2, <2>4 DEF Stage
  <2>. QED BY <2>4, <2>5, LaterIsNearer
<1>3. CASE Retry(c)
  <2>. DEFINE t == [NewTask EXCEPT !.retries = task[c].retries + 1]
  <2>1. task[c].url \in Url
    BY <1>1, <1>3 DEF Retry, At
  <2>2. task[c].retries + 1 \in 0 .. MaxRetries
    BY <1>1, <1>3, IngestionAssumption DEF Retry, TaskState, IngestionAssumption
  <2>3. /\ t \in TaskState /\ t.entity = EmptyEntity /\ t.todo = {}
        /\ t.retries = task[c].retries + 1
    BY <2>2, NewTaskFacts DEF TaskState
  <2>4. Set(c, Begun(t, task[c].url))
    BY <1>3 DEF Retry
  <2>. HIDE DEF t
  <2>5. task'[c] = Begun(t, task[c].url)
    BY <2>4, SetChangesOne
  <2>6. task'[c].retries = task[c].retries + 1
    BY <2>1, <2>3, <2>5, BegunFacts
  <2>. QED BY <1>1, <2>6 DEF Nearer
<1>. QED BY <1>2, <1>3

LEMMA RowStepsAreNearer ==
  ASSUME IngestionInv, NEW c \in Crawl, Lookup(c) \/ Write(c) \/ Commit(c)
  PROVE  Nearer(task'[c], task[c])
<1>1. task[c] \in TaskState
  BY TaskFacts DEF Tasked
<1>2. CASE Lookup(c)
  <2>1. task'[c] = [task[c] EXCEPT !.pc = "write", !.found = row[task[c].url] # None]
    BY <1>2, SetChangesOne DEF Lookup
  <2>2. task'[c].retries = task[c].retries /\ task'[c].pc = "write"
    BY <1>1, <2>1 DEF TaskState
  <2>3. Stage["write"] > Stage[task[c].pc]
    BY <1>2 DEF Lookup, At, Stage
  <2>. QED BY <2>2, <2>3, LaterIsNearer
<1>3. CASE Write(c) /\ (task[c].found \/ row[task[c].url] = None)
  <2>1. task'[c] = [task[c] EXCEPT !.pc = "commit"]
    BY <1>3, SetChangesOne DEF Write
  <2>2. task'[c].retries = task[c].retries /\ task'[c].pc = "commit"
    BY <1>1, <2>1 DEF TaskState
  <2>3. Stage["commit"] > Stage[task[c].pc]
    BY <1>3 DEF Write, At, Stage
  <2>. QED BY <2>2, <2>3, LaterIsNearer
<1>4. CASE Write(c) /\ ~(task[c].found \/ row[task[c].url] = None)
  BY <1>4, RaisedIsNearer DEF Write, At
<1>5. CASE Commit(c)
  <2>1. task'[c] = [NewTask EXCEPT !.pc = "completed", !.retries = task[c].retries]
    BY <1>5, SetChangesOne DEF Commit
  <2>2. task'[c].retries = task[c].retries /\ task'[c].pc = "completed"
    BY <2>1, NewTaskFacts DEF TaskState
  <2>3. Stage["completed"] > Stage[task[c].pc]
    BY <1>5 DEF Commit, At, Stage
  <2>. QED BY <2>2, <2>3, LaterIsNearer
<1>. QED BY <1>2, <1>3, <1>4, <1>5

LEMMA FetchesAreNearer ==
  ASSUME IngestionInv, NEW c \in Crawl,
         \/ FetchMetadata(c) \/ FetchReadme(c) \/ FetchStructure(c)
         \/ FetchLanguages(c) \/ Crawled(c)
  PROVE  Nearer(task'[c], task[c])
<1>1. \/ /\ At(c, "description")
         /\ \E e, todo, status : GoOn(c, "readme_content", e, todo, status)
      \/ At(c, "description") /\ Raise(c)
      \/ /\ At(c, "readme_content")
         /\ \E e, todo, status : GoOn(c, "structure", e, todo, status)
      \/ /\ At(c, "structure")
         /\ \E e, todo, status : GoOn(c, "languages", e, todo, status)
      \/ /\ At(c, "languages")
         /\ \E e, todo, status : GoOn(c, "code_snippets", e, todo, status)
      \/ /\ At(c, "code_snippets")
         /\ \E e, todo, status : GoOn(c, "lookup", e, todo, status)
  BY DEF FetchMetadata, FetchReadme, FetchStructure, FetchLanguages, Crawled
<1>. QED BY <1>1, GoOnIsNearer, RaisedIsNearer, StagesOfFields DEF At

\* However often GitHub answers 429, every step of a task brings it nearer to
\* its end; nothing another task or GitHub does sets it back.
THEOREM TasksEnd == IngestionSpec => TasksComeToAnEnd
<1>1. IngestionInv /\ [IngestionNext]_ingestionVars =>
        \A c \in Crawl : task'[c] # task[c] => Nearer(task'[c], task[c])
  <2>. SUFFICES ASSUME IngestionInv, [IngestionNext]_ingestionVars,
                       NEW d \in Crawl, task'[d] # task[d]
                PROVE  Nearer(task'[d], task[d])
    OBVIOUS
  <2>1. PICK c \in Crawl :
          Begin(c) \/ Retry(c) \/ RateLimited(c) \/ Fails(c) \/ Step(c)
    BY DEF IngestionNext, Push, ingestionVars
  <2>2. \E t : Set(c, t)
    <3>1. /\ Raise(c) => \E t : Set(c, t)
          /\ \A pc, e, todo, status :
               GoOn(c, pc, e, todo, status) => \E t : Set(c, t)
      BY DEF Raise, GoOn
    <3>2. CASE Begin(c) \/ Retry(c)
      BY <3>2 DEF Begin, Retry
    <3>3. CASE RateLimited(c) \/ Fails(c)
      BY <3>1, <3>3 DEF RateLimited, Fails
    <3>4. CASE FetchMetadata(c) \/ FetchReadme(c) \/ Crawled(c)
      BY <3>1, <3>4 DEF FetchMetadata, FetchReadme, Crawled
    <3>5. CASE FetchStructure(c)
      BY <3>1, <3>5 DEF FetchStructure
    <3>6. CASE FetchLanguages(c)
      BY <3>1, <3>6 DEF FetchLanguages
    <3>7. CASE FetchCodeSnippet(c)
      <4>1. \E item \in task[c].todo : \E e, status :
              GoOn(c, "code_snippets", e, task[c].todo \ {item}, status)
        BY <3>7, SnippetGoesOn
      <4>. QED BY <3>1, <4>1
    <3>8. CASE Lookup(c) \/ Write(c) \/ Commit(c)
      BY <3>1, <3>8 DEF Lookup, Write, Commit
    <3>. QED BY <2>1, <3>2, <3>3, <3>4, <3>5, <3>6, <3>7, <3>8 DEF Step
  <2>3. d = c
    BY <2>2, SetChangesOne
  <2>4. CASE Fails(c)
    BY <2>3, <2>4, RaisedIsNearer DEF Fails
  <2>. QED BY <2>1, <2>3, <2>4, BeginIsNearer, RateLimitedIsNearer, SnippetIsNearer,
              RowStepsAreNearer, FetchesAreNearer DEF Step
<1>. QED BY <1>1, IngestionInvariant, PTL DEF IngestionSpec, TasksComeToAnEnd

=============================================================================
