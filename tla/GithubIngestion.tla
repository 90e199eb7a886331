--------------------------- MODULE GithubIngestion ---------------------------
(***************************************************************************)
(* GitHubIngestionTool.ingest and the upsert of its row: what several      *)
(* ingestion tasks of one tenant make of repositories that change while    *)
(* they are crawled, and of a GitHub that limits, refuses or fails.        *)
(*                                                                         *)
(* A crawl asks for the metadata, the README, the tree, the languages and  *)
(* a few files, one after the other; every request is answered from the    *)
(* head at that time.  What an answer says is only that time: a version,   *)
(* or None for a field that is left empty; and `by` keeps, for a field and *)
(* a snippet, the attempt of the task whose request was answered.  Tasks,  *)
(* messages and statuses are in CeleryWorker; here a task is its attempts, *)
(* one after the other.                                                    *)
(*                                                                         *)
(* The path of a URL is the sequence of its segments, and a segment the    *)
(* sequence of its pieces, where ".git" is a piece of its own.  A list of  *)
(* files is a set of the tree's items, each of which knows its place.      *)
(***************************************************************************)
EXTENDS Naturals, Sequences, FiniteSets

CONSTANTS
  Crawl,        \* the ingestion tasks
  Url,          \* the paths of the URLs that are asked for
  Hosted,       \* the repositories there are: <<owner, name>>
  Tree,         \* [version -> the items git/trees/HEAD?recursive=1 lists]
  MaxAttempts,  \* stop_after_attempt of _get
  MaxRetries,   \* max_retries of the task
  MaxDepth, MaxFiles, MaxDirs, MaxSnippets,  \* the limits of the tool
  MaxPushes,    \* bound: pushes to the repositories
  MaxErrors,    \* bound: answers other than 200, 404 and 429, and failures
  None

Version == 0 .. MaxPushes

ASSUME IngestionAssumption ==
  /\ {MaxAttempts, MaxDepth, MaxFiles, MaxDirs, MaxSnippets} \subseteq Nat \ {0}
  /\ {MaxRetries, MaxPushes, MaxErrors} \subseteq Nat
  /\ DOMAIN Tree = Version
  /\ \A v \in Version : /\ IsFiniteSet(Tree[v])
                         /\ \A item \in Tree[v] : {item.at, item.depth} \subseteq Nat
  /\ Url \subseteq Seq(Seq(STRING)) /\ None \notin Nat \cup Url

VARIABLES
  head,    \* the version GitHub serves
  row,     \* [Url -> the committed row of `repositories`, or None]
  task,    \* [Crawl -> the task and its crawl]
  errors   \* errors so far

ingestionVars == <<head, row, task, errors>>

-----------------------------------------------------------------------------
(* URLs *)

\* str.strip("/"): the segments between the first and the last that is not
\* empty.
Strip(path) ==
  LET full == {i \in DOMAIN path : path[i] # <<>>}
      low  == CHOOSE i \in full : \A j \in full : i <= j
      high == CHOOSE i \in full : \A j \in full : j <= i
  IN IF full = {} THEN <<>> ELSE SubSeq(path, low, high)

\* str.replace(".git", ""): the other pieces, in their order.
Without(name) ==
  LET kept == {i \in DOMAIN name : name[i] # ".git"}
  IN [n \in 1 .. Cardinality(kept) |->
        name[CHOOSE i \in kept : Cardinality({j \in kept : j < i}) = n - 1]]

\* Mutant: the last segment is taken for the name.
parse_last(path) ==
  <<Strip(path)[1], Without(Strip(path)[Len(Strip(path))])>>

parse_owner_repo(path) == <<Strip(path)[1], Without(Strip(path)[2])>>

\* With fewer than two segments it raises.
CanParse(path) == Len(Strip(path)) >= 2

-----------------------------------------------------------------------------

\* What a tree lists: its place in the list, path, depth, type, and whether the
\* path has one of the code extensions.
Item == UNION {Tree[v] : v \in Version}

Path == {item.path : item \in Item}

\* What parse_owner_repo makes of the URLs.
Repo == {parse_owner_repo(u) : u \in {p \in Url : CanParse(p)}}

Field == {"description", "readme_content", "structure", "languages"}

\* A crawl is the attempt of a task that makes it.
Attempt == Crawl \X (0 .. MaxRetries)

Snippet == [path : Path, version : Version, by : Attempt]

\* The Repository entity, and a row.  `refused` is what GitHub did not answer
\* with 200, and is in no row of the code.
EmptyEntity == [of |-> None, fields |-> [f \in Field |-> None],
                by |-> [f \in Field |-> None], files |-> {}, dirs |-> {},
                snippets |-> {}, refused |-> {}]

Entity == [of : Repo \cup {None}, fields : [Field -> Version \cup {None}],
           by : [Field -> Attempt \cup {None}], files : SUBSET Item,
           dirs : SUBSET Item, snippets : SUBSET Snippet,
           refused : SUBSET (Field \cup Path)]

TaskState ==
  [pc : {"waiting", "description", "readme_content", "structure", "languages",
         "code_snippets", "lookup", "write", "commit", "failed", "completed"},
   url : Url \cup {None},
   attempt : 1 .. MaxAttempts, retries : 0 .. MaxRetries,
   found : BOOLEAN,      \* get_by_url has found a row
   todo : SUBSET Item,   \* snippet files not yet asked for
   entity : Entity]

IngestionTypeOK ==
  /\ head \in Version
  /\ row \in [Url -> Entity \cup {None}]
  /\ task \in [Crawl -> TaskState]
  /\ \A c \in Crawl : task[c].pc \notin {"waiting", "completed"} => task[c].url # None
  /\ errors \in 0 .. MaxErrors

NewTask == [pc |-> "waiting", url |-> None, attempt |-> 1, retries |-> 0,
            found |-> FALSE, todo |-> {}, entity |-> EmptyEntity]

IngestionInit ==
  /\ head = 0
  /\ row = [u \in Url |-> None]
  /\ task = [c \in Crawl |-> NewTask]
  /\ errors = 0

\* Somebody pushes.
Push ==
  /\ head + 1 \in Version
  /\ head' = head + 1
  /\ UNCHANGED <<row, task, errors>>

At(c, pc) == task[c].pc = pc
Set(c, t) == task' = [task EXCEPT ![c] = t]

\* The exception ends the attempt: what it has fetched or written is gone.
Raised(t) == [NewTask EXCEPT !.pc = "failed", !.url = t.url, !.retries = t.retries]

Raise(c) == Set(c, Raised(task[c]))

\* An attempt begins: the crawl of a URL that can be parsed.
Begun(t, u) ==
  LET begun == [t EXCEPT !.url = u, !.pc = "description"]
  IN IF CanParse(u)
     THEN [begun EXCEPT !.entity.of = parse_owner_repo(u)]
     ELSE Raised(begun)

Begin(c) ==
  /\ At(c, "waiting")
  /\ \E u \in Url : Set(c, Begun(task[c], u))
  /\ UNCHANGED <<head, row, errors>>

\* Mutant: max_retries is None.
RetryForever(c) ==
  /\ At(c, "failed")
  /\ Set(c, Begun([NewTask EXCEPT !.retries = task[c].retries + 1],
                  task[c].url))
  /\ UNCHANGED <<head, row, errors>>

\* task.retry: the attempt is made again from its start.
Retry(c) ==
  /\ At(c, "failed") /\ task[c].retries < MaxRetries
  /\ Set(c, Begun([NewTask EXCEPT !.retries = task[c].retries + 1],
                  task[c].url))
  /\ UNCHANGED <<head, row, errors>>

-----------------------------------------------------------------------------
(* _get *)

\* The order of the requests.
After == [description |-> "readme_content", readme_content |-> "structure",
          structure |-> "languages", languages |-> "code_snippets"]

\* A request is out; without files there is none for the snippets.
Asking(c) ==
  task[c].pc \in Field \/ (At(c, "code_snippets") /\ task[c].todo # {})

MayFail == errors < MaxErrors

\* Mutant: no attempt is the last.
RateLimitedForever(c) ==
  /\ Asking(c)
  /\ Set(c, [task[c] EXCEPT !.attempt = IF @ < MaxAttempts THEN @ + 1 ELSE 1])
  /\ UNCHANGED <<head, row, errors>>

\* Mutant: the last 429 is returned instead of raised.
RateLimitedReturned(c) ==
  /\ task[c].pc \in Field
  /\ IF task[c].attempt < MaxAttempts
     THEN Set(c, [task[c] EXCEPT !.attempt = @ + 1])
     ELSE Set(c, [task[c] EXCEPT !.attempt = 1, !.pc = After[@]])
  /\ UNCHANGED <<head, row, errors>>

\* 429: asked again after a wait, or raised at the last attempt.
RateLimited(c) ==
  /\ Asking(c)
  /\ IF task[c].attempt < MaxAttempts
     THEN Set(c, [task[c] EXCEPT !.attempt = @ + 1])
     ELSE Raise(c)
  /\ UNCHANGED <<head, row, errors>>

\* A timeout, no connection, or a database that fails: raised at once.
Fails(c) ==
  /\ task[c].pc \notin {"waiting", "failed", "completed"} /\ MayFail
  /\ errors' = errors + 1
  /\ Raise(c)
  /\ UNCHANGED <<head, row>>

\* The other answers.  401 stands for every status but 200, 404 and 429, and
\* for a content that cannot be decoded.
Answers(there) ==
  {IF there THEN 200 ELSE 404} \cup (IF MayFail THEN {401} ELSE {})

IsHosted(c) == task[c].entity.of \in Hosted

\* The crawl goes on with what it made of an answer.
GoOn(c, pc, entity, todo, status) ==
  /\ Set(c, [task[c] EXCEPT !.pc = pc, !.entity = entity, !.todo = todo,
                            !.attempt = 1])
  /\ errors' = IF status = 401 THEN errors + 1 ELSE errors
  /\ UNCHANGED <<head, row>>

AttemptOf(c) == <<c, task[c].retries>>

\* The entity with a field of an answer.
With(c, f, status) ==
  [task[c].entity EXCEPT
            !.fields[f] = IF status = 200 THEN head ELSE None,
            !.by[f] = AttemptOf(c),
            !.refused = IF status = 200 THEN @ ELSE @ \cup {f}]

-----------------------------------------------------------------------------
(* ingest *)

\* _fetch_metadata: 401 raises, and every other refusal is an empty dict.
FetchMetadata(c) ==
  /\ At(c, "description")
  /\ \E status \in Answers(IsHosted(c)) :
       \/ GoOn(c, "readme_content", With(c, "description", status),
               {}, status)
       \/ /\ status = 401
          /\ errors' = errors + 1 /\ Raise(c) /\ UNCHANGED <<head, row>>

FetchReadme(c) ==
  /\ At(c, "readme_content")
  /\ \E status \in Answers(IsHosted(c)) :
       GoOn(c, "structure", With(c, "readme_content", status),
            {}, status)

\* The slice [:n] of a list.
FirstOf(list, n) == {i \in list : Cardinality({k \in list : k.at < i.at}) < n}

\* The items of a type that are not too deep.
Shallow(tree, type) == {i \in tree : i.depth < MaxDepth /\ i.type = type}

FetchStructure(c) ==
  /\ At(c, "structure")
  /\ \E status \in Answers(IsHosted(c)) :
     LET e    == With(c, "structure", status)
         tree == IF status = 200 THEN Tree[head] ELSE {}
     IN GoOn(c, "languages",
             [e EXCEPT !.files = FirstOf(Shallow(tree, "blob"), MaxFiles),
                       !.dirs  = FirstOf(Shallow(tree, "tree"), MaxDirs)],
             {}, status)

\* The first few files with a code extension.
SnippetFiles(e) == FirstOf({i \in e.files : i.code}, MaxSnippets)

FetchLanguages(c) ==
  /\ At(c, "languages")
  /\ \E status \in Answers(IsHosted(c)) :
     LET e == With(c, "languages", status)
     IN GoOn(c, "code_snippets", e, SnippetFiles(e), status)

\* The next file of _fetch_code_snippets: a refusal skips it.
FetchCodeSnippet(c) ==
  /\ At(c, "code_snippets")
  /\ \E item \in task[c].todo :
     LET e     == task[c].entity
         there == item.path \in {i.path : i \in Tree[head]}
     IN
     /\ \A i \in task[c].todo : item.at <= i.at
     /\ \E status \in Answers(IsHosted(c) /\ there) :
          GoOn(c, "code_snippets",
               IF status = 200
               THEN [e EXCEPT !.snippets =
                       @ \cup {[path |-> item.path, version |-> head,
                                by |-> AttemptOf(c)]}]
               ELSE [e EXCEPT !.refused = @ \cup {item.path}],
               task[c].todo \ {item}, status)

Crawled(c) ==
  /\ At(c, "code_snippets") /\ task[c].todo = {}
  /\ GoOn(c, "lookup", task[c].entity, {}, 200)

-----------------------------------------------------------------------------
(* RepositoryRepo.upsert, and the commit of the task *)

Lookup(c) ==
  /\ At(c, "lookup")
  /\ Set(c, [task[c] EXCEPT !.pc = "write", !.found = row[task[c].url] # None])
  /\ UNCHANGED <<head, row, errors>>

\* PostgreSQL: the lock of a row, or of a key that is being inserted.
RowFree(c) ==
  \A d \in Crawl : ~(At(d, "commit") /\ task[d].url = task[c].url)

Write(c) ==
  /\ At(c, "write") /\ RowFree(c)
  /\ IF task[c].found \/ row[task[c].url] = None
     THEN Set(c, [task[c] EXCEPT !.pc = "commit"])
     ELSE Raise(c)      \* uq_tenant_repo
  /\ UNCHANGED <<head, row, errors>>

\* Mutant: the UPDATE does not set code_snippets.
WrittenWithoutSnippets(c) ==
  IF task[c].found
  THEN [task[c].entity EXCEPT !.snippets = row[task[c].url].snippets]
  ELSE task[c].entity

\* Mutant: the UPDATE does not set description.
WrittenWithoutDescription(c) ==
  IF task[c].found
  THEN [task[c].entity EXCEPT
          !.fields["description"] = row[task[c].url].fields["description"],
          !.by["description"] = row[task[c].url].by["description"]]
  ELSE task[c].entity

\* Both the INSERT and the UPDATE set every field.
Written(c) == task[c].entity

Commit(c) ==
  /\ At(c, "commit")
  /\ row' = [row EXCEPT ![task[c].url] = Written(c)]
  /\ Set(c, [NewTask EXCEPT !.pc = "completed", !.retries = task[c].retries])
  /\ UNCHANGED <<head, errors>>

-----------------------------------------------------------------------------

Step(c) ==
  \/ FetchMetadata(c) \/ FetchReadme(c) \/ FetchStructure(c)
  \/ FetchLanguages(c) \/ FetchCodeSnippet(c) \/ Crawled(c)
  \/ Lookup(c) \/ Write(c) \/ Commit(c)

IngestionNext ==
  \/ Push
  \/ \E c \in Crawl :
       Begin(c) \/ Retry(c) \/ RateLimited(c) \/ Fails(c) \/ Step(c)

IngestionSpec == IngestionInit /\ [][IngestionNext]_ingestionVars

-----------------------------------------------------------------------------
(* Properties *)

\* What git clone makes of a name: ".git" at its end is not part of it.
Named(path) ==
  LET name == Strip(path)[2]
  IN <<Strip(path)[1], IF name # <<>> /\ name[Len(name)] = ".git"
                       THEN SubSeq(name, 1, Len(name) - 1) ELSE name>>

\* parse_owner_repo finds the repository a URL names, whatever follows in the
\* path; it misses exactly those with ".git" elsewhere in their names, and then
\* the row holds nothing, or another repository.
RowsAreOfTheirUrls ==
  \A u \in Url : row[u] # None =>
    LET name == Named(u)[2]
    IN row[u].of = Named(u) <=> \A i \in DOMAIN name : name[i] # ".git"

\* A rate limit is never taken for an answer: a field of a row, or a file of
\* its tree that should have a snippet, is missing only if GitHub refused it.
Missing(e, f) == e.fields[f] = None /\ f \notin e.refused

Skipped(e, item) ==
  item.path \notin {s.path : s \in e.snippets} \cup e.refused

EmptyFieldsWereRefused ==
  \A u \in Url : row[u] # None =>
    /\ \A f \in Field : ~Missing(row[u], f)
    /\ \A item \in SnippetFiles(row[u]) : ~Skipped(row[u], item)

\* All fields and snippets of a row are answers to one attempt of one task, which
\* has asked for them in the order of its stages, although tasks for one URL
\* overwrite each other's rows and an attempt may follow one that got half way.
Stage == [waiting |-> 0, description |-> 1, readme_content |-> 2,
          structure |-> 3, languages |-> 4, code_snippets |-> 5, lookup |-> 6,
          write |-> 7, commit |-> 8, failed |-> 9, completed |-> 9]

InOrder(e) ==
  \A f, g \in Field :
    Stage[f] < Stage[g] /\ None \notin {e.fields[f], e.fields[g]} =>
      e.fields[f] <= e.fields[g]

AllBy(e, a) ==
  (\A f \in Field : e.by[f] = a) /\ (\A s \in e.snippets : s.by = a)

RowsAreOfOneCrawl ==
  \A u \in Url : row[u] # None =>
    InOrder(row[u]) /\ \E a \in Attempt : AllBy(row[u], a)

\* A snippet is of a file in the row's own tree, as that file was when the
\* tree was listed or later.
OfItsTree(e, s) ==
  /\ s.path \in {i.path : i \in e.files}
  /\ s.path \in {i.path : i \in Tree[s.version]}
  /\ e.fields["structure"] <= s.version

SnippetsAreOfTheRowsTree ==
  \A u \in Url : row[u] # None =>
    \A s \in row[u].snippets : OfItsTree(row[u], s)

\* However often GitHub answers 429, a task ends: every step of a task brings
\* it nearer to its end, by a retry used up, a stage done, a file read or an
\* attempt of a request used up.
Nearer(t, s) ==
  \/ t.retries > s.retries
  \/ /\ t.retries = s.retries
     /\ \/ Stage[t.pc] > Stage[s.pc]
        \/ /\ t.pc = s.pc
           /\ \/ Cardinality(t.todo) < Cardinality(s.todo)
              \/ t.todo = s.todo /\ t.attempt > s.attempt

TasksComeToAnEnd ==
  [][\A c \in Crawl : task'[c] # task[c] => Nearer(task'[c], task[c])]_ingestionVars

-----------------------------------------------------------------------------
(* The inductive invariant behind the properties of the rows *)

\* Between its first request and its commit.
Crawling == {"description", "readme_content", "structure", "languages",
             "code_snippets", "lookup", "write", "commit"}

\* The fields that attempt a has asked for before stage pc: refused if they are
\* empty, in order, and none of them newer than the repository is now.
FieldsSoFar(e, pc, now, a) ==
  /\ \A f \in Field : e.by[f] = IF Stage[f] < Stage[pc] THEN a ELSE None
  /\ \A f \in Field : IF Stage[f] < Stage[pc] THEN ~Missing(e, f)
                                            ELSE e.fields[f] = None
  /\ \A f \in Field : e.fields[f] # None => e.fields[f] <= now
  /\ InOrder(e)

\* Its files and snippets, and the files that it will still ask for.
SnippetsSoFar(e, pc, todo, a) ==
  /\ e.files # {} => e.fields["structure"] # None
  /\ todo \subseteq e.files
  /\ Stage[pc] < Stage["code_snippets"] => todo = {} /\ e.snippets = {}
  /\ Stage[pc] > Stage["code_snippets"] => todo = {}
  /\ \A s \in e.snippets : OfItsTree(e, s) /\ s.by = a
  /\ Stage[pc] >= Stage["code_snippets"] =>
       \A item \in SnippetFiles(e) \ todo : ~Skipped(e, item)

\* What a task knows of its crawl; between two crawls, nothing.
Knows(c, t, now) ==
  IF t.pc \in Crawling
  THEN /\ CanParse(t.url) /\ t.entity.of = parse_owner_repo(t.url)
       /\ FieldsSoFar(t.entity, t.pc, now, <<c, t.retries>>)
       /\ SnippetsSoFar(t.entity, t.pc, t.todo, <<c, t.retries>>)
  ELSE t.entity = EmptyEntity /\ t.todo = {}

IngestionInv ==
  /\ IngestionTypeOK
  /\ \A c \in Crawl : Knows(c, task[c], head)
  /\ \A u \in Url : row[u] # None => CanParse(u) /\ row[u].of = parse_owner_repo(u)
  /\ EmptyFieldsWereRefused
  /\ RowsAreOfOneCrawl
  /\ SnippetsAreOfTheRowsTree
=============================================================================
