-------------------------------- MODULE Chat --------------------------------
(***************************************************************************)
(* POST /chat: ChatService.handle_message, MemoryService, the conversation *)
(* graph and the rows of `sessions`, `messages`, `session_summaries` and,  *)
(* as far as a turn inserts them, `tool_confirmations`.                    *)
(*                                                                         *)
(* A turn is one transaction at READ COMMITTED that stays open while the   *)
(* model answers; turns of one session interleave at every await.  A       *)
(* statement sees what others have committed and what its own transaction  *)
(* wrote.  A message is its tenant and its created_at (the clock never     *)
(* gives the same time twice) and the confirmation its metadata names;     *)
(* what it says is left out.  A turn inserts at most one confirmation, so  *)
(* the time of the turn's first message stands for its id.  A summary is   *)
(* the set of the messages it was made of.  What becomes of a confirmation *)
(* is ConfirmationApi's.                                                   *)
(***************************************************************************)
EXTENDS Naturals, FiniteSets

CONSTANTS
  Handler,           \* the turns that can be open at once
  Session,           \* session ids, fresh ones and those a client names
  Tenant,
  WindowSize,        \* settings.memory_window_size
  SummaryThreshold,  \* settings.summary_threshold
  SummaryLimit,      \* limit=100 of _trigger_summarisation
  MaxTurns,          \* bound: turns started
  MaxAsks,           \* bound: answers of the model that ask for a tool
  None

ASSUME ChatAssumption ==
  /\ {WindowSize, SummaryThreshold, SummaryLimit, MaxTurns} \subseteq Nat \ {0}
  /\ MaxAsks \in Nat
  /\ IsFiniteSet(Handler) /\ Handler # {}
  /\ None \notin Tenant \cup Session

VARIABLES
  owner,      \* [Session -> the tenant of its committed row, or None]
  messages,   \* [Session -> its committed messages]
  summaries,  \* [Session -> its committed summaries]
  confirmations,  \* [Session -> its committed confirmations]
  turn,       \* [Handler -> the turn that is open there]
  clock,      \* the last created_at
  turns,      \* turns started
  asks        \* answers of the model that asked for a tool

chatVars == <<owner, messages, summaries, confirmations, turn, clock, turns, asks>>

-----------------------------------------------------------------------------

Message == [at : Nat, tenant : Tenant,
            conf : Nat]             \* metadata's confirmation_id, or 0

Summary == [at : Nat, tenant : Tenant, given : SUBSET Nat,
            counted : SUBSET Nat,   \* message_count_at_summary is its size
            after : Nat]            \* the summary that was the latest, or 0

IdleTurn == [pc |-> "idle", tenant |-> None, session |-> None,
             inserted |-> FALSE, user |-> 0, reply |-> 0, conf |-> 0, heard |-> {},
             count |-> 0, after |-> 0, given |-> {}, counted |-> {}, summary |-> {}]

TurnState ==
  [pc : {"idle", "insert", "user", "context", "window", "graph", "confirm",
         "reply", "count", "check", "summarise", "llm", "save", "commit"},
   tenant : Tenant \cup {None}, session : Session \cup {None},
   inserted : BOOLEAN,              \* the row of the session is this turn's
   user : Nat, reply : Nat,         \* created_at of its two messages, or 0
   conf : Nat,                      \* the confirmation it has inserted, or 0
   heard : SUBSET Summary,          \* the summary of its prompt: one or none
   count : Nat, after : Nat, given : SUBSET Nat, counted : SUBSET Nat,
   summary : SUBSET Summary]        \* what it has inserted: one or none

ChatTypeOK ==
  /\ owner \in [Session -> Tenant \cup {None}]
  /\ messages \in [Session -> SUBSET Message]
  /\ \A s \in Session : IsFiniteSet(messages[s])
  /\ summaries \in [Session -> SUBSET Summary]
  /\ confirmations \in [Session -> SUBSET Nat]
  /\ turn \in [Handler -> TurnState]
  /\ \A h \in Handler : turn[h].pc # "idle" =>
       turn[h].session # None /\ turn[h].tenant # None
  /\ clock \in Nat /\ turns \in 0 .. MaxTurns /\ asks \in 0 .. MaxAsks

ChatInit ==
  /\ owner = [s \in Session |-> None]
  /\ messages = [s \in Session |-> {}]
  /\ summaries = [s \in Session |-> {}]
  /\ confirmations = [s \in Session |-> {}]
  /\ turn = [h \in Handler |-> IdleTurn]
  /\ clock = 0 /\ turns = 0 /\ asks = 0

Ats(S) == {m.at : m \in S}

\* What a SELECT of the turn on `messages` and on `session_summaries` returns.
Own(h) ==
  {m \in {[at |-> turn[h].user, tenant |-> turn[h].tenant, conf |-> 0],
          [at |-> turn[h].reply, tenant |-> turn[h].tenant,
           conf |-> turn[h].conf]} : m.at # 0}

Visible(h) ==
  Own(h) \cup {m \in messages[turn[h].session] : m.tenant = turn[h].tenant}

\* ORDER BY created_at DESC LIMIT n.
Recent(S, n) == {m \in S : Cardinality({k \in S : k.at > m.at}) < n}

\* get_latest: the last summary, as a set of one or none.
Latest(h) ==
  Recent({m \in summaries[turn[h].session] : m.tenant = turn[h].tenant}, 1)

\* The number and the time that should_summarise takes from get_latest.
CountOf(S) == Cardinality(UNION {m.counted : m \in S})
AtOf(S)    == IF S = {} THEN 0 ELSE CHOOSE k \in Ats(S) : TRUE

At(h, pc) == turn[h].pc = pc
Set(h, t) == turn' = [turn EXCEPT ![h] = t]

Counts == <<clock, turns, asks>>
Rows == <<owner, messages, summaries, confirmations>>

-----------------------------------------------------------------------------
(* 1. Ensure session exists *)

\* session_id is null: the id is a new uuid4.
StartSession(h, t, s) ==
  /\ At(h, "idle") /\ turns < MaxTurns
  /\ owner[s] = None /\ \A g \in Handler : turn[g].session # s
  /\ Set(h, [IdleTurn EXCEPT !.pc = "insert", !.tenant = t, !.session = s])
  /\ turns' = turns + 1
  /\ UNCHANGED Rows /\ UNCHANGED <<clock, asks>>

\* session_id is given: the SELECT by tenant and id finds the row or not.
NameSession(h, t, s) ==
  /\ At(h, "idle") /\ turns < MaxTurns
  /\ Set(h, [IdleTurn EXCEPT !.tenant = t, !.session = s,
               !.pc = IF owner[s] = t THEN "user" ELSE "insert"])
  /\ turns' = turns + 1
  /\ UNCHANGED Rows /\ UNCHANGED <<clock, asks>>

\* PostgreSQL: an INSERT waits for an open transaction that inserted its key.
KeyFree(h) ==
  \A g \in Handler : ~(turn[g].inserted /\ turn[g].session = turn[h].session)

\* Mutant: INSERT ... ON CONFLICT (id) DO UPDATE.
InsertOrTakeOver(h) ==
  /\ At(h, "insert") /\ KeyFree(h)
  /\ Set(h, [turn[h] EXCEPT !.inserted = TRUE, !.pc = "user"])
  /\ UNCHANGED Rows /\ UNCHANGED Counts

InsertSession(h) ==
  /\ At(h, "insert") /\ KeyFree(h)
  /\ owner[turn[h].session] = None
  /\ Set(h, [turn[h] EXCEPT !.inserted = TRUE, !.pc = "user"])
  /\ UNCHANGED Rows /\ UNCHANGED Counts

\* The primary key is taken, by a turn that was faster or by another tenant:
\* IntegrityError, 500.
SessionExists(h) ==
  /\ At(h, "insert") /\ KeyFree(h)
  /\ owner[turn[h].session] # None
  /\ Set(h, IdleTurn)
  /\ UNCHANGED Rows /\ UNCHANGED Counts

-----------------------------------------------------------------------------
(* 2. to 6. The two messages and the model's answer *)

SaveUserMessage(h) ==
  /\ At(h, "user")
  /\ clock' = clock + 1
  /\ Set(h, [turn[h] EXCEPT !.user = clock', !.pc = "context"])
  /\ UNCHANGED Rows /\ UNCHANGED <<turns, asks>>

\* build_context: what the prompt holds of the workspace leaves no trace in the
\* rows; then the latest summary is read, ...
ReadSummary(h) ==
  /\ At(h, "context")
  /\ Set(h, [turn[h] EXCEPT !.heard = Latest(h), !.pc = "window"])
  /\ UNCHANGED Rows /\ UNCHANGED Counts

\* ... and after it, by a SELECT of its own, the window: Visible's most recent.
ReadWindow(h) ==
  /\ At(h, "window")
  /\ Set(h, [turn[h] EXCEPT !.heard = {}, !.pc = "graph"])
  /\ UNCHANGED Rows /\ UNCHANGED Counts

\* conversation_node and tool_decision_node: the first tag of the model's
\* answer is not JSON that names a ToolName, or there is none ...
Converse(h) ==
  /\ At(h, "graph")
  /\ Set(h, [turn[h] EXCEPT !.pc = "reply"])
  /\ UNCHANGED Rows /\ UNCHANGED Counts

\* ... or it is.
ConverseAndAsk(h) ==
  /\ At(h, "graph") /\ asks < MaxAsks
  /\ Set(h, [turn[h] EXCEPT !.pc = "confirm"])
  /\ asks' = asks + 1
  /\ UNCHANGED Rows /\ UNCHANGED <<clock, turns>>

\* Mutant: the confirmation has a transaction of its own.
ConfirmationPendingCommits(h) ==
  /\ At(h, "confirm")
  /\ Set(h, [turn[h] EXCEPT !.conf = turn[h].user, !.pc = "reply"])
  /\ confirmations' = [confirmations EXCEPT ![turn[h].session] =
                         @ \cup {turn[h].user}]
  /\ UNCHANGED <<owner, messages, summaries, clock, turns, asks>>

\* confirmation_pending_node.
ConfirmationPending(h) ==
  /\ At(h, "confirm")
  /\ Set(h, [turn[h] EXCEPT !.conf = turn[h].user, !.pc = "reply"])
  /\ UNCHANGED Rows /\ UNCHANGED Counts

\* Mutant: one `now` for both messages of the turn.
SaveReplyAtOnce(h) ==
  /\ At(h, "reply")
  /\ Set(h, [turn[h] EXCEPT !.reply = turn[h].user, !.pc = "count"])
  /\ UNCHANGED Rows /\ UNCHANGED Counts

\* The graph has run and the reply is inserted.
SaveReply(h) ==
  /\ At(h, "reply")
  /\ clock' = clock + 1
  /\ Set(h, [turn[h] EXCEPT !.reply = clock', !.pc = "count"])
  /\ UNCHANGED Rows /\ UNCHANGED <<turns, asks>>

-----------------------------------------------------------------------------
(* 7. Summarise if needed *)

\* should_summarise: count, ...
CountMessages(h) ==
  /\ At(h, "count")
  /\ Set(h, [turn[h] EXCEPT !.count = Cardinality(Visible(h)), !.pc = "check"])
  /\ UNCHANGED Rows /\ UNCHANGED Counts

\* Mutant: `>` for `>=`.
SummaryDueLate(h) == turn[h].count > CountOf(Latest(h)) + SummaryThreshold

\* ... and then the latest summary.
SummaryDue(h) == turn[h].count >= CountOf(Latest(h)) + SummaryThreshold

Check(h) ==
  /\ At(h, "check")
  /\ Set(h, [turn[h] EXCEPT !.count = 0,
               !.pc = IF SummaryDue(h) THEN "summarise" ELSE "commit",
               !.after = IF SummaryDue(h) THEN AtOf(Latest(h)) ELSE 0])
  /\ UNCHANGED Rows /\ UNCHANGED Counts

\* Mutant: get_recent without its limit, which is the window by default.
ReadWindowForSummary(h) ==
  /\ At(h, "summarise")
  /\ Set(h, [turn[h] EXCEPT !.pc = "llm",
               !.given = Ats(Recent(Visible(h), WindowSize))])
  /\ UNCHANGED Rows /\ UNCHANGED Counts

ReadForSummary(h) ==
  /\ At(h, "summarise")
  /\ Set(h, [turn[h] EXCEPT !.pc = "llm",
               !.given = Ats(Recent(Visible(h), SummaryLimit))])
  /\ UNCHANGED Rows /\ UNCHANGED Counts

\* The model has answered; only now are the messages counted for the row, ...
CountForSummary(h) ==
  /\ At(h, "llm")
  /\ Set(h, [turn[h] EXCEPT !.counted = Ats(Visible(h)), !.pc = "save"])
  /\ UNCHANGED Rows /\ UNCHANGED Counts

\* ... and when the count is there, the row gets its created_at.
SaveSummary(h) ==
  /\ At(h, "save")
  /\ clock' = clock + 1
  /\ Set(h, [turn[h] EXCEPT !.pc = "commit", !.given = {}, !.counted = {},
               !.after = 0,
               !.summary = {[at |-> clock', tenant |-> turn[h].tenant,
                             given |-> turn[h].given,
                             counted |-> turn[h].counted,
                             after |-> turn[h].after]}])
  /\ UNCHANGED Rows /\ UNCHANGED <<turns, asks>>

-----------------------------------------------------------------------------
(* The end of the transaction *)

Commit(h) ==
  /\ At(h, "commit")
  /\ owner' = IF turn[h].inserted
              THEN [owner EXCEPT ![turn[h].session] = turn[h].tenant] ELSE owner
  /\ messages' = [messages EXCEPT ![turn[h].session] = @ \cup Own(h)]
  /\ summaries' = [summaries EXCEPT ![turn[h].session] = @ \cup turn[h].summary]
  /\ confirmations' = [confirmations EXCEPT ![turn[h].session] =
                         @ \cup ({turn[h].conf} \ {0})]
  /\ Set(h, IdleTurn)
  /\ UNCHANGED Counts

\* The model, the database, the commit or the process fails: nothing is kept.
Fail(h) ==
  /\ ~At(h, "idle")
  /\ Set(h, IdleTurn)
  /\ UNCHANGED Rows /\ UNCHANGED Counts

Begin(h) == \E t \in Tenant, s \in Session :
              StartSession(h, t, s) \/ NameSession(h, t, s)

Serve(h) ==
  \/ InsertSession(h)
  \/ SessionExists(h)
  \/ SaveUserMessage(h)
  \/ ReadSummary(h)
  \/ ReadWindow(h)
  \/ Converse(h)
  \/ ConverseAndAsk(h)
  \/ ConfirmationPending(h)
  \/ SaveReply(h)
  \/ CountMessages(h)
  \/ Check(h)
  \/ ReadForSummary(h)
  \/ CountForSummary(h)
  \/ SaveSummary(h)
  \/ Commit(h)

ChatNext == \E h \in Handler : Begin(h) \/ Serve(h) \/ Fail(h)

ChatSpec == ChatInit /\ [][ChatNext]_chatVars

-----------------------------------------------------------------------------
(* Properties *)

\* Every message and summary of a session is of the tenant that owns the
\* session's row, also when two tenants name one new id at the same time.
MessagesAreTheOwners ==
  \A s \in Session :
    \A m \in messages[s] \cup summaries[s] : m.tenant = owner[s]

Counted(k) == Cardinality(k.counted)

\* Summaries keep up: turns that do not see each other's messages can put off
\* a summary by at most the two messages of each other open turn.  The one that
\* keeps up need not be the one get_latest returns: a summary may get its
\* created_at after one that has counted more.
SummariesKeepUp ==
  \A s \in Session : \E n \in {0} \cup {Counted(k) : k \in summaries[s]} :
    Cardinality(messages[s]) < n + SummaryThreshold + 2 * (Cardinality(Handler) - 1)

\* What a summary has counted, and may not have been given because it was
\* committed while the model wrote the summary, the next one is given: between
\* two summaries only those messages fall that the limit of the read leaves out.
GivenOrLeftOut(a, given, S) ==
  \A x \in a.counted :
    x \in given \/ Cardinality({m \in S : m.at > x}) >= SummaryLimit

NoMessageFallsBetween ==
  \A s \in Session : \A a, b \in summaries[s] :
    b.after = a.at => GivenOrLeftOut(a, b.given, messages[s])

\* A reply that offers a confirmation and the confirmation are committed
\* together: whatever fails after the graph has inserted it, none is left that
\* no reply offers, and no reply offers one that is not there.
RepliesAndConfirmationsAgree ==
  \A s \in Session :
    confirmations[s] = {m.conf : m \in messages[s]} \ {0}

\* The messages that the prompt of a turn that reads its window now will miss,
\* among the SummaryLimit most recent ones.
Missed(h) ==
  {m \in Recent(Visible(h), SummaryLimit) \ Recent(Visible(h), WindowSize) :
     \A k \in turn[h].heard : m.at \notin k.given}

\* No summary has counted more messages than the one the prompt has.
HeardTheMost(h) ==
  \A k \in summaries[turn[h].session] : Counted(k) <= CountOf(turn[h].heard)

\* Nothing was committed between the read of the summary's messages and their
\* count: it has counted no others than it was given, but for the limit.
GivenWhatItCounted(k) ==
  \A x \in k.counted \ k.given :
    Cardinality({y \in k.counted : y > x}) >= SummaryLimit

\* However long a conversation is, a prompt misses few of its recent messages, a
\* threshold of them less the window, and two of each other open turn: unless
\* another turn's summary came between the two reads of build_context or got a
\* later created_at than it should, or messages came while the model summarised.
PromptsMissLittle ==
  \A h \in Handler :
    turn[h].pc = "window" /\ HeardTheMost(h)
      /\ (\A k \in turn[h].heard : GivenWhatItCounted(k)) =>
        Cardinality(Missed(h)) <=
          (IF WindowSize <= SummaryThreshold THEN SummaryThreshold - WindowSize ELSE 0)
            + 2 * (Cardinality(Handler) - 1)

-----------------------------------------------------------------------------
(* The inductive invariant: first, what a turn holds and commits *)

\* A turn that is past the insert holds its session: the row is its tenant's,
\* or not committed yet and inserted by this turn alone.
TurnsHoldTheirSession ==
  \A h \in Handler :
    IF turn[h].pc \in {"idle", "insert"} THEN ~turn[h].inserted
    ELSE IF turn[h].inserted
         THEN /\ owner[turn[h].session] = None
              /\ \A g \in Handler :
                   turn[g].inserted /\ turn[g].session = turn[h].session => g = h
         ELSE owner[turn[h].session] = turn[h].tenant

\* What a turn is about to commit: its reply, and a summary of its own.
TurnsCommitTheirOwn ==
  \A h \in Handler :
    /\ turn[h].pc \in {"count", "check", "summarise", "llm", "save", "commit"} =>
         turn[h].reply # 0
    /\ \A m \in turn[h].summary : m.tenant = turn[h].tenant

TurnsInv ==
  /\ ChatTypeOK
  /\ TurnsHoldTheirSession
  /\ TurnsCommitTheirOwn
  /\ MessagesAreTheOwners
  /\ RepliesAndConfirmationsAgree

-----------------------------------------------------------------------------
(* ... and then, what summaries have counted and open turns may still add *)

Times(h) == {turn[h].user, turn[h].reply} \ {0}

\* The clock never gives one time to two messages, and a turn gives its reply a
\* later one than the user's message.
TimesAreNew ==
  /\ \A h \in Handler :
       /\ turn[h].pc \in {"idle", "insert", "user"} => turn[h].user = 0
       /\ turn[h].pc \in {"context", "window", "graph", "confirm", "reply"} =>
            turn[h].user # 0 /\ turn[h].reply = 0
       /\ turn[h].reply # 0 => 0 < turn[h].user /\ turn[h].user < turn[h].reply
       /\ Times(h) \subseteq 1 .. clock
       /\ \A g \in Handler \ {h} : Times(g) \cap Times(h) = {}
       /\ \A s \in Session : Times(h) \cap Ats(messages[s]) = {}
  /\ \A s \in Session :
       /\ Ats(messages[s]) \subseteq 1 .. clock
       /\ \A a, b \in messages[s] : a.at = b.at => a = b

\* What the summary that turn h makes has counted, if it has counted yet.
CountedBy(h) ==
  {k.counted : k \in turn[h].summary}
    \cup (IF turn[h].pc = "save" THEN {turn[h].counted} ELSE {})

\* A summary has counted messages of its session, and those of the turn that
\* makes it.
CountsAreOfMessages ==
  /\ \A s \in Session : \A k \in summaries[s] : k.counted \subseteq Ats(messages[s])
  /\ \A h \in Handler :
       /\ turn[h].summary # {} => turn[h].pc = "commit"
       /\ \A a, b \in turn[h].summary : a = b
       /\ \A C \in CountedBy(h) :
            /\ Times(h) \subseteq C
            /\ C \subseteq Ats(messages[turn[h].session]) \cup Times(h)

\* The summaries of a session, those that are not committed yet among them.
Made(s) ==
  summaries[s]
    \cup UNION {turn[h].summary : h \in {g \in Handler : turn[g].session = s}}

\* get_latest finds one summary, for no two have one time; and where there are
\* summaries, one of them has counted the most.
OneIsLatestAndOneCountedMost ==
  \A s \in Session :
    /\ IsFiniteSet(Made(s))
    /\ \A a, b \in Made(s) : a.at \in 1 .. clock /\ (a.at = b.at => a = b)
    /\ summaries[s] # {} =>
         \E k \in summaries[s] : \A a \in summaries[s] : Counted(a) <= Counted(k)

\* What was counted for summaries of a session, committed or not.
CountsMade(s) ==
  {k.counted : k \in summaries[s]}
    \cup UNION {CountedBy(h) : h \in {g \in Handler : turn[g].session = s}}

\* The turns of a session that may still commit their messages without a
\* summary that has counted more than n.
MayAdd(s, n) ==
  {h \in Handler :
     /\ turn[h].session = s
     /\ \/ turn[h].pc = "check" /\ turn[h].count < n + SummaryThreshold
        \/ /\ turn[h].pc \in {"save", "commit"}
           /\ \A C \in CountedBy(h) : Cardinality(C) <= n}

\* What such turns add is within what SummariesKeepUp allows.
BacklogIsBounded ==
  \A s \in Session : \A n \in {0} \cup {Cardinality(C) : C \in CountsMade(s)} :
    (\A k \in summaries[s] : Counted(k) <= n) =>
      Cardinality(messages[s]) + 2 * Cardinality(MayAdd(s, n)) <
        n + SummaryThreshold + 2 * (Cardinality(Handler) - 1)

\* The messages that a count has passed over: older than some it has counted, but
\* their turns were open; and the turns that still are.
PassedOver(s, C) ==
  {m \in messages[s] : m.at \notin C /\ \E x \in C : m.at < x}

StillOpen(s, C) ==
  {h \in Handler : /\ turn[h].session = s /\ turn[h].user \notin C \cup {0}
                   /\ \E x \in C : turn[h].user < x}

FewArePassedOver ==
  \A s \in Session : \A C \in CountsMade(s) :
    Cardinality(PassedOver(s, C)) + 2 * Cardinality(StillOpen(s, C)) <=
      2 * (Cardinality(Handler) - 1)

SummariesInv ==
  /\ TimesAreNew
  /\ CountsAreOfMessages
  /\ OneIsLatestAndOneCountedMost
  /\ BacklogIsBounded
  /\ FewArePassedOver

CountsInv == TurnsInv /\ SummariesInv

-----------------------------------------------------------------------------
(* ... and last, what a summary is given after the one before it *)

IsSummaryOf(s, at) == at = 0 \/ \E a \in summaries[s] : a.at = at

\* What turn h sees fits a summary made after one and given these messages.
Fits(h, after, given) ==
  \A a \in summaries[turn[h].session] :
    after = a.at => GivenOrLeftOut(a, given, Visible(h))

\* A turn that has read what it will summarise, and one that has inserted the
\* summary, follow the summary that was the latest at the check.
Follows(h) ==
  /\ turn[h].pc # "idle" => IsSummaryOf(turn[h].session, turn[h].after)
  /\ turn[h].pc \in {"llm", "save"} => Fits(h, turn[h].after, turn[h].given)
  /\ \A b \in turn[h].summary :
       IsSummaryOf(turn[h].session, b.after) /\ Fits(h, b.after, b.given)

SummariesFollow ==
  /\ \A h \in Handler : Follows(h)
  /\ \A s \in Session : \A b \in summaries[s] : IsSummaryOf(s, b.after)
  /\ NoMessageFallsBetween

ChatInv == CountsInv /\ SummariesFollow
=============================================================================
