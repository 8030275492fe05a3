---------------------------- MODULE ChatHistory ----------------------------
(***************************************************************************)
(* One agent's conversation memory under concurrent calls of Agent.Chat.   *)
(*                                                                         *)
(* The gateway's HTTP handlers, the Telegram goroutine and the heartbeat   *)
(* all call Chat on the same Agent, with no lock around it: they share the *)
(* memory table and nothing else.  Each element of Chats is one call.  A   *)
(* step is one access to the store or one answer of the model, which is    *)
(* where goroutines interleave.  The model's tool rounds are one step here *)
(* (module AgentLoop opens them up), and so is whether a spending window   *)
(* pauses the call (module CostWindows).                                   *)
(***************************************************************************)
EXTENDS ContextWindow, FiniteSets

CONSTANTS
  Chats,        \* the calls of Chat
  HistoryLimit, \* rows GetMessages returns: 200
  MessageLen,   \* length of a user or assistant text
  SummaryLen,   \* length of a summary
  SysTokens,    \* estimated cost of the system prompt
  NoChat        \* the chat of a row no turn wrote: a summary

ASSUME HistoryAssumption ==
  /\ NoChat \notin Chats
  /\ HistoryLimit \in Nat \ {0}
  /\ {MaxContext, MessageLen, SummaryLen, SysTokens, ToolTokens} \subseteq Nat

VARIABLES
  memory,  \* the agent's rows of the memory table, by id
  pc,      \* where each call is
  active,  \* the history each call loaded, from its latest summary on
  context  \* the history each call sends to the model

vars == <<memory, pc, active, context>>

(***************************************************************************)
(* A row carries the ids of the turn messages it speaks for: its own id,   *)
(* or, for a summary, those of every row the summarizer was shown.         *)
(***************************************************************************)
TurnRow(c, role) ==
  [role |-> role, source |-> "turn", chat |-> c, len |-> MessageLen,
   ids |-> {Len(memory) + 1}]

Told(rows) == UNION {rows[i].ids : i \in 1..Len(rows)}

Summary(rows) ==
  [role |-> "system", source |-> "summary", chat |-> NoChat,
   len |-> SummaryLen, ids |-> Told(rows)]

Stages  == {"idle", "compact", "insert", "call",
            "saveUser", "saveAssistant", "audit"}
Results == {"answered", "failed", "paused", "killed"}

Row == [role : {"user", "assistant", "system"}, source : {"turn", "summary"},
        chat : Chats \cup {NoChat}, len : Nat, ids : SUBSET (Nat \ {0})]

TypeOK ==
  /\ memory  \in Seq(Row)
  /\ pc      \in [Chats -> Stages \cup Results]
  /\ active  \in [Chats -> Seq(Row)]
  /\ context \in [Chats -> Seq(Row)]

Init ==
  /\ memory  = <<>>
  /\ pc      = [c \in Chats |-> "idle"]
  /\ active  = [c \in Chats |-> <<>>]
  /\ context = [c \in Chats |-> <<>>]

Goto(c, stage) == pc' = [pc EXCEPT ![c] = stage]

\* A call that returns keeps nothing.
Return(c, result) ==
  /\ Goto(c, result)
  /\ active'  = [active EXCEPT ![c] = <<>>]
  /\ context' = [context EXCEPT ![c] = <<>>]

\* Leave for the model with the given history.
Send(c, h) ==
  /\ Goto(c, "call")
  /\ context' = [context EXCEPT ![c] = h]

Trimmed(h) == TrimHistory(SysTokens, h)

-----------------------------------------------------------------------------
\* A spending window is exceeded: Chat returns before it reads anything.
RefusePaused(c) ==
  /\ pc[c] = "idle"
  /\ Return(c, "paused")
  /\ UNCHANGED memory

\* GetMessages: the newest HistoryLimit rows, in id order.
Loaded ==
  LET first == Len(memory) - HistoryLimit + 1
  IN  From(memory, IF first < 1 THEN 1 ELSE first)

\* Load the history; either it fits (trim and go) or it must be compacted.
LoadHistory(c) ==
  /\ pc[c] = "idle"
  /\ LET h == ActiveContext(Loaded)
     IN  /\ active' = [active EXCEPT ![c] = h]
         /\ IF Compacts(h)
            THEN Goto(c, "compact") /\ UNCHANGED context
            ELSE Send(c, Trimmed(h))
  /\ UNCHANGED memory

LoadFails(c) ==
  /\ pc[c] = "idle"
  /\ Return(c, "failed")
  /\ UNCHANGED memory

\* The summarizer answers ...
Summarize(c) ==
  /\ pc[c] = "compact"
  /\ Goto(c, "insert")
  /\ UNCHANGED <<memory, active, context>>

\* ... or does not, and the loaded history is trimmed instead.
SummarizeFails(c) ==
  /\ pc[c] = "compact"
  /\ Send(c, Trimmed(active[c]))
  /\ UNCHANGED <<memory, active>>

\* The call goes on with the summary and the recent part, stored or not.
Compacted(h) ==
  <<Summary(OldPart(h))>> \o RecentPart(h)

InsertSummary(c) ==
  /\ pc[c] = "insert"
  /\ memory' = Append(memory, Summary(OldPart(active[c])))
  /\ Send(c, Compacted(active[c]))
  /\ UNCHANGED active

InsertSummaryFails(c) ==
  /\ pc[c] = "insert"
  /\ Send(c, Compacted(active[c]))
  /\ UNCHANGED <<memory, active>>

-----------------------------------------------------------------------------
\* The tool rounds end with a text for the user.
FinalText(c) ==
  /\ pc[c] = "call"
  /\ Goto(c, "saveUser")
  /\ UNCHANGED <<memory, active, context>>

\* A request fails or is cancelled, or the rounds run out.
RoundsFail(c) ==
  /\ pc[c] = "call"
  /\ Return(c, "failed")
  /\ UNCHANGED memory

\* Mutant: the paused call saves what the model said so far.
RoundsPauseSaves(c) ==
  /\ pc[c] = "call"
  /\ memory' = Append(memory, TurnRow(c, "assistant"))
  /\ Return(c, "paused")

\* The response took a spending window over its limit.
RoundsPause(c) ==
  /\ pc[c] = "call"
  /\ Return(c, "paused")
  /\ UNCHANGED memory

SaveUser(c) ==
  /\ pc[c] = "saveUser"
  /\ memory' = Append(memory, TurnRow(c, "user"))
  /\ Goto(c, "saveAssistant")
  /\ UNCHANGED <<active, context>>

SaveAssistant(c) ==
  /\ pc[c] = "saveAssistant"
  /\ memory' = Append(memory, TurnRow(c, "assistant"))
  /\ Goto(c, "audit")
  /\ UNCHANGED <<active, context>>

\* Mutant: a failed insert is logged and the answer returned.
SaveFailsLogged(c) ==
  /\ pc[c] \in {"saveUser", "saveAssistant"}
  /\ Goto(c, "audit")
  /\ UNCHANGED <<memory, active, context>>

\* Either insert fails, for a storage error or a cancelled context.
SaveFails(c) ==
  /\ pc[c] \in {"saveUser", "saveAssistant"}
  /\ Return(c, "failed")
  /\ UNCHANGED memory

\* The audit entry is written or the failure logged; Chat returns the text.
LogAudit(c) ==
  /\ pc[c] = "audit"
  /\ Return(c, "answered")
  /\ UNCHANGED memory

\* The process dies under every call in flight; the rows stay.
Crash ==
  /\ \E c \in Chats : pc[c] \in Stages \ {"idle"}
  /\ pc'      = [c \in Chats |-> IF pc[c] \in Stages \ {"idle"}
                                 THEN "killed" ELSE pc[c]]
  /\ active'  = [c \in Chats |-> <<>>]
  /\ context' = [c \in Chats |-> <<>>]
  /\ UNCHANGED memory

Next ==
  \/ \E c \in Chats :
       \/ RefusePaused(c) \/ LoadHistory(c) \/ LoadFails(c)
       \/ Summarize(c) \/ SummarizeFails(c)
       \/ InsertSummary(c) \/ InsertSummaryFails(c)
       \/ FinalText(c) \/ RoundsFail(c) \/ RoundsPause(c)
       \/ SaveUser(c) \/ SaveAssistant(c) \/ SaveFails(c) \/ LogAudit(c)
  \/ Crash

Spec == Init /\ [][Next]_vars

-----------------------------------------------------------------------------
\* Rows of one call.
RowsOf(c) == {i \in 1..Len(memory) : memory[i].chat = c}

(***************************************************************************)
(* An answer the user got is in memory, after the message it answers, and  *)
(* nothing else of that call is: agent.go saves both before it returns.    *)
(***************************************************************************)
AnswerIsSaved ==
  \A c \in Chats : pc[c] \in {"audit", "answered"} =>
    \E i, j \in 1..Len(memory) :
      /\ i < j
      /\ RowsOf(c) = {i, j}
      /\ memory[i].role = "user"
      /\ memory[j].role = "assistant"

(***************************************************************************)
(* A call that failed, was refused, or is still talking to the model never *)
(* leaves an assistant message behind: what later calls read as said by    *)
(* the assistant was said.                                                 *)
(***************************************************************************)
NoUnsaidAnswer ==
  \A c \in Chats : pc[c] \notin {"audit", "answered", "killed"} =>
    \A i \in RowsOf(c) : memory[i].role # "assistant"

(***************************************************************************)
(* The history sent to the model tells every message at most once and in   *)
(* order: what a summary stands for precedes, and is not repeated by, the  *)
(* rows after it, whichever calls compacted or saved in between.           *)
(***************************************************************************)
Chronological(h) ==
  \A i, j \in 1..Len(h) :
    i < j => \A m \in h[i].ids, n \in h[j].ids : m < n

ContextChronological == \A c \in Chats : Chronological(context[c])

(***************************************************************************)
(* context.go:102 splits the history "into old (to summarize) and recent   *)
(* (to keep)".  Read over the calls that follow: a message between two     *)
(* that the model is told of, verbatim or summarized, is told too.         *)
(***************************************************************************)
ContextHasNoHole ==
  \A c \in Chats : pc[c] = "call" =>
    LET told == Told(context[c])
    IN  \A i, k \in told : \A j \in 1..Len(memory) :
          i < j /\ j < k /\ memory[j].source = "turn" => j \in told

-----------------------------------------------------------------------------
(***************************************************************************)
(* The inductive invariant.  Told: what a row stands for is itself or, for *)
(* a summary, older.  Loaded: what a call holds is in order and was in     *)
(* memory.  Saved: how far each call has come tells which rows it wrote.   *)
(***************************************************************************)
ToldOK ==
  \A i \in 1..Len(memory) :
    IF memory[i].source = "turn" THEN memory[i].ids = {i}
                                 ELSE memory[i].ids \subseteq 1..(i - 1)

LoadedOK ==
  \A c \in Chats :
    /\ Chronological(active[c])
    /\ \A k \in 1..Len(active[c]) : active[c][k].ids \subseteq 1..Len(memory)

SavedOK ==
  \A c \in Chats :
    /\ pc[c] \in {"idle", "compact", "insert", "call", "saveUser", "paused"}
         => RowsOf(c) = {}
    /\ pc[c] = "saveAssistant"
         => \E i \in 1..Len(memory) : RowsOf(c) = {i} /\ memory[i].role = "user"
    /\ pc[c] = "failed" => \A i \in RowsOf(c) : memory[i].role = "user"

IInv ==
  TypeOK /\ ToldOK /\ LoadedOK /\ SavedOK /\ AnswerIsSaved /\ ContextChronological
=============================================================================
