--------------------------- MODULE ContextWindow ---------------------------
(***************************************************************************)
(* Which part of a conversation is sent to the model: the token estimates  *)
(* and the selection of internal/agent/context.go, as pure operators.      *)
(*                                                                         *)
(* A message is a record with at least the fields source ("summary" marks  *)
(* a stored summary) and len (the length of its text).  A history is a     *)
(* sequence of messages, oldest first, as GetMessages returns it.          *)
(***************************************************************************)
EXTENDS Integers, Sequences

CONSTANTS
  MaxContext, \* the agent's max_context, in tokens
  ToolTokens  \* estimated cost of the tool definitions

\* Rough token count of a text of n characters: four characters a token.
EstimateTokens(n) == (n + 3) \div 4

\* What a message costs: its text and 10 tokens for role and formatting.
MessageTokens(m) == EstimateTokens(m.len) + 10

\* SuffixTokens(h)[i] is the cost of messages i, i+1, ..., Len(h).
SuffixTokens(h) ==
  LET sum[i \in 1..(Len(h) + 1)] ==
        IF i = Len(h) + 1 THEN 0 ELSE MessageTokens(h[i]) + sum[i + 1]
  IN  sum

TotalTokens(h) == SuffixTokens(h)[1]

Largest(S) == CHOOSE i \in S : \A j \in S : j <= i

\* Mutant: a message that meets the budget exactly is given up.
WalkBackStrict(h, budget) ==
  LET tooMuch == {i \in 1..Len(h) : SuffixTokens(h)[i] >= budget}
  IN  IF tooMuch = {} THEN 1 ELSE Largest(tooMuch) + 1

(***************************************************************************)
(* The newest-to-oldest walk that trimHistory and compactHistory share: it *)
(* stops at the first message that would exceed the budget and returns the *)
(* index of the oldest message kept (Len(h) + 1 when none fits).           *)
(***************************************************************************)
WalkBack(h, budget) ==
  LET tooMuch == {i \in 1..Len(h) : SuffixTokens(h)[i] > budget}
  IN  IF tooMuch = {} THEN 1 ELSE Largest(tooMuch) + 1

From(h, i) == SubSeq(h, i, Len(h))

\* contextBudget: max_context, 128000 tokens unless configured.
ContextBudget == IF MaxContext > 0 THEN MaxContext ELSE 128000

\* What trimHistory leaves for the history: 80% of the context, less the
\* system prompt and the tool definitions.
TrimBudget(sysTokens) ==
  (ContextBudget * 80) \div 100 - sysTokens - ToolTokens

TrimHistory(sysTokens, h) ==
  LET budget == TrimBudget(sysTokens)
  IN  IF budget <= 0 THEN <<>> ELSE From(h, WalkBack(h, budget))

\* Mutant: the history is not cut at its latest summary.
ActiveStartFirst(h) == 1

(***************************************************************************)
(* compactHistory.  ActiveContext is the history from the latest summary   *)
(* on; NeedsCompaction the 60% threshold; SplitIndex the first message of  *)
(* the 40% kept verbatim; OldPart what the summary is asked to replace.    *)
(***************************************************************************)
ActiveStart(h) ==
  LET summaries == {i \in 1..Len(h) : h[i].source = "summary"}
  IN  IF summaries = {} THEN 1 ELSE Largest(summaries)

ActiveContext(h) == From(h, ActiveStart(h))

NeedsCompaction(active) ==
  TotalTokens(active) > (ContextBudget * 60) \div 100

SplitIndex(active) == WalkBack(active, (ContextBudget * 40) \div 100)

OldPart(active) == SubSeq(active, 1, SplitIndex(active) - 1)

RecentPart(active) == From(active, SplitIndex(active))

\* The summarizer is called: over the threshold and something to summarize.
Compacts(active) == NeedsCompaction(active) /\ SplitIndex(active) > 1

\* What compactHistory returns for the loaded rows h, given the summary the
\* model would write: compacted, or trimmed.
CompactHistory(sysTokens, h, summary) ==
  LET active == ActiveContext(h)
  IN  IF Compacts(active)
      THEN <<summary>> \o RecentPart(active)
      ELSE TrimHistory(sysTokens, active)
=============================================================================
