-------------------------- MODULE MCContextWindow --------------------------
(***************************************************************************)
(* The selection operators of ContextWindow over every bounded history:    *)
(* the histories are grown message by message, so that a state is an       *)
(* input, and the system prompt's cost is chosen once.                     *)
(***************************************************************************)
EXTENDS ContextWindow, SequencesExt

CONSTANTS
  Lengths,    \* lengths of message texts
  SysCosts,   \* costs of system prompts
  MaxMessages \* bound: messages in a history

\* A summary has room in 20% of the context.
ASSUME ContextAssumption ==
  /\ MaxContext \in Nat /\ ContextBudget >= 50
  /\ ToolTokens \in Nat /\ Lengths \subseteq Nat /\ SysCosts \subseteq Nat

VARIABLES history, sysTokens

historyVars == <<history, sysTokens>>

\* A turn message, or a summary stored by an earlier compaction.
Grow ==
  /\ Len(history) < MaxMessages
  /\ \E n \in Lengths, s \in {"turn", "summary"} :
       history' = Append(history, [source |-> s, len |-> n])
  /\ UNCHANGED sysTokens

-----------------------------------------------------------------------------
\* Reference cost of the part of h from i on: a plain sum, no walk.
Cost(h, i) == FoldLeft(LAMBDA sum, m : sum + MessageTokens(m), 0, From(h, i))

(***************************************************************************)
(* trimHistory returns the longest suffix of the history that leaves 20%   *)
(* of the context free beside the system prompt and the tool definitions:  *)
(* it fits, and one more message would not.                                *)
(***************************************************************************)
TrimLongest ==
  LET budget == TrimBudget(sysTokens)
      fits   == {i \in 1..(Len(history) + 1) : Cost(history, i) <= budget}
  IN  TrimHistory(sysTokens, history) =
        IF budget <= 0 THEN <<>> ELSE From(history, Min(fits))

(***************************************************************************)
(* Over the threshold there is always something to summarize, what is kept *)
(* is within 40%, and the first message given up would not have fitted: a  *)
(* history cannot stay over 60% because the split gave up nothing, so the  *)
(* "nothing to compact" branch of compactHistory is never taken.           *)
(***************************************************************************)
CompactionSplits ==
  LET h      == ActiveContext(history)
      recent == (ContextBudget * 40) \div 100
      split  == SplitIndex(h)
  IN  NeedsCompaction(h) =>
        /\ Compacts(h)
        /\ Cost(h, split) <= recent
        /\ Cost(h, split - 1) > recent

\* The longest summary that is no more than 20% of the context.
MCSummary ==
  [source |-> "summary", len |-> 4 * ((ContextBudget * 20) \div 100 - 10)]

(***************************************************************************)
(* A compaction settles: with a summary of at most 20% of the context, the *)
(* history compactHistory returns is back at or under the threshold, also  *)
(* when what it keeps takes its 40% exactly.  (System prompt and tools are *)
(* not counted: the sum may still pass max_context.)                       *)
(***************************************************************************)
CompactionSettles ==
  Compacts(ActiveContext(history)) =>
    ~NeedsCompaction(CompactHistory(sysTokens, history, MCSummary))

(***************************************************************************)
(* Both walks over a history, trimHistory's and compactHistory's, stop at  *)
(* the message that would not have fitted, no sooner and no later, and     *)
(* what a compaction leaves needs no other one.                            *)
(***************************************************************************)
WalksExact == TrimLongest /\ CompactionSplits /\ CompactionSettles
=============================================================================
