--------------------------- MODULE MessageFormat ---------------------------
(***************************************************************************)
(* The message list of the agent loop and its conversion for the model     *)
(* APIs, as pure operators.                                                *)
(*                                                                         *)
(* A chat message is [role, calls, for]: calls are the ids of the tool     *)
(* calls of an assistant message, for is the call a tool message answers.  *)
(* Texts are left out: the conversions only place them.                    *)
(***************************************************************************)
EXTENDS Integers, Sequences, SequencesExt

CONSTANT NoCall  \* the for of a message that answers no tool call

SystemMsg        == [role |-> "system",    calls |-> <<>>,  for |-> NoCall]
UserMsg          == [role |-> "user",      calls |-> <<>>,  for |-> NoCall]
AssistantMsg     == [role |-> "assistant", calls |-> <<>>,  for |-> NoCall]
CallsMsg(ids)    == [role |-> "assistant", calls |-> ids,   for |-> NoCall]
ToolMsg(id)      == [role |-> "tool",      calls |-> <<>>,  for |-> id]

TextBlock        == [type |-> "text",        id |-> NoCall]
UseBlock(id)     == [type |-> "tool_use",    id |-> id]
ResultBlock(id)  == [type |-> "tool_result", id |-> id]

\* Mutant: a user message is never merged.
MergeNever(out, blocks) == Append(out, [role |-> "user", blocks |-> blocks])

(***************************************************************************)
(* convertToAnthropicMessages: system texts move out, tool results wait    *)
(* and become blocks of a user message, and a user message after a user    *)
(* message is merged into it.                                              *)
(***************************************************************************)
Merge(out, blocks) ==
  IF out # <<>> /\ Last(out).role = "user"
  THEN Front(out) \o <<[Last(out) EXCEPT !.blocks = @ \o blocks]>>
  ELSE Append(out, [role |-> "user", blocks |-> blocks])

Flush(acc) ==
  IF acc.pending = <<>> THEN acc
  ELSE [out |-> Merge(acc.out, acc.pending), pending |-> <<>>]

ConvertOne(acc, m) ==
  CASE m.role = "system" -> acc
    [] m.role = "user" ->
         [Flush(acc) EXCEPT !.out = Merge(@, <<TextBlock>>)]
    [] m.role = "assistant" ->
         [Flush(acc) EXCEPT !.out = Append(@,
            [role   |-> "assistant",
             blocks |-> IF m.calls = <<>> THEN <<TextBlock>>
                        ELSE [i \in 1..Len(m.calls) |-> UseBlock(m.calls[i])]])]
    [] m.role = "tool" ->
         [acc EXCEPT !.pending = Append(@, ResultBlock(m.for))]

ToAnthropic(messages) ==
  Flush(FoldLeft(ConvertOne, [out |-> <<>>, pending |-> <<>>], messages)).out

\* The input array of the Responses API: one item per call and per result.
ResponsesItems(m) ==
  CASE m.role = "system" -> <<>>
    [] m.role = "user" -> <<[type |-> "user", id |-> NoCall]>>
    [] m.role = "assistant" ->
         IF m.calls = <<>> THEN <<[type |-> "assistant", id |-> NoCall]>>
         ELSE [i \in 1..Len(m.calls) |->
                 [type |-> "function_call", id |-> m.calls[i]]]
    [] m.role = "tool" -> <<[type |-> "function_call_output", id |-> m.for]>>

ToResponses(messages) ==
  FoldLeft(LAMBDA acc, m : acc \o ResponsesItems(m), <<>>, messages)

-----------------------------------------------------------------------------
\* What the Messages API asks of a request: a user turn first, then the
\* roles in turn.
RoleBefore(out, i) == IF i = 1 THEN "assistant" ELSE out[i - 1].role

Alternating(out) == \A i \in 1..Len(out) : out[i].role # RoleBefore(out, i)

\* The same but where an answer of the saved history takes its turn twice.
SavedAnswer(turn) == turn.role = "assistant" /\ turn.blocks = <<TextBlock>>

AlternatingButSaved(out) ==
  \A i \in 1..Len(out) : SavedAnswer(out[i]) \/ out[i].role # RoleBefore(out, i)

\* Each answer in a message list follows a user's message.
AnswersInTurn(messages) ==
  \A i \in 1..Len(messages) :
    messages[i] = AssistantMsg => i > 1 /\ messages[i - 1] = UserMsg

\* The ids of a message's blocks of one type, in order.
BlockIds(msg, type) ==
  FoldLeft(LAMBDA ids, b : IF b.type = type THEN Append(ids, b.id) ELSE ids,
           <<>>, msg.blocks)

\* Every tool call is answered in the very next message, once and in order,
\* and no result answers anything else.
ResultsFollowCalls(out) ==
  \A i \in 1..Len(out) :
    /\ out[i].role = "assistant" /\ BlockIds(out[i], "tool_use") # <<>> =>
         /\ i < Len(out)
         /\ BlockIds(out[i + 1], "tool_result") = BlockIds(out[i], "tool_use")
    /\ out[i].role = "user" /\ BlockIds(out[i], "tool_result") # <<>> =>
         /\ i > 1
         /\ BlockIds(out[i - 1], "tool_use") = BlockIds(out[i], "tool_result")
=============================================================================
