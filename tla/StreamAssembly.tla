--------------------------- MODULE StreamAssembly ---------------------------
(***************************************************************************)
(* How the three LLM clients put an answer back together, as pure          *)
(* operators: readFull and readStream of ChatCompletionsClient ("chat"),   *)
(* AnthropicClient ("messages") and ResponsesClient ("responses").         *)
(*                                                                         *)
(* An answer is a sequence of blocks [kind, parts]: kind is "text" or      *)
(* "call", parts the number of pieces its text or its arguments are sent   *)
(* in.  Piece k of block b is the pair <<b, k>>, so that to concatenate    *)
(* texts is to concatenate sequences of pairs.  A call's id and name are   *)
(* the number of its block.                                                *)
(*                                                                         *)
(* An event of a stream is [type, key, piece]: key is what the API files a *)
(* call under (chat: its index among the calls, from 0; messages: its      *)
(* index among the blocks; responses: its call_id).                        *)
(***************************************************************************)
EXTENDS Integers, Sequences, SequencesExt

Pieces(answer, b) == [k \in 1..answer[b].parts |-> <<b, k>>]

-----------------------------------------------------------------------------
(***************************************************************************)
(* readFull, the answer in one piece: choices[0].message, the blocks of a  *)
(* Messages answer, the output items of a Responses answer.  usage is the  *)
(* set of token counts that are filled in; the others stay 0.              *)
(***************************************************************************)
FullStep(answer, acc, b) ==
  IF answer[b].kind = "text"
  THEN [acc EXCEPT !.content = @ \o Pieces(answer, b)]
  ELSE [acc EXCEPT !.calls = Append(@, [id |-> b, args |-> Pieces(answer, b)])]

Full(answer) ==
  FoldLeft(LAMBDA acc, b : FullStep(answer, acc, b),
           [content |-> <<>>, calls |-> <<>>],
           [b \in 1..Len(answer) |-> b])

ReadFull(api, answer) ==
  [content |-> Full(answer).content,
   calls   |-> Full(answer).calls,
   usage   |-> IF api = "responses" THEN {"input", "output"}
               ELSE {"input", "output", "cached"}]

-----------------------------------------------------------------------------
\* What a reader holds while it scans: the blocks announced, the calls by
\* key, the keys in the order they came, and whether it has stopped.
NothingRead ==
  [content |-> <<>>, announced |-> {}, calls |-> <<>>, order |-> <<>>,
   usage |-> {}, stopped |-> FALSE]

Announce(acc, e) == [acc EXCEPT !.announced = @ \union {e.key}]

WriteText(acc, e) == [acc EXCEPT !.content = Append(@, e.piece)]

NewCall(acc, e, args) ==
  [acc EXCEPT !.calls = [k \in DOMAIN @ \cup {e.key} |->
                           IF k = e.key THEN [id |-> e.piece[1], args |-> args]
                           ELSE @[k]],
              !.order = Append(@, e.key)]

WriteArgs(acc, e) ==
  [acc EXCEPT !.calls[e.key].args = Append(@, e.piece)]

\* Mutant: every chunk of a call brings the call anew.
FileEveryDelta(acc, e) == NewCall(acc, e, <<e.piece>>)

\* A client that knows a call by its first delta (chat and responses).
FileDelta(acc, e) ==
  IF e.key \in DOMAIN acc.calls THEN WriteArgs(acc, e)
  ELSE NewCall(acc, e, <<e.piece>>)

(***************************************************************************)
(* Chat Completions.  A malformed chunk is skipped, "[DONE]" ends the      *)
(* scan, and no chunk's usage is read.                                     *)
(***************************************************************************)
ChatEvent(acc, e) ==
  CASE e.type = "text" -> WriteText(acc, e)
    [] e.type = "call" -> FileDelta(acc, e)
    [] e.type = "done" -> [acc EXCEPT !.stopped = TRUE]
    [] OTHER -> acc

(***************************************************************************)
(* Messages.  Blocks are announced; a delta of one that was not is dropped *)
(* and the reader knows no terminator, it scans to the end.                *)
(***************************************************************************)
MessagesEvent(acc, e) ==
  CASE e.type = "start_message" -> [acc EXCEPT !.usage = @ \union {"input"}]
    [] e.type = "start_text" -> Announce(acc, e)
    [] e.type = "start_call" -> NewCall(Announce(acc, e), e, <<>>)
    [] e.type = "text" /\ e.key \in acc.announced -> WriteText(acc, e)
    [] e.type = "call" /\ e.key \in acc.announced -> WriteArgs(acc, e)
    [] e.type = "done" -> [acc EXCEPT !.usage = @ \union {"output"}]
    [] OTHER -> acc

\* Responses.  response.completed brings the usage and ends the scan.
ResponsesEvent(acc, e) ==
  CASE e.type = "text" -> WriteText(acc, e)
    [] e.type = "call" -> FileDelta(acc, e)
    [] e.type = "done" ->
         [acc EXCEPT !.stopped = TRUE, !.usage = {"input", "output"}]
    [] OTHER -> acc

ScanEvent(api, acc, e) ==
  CASE acc.stopped -> acc
    [] ~acc.stopped /\ api = "chat" -> ChatEvent(acc, e)
    [] ~acc.stopped /\ api = "messages" -> MessagesEvent(acc, e)
    [] ~acc.stopped /\ api = "responses" -> ResponsesEvent(acc, e)

KeepKey(calls, keys, i) == IF i \in DOMAIN calls THEN Append(keys, i) ELSE keys

\* The chat client collects the calls with the indexes 0, 1, ..., as many as
\* it holds (one with a larger index is lost), the others in arrival order.
CollectKeys(api, acc) ==
  IF api = "chat"
  THEN FoldLeft(LAMBDA keys, i : KeepKey(acc.calls, keys, i), <<>>,
                [i \in 1..Cardinality(DOMAIN acc.calls) |-> i - 1])
  ELSE acc.order

Scan(api, events) ==
  FoldLeft(LAMBDA acc, e : ScanEvent(api, acc, e), NothingRead, events)

(***************************************************************************)
(* readStream.  A stream that ends early without a read error is returned  *)
(* like a complete one.                                                    *)
(***************************************************************************)
ReadStream(api, events) ==
  LET acc  == Scan(api, events)
      keys == CollectKeys(api, acc)
  IN  [content |-> acc.content,
       calls   |-> [i \in 1..Len(keys) |-> acc.calls[keys[i]]],
       usage   |-> acc.usage]
=============================================================================
