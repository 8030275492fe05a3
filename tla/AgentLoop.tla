----------------------------- MODULE AgentLoop -----------------------------
(***************************************************************************)
(* The tool-use loop inside one call of Agent.Chat: send the messages,     *)
(* run the tool calls of the answer one by one, send again, until the      *)
(* model answers with a text or MaxIterations requests were made.          *)
(*                                                                         *)
(* The message list is private to the call; what must hold of it is the    *)
(* protocol of the model APIs, which the code relies on and never checks.  *)
(***************************************************************************)
EXTENDS MessageFormat

CONSTANTS
  MaxIterations,  \* requests per call of Chat: 20
  LoopThreshold,  \* equal calls in a row that count as a loop: 3
  MaxCalls,       \* tool calls in one answer (a bound; the API has none)
  MaxLost,        \* audit entries of a call that cannot be written (a bound)
  Signatures,     \* tool name and arguments of a call
  Contexts        \* the histories a call may start from

ASSUME LoopAssumption ==
  /\ {MaxIterations, LoopThreshold, MaxCalls} \subseteq Nat \ {0} /\ MaxLost \in Nat
  /\ Contexts # {} /\ Contexts \subseteq Seq({SystemMsg, UserMsg, AssistantMsg})

VARIABLES
  phase,     \* "send", "wait", "tools", or how Chat returned
  messages,  \* the request's message list
  requests,  \* requests made
  todo,      \* calls of the last answer still to run, in order
  seen,      \* loopDetector.history
  looping,   \* loopDetected in this round
  audit,     \* audit entries of this call, in order
  lost       \* those that could not be written, and are in the log instead

trail == <<audit, lost>>
vars  == <<phase, messages, requests, todo, seen, looping, audit, lost>>

Returned == {"answered", "failed", "paused", "exhausted"}

\* A tool call; its id is its number in this call of Chat.
Call == [id : Nat, sig : Signatures]

\* An audit entry, with the number of tool calls until then.
Entry(action, calls) == [action |-> action, calls |-> calls]
Entries == [action : {"tool_call", "loop_detected", "llm_chat"}, calls : Nat]

TypeOK ==
  /\ phase \in {"send", "wait", "tools"} \cup Returned
  /\ requests \in 0..MaxIterations
  /\ todo \in Seq(Call)
  /\ seen \in Seq(Signatures)
  /\ looping \in BOOLEAN
  /\ audit \in Seq(Entries) /\ lost \subseteq Entries

Init ==
  /\ phase = "send"
  /\ \E h \in Contexts : messages = <<SystemMsg>> \o h \o <<UserMsg>>
  /\ requests = 0
  /\ todo = <<>>
  /\ seen = <<>>
  /\ looping = FALSE
  /\ audit = <<>> /\ lost = {}

\* loopDetector.record: the last LoopThreshold signatures are all the same.
Repeats(history) ==
  LET n == Len(history)
  IN  /\ n >= LoopThreshold
      /\ \A i \in (n - LoopThreshold + 1)..n : history[i] = history[n]

\* LogAudit: an entry that cannot be written (the file is locked, the
\* caller's context has ended) is an error in the log, and no more.
LogAudit(entry) ==
  \/ audit' = Append(audit, entry) /\ UNCHANGED lost
  \/ /\ Cardinality(lost) < MaxLost
     /\ lost' = lost \cup {entry} /\ UNCHANGED audit

-----------------------------------------------------------------------------
Request ==
  /\ phase = "send"
  /\ requests < MaxIterations
  /\ requests' = requests + 1
  /\ phase' = "wait"
  /\ UNCHANGED <<messages, todo, seen, looping, trail>>

\* "agent loop exceeded 20 iterations"
Exhausted ==
  /\ phase = "send"
  /\ requests = MaxIterations
  /\ phase' = "exhausted"
  /\ UNCHANGED <<messages, requests, todo, seen, looping, trail>>

\* Mutant: a failed request is retried without being counted.
RequestRetried ==
  /\ phase = "wait"
  /\ phase' = "send"
  /\ requests' = requests - 1
  /\ UNCHANGED <<messages, todo, seen, looping, trail>>

RequestFails ==
  /\ phase = "wait"
  /\ phase' = "failed"
  /\ UNCHANGED <<messages, requests, todo, seen, looping, trail>>

\* The response is charged and a spending window is now exceeded.
OverLimit ==
  /\ phase = "wait"
  /\ phase' = "paused"
  /\ UNCHANGED <<messages, requests, todo, seen, looping, trail>>

\* The answer calls tools: the calls are kept in order for this round.
AnswerWithCalls ==
  /\ phase = "wait"
  /\ \E n \in 1..MaxCalls : \E sigs \in [1..n -> Signatures] :
       LET calls == [i \in 1..n |-> [id |-> Len(seen) + i, sig |-> sigs[i]]]
       IN  /\ todo' = calls
           /\ messages' = Append(messages,
                                 CallsMsg([i \in 1..n |-> calls[i].id]))
  /\ phase' = "tools"
  /\ looping' = FALSE
  /\ UNCHANGED <<requests, seen, trail>>

\* Mutant: a later call of the round hides the loop.
RunToolForgetsLoop ==
  /\ phase = "tools"
  /\ todo # <<>>
  /\ seen' = Append(seen, Head(todo).sig)
  /\ looping' = Repeats(seen')
  /\ LogAudit(Entry("tool_call", Len(seen')))
  /\ messages' = Append(messages, ToolMsg(Head(todo).id))
  /\ todo' = Tail(todo)
  /\ UNCHANGED <<phase, requests>>

\* One call: detect a loop, execute (a result, an error, a refusal all give
\* a text), audit, answer the call.  Nothing makes the tool return.
RunTool ==
  /\ phase = "tools"
  /\ todo # <<>>
  /\ seen' = Append(seen, Head(todo).sig)
  /\ looping' = (looping \/ Repeats(seen'))
  /\ LogAudit(Entry("tool_call", Len(seen')))
  /\ messages' = Append(messages, ToolMsg(Head(todo).id))
  /\ todo' = Tail(todo)
  /\ UNCHANGED <<phase, requests>>

\* The round is over; a detected loop is audited and the model told.
EndRound ==
  /\ phase = "tools"
  /\ todo = <<>>
  /\ phase' = "send"
  /\ IF looping
     THEN /\ LogAudit(Entry("loop_detected", Len(seen)))
          /\ messages' = Append(messages, UserMsg)
     ELSE UNCHANGED <<trail, messages>>
  /\ UNCHANGED <<requests, todo, seen, looping>>

\* Mutant: the answer is audited before it is saved.
AnswerAuditedFirst ==
  /\ phase = "wait"
  /\ phase' \in {"answered", "failed"}
  /\ LogAudit(Entry("llm_chat", Len(seen)))
  /\ UNCHANGED <<messages, requests, todo, seen, looping>>

\* The answer is a text: it is saved (ChatHistory), audited and returned,
\* unless saving fails.
AnswerWithText ==
  /\ phase = "wait"
  /\ \/ phase' = "answered" /\ LogAudit(Entry("llm_chat", Len(seen)))
     \/ phase' = "failed" /\ UNCHANGED trail
  /\ UNCHANGED <<messages, requests, todo, seen, looping>>

Chatting ==
  \/ Request \/ Exhausted \/ RequestFails \/ OverLimit
  \/ AnswerWithCalls \/ EndRound \/ AnswerWithText

Next == Chatting \/ RunTool

(***************************************************************************)
(* Fairness: the goroutine runs, and every request ends, if only by the    *)
(* HTTP client's five-minute timeout.  Nothing is assumed of the answers:  *)
(* the model may call tools for ever.  Nor of the tools: bash and the      *)
(* sandbox wait without limit for a child that keeps their output open,    *)
(* and an approval waits for the user.                                     *)
(***************************************************************************)
Spec == Init /\ [][Next]_vars /\ WF_vars(Chatting)

-----------------------------------------------------------------------------
\* In the Responses format a result comes after its call, and no call of a
\* request is left without its result.
ResponsesPaired ==
  LET items == ToResponses(messages)
      Nth(type, id) == {i \in 1..Len(items) :
                          items[i].type = type /\ items[i].id = id}
  IN  \A id \in 1..Len(seen) :
        \E i \in Nth("function_call", id) :
        \E j \in Nth("function_call_output", id) :
          /\ i < j
          /\ Nth("function_call", id) = {i}
          /\ Nth("function_call_output", id) = {j}

(***************************************************************************)
(* The loop keeps every request in the form its API asks for.  For the     *)
(* Messages API a turn never repeats the role before it, whatever was      *)
(* merged, unless it is an answer the history begins with or has twice,    *)
(* and not then if each answer of the history follows a user's message;    *)
(* each tool call is answered, once, in the next message, also when the    *)
(* round ran several calls or ended with the loop nudge.  The Responses    *)
(* API gets every call with its result.                                    *)
(***************************************************************************)
RequestWellFormed ==
  phase \in {"send", "wait"} =>
    LET out == ToAnthropic(messages)
    IN  /\ AlternatingButSaved(out)
        /\ AnswersInTurn(messages) => Alternating(out)
        /\ ResultsFollowCalls(out) /\ Last(out).role = "user"
        /\ ResponsesPaired

(***************************************************************************)
(* The model is told of a loop in the round that closes it, and only then: *)
(* the list ends with the nudge iff some call of the last round was the    *)
(* third equal one in a row, counted across rounds.                        *)
(***************************************************************************)
NudgedIffLooping ==
  phase = "send" /\ seen # <<>> =>
    LET calling   == {i \in 1..Len(messages) : messages[i].calls # <<>>}
        lastRound == Len(messages[Max(calling)].calls)
    IN  (Last(messages).role = "user") <=>
          \E k \in (Len(seen) - lastRound + 1)..Len(seen) :
            Repeats(SubSeq(seen, 1, k))

\* Loops the model was told of, by the calls until then: in the list a nudge
\* follows a result.
Nudged == {n \in 1..Len(seen) : \E i \in 1..(Len(messages) - 1) :
             messages[i] = ToolMsg(n) /\ messages[i + 1] = UserMsg}

\* What happened in the call, as entries.
Happened ==
  {Entry("tool_call", n) : n \in 1..Len(seen)}
    \cup {Entry("loop_detected", n) : n \in Nudged}
    \cup {Entry("llm_chat", n) : n \in {k \in {Len(seen)} : phase = "answered"}}

\* The order of entries: a loop after its calls, the answer last.
Precedes(e, f) ==
  \/ e.calls < f.calls
  \/ e.calls = f.calls /\ e.action = "tool_call" /\ f.action # "tool_call"
  \/ e.calls = f.calls /\ e.action = "loop_detected" /\ f.action = "llm_chat"

(***************************************************************************)
(* However the call ends, the audit trail lists what happened (every tool  *)
(* call, every loop the model was told of, the answer the user got), once, *)
(* in its order, and nothing that did not happen; what is missing is an    *)
(* error in the log.                                                       *)
(***************************************************************************)
AuditComplete ==
  LET written == {audit[i] : i \in 1..Len(audit)}
  IN  /\ written \cup lost = Happened /\ written \cap lost = {}
      /\ \A i, j \in 1..Len(audit) : i < j => Precedes(audit[i], audit[j])

\* Chat returns, even if the model never stops calling tools, unless it stays
\* in a tool for ever.
ChatReturns ==
  <>[](phase = "tools" /\ todo # <<>>) \/ (phase = "send" ~> phase \in Returned)
=============================================================================
