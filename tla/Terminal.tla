------------------------------ MODULE Terminal ------------------------------
(***************************************************************************)
(* The interactive terminal of `smithly chat` in raw mode                  *)
(* (internal/channels/cli.go): one goroutine reads the keys into a         *)
(* channel, and readRawLine, the loop of runWithInterrupt and the approval *)
(* prompt, which runs in the chat's goroutine, take them from it.          *)
(***************************************************************************)
EXTENDS Integers, Sequences, SequencesExt

CONSTANTS
  Printable,  \* keys that stand for a character, "y" among them
  ExitLine,   \* the line that ends the program ("exit" or "quit")
  Capacity,   \* room in bytesCh
  MaxKeys     \* bound: keys pressed

Keys == Printable \union {"enter", "backspace", "esc", "ctrl-c", "ctrl-d"}

VARIABLES
  bytesCh,  \* keys that were read from stdin and not yet taken
  eof,      \* stdin is closed
  pressed,  \* number of keys pressed
  mode,     \* the loop: "line", "query", "pausing", "ahead", "waiting" for the
            \* chat with a line typed ahead, "cancelling", "quit"
  buf,      \* the line that is edited
  input,    \* the line the last chat was given
  chat,     \* its goroutine: "none", "running", "asking", "returned"
  paused,   \* ESC was read: the chat prints nothing
  done,     \* the chat's ctx is done
  meant,    \* keys pressed after the ESC
  prompt    \* a prompt was waiting when the ESC was read, or before it paused

keyVars == <<bytesCh, eof, pressed>>
chatVars == <<keyVars, mode, buf, input, chat, paused, done, meant, prompt>>

ChatInit ==
  /\ bytesCh = <<>> /\ eof = FALSE /\ pressed = 0
  /\ mode = "line" /\ buf = <<>> /\ input = <<>>
  /\ chat = "none" /\ paused = FALSE /\ done = FALSE
  /\ meant = <<>> /\ prompt = FALSE

\* One key of a line: what readRawLine and the type-ahead loop share.
Edit(line, key) ==
  CASE key \in Printable -> Append(line, key)
    [] key = "backspace" /\ line # <<>> -> Front(line)
    [] key = "esc" -> <<>>
    [] OTHER -> line

-----------------------------------------------------------------------------
\* The goroutine that owns stdin.
Press(key) ==
  /\ pressed < MaxKeys /\ Len(bytesCh) < Capacity /\ ~eof /\ mode # "quit"
  /\ pressed' = pressed + 1 /\ bytesCh' = Append(bytesCh, key)
  /\ meant' = IF mode \in {"pausing", "ahead"} THEN Append(meant, key) ELSE meant
  /\ UNCHANGED <<eof, mode, buf, input, chat, paused, done, prompt>>

HangUp ==
  /\ ~eof /\ mode # "quit"
  /\ eof' = TRUE
  /\ UNCHANGED <<bytesCh, pressed, mode, buf, input, chat, paused, done,
                 meant, prompt>>

Takes(key) ==
  /\ bytesCh # <<>> /\ key = Head(bytesCh) /\ bytesCh' = Tail(bytesCh)
  /\ UNCHANGED <<eof, pressed>>

Closed == eof /\ bytesCh = <<>> /\ UNCHANGED keyVars

\* A line: nothing, the end, or a chat (runRaw).
Submit(line) ==
  /\ buf' = <<>>
  /\ IF line = <<>>
     THEN mode' = "line" /\ chat' = "none" /\ UNCHANGED <<input, paused, done>>
     ELSE IF line = ExitLine
     THEN mode' = "quit" /\ chat' = "none" /\ UNCHANGED <<input, paused, done>>
     ELSE /\ mode' = "query" /\ chat' = "running" /\ input' = line
          /\ paused' = FALSE /\ done' = FALSE

\* readRawLine
LineKey(key) ==
  /\ mode = "line" /\ Takes(key)
  /\ CASE key = "enter" -> Submit(buf)
       [] key \in {"ctrl-c", "ctrl-d"} ->
            mode' = "quit" /\ UNCHANGED <<buf, input, chat, paused, done>>
       [] OTHER -> /\ buf' = Edit(buf, key)
                   /\ UNCHANGED <<mode, input, chat, paused, done>>
  /\ UNCHANGED <<meant, prompt>>

LineClosed ==
  /\ mode = "line" /\ Closed
  /\ mode' = "quit"
  /\ UNCHANGED <<buf, input, chat, paused, done, meant, prompt>>

-----------------------------------------------------------------------------
\* Mutant: a prompt is shown, and waits, while the user types ahead.
AskAlways ==
  /\ chat = "running" /\ chat' = "asking"
  /\ UNCHANGED <<keyVars, mode, buf, input, paused, done, meant, prompt>>

\* A tool needs approval.  After ESC it is denied, nothing is asked.
Ask ==
  /\ chat = "running" /\ ~paused
  /\ chat' = "asking" /\ prompt' = (prompt \/ mode = "pausing")
  /\ UNCHANGED <<keyVars, mode, buf, input, paused, done, meant>>

\* Any key answers, "y" with yes: the tool runs or is denied.
AnswerKey(key) ==
  /\ chat = "asking" /\ Takes(key)
  /\ chat' = "running"
  /\ UNCHANGED <<mode, buf, input, paused, done, meant, prompt>>

\* Mutant: the prompt does not watch ctx.
AnswerAtEOF ==
  /\ chat = "asking" /\ Closed
  /\ chat' = "running"
  /\ UNCHANGED <<mode, buf, input, paused, done, meant, prompt>>

AnswerNone ==
  /\ chat = "asking"
  /\ \/ Closed
     \/ done /\ UNCHANGED keyVars
  /\ chat' = "running"
  /\ UNCHANGED <<mode, buf, input, paused, done, meant, prompt>>

\* Chat returns: it may never, when a tool does not.
Finish ==
  /\ chat = "running" /\ chat' = "returned"
  /\ UNCHANGED <<keyVars, mode, buf, input, paused, done, meant, prompt>>

-----------------------------------------------------------------------------
\* runWithInterrupt: the chat's result, or a key.
Result ==
  /\ mode = "query" /\ chat = "returned"
  /\ mode' = "line" /\ chat' = "none"
  /\ UNCHANGED <<keyVars, buf, input, paused, done, meant, prompt>>

QueryKey(key) ==
  /\ mode = "query" /\ Takes(key)
  /\ CASE key = "ctrl-c" ->
            /\ done' = TRUE /\ mode' = "cancelling"
            /\ UNCHANGED <<paused, meant, prompt>>
       [] key = "esc" ->
            /\ mode' = "pausing"
            /\ meant' = bytesCh' /\ prompt' = (chat = "asking")
            /\ UNCHANGED <<paused, done>>
       [] OTHER -> UNCHANGED <<mode, paused, done, meant, prompt>>
  /\ UNCHANGED <<buf, input, chat>>

\* Between the read of ESC and this a tool may still ask.
Pause ==
  /\ mode = "pausing"
  /\ paused' = TRUE /\ mode' = "ahead"
  /\ UNCHANGED <<keyVars, buf, input, chat, done, meant, prompt>>

QueryClosed ==
  /\ mode \in {"query", "ahead"} /\ Closed
  /\ done' = TRUE /\ mode' = "cancelling" /\ buf' = <<>>
  /\ UNCHANGED <<input, chat, paused, meant, prompt>>

\* Waiting for the result of the cancelled chat.
Cancelled ==
  /\ mode = "cancelling" /\ chat = "returned"
  /\ mode' = "line" /\ chat' = "none"
  /\ UNCHANGED <<keyVars, buf, input, paused, done, meant, prompt>>

\* The type-ahead loop; the chat may return in between.
AheadKey(key) ==
  /\ mode = "ahead" /\ Takes(key)
  /\ CASE key = "enter" -> mode' = "waiting" /\ UNCHANGED <<buf, done>>
       [] key = "ctrl-c" -> mode' = "cancelling" /\ done' = TRUE /\ buf' = <<>>
       [] OTHER -> buf' = Edit(buf, key) /\ UNCHANGED <<mode, done>>
  /\ UNCHANGED <<input, chat, paused, meant, prompt>>

\* The line typed ahead is the next one.
Ahead ==
  /\ mode = "waiting" /\ chat = "returned"
  /\ Submit(buf)
  /\ UNCHANGED <<keyVars, meant, prompt>>

-----------------------------------------------------------------------------
Loop ==
  LineClosed \/ Result \/ Pause \/ QueryClosed \/ Cancelled \/ Ahead
  \/ \E key \in Keys : LineKey(key) \/ QueryKey(key) \/ AheadKey(key)

Prompt == AnswerNone \/ \E key \in Keys : AnswerKey(key)

ChatNext == HangUp \/ Ask \/ Finish \/ Loop \/ Prompt \/ \E key \in Keys : Press(key)

\* A chat has a bounded number of rounds, so that it does not ask for ever.
AsksFinitely == []<><<Ask>>_chatVars => []<><<Finish>>_chatVars

\* Fairness: the loop and the prompt run.  Nobody has to press a key, and no
\* tool has to return.
ChatFairness == WF_chatVars(Loop) /\ WF_chatVars(Prompt) /\ AsksFinitely

ChatSpec == ChatInit /\ [][ChatNext]_chatVars /\ ChatFairness

-----------------------------------------------------------------------------
\* What is typed until Enter, edited.
Typed ==
  LET enters == {i \in 1..Len(meant) : meant[i] = "enter"}
      upTo   == IF enters = {} THEN meant ELSE SubSeq(meant, 1, Min(enters) - 1)
  IN  FoldLeft(Edit, <<>>, upTo)

(***************************************************************************)
(* ESC lets the user type ahead while the chat goes on: unless a prompt    *)
(* was waiting before the ESC took effect, the next chat is given exactly  *)
(* the line typed after the ESC, whenever the chat ends and whatever tools *)
(* it asks for meanwhile.  (A prompt that was waiting shares the keys: it  *)
(* can take one out of the line, and a "y" of the line approves its tool.) *)
(***************************************************************************)
TypedAheadKept ==
  [][mode = "waiting" /\ mode' = "query" /\ ~prompt => input' = Typed]_chatVars

(***************************************************************************)
(* A Ctrl+C that the loop has read, or the end of stdin, ends the chat     *)
(* without another key, also when it waits for an approval or comes to     *)
(* wait for one later, unless the chat works on for ever: the loop waits   *)
(* for it without a limit, and a tool may not return.  (A Ctrl+C that a    *)
(* prompt reads only denies its tool.)                                     *)
(***************************************************************************)
InterruptEnds ==
  <>[](chat = "running") \/ (mode = "cancelling" ~> mode # "cancelling")
=============================================================================
