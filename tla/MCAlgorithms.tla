---------------------------- MODULE MCAlgorithms ----------------------------
(***************************************************************************)
(* The pure algorithms over every bounded input: MCContextWindow's         *)
(* histories, the streams an LLM API can send for an answer, the lines of  *)
(* a robots.txt, and the messages of a memory that is searched.  An input  *)
(* is grown step by step, so that a state is an input; kind says which of  *)
(* the four a behaviour grows.                                             *)
(***************************************************************************)
EXTENDS MCContextWindow, StreamAssembly, Robots, MemorySearch

CONSTANTS
  Answers,    \* the answers a model gives: sequences of blocks
  MaxBad,     \* bound: malformed events in a stream
  Paths,      \* paths that are asked for
  Patterns,   \* patterns of rules
  MaxLines,   \* bound: lines of a robots.txt
  Memories,   \* the messages a searched memory may have
  MaxCorpus,  \* bound: messages of a memory
  SearchLimit \* results asked for

ASSUME AnswersAssumption ==
  Answers \subseteq Seq([kind : {"text", "call"}, parts : Nat \ {0}])

ASSUME SearchAssumption ==
  Memories \subseteq [fts : Nat, sim : Int, trust : Nat] /\ SearchLimit \in Nat

\* The code takes "/" for an empty path.
ASSUME RobotsAssumption ==
  /\ Paths \subseteq Seq(STRING) \ {<<>>}
  /\ Patterns \subseteq [chars : Seq(STRING), anchored : BOOLEAN]

VARIABLES
  kind,     \* "history", "stream", "robots" or "search"
  api, answer,
  events,   \* the events sent so far
  lines,    \* the robots.txt so far
  corpus    \* the memory so far

streamVars == <<api, answer, events>>
allVars == <<history, sysTokens, kind, api, answer, events, lines, corpus>>

AlgorithmsInit ==
  /\ kind \in {"history", "stream", "robots", "search"}
  /\ history = <<>> /\ events = <<>> /\ lines = <<>> /\ corpus = <<>>
  /\ IF kind = "history" THEN sysTokens \in SysCosts ELSE sysTokens = 0
  /\ IF kind = "stream"
     THEN api \in {"chat", "messages", "responses"} /\ answer \in Answers
     ELSE api = "chat" /\ answer = <<>>

GrowHistory ==
  kind = "history" /\ Grow /\ UNCHANGED <<streamVars, kind, lines, corpus>>

-----------------------------------------------------------------------------
\* How many pieces of block b were sent, and what has to come first.
SentOf(b) ==
  Cardinality({i \in 1..Len(events) :
                 events[i].type \in {"text", "call"} /\ events[i].piece[1] = b})

HasSent(type) == \E i \in 1..Len(events) : events[i].type = type

Announced(b) ==
  \E i \in 1..Len(events) :
    events[i].type \in {"start_text", "start_call"} /\ events[i].key = b

TextSentBefore(b) ==
  \A c \in 1..(b - 1) : answer[c].kind = "text" => SentOf(c) = answer[c].parts

AllSent == \A b \in 1..Len(answer) : SentOf(b) = answer[b].parts

\* What the API files block b under.
Key(b) ==
  IF api = "chat" /\ answer[b].kind = "call"
  THEN Cardinality({c \in 1..(b - 1) : answer[c].kind = "call"})
  ELSE b

Emit(type, key, piece) ==
  /\ ~HasSent("done")
  /\ events' = Append(events, [type |-> type, key |-> key, piece |-> piece])

\* The next piece of any block.  Text comes in order.  Chat's indexes may come
\* in any order; the other APIs begin the blocks in order.
SendPiece(b) ==
  /\ SentOf(b) < answer[b].parts
  /\ answer[b].kind = "text" => TextSentBefore(b)
  /\ api = "messages" => Announced(b)
  /\ api = "responses" => \A c \in 1..(b - 1) : SentOf(c) > 0
  /\ Emit(answer[b].kind, Key(b), <<b, SentOf(b) + 1>>)

SendStart(b) ==
  /\ api = "messages" /\ HasSent("start_message") /\ ~Announced(b)
  /\ \A c \in 1..(b - 1) : Announced(c)
  /\ Emit(IF answer[b].kind = "text" THEN "start_text" ELSE "start_call", b, <<b, 0>>)

SendMessageStart ==
  /\ api = "messages" /\ ~HasSent("start_message")
  /\ Emit("start_message", 0, <<0, 0>>)

SendDone ==
  /\ AllSent
  /\ api = "messages" => \A b \in 1..Len(answer) : Announced(b)
  /\ Emit("done", 0, <<0, 0>>)

SendBad ==
  /\ Cardinality({i \in 1..Len(events) : events[i].type = "bad"}) < MaxBad
  /\ Emit("bad", 0, <<0, 0>>)

GrowStream ==
  /\ kind = "stream"
  /\ \/ \E b \in 1..Len(answer) : SendPiece(b) \/ SendStart(b)
     \/ SendMessageStart \/ SendDone \/ SendBad
  /\ UNCHANGED <<historyVars, kind, api, answer, lines, corpus>>

-----------------------------------------------------------------------------
GrowRobots ==
  /\ kind = "robots" /\ Len(lines) < MaxLines
  /\ \/ \E agent \in {"ours", "*", "other"} :
          lines' = Append(lines, [directive |-> "user-agent", value |-> agent])
     \/ \E d \in {"allow", "disallow"}, p \in Patterns :
          lines' = Append(lines, [directive |-> d, value |-> p])
  /\ UNCHANGED <<historyVars, streamVars, kind, corpus>>

GrowSearch ==
  /\ kind = "search" /\ Len(corpus) < MaxCorpus
  /\ \E m \in Memories : corpus' = Append(corpus, m)
  /\ UNCHANGED <<historyVars, streamVars, kind, lines>>

AlgorithmsNext == GrowHistory \/ GrowStream \/ GrowRobots \/ GrowSearch

AlgorithmsSpec == AlgorithmsInit /\ [][AlgorithmsNext]_allVars

-----------------------------------------------------------------------------
\* Every pattern of up to four characters.
AllPatterns ==
  [chars : UNION {[1..n -> {"/", "a", "*"}] : n \in 0..4}, anchored : BOOLEAN]

(***************************************************************************)
(* A client hands on exactly what the model said: a complete stream, its   *)
(* pieces interleaved in any order the API may send them in, with          *)
(* malformed events between them, gives the text and the calls readFull    *)
(* gives for the same answer.  A stream that ends early never gives        *)
(* anything the model did not say: its calls are calls of the answer, in   *)
(* its order, each with a prefix of its arguments.                         *)
(***************************************************************************)
StreamsAssembled ==
  kind = "stream" =>
    LET got  == ReadStream(api, events)
        full == ReadFull(api, answer)
    IN  /\ HasSent("done") => /\ got.content = full.content
                              /\ got.calls = full.calls
        /\ IsPrefix(got.content, full.content)
        /\ \A i \in 1..Len(got.calls) :
             /\ i > 1 => got.calls[i - 1].id < got.calls[i].id
             /\ \E j \in 1..Len(full.calls) :
                  /\ full.calls[j].id = got.calls[i].id
                  /\ IsPrefix(got.calls[i].args, full.calls[j].args)

(***************************************************************************)
(* Reference matcher: how far into the path each character of the pattern  *)
(* can take one, whatever the wildcards before it stand for.               *)
(***************************************************************************)
Further(path, from, c) ==
  IF c = "*" THEN {j \in 1..(Len(path) + 1) : \E i \in from : i <= j}
  ELSE {i + 1 : i \in {i \in from : i <= Len(path) /\ path[i] = c}}

EndsOf(path, chars) ==
  FoldLeft(LAMBDA from, c : Further(path, from, c), {1}, chars)

Matches(path, p) ==
  IF p.anchored THEN Len(path) + 1 \in EndsOf(path, p.chars)
  ELSE EndsOf(path, p.chars) # {}

\* The user-agent a rule in line i is for, "none" before the first.
AgentOf(i) ==
  LET before == {j \in 1..i : lines[j].directive = "user-agent"}
  IN  IF before = {} THEN "none" ELSE lines[Max(before)].value

RuleLines(directive, path) ==
  LET us == IF \E i \in 1..Len(lines) : AgentOf(i) = "ours" THEN "ours" ELSE "*"
  IN  {i \in 1..Len(lines) :
         /\ lines[i].directive = directive /\ lines[i].value # EmptyPattern
         /\ AgentOf(i) = us /\ Matches(path, lines[i].value)}

\* An anchored pattern with a wildcard, which the tools may miss.
MayMiss(p) == p.anchored /\ \E i \in 1..Len(p.chars) : p.chars[i] = "*"

(***************************************************************************)
(* robots.txt decides as its reference says: the rules in force are the    *)
(* bot's own if it is named anywhere, else everybody's, each under the     *)
(* nearest user-agent line above it; a path is refused exactly when a      *)
(* matching disallow is longer than every matching allow.  A pattern       *)
(* matches exactly the paths some choice of its wildcards gives, except    *)
(* that an anchored one with a wildcard may miss a path, because the code  *)
(* tries no second choice; it never matches a path it should not.          *)
(***************************************************************************)
RobotsDecides ==
  kind = "robots" =>
    \A path \in Paths :
      /\ lines = <<>> =>  \* once for all patterns is enough
           \A p \in AllPatterns :
             IF MayMiss(p)
             THEN RobotsPatternMatch(path, p) => Matches(path, p)
             ELSE RobotsPatternMatch(path, p) <=> Matches(path, p)
      /\ (\A i \in 1..Len(lines) :
            lines[i].directive # "user-agent" => ~MayMiss(lines[i].value)) =>
           (IsAllowed(path, ParseRobotsTxt(lines)) <=>
              \A d \in RuleLines("disallow", path) :
                \E a \in RuleLines("allow", path) :
                  PatternLen(lines[a].value) >= PatternLen(lines[d].value))

(***************************************************************************)
(* A hybrid search returns the best messages, each with its whole score,   *)
(* although it never scores them all: as long as the memory has no more    *)
(* than twice as many matches as are asked for, no match that is left out  *)
(* scores more than a message returned, and, where trust is equal, nor     *)
(* does any other message.  If the others cannot be read, the best of the  *)
(* matches are returned.                                                   *)
(***************************************************************************)
SearchBest ==
  kind = "search" /\ Cardinality(Matched(corpus)) <= 2 * SearchLimit =>
    \A hydrated \in BOOLEAN :
      LET found == Matched(corpus) \cup IF hydrated THEN Embedded(corpus) ELSE {}
          equal == \A i, j \in found : corpus[i].trust = corpus[j].trust
          rivals == IF equal THEN found ELSE Matched(corpus)
          Score(i) == MatchScore(corpus[i])
      IN  \A result \in HybridSearch(corpus, SearchLimit, hydrated) :
            /\ Cardinality(DOMAIN result) = Min({SearchLimit, Cardinality(found)})
            /\ \A i \in DOMAIN result :
                 /\ result[i] = Score(i)
                 /\ \A j \in rivals \ DOMAIN result : Score(j) <= Score(i)

-----------------------------------------------------------------------------
Text(n) == [kind |-> "text", parts |-> n]
Call(n) == [kind |-> "call", parts |-> n]

\* Text before, after and between calls, in one block or two; two calls in
\* several pieces each.
MCAnswers ==
  {<<>>, <<Text(1), Call(2), Text(2)>>, <<Text(1), Call(2), Call(2)>>,
   <<Call(1), Text(2), Call(2)>>, <<Call(3), Call(1), Call(1)>>}

Pattern(cs, end) == [chars |-> cs, anchored |-> end]

MCPaths == {<<"/">> \o s : s \in UNION {[1..n -> {"/", "a"}] : n \in 0..4}}

MCPatterns ==
  {EmptyPattern, Pattern(<<"/">>, FALSE), Pattern(<<"/", "a">>, TRUE),
   Pattern(<<"/", "a">>, FALSE), Pattern(<<"/", "*", "a">>, FALSE),
   Pattern(<<"*", "a", "*", "a">>, FALSE)}

\* Matches and others, with and without an embedding, of either trust.
MCMemories ==
  [fts : {0, 9}, sim : {-5, 8}, trust : {3, 10}]
    \cup [fts : {6}, sim : {2, NoSim}, trust : {3, 10}]
=============================================================================
