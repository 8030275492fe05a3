--------------------------- MODULE CommandsProofs ---------------------------
(***************************************************************************)
(* Proofs about what the user's commands and the running program share:    *)
(* for any requests, seeders and domains, an unknown domain is never let   *)
(* through, and a settled entry is changed by the user alone (Gatekeeper); *)
(* for any number of chats that write a skill, what the registry holds is  *)
(* what a restart would load (SkillRegistry); and for any terminals and    *)
(* names, commands that overlap and are killed leave the configuration     *)
(* file with the sections they ask for and its first token (ConfigFile).   *)
(***************************************************************************)
EXTENDS Gatekeeper, SkillRegistry, ConfigFile, DataInduction, TLAPS

-----------------------------------------------------------------------------
(***************************************************************************)
(* The configuration file.  While nobody is halfway through writing it, it *)
(* is whole; while one command is, what it has written and what it has     *)
(* still to write make the whole file together; and what a command has     *)
(* read or prepared agrees with the file as long as nobody else has        *)
(* written: ConfigInv, which is about runs that do not spoil the file.     *)
(***************************************************************************)
Sections == [id : Ids, keys : Nat, tuned : BOOLEAN]
Chunks == [tokens : Seq(Nat), agents : Seq(Sections), junk : BOOLEAN]
Files == [there : BOOLEAN, tokens : Seq(Nat), agents : Seq(Sections), junk : BOOLEAN]
Points == {"idle", "load", "save", "saveopen", "savewrite", "ask", "open", "write", "keys"}
Commands == [pc : Points, op : {"none", "init", "load", "add", "remove"},
             id : Ids \cup {"none"}, token : Nat, agents : Seq(Sections),
             todo : Seq(Chunks), fresh : BOOLEAN]

ConfigTypeOK ==
  /\ file \in Files /\ cmd \in [Terminals -> Commands]
  /\ made \in Nat /\ wanted \in Seq(Sections) /\ given \subseteq Nat /\ spoiled \in BOOLEAN

\* What a decoder takes: no key of a section twice.
Readable(agents) == \A i \in 1..Len(agents) : agents[i].keys <= 1

\* The sections of the file that a command writes from its beginning, and the
\* chunks it has prepared of it: the token, then one section each.
Target(c) == IF c.op = "init" THEN <<Section(c.id)>> ELSE Rewritten(c.agents, c.id)

Prepared(c) ==
  /\ Len(c.todo) = Len(Target(c)) + 1
  /\ Len(c.todo[1].tokens) = 1 /\ c.todo[1].agents = <<>> /\ ~c.todo[1].junk
  /\ \A i \in 1..Len(Target(c)) : c.todo[i + 1] = Chunk(<<>>, <<Target(c)[i]>>)

\* What a command may be doing.
OpOK(c) ==
  /\ c.pc \in {"open", "write"} => c.op \in {"init", "remove"}
  /\ c.pc \in {"load", "save", "saveopen", "savewrite"} => c.op \in {"load", "add", "remove"}
  /\ c.pc = "ask" => c.op \in {"init", "add"}
  /\ c.pc \in {"saveopen", "savewrite"} => c.todo # <<>>
  /\ c.op \in {"init", "add", "remove"} => c.id \in Ids
  /\ Readable(c.agents)
  /\ c.pc = "open" => /\ Prepared(c)
                      /\ c.op = "remove" => c.todo[1].tokens = <<c.token>>

\* What remove is to write back, Load has returned.
WasGiven(c) == c.pc = "open" /\ c.op = "remove" => c.token \in given

OpsOK ==
  /\ \A t \in Terminals : OpOK(cmd[t]) /\ WasGiven(cmd[t])
  /\ \A t \in Terminals : cmd[t].op = "add" \/ Halfway(t) => file.there

Writes(c) == c.pc \in {"write", "savewrite", "keys"}
OneWriter == \A t, u \in Terminals : Halfway(t) /\ Halfway(u) => t = u
Quiet == \A t \in Terminals : ~Halfway(t)

GivenIs(tokens) == Len(tokens) <= 1 /\ \A token \in given : tokens = <<token>>

\* The file while nobody writes.
WholeFile ==
  Quiet => IF file.there
           THEN /\ ~file.junk /\ GivenIs(file.tokens)
                /\ file.agents = wanted /\ Readable(file.agents)
           ELSE given = {}

\* appendToken's new file.
Saving(c) ==
  /\ Len(c.todo) = 1 /\ ~c.todo[1].junk
  /\ c.todo[1].tokens = <<c.token>> /\ c.todo[1].agents = c.agents

\* What a command has read is what the file says, as long as nobody else
\* wrote since it started and nobody is writing.
Agrees(c) ==
  /\ c.pc \in {"ask", "open"} /\ c.op = "init" => ~file.there
  /\ c.pc \in {"save", "saveopen"} =>
       file.there /\ file.tokens = <<>> /\ c.agents = file.agents
  /\ c.pc = "saveopen" => Saving(c)

\* Written and still to write are the whole file.
Token(c) == IF file.tokens = <<>> THEN c.todo[1].tokens ELSE file.tokens

Begun(c) == file.tokens = <<>> /\ file.agents = <<>> /\ Prepared(c)

\* The token and the first sections are written, the others not yet.
HalfDone(done, todo, all) ==
  /\ todo # <<>> /\ Len(done) + Len(todo) = Len(all)
  /\ \A i \in 1..Len(done) : done[i] = all[i]
  /\ \A i \in 1..Len(todo) : todo[i] = Chunk(<<>>, <<all[Len(done) + i]>>)

\* The last section still lacks its keys.
ButKeys(done, all) ==
  /\ done # <<>> /\ Len(done) = Len(all)
  /\ \A i \in 1..(Len(done) - 1) : done[i] = all[i]
  /\ all[Len(all)].keys = 1
  /\ done[Len(done)] = [all[Len(all)] EXCEPT !.keys = 0]

Continues(c) ==
  /\ c.pc \in {"write", "savewrite"} =>
       /\ c.fresh /\ ~file.junk
       /\ \A token \in given : Token(c) = <<token>>
  /\ c.pc = "savewrite" =>
       /\ file.tokens = <<>> /\ file.agents = <<>>
       /\ Saving(c) /\ c.agents = wanted
  /\ c.pc = "write" =>
       \/ Begun(c)
       \/ Len(file.tokens) = 1 /\ HalfDone(file.agents, c.todo, Target(c))
  /\ c.pc = "keys" =>
       /\ ~file.junk /\ GivenIs(file.tokens)
       /\ ButKeys(file.agents, wanted) /\ Readable(wanted)

Together(t) == /\ cmd[t].fresh /\ Quiet => Agrees(cmd[t])
               /\ Continues(cmd[t])

InOrder ==
  ~spoiled => OneWriter /\ WholeFile /\ \A t \in Terminals : Together(t)

ConfigInv == ConfigTypeOK /\ OpsOK /\ InOrder

-----------------------------------------------------------------------------
\* RemoveAgent's loop keeps the agents with another name, and rewriteConfig
\* some of their keys.
Untuned(a) == [a EXCEPT !.tuned = FALSE]
KeepStep(id) == [pair \in Seq(Sections) \X Sections |->
                   IF pair[2].id = id THEN pair[1] ELSE Append(pair[1], Untuned(pair[2]))]

LEMMA UntunedTyped ==
  ASSUME NEW a \in Sections
  PROVE  Untuned(a) \in Sections /\ Untuned(a).keys = a.keys /\ Untuned(a).id = a.id
BY DEF Untuned, Sections

LEMMA KeepStepType ==
  ASSUME NEW id, NEW kept \in Seq(Sections), NEW a \in Sections
  PROVE  /\ KeepStep(id)[<<kept, a>>] = IF a.id = id THEN kept ELSE Append(kept, Untuned(a))
         /\ KeepStep(id)[<<kept, a>>] \in Seq(Sections)
<1>1. Append(kept, Untuned(a)) \in Seq(Sections)
  BY UntunedTyped
<1>2. KeepStep(id)[<<kept, a>>] = IF a.id = id THEN kept ELSE Append(kept, Untuned(a))
  BY DEF KeepStep
<1> QED BY <1>1, <1>2

LEMMA KeepStays ==
  ASSUME NEW id, NEW s \in Seq(Sections)
  PROVE  FoldStays(Seq(Sections), KeepStep(id), <<>>, s)
<1>1. \A kept \in Seq(Sections) : \A n \in 1..Len(s) :
        KeepStep(id)[<<kept, s[n]>>] \in Seq(Sections)
  <2> TAKE kept \in Seq(Sections)
  <2> TAKE n \in 1..Len(s)
  <2>1. s[n] \in Sections
    OBVIOUS
  <2> QED BY <2>1, KeepStepType
<1>2. <<>> \in Seq(Sections) /\ Len(s) \in Nat
  OBVIOUS
<1> QED BY <1>1, <1>2 DEF FoldStays

LEMMA RewrittenIsFold ==
  ASSUME NEW id, NEW s \in Seq(Sections)
  PROVE  Rewritten(s, id) = Folded(Seq(Sections), KeepStep(id), <<>>, s)
<1> DEFINE A == Seq(Sections)
           g == KeepStep(id)
           E(iter) ==
             iter = [t \in SUBSET DOMAIN s |->
                       IF t = {} THEN <<>>
                       ELSE IF s[Max(t)].id = id THEN iter[t \ {Max(t)}]
                            ELSE Append(iter[t \ {Max(t)}], [s[Max(t)] EXCEPT !.tuned = FALSE])]
           c == CHOOSE iter : E(iter)
<1>1. DOMAIN s = 1..Len(s) /\ Len(s) \in Nat
  OBVIOUS
<1>2. Rewritten(s, id) = c[DOMAIN s]
  BY DEF Rewritten, FoldLeft, MapThenFoldSet
<1> HIDE DEF A, g
<1>0. FoldStays(A, g, <<>>, s)
  BY KeepStays DEF A, g
<1>3. \E iter : E(iter)
  <2>1. PICK h \in [SUBSET (1..Len(s)) -> A] : SetFold(h, g, <<>>, s)
    BY <1>0, SetFoldExists
  <2>2. ASSUME NEW t \in SUBSET DOMAIN s, t # {}
        PROVE  h[t] = IF s[Max(t)].id = id THEN h[t \ {Max(t)}]
                      ELSE Append(h[t \ {Max(t)}], [s[Max(t)] EXCEPT !.tuned = FALSE])
    <3>1. Max(t) \in 1..Len(s)
      BY <1>1, <2>2, MaxIn
    <3>2. s[Max(t)] \in Sections /\ h[t \ {Max(t)}] \in A
      BY <1>1, <3>1
    <3>3. h[t] = g[<<h[t \ {Max(t)}], s[Max(t)]>>]
      BY <1>1, <2>1, <2>2 DEF SetFold
    <3> QED BY <3>2, <3>3, KeepStepType DEF A, g, Untuned
  <2>3. h[{}] = <<>>
    BY <2>1 DEF SetFold
  <2>4. E(h)
    BY <1>1, <2>2, <2>3
  <2> QED BY <2>4
<1>4. E(c)
  BY <1>3
<1> HIDE DEF c
<1>5. c[{}] = <<>>
  BY <1>4
<1>6. ASSUME NEW n \in 1..Len(s), c[1..(n - 1)] \in A
      PROVE  c[1..n] = g[<<c[1..(n - 1)], s[n]>>]
  <2>0. n \in Nat /\ n # 0
    BY <1>1
  <2>1. Max(1..n) = n /\ (1..n) \ {n} = 1..(n - 1) /\ 1..n # {}
    BY <2>0, MaxOfFirst
  <2>2. 1..n \in SUBSET DOMAIN s
    BY <1>1
  <2>3. c[1..n] = IF s[Max(1..n)].id = id THEN c[(1..n) \ {Max(1..n)}]
                  ELSE Append(c[(1..n) \ {Max(1..n)}], [s[Max(1..n)] EXCEPT !.tuned = FALSE])
    BY <1>4, <2>1, <2>2, Zenon
  <2>4. c[1..n] = IF s[n].id = id THEN c[1..(n - 1)]
                  ELSE Append(c[1..(n - 1)], Untuned(s[n]))
    BY <2>1, <2>3 DEF Untuned
  <2>5. s[n] \in Sections
    OBVIOUS
  <2> QED BY <1>6, <2>4, <2>5, KeepStepType DEF A, g
<1> HIDE DEF E
<1>7. c[1..Len(s)] = Folded(A, g, <<>>, s)
  <2>1. SetSteps(c, A, g, <<>>, s)
    BY <1>5, <1>6 DEF SetSteps
  <2> QED BY <1>0, <2>1, SetFoldIs
<1> QED BY <1>1, <1>2, <1>7 DEF A, g

LEMMA RewrittenReadable ==
  ASSUME NEW id, NEW s \in Seq(Sections)
  PROVE  /\ Rewritten(s, id) \in Seq(Sections)
         /\ Readable(s) => Readable(Rewritten(s, id))
<1> DEFINE A == Seq(Sections)
           g == KeepStep(id)
<1>0. FoldStays(A, g, <<>>, s)
  BY KeepStays
<1> HIDE DEF A, g
<1>1. PICK f : IsFold(f, A, g, <<>>, s)
  BY <1>0, FoldExists
<1>2. Len(s) \in Nat /\ f[0] = <<>> /\ \A n \in 0..Len(s) : f[n] \in A
  BY <1>1 DEF IsFold
<1>3. ASSUME NEW n \in 1..Len(s)
      PROVE  f[n] = IF s[n].id = id THEN f[n - 1] ELSE Append(f[n - 1], Untuned(s[n]))
  <2>1. f[n - 1] \in A /\ s[n] \in Sections
    BY <1>2
  <2>2. f[n] = g[<<f[n - 1], s[n]>>]
    BY <1>1 DEF IsFold
  <2> QED BY <2>1, <2>2, KeepStepType DEF A, g
<1> DEFINE OK(n) == Readable(s) => Readable(f[n])
           S == {n \in Nat : n <= Len(s) => OK(n)}
<1>4. 0 \in S
  <2>1. Readable(<<>>)
    BY DEF Readable
  <2> QED BY <1>2, <2>1
<1>5. ASSUME NEW n \in S PROVE n + 1 \in S
  <2> DEFINE k == n + 1
  <2> SUFFICES ASSUME k <= Len(s), Readable(s) PROVE Readable(f[k])
    OBVIOUS
  <2>1. k \in 1..Len(s) /\ k - 1 = n /\ n \in 0..Len(s) /\ n \in Nat /\ Readable(f[n])
    BY <1>2
  <2> HIDE DEF k
  <2>2. s[k] \in Sections /\ f[n] \in Seq(Sections) /\ s[k].keys <= 1
    BY <1>2, <2>1 DEF A, Readable
  <2>3. f[k] = IF s[k].id = id THEN f[n] ELSE Append(f[n], Untuned(s[k]))
    BY <1>3, <2>1
  <2>4. CASE s[k].id # id
    <3> DEFINE u == Untuned(s[k])
               new == Append(f[n], u)
    <3>1. u \in Sections /\ u.keys <= 1
      BY <2>2, UntunedTyped
    <3> HIDE DEF u
    <3>2. /\ Len(new) = Len(f[n]) + 1 /\ new[Len(f[n]) + 1] = u
          /\ \A i \in 1..Len(f[n]) : new[i] = f[n][i]
          /\ Len(f[n]) \in Nat /\ f[k] = new
      BY <2>2, <2>3, <2>4, <3>1 DEF u
    <3> HIDE DEF new
    <3>3. ASSUME NEW i \in 1..Len(new) PROVE new[i].keys <= 1
      <4>1. CASE i = Len(f[n]) + 1
        BY <3>1, <3>2, <4>1
      <4>2. CASE i # Len(f[n]) + 1
        <5>1. i \in 1..Len(f[n])
          BY <3>2, <4>2
        <5> QED BY <2>1, <3>2, <5>1 DEF Readable
      <4> QED BY <4>1, <4>2
    <3> QED BY <3>2, <3>3 DEF Readable
  <2> QED BY <2>1, <2>3, <2>4
<1> HIDE DEF S
<1>6. S \in SUBSET Nat
  BY DEF S
<1>7. S = Nat
  BY <1>4, <1>5, <1>6, NatInduct
<1>8. OK(Len(s)) /\ f[Len(s)] \in A
  <2> HIDE DEF OK
  <2>1. Len(s) \in S /\ Len(s) \in 0..Len(s)
    BY <1>2, <1>7
  <2> QED BY <1>2, <2>1 DEF S
<1>9. Rewritten(s, id) = f[Len(s)]
  BY <1>1, <1>2, RewrittenIsFold, FoldedIs DEF A, g
<1> QED BY <1>8, <1>9 DEF A

-----------------------------------------------------------------------------
\* The command does not write and the file stays as it is.
LEMMA Stays ==
  ASSUME ConfigInv, NEW t \in Terminals, NEW c \in Commands, Becomes(t, c), ~Writes(c),
         UNCHANGED <<file, wanted>>, made' \in Nat, spoiled' \in BOOLEAN,
         ~spoiled' => ~spoiled /\ ~Halfway(t),
         given \subseteq given',
         \A token \in given' : token \in given \/ (file.there /\ file.tokens = <<token>>),
         OpOK(c), c.op = "add" => file.there,
         c.pc = "open" /\ c.op = "remove" => c.token \in given',
         ~spoiled' /\ c.fresh /\ Quiet => Agrees(c)
  PROVE  ConfigInv'
<1>1. cmd' \in [Terminals -> Commands] /\ cmd'[t] = c
      /\ \A u \in Terminals \ {t} : cmd'[u] = cmd[u]
  BY DEF Becomes, ConfigInv, ConfigTypeOK
<1>2. ConfigTypeOK'
  <2>1. ASSUME NEW token \in given' PROVE token \in Nat
    <3>1. CASE token \in given
      BY <3>1 DEF ConfigInv, ConfigTypeOK
    <3>2. CASE file.tokens = <<token>>
      <4>1. file.tokens \in Seq(Nat)
        BY DEF ConfigInv, ConfigTypeOK, Files
      <4>2. Len(file.tokens) = 1 /\ file.tokens[1] = token
        BY <3>2
      <4> QED BY <4>1, <4>2
    <3> QED BY <3>1, <3>2
  <2> QED BY <1>1, <2>1 DEF ConfigInv, ConfigTypeOK
<1>3. \A u \in Terminals : Halfway(u)' => u # t /\ Halfway(u)
  BY <1>1 DEF Halfway, Writes
<1>4. OpsOK'
  <2>1. \A u \in Terminals : OpOK(cmd'[u])
    BY <1>1 DEF ConfigInv, OpsOK
  <2>2. ASSUME NEW u \in Terminals PROVE WasGiven(cmd[u])'
    <3>1. CASE u = t
      BY <1>1, <3>1 DEF WasGiven
    <3>2. CASE u # t
      BY <1>1, <3>2 DEF WasGiven, ConfigInv, OpsOK
    <3> QED BY <3>1, <3>2
  <2> QED BY <1>1, <1>3, <2>1, <2>2 DEF ConfigInv, OpsOK
<1>5. ASSUME ~spoiled' PROVE OneWriter' /\ WholeFile' /\ \A u \in Terminals : Together(u)'
  <2>0. OneWriter /\ WholeFile /\ (\A u \in Terminals : Together(u)) /\ ~Halfway(t)
    BY <1>5 DEF ConfigInv, InOrder
  <2>1. OneWriter'
    BY <1>3, <2>0 DEF OneWriter
  <2>2. Quiet' => Quiet
    BY <1>1, <2>0 DEF Quiet, Halfway
  <2>3. file' = file /\ wanted' = wanted /\ file.tokens \in Seq(Nat)
    BY DEF ConfigInv, ConfigTypeOK, Files
  <2>4. GivenIs(file.tokens) => GivenIs(file.tokens)'
    BY <2>3 DEF GivenIs
  <2>5. WholeFile'
    BY <2>0, <2>2, <2>3, <2>4 DEF WholeFile, GivenIs
  <2>A. ASSUME NEW d \in Commands PROVE Agrees(d) => Agrees(d)'
    BY <2>3 DEF Agrees
  <2>B. ASSUME NEW d \in Commands PROVE Continues(d) => Continues(d)'
    <3> SUFFICES ASSUME Continues(d) PROVE Continues(d)'
      OBVIOUS
    <3>1. ASSUME d.pc \in {"write", "savewrite"}, NEW token \in given'
          PROVE  Token(d)' = <<token>>
      <4>1. Token(d)' = Token(d)
        BY <2>3 DEF Token
      <4>2. CASE token \in given
        BY <3>1, <4>1, <4>2 DEF Continues
      <4>3. CASE file.tokens = <<token>>
        BY <4>1, <4>3 DEF Token
      <4> QED BY <4>2, <4>3
    <3>2. Begun(d) => Begun(d)'
      BY <2>3 DEF Begun
    <3> QED BY <2>3, <2>4, <3>1, <3>2 DEF Continues
  <2>6. ASSUME NEW u \in Terminals, u # t PROVE Together(u)'
    <3>1. cmd'[u] = cmd[u] /\ Together(u) /\ cmd[u] \in Commands
      BY <1>1, <2>0, <2>6 DEF ConfigInv, ConfigTypeOK
    <3>2. \A d \in Commands : d = cmd'[u] /\ d = cmd[u] => Together(u)'
      BY <2>2, <2>A, <2>B, <3>1 DEF Together
    <3> QED BY <3>1, <3>2
  <2>7. Together(t)'
    <3>1. Agrees(c) => Agrees(c)'
      BY DEF Agrees
    <3>2. Continues(c)'
      BY DEF Continues, Writes
    <3> QED BY <1>1, <1>5, <2>2, <3>1, <3>2 DEF Together
  <2> QED BY <2>1, <2>5, <2>6, <2>7
<1> QED BY <1>2, <1>4, <1>5 DEF ConfigInv, InOrder

\* The command changes the file, and nobody else was writing it.
LEMMA Changes ==
  ASSUME ConfigInv, NEW t \in Terminals, NEW c \in Commands, NEW f \in Files,
         Change(t, c, f), f.there,
         made' \in Nat, spoiled' \in BOOLEAN, wanted' \in Seq(Sections),
         given \subseteq given', given' \subseteq Nat,
         ~spoiled' => \A u \in Terminals \ {t} : ~Halfway(u),
         OpOK(c), WasGiven(c)',
         ~spoiled' => Continues(c)',
         ~spoiled' /\ ~Writes(c) =>
           /\ ~f.junk /\ GivenIs(f.tokens)'
           /\ f.agents = wanted' /\ Readable(f.agents)
           /\ c.fresh => Agrees(c)'
  PROVE  ConfigInv'
<1>1. file' = f /\ cmd'[t] = c
      /\ \A u \in Terminals \ {t} : cmd'[u] = [cmd[u] EXCEPT !.fresh = FALSE]
  BY DEF Change
<1>2. \A u \in Terminals \ {t} :
        /\ cmd'[u] \in Commands /\ ~cmd'[u].fresh
        /\ cmd'[u].pc = cmd[u].pc /\ cmd'[u].op = cmd[u].op /\ cmd'[u].id = cmd[u].id
        /\ cmd'[u].todo = cmd[u].todo /\ cmd'[u].token = cmd[u].token
        /\ cmd'[u].agents = cmd[u].agents
  <2> TAKE u \in Terminals \ {t}
  <2>1. cmd[u] \in Commands
    BY DEF ConfigInv, ConfigTypeOK
  <2>2. cmd'[u] = [cmd[u] EXCEPT !.fresh = FALSE]
    BY <1>1
  <2> HIDE DEF Sections, Chunks, Points
  <2> QED BY <2>1, <2>2 DEF Commands
<1>3. cmd' \in [Terminals -> Commands]
  <2>1. cmd' = [u \in Terminals |-> IF u = t THEN c ELSE [cmd[u] EXCEPT !.fresh = FALSE]]
    BY DEF Change
  <2> HIDE DEF Commands
  <2> QED BY <1>1, <1>2, <2>1
<1>4. ConfigTypeOK'
  BY <1>1, <1>3 DEF ConfigInv, ConfigTypeOK
<1>5. OpsOK'
  <2>1. \A u \in Terminals : OpOK(cmd[u]) /\ WasGiven(cmd[u])
    BY DEF ConfigInv, OpsOK
  <2>2. \A u \in Terminals : OpOK(cmd'[u])
    <3> TAKE u \in Terminals
    <3>1. CASE u = t
      BY <1>1, <3>1
    <3>2. CASE u # t
      <4> DEFINE d == cmd[u]
                 e == cmd'[u]
      <4>1. /\ e.pc = d.pc /\ e.op = d.op /\ e.id = d.id
            /\ e.todo = d.todo /\ e.token = d.token /\ e.agents = d.agents /\ OpOK(d)
        BY <1>2, <2>1, <3>2
      <4> HIDE DEF d, e
      <4>2. Target(e) = Target(d)
        BY <4>1 DEF Target
      <4>3. Prepared(d) => Prepared(e)
        BY <4>1, <4>2 DEF Prepared
      <4>4. OpOK(e)
        BY <4>1, <4>3 DEF OpOK
      <4> QED BY <4>4 DEF e
    <3> QED BY <3>1, <3>2
  <2>3. ASSUME NEW u \in Terminals PROVE WasGiven(cmd[u])'
    <3>1. CASE u = t
      BY <1>1, <3>1 DEF WasGiven
    <3>2. CASE u # t
      BY <1>2, <2>1, <3>2 DEF WasGiven
    <3> QED BY <3>1, <3>2
  <2> QED BY <1>1, <2>2, <2>3 DEF OpsOK
<1>6. ASSUME ~spoiled' PROVE OneWriter' /\ WholeFile' /\ \A u \in Terminals : Together(u)'
  <2>1. \A u \in Terminals \ {t} : ~Halfway(u)'
    BY <1>2, <1>6 DEF Halfway
  <2>2. Halfway(t)' <=> Writes(c)
    BY <1>1 DEF Halfway, Writes
  <2>3. OneWriter'
    BY <2>1 DEF OneWriter
  <2>4. WholeFile'
    BY <1>1, <1>6, <2>2 DEF WholeFile, Quiet
  <2>5. Together(t)'
    BY <1>1, <1>6, <2>2 DEF Together, Quiet
  <2>6. ASSUME NEW u \in Terminals, u # t PROVE Together(u)'
    <3>1. ~cmd'[u].fresh /\ cmd'[u].pc \notin {"write", "savewrite", "keys"}
      BY <1>2, <2>1, <2>6 DEF Halfway
    <3>2. Continues(cmd[u])'
      BY <3>1 DEF Continues
    <3> QED BY <3>1, <3>2 DEF Together
  <2> QED BY <2>3, <2>4, <2>5, <2>6
<1> QED BY <1>4, <1>5, <1>6 DEF ConfigInv, InOrder

-----------------------------------------------------------------------------
LEMMA CommandTyped ==
  ASSUME ConfigInv, NEW t \in Terminals
  PROVE  /\ cmd[t] \in Commands /\ OpOK(cmd[t]) /\ WasGiven(cmd[t])
         /\ cmd[t].op = "add" \/ Halfway(t) => file.there
         /\ file \in Files /\ file.tokens \in Seq(Nat) /\ file.agents \in Seq(Sections)
         /\ ~spoiled /\ ~Halfway(t) /\ (\A u \in Terminals \ {t} : ~Halfway(u)) =>
              Quiet /\ WholeFile
         /\ ~spoiled => Together(t) /\ WholeFile
         /\ ~spoiled /\ Halfway(t) => \A u \in Terminals \ {t} : ~Halfway(u)
BY DEF ConfigInv, ConfigTypeOK, OpsOK, InOrder, OneWriter, Quiet, Files

LEMMA IdleTyped ==
  /\ NotRunning \in Commands /\ ~Writes(NotRunning) /\ OpOK(NotRunning)
  /\ NotRunning.op = "none" /\ ~NotRunning.fresh
  /\ NotRunning.pc = "idle"
<1>1. <<>> \in Seq(Sections) /\ <<>> \in Seq(Chunks) /\ Readable(<<>>)
  BY DEF Readable
<1> QED BY <1>1 DEF NotRunning, Commands, Writes, OpOK, Points

\* What follows Load: nothing, add's prompts, or remove's new file.
LEMMA LoadedIs ==
  ASSUME NEW d \in Commands, OpOK(d), d.op \in {"load", "add", "remove"}
  PROVE  /\ Loaded(d) \in Commands /\ OpOK(Loaded(d)) /\ ~Writes(Loaded(d))
         /\ Loaded(d).op = "add" => d.op = "add"
         /\ Loaded(d).pc \in {"idle", "ask", "open"}
         /\ Loaded(d).pc = "ask" => Loaded(d).op = "add"
         /\ Loaded(d).fresh => d.fresh
         /\ Loaded(d).pc = "open" => Loaded(d).op = "remove" /\ Loaded(d).token = d.token
<1> DEFINE others == Rewritten(d.agents, d.id)
           known == d.id \in AgentIds(d.agents)
           todo == <<Chunk(<<d.token>>, <<>>)>>
                     \o [i \in DOMAIN others |-> Chunk(<<>>, <<others[i]>>)]
           asks == [d EXCEPT !.pc = "ask", !.todo = <<>>]
           opens == [d EXCEPT !.pc = "open", !.todo = todo]
<1>1. d.agents \in Seq(Sections) /\ d.token \in Nat /\ Readable(d.agents)
  BY DEF Commands, OpOK
<1>2. others \in Seq(Sections)
  BY <1>1, RewrittenReadable
<1>3. Loaded(d) = IF d.op = "add" /\ ~known THEN asks
                  ELSE IF d.op = "remove" /\ known THEN opens ELSE NotRunning
  BY DEF Loaded
<1> HIDE DEF others
<1>4. /\ Len(others) \in Nat /\ DOMAIN others = 1..Len(others)
      /\ \A i \in 1..Len(others) : others[i] \in Sections
  BY <1>2
<1>5. /\ todo \in Seq(Chunks) /\ Len(todo) = Len(others) + 1
      /\ todo[1] = Chunk(<<d.token>>, <<>>)
      /\ \A i \in 2..Len(todo) : todo[i] = Chunk(<<>>, <<others[i - 1]>>)
  <2> DEFINE rest == [i \in 1..Len(others) |-> Chunk(<<>>, <<others[i]>>)]
             first == <<Chunk(<<d.token>>, <<>>)>>
  <2>1. ASSUME NEW i \in 1..Len(others) PROVE Chunk(<<>>, <<others[i]>>) \in Chunks
    <3>1. others[i] \in Sections
      BY <1>4
    <3> HIDE DEF Sections
    <3>2. <<others[i]>> \in Seq(Sections) /\ <<>> \in Seq(Nat)
      BY <3>1
    <3> QED BY <3>2 DEF Chunks, Chunk
  <2>2. Chunk(<<d.token>>, <<>>) \in Chunks
    <3>1. <<d.token>> \in Seq(Nat) /\ <<>> \in Seq(Sections)
      BY <1>1
    <3> QED BY <3>1 DEF Chunks, Chunk
  <2> HIDE DEF Chunks
  <2>3. rest \in Seq(Chunks) /\ Len(rest) = Len(others) /\ first \in Seq(Chunks)
        /\ Len(first) = 1 /\ first[1] = Chunk(<<d.token>>, <<>>)
        /\ \A i \in 1..Len(others) : rest[i] = Chunk(<<>>, <<others[i]>>)
    BY <1>4, <2>1, <2>2 DEF Chunk
  <2>4. todo = first \o rest
    BY <1>4
  <2> HIDE DEF rest, first
  <2>5. /\ todo \in Seq(Chunks) /\ Len(todo) = Len(others) + 1 /\ todo[1] = first[1]
        /\ \A i \in 2..Len(todo) : todo[i] = rest[i - 1]
    <3>1. todo \in Seq(Chunks) /\ Len(todo) = 1 + Len(others)
      BY <1>4, <2>3, <2>4
    <3>2. \A i \in 1..Len(todo) : todo[i] = IF i <= 1 THEN first[i] ELSE rest[i - 1]
      BY <1>4, <2>3, <2>4
    <3>3. 1 \in 1..Len(todo) /\ \A i \in 2..Len(todo) : i \in 1..Len(todo) /\ ~(i <= 1)
      BY <1>4, <3>1
    <3> HIDE DEF todo
    <3>4. todo[1] = first[1]
      BY <3>2, <3>3
    <3>5. \A i \in 2..Len(todo) : todo[i] = rest[i - 1]
      BY <3>2, <3>3
    <3> QED BY <1>4, <3>1, <3>4, <3>5
  <2> HIDE DEF todo
  <2>6. \A i \in 2..Len(todo) : i - 1 \in 1..Len(others)
    BY <1>4, <2>5
  <2> QED BY <2>3, <2>5, <2>6
<1> HIDE DEF todo
<1>6. \A i \in 1..Len(others) : todo[i + 1] = Chunk(<<>>, <<others[i]>>)
  <2> TAKE i \in 1..Len(others)
  <2> DEFINE k == i + 1
  <2>1. k \in 2..Len(todo) /\ k - 1 = i
    BY <1>4, <1>5
  <2> HIDE DEF k
  <2>2. todo[k] = Chunk(<<>>, <<others[i]>>)
    BY <1>5, <2>1
  <2> QED BY <2>2 DEF k
<1>7. Len(todo[1].tokens) = 1 /\ todo[1].agents = <<>> /\ ~todo[1].junk
      /\ todo[1].tokens = <<d.token>>
  BY <1>5 DEF Chunk
<1>9. asks \in Commands /\ asks.op = d.op /\ asks.pc = "ask" /\ asks.id = d.id
      /\ asks.fresh = d.fresh /\ asks.agents = d.agents
  <2>1. <<>> \in Seq(Chunks)
    OBVIOUS
  <2> QED BY <2>1 DEF Commands, Points
<1>10. opens \in Commands /\ opens.op = d.op /\ opens.pc = "open" /\ opens.id = d.id
       /\ opens.todo = todo /\ opens.fresh = d.fresh /\ opens.agents = d.agents
       /\ opens.token = d.token
  BY <1>5 DEF Commands, Points
<1> HIDE DEF asks, opens
<1>11. CASE Loaded(d) = asks /\ d.op = "add"
  BY <1>1, <1>9, <1>11 DEF OpOK, Writes
<1>12. CASE Loaded(d) = opens /\ d.op = "remove"
  <2>1. Target(opens) = others
    BY <1>10, <1>12 DEF Target, others
  <2>2. Prepared(opens)
    BY <1>5, <1>6, <1>7, <1>10, <2>1 DEF Prepared
  <2> QED BY <1>1, <1>7, <1>10, <1>12, <2>2 DEF OpOK, Writes
<1>13. CASE Loaded(d) = NotRunning
  BY <1>13, IdleTyped
<1> QED BY <1>3, <1>11, <1>12, <1>13

-----------------------------------------------------------------------------
\* The commands that only look at the file, or have it in mind.
LEMMA StartStep ==
  ASSUME ConfigInv, NEW t \in Terminals, NEW op, NEW id, Start(t, op, id),
         \/ op \in {"init", "add", "remove"} /\ id \in Ids
         \/ op = "load" /\ id = "none"
  PROVE  ConfigInv'
<1> DEFINE c == [NotRunning EXCEPT !.pc = IF op = "init" THEN "ask" ELSE "load",
                                  !.op = op, !.id = id, !.fresh = TRUE]
<1>1. /\ c \in Commands /\ c.pc = (IF op = "init" THEN "ask" ELSE "load")
      /\ c.op = op /\ c.id = id /\ c.agents = <<>>
  <2>1. <<>> \in Seq(Sections) /\ <<>> \in Seq(Chunks)
    OBVIOUS
  <2> QED BY <2>1 DEF NotRunning, Commands, Points
<1>2. /\ Becomes(t, c) /\ ~Halfway(t) /\ (op = "init" => ~file.there)
      /\ (op = "add" => file.there)
      /\ UNCHANGED <<file, made, wanted, given, spoiled>>
  BY DEF Start, At, Halfway
<1> HIDE DEF c
<1>0. Readable(<<>>)
  BY DEF Readable
<1>3. OpOK(c) /\ ~Writes(c) /\ (c.op = "add" => file.there) /\ Agrees(c) /\ (c.pc = "open" /\ c.op = "remove" => c.token \in given')
  BY <1>0, <1>1, <1>2 DEF OpOK, Writes, Agrees, WasGiven
<1>4. made' \in Nat /\ spoiled' \in BOOLEAN
  BY <1>2 DEF ConfigInv, ConfigTypeOK
<1> QED BY <1>1, <1>2, <1>3, <1>4, Stays

LEMMA StopStep ==
  ASSUME ConfigInv, NEW t \in Terminals, LoadFails(t) \/ Kill(t)
  PROVE  ConfigInv'
<1>1. /\ Becomes(t, NotRunning) /\ UNCHANGED <<file, made, wanted, given>>
      /\ ~spoiled' => ~spoiled /\ ~Halfway(t)
      /\ spoiled' \in BOOLEAN
  BY DEF LoadFails, Kill, At, Halfway, ConfigInv, ConfigTypeOK
<1>2. made' \in Nat /\ (NotRunning.pc = "open" => NotRunning.token \in given')
  BY <1>1, IdleTyped DEF ConfigInv, ConfigTypeOK, WasGiven
<1>3. Agrees(NotRunning)
  BY IdleTyped DEF Agrees
<1> QED BY <1>1, <1>2, <1>3, IdleTyped, Stays

LEMMA LoadWithTokenStep ==
  ASSUME ConfigInv, NEW t \in Terminals, LoadWithToken(t)
  PROVE  ConfigInv'
<1> DEFINE d == [cmd[t] EXCEPT !.token = file.tokens[1], !.agents = file.agents]
           c == Loaded(d)
<1>1. /\ cmd[t] \in Commands /\ OpOK(cmd[t]) /\ cmd[t].pc = "load" /\ ~Halfway(t)
      /\ file.there /\ Len(file.tokens) <= 1 /\ file.tokens # <<>>
      /\ file.tokens \in Seq(Nat) /\ file.agents \in Seq(Sections)
      /\ Loadable(file)
      /\ cmd[t].op = "add" => file.there
  BY CommandTyped DEF LoadWithToken, At, Halfway, Loadable
<1>A. Readable(file.agents)
  BY <1>1 DEF Loadable, Readable
<1>2. file.tokens = <<file.tokens[1]>> /\ file.tokens[1] \in Nat
  BY <1>1
<1>3. /\ d \in Commands /\ d.op = cmd[t].op /\ d.id = cmd[t].id /\ d.fresh = cmd[t].fresh
      /\ d.token = file.tokens[1] /\ d.agents = file.agents /\ d.pc = "load"
      /\ d.todo = cmd[t].todo
  BY <1>1, <1>2 DEF Commands
<1>4. /\ Becomes(t, c) /\ given' = given \cup {file.tokens[1]}
      /\ UNCHANGED <<file, commands, made, wanted, spoiled>>
  BY DEF LoadWithToken
<1> HIDE DEF d
<1>5. OpOK(d) /\ d.op \in {"load", "add", "remove"}
  BY <1>1, <1>3, <1>A DEF OpOK
<1>6. /\ c \in Commands /\ OpOK(c) /\ ~Writes(c)
      /\ c.op = "add" => d.op = "add"
      /\ c.pc \in {"idle", "ask", "open"} /\ (c.pc = "ask" => c.op = "add")
      /\ c.pc = "open" => c.op = "remove" /\ c.token = d.token
  BY <1>3, <1>5, LoadedIs
<1> HIDE DEF c
<1>7. Agrees(c)
  BY <1>6 DEF Agrees
<1>B. (c.pc = "open" /\ c.op = "remove" => c.token \in given') /\ (c.op = "add" => file.there)
  BY <1>1, <1>3, <1>4, <1>6 DEF WasGiven
<1>8. made' \in Nat /\ spoiled' \in BOOLEAN /\ (~spoiled' => ~spoiled)
  BY <1>4 DEF ConfigInv, ConfigTypeOK
<1>9. /\ \A token \in given' : token \in given \/ (file.there /\ file.tokens = <<token>>)
      /\ given \subseteq given'
  BY <1>1, <1>2, <1>4
<1>10. UNCHANGED <<file, wanted>>
  BY <1>4
<1> QED BY <1>1, <1>4, <1>6, <1>7, <1>B, <1>8, <1>9, <1>10, Stays

LEMMA LoadWithoutTokenStep ==
  ASSUME ConfigInv, NEW t \in Terminals, LoadWithoutToken(t)
  PROVE  ConfigInv'
<1> DEFINE c == [cmd[t] EXCEPT !.pc = "save", !.token = made + 1, !.agents = file.agents]
<1>1. /\ cmd[t] \in Commands /\ OpOK(cmd[t]) /\ cmd[t].pc = "load" /\ ~Halfway(t)
      /\ file.there /\ file.tokens = <<>> /\ file.agents \in Seq(Sections)
      /\ made \in Nat /\ spoiled \in BOOLEAN /\ Loadable(file)
      /\ cmd[t].op = "add" => file.there
  BY CommandTyped DEF LoadWithoutToken, At, Halfway, Loadable, ConfigInv, ConfigTypeOK
<1>A. Readable(file.agents)
  BY <1>1 DEF Loadable, Readable
<1>2. /\ c \in Commands /\ c.op = cmd[t].op /\ c.id = cmd[t].id /\ c.pc = "save"
      /\ c.agents = file.agents
  <2>1. made + 1 \in Nat
    BY <1>1
  <2> HIDE DEF Sections, Chunks
  <2> QED BY <1>1, <2>1 DEF Commands, Points
<1>3. /\ Becomes(t, c) /\ made' = made + 1
      /\ UNCHANGED <<file, wanted, given, spoiled>>
  BY DEF LoadWithoutToken
<1> HIDE DEF c
<1>4. OpOK(c) /\ ~Writes(c) /\ Agrees(c) /\ (c.pc = "open" /\ c.op = "remove" => c.token \in given')
  BY <1>1, <1>2, <1>A DEF OpOK, Writes, Agrees, WasGiven
<1>5. made' \in Nat
  BY <1>1, <1>3
<1> QED BY <1>1, <1>3, <1>4, <1>5, <1>2, Stays

LEMMA AppendTokenStep ==
  ASSUME ConfigInv, NEW t \in Terminals, AppendToken(t)
  PROVE  ConfigInv'
<1> DEFINE chunk == [tokens |-> <<cmd[t].token>> \o file.tokens,
                     agents |-> file.agents, junk |-> file.junk]
           c == [cmd[t] EXCEPT !.pc = "saveopen", !.todo = <<chunk>>]
<1>1. /\ cmd[t] \in Commands /\ OpOK(cmd[t]) /\ cmd[t].pc = "save" /\ ~Halfway(t)
      /\ file \in Files /\ (cmd[t].op = "add" => file.there)
      /\ made \in Nat /\ spoiled \in BOOLEAN
  BY CommandTyped DEF AppendToken, At, Halfway, ConfigInv, ConfigTypeOK
<1>2. chunk \in Chunks
  <2>1. cmd[t].token \in Nat /\ file.tokens \in Seq(Nat)
    BY <1>1 DEF Files, Commands
  <2>2. <<cmd[t].token>> \o file.tokens \in Seq(Nat)
    BY <2>1
  <2> QED BY <1>1, <2>2 DEF Chunks, Files
<1>3. Becomes(t, c) /\ UNCHANGED <<file, made, wanted, given, spoiled>>
  BY DEF AppendToken
<1>4. /\ chunk.tokens = <<cmd[t].token>> \o file.tokens /\ chunk.agents = file.agents
      /\ chunk.junk = file.junk
  OBVIOUS
<1> HIDE DEF chunk
<1>5. <<chunk>> \in Seq(Chunks)
  BY <1>2
<1>6. /\ c \in Commands /\ c.op = cmd[t].op /\ c.id = cmd[t].id /\ c.pc = "saveopen"
      /\ c.agents = cmd[t].agents /\ c.todo = <<chunk>> /\ c.fresh = cmd[t].fresh
      /\ c.token = cmd[t].token
  BY <1>1, <1>5 DEF Commands, Points
<1> HIDE DEF c
<1>7. OpOK(c) /\ ~Writes(c) /\ (c.pc = "open" /\ c.op = "remove" => c.token \in given')
  BY <1>1, <1>6 DEF OpOK, Writes, WasGiven
<1>8. ASSUME ~spoiled, c.fresh, Quiet PROVE Agrees(c)
  <2>1. file.there /\ file.tokens = <<>> /\ cmd[t].agents = file.agents /\ ~file.junk
    BY <1>1, <1>6, <1>8, CommandTyped DEF Together, Agrees, WholeFile
  <2>2. chunk.tokens = <<cmd[t].token>>
    BY <1>1, <1>4, <2>1
  <2>3. Len(c.todo) = 1 /\ c.todo[1] = chunk
    BY <1>6
  <2>5. Saving(c)
    BY <1>4, <1>6, <2>1, <2>2, <2>3 DEF Saving
  <2> QED BY <1>6, <2>1, <2>5 DEF Agrees
<1> QED BY <1>1, <1>3, <1>6, <1>7, <1>8, Stays

LEMMA WriteDefaultStep ==
  ASSUME ConfigInv, NEW t \in Terminals, WriteDefault(t)
  PROVE  ConfigInv'
<1> DEFINE id == cmd[t].id
           todo == <<Chunk(<<made + 1>>, <<>>), Chunk(<<>>, <<Section(id)>>)>>
           c == [cmd[t] EXCEPT !.pc = "open", !.todo = todo]
<1>1. /\ cmd[t] \in Commands /\ OpOK(cmd[t]) /\ cmd[t].pc = "ask" /\ cmd[t].op = "init"
      /\ id \in Ids /\ ~Halfway(t) /\ made \in Nat /\ spoiled \in BOOLEAN
  BY CommandTyped DEF WriteDefault, At, Halfway, ConfigInv, ConfigTypeOK, OpOK
<1>2. Becomes(t, c) /\ made' = made + 1 /\ UNCHANGED <<file, wanted, given, spoiled>>
  BY DEF WriteDefault
<1>3. Section(id) \in Sections
  BY <1>1 DEF Section, Sections
<1>4. /\ todo \in Seq(Chunks) /\ Len(todo) = 2 /\ todo # <<>>
      /\ todo[1] = Chunk(<<made + 1>>, <<>>) /\ todo[2] = Chunk(<<>>, <<Section(id)>>)
  <2>1. <<made + 1>> \in Seq(Nat) /\ <<>> \in Seq(Nat) /\ <<>> \in Seq(Sections)
    BY <1>1
  <2>2. <<Section(id)>> \in Seq(Sections)
    BY <1>3
  <2>3. Chunk(<<made + 1>>, <<>>) \in Chunks /\ Chunk(<<>>, <<Section(id)>>) \in Chunks
    BY <2>1, <2>2 DEF Chunk, Chunks
  <2> QED BY <2>3
<1> HIDE DEF todo
<1>5. /\ c \in Commands /\ c.op = "init" /\ c.id = id /\ c.pc = "open" /\ c.todo = todo
      /\ c.fresh = cmd[t].fresh /\ c.agents = cmd[t].agents
  BY <1>1, <1>4 DEF Commands, Points
<1> HIDE DEF c
<1>6. Prepared(c)
  <2> DEFINE all == Target(c)
             s == Section(id)
  <2>0. all = <<s>>
    BY <1>5 DEF Target
  <2> HIDE DEF s
  <2>1. Len(all) = 1 /\ all[1] = s /\ 1..Len(all) = {1} /\ 1 + 1 = 2
    BY <2>0
  <2>2. Len(todo[1].tokens) = 1 /\ todo[1].agents = <<>> /\ ~todo[1].junk
    BY <1>4 DEF Chunk
  <2> HIDE DEF all
  <2>3. \A i \in 1..Len(all) : c.todo[i + 1] = Chunk(<<>>, <<all[i]>>)
    BY <1>4, <1>5, <2>1 DEF s
  <2>4. Len(c.todo) = Len(all) + 1
    BY <1>4, <1>5, <2>1
  <2> QED BY <1>5, <2>2, <2>3, <2>4 DEF Prepared, all
<1>7. OpOK(c) /\ ~Writes(c) /\ (c.pc = "open" /\ c.op = "remove" => c.token \in given')
  BY <1>1, <1>5, <1>6 DEF OpOK, Writes, WasGiven
<1>8. ASSUME ~spoiled, c.fresh, Quiet PROVE Agrees(c)
  <2>1. ~file.there
    BY <1>1, <1>5, <1>8, CommandTyped DEF Together, Agrees
  <2> QED BY <1>5, <2>1 DEF Agrees
<1>9. made' \in Nat
  BY <1>1, <1>2
<1> QED BY <1>1, <1>2, <1>5, <1>7, <1>8, <1>9, Stays

-----------------------------------------------------------------------------
\* The commands that write.

\* The first chunk of what is still to write, and the others.
LEMMA ChunkTyped ==
  ASSUME NEW todo \in Seq(Chunks), todo # <<>>
  PROVE  /\ Head(todo) = todo[1] /\ todo[1] \in Chunks
         /\ todo[1].tokens \in Seq(Nat) /\ todo[1].agents \in Seq(Sections)
         /\ todo[1].junk \in BOOLEAN
         /\ Tail(todo) \in Seq(Chunks) /\ Len(Tail(todo)) = Len(todo) - 1
         /\ \A i \in 1..Len(Tail(todo)) : Tail(todo)[i] = todo[i + 1]
<1>1. todo[1] \in Chunks
  OBVIOUS
<1>2. todo[1].tokens \in Seq(Nat) /\ todo[1].agents \in Seq(Sections)
      /\ todo[1].junk \in BOOLEAN
  BY <1>1 DEF Chunks
<1> QED BY <1>1, <1>2

LEMMA EmptyFile ==
  /\ File(Chunk(<<>>, <<>>)) \in Files /\ File(Chunk(<<>>, <<>>)).there
  /\ File(Chunk(<<>>, <<>>)).tokens = <<>> /\ File(Chunk(<<>>, <<>>)).agents = <<>>
  /\ ~File(Chunk(<<>>, <<>>)).junk
<1>1. <<>> \in Seq(Nat) /\ <<>> \in Seq(Sections)
  OBVIOUS
<1> QED BY <1>1 DEF File, Chunk, Files

LEMMA TruncateStep ==
  ASSUME ConfigInv, NEW t \in Terminals, Truncate(t)
  PROVE  ConfigInv'
<1> DEFINE empty == File(Chunk(<<>>, <<>>))
<1>1. PICK pc \in {"write", "savewrite"} :
        /\ cmd[t].pc = IF pc = "write" THEN "open" ELSE "saveopen"
        /\ Change(t, [[cmd[t] EXCEPT !.fresh = TRUE] EXCEPT !.pc = pc], empty)
  BY DEF Truncate, At
<1>2. /\ cmd[t] \in Commands /\ OpOK(cmd[t]) /\ WasGiven(cmd[t]) /\ ~Halfway(t)
      /\ made \in Nat /\ wanted \in Seq(Sections) /\ given \subseteq Nat
      /\ spoiled \in BOOLEAN
  BY <1>1, CommandTyped DEF Halfway, ConfigInv, ConfigTypeOK
<1>3. PICK c \in Commands :
        /\ c = [[cmd[t] EXCEPT !.fresh = TRUE] EXCEPT !.pc = pc]
        /\ c.op = cmd[t].op /\ c.id = cmd[t].id /\ c.pc = pc
        /\ c.agents = cmd[t].agents /\ c.todo = cmd[t].todo /\ c.fresh
        /\ c.token = cmd[t].token
  <2> DEFINE d == [[cmd[t] EXCEPT !.fresh = TRUE] EXCEPT !.pc = pc]
  <2>1. /\ d \in Commands /\ d.op = cmd[t].op /\ d.id = cmd[t].id /\ d.pc = pc
        /\ d.agents = cmd[t].agents /\ d.todo = cmd[t].todo /\ d.fresh
        /\ d.token = cmd[t].token
    BY <1>2 DEF Commands, Points
  <2> HIDE DEF d
  <2>2. d = [[cmd[t] EXCEPT !.fresh = TRUE] EXCEPT !.pc = pc]
    BY DEF d
  <2> QED BY <2>1, <2>2
<1>4. /\ Change(t, c, empty) /\ file' = empty
      /\ spoiled' = \/ spoiled \/ MeetsWriter(t)
                    \/ ~cmd[t].fresh /\ ~(cmd[t].pc = "open" /\ cmd[t].op = "remove")
      /\ UNCHANGED <<made, wanted, given>>
  BY <1>1, <1>3 DEF Truncate, Change, At
<1>5. OpOK(c) /\ Writes(c) /\ WasGiven(c)'
  BY <1>1, <1>2, <1>3 DEF OpOK, Writes, WasGiven
<1>6. ~spoiled' => \A u \in Terminals \ {t} : ~Halfway(u)
  BY <1>4 DEF MeetsWriter
<1>7. ASSUME ~spoiled' PROVE Continues(c)'
  <2>1. /\ ~spoiled /\ Quiet /\ WholeFile /\ Together(t)
        /\ cmd[t].fresh \/ (cmd[t].pc = "open" /\ cmd[t].op = "remove")
    BY <1>2, <1>4, <1>6, <1>7, CommandTyped
  <2>2. cmd[t].fresh => Agrees(cmd[t])
    BY <2>1 DEF Together
  <2>3. file' = empty /\ empty.tokens = <<>> /\ empty.agents = <<>> /\ ~empty.junk
    BY <1>4, EmptyFile
  <2> HIDE DEF empty
  <2>A. file.there => /\ \A token \in given : file.tokens = <<token>>
                      /\ file.agents = wanted
    BY <2>1 DEF WholeFile, GivenIs
  <2>B. ~file.there => given = {}
    BY <2>1 DEF WholeFile
  <2>C. given' = given /\ wanted' = wanted
    BY <1>4
  <2>5. Token(c)' = c.todo[1].tokens
    BY <2>3 DEF Token
  <2>6. CASE pc = "savewrite"
    <3>1. /\ Saving(cmd[t]) /\ file.tokens = <<>> /\ file.there
          /\ cmd[t].agents = file.agents
      BY <1>1, <2>1, <2>2, <2>6 DEF Agrees
    <3>2. given = {}
      <4> SUFFICES ASSUME NEW token \in given PROVE FALSE
        OBVIOUS
      <4>1. <<>> = <<token>>
        BY <2>A, <3>1
      <4>2. Len(<<>>) = 0 /\ Len(<<token>>) = 1
        OBVIOUS
      <4> QED BY <4>1, <4>2
    <3>3. Saving(c)
      BY <1>3, <3>1 DEF Saving
    <3> QED BY <1>3, <2>3, <2>A, <2>C, <2>6, <3>1, <3>2, <3>3 DEF Continues
  <2>7. CASE pc = "write"
    <3>1. Prepared(cmd[t]) /\ Target(c) = Target(cmd[t])
      BY <1>1, <1>2, <1>3, <2>7 DEF OpOK, Target
    <3>2. Prepared(c)
      BY <1>3, <3>1 DEF Prepared
    <3>3. Begun(c)'
      BY <2>3, <3>2 DEF Begun
    <3>4. ASSUME NEW token \in given PROVE c.todo[1].tokens = <<token>>
      <4>1. file.there /\ file.tokens = <<token>>
        BY <2>A, <2>B, <3>4
      <4>2. cmd[t].op = "remove"
        BY <1>1, <1>2, <2>1, <2>2, <2>7, <4>1 DEF OpOK, Agrees
      <4>3. cmd[t].token \in given /\ c.todo[1].tokens = <<cmd[t].token>>
        BY <1>1, <1>2, <1>3, <2>7, <4>2 DEF OpOK, WasGiven
      <4>4. file.tokens = <<cmd[t].token>>
        BY <2>A, <4>1, <4>3
      <4> QED BY <4>1, <4>3, <4>4
    <3> QED BY <1>3, <2>3, <2>5, <2>7, <2>C, <3>3, <3>4 DEF Continues
  <2> QED BY <2>6, <2>7
<1>8. /\ made' \in Nat /\ wanted' \in Seq(Sections) /\ given' \subseteq Nat
      /\ given \subseteq given' /\ spoiled' \in BOOLEAN
  BY <1>2, <1>4
<1>9. empty \in Files /\ empty.there
  BY EmptyFile
<1> HIDE DEF empty
<1> QED BY <1>3, <1>4, <1>5, <1>6, <1>7, <1>8, <1>9, Changes

\* What a write leaves in the file.
Joined(chunk, mixed) ==
  File([tokens |-> file.tokens \o chunk.tokens, agents |-> file.agents \o chunk.agents,
        junk |-> file.junk \/ chunk.junk \/ mixed])

LEMMA WriteIs ==
  ASSUME ConfigInv, NEW t \in Terminals, NEW c, Write(t, c), cmd[t].todo # <<>>
  PROVE  \E f \in Files :
           /\ Change(t, c, f) /\ f.there
           /\ f.tokens = file.tokens \o cmd[t].todo[1].tokens
           /\ f.agents = file.agents \o cmd[t].todo[1].agents
           /\ cmd[t].fresh => (f.junk <=> file.junk \/ cmd[t].todo[1].junk)
<1> DEFINE chunk == cmd[t].todo[1]
<1>1. /\ cmd[t] \in Commands /\ file.tokens \in Seq(Nat) /\ file.agents \in Seq(Sections)
      /\ file.junk \in BOOLEAN
  BY CommandTyped DEF Files
<1>2. cmd[t].todo \in Seq(Chunks)
  BY <1>1 DEF Commands
<1>3. /\ Head(cmd[t].todo) = chunk /\ chunk.tokens \in Seq(Nat)
      /\ chunk.agents \in Seq(Sections) /\ chunk.junk \in BOOLEAN
  BY <1>2, ChunkTyped
<1> HIDE DEF chunk
<1>4. PICK mixed \in BOOLEAN :
        Change(t, c, Joined(chunk, mixed)) /\ (cmd[t].fresh => ~mixed)
  BY <1>3 DEF Write, Joined
<1> DEFINE f == Joined(chunk, mixed)
<1>5. file.tokens \o chunk.tokens \in Seq(Nat) /\ file.agents \o chunk.agents \in Seq(Sections)
  BY <1>1, <1>3
<1>6. f \in Files /\ f.there /\ f.tokens = file.tokens \o chunk.tokens
      /\ f.agents = file.agents \o chunk.agents
      /\ (f.junk <=> file.junk \/ chunk.junk \/ mixed)
  BY <1>1, <1>3, <1>5 DEF Joined, File, Files
<1>7. Change(t, c, f)
  BY <1>4
<1> HIDE DEF f
<1> QED BY <1>4, <1>6, <1>7 DEF chunk

\* Of what is written and what is still to write, one part holds the token.
LEMMA TokenOnce ==
  ASSUME NEW a \in Seq(Nat), NEW b \in Seq(Nat), Len(a) + Len(b) = 1
  PROVE  /\ a \o b = (IF a = <<>> THEN b ELSE a)
         /\ Len(a \o b) = 1 /\ a \o b # <<>>
<1>0. \A m, n \in Nat : m + n = 1 => (m = 0 /\ n = 1) \/ (m = 1 /\ n = 0)
  OBVIOUS
<1>1. Len(a) \in Nat /\ Len(b) \in Nat /\ Len(<<>>) = 0 /\ 1 # 0
  OBVIOUS
<1>2. CASE Len(a) = 0 /\ Len(b) = 1
  <2>1. a = <<>>
    BY <1>2
  <2>2. a \o b = b
    BY <2>1
  <2>3. b # <<>>
    BY <1>1, <1>2, Zenon
  <2> QED BY <1>2, <2>1, <2>2, <2>3
<1>3. CASE Len(a) = 1 /\ Len(b) = 0
  <2>1. b = <<>>
    BY <1>3
  <2>2. a \o b = a
    BY <2>1
  <2>3. a # <<>>
    BY <1>1, <1>3, Zenon
  <2> QED BY <1>3, <2>2, <2>3
<1> QED BY <1>0, <1>1, <1>2, <1>3

\* What is written and what is still to write stay the whole file.
LEMMA NextSection ==
  ASSUME NEW done \in Seq(Sections), NEW todo \in Seq(Chunks), NEW all \in Seq(Sections),
         HalfDone(done, todo, all)
  PROVE  /\ todo[1].agents = <<all[Len(done) + 1]>> /\ todo[1].tokens = <<>> /\ ~todo[1].junk
         /\ Tail(todo) # <<>> => HalfDone(done \o todo[1].agents, Tail(todo), all)
         /\ Len(todo) = 1 => done \o todo[1].agents = all
<1> DEFINE n == Len(done)
           a == all[n + 1]
           next == Append(done, a)
<1>1. /\ n \in Nat /\ Len(todo) \in Nat /\ Len(todo) >= 1 /\ n + Len(todo) = Len(all)
      /\ \A i \in 1..n : done[i] = all[i]
      /\ \A i \in 1..Len(todo) : todo[i] = Chunk(<<>>, <<all[n + i]>>)
  BY DEF HalfDone
<1>2. 1 \in 1..Len(todo) /\ n + 1 \in 1..Len(all)
  BY <1>1
<1>3. todo[1] = Chunk(<<>>, <<a>>) /\ a \in Sections
  BY <1>1, <1>2
<1>4. todo[1].agents = <<a>> /\ todo[1].tokens = <<>> /\ ~todo[1].junk
  BY <1>3 DEF Chunk
<1> HIDE DEF a
<1>5. done \o <<a>> = next
  BY <1>3
<1>6. /\ next \in Seq(Sections) /\ Len(next) = n + 1 /\ next[n + 1] = a
      /\ \A i \in 1..n : next[i] = done[i]
  BY <1>1, <1>3
<1> HIDE DEF next
<1>7. \A i \in 1..(n + 1) : next[i] = all[i]
  <2> TAKE i \in 1..(n + 1)
  <2>1. CASE i = n + 1
    BY <1>6, <2>1 DEF a
  <2>2. CASE i # n + 1
    <3>1. i \in 1..n
      BY <1>1, <2>2
    <3> QED BY <1>1, <1>6, <3>1
  <2> QED BY <2>1, <2>2
<1>8. ASSUME Tail(todo) # <<>> PROVE HalfDone(next, Tail(todo), all)
  <2> DEFINE rest == Tail(todo)
  <2>1. /\ rest \in Seq(Chunks) /\ Len(rest) = Len(todo) - 1
        /\ \A i \in 1..Len(rest) : rest[i] = todo[i + 1]
    BY <1>1, ChunkTyped
  <2> HIDE DEF rest
  <2>2. \A i \in 1..Len(rest) : rest[i] = Chunk(<<>>, <<all[n + 1 + i]>>)
    <3> TAKE i \in 1..Len(rest)
    <3> DEFINE k == i + 1
    <3>1. k \in 1..Len(todo) /\ n + k = n + 1 + i /\ rest[i] = todo[k]
      BY <1>1, <2>1
    <3> HIDE DEF k
    <3>2. todo[k] = Chunk(<<>>, <<all[n + k]>>)
      BY <1>1, <3>1
    <3> QED BY <3>1, <3>2
  <2>3. Len(next) + Len(rest) = Len(all)
    <3> DEFINE l == Len(todo)
    <3>1. l \in Nat /\ Len(rest) = l - 1 /\ n + l = Len(all) /\ Len(next) = n + 1
      BY <1>1, <1>6, <2>1
    <3> HIDE DEF l
    <3> QED BY <1>1, <3>1
  <2> QED BY <1>6, <1>7, <1>8, <2>2, <2>3 DEF HalfDone, rest
<1>9. ASSUME Len(todo) = 1 PROVE next = all
  <2>1. Len(next) = Len(all) /\ \A i \in 1..Len(all) : next[i] = all[i]
    BY <1>1, <1>6, <1>7, <1>9
  <2> QED BY <1>6, <2>1
<1> QED BY <1>4, <1>5, <1>8, <1>9 DEF a

\* After the token, the sections.
LEMMA FirstChunk ==
  ASSUME NEW c \in Commands, Prepared(c), Target(c) \in Seq(Sections)
  PROVE  /\ c.todo # <<>> /\ Len(c.todo[1].tokens) = 1
         /\ c.todo[1].agents = <<>> /\ ~c.todo[1].junk
         /\ Tail(c.todo) # <<>> => HalfDone(<<>>, Tail(c.todo), Target(c))
         /\ Len(c.todo) = 1 => Target(c) = <<>>
<1> DEFINE todo == c.todo
           all == Target(c)
<1>1. /\ todo \in Seq(Chunks) /\ all \in Seq(Sections) /\ Len(all) \in Nat
      /\ Len(todo) = Len(all) + 1
      /\ Len(todo[1].tokens) = 1 /\ todo[1].agents = <<>> /\ ~todo[1].junk
      /\ \A i \in 1..Len(all) : todo[i + 1] = Chunk(<<>>, <<all[i]>>)
  BY DEF Commands, Prepared
<1> HIDE DEF todo, all
<1>2. todo # <<>>
  BY <1>1
<1>3. ASSUME Tail(todo) # <<>> PROVE HalfDone(<<>>, Tail(todo), all)
  <2> DEFINE rest == Tail(todo)
             none == <<>>
  <2>1. /\ Len(rest) = Len(all)
        /\ \A i \in 1..Len(rest) : rest[i] = todo[i + 1]
    BY <1>1, <1>2, ChunkTyped
  <2>2. Len(none) = 0 /\ none = <<>>
    OBVIOUS
  <2> HIDE DEF rest, none
  <2>3. \A i \in 1..Len(rest) : rest[i] = Chunk(<<>>, <<all[Len(none) + i]>>)
    BY <1>1, <2>1, <2>2
  <2>4. HalfDone(none, rest, all)
    BY <1>1, <1>3, <2>1, <2>2, <2>3 DEF HalfDone, rest
  <2> QED BY <2>2, <2>4 DEF rest
<1>4. Len(todo) = 1 => all = <<>>
  BY <1>1
<1> QED BY <1>1, <1>2, <1>3, <1>4 DEF todo, all

LEMMA TargetTyped ==
  ASSUME NEW c \in Commands, OpOK(c), c.pc = "write"
  PROVE  Target(c) \in Seq(Sections) /\ Readable(Target(c))
<1>1. CASE c.op = "init"
  <2> DEFINE s == Section(c.id)
  <2>1. s \in Sections /\ s.keys = 1
    BY <1>1 DEF OpOK, Section, Sections
  <2> HIDE DEF s
  <2>2. <<s>> \in Seq(Sections) /\ Len(<<s>>) = 1 /\ <<s>>[1] = s
    BY <2>1
  <2>3. Readable(<<s>>)
    BY <2>1, <2>2 DEF Readable
  <2> QED BY <1>1, <2>2, <2>3 DEF Target, s
<1>2. CASE c.op # "init"
  <2>1. c.agents \in Seq(Sections) /\ Readable(c.agents)
    BY DEF Commands, OpOK
  <2> QED BY <1>2, <2>1, RewrittenReadable DEF Target
<1> QED BY <1>1, <1>2

LEMMA WriteChunkStep ==
  ASSUME ConfigInv, NEW t \in Terminals, WriteChunk(t)
  PROVE  ConfigInv'
<1> DEFINE todo == cmd[t].todo
           all == Target(cmd[t])
<1>1. /\ cmd[t] \in Commands /\ OpOK(cmd[t]) /\ cmd[t].pc = "write" /\ Halfway(t)
      /\ file.tokens \in Seq(Nat) /\ file.agents \in Seq(Sections)
      /\ todo # <<>> /\ todo \in Seq(Chunks) /\ Tail(todo) # <<>>
      /\ UNCHANGED <<made, wanted, given, spoiled>>
  <2>1. cmd[t] \in Commands /\ Len(todo) > 1 /\ cmd[t].pc = "write"
    BY CommandTyped DEF WriteChunk, At
  <2>2. todo \in Seq(Chunks)
    BY <2>1 DEF Commands
  <2>3. todo # <<>> /\ Tail(todo) # <<>>
    BY <2>1, <2>2
  <2> QED BY <2>1, <2>2, <2>3, CommandTyped DEF WriteChunk, Halfway
<1>2. /\ todo[1].tokens \in Seq(Nat) /\ todo[1].agents \in Seq(Sections)
      /\ Tail(todo) \in Seq(Chunks) /\ all \in Seq(Sections)
  BY <1>1, ChunkTyped, TargetTyped
<1>3. PICK c \in Commands :
        /\ c = [cmd[t] EXCEPT !.todo = Tail(@)]
        /\ c.op = cmd[t].op /\ c.id = cmd[t].id /\ c.pc = "write"
        /\ c.todo = Tail(todo) /\ c.fresh = cmd[t].fresh /\ c.agents = cmd[t].agents
  <2> DEFINE d == [cmd[t] EXCEPT !.todo = Tail(@)]
  <2>1. /\ d \in Commands /\ d.op = cmd[t].op /\ d.id = cmd[t].id /\ d.pc = "write"
        /\ d.todo = Tail(todo) /\ d.fresh = cmd[t].fresh /\ d.agents = cmd[t].agents
    BY <1>1, <1>2 DEF Commands
  <2>2. d = [cmd[t] EXCEPT !.todo = Tail(@)]
    OBVIOUS
  <2> HIDE DEF d
  <2> QED BY <2>1, <2>2
<1>4. Write(t, c)
  BY <1>3 DEF WriteChunk
<1>5. PICK f \in Files :
        /\ Change(t, c, f) /\ f.there
        /\ f.tokens = file.tokens \o todo[1].tokens
        /\ f.agents = file.agents \o todo[1].agents
        /\ cmd[t].fresh => (f.junk <=> file.junk \/ todo[1].junk)
  BY <1>1, <1>4, WriteIs
<1>6. OpOK(c) /\ Writes(c) /\ WasGiven(c)'
  BY <1>1, <1>3 DEF OpOK, Writes, WasGiven
<1>7. ASSUME ~spoiled' PROVE Continues(c)'
  <2>1. Continues(cmd[t])
    BY <1>1, <1>7, CommandTyped DEF Together
  <2>2. /\ cmd[t].fresh /\ ~file.junk
        /\ \/ Begun(cmd[t])
           \/ Len(file.tokens) = 1 /\ HalfDone(file.agents, todo, all)
    BY <1>1, <2>1 DEF Continues
  <2>3. /\ ~todo[1].junk /\ Len(file.tokens) + Len(todo[1].tokens) = 1
        /\ HalfDone(f.agents, Tail(todo), all)
    <3>1. CASE Begun(cmd[t])
      <4>1. file.tokens = <<>> /\ file.agents = <<>> /\ Prepared(cmd[t])
        BY <3>1 DEF Begun
      <4>2. /\ Len(todo[1].tokens) = 1 /\ todo[1].agents = <<>> /\ ~todo[1].junk
            /\ HalfDone(<<>>, Tail(todo), all)
        BY <1>1, <1>2, <4>1, FirstChunk
      <4>3. f.agents = <<>> /\ Len(file.tokens) = 0
        BY <1>5, <4>1, <4>2
      <4> HIDE DEF todo, all
      <4> QED BY <4>2, <4>3
    <3>2. CASE Len(file.tokens) = 1 /\ HalfDone(file.agents, todo, all)
      <4>1. /\ todo[1].tokens = <<>> /\ ~todo[1].junk
            /\ HalfDone(file.agents \o todo[1].agents, Tail(todo), all)
        BY <1>1, <1>2, <3>2, NextSection
      <4>2. Len(todo[1].tokens) = 0
        BY <4>1
      <4> HIDE DEF todo, all
      <4> QED BY <1>5, <3>2, <4>1, <4>2
    <3> QED BY <2>2, <3>1, <3>2
  <2>4. f.tokens = Token(cmd[t]) /\ Len(f.tokens) = 1 /\ f.tokens # <<>>
    <3>1. /\ file.tokens \o todo[1].tokens
                = (IF file.tokens = <<>> THEN todo[1].tokens ELSE file.tokens)
          /\ Len(file.tokens \o todo[1].tokens) = 1 /\ file.tokens \o todo[1].tokens # <<>>
      BY <1>1, <1>2, <2>3, TokenOnce
    <3> QED BY <1>5, <3>1 DEF Token
  <2>5. file' = f /\ ~f.junk
    BY <1>5, <2>2, <2>3 DEF Change
  <2>6. ASSUME NEW token \in given' PROVE Token(c)' = <<token>>
    <3>1. Token(cmd[t]) = <<token>>
      BY <1>1, <2>1, <2>6 DEF Continues
    <3> QED BY <2>4, <2>5, <3>1 DEF Token
  <2>7. Target(c) = all
    BY <1>3 DEF Target
  <2> HIDE DEF all, todo
  <2>8. HalfDone(f.agents, c.todo, Target(c))
    BY <1>3, <2>3, <2>7
  <2> QED BY <1>3, <2>2, <2>4, <2>5, <2>6, <2>8 DEF Continues
<1>8. /\ made' \in Nat /\ wanted' \in Seq(Sections) /\ given' \subseteq Nat
      /\ given \subseteq given' /\ spoiled' \in BOOLEAN
  BY <1>1 DEF ConfigInv, ConfigTypeOK
<1>9. ~spoiled' => \A u \in Terminals \ {t} : ~Halfway(u)
  BY <1>1, CommandTyped
<1> QED BY <1>5, <1>3, <1>6, <1>7, <1>8, <1>9, Changes

LEMMA WriteLastStep ==
  ASSUME ConfigInv, NEW t \in Terminals, WriteLast(t)
  PROVE  ConfigInv'
<1> DEFINE todo == cmd[t].todo
           all == Target(cmd[t])
<1>1. /\ cmd[t] \in Commands /\ OpOK(cmd[t]) /\ cmd[t].pc = "write" /\ Halfway(t)
      /\ file.tokens \in Seq(Nat) /\ file.agents \in Seq(Sections)
      /\ todo # <<>> /\ todo \in Seq(Chunks) /\ Len(todo) = 1
      /\ UNCHANGED <<made, given, spoiled>>
      /\ wanted' = all
  <2>1. cmd[t] \in Commands /\ Len(todo) = 1 /\ cmd[t].pc = "write"
    BY CommandTyped DEF WriteLast, At
  <2>2. todo \in Seq(Chunks)
    BY <2>1 DEF Commands
  <2>3. todo # <<>>
    <3>1. Len(<<>>) # 1
      OBVIOUS
    <3> QED BY <2>1, <3>1, Zenon
  <2> QED BY <2>1, <2>2, <2>3, CommandTyped DEF WriteLast, Halfway, Target
<1>2. /\ todo[1].tokens \in Seq(Nat) /\ todo[1].agents \in Seq(Sections)
      /\ all \in Seq(Sections) /\ Readable(all) /\ Tail(todo) = <<>>
  <2>1. /\ todo[1].tokens \in Seq(Nat) /\ todo[1].agents \in Seq(Sections)
        /\ Tail(todo) \in Seq(Chunks) /\ Len(Tail(todo)) = Len(todo) - 1
    BY <1>1, ChunkTyped
  <2> DEFINE rest == Tail(todo)
  <2>A. rest \in Seq(Chunks) /\ Len(rest) = 0
    BY <1>1, <2>1
  <2> HIDE DEF rest, todo
  <2>2. rest = <<>>
    BY <2>A
  <2> QED BY <1>1, <2>1, <2>2, TargetTyped DEF rest
<1>3. Write(t, NotRunning)
  BY DEF WriteLast
<1>4. PICK f \in Files :
        /\ Change(t, NotRunning, f) /\ f.there
        /\ f.tokens = file.tokens \o todo[1].tokens
        /\ f.agents = file.agents \o todo[1].agents
        /\ cmd[t].fresh => (f.junk <=> file.junk \/ todo[1].junk)
  BY <1>1, <1>3, WriteIs
<1>5. ASSUME ~spoiled'
      PROVE  /\ ~f.junk /\ GivenIs(f.tokens)'
             /\ f.agents = wanted' /\ Readable(f.agents)
  <2>1. Continues(cmd[t])
    BY <1>1, <1>5, CommandTyped DEF Together
  <2>2. /\ cmd[t].fresh /\ ~file.junk
        /\ \/ Begun(cmd[t])
           \/ Len(file.tokens) = 1 /\ HalfDone(file.agents, todo, all)
    BY <1>1, <2>1 DEF Continues
  <2>3. /\ ~todo[1].junk /\ Len(file.tokens) + Len(todo[1].tokens) = 1
        /\ f.agents = all
    <3>1. CASE Begun(cmd[t])
      <4>1. file.tokens = <<>> /\ file.agents = <<>> /\ Prepared(cmd[t])
        BY <3>1 DEF Begun
      <4>2. /\ Len(todo[1].tokens) = 1 /\ todo[1].agents = <<>> /\ ~todo[1].junk
            /\ all = <<>>
        BY <1>1, <1>2, <4>1, FirstChunk
      <4>3. f.agents = <<>> /\ Len(file.tokens) = 0
        BY <1>4, <4>1, <4>2
      <4> HIDE DEF todo, all
      <4> QED BY <4>2, <4>3
    <3>2. CASE Len(file.tokens) = 1 /\ HalfDone(file.agents, todo, all)
      <4>1. /\ todo[1].tokens = <<>> /\ ~todo[1].junk
            /\ file.agents \o todo[1].agents = all
        BY <1>1, <1>2, <3>2, NextSection
      <4>2. Len(todo[1].tokens) = 0
        BY <4>1
      <4> HIDE DEF todo, all
      <4> QED BY <1>4, <3>2, <4>1, <4>2
    <3> QED BY <2>2, <3>1, <3>2
  <2>4. f.tokens = Token(cmd[t]) /\ Len(f.tokens) = 1
    <3>1. /\ file.tokens \o todo[1].tokens
                = (IF file.tokens = <<>> THEN todo[1].tokens ELSE file.tokens)
          /\ Len(file.tokens \o todo[1].tokens) = 1 /\ file.tokens \o todo[1].tokens # <<>>
      BY <1>1, <1>2, <2>3, TokenOnce
    <3> QED BY <1>4, <3>1 DEF Token
  <2>5. \A token \in given' : f.tokens = <<token>>
    BY <1>1, <2>1, <2>4 DEF Continues
  <2>6. GivenIs(f.tokens)'
    BY <2>4, <2>5 DEF GivenIs
  <2> HIDE DEF todo, all
  <2> QED BY <1>1, <1>2, <1>4, <2>2, <2>3, <2>6
<1>6. (~spoiled' => Continues(NotRunning)') /\ WasGiven(NotRunning)'
  BY DEF Continues, NotRunning, WasGiven
<1>7. /\ made' \in Nat /\ wanted' \in Seq(Sections) /\ given' \subseteq Nat
      /\ given \subseteq given' /\ spoiled' \in BOOLEAN
  BY <1>1, <1>2 DEF ConfigInv, ConfigTypeOK
<1>8. ~spoiled' => \A u \in Terminals \ {t} : ~Halfway(u)
  BY <1>1, CommandTyped
<1> QED BY <1>4, <1>5, <1>6, <1>7, <1>8, IdleTyped, Changes

LEMMA WriteTokenStep ==
  ASSUME ConfigInv, NEW t \in Terminals, WriteToken(t)
  PROVE  ConfigInv'
<1> DEFINE d == cmd[t]
           todo == cmd[t].todo
<1>1. /\ d \in Commands /\ OpOK(d) /\ d.pc = "savewrite" /\ Halfway(t)
      /\ d.op \in {"load", "add", "remove"} /\ Readable(d.agents)
      /\ file.tokens \in Seq(Nat) /\ file.agents \in Seq(Sections)
      /\ todo # <<>> /\ todo \in Seq(Chunks)
      /\ given' = given \cup {d.token} /\ UNCHANGED <<made, wanted, spoiled>>
  <2>1. d \in Commands /\ d.pc = "savewrite" /\ OpOK(d)
    BY CommandTyped DEF WriteToken, At
  <2>2. todo \in Seq(Chunks)
    BY <2>1 DEF Commands
  <2> QED BY <2>1, <2>2, CommandTyped DEF WriteToken, Halfway, OpOK
<1>2. PICK c \in Commands :
        /\ c = Loaded(d) /\ OpOK(c) /\ ~Writes(c)
        /\ c.pc \in {"idle", "ask", "open"} /\ (c.pc = "ask" => c.op = "add")
        /\ c.pc = "open" => c.op = "remove" /\ c.token = d.token
  <2> DEFINE e == Loaded(d)
  <2>1. /\ e \in Commands /\ OpOK(e) /\ ~Writes(e)
        /\ e.pc \in {"idle", "ask", "open"} /\ (e.pc = "ask" => e.op = "add")
        /\ e.pc = "open" => e.op = "remove" /\ e.token = d.token
    BY <1>1, LoadedIs
  <2>2. e = Loaded(d)
    OBVIOUS
  <2> HIDE DEF e, d
  <2> QED BY <2>1, <2>2
<1>3. Write(t, c)
  BY <1>2 DEF WriteToken
<1>4. PICK f \in Files :
        /\ Change(t, c, f) /\ f.there
        /\ f.tokens = file.tokens \o todo[1].tokens
        /\ f.agents = file.agents \o todo[1].agents
        /\ cmd[t].fresh => (f.junk <=> file.junk \/ todo[1].junk)
  BY <1>1, <1>3, WriteIs
<1>5. ASSUME ~spoiled'
      PROVE  /\ ~f.junk /\ GivenIs(f.tokens)'
             /\ f.agents = wanted' /\ Readable(f.agents)
  <2>1. Continues(d)
    BY <1>1, <1>5, CommandTyped DEF Together
  <2>2. /\ d.fresh /\ ~file.junk /\ file.tokens = <<>> /\ file.agents = <<>>
        /\ Saving(d) /\ d.agents = wanted
    BY <1>1, <2>1 DEF Continues
  <2>3. /\ todo[1].tokens = <<d.token>> /\ todo[1].agents = d.agents /\ ~todo[1].junk
        /\ d.agents \in Seq(Sections)
    BY <1>1, <2>2 DEF Saving, Commands
  <2>5. f.tokens = <<d.token>> /\ f.agents = d.agents /\ ~f.junk
    BY <1>4, <2>2, <2>3
  <2>6. Readable(f.agents) /\ f.agents = wanted'
    BY <1>1, <2>2, <2>5
  <2>7. \A token \in given' : token = d.token
    <3>1. \A token \in given : <<d.token>> = <<token>>
      BY <1>1, <2>1, <2>2, <2>3 DEF Continues, Token
    <3>2. \A token \in given : token = d.token
      <4> TAKE token \in given
      <4>1. <<d.token>>[1] = <<token>>[1]
        BY <3>1
      <4> QED BY <4>1
    <3> QED BY <1>1, <3>2
  <2>8. GivenIs(f.tokens)'
    <3>1. Len(f.tokens) = 1
      BY <2>5
    <3> HIDE DEF d
    <3> QED BY <2>5, <2>7, <3>1 DEF GivenIs
  <2> QED BY <2>5, <2>6, <2>8
<1>6. /\ ~spoiled' => Continues(c)'
      /\ Agrees(c)' /\ WasGiven(c)'
  BY <1>1, <1>2 DEF Continues, Agrees, WasGiven
<1>7. /\ made' \in Nat /\ wanted' \in Seq(Sections) /\ given' \subseteq Nat
      /\ given \subseteq given' /\ spoiled' \in BOOLEAN
  BY <1>1 DEF ConfigInv, ConfigTypeOK, Commands
<1>8. ~spoiled' => \A u \in Terminals \ {t} : ~Halfway(u)
  BY <1>1, CommandTyped
<1> QED BY <1>2, <1>4, <1>5, <1>6, <1>7, <1>8, Changes

LEMMA AppendAgentStep ==
  ASSUME ConfigInv, NEW t \in Terminals, AppendAgent(t)
  PROVE  ConfigInv'
<1> DEFINE s == Section(cmd[t].id)
           new == [s EXCEPT !.keys = 0]
           agents == Append(file.agents, new)
           all == Append(wanted, s)
<1>1. /\ cmd[t] \in Commands /\ OpOK(cmd[t]) /\ cmd[t].pc = "ask" /\ cmd[t].op = "add"
      /\ cmd[t].id \in Ids /\ ~Halfway(t) /\ file.there /\ file \in Files
      /\ file.agents \in Seq(Sections) /\ wanted \in Seq(Sections)
      /\ UNCHANGED <<made, given>> /\ wanted' = all
      /\ spoiled' = (spoiled \/ MeetsWriter(t))
      /\ spoiled \in BOOLEAN
  BY CommandTyped DEF AppendAgent, AddSection, At, Halfway, OpOK, ConfigInv, ConfigTypeOK
<1>0. Change(t, [cmd[t] EXCEPT !.pc = "keys"], [file EXCEPT !.agents = agents])
  BY DEF AppendAgent, AddSection
<1>2. s \in Sections /\ s.keys = 1 /\ new \in Sections /\ new.keys = 0
  BY <1>1 DEF Sections, Section
<1>A. new = [s EXCEPT !.keys = 0]
  OBVIOUS
<1> HIDE DEF new, s
<1>3. /\ agents \in Seq(Sections) /\ Len(agents) = Len(file.agents) + 1
      /\ Len(file.agents) \in Nat /\ agents # <<>>
      /\ agents[Len(agents)] = new
      /\ \A i \in 1..Len(file.agents) : agents[i] = file.agents[i]
  <2> DEFINE before == file.agents
  <2>1. before \in Seq(Sections)
    BY <1>1
  <2> HIDE DEF before
  <2>2. /\ Append(before, new) \in Seq(Sections) /\ Len(Append(before, new)) = Len(before) + 1
        /\ Len(before) \in Nat /\ Append(before, new) # <<>>
        /\ Append(before, new)[Len(before) + 1] = new
        /\ \A i \in 1..Len(before) : Append(before, new)[i] = before[i]
    BY <1>2, <2>1
  <2> QED BY <2>2 DEF before
<1>B. /\ all \in Seq(Sections) /\ Len(all) = Len(wanted) + 1
      /\ Len(wanted) \in Nat /\ all[Len(all)] = s
      /\ \A i \in 1..Len(wanted) : all[i] = wanted[i]
  BY <1>1, <1>2
<1> HIDE DEF agents, all
<1>5. PICK c \in Commands :
        /\ c = [cmd[t] EXCEPT !.pc = "keys"]
        /\ c.op = "add" /\ c.id = cmd[t].id /\ c.pc = "keys" /\ c.agents = cmd[t].agents
  <2> DEFINE d == [cmd[t] EXCEPT !.pc = "keys"]
  <2>1. d \in Commands /\ d.op = "add" /\ d.id = cmd[t].id /\ d.pc = "keys"
        /\ d.agents = cmd[t].agents
    BY <1>1 DEF Commands, Points
  <2>2. d = [cmd[t] EXCEPT !.pc = "keys"]
    OBVIOUS
  <2> HIDE DEF d
  <2> QED BY <2>1, <2>2
<1>6. PICK f \in Files :
        /\ f = [file EXCEPT !.agents = agents]
        /\ f.there /\ f.tokens = file.tokens /\ f.agents = agents /\ f.junk = file.junk
  <2> DEFINE g == [file EXCEPT !.agents = agents]
  <2>1. /\ g \in Files /\ g.there /\ g.tokens = file.tokens /\ g.agents = agents
        /\ g.junk = file.junk
    BY <1>1, <1>3 DEF Files
  <2>2. g = [file EXCEPT !.agents = agents]
    OBVIOUS
  <2> HIDE DEF g
  <2> QED BY <2>1, <2>2
<1>7. Change(t, c, f)
  BY <1>0, <1>5, <1>6
<1>8. ~spoiled' => \A u \in Terminals \ {t} : ~Halfway(u)
  BY <1>1 DEF MeetsWriter
<1>9. ASSUME ~spoiled' PROVE Continues(c)'
  <2>1. Quiet /\ WholeFile
    BY <1>1, <1>8, <1>9, CommandTyped
  <2>2. /\ ~file.junk /\ GivenIs(file.tokens) /\ file.agents = wanted /\ Readable(wanted)
    BY <1>1, <2>1 DEF WholeFile
  <2>3. file' = f
    BY <1>7 DEF Change
  <2>4. GivenIs(f.tokens)'
    BY <1>1, <1>6, <2>2 DEF GivenIs
  <2>5. ButKeys(agents, all)
    <3>1. \A i \in 1..(Len(agents) - 1) : agents[i] = all[i]
      BY <1>3, <1>B, <2>2
    <3>2. Len(agents) = Len(all)
      BY <1>3, <1>B, <2>2
    <3> QED BY <1>2, <1>3, <1>A, <1>B, <3>1, <3>2 DEF ButKeys
  <2>6. Readable(all)
    <3> SUFFICES ASSUME NEW i \in 1..Len(all) PROVE all[i].keys <= 1
      BY DEF Readable
    <3>1. CASE i = Len(all)
      BY <1>2, <1>B, <3>1
    <3>2. CASE i # Len(all)
      <4>1. i \in 1..Len(wanted)
        BY <1>B, <3>2
      <4> QED BY <1>B, <2>2, <4>1 DEF Readable
    <3> QED BY <3>1, <3>2
  <2> QED BY <1>1, <1>5, <1>6, <2>2, <2>3, <2>4, <2>5, <2>6 DEF Continues
<1>10. OpOK(c) /\ Writes(c) /\ WasGiven(c)'
  BY <1>1, <1>5 DEF OpOK, Writes, WasGiven
<1>11. /\ made' \in Nat /\ wanted' \in Seq(Sections) /\ given' \subseteq Nat
       /\ given \subseteq given' /\ spoiled' \in BOOLEAN
  BY <1>1, <1>B DEF ConfigInv, ConfigTypeOK
<1> QED BY <1>6, <1>7, <1>8, <1>9, <1>10, <1>11, Changes

LEMMA AppendKeysStep ==
  ASSUME ConfigInv, NEW t \in Terminals, AppendKeys(t)
  PROVE  ConfigInv'
<1> DEFINE n == Len(file.agents)
           a == file.agents
<1>1. /\ cmd[t].pc = "keys" /\ Halfway(t) /\ file.there /\ file \in Files
      /\ a \in Seq(Sections) /\ n \in Nat /\ wanted \in Seq(Sections)
      /\ UNCHANGED <<made, wanted, given, spoiled>>
  BY CommandTyped DEF AppendKeys, At, Halfway, ConfigInv, ConfigTypeOK
<1>2. /\ made' \in Nat /\ wanted' \in Seq(Sections) /\ given' \subseteq Nat
      /\ given \subseteq given' /\ spoiled' \in BOOLEAN
  BY <1>1 DEF ConfigInv, ConfigTypeOK
<1>3. ~spoiled' => \A u \in Terminals \ {t} : ~Halfway(u)
  BY <1>1, CommandTyped
<1>4. (~spoiled' => Continues(NotRunning)') /\ WasGiven(NotRunning)'
  BY DEF Continues, NotRunning, WasGiven
<1>5. ~spoiled =>
        /\ ~file.junk /\ GivenIs(file.tokens) /\ ButKeys(a, wanted) /\ Readable(wanted)
  BY <1>1, CommandTyped DEF Together, Continues
<1>6. CASE a = <<>>
  <2>1. PICK mixed \in BOOLEAN : Change(t, NotRunning, [file EXCEPT !.junk = @ \/ mixed])
    BY <1>6 DEF AppendKeys
  <2> DEFINE f == [file EXCEPT !.junk = @ \/ mixed]
  <2>2. f \in Files /\ f.there
    BY <1>1 DEF Files
  <2>3. spoiled'
    BY <1>1, <1>5, <1>6 DEF ConfigInv, ConfigTypeOK, ButKeys
  <2>4. \E g \in Files : Change(t, NotRunning, g) /\ g.there
    <3>1. Change(t, NotRunning, f)
      BY <2>1
    <3> HIDE DEF f
    <3> QED BY <2>2, <3>1
  <2>5. PICK g \in Files : Change(t, NotRunning, g) /\ g.there
    BY <2>4
  <2> QED BY <1>2, <1>3, <1>4, <2>3, <2>5, IdleTyped, Changes
<1>7. CASE a # <<>>
  <2> DEFINE last == [a[n] EXCEPT !.keys = @ + 1]
             b == [a EXCEPT ![n] = last]
  <2>1. n \in 1..n /\ DOMAIN a = 1..n
    BY <1>1, <1>7
  <2>2. a[n] \in Sections /\ last \in Sections
    <3>1. a[n] \in Sections
      BY <1>1, <2>1
    <3>2. a[n].keys + 1 \in Nat
      BY <3>1 DEF Sections
    <3> QED BY <3>1, <3>2 DEF Sections
  <2>A. last = [a[n] EXCEPT !.keys = a[n].keys + 1]
    OBVIOUS
  <2> HIDE DEF last
  <2>3. /\ b \in Seq(Sections) /\ Len(b) = n /\ DOMAIN b = 1..n /\ b[n] = last
        /\ \A i \in 1..n : i # n => b[i] = a[i]
    BY <1>1, <2>1, <2>2
  <2>4. PICK f \in Files :
          /\ f = [file EXCEPT !.agents = b]
          /\ f.there /\ f.tokens = file.tokens /\ f.agents = b /\ f.junk = file.junk
    <3> DEFINE g == [file EXCEPT !.agents = b]
    <3>1. /\ g \in Files /\ g.there /\ g.tokens = file.tokens /\ g.agents = b
          /\ g.junk = file.junk
      BY <1>1, <2>3 DEF Files
    <3>2. g = [file EXCEPT !.agents = b]
      OBVIOUS
    <3> HIDE DEF g
    <3> QED BY <3>1, <3>2
  <2>5. Change(t, NotRunning, f)
    <3>1. Change(t, NotRunning, [file EXCEPT !.agents[Len(file.agents)].keys = @ + 1])
      BY <1>7 DEF AppendKeys
    <3>2. [file EXCEPT !.agents[Len(file.agents)].keys = @ + 1]
            = [file EXCEPT !.agents = b]
      BY DEF last
    <3> QED BY <2>4, <3>1, <3>2
  <2>6. ASSUME ~spoiled
        PROVE  /\ ~f.junk /\ GivenIs(f.tokens)'
               /\ f.agents = wanted' /\ Readable(f.agents)
    <3>1. GivenIs(f.tokens)'
      BY <1>1, <1>5, <2>4, <2>6 DEF GivenIs
    <3>2. /\ n = Len(wanted) /\ \A i \in 1..(n - 1) : a[i] = wanted[i]
          /\ wanted[n].keys = 1 /\ a[n] = [wanted[n] EXCEPT !.keys = 0]
          /\ Readable(wanted)
      BY <1>5, <2>6 DEF ButKeys
    <3>3. wanted[n] \in Sections
      BY <1>1, <2>1, <3>2
    <3>4. last = wanted[n]
      <4> DEFINE w == wanted[n]
                 o == a[n]
      <4>1. w \in Sections /\ w.keys = 1 /\ o = [w EXCEPT !.keys = 0]
        BY <3>2, <3>3
      <4>2. last = [o EXCEPT !.keys = o.keys + 1]
        BY <2>A
      <4> HIDE DEF w, o
      <4>3. o.keys + 1 = 1
        BY <4>1 DEF Sections
      <4>4. last = w
        BY <4>1, <4>2, <4>3 DEF Sections
      <4> QED BY <4>4 DEF w
    <3>5. \A i \in 1..n : b[i] = wanted[i]
      <4> TAKE i \in 1..n
      <4>1. CASE i = n
        BY <2>3, <3>4, <4>1
      <4>2. CASE i # n
        <5>1. i \in 1..(n - 1)
          BY <1>1, <4>2
        <5> QED BY <2>3, <3>2, <4>2, <5>1
      <4> QED BY <4>1, <4>2
    <3>6. b = wanted
      <4>1. Len(b) = Len(wanted)
        BY <2>3, <3>2
      <4> HIDE DEF b, a, n
      <4> QED BY <1>1, <2>3, <3>2, <3>5, <4>1
    <3> HIDE DEF b
    <3> QED BY <1>1, <1>5, <2>4, <2>6, <3>1, <3>2, <3>6
  <2>7. ~spoiled' => ~spoiled
    BY <1>1
  <2> QED BY <1>2, <1>3, <1>4, <2>4, <2>5, <2>6, <2>7, IdleTyped, Changes
<1> QED BY <1>6, <1>7

\* A write that fails: nothing is claimed from here.
LEMMA ConfigWriteFailsStep ==
  ASSUME ConfigInv, NEW t \in Terminals, ConfigWriteFails(t)
  PROVE  ConfigInv'
<1> DEFINE todo == cmd[t].todo
           shorter == [cmd[t] EXCEPT !.todo = Tail(@)]
           asked == [cmd[t] EXCEPT !.pc = "keys"]
<1>1. /\ cmd[t] \in Commands /\ OpOK(cmd[t]) /\ file \in Files /\ file.there
      /\ spoiled' = TRUE /\ UNCHANGED <<made, wanted, given>>
  BY CommandTyped DEF ConfigWriteFails
<1>2. \E c \in Commands, some \in BOOLEAN :
        /\ Change(t, c, [file EXCEPT !.junk = @ \/ some])
        /\ OpOK(c) /\ c.pc # "open"
  <2>1. PICK some \in BOOLEAN :
          \/ cmd[t].pc = "write" /\ Len(todo) > 1 /\ Change(t, shorter, [file EXCEPT !.junk = @ \/ some])
          \/ cmd[t].pc = "ask" /\ cmd[t].op = "add" /\ Change(t, asked, [file EXCEPT !.junk = @ \/ some])
          \/ Change(t, NotRunning, [file EXCEPT !.junk = @ \/ some])
    BY DEF ConfigWriteFails, At, Halfway
  <2> DEFINE g == [file EXCEPT !.junk = @ \/ some]
  <2> HIDE DEF g
  <2>2. CASE cmd[t].pc = "write" /\ Len(todo) > 1 /\ Change(t, shorter, [file EXCEPT !.junk = @ \/ some])
    <3>1. todo \in Seq(Chunks) /\ todo # <<>>
      BY <1>1, <2>2 DEF Commands
    <3>2. Tail(todo) \in Seq(Chunks)
      BY <3>1, ChunkTyped
    <3>3. shorter \in Commands /\ shorter.pc = "write" /\ shorter.op = cmd[t].op
          /\ shorter.id = cmd[t].id /\ shorter.agents = cmd[t].agents
      BY <1>1, <2>2, <3>2 DEF Commands
    <3> HIDE DEF shorter
    <3>4. OpOK(shorter)
      BY <1>1, <2>2, <3>3 DEF OpOK
    <3> QED BY <2>2, <3>3, <3>4
  <2>3. CASE cmd[t].pc = "ask" /\ cmd[t].op = "add" /\ Change(t, asked, [file EXCEPT !.junk = @ \/ some])
    <3>3. asked \in Commands /\ asked.pc = "keys" /\ asked.op = cmd[t].op
          /\ asked.id = cmd[t].id /\ asked.agents = cmd[t].agents
      BY <1>1, <2>3 DEF Commands, Points
    <3> HIDE DEF asked
    <3>4. OpOK(asked)
      BY <1>1, <2>3, <3>3 DEF OpOK
    <3> QED BY <2>3, <3>3, <3>4
  <2>4. CASE Change(t, NotRunning, [file EXCEPT !.junk = @ \/ some])
    <3>1. NotRunning.pc # "open"
      BY IdleTyped
    <3> QED BY <2>4, <3>1, IdleTyped
  <2> QED BY <2>1, <2>2, <2>3, <2>4
<1>3. PICK c \in Commands, some \in BOOLEAN :
        /\ Change(t, c, [file EXCEPT !.junk = @ \/ some])
        /\ OpOK(c) /\ c.pc # "open"
  BY <1>2
<1>4. \E f \in Files : Change(t, c, f) /\ f.there
  <2> DEFINE g == [file EXCEPT !.junk = @ \/ some]
  <2>1. g \in Files /\ g.there
    BY <1>1 DEF Files
  <2>2. Change(t, c, g)
    BY <1>3
  <2> HIDE DEF g
  <2> QED BY <2>1, <2>2
<1>5. PICK f \in Files : Change(t, c, f) /\ f.there
  BY <1>4
<1>6. WasGiven(c)'
  BY <1>3 DEF WasGiven
<1>7. /\ made' \in Nat /\ wanted' \in Seq(Sections) /\ given' \subseteq Nat
      /\ given \subseteq given' /\ spoiled' \in BOOLEAN
  BY <1>1 DEF ConfigInv, ConfigTypeOK
<1> QED BY <1>1, <1>3, <1>5, <1>6, <1>7, Changes

LEMMA ConfigInitInv == ConfigInit => ConfigInv
<1> SUFFICES ASSUME ConfigInit PROVE ConfigInv
  OBVIOUS
<1>1. /\ cmd \in [Terminals -> Commands] /\ \A t \in Terminals : cmd[t] = NotRunning
  BY IdleTyped DEF ConfigInit
<1>2. made = 0 /\ given = {} /\ spoiled = FALSE /\ wanted = file.agents
  BY DEF ConfigInit
<1>3. /\ file \in Files /\ file.agents \in Seq(Sections)
      /\ ~file.junk /\ Len(file.tokens) <= 1 /\ Readable(file.agents)
  <2>1. <<>> \in Seq(Nat) /\ <<0>> \in Seq(Nat) /\ <<>> \in Seq(Sections)
        /\ Len(<<>>) <= 1 /\ Len(<<0>>) <= 1 /\ Readable(<<>>)
    BY DEF Readable
  <2>2. CASE file = NoFile
    BY <2>1, <2>2 DEF NoFile, Files
  <2>3. ASSUME NEW ts \in {<<>>, << 0 >>}, NEW id \in Ids, NEW tuned \in BOOLEAN,
               file = File(Chunk(ts, <<[Section(id) EXCEPT !.tuned = tuned]>>))
        PROVE  /\ file \in Files /\ file.agents \in Seq(Sections)
               /\ ~file.junk /\ Len(file.tokens) <= 1 /\ Readable(file.agents)
    <3> DEFINE s == [Section(id) EXCEPT !.tuned = tuned]
    <3>1. s \in Sections /\ s.keys = 1
      BY DEF Section, Sections
    <3> HIDE DEF s
    <3>2. <<s>> \in Seq(Sections) /\ Len(<<s>>) = 1 /\ <<s>>[1] = s
      BY <3>1
    <3>3. file.tokens = ts /\ file.agents = <<s>> /\ ~file.junk /\ file.there
      BY <2>3 DEF File, Chunk, s
    <3>4. file \in Files
      BY <2>1, <2>3, <3>2 DEF File, Chunk, Files, s
    <3>5. Readable(<<s>>)
      BY <3>1, <3>2 DEF Readable
    <3> QED BY <2>1, <3>2, <3>3, <3>4, <3>5
  <2> QED BY <2>2, <2>3 DEF ConfigInit
<1>4. \A t \in Terminals : ~Halfway(t) /\ OpOK(cmd[t]) /\ cmd[t].op # "add"
                           /\ cmd[t].pc = "idle" /\ ~cmd[t].fresh
  BY <1>1, IdleTyped DEF Halfway
<1>5. WholeFile
  BY <1>2, <1>3 DEF WholeFile, GivenIs
<1>6. OneWriter /\ \A t \in Terminals : Together(t) /\ WasGiven(cmd[t])
  BY <1>4 DEF OneWriter, Together, Continues, WasGiven
<1> QED BY <1>1, <1>2, <1>3, <1>4, <1>5, <1>6 DEF ConfigInv, ConfigTypeOK, OpsOK, InOrder

LEMMA ConfigKeepsInv == ConfigInv /\ [ConfigNext]_configVars => ConfigInv'
<1> SUFFICES ASSUME ConfigInv, [ConfigNext]_configVars PROVE ConfigInv'
  OBVIOUS
<1>1. CASE UNCHANGED configVars
  <2>1. UNCHANGED <<file, cmd, made, wanted, given, spoiled>>
    BY <1>1 DEF configVars
  <2>2. ConfigTypeOK'
    BY <2>1 DEF ConfigInv, ConfigTypeOK
  <2>3. OpsOK'
    BY <2>1 DEF ConfigInv, OpsOK, Halfway, WasGiven
  <2>4. InOrder'
    <3>1. OneWriter => OneWriter'
      BY <2>1 DEF OneWriter, Halfway
    <3>2. WholeFile => WholeFile'
      BY <2>1 DEF WholeFile, Quiet, Halfway, GivenIs
    <3>3. ASSUME NEW t \in Terminals PROVE Together(t) => Together(t)'
      BY <2>1 DEF Together, Quiet, Halfway, Agrees, Continues, Token, GivenIs, Begun
    <3> QED BY <2>1, <3>1, <3>2, <3>3 DEF ConfigInv, InOrder
  <2> QED BY <2>2, <2>3, <2>4 DEF ConfigInv
<1>2. CASE ConfigNext
  <2>1. PICK t \in Terminals :
          \/ \E op \in {"init", "add", "remove"}, id \in Ids : Start(t, op, id)
          \/ Start(t, "load", "none")
          \/ LoadFails(t) \/ LoadWithToken(t) \/ LoadWithoutToken(t) \/ AppendToken(t)
          \/ Truncate(t) \/ WriteChunk(t) \/ WriteLast(t) \/ WriteToken(t)
          \/ WriteDefault(t) \/ AppendAgent(t) \/ AppendKeys(t)
          \/ ConfigWriteFails(t) \/ Kill(t)
    BY <1>2 DEF ConfigNext
  <2>2. ASSUME NEW op \in {"init", "add", "remove"}, NEW id \in Ids, Start(t, op, id)
        PROVE  ConfigInv'
    BY <2>2, StartStep
  <2>3. CASE Start(t, "load", "none")
    BY <2>3, StartStep
  <2>4. CASE LoadFails(t) \/ Kill(t)
    BY <2>4, StopStep
  <2>5. CASE LoadWithToken(t)
    BY <2>5, LoadWithTokenStep
  <2>6. CASE LoadWithoutToken(t)
    BY <2>6, LoadWithoutTokenStep
  <2>7. CASE AppendToken(t)
    BY <2>7, AppendTokenStep
  <2>8. CASE Truncate(t)
    BY <2>8, TruncateStep
  <2>9. CASE WriteChunk(t)
    BY <2>9, WriteChunkStep
  <2>10. CASE WriteLast(t)
    BY <2>10, WriteLastStep
  <2>11. CASE WriteToken(t)
    BY <2>11, WriteTokenStep
  <2>12. CASE WriteDefault(t)
    BY <2>12, WriteDefaultStep
  <2>13. CASE AppendAgent(t)
    BY <2>13, AppendAgentStep
  <2>14. CASE AppendKeys(t)
    BY <2>14, AppendKeysStep
  <2>15. CASE ConfigWriteFails(t)
    BY <2>15, ConfigWriteFailsStep
  <2> QED BY <2>1, <2>2, <2>3, <2>4, <2>5, <2>6, <2>7, <2>8, <2>9, <2>10, <2>11,
             <2>12, <2>13, <2>14, <2>15
<1> QED BY <1>1, <1>2

\* Unless commands spoil the file (they meet halfway, save a token or make a
\* first file over what they have not seen, are killed halfway or cannot
\* write), the file at rest loads, and its sections are the ones the last
\* remove wrote and the ones added since, in their order.
THEOREM AgentsKept == ConfigSpec => []AgentsAsCommanded
<1>1. ConfigInv => AgentsAsCommanded
  <2> SUFFICES ASSUME ConfigInv, AtRest PROVE Loadable(file) /\ file.agents = wanted
    BY DEF AgentsAsCommanded
  <2>1. ~spoiled /\ file.there /\ Quiet
    BY DEF AtRest, Quiet
  <2>2. /\ ~file.junk /\ GivenIs(file.tokens)
        /\ file.agents = wanted /\ Readable(file.agents)
    BY <2>1 DEF ConfigInv, InOrder, WholeFile
  <2>3. file.agents \in Seq(Sections)
    BY DEF ConfigInv, ConfigTypeOK, Files
  <2>5. Loadable(file)
    BY <2>1, <2>2, <2>3 DEF Loadable, GivenIs, Readable
  <2> QED BY <2>2, <2>5
<1> QED BY <1>1, ConfigInitInv, ConfigKeepsInv, PTL DEF ConfigSpec

\* Likewise the token any command was given is the file's token.
THEOREM TokenKept == ConfigSpec => []TokenOfFirstRun
<1>1. ConfigInv => TokenOfFirstRun
  BY DEF TokenOfFirstRun, AtRest, ConfigInv, InOrder, WholeFile, Quiet, GivenIs
<1> QED BY <1>1, ConfigInitInv, ConfigKeepsInv, PTL DEF ConfigSpec

-----------------------------------------------------------------------------
(***************************************************************************)
(* The allowlist of domains: TypeOK and AllowExplained are inductive       *)
(***************************************************************************)

USE GatekeeperAssumption

IInv == TypeOK /\ AllowExplained

\* A row that SetDomain writes is an entry, whatever was there.
LEMMA SetDomainOK ==
  ASSUME TypeOK, NEW d \in Domains, NEW status \in {"allow", "deny"},
         NEW by \in {"user", "default", "skill"}, SetDomain(d, status, by)
  PROVE  /\ table' \in [Domains -> Entry \cup {NoEntry}]
         /\ table'[d] # NoEntry
         /\ table'[d].by = by
         /\ \A e \in Domains \ {d} : table'[e] = table[e]
<1> DEFINE row == [status |-> status, by |-> by, count |-> table[d].count]
<1>1. table[d].count \in Nat
  BY DEF TypeOK, Entry, NoEntry
<1>2. row \in Entry /\ row # NoEntry
  BY <1>1 DEF Entry, NoEntry
<1>3. table' = [table EXCEPT ![d] = row]
  BY DEF SetDomain
<1> HIDE DEF row
<1>4. table'[d] = row /\ \A e \in Domains \ {d} : table'[e] = table[e]
  BY <1>3 DEF TypeOK
<1>5. table' \in [Domains -> Entry \cup {NoEntry}]
  BY <1>2, <1>3 DEF TypeOK
<1> QED BY <1>2, <1>4, <1>5 DEF row

\* No step takes an entry away, and every step keeps the types.
LEMMA TypeStep ==
  ASSUME TypeOK, [Next]_vars
  PROVE  TypeOK' /\ \A d \in Domains : table[d] # NoEntry => table'[d] # NoEntry
<1> USE DEF TypeOK, Actors, Goto
<1>1. CASE UNCHANGED vars
  BY <1>1 DEF vars
<1>2. ASSUME NEW r \in Requests, Lookup(r)
      PROVE  TypeOK' /\ table' = table
  <2>1. \A d \in Domains : table[d] # NoEntry => table[d].status \in {"allow", "deny"}
    BY DEF Entry
  <2> QED BY <1>2, <2>1 DEF Lookup, Decide
<1>3. ASSUME NEW r \in Requests, LookupFails(r)
      PROVE  TypeOK' /\ table' = table
  BY <1>3 DEF LookupFails, Decide
<1>4. ASSUME NEW r \in Requests, GrantDefault(r)
      PROVE  TypeOK' /\ \A d \in Domains : table[d] # NoEntry => table'[d] # NoEntry
  BY <1>4, SetDomainOK DEF GrantDefault
<1>5. ASSUME NEW r \in Requests, Touch(r)
      PROVE  TypeOK' /\ \A d \in Domains : table[d] # NoEntry => table'[d] # NoEntry
  <2> DEFINE s   == subject[r]
             row == [table[s] EXCEPT !.count = @ + 1]
  <2>1. CASE table[s] # NoEntry /\ table' = [table EXCEPT ![s] = row]
    <3>1. table[s] \in Entry
      BY <2>1
    <3>2. row \in Entry /\ row # NoEntry
      BY <3>1 DEF Entry, NoEntry
    <3> QED BY <1>5, <2>1, <3>2 DEF Touch
  <2>2. CASE table' = table
    BY <1>5, <2>2 DEF Touch
  <2> QED BY <1>5, <2>1, <2>2 DEF Touch
<1>6. ASSUME NEW r \in Requests, LogAccess(r)
      PROVE  TypeOK' /\ table' = table
  BY <1>6 DEF LogAccess
<1>7. ASSUME NEW s \in Seeders, SeedLookup(s)
      PROVE  TypeOK' /\ table' = table
  BY <1>7 DEF SeedLookup
<1>8. ASSUME NEW s \in Seeders, SeedDomain(s)
      PROVE  TypeOK' /\ \A d \in Domains : table[d] # NoEntry => table'[d] # NoEntry
  BY <1>8, SetDomainOK DEF SeedDomain
<1>9. CASE UserSets
  BY <1>9, SetDomainOK DEF UserSets
<1>10. CASE Crash
  BY <1>10 DEF Crash
<1> QED BY <1>1, <1>2, <1>3, <1>4, <1>5, <1>6, <1>7, <1>8, <1>9, <1>10 DEF Next

LEMMA ExplainedStep ==
  ASSUME IInv, [Next]_vars
  PROVE  AllowExplained'
<1>1. /\ TypeOK /\ TypeOK'
      /\ \A d \in Domains : table[d] # NoEntry => table'[d] # NoEntry
  BY TypeStep DEF IInv
<1> SUFFICES ASSUME NEW r \in Requests, stage'[r] # "idle", verdict'[r] = "allow"
             PROVE  subject'[r] \in Defaults \/ table'[subject'[r]] # NoEntry
  BY DEF AllowExplained
<1>2. CASE stage[r] # "idle" /\ verdict[r] = "allow" /\ subject'[r] = subject[r]
  BY <1>1, <1>2 DEF IInv, AllowExplained, TypeOK, Actors
<1>3. CASE Lookup(r) \/ LookupFails(r)
  BY <1>1, <1>3 DEF Lookup, LookupFails, Decide, TypeOK, Actors
<1>4. CASE ~(Lookup(r) \/ LookupFails(r))
  <2> DEFINE Kept == /\ stage'[r] # "idle" => stage[r] # "idle"
                     /\ verdict'[r] = "allow" => verdict[r] = "allow"
                     /\ subject'[r] = subject[r]
  <2> USE DEF Goto, TypeOK, Actors
  <2>1. ASSUME NEW q \in Requests, Lookup(q) \/ LookupFails(q)
        PROVE  Kept
    BY <1>1, <1>4, <2>1 DEF Lookup, LookupFails, Decide
  <2>2. ASSUME NEW q \in Requests, GrantDefault(q) \/ Touch(q) \/ LogAccess(q)
        PROVE  Kept
    BY <1>1, <2>2 DEF GrantDefault, Touch, LogAccess
  <2>3. ASSUME NEW s \in Seeders, SeedLookup(s) \/ SeedDomain(s)
        PROVE  Kept
    BY <1>1, <2>3, GatekeeperAssumption DEF SeedLookup, SeedDomain
  <2>4. ASSUME UserSets \/ Crash \/ UNCHANGED vars
        PROVE  Kept
    BY <1>1, <2>4 DEF UserSets, Crash, vars
  <2>5. Kept
    BY <2>1, <2>2, <2>3, <2>4 DEF Next
  <2> QED BY <1>2, <2>5
<1> QED BY <1>3, <1>4

(***************************************************************************)
(* A request is let through only to a default or to a domain somebody      *)
(* entered, whatever fails, races or dies (gatekeeper.go:37-86).           *)
(***************************************************************************)
THEOREM FailsClosed == Spec => []AllowExplained
<1>1. Init => IInv
  BY DEF Init, IInv, TypeOK, AllowExplained, Actors
<1>2. IInv /\ [Next]_vars => IInv'
  BY TypeStep, ExplainedStep DEF IInv
<1>3. IInv => AllowExplained
  BY DEF IInv
<1> QED BY <1>1, <1>2, <1>3, PTL DEF Spec

(***************************************************************************)
(* Once a domain has an entry and the grants that raced with it are done,  *)
(* only the user changes what it says (gatekeeper.go:88-117, the table's   *)
(* ON CONFLICT clause).                                                    *)
(***************************************************************************)
THEOREM OnlyUserChanges == Spec => SettledStands
<1>1. Init => TypeOK
  BY DEF Init, TypeOK, Actors
<1>2. TypeOK /\ [Next]_vars => TypeOK'
  BY TypeStep
<1> DEFINE Settled ==
      \A d \in Domains : table[d] # NoEntry =>
        /\ Racing(d)' \subseteq Racing(d)
        /\ Racing(d) = {} =>
             \/ table'[d].status = table[d].status /\ table'[d].by = table[d].by
             \/ table'[d].by = "user"
<1>3. TypeOK /\ [Next]_vars => [Settled]_vars
  <2> SUFFICES ASSUME TypeOK, Next, NEW d \in Domains, table[d] # NoEntry
               PROVE  /\ Racing(d)' \subseteq Racing(d)
                      /\ Racing(d) = {} =>
                           \/ /\ table'[d].status = table[d].status
                              /\ table'[d].by = table[d].by
                           \/ table'[d].by = "user"
    OBVIOUS
  <2>1. \A a \in Actors : stage'[a] = "grant" /\ subject'[a] = d =>
          stage[a] = "grant" /\ subject[a] = d
    BY DEF TypeOK, Next, Lookup, LookupFails, Decide, GrantDefault, Touch,
       LogAccess, SeedLookup, SeedDomain, UserSets, Crash, Goto, Actors
  <2>2. ASSUME Racing(d) = {}
        PROVE  \/ table'[d].status = table[d].status /\ table'[d].by = table[d].by
               \/ table'[d].by = "user"
    <3>1. \A a \in Actors : ~(stage[a] = "grant" /\ subject[a] = d)
      BY <2>2 DEF Racing
    <3>2. ASSUME NEW r \in Requests, GrantDefault(r)
          PROVE  table'[d] = table[d]
      BY <3>1, <3>2 DEF GrantDefault, SetDomain, TypeOK, Actors
    <3>3. ASSUME NEW s \in Seeders, SeedDomain(s)
          PROVE  table'[d] = table[d]
      BY <3>1, <3>3 DEF SeedDomain, SetDomain, TypeOK, Actors
    <3>4. ASSUME NEW r \in Requests, Touch(r)
          PROVE  table'[d].status = table[d].status /\ table'[d].by = table[d].by
      <4>1. table[d] \in Entry
        BY DEF TypeOK
      <4> QED BY <3>4, <4>1 DEF Touch, TypeOK, Actors, Entry
    <3>5. CASE UserSets
      <4>1. PICK e \in Domains, status \in {"allow", "deny"} :
              SetDomain(e, status, "user")
        BY <3>5 DEF UserSets
      <4> QED BY <4>1, SetDomainOK
    <3>6. CASE table' = table
      BY <3>6
    <3> QED BY <3>2, <3>3, <3>4, <3>5, <3>6 DEF Next, Lookup, LookupFails,
               LogAccess, SeedLookup, Crash
  <2> QED BY <2>1, <2>2 DEF Racing
<1>4. TypeOK /\ [Next]_vars => [Settled]_vars
  BY <1>3
<1> QED BY <1>1, <1>2, <1>4, PTL DEF Spec, SettledStands

-----------------------------------------------------------------------------
(***************************************************************************)
(* A skill's directory and its registry entry.                             *)
(***************************************************************************)

\* A caller's record (the other variables need no type).
Shape ==
  /\ call = [c \in Callers |-> call[c]]
  /\ \A c \in Callers :
       call[c] = [pc |-> call[c].pc, v |-> call[c].v,
                  good |-> call[c].good, loaded |-> call[c].loaded]

Writing(c) == call[c].pc # "idle"

\* Nobody writes for a program that is down.
Down == ~up => \A c \in Callers : ~Writing(c)

\* Without interference from outside at most one call writes the directory.
Alone ==
  up /\ ~unsynced =>
    /\ cli.pc = "idle"
    /\ \A c, d \in Callers : Writing(c) /\ Writing(d) => c = d

\* Where that call is says what the registry holds.
Synced ==
  up /\ ~unsynced =>
    /\ (\A c \in Callers : ~Writing(c)) => registry = LoadSkill(dir)
    /\ \A c \in Callers :
         /\ call[c].pc \in {"load", "register"} => registry = None
         /\ call[c].pc = "register" => call[c].loaded = LoadSkill(dir)

RegistryInv == Shape /\ Down /\ Alone /\ Synced

LEMMA RegistryInitOK == SkillInit => RegistryInv
<1> SUFFICES ASSUME SkillInit PROVE RegistryInv
  OBVIOUS
<1>1. \A c \in Callers : call[c] = Idle
  BY DEF SkillInit
<1>2. Shape
  BY <1>1 DEF SkillInit, Shape, Idle
<1>3. up = FALSE /\ Down
  BY <1>1 DEF SkillInit, Down, Writing, Idle
<1> QED BY <1>2, <1>3 DEF RegistryInv, Alone, Synced

LEMMA ShapeStep == ASSUME Shape, [SkillNext]_skillVars PROVE Shape'
<1> USE DEF Shape
<1>1. CASE UNCHANGED call
  BY <1>1
<1>2. ASSUME NEW c \in Callers, call' = [call EXCEPT ![c] = call'[c]],
             \/ \E pc : call'[c] = [call[c] EXCEPT !.pc = pc]
             \/ \E x : call'[c] = [call[c] EXCEPT !.pc = "register", !.loaded = x]
             \/ \E pc, v, good, x :
                  call'[c] = [pc |-> pc, v |-> v, good |-> good, loaded |-> x]
      PROVE  Shape'
  BY <1>2
<1>3. CASE ProgramEnds
  BY <1>3 DEF ProgramEnds, Idle
<1>4. ASSUME NEW c \in Callers, NEW good \in BOOLEAN, WriteSkill(c, good)
      PROVE  Shape'
  BY <1>2, <1>4 DEF WriteSkill, Step
<1>5. ASSUME NEW c \in Callers, OpenManifest(c) \/ WriteManifest(c) \/ WriteCode(c)
                                  \/ Unregister(c)
      PROVE  Shape'
  <2>1. PICK pc : Step(c, [call[c] EXCEPT !.pc = pc])
    BY <1>5 DEF OpenManifest, WriteManifest, WriteCode, Unregister, MoveOn
  <2> QED BY <1>2, <2>1 DEF Step
<1>6. ASSUME NEW c \in Callers, Step(c, Idle) PROVE Shape'
  BY <1>2, <1>6 DEF Step, Idle
<1>7. ASSUME NEW c \in Callers, WriteFails(c) \/ Register(c) \/ Load(c) PROVE Shape'
  <2>1. CASE Step(c, Idle)
    BY <1>6, <2>1
  <2>2. CASE Step(c, [call[c] EXCEPT !.pc = "register", !.loaded = LoadSkill(dir)])
    <3> DEFINE x == LoadSkill(dir)
    <3> HIDE DEF x
    <3>1. Step(c, [call[c] EXCEPT !.pc = "register", !.loaded = x])
      BY <2>2 DEF x
    <3> QED BY <1>2, <3>1 DEF Step
  <2> QED BY <1>7, <2>1, <2>2 DEF WriteFails, Register, Load
<1>8. CASE Boot \/ CopyNotes \/ CopyCode \/ CopyManifest \/ RemoveSkill \/ RemoveFile
           \/ RemoveDir \/ CommandFails \/ \E kind \in {"code", "instruction"} : AddSkill(kind)
  BY <1>1, <1>8 DEF Boot, CopyNotes, CopyCode, CopyManifest, RemoveSkill, RemoveFile,
                    RemoveDir, CommandFails, AddSkill, Outside
<1>9. CASE UNCHANGED skillVars
  BY <1>1, <1>9 DEF skillVars
<1> QED BY <1>3, <1>4, <1>5, <1>7, <1>8, <1>9 DEF SkillNext

\* What the command line does is from outside while the program runs, and
\* touches no call.
LEMMA OutsideStep ==
  ASSUME RegistryInv, unsynced' = (unsynced \/ up), UNCHANGED <<registry, up, call>>
  PROVE  Down' /\ Alone' /\ Synced'
BY DEF RegistryInv, Down, Alone, Synced, Writing

\* One step per action.
LEMMA RegistryStepOK == RegistryInv /\ [SkillNext]_skillVars => RegistryInv'
<1> SUFFICES ASSUME RegistryInv, [SkillNext]_skillVars PROVE RegistryInv'
  OBVIOUS
<1>1. Shape'
  BY ShapeStep DEF RegistryInv
<1> USE DEF RegistryInv, Shape
<1>2. CASE UNCHANGED skillVars
  BY <1>1, <1>2 DEF skillVars, Down, Alone, Synced, Writing, LoadSkill
<1>3. CASE Boot
  BY <1>1, <1>3 DEF Boot, Down, Alone, Synced, Writing, LoadSkill
<1>4. CASE ProgramEnds
  BY <1>1, <1>4 DEF ProgramEnds, Idle, Down, Alone, Synced, Writing
<1>5. ASSUME NEW c \in Callers, NEW good \in BOOLEAN, WriteSkill(c, good)
      PROVE  RegistryInv'
  <2>1. call[c].pc = "idle" /\ call'[c].pc = "open"
    BY <1>5 DEF WriteSkill, Step
  <2>2. \A d \in Callers : d # c => call'[d] = call[d]
    BY <1>5 DEF WriteSkill, Step
  <2>3. ~unsynced' => ~unsynced /\ \A d \in Callers : ~Writing(d)
    BY <1>5 DEF WriteSkill, Writing
  <2>4. UNCHANGED <<registry, up, cli>> /\ up
    BY <1>5 DEF WriteSkill
  <2> QED BY <1>1, <2>1, <2>2, <2>3, <2>4 DEF Down, Alone, Synced, Writing
<1>6. ASSUME NEW c \in Callers, OpenManifest(c) \/ WriteManifest(c) \/ WriteCode(c)
      PROVE  RegistryInv'
  <2>1. Writing(c) /\ call'[c].pc \in {"manifest", "code", "remove"}
    BY <1>6 DEF OpenManifest, WriteManifest, WriteCode, MoveOn, Step, Writing
  <2>2. \A d \in Callers : d # c => call'[d] = call[d]
    BY <1>6 DEF OpenManifest, WriteManifest, WriteCode, MoveOn, Step
  <2>3. UNCHANGED <<registry, up, cli, unsynced>>
    BY <1>6 DEF OpenManifest, WriteManifest, WriteCode
  <2> QED BY <1>1, <2>1, <2>2, <2>3 DEF Down, Alone, Synced, Writing
<1>7. ASSUME NEW c \in Callers, WriteFails(c) PROVE RegistryInv'
  BY <1>1, <1>7 DEF WriteFails, Step, Idle, Down, Alone, Synced, Writing
<1>8. ASSUME NEW c \in Callers, Unregister(c) PROVE RegistryInv'
  BY <1>1, <1>8 DEF Unregister, MoveOn, Step, Down, Alone, Synced, Writing
<1>9. ASSUME NEW c \in Callers, Load(c) PROVE RegistryInv'
  <2>1. LoadSkill(dir)' = LoadSkill(dir)
    BY <1>9 DEF Load, LoadSkill
  <2>2. CASE LoadSkill(dir) = None
    <3>1. Writing(c) /\ call[c].pc = "load" /\ ~Writing(c)'
      BY <1>9, <2>2 DEF Load, Step, Idle, Writing
    <3>2. \A d \in Callers : d # c => call'[d] = call[d]
      BY <1>9, <2>2 DEF Load, Step
    <3>3. UNCHANGED <<registry, up, cli, unsynced>>
      BY <1>9 DEF Load
    <3> QED BY <1>1, <2>1, <2>2, <3>1, <3>2, <3>3 DEF Down, Alone, Synced, Writing
  <2>3. CASE LoadSkill(dir) # None
    <3>1. /\ call[c].pc = "load" /\ call'[c].pc = "register"
          /\ call'[c].loaded = LoadSkill(dir)
      BY <1>9, <2>3 DEF Load, Step
    <3>2. \A d \in Callers : d # c => call'[d] = call[d]
      BY <1>9, <2>3 DEF Load, Step
    <3>3. UNCHANGED <<registry, up, cli, unsynced>>
      BY <1>9 DEF Load
    <3> QED BY <1>1, <2>1, <3>1, <3>2, <3>3 DEF Down, Alone, Synced, Writing
  <2> QED BY <2>2, <2>3
<1>10. ASSUME NEW c \in Callers, Register(c) PROVE RegistryInv'
  <2>1. LoadSkill(dir)' = LoadSkill(dir)
    BY <1>10 DEF Register, LoadSkill
  <2> QED BY <1>1, <1>10, <2>1 DEF Register, Step, Idle, Down, Alone, Synced, Writing
<1>11. ASSUME NEW kind \in {"code", "instruction"}, AddSkill(kind) PROVE RegistryInv'
  BY <1>1, <1>11, OutsideStep DEF AddSkill
<1>12. CASE CopyNotes \/ CopyCode \/ CopyManifest
  BY <1>1, <1>12, OutsideStep DEF CopyNotes, CopyCode, CopyManifest, Outside
<1>13. CASE RemoveSkill \/ RemoveFile \/ RemoveDir \/ CommandFails
  BY <1>1, <1>13, OutsideStep DEF RemoveSkill, RemoveFile, RemoveDir, CommandFails, Outside
<1> QED BY <1>2, <1>3, <1>4, <1>5, <1>6, <1>7, <1>8, <1>9, <1>10, <1>11, <1>12, <1>13 DEF SkillNext

(***************************************************************************)
(* The agent has the skill a restart would load, unless the directory was  *)
(* changed from outside since the start, two writes overlapped or one      *)
(* failed on the disk: a write that is alone finds, where it is refused    *)
(* and where it registers, the directory as it left it.                    *)
(***************************************************************************)
THEOREM RegistryIsDisk == SkillSpec => []RestartChangesNothing
<1>1. RegistryInv => RestartChangesNothing
  BY DEF RegistryInv, Synced, Writing, RestartChangesNothing
<1> QED BY <1>1, RegistryInitOK, RegistryStepOK, PTL DEF SkillSpec
=============================================================================
