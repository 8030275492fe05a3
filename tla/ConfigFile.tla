----------------------------- MODULE ConfigFile -----------------------------
(***************************************************************************)
(* smithly.toml (internal/config/config.go) under the commands that read   *)
(* and write it: `smithly init`, `agent add`, `agent remove`, and all the  *)
(* others, which only load it.  Each terminal runs one command at a time,  *)
(* nothing locks the file, and a command may be killed.                    *)
(*                                                                         *)
(* The file is what a decoder sees of it: the token keys, the agents'      *)
(* sections in their order, and whether there are bytes in it that no      *)
(* decoder takes.  A section is its name, the number of times its other    *)
(* keys occur, and whether it is tuned: has settings that rewriteConfig    *)
(* does not write (max_context, cost_limits, pricing, a heartbeat that is  *)
(* not enabled, auto_resume).                                              *)
(***************************************************************************)
EXTENDS Integers, Sequences, SequencesExt

CONSTANTS
  Terminals,   \* where commands run
  Ids,         \* names of agents
  MaxCommands  \* bound: commands started

VARIABLES
  file,
  cmd,       \* what a terminal's command is doing (NotRunning)
  commands,  \* commands started
  made,      \* tokens generated so far, numbered
  wanted,    \* ghost: the sections there should be
  given,     \* ghost: tokens that Load returned
  spoiled    \* ghost: a writer met another one, wrote a token or a first file
             \* over what it had not seen, was killed halfway, or could not write

configVars == <<file, cmd, commands, made, wanted, given, spoiled>>

Chunk(ts, as) == [tokens |-> ts, agents |-> as, junk |-> FALSE]
NoFile == [there |-> FALSE, tokens |-> <<>>, agents |-> <<>>, junk |-> FALSE]
File(chunk) == [there |-> TRUE, tokens |-> chunk.tokens,
                agents |-> chunk.agents, junk |-> chunk.junk]
Section(id) == [id |-> id, keys |-> 1, tuned |-> FALSE]
AgentIds(as) == {as[i].id : i \in DOMAIN as}

\* What toml.Decode accepts: no key twice.
Loadable(f) ==
  /\ f.there /\ ~f.junk /\ Len(f.tokens) <= 1
  /\ \A i \in DOMAIN f.agents : f.agents[i].keys <= 1

\* pc: "load", "save" (appendToken reads), "open" or "saveopen" (the file is
\* truncated next), "write" or "savewrite", "ask" (prompts), "keys" (of the
\* new section).  token and agents are what Load has decoded, todo the
\* chunks still to write; fresh: nobody else has written since the command
\* started, or since it opened the file to write.
NotRunning == [pc |-> "idle", op |-> "none", id |-> "none", token |-> 0,
               agents |-> <<>>, todo |-> <<>>, fresh |-> FALSE]

\* No file yet, or one written by hand: with or without a token, its agent
\* tuned or not.
ConfigInit ==
  /\ \/ file = NoFile
     \/ \E ts \in {<<>>, <<0>>}, id \in Ids, tuned \in BOOLEAN :
          file = File(Chunk(ts, <<[Section(id) EXCEPT !.tuned = tuned]>>))
  /\ wanted = file.agents
  /\ cmd = [t \in Terminals |-> NotRunning] /\ commands = 0
  /\ made = 0 /\ given = {} /\ spoiled = FALSE

-----------------------------------------------------------------------------
Halfway(t) == cmd[t].pc \in {"write", "savewrite", "keys"}
MeetsWriter(t) == \E u \in Terminals \ {t} : Halfway(u)
At(t, pc) == cmd[t].pc = pc

Becomes(t, c) == cmd' = [cmd EXCEPT ![t] = c]

\* The file changes by t's hand, and what the others saw of it is stale.
Change(t, c, f) ==
  /\ file' = f
  /\ cmd' = [u \in Terminals |-> IF u = t THEN c ELSE [cmd[u] EXCEPT !.fresh = FALSE]]

\* A command starts.  init stops if there is a file, add if there is none.
\* (Bound: none starts once the file is spoiled, when nothing is claimed.)
Start(t, op, id) ==
  /\ At(t, "idle") /\ commands < MaxCommands /\ ~spoiled
  /\ op = "init" => ~file.there
  /\ op = "add" => file.there
  /\ Becomes(t, [NotRunning EXCEPT !.pc = IF op = "init" THEN "ask" ELSE "load",
                                  !.op = op, !.id = id, !.fresh = TRUE])
  /\ commands' = commands + 1
  /\ UNCHANGED <<file, made, wanted, given, spoiled>>

\* What rewriteConfig writes of the agents but one.
Rewritten(agents, id) ==
  FoldLeft(LAMBDA kept, a : IF a.id = id THEN kept
                            ELSE Append(kept, [a EXCEPT !.tuned = FALSE]), <<>>, agents)

\* The command c once Load has returned: most only use the configuration, add
\* asks for the agent's settings, remove rewrites the file, gateway first.
Loaded(c) ==
  LET others == Rewritten(c.agents, c.id)
      known == c.id \in AgentIds(c.agents)
  IN CASE c.op = "add" /\ ~known -> [c EXCEPT !.pc = "ask", !.todo = <<>>]
       [] c.op = "remove" /\ known ->
            [c EXCEPT !.pc = "open",
                      !.todo = <<Chunk(<<c.token>>, <<>>)>>
                        \o [i \in DOMAIN others |-> Chunk(<<>>, <<others[i]>>)]]
       [] OTHER -> NotRunning

\* Load reads and decodes the file, or fails ...
LoadFails(t) ==
  /\ At(t, "load") /\ ~Loadable(file)
  /\ Becomes(t, NotRunning)
  /\ UNCHANGED <<file, commands, made, wanted, given, spoiled>>

LoadWithToken(t) ==
  /\ At(t, "load") /\ Loadable(file) /\ file.tokens # <<>>
  /\ Becomes(t, Loaded([cmd[t] EXCEPT !.token = file.tokens[1],
                                     !.agents = file.agents]))
  /\ given' = given \union {file.tokens[1]}
  /\ UNCHANGED <<file, commands, made, wanted, spoiled>>

\* Mutant: the generated token is not saved.
LoadUnsaved(t) ==
  /\ At(t, "load") /\ Loadable(file) /\ file.tokens = <<>>
  /\ made' = made + 1 /\ given' = given \union {made + 1}
  /\ Becomes(t, Loaded([cmd[t] EXCEPT !.token = made + 1, !.agents = file.agents]))
  /\ UNCHANGED <<file, commands, wanted, spoiled>>

\* ... or finds no token and generates one, which appendToken is to save.
LoadWithoutToken(t) ==
  /\ At(t, "load") /\ Loadable(file) /\ file.tokens = <<>>
  /\ made' = made + 1
  /\ Becomes(t, [cmd[t] EXCEPT !.pc = "save", !.token = made + 1,
                              !.agents = file.agents])
  /\ UNCHANGED <<file, commands, wanted, given, spoiled>>

\* appendToken reads the file once more and puts its token in.
AppendToken(t) ==
  /\ At(t, "save")
  /\ Becomes(t, [cmd[t] EXCEPT
       !.pc = "saveopen",
       !.todo = <<[tokens |-> <<cmd[t].token>> \o file.tokens,
                   agents |-> file.agents, junk |-> file.junk]>>])
  /\ UNCHANGED <<file, commands, made, wanted, given, spoiled>>

\* os.Create, or os.WriteFile's open: the file is empty from here.
Truncate(t) ==
  LET c == [cmd[t] EXCEPT !.fresh = TRUE]
  IN  /\ \/ /\ At(t, "open")
            /\ Change(t, [c EXCEPT !.pc = "write"], File(Chunk(<<>>, <<>>)))
         \/ /\ At(t, "saveopen")
            /\ Change(t, [c EXCEPT !.pc = "savewrite"], File(Chunk(<<>>, <<>>)))
      /\ spoiled' = \/ spoiled
                    \/ MeetsWriter(t)
                    \/ ~cmd[t].fresh /\ ~(At(t, "open") /\ cmd[t].op = "remove")
      /\ UNCHANGED <<commands, made, wanted, given>>

\* The next write, at this writer's own offset: if somebody else has written
\* since it opened the file, the bytes may be mixed up.
Write(t, c) ==
  LET chunk == Head(cmd[t].todo) IN
  \E mixed \in IF cmd[t].fresh THEN {FALSE} ELSE BOOLEAN :
    Change(t, c, File([tokens |-> file.tokens \o chunk.tokens,
                       agents |-> file.agents \o chunk.agents,
                       junk |-> file.junk \/ chunk.junk \/ mixed]))

WriteChunk(t) ==
  /\ At(t, "write") /\ Len(cmd[t].todo) > 1
  /\ Write(t, [cmd[t] EXCEPT !.todo = Tail(@)])
  /\ UNCHANGED <<commands, made, wanted, given, spoiled>>

\* The last one: init has made its agent, or remove is done.
WriteLast(t) ==
  /\ At(t, "write") /\ Len(cmd[t].todo) = 1
  /\ Write(t, NotRunning)
  /\ wanted' = IF cmd[t].op = "init" THEN <<Section(cmd[t].id)>>
               ELSE Rewritten(cmd[t].agents, cmd[t].id)
  /\ UNCHANGED <<commands, made, given, spoiled>>

\* The token is saved, and Load returns.
WriteToken(t) ==
  /\ At(t, "savewrite")
  /\ Write(t, Loaded(cmd[t]))
  /\ given' = given \union {cmd[t].token}
  /\ UNCHANGED <<commands, made, wanted, spoiled>>

\* The prompts of init are answered: WriteDefault makes a token.
WriteDefault(t) ==
  /\ At(t, "ask") /\ cmd[t].op = "init"
  /\ made' = made + 1
  /\ Becomes(t, [cmd[t] EXCEPT
       !.pc = "open",
       !.todo = <<Chunk(<<made + 1>>, <<>>), Chunk(<<>>, <<Section(cmd[t].id)>>)>>])
  /\ UNCHANGED <<file, commands, wanted, given, spoiled>>

AddSection(t, agents) ==
  /\ At(t, "ask") /\ cmd[t].op = "add"
  /\ Change(t, [cmd[t] EXCEPT !.pc = "keys"],
       [file EXCEPT !.agents = Append(agents, [Section(cmd[t].id) EXCEPT !.keys = 0])])
  /\ wanted' = Append(wanted, Section(cmd[t].id))
  /\ spoiled' = (spoiled \/ MeetsWriter(t))
  /\ UNCHANGED <<commands, made, given>>

\* Mutant: add writes the agents it loaded before the prompts, and its own.
AppendLoaded(t) == AddSection(t, cmd[t].agents)

\* The prompts of add are answered: AppendAgent writes at the end, wherever
\* that now is, the first keys of the section ...
AppendAgent(t) == AddSection(t, file.agents)

\* ... and the others (provider, base_url): they join the last section.
AppendKeys(t) ==
  /\ At(t, "keys")
  /\ IF file.agents = <<>>
       THEN \E mixed \in BOOLEAN : Change(t, NotRunning, [file EXCEPT !.junk = @ \/ mixed])
       ELSE Change(t, NotRunning, [file EXCEPT !.agents[Len(file.agents)].keys = @ + 1])
  /\ UNCHANGED <<commands, made, wanted, given, spoiled>>

\* A write fails, perhaps after some bytes.  Only appendToken's is an error;
\* the others are not looked at: the command goes on and reports success.
ConfigWriteFails(t) ==
  LET after == CASE At(t, "write") /\ Len(cmd[t].todo) > 1 -> [cmd[t] EXCEPT !.todo = Tail(@)]
                 [] At(t, "ask") -> [cmd[t] EXCEPT !.pc = "keys"]
                 [] OTHER -> NotRunning
  IN  /\ Halfway(t) \/ (At(t, "ask") /\ cmd[t].op = "add")
      /\ \E some \in BOOLEAN : Change(t, after, [file EXCEPT !.junk = @ \/ some])
      /\ spoiled' = TRUE
      /\ UNCHANGED <<commands, made, wanted, given>>

\* An interrupt: these commands have no handler for it.
Kill(t) ==
  /\ ~At(t, "idle")
  /\ Becomes(t, NotRunning)
  /\ spoiled' = (spoiled \/ Halfway(t))
  /\ UNCHANGED <<file, commands, made, wanted, given>>

ConfigNext ==
  \E t \in Terminals :
    \/ \E op \in {"init", "add", "remove"}, id \in Ids : Start(t, op, id)
    \/ Start(t, "load", "none")
    \/ LoadFails(t) \/ LoadWithToken(t) \/ LoadWithoutToken(t) \/ AppendToken(t)
    \/ Truncate(t) \/ WriteChunk(t) \/ WriteLast(t) \/ WriteToken(t)
    \/ WriteDefault(t) \/ AppendAgent(t) \/ AppendKeys(t)
    \/ ConfigWriteFails(t) \/ Kill(t)

ConfigSpec == ConfigInit /\ [][ConfigNext]_configVars

-----------------------------------------------------------------------------
AtRest == ~spoiled /\ file.there /\ \A t \in Terminals : ~Halfway(t)

\* Commands may overlap, also in their prompts, and be killed: unless two of
\* them are halfway through writing at once, one makes the first file or saves
\* a token over what it has not seen, one is killed halfway or cannot write,
\* the file loads, and its agents are, in this order, the ones the last remove
\* had loaded and kept, without their tuning, and the ones added since.  (Two
\* adds that overlap may add one agent twice, and a remove takes back what was
\* added after its load: AppendAgent, RemoveAgent, rewriteConfig.)
AgentsAsCommanded == AtRest => Loadable(file) /\ file.agents = wanted

\* The gateway's token that any command was given stays the file's token:
\* the one generated on the first run is the one of every later run.  (Load
\* and appendToken.)
TokenOfFirstRun == AtRest => \A token \in given : file.tokens = <<token>>
=============================================================================
