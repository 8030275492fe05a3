--------------------------- MODULE SkillRegistry ---------------------------
(***************************************************************************)
(* One skill in its two places: the directory skills/<name>                *)
(* (internal/skills/skill.go) and the registry an agent keeps in memory    *)
(* (internal/skills/registry.go).  Chats of the running program write it   *)
(* (internal/tools/writeskill.go), the command line installs and removes   *)
(* it (cmd/smithly/cmd_skill.go), and a start loads it                     *)
(* (cmd/smithly/helpers.go).  Skills of other names share nothing with it  *)
(* but the map.                                                            *)
(*                                                                         *)
(* A skill's contents are numbered by who wrote them; of its files there   *)
(* are manifest.toml, INSTRUCTIONS.md (notes) and one program (code).      *)
(***************************************************************************)
EXTENDS Integers

CONSTANTS
  Callers,      \* chats that may call write_skill at once
  MaxVersions   \* bound: contents ever written

VARIABLES
  dir,        \* the directory: [there, manifest, notes, code]
  registry,   \* the skill as Load returned it, or None
  up,         \* the program runs
  call,       \* a caller's write_skill: [pc, v, good, loaded]
  cli,        \* the command line: [pc, v]
  versions,   \* contents written so far
  unsynced    \* ghost: since the start, the directory was changed from
              \* outside, two writes overlapped or one failed on the disk

skillVars == <<dir, registry, up, call, cli, versions, unsynced>>

None == [v |-> 0, good |-> FALSE, kind |-> "none"]  \* also a torn manifest
Gone == [there |-> FALSE, manifest |-> None, notes |-> FALSE, code |-> 0]
Idle == [pc |-> "idle", v |-> 0, good |-> FALSE, loaded |-> None]
NoCommand == [pc |-> "idle", v |-> 0, kind |-> "none"]

\* skills.Load: the manifest with its triggers is valid, and an instruction
\* skill has its INSTRUCTIONS.md.
LoadSkill(d) ==
  IF d.manifest.good /\ (d.manifest.kind = "code" \/ d.notes)
    THEN d.manifest ELSE None

SkillInit ==
  /\ dir = Gone /\ registry = None /\ up = FALSE
  /\ call = [c \in Callers |-> Idle] /\ cli = NoCommand
  /\ versions = 0 /\ unsynced = FALSE

-----------------------------------------------------------------------------
\* loadAgent registers what it can load.
Boot ==
  /\ ~up
  /\ up' = TRUE /\ registry' = LoadSkill(dir)
  /\ unsynced' = (cli.pc # "idle")
  /\ UNCHANGED <<dir, call, cli, versions>>

\* The program ends, wherever its chats are.  (The map has no lock: Go ends
\* a program whose goroutines use one at the same time.)
ProgramEnds ==
  /\ up
  /\ up' = FALSE /\ registry' = None
  /\ call' = [c \in Callers |-> Idle] /\ unsynced' = FALSE
  /\ UNCHANGED <<dir, cli, versions>>

Step(c, next) == call' = [call EXCEPT ![c] = next]
MoveOn(c, pc) == Step(c, [call[c] EXCEPT !.pc = pc])

\* write_skill with valid arguments makes the directory.  Whether the
\* triggers it is given are valid only Load will tell.
WriteSkill(c, good) ==
  /\ up /\ call[c].pc = "idle" /\ versions < MaxVersions
  /\ Step(c, [pc |-> "open", v |-> versions + 1, good |-> good, loaded |-> None])
  /\ versions' = versions + 1 /\ dir' = [dir EXCEPT !.there = TRUE]
  /\ unsynced' = (unsynced \/ \E other \in Callers : call[other].pc # "idle")
  /\ UNCHANGED <<registry, up, cli>>

\* The manifest is truncated ...
OpenManifest(c) ==
  /\ call[c].pc = "open" /\ dir.there
  /\ dir' = [dir EXCEPT !.manifest = None] /\ MoveOn(c, "manifest")
  /\ UNCHANGED <<registry, up, cli, versions, unsynced>>

\* ... and written (to no avail if the file is removed meanwhile).
WriteManifest(c) ==
  /\ call[c].pc = "manifest"
  /\ dir' = [dir EXCEPT !.manifest =
       IF dir.there THEN [v |-> call[c].v, good |-> call[c].good, kind |-> "code"]
                    ELSE None]
  /\ MoveOn(c, "code")
  /\ UNCHANGED <<registry, up, cli, versions, unsynced>>

WriteCode(c) ==
  /\ call[c].pc = "code" /\ dir.there
  /\ dir' = [dir EXCEPT !.code = call[c].v] /\ MoveOn(c, "remove")
  /\ UNCHANGED <<registry, up, cli, versions, unsynced>>

\* A file cannot be opened or written: an error, and nothing is undone.
WriteFails(c) ==
  /\ call[c].pc \in {"open", "manifest", "code"}
  /\ Step(c, Idle) /\ unsynced' = TRUE
  /\ UNCHANGED <<dir, registry, up, cli, versions>>

\* Mutant: the old skill is left in the registry.
RemoveNothing(c) ==
  /\ call[c].pc = "remove"
  /\ MoveOn(c, "load")
  /\ UNCHANGED <<registry, dir, up, cli, versions, unsynced>>

\* The old skill leaves the registry ...
Unregister(c) ==
  /\ call[c].pc = "remove"
  /\ registry' = None /\ MoveOn(c, "load")
  /\ UNCHANGED <<dir, up, cli, versions, unsynced>>

\* ... before it is known whether the new one can be loaded ...
Load(c) ==
  /\ call[c].pc = "load"
  /\ IF LoadSkill(dir) = None THEN Step(c, Idle)
     ELSE Step(c, [call[c] EXCEPT !.pc = "register", !.loaded = LoadSkill(dir)])
  /\ UNCHANGED <<dir, registry, up, cli, versions, unsynced>>

\* ... and registered, which fails if another call has been faster.
Register(c) ==
  /\ call[c].pc = "register"
  /\ registry' = IF registry = None THEN call[c].loaded ELSE registry
  /\ Step(c, Idle)
  /\ UNCHANGED <<dir, up, cli, versions, unsynced>>

-----------------------------------------------------------------------------
\* The command line works on the directory alone, while the program may run.
Outside(c, d) ==
  /\ cli' = c /\ dir' = d
  /\ unsynced' = (unsynced \/ up)
  /\ UNCHANGED <<registry, up, call, versions>>

\* skill add: the source is a skill that loads, the destination is new ...
AddSkill(kind) ==
  /\ cli.pc = "idle" /\ ~dir.there /\ versions < MaxVersions
  /\ cli' = [pc |-> "notes", v |-> versions + 1, kind |-> kind]
  /\ dir' = [dir EXCEPT !.there = TRUE]
  /\ versions' = versions + 1 /\ unsynced' = (unsynced \/ up)
  /\ UNCHANGED <<registry, up, call>>

\* ... and copyDir copies its files in the order of their names.
CopyNotes ==
  /\ cli.pc = "notes" /\ dir.there
  /\ Outside([cli EXCEPT !.pc = "code"],
             [dir EXCEPT !.notes = (cli.kind = "instruction")])

CopyCode ==
  /\ cli.pc = "code" /\ dir.there
  /\ Outside([cli EXCEPT !.pc = "manifest"],
             [dir EXCEPT !.code = IF cli.kind = "code" THEN cli.v ELSE @])

CopyManifest ==
  /\ cli.pc = "manifest" /\ dir.there
  /\ Outside(NoCommand,
             [dir EXCEPT !.manifest = [v |-> cli.v, good |-> TRUE, kind |-> cli.kind]])

\* skill remove: os.RemoveAll removes files one by one, then the directory.
RemoveSkill ==
  /\ cli.pc = "idle" /\ dir.there
  /\ Outside([cli EXCEPT !.pc = "removing"], dir)

RemoveFile ==
  /\ cli.pc = "removing"
  /\ \/ dir.manifest # None /\ Outside(cli, [dir EXCEPT !.manifest = None])
     \/ dir.notes /\ Outside(cli, [dir EXCEPT !.notes = FALSE])
     \/ dir.code # 0 /\ Outside(cli, [dir EXCEPT !.code = 0])

RemoveDir ==
  /\ cli.pc = "removing"
  /\ dir.manifest = None /\ ~dir.notes /\ dir.code = 0
  /\ Outside(NoCommand, Gone)

\* An error, or an interrupt: what was done stays done.
CommandFails ==
  /\ cli.pc # "idle"
  /\ Outside(NoCommand, dir)

SkillNext ==
  \/ Boot \/ ProgramEnds
  \/ \E c \in Callers :
       \/ \E good \in BOOLEAN : WriteSkill(c, good)
       \/ OpenManifest(c) \/ WriteManifest(c) \/ WriteCode(c) \/ WriteFails(c)
       \/ Unregister(c) \/ Load(c) \/ Register(c)
  \/ \E kind \in {"code", "instruction"} : AddSkill(kind)
  \/ CopyNotes \/ CopyCode \/ CopyManifest
  \/ RemoveSkill \/ RemoveFile \/ RemoveDir \/ CommandFails

SkillSpec == SkillInit /\ [][SkillNext]_skillVars

-----------------------------------------------------------------------------
\* Whatever crashed, was half installed, was refused or was written over
\* before: unless the directory was changed from outside since the start, two
\* writes overlapped or one failed on the disk, the agent has exactly the
\* skill that a restart would load.  (write_skill, loadAgent, skills.Load.)
RestartChangesNothing ==
  (up /\ ~unsynced /\ \A c \in Callers : call[c].pc = "idle")
    => registry = LoadSkill(dir)
=============================================================================
