---------------------------- MODULE MCCommands -----------------------------
(***************************************************************************)
(* Model checking of what the user's commands and the running program      *)
(* share: the allowlist of domains (Gatekeeper), the configuration file    *)
(* (ConfigFile) and a skill's directory (SkillRegistry).  None of them     *)
(* touches another, so that each behaviour is about the one `shared` says. *)
(***************************************************************************)
EXTENDS Gatekeeper, SkillRegistry, ConfigFile, TLC

VARIABLE shared

CommandsInit ==
  /\ shared \in {"domains", "config", "skill"}
  /\ shared # "domains" => subject = [a \in Actors |-> CHOOSE d \in Domains : TRUE]
  /\ shared # "config" => file = NoFile
  /\ Init /\ ConfigInit /\ SkillInit

CommandsNext ==
  \/ shared = "domains" /\ Next /\ UNCHANGED <<shared, configVars, skillVars>>
  \/ shared = "config" /\ ConfigNext /\ UNCHANGED <<shared, vars, skillVars>>
  \/ shared = "skill" /\ SkillNext /\ UNCHANGED <<shared, vars, configVars>>

CommandsSpec ==
  CommandsInit /\ [][CommandsNext]_<<shared, vars, configVars, skillVars>>

\* Requests and seeders are interchangeable.
Symmetry == Permutations(Requests) \cup Permutations(Seeders)
=============================================================================
