------------------------------ MODULE SkillRun ------------------------------
(***************************************************************************)
(* Runs of code skills: the token a run gets from the sidecar, the build   *)
(* and the program as operating-system processes with children, and the    *)
(* two time limits (internal/sandbox, internal/skills/runner.go,           *)
(* internal/sidecar, internal/tools/runcodeskill.go).                      *)
(*                                                                         *)
(* Run starts a command and waits, as os/exec does: for the command's      *)
(* process, and then until nobody holds the pipes its output goes to.  The *)
(* context's end kills only while the process itself is still there.       *)
(***************************************************************************)
EXTENDS Integers, FiniteSets

CONSTANTS
  Runs,         \* calls of Run
  Timeout,      \* a program's limit, in ticks (30 s unless given)
  BuildTimeout, \* a build's limit (2 min)
  Grace,        \* what a token lives beyond Timeout (30 s)
  MaxChildren   \* bound: other processes a run has alive when it starts one

ASSUME SkillRunAssumption ==
  /\ Timeout \in Nat \ {0} /\ BuildTimeout \in Nat \ {0} /\ Grace \in Nat
  /\ MaxChildren \in Nat

VARIABLES
  provider, \* "none" or "docker" (internal/sandbox), "runner" (internal/skills)
  phase,    \* of each run; "lost" when the controller died
  main,     \* the process Run waits for: bash or the program, or docker's client
  children, \* the kinds of other processes the run has left alive
  spent,    \* ticks since main was started, stopped one past its limit
  tokens,   \* the runs whose token is in the sidecar's map
  age,      \* ticks since the token was issued, stopped one past its life
  waited    \* age of the token when the program was started

runVars == <<provider, phase, main, children, spent, tokens, age, waited>>

Busy == {"build", "run"}

\* A child in main's process group that holds the output's pipe; one that left
\* the group with setsid and holds it; one in the group without the pipe; one
\* of an earlier command; the container.
Child    == {"group", "session", "quiet", "stray", "container"}
Group    == {"group", "quiet"}
Piped    == {"group", "session"}
TokenTTL == Timeout + Grace

RunTypeOK ==
  /\ provider \in {"none", "docker", "runner"}
  /\ phase \in [Runs -> Busy \cup {"idle", "returned", "lost"}]
  /\ main \in [Runs -> {"none", "alive", "exited", "killed"}]
  /\ children \in [Runs -> SUBSET Child]
  /\ spent \in [Runs -> Nat] /\ age \in [Runs -> Nat] /\ waited \in [Runs -> Nat]
  /\ tokens \subseteq Runs

RunInit ==
  /\ provider \in {"none", "docker", "runner"}
  /\ phase = [r \in Runs |-> "idle"]
  /\ main = [r \in Runs |-> "none"]
  /\ children = [r \in Runs |-> {}]
  /\ spent = [r \in Runs |-> 0]
  /\ tokens = {}
  /\ age = [r \in Runs |-> 0]
  /\ waited = [r \in Runs |-> 0]

Limit(r)     == IF phase[r] = "build" THEN BuildTimeout ELSE Timeout
HasOutput(r) == children[r] \cap Piped # {}

\* Mutant: the token lives as long as the program may.
UsableWithoutGrace(r) == r \in tokens /\ age[r] <= Timeout

\* requireToken: a token counts while it is in the map and has not expired.
Usable(r) == r \in tokens /\ age[r] <= TokenTTL

IssueToken(r) ==
  /\ tokens' = tokens \cup {r}
  /\ age' = [age EXCEPT ![r] = 0]

\* The next command of the run.  What an earlier one left is out of its group;
\* docker's client starts a container.
Start(r, what) ==
  /\ phase' = [phase EXCEPT ![r] = what]
  /\ main' = [main EXCEPT ![r] = "alive"]
  /\ children' = [children EXCEPT ![r] =
       (IF @ = {} THEN {} ELSE {"stray"})
         \cup (IF provider = "docker" THEN {"container"} ELSE {})]
  /\ spent' = [spent EXCEPT ![r] = 0]

\* The deferred revocation; the run's clocks are of no more use.
Return(r) ==
  /\ phase' = [phase EXCEPT ![r] = "returned"]
  /\ tokens' = tokens \ {r}
  /\ spent' = [spent EXCEPT ![r] = 0]
  /\ age' = [age EXCEPT ![r] = 0]
  /\ waited' = [waited EXCEPT ![r] = 0]
  /\ UNCHANGED <<main, children>>

\* SIGKILL to the program's group; a build and docker's client are killed alone.
Kill(r) ==
  /\ main' = [main EXCEPT ![r] = "killed"]
  /\ children' = [children EXCEPT ![r] =
       IF phase[r] = "run" /\ provider # "docker" THEN @ \ Group ELSE @]
  /\ UNCHANGED <<provider, phase, spent, tokens, age, waited>>

-----------------------------------------------------------------------------
\* Not a code skill, no [code] section, no image, or the fly provider.
Refuse(r) ==
  /\ phase[r] = "idle"
  /\ Return(r)
  /\ UNCHANGED provider

\* The sandbox issues the token and then builds; the runner builds without one.
BeginBuild(r) ==
  /\ phase[r] = "idle"
  /\ Start(r, "build")
  /\ IF provider = "runner" THEN UNCHANGED <<tokens, age>> ELSE IssueToken(r)
  /\ UNCHANGED <<provider, waited>>

BeginProgram(r) ==
  /\ phase[r] = "idle"
  /\ Start(r, "run")
  /\ IssueToken(r)
  /\ UNCHANGED <<provider, waited>>

\* The command starts another process.
Fork(r) ==
  /\ main[r] = "alive" /\ provider # "docker"
  /\ Cardinality(children[r]) < MaxChildren
  /\ \E k \in {"group", "session", "quiet"} :
       children' = [children EXCEPT ![r] = @ \cup {k}]
  /\ UNCHANGED <<provider, phase, main, spent, tokens, age, waited>>

ChildEnds(r) ==
  /\ \E k \in children[r] : children' = [children EXCEPT ![r] = @ \ {k}]
  /\ UNCHANGED <<provider, phase, main, spent, tokens, age, waited>>

\* Main ends by itself, or could not be started.
Exit(r) ==
  /\ main[r] = "alive"
  /\ main' = [main EXCEPT ![r] = "exited"]
  /\ UNCHANGED <<provider, phase, children, spent, tokens, age, waited>>

\* Mutant: only the program has a deadline.
TimeOutOfProgram(r) ==
  /\ phase[r] = "run" /\ main[r] = "alive" /\ spent[r] = Limit(r)
  /\ Kill(r)

\* The context ends while main lives: its deadline, or the caller went away.
TimeOut(r) ==
  /\ phase[r] \in Busy /\ main[r] = "alive" /\ spent[r] = Limit(r)
  /\ Kill(r)

Cancel(r) ==
  /\ phase[r] \in Busy /\ main[r] = "alive"
  /\ Kill(r)

\* cmd.Run is over.
Awaited(r) ==
  /\ phase[r] \in Busy
  /\ main[r] \in {"exited", "killed"}
  /\ ~HasOutput(r)

\* A build that succeeded; the runner issues its token only now.
Built(r) ==
  /\ Awaited(r) /\ phase[r] = "build" /\ main[r] = "exited"
  /\ Start(r, "run")
  /\ IF provider = "runner"
       THEN /\ IssueToken(r)
            /\ UNCHANGED waited
       ELSE /\ waited' = [waited EXCEPT ![r] = age[r]]
            /\ UNCHANGED <<tokens, age>>
  /\ UNCHANGED provider

\* Mutant: a build that fails returns before the revocation is deferred.
BuildFailedEarly(r) ==
  /\ Awaited(r) /\ phase[r] = "build"
  /\ phase' = [phase EXCEPT ![r] = "returned"]
  /\ UNCHANGED <<provider, main, children, spent, tokens, age, waited>>

BuildFailed(r) ==
  /\ Awaited(r) /\ phase[r] = "build"
  /\ Return(r)
  /\ UNCHANGED provider

Finish(r) ==
  /\ Awaited(r) /\ phase[r] = "run"
  /\ Return(r)
  /\ UNCHANGED provider

\* The controller dies, and its tokens with it; the processes do not.
Crash ==
  /\ phase' = [r \in Runs |-> IF phase[r] \in Busy THEN "lost" ELSE phase[r]]
  /\ tokens' = {}
  /\ UNCHANGED <<provider, main, children, spent, age, waited>>

\* Time passes; the kernel and the runtime do not let a deadline pass by.
Tick ==
  /\ \A r \in Runs : phase[r] \in Busy /\ main[r] = "alive" => spent[r] < Limit(r)
  /\ spent' = [r \in Runs |->
       IF phase[r] \in Busy /\ spent[r] <= Limit(r) THEN spent[r] + 1 ELSE spent[r]]
  /\ age' = [r \in Runs |->
       IF r \in tokens /\ age[r] <= TokenTTL THEN age[r] + 1 ELSE age[r]]
  /\ UNCHANGED <<provider, phase, main, children, tokens, waited>>

RunNext ==
  \/ \E r \in Runs :
       \/ Refuse(r) \/ BeginBuild(r) \/ BeginProgram(r)
       \/ Fork(r) \/ ChildEnds(r) \/ Exit(r) \/ TimeOut(r) \/ Cancel(r)
       \/ Built(r) \/ BuildFailed(r) \/ Finish(r)
  \/ Crash
  \/ Tick

\* Clocks advance, deadlines fire, and a command that is over is taken note of.
\* Nothing is assumed of the programs.
RunFairness ==
  /\ WF_runVars(Tick)
  /\ \A r \in Runs : WF_runVars(TimeOut(r)) /\ WF_runVars(BuildFailed(r) \/ Finish(r) \/ Built(r))

RunSpec == RunInit /\ [][RunNext]_runVars /\ RunFairness

-----------------------------------------------------------------------------
(***************************************************************************)
(* Whatever way a run ends (refused, failed build, timeout, cancelled,     *)
(* crash), the processes it leaves behind cannot use its token; and while  *)
(* the sandbox's run is on, the token is in the map.                       *)
(***************************************************************************)
TokenEndsWithRun ==
  \A r \in Runs :
    /\ r \in tokens => phase[r] \in Busy
    /\ phase[r] = "run" \/ (phase[r] = "build" /\ provider # "runner") => r \in tokens

(***************************************************************************)
(* A program that is within its limit can call the sidecar, if its build   *)
(* took no longer than the grace; with the runner, whatever its build took.*)
(* (With the sandbox, a longer build uses the token's life up: it is       *)
(* issued before the build, none.go:40, and a build may take two minutes.) *)
(***************************************************************************)
TokenLasts ==
  \A r \in Runs :
    phase[r] = "run" /\ main[r] = "alive" /\ waited[r] <= Grace => Usable(r)

(***************************************************************************)
(* When Run returns, the output it returns is all there will be: nobody    *)
(* who could write to it is left.                                          *)
(***************************************************************************)
OutputComplete ==
  \A r \in Runs :
    phase[r] = "returned" => main[r] # "alive" /\ ~HasOutput(r)

(***************************************************************************)
(* What makes the three above inductive: a run that has not begun has      *)
(* nothing, and while a program is within its limit its token is no older  *)
(* than the wait before it and the time the program has had.               *)
(***************************************************************************)
Clocks ==
  \A r \in Runs :
    /\ phase[r] = "idle" => main[r] = "none" /\ children[r] = {}
    /\ phase[r] \in {"idle", "build"} => waited[r] = 0
    /\ phase[r] = "run" /\ main[r] = "alive" =>
         spent[r] <= Timeout /\ age[r] <= waited[r] + spent[r]

RunInv == RunTypeOK /\ TokenEndsWithRun /\ OutputComplete /\ Clocks

(***************************************************************************)
(* A run returns, whatever its build and its program do; only a child that *)
(* keeps the output open for ever can keep it from that.                   *)
(***************************************************************************)
RunReturns ==
  \A r \in Runs :
    []<>(phase[r] \notin Busy) \/ <>[](main[r] # "alive" /\ HasOutput(r))

(***************************************************************************)
(* none.go:65: the process group is there "so we can kill all child        *)
(* processes on timeout": past its limit, a program has no child left in   *)
(* its group.                                                              *)
(***************************************************************************)
KilledOnTimeout ==
  \A r \in Runs :
    phase[r] = "run" /\ spent[r] > Timeout => children[r] \cap Group = {}
=============================================================================
