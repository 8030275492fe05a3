----------------------------- MODULE Credentials -----------------------------
(***************************************************************************)
(* OAuth2 tokens in a JSON file (internal/credentials/filestore.go) that   *)
(* the controller's goroutines refresh (internal/tools/oauth2.go, called   *)
(* by the agents' tools and by the sidecar) and `smithly oauth2 auth`, a   *)
(* process of its own with a mutex of its own, writes.                     *)
(*                                                                         *)
(* A token is the number of its refresh token.  A rotating provider gives  *)
(* them out in this order and takes only its latest; another one takes     *)
(* any, so that all are 1, and sends none back with a refresh.  Whether    *)
(* the access token has expired is a choice at each reading.               *)
(***************************************************************************)
EXTENDS Integers

CONSTANTS
  Callers,     \* calls of GetToken in the controller
  Clis,        \* runs of `smithly oauth2 auth`
  Providers,
  Rotating,    \* those that replace the refresh token with every refresh
  MaxGrant,    \* bound: refresh tokens a rotating provider gives out
  Nobody, Torn \* no holder of the mutex; a file with part of its text

ASSUME CredentialsAssumption ==
  /\ Callers \cap Clis = {}
  /\ Nobody \notin Callers
  /\ Providers # {} /\ Rotating \subseteq Providers
  /\ MaxGrant \in Nat
  /\ Torn \notin [Providers -> Nat]

VARIABLES
  overlapping, \* does anybody run `smithly oauth2 auth` beside the calls?
  file,  \* a refresh token by provider, or Torn
  grant, \* the last refresh token each provider has given out, 0 for none
  lock,  \* FileStore.mu of the controller
  stage, \* where each call and each auth is
  about, \* the provider it is about, any one when idle
  token, \* what GetToken read, then what it or the auth is to save
  answer, \* how the provider answered who is to save: with a refresh token
          \* ("granted"), with an access token only to a refresh ("kept") or to
          \* an auth ("bare"), with an error of status 200 ("error")
  seen   \* the file as Put loaded it

vars == <<overlapping, file, grant, lock, stage, about, token, answer, seen>>

Actors  == Callers \cup Clis
NoToken == 0
File    == [Providers -> Nat]

TypeOK ==
  /\ overlapping \in BOOLEAN
  /\ file \in File \cup {Torn}
  /\ grant \in [Providers -> Nat]
  /\ lock \in Callers \cup {Nobody}
  /\ stage \in [Actors -> {"idle", "get", "refresh", "put", "save", "write"}]
  /\ about \in [Actors -> Providers]
  /\ token \in [Actors -> Nat]
  /\ answer \in [Actors -> {"none", "granted", "kept", "bare", "error"}]
  /\ seen \in [Actors -> File]

AnyProvider == CHOOSE p \in Providers : TRUE

Empty == [p \in Providers |-> NoToken]

Init ==
  /\ overlapping \in BOOLEAN
  /\ file = Empty
  /\ grant = [p \in Providers |-> 0]
  /\ lock = Nobody
  /\ stage = [a \in Actors |-> "idle"]
  /\ about = [a \in Actors |-> AnyProvider]
  /\ token = [a \in Actors |-> NoToken]
  /\ answer = [a \in Actors |-> "none"]
  /\ seen = [a \in Actors |-> Empty]

Idle(S) == \A a \in S : stage[a] = "idle"

\* The provider will take refresh token t.
Works(p, t) == t # NoToken /\ (p \in Rotating => t = grant[p])

Goto(a, where) == stage' = [stage EXCEPT ![a] = where]

\* What is over needs none of its copies; the mutex is released on every path.
Done(a) ==
  /\ Goto(a, "idle")
  /\ about' = [about EXCEPT ![a] = AnyProvider]
  /\ token' = [token EXCEPT ![a] = NoToken]
  /\ answer' = [answer EXCEPT ![a] = "none"]
  /\ seen' = [seen EXCEPT ![a] = Empty]
  /\ lock' = IF lock = a THEN Nobody ELSE lock

-----------------------------------------------------------------------------
Call(a) ==
  /\ stage[a] = "idle"
  /\ overlapping \/ Idle(Clis)
  /\ \E p \in Providers : about' = [about EXCEPT ![a] = p]
  /\ Goto(a, "get")
  /\ UNCHANGED <<overlapping, file, grant, lock, token, answer, seen>>

\* Get: the access token is valid and the call is over, or it is refreshed.
\* A file that cannot be parsed, a provider not in it, and an expired token
\* without a refresh token are errors.
Read(a) ==
  /\ stage[a] = "get" /\ lock = Nobody
  /\ \/ Done(a)
     \/ /\ file # Torn /\ file[about[a]] # NoToken
        /\ Goto(a, "refresh")
        /\ token' = [token EXCEPT ![a] = file[about[a]]]
        /\ UNCHANGED <<lock, about, answer, seen>>
  /\ UNCHANGED <<overlapping, file, grant>>

\* The provider gives out a new refresh token for p.
Grants(p) ==
  \/ p \in Rotating /\ grant[p] < MaxGrant /\ grant' = [grant EXCEPT ![p] = @ + 1]
  \/ p \notin Rotating /\ grant' = [grant EXCEPT ![p] = 1]

\* What is to be saved, and why.
Answered(a, t, how) ==
  /\ Goto(a, "put")
  /\ token' = [token EXCEPT ![a] = t]
  /\ answer' = [answer EXCEPT ![a] = how]

\* Mutant: an answer without a refresh token is saved as it came.
RefreshedAsCame(a) ==
  LET p == about[a] IN
    /\ stage[a] = "refresh" /\ Works(p, token[a])
    /\ \/ p \in Rotating /\ Grants(p) /\ Answered(a, grant'[p], "granted")
       \/ p \notin Rotating /\ UNCHANGED grant /\ Answered(a, NoToken, "kept")
    /\ UNCHANGED <<overlapping, file, lock, about, seen>>

\* The provider answers; the old refresh token is preserved if it sent none.
Refreshed(a) ==
  LET p == about[a] IN
    /\ stage[a] = "refresh" /\ Works(p, token[a])
    /\ \/ p \in Rotating /\ Grants(p) /\ Answered(a, grant'[p], "granted")
       \/ p \notin Rotating /\ UNCHANGED grant /\ Answered(a, token[a], "kept")
    /\ UNCHANGED <<overlapping, file, lock, about, seen>>

\* An error the provider tells with status 200 is taken for such an answer:
\* the old refresh token is saved, also one the provider has just refused.
RefreshedWithError(a) ==
  /\ stage[a] = "refresh"
  /\ Answered(a, token[a], "error")
  /\ UNCHANGED <<overlapping, file, grant, lock, about, seen>>

\* An error from the provider, or none reached within ten seconds.
RefreshFails(a) ==
  /\ stage[a] = "refresh"
  /\ Done(a)
  /\ UNCHANGED <<overlapping, file, grant>>

\* The provider rotated, but its answer was lost.
RefreshLost(a) ==
  /\ stage[a] = "refresh" /\ about[a] \in Rotating /\ Works(about[a], token[a])
  /\ Grants(about[a])
  /\ Done(a)
  /\ UNCHANGED <<overlapping, file>>

-----------------------------------------------------------------------------
\* smithly oauth2 auth: the user consents and the code is exchanged.  What
\* comes with status 200 is saved, without a refresh token too.
Authorize(c) ==
  /\ stage[c] = "idle"
  /\ overlapping \/ Idle(Actors)
  /\ \E p \in Providers :
       /\ about' = [about EXCEPT ![c] = p]
       /\ \/ Grants(p) /\ Answered(c, grant'[p], "granted")
          \/ UNCHANGED grant /\ Answered(c, NoToken, "bare")
  /\ UNCHANGED <<overlapping, file, lock, seen>>

\* The answer to the exchange is lost.
AuthorizeLost(c) ==
  /\ stage[c] = "idle"
  /\ overlapping \/ Idle(Actors)
  /\ \E p \in Providers : Grants(p)
  /\ UNCHANGED <<overlapping, file, lock, stage, about, token, answer, seen>>

-----------------------------------------------------------------------------
\* Put takes its process's mutex and loads the file.
PutLoad(a) ==
  /\ stage[a] = "put" /\ file # Torn
  /\ IF a \in Callers THEN lock = Nobody /\ lock' = a ELSE UNCHANGED lock
  /\ seen' = [seen EXCEPT ![a] = file]
  /\ Goto(a, "save")
  /\ UNCHANGED <<overlapping, file, grant, about, token, answer>>

\* Mutant: the mutex is not released when saving fails.
PutFailsLocked(a) ==
  /\ \/ stage[a] = "put" /\ (a \in Callers => lock = Nobody)
     \/ stage[a] = "save"
  /\ Goto(a, "idle")
  /\ UNCHANGED <<overlapping, file, grant, lock, about, token, answer, seen>>

\* The file cannot be read, parsed or opened for writing: what was to be
\* saved is gone, and the caller gets an error.
PutFails(a) ==
  /\ \/ stage[a] = "put" /\ (a \in Callers => lock = Nobody)
     \/ stage[a] = "save"
  /\ Done(a)
  /\ UNCHANGED <<overlapping, file, grant>>

\* os.WriteFile truncates the file and then writes it.
Truncate(a) ==
  /\ stage[a] = "save"
  /\ file' = Torn
  /\ Goto(a, "write")
  /\ UNCHANGED <<overlapping, grant, lock, about, token, answer, seen>>

Saved(a) == [seen[a] EXCEPT ![about[a]] = token[a]]

Write(a) ==
  /\ stage[a] = "write"
  /\ file' = Saved(a)
  /\ Done(a)
  /\ UNCHANGED <<overlapping, grant>>

\* No space, an input/output error: the file stays torn.
WriteFails(a) ==
  /\ stage[a] = "write"
  /\ Done(a)
  /\ UNCHANGED <<overlapping, file, grant>>

-----------------------------------------------------------------------------
Dies(S) ==
  /\ stage' = [a \in Actors |-> IF a \in S THEN "idle" ELSE stage[a]]
  /\ about' = [a \in Actors |-> IF a \in S THEN AnyProvider ELSE about[a]]
  /\ token' = [a \in Actors |-> IF a \in S THEN NoToken ELSE token[a]]
  /\ answer' = [a \in Actors |-> IF a \in S THEN "none" ELSE answer[a]]
  /\ seen' = [a \in Actors |-> IF a \in S THEN Empty ELSE seen[a]]
  /\ UNCHANGED <<overlapping, file, grant>>

ControllerDies == Dies(Callers) /\ lock' = Nobody
CliDies(c)     == stage[c] # "idle" /\ Dies({c}) /\ UNCHANGED lock

Put(a) == PutLoad(a) \/ PutFails(a) \/ Truncate(a) \/ Write(a) \/ WriteFails(a)

Next ==
  \/ \E a \in Callers :
       \/ Call(a) \/ Read(a)
       \/ Refreshed(a) \/ RefreshedWithError(a) \/ RefreshFails(a) \/ RefreshLost(a)
  \/ \E c \in Clis : Authorize(c) \/ AuthorizeLost(c) \/ CliDies(c)
  \/ \E a \in Actors : Put(a)
  \/ ControllerDies

\* The client's timeout ends a refresh; a goroutine that holds the mutex runs;
\* Go's mutex goes to who has waited for it longest in the end.
Fairness ==
  \A a \in Callers :
    /\ WF_vars(\/ Refreshed(a) \/ RefreshedWithError(a)
               \/ RefreshFails(a) \/ RefreshLost(a))
    /\ WF_vars(Truncate(a)) /\ WF_vars(Write(a) \/ WriteFails(a))
    /\ SF_vars(Read(a)) /\ SF_vars(PutLoad(a) \/ PutFails(a))

Spec == Init /\ [][Next]_vars /\ Fairness

-----------------------------------------------------------------------------
(***************************************************************************)
(* Nobody has to consent to p again: a refresh token that works is in the  *)
(* file, or somebody is about to save one, or to write one back.           *)
(***************************************************************************)
Authorized(p) ==
  \/ file # Torn /\ Works(p, file[p])
  \/ \E a \in Actors :
       \/ stage[a] = "put" /\ about[a] = p /\ Works(p, token[a])
       \/ stage[a] \in {"save", "write"} /\ Works(p, Saved(a)[p])

\* What the code cannot make good: a lost answer, a failed save, a death.
Failure ==
  \/ \E a \in Callers : RefreshLost(a)
  \/ \E c \in Clis : AuthorizeLost(c) \/ CliDies(c)
  \/ \E a \in Actors : PutFails(a) \/ WriteFails(a)
  \/ ControllerDies

\* What the code does not check: a saves for p, over whatever the file holds,
\* an answer to a consent without a refresh token, or the refresh token of an
\* answer that was an error.
SavesUnchecked(p) ==
  \E a \in Actors : about[a] = p /\ answer[a] \in {"bare", "error"} /\ Truncate(a)

(***************************************************************************)
(* However refreshes of the same and of other providers overlap, an        *)
(* authorization is not lost but by a failure or by an unchecked answer    *)
(* about the same provider: the token of a provider that rotates is saved, *)
(* the one of another outlives its refreshes, and no save takes another    *)
(* provider's token back.  (Beside `smithly oauth2 auth`, which does not   *)
(* share the mutex, it may.)                                               *)
(***************************************************************************)
OnlyFailuresLose ==
  [][\A p \in Providers :
       Authorized(p) /\ ~overlapping =>
         Authorized(p)' \/ Failure \/ SavesUnchecked(p)]_vars

(***************************************************************************)
(* The parts of the inductive invariant.  The mutex is held from Put's     *)
(* load to the end of its save.                                            *)
(***************************************************************************)
Mutex == \A a \in Callers : stage[a] \in {"save", "write"} <=> lock = a

Apart ==
  \A c \in Clis : stage[c] # "idle" => Idle(Actors \ {c})

\* What Put loaded is what the file holds until the same Put truncates it.
Fresh ==
  \A a \in Actors :
    /\ stage[a] = "save" => file \in {Torn, seen[a]}
    /\ stage[a] = "write" => file = Torn

\* No token is newer than the provider's latest; one that does not rotate has
\* but one.
Bounded ==
  /\ \A p \in Providers \ Rotating : grant[p] <= 1
  /\ \A a \in Actors : stage[a] \in {"idle", "get"} => token[a] = NoToken
  /\ \A p \in Providers : file # Torn => file[p] <= grant[p]
  /\ \A a \in Actors : token[a] <= grant[about[a]]
  /\ \A a \in Actors, p \in Providers : seen[a][p] <= grant[p]

\* Who was given a token to save has the latest, and is the only one to have
\* it.
Latest ==
  \A a \in Actors :
    stage[a] \in {"put", "save", "write"} /\ answer[a] \notin {"bare", "error"} =>
      LET p == about[a] IN
        /\ Works(p, token[a])
        /\ p \in Rotating =>
             /\ file # Torn => file[p] < grant[p]
             /\ \A b \in Actors : seen[b][p] < grant[p]
             /\ \A b \in Actors \ {a} : about[b] = p => token[b] < grant[p]

(***************************************************************************)
(* The inductive invariant: puts take turns, on a fresh copy, and what is  *)
(* put is the latest token but for an unchecked answer.  Beside            *)
(* `smithly oauth2 auth` only the first parts hold.                        *)
(***************************************************************************)
IInv ==
  /\ TypeOK /\ Mutex /\ Bounded
  /\ ~overlapping => Apart /\ Fresh /\ Latest

(***************************************************************************)
(* Every call ends, whatever the others do and whatever fails.             *)
(***************************************************************************)
CallsEnd == \A a \in Callers : stage[a] # "idle" ~> stage[a] = "idle"
=============================================================================
