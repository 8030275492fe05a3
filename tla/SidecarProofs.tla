---------------------------- MODULE SidecarProofs ---------------------------
(***************************************************************************)
(* Proofs about what the sidecar gives a skill: for any calls, providers and *)
(* number of tokens, puts to the credential file take turns on a fresh copy *)
(* with the latest token, so that no authorization is lost but by a failure *)
(* (Credentials); for any number of runs and any time limits, a token ends *)
(* with its run, outlasts a program whose build was no longer than the     *)
(* grace, and the output of a run that returned is complete (SkillRun).    *)
(***************************************************************************)
EXTENDS Credentials, SkillRun, TLAPS

-----------------------------------------------------------------------------
(***************************************************************************)
(* The credential file.                                                    *)
(***************************************************************************)

USE CredentialsAssumption

LEMMA InitOK == Init => IInv
<1>1. AnyProvider \in Providers
  BY DEF AnyProvider
<1> QED BY <1>1 DEF Init, IInv, TypeOK, Mutex, Bounded, Apart, Fresh, Latest, Idle, Actors,
                    Empty, File, NoToken

Basics == TypeOK /\ Mutex /\ Bounded

LEMMA SomeProvider == AnyProvider \in Providers
BY DEF AnyProvider

\* What a provider gives out is its latest.
LEMMA GrantsNext ==
  ASSUME TypeOK, NEW p \in Providers, Grants(p)
  PROVE  /\ grant' = [grant EXCEPT ![p] = grant'[p]]
         /\ grant'[p] \in Nat /\ 0 < grant'[p]
         /\ p \in Rotating => grant'[p] = grant[p] + 1
         /\ p \notin Rotating => grant'[p] = 1
BY DEF TypeOK, Grants

\* So that no token gets newer than it.
LEMMA GrantsGrow ==
  ASSUME TypeOK, Bounded, UNCHANGED grant \/ \E p \in Providers : Grants(p)
  PROVE  /\ grant' \in [Providers -> Nat]
         /\ \A p \in Providers : grant[p] <= grant'[p]
         /\ \A p \in Providers \ Rotating : grant'[p] <= 1
<1>1. CASE UNCHANGED grant
  BY <1>1 DEF TypeOK, Bounded
<1>2. ASSUME NEW p \in Providers, Grants(p)
      PROVE  /\ grant' \in [Providers -> Nat]
             /\ \A q \in Providers : grant[q] <= grant'[q]
             /\ \A q \in Providers \ Rotating : grant'[q] <= 1
  <2>1. grant[p] <= 1 \/ p \in Rotating
    BY DEF Bounded
  <2> QED BY <1>2, <2>1, GrantsNext DEF TypeOK, Bounded
<1> QED BY <1>1, <1>2

\* A call or an auth that ends gives back the mutex and keeps no token.
LEMMA DoneStep ==
  ASSUME Basics, NEW a \in Actors, Done(a), UNCHANGED overlapping,
         file' \in File \cup {Torn},
         UNCHANGED grant \/ \E p \in Providers : Grants(p),
         \A p \in Providers : file' # Torn => file'[p] <= grant[p]
  PROVE  Basics'
<1> USE DEF Basics, TypeOK, Actors, File, NoToken
<1>1. /\ stage' = [stage EXCEPT ![a] = "idle"]
      /\ about' = [about EXCEPT ![a] = AnyProvider]
      /\ token' = [token EXCEPT ![a] = 0]
      /\ answer' = [answer EXCEPT ![a] = "none"]
      /\ seen' = [seen EXCEPT ![a] = Empty]
      /\ lock' = IF lock = a THEN Nobody ELSE lock
  BY DEF Done, Goto
<1>2. Empty \in File /\ \A p \in Providers : Empty[p] = 0
  BY DEF Empty
<1>0. /\ grant' \in [Providers -> Nat]
      /\ \A p \in Providers : grant[p] <= grant'[p]
      /\ \A p \in Providers \ Rotating : grant'[p] <= 1
  BY GrantsGrow
<1>3. TypeOK'
  BY <1>0, <1>1, <1>2, SomeProvider
<1>4. Mutex'
  BY <1>1 DEF Mutex
<1>5. Bounded'
  <2>1. \A b \in Actors : stage'[b] \in {"idle", "get"} => token'[b] = 0
    BY <1>1 DEF Bounded
  <2>2. \A b \in Actors : token'[b] <= grant'[about'[b]]
    <3> TAKE b \in Actors
    <3>1. CASE b = a
      <4>1. token'[b] = 0 /\ about'[b] = AnyProvider
        BY <1>1, <3>1
      <4>2. grant'[AnyProvider] \in Nat
        BY <1>0, SomeProvider
      <4> QED BY <4>1, <4>2
    <3>2. CASE b # a
      <4>1. token[b] <= grant[about[b]] /\ grant[about[b]] <= grant'[about[b]]
        BY <1>0 DEF Bounded
      <4>2. token'[b] = token[b] /\ about'[b] = about[b] /\ about[b] \in Providers
        BY <1>1, <3>2
      <4>3. token[b] \in Nat /\ grant[about[b]] \in Nat /\ grant'[about[b]] \in Nat
        BY <1>0
      <4> QED BY <4>1, <4>2, <4>3
    <3> QED BY <3>1, <3>2
  <2>3. \A b \in Actors, p \in Providers : seen'[b][p] <= grant'[p]
    <3> TAKE b \in Actors, p \in Providers
    <3>1. seen[b][p] <= grant[p] /\ grant[p] <= grant'[p]
      BY <1>0 DEF Bounded
    <3>2. seen[b][p] \in Nat /\ grant'[p] \in Nat
      BY <1>0
    <3> QED BY <1>1, <1>2, <3>1, <3>2
  <2>4. \A p \in Providers : file' # Torn => file'[p] <= grant'[p]
    <3> TAKE p \in Providers
    <3>1. file' # Torn => file'[p] \in Nat
      OBVIOUS
    <3> QED BY <1>0, <3>1
  <2> QED BY <1>0, <2>1, <2>2, <2>3, <2>4 DEF Bounded
<1> QED BY <1>3, <1>4, <1>5

\* New tokens make no old one too new.
LEMMA GrownStep ==
  ASSUME Basics, grant' \in [Providers -> Nat],
         \A p \in Providers : grant[p] <= grant'[p],
         \A p \in Providers \ Rotating : grant'[p] <= 1,
         UNCHANGED <<overlapping, file, lock, stage, about, token, answer, seen>>
  PROVE  Basics'
<1> USE DEF Basics, TypeOK, Actors, File, NoToken
<1>1. TypeOK' /\ Mutex'
  BY DEF Mutex
<1>2. \A p \in Providers : file' # Torn => file'[p] <= grant'[p]
  <2> TAKE p \in Providers
  <2>1. file # Torn => file[p] \in Nat /\ file[p] <= grant[p]
    BY DEF Bounded
  <2> QED BY <2>1
<1>3. \A b \in Actors : token'[b] <= grant'[about'[b]]
  <2> TAKE b \in Actors
  <2>1. token[b] <= grant[about[b]] /\ token[b] \in Nat /\ about[b] \in Providers
    BY DEF Bounded
  <2>2. grant[about[b]] <= grant'[about[b]] /\ grant[about[b]] \in Nat
    BY <2>1
  <2> QED BY <2>1, <2>2
<1>4. \A b \in Actors, p \in Providers : seen'[b][p] <= grant'[p]
  <2> TAKE b \in Actors, p \in Providers
  <2>1. seen[b][p] <= grant[p] /\ seen[b][p] \in Nat
    BY DEF Bounded
  <2> QED BY <2>1
<1> QED BY <1>1, <1>2, <1>3, <1>4 DEF Bounded

\* The answer to a refresh is the token it had or a new one.
LEMMA AnsweredStep ==
  ASSUME Basics, NEW a \in Callers,
         stage[a] = "refresh", stage' = [stage EXCEPT ![a] = "put"],
         UNCHANGED <<overlapping, file, lock, about, seen>>,
         answer' \in [Actors -> {"none", "granted", "kept", "bare", "error"}],
         \/ grant' = grant /\ token' = [token EXCEPT ![a] = token[a]]
         \/ /\ Grants(about[a]) /\ about[a] \in Providers
            /\ token' = [token EXCEPT ![a] = grant'[about[a]]]
  PROVE  Basics'
<1> USE DEF Basics, TypeOK, Actors, File, NoToken
<1>1. /\ grant' \in [Providers -> Nat]
      /\ \A p \in Providers : grant[p] <= grant'[p]
      /\ \A p \in Providers \ Rotating : grant'[p] <= 1
  BY GrantsGrow
<1>2. token' \in [Actors -> Nat] /\ \A b \in Actors \ {a} : token'[b] = token[b]
  BY <1>1
<1>3. TypeOK' /\ Mutex'
  BY <1>1, <1>2 DEF Mutex
<1>4. \A b \in Actors : token'[b] <= grant'[about'[b]]
  <2> TAKE b \in Actors
  <2>1. token[b] <= grant[about[b]] /\ token[b] \in Nat /\ about[b] \in Providers
    BY DEF Bounded
  <2>2. grant[about[b]] <= grant'[about[b]] /\ grant[about[b]] \in Nat /\ grant'[about[b]] \in Nat
    BY <1>1, <2>1
  <2>3. token'[b] = token[b] \/ token'[b] = grant'[about[b]]
    BY <1>2
  <2> QED BY <2>1, <2>2, <2>3
<1>5. \A p \in Providers : file' # Torn => file'[p] <= grant'[p]
  <2> TAKE p \in Providers
  <2>1. file # Torn => file[p] \in Nat /\ file[p] <= grant[p]
    BY DEF Bounded
  <2> QED BY <1>1, <2>1
<1>6. \A b \in Actors, p \in Providers : seen'[b][p] <= grant'[p]
  <2> TAKE b \in Actors, p \in Providers
  <2>1. seen[b][p] <= grant[p] /\ seen[b][p] \in Nat
    BY DEF Bounded
  <2> QED BY <1>1, <2>1
<1>7. \A b \in Actors : stage'[b] \in {"idle", "get"} => token'[b] = 0
  BY <1>2 DEF Bounded
<1> QED BY <1>1, <1>3, <1>4, <1>5, <1>6, <1>7 DEF Bounded

\* What an auth is to save is none or a new one.
LEMMA AuthorizedStep ==
  ASSUME Basics, NEW c \in Clis, NEW p \in Providers,
         stage[c] = "idle", about' = [about EXCEPT ![c] = p],
         UNCHANGED <<overlapping, file, lock, seen>>,
         \/ Grants(p) /\ Answered(c, grant'[p], "granted")
         \/ UNCHANGED grant /\ Answered(c, 0, "bare")
  PROVE  Basics'
<1> USE DEF Basics, TypeOK, Actors, File, NoToken
<1>1. /\ grant' \in [Providers -> Nat]
      /\ \A q \in Providers : grant[q] <= grant'[q]
      /\ \A q \in Providers \ Rotating : grant'[q] <= 1
  BY GrantsGrow
<1>2. /\ stage' = [stage EXCEPT ![c] = "put"]
      /\ answer' \in [Actors -> {"none", "granted", "kept", "bare", "error"}]
  BY DEF Answered, Goto
<1>3. /\ token' \in [Actors -> Nat] /\ \A b \in Actors \ {c} : token'[b] = token[b]
      /\ token'[c] \in {0, grant'[p]}
  BY <1>1 DEF Answered
<1>4. TypeOK' /\ Mutex'
  BY <1>1, <1>2, <1>3 DEF Mutex
<1>5. \A b \in Actors : token'[b] <= grant'[about'[b]]
  <2> TAKE b \in Actors
  <2>1. CASE b = c
    BY <1>1, <1>3, <2>1
  <2>2. CASE b # c
    <3>1. token[b] <= grant[about[b]] /\ token[b] \in Nat /\ about[b] \in Providers
      BY DEF Bounded
    <3>2. grant[about[b]] <= grant'[about[b]] /\ grant[about[b]] \in Nat
          /\ grant'[about[b]] \in Nat
      BY <1>1, <3>1
    <3>3. token'[b] = token[b] /\ about'[b] = about[b]
      BY <1>3, <2>2
    <3> QED BY <3>1, <3>2, <3>3
  <2> QED BY <2>1, <2>2
<1>6. \A q \in Providers : file' # Torn => file'[q] <= grant'[q]
  <2> TAKE q \in Providers
  <2>1. file # Torn => file[q] \in Nat /\ file[q] <= grant[q]
    BY DEF Bounded
  <2> QED BY <1>1, <2>1
<1>7. \A b \in Actors, q \in Providers : seen'[b][q] <= grant'[q]
  <2> TAKE b \in Actors, q \in Providers
  <2>1. seen[b][q] <= grant[q] /\ seen[b][q] \in Nat
    BY DEF Bounded
  <2> QED BY <1>1, <2>1
<1>8. \A b \in Actors : stage'[b] \in {"idle", "get"} => token'[b] = 0
  BY <1>2, <1>3 DEF Bounded
<1> QED BY <1>1, <1>4, <1>5, <1>6, <1>7, <1>8 DEF Bounded

\* Types, mutex and bounds hold whoever runs beside whom.
LEMMA BasicStep ==
  ASSUME Basics, [Next]_vars
  PROVE  Basics'
<1> USE DEF Basics, TypeOK, Actors, Goto, File, NoToken
<1>1. CASE UNCHANGED vars
  BY <1>1 DEF vars, Mutex, Bounded
<1>2. ASSUME NEW a \in Callers, Call(a) PROVE Basics'
  BY <1>2 DEF Call, Mutex, Bounded
<1>3. ASSUME NEW a \in Callers, Read(a) PROVE Basics'
  <2>1. CASE Done(a)
    BY <1>3, <2>1, DoneStep DEF Read, Bounded
  <2>2. CASE ~Done(a)
    <3> DEFINE t == file[about[a]]
    <3>1. t \in Nat /\ t <= grant[about[a]]
      BY <1>3, <2>2 DEF Read, Bounded
    <3>2. /\ stage[a] = "get" /\ stage' = [stage EXCEPT ![a] = "refresh"]
          /\ token' = [token EXCEPT ![a] = t]
          /\ UNCHANGED <<overlapping, file, grant, lock, about, answer, seen>>
      BY <1>3, <2>2 DEF Read
    <3> HIDE DEF t
    <3>3. TypeOK' /\ Mutex'
      BY <3>1, <3>2 DEF Mutex
    <3>4. Bounded'
      BY <3>1, <3>2 DEF Bounded
    <3> QED BY <3>3, <3>4
  <2> QED BY <2>1, <2>2
<1>4. ASSUME NEW a \in Callers, Refreshed(a) \/ RefreshedWithError(a) PROVE Basics'
  <2>1. /\ stage[a] = "refresh" /\ stage' = [stage EXCEPT ![a] = "put"]
        /\ UNCHANGED <<overlapping, file, lock, about, seen>>
    BY <1>4 DEF Refreshed, RefreshedWithError, Answered
  <2>2. answer' \in [Actors -> {"none", "granted", "kept", "bare", "error"}]
    BY <1>4 DEF Refreshed, RefreshedWithError, Answered
  <2>3. \/ grant' = grant /\ token' = [token EXCEPT ![a] = token[a]]
        \/ /\ Grants(about[a]) /\ about[a] \in Providers
           /\ token' = [token EXCEPT ![a] = grant'[about[a]]]
    BY <1>4 DEF Refreshed, RefreshedWithError, Answered
  <2> QED BY <2>1, <2>2, <2>3, AnsweredStep
<1>5. ASSUME NEW a \in Callers, RefreshFails(a) \/ RefreshLost(a) PROVE Basics'
  <2>1. Done(a) /\ UNCHANGED <<overlapping, file>>
    BY <1>5 DEF RefreshFails, RefreshLost
  <2>2. UNCHANGED grant \/ \E p \in Providers : Grants(p)
    BY <1>5 DEF RefreshFails, RefreshLost
  <2> QED BY <2>1, <2>2, DoneStep DEF Bounded
<1>6. ASSUME NEW c \in Clis, Authorize(c) PROVE Basics'
  <2>1. PICK p \in Providers :
          /\ about' = [about EXCEPT ![c] = p]
          /\ \/ Grants(p) /\ Answered(c, grant'[p], "granted")
             \/ UNCHANGED grant /\ Answered(c, 0, "bare")
    BY <1>6 DEF Authorize
  <2> QED BY <1>6, <2>1, AuthorizedStep DEF Authorize
<1>13. ASSUME NEW c \in Clis, AuthorizeLost(c) PROVE Basics'
  <2>1. PICK p \in Providers : Grants(p)
    BY <1>13 DEF AuthorizeLost
  <2>2. /\ grant' \in [Providers -> Nat]
        /\ \A q \in Providers : grant[q] <= grant'[q]
        /\ \A q \in Providers \ Rotating : grant'[q] <= 1
    BY <2>1, GrantsGrow
  <2>3. UNCHANGED <<overlapping, file, lock, stage, about, token, answer, seen>>
    BY <1>13 DEF AuthorizeLost
  <2> QED BY <2>2, <2>3, GrownStep
<1>7. ASSUME NEW c \in Clis, CliDies(c) PROVE Basics'
  BY <1>7, SomeProvider DEF CliDies, Dies, Mutex, Bounded, Empty
<1>8. ASSUME NEW a \in Actors, PutLoad(a) PROVE Basics'
  BY <1>8 DEF PutLoad, Mutex, Bounded
<1>9. ASSUME NEW a \in Actors, PutFails(a) \/ WriteFails(a) PROVE Basics'
  BY <1>9, DoneStep DEF PutFails, WriteFails, Bounded
<1>10. ASSUME NEW a \in Actors, Truncate(a) PROVE Basics'
  BY <1>10 DEF Truncate, Mutex, Bounded
<1>11. ASSUME NEW a \in Actors, Write(a) PROVE Basics'
  <2>1. Saved(a) \in File /\ \A p \in Providers : Saved(a)[p] <= grant[p]
    BY DEF Saved, Bounded
  <2> QED BY <1>11, <2>1, DoneStep DEF Write
<1>12. CASE ControllerDies
  BY <1>12, SomeProvider DEF ControllerDies, Dies, Mutex, Bounded, Empty
<1> QED BY <1>1, <1>2, <1>3, <1>4, <1>5, <1>6, <1>7, <1>8, <1>9, <1>10, <1>11, <1>12, <1>13
        DEF Next, Put

-----------------------------------------------------------------------------
LEMMA ApartStep ==
  ASSUME Basics, ~overlapping, Apart, [Next]_vars
  PROVE  Apart'
<1> USE DEF Basics, TypeOK, Actors, Goto, Idle, Apart, Done
<1>1. CASE UNCHANGED vars
  BY <1>1 DEF vars
<1>2. ASSUME NEW a \in Callers, Call(a) PROVE Apart'
  BY <1>2 DEF Call
<1>3. ASSUME NEW c \in Clis, Authorize(c) \/ AuthorizeLost(c) PROVE Apart'
  BY <1>3 DEF Authorize, AuthorizeLost, Answered
<1>4. ASSUME NEW a \in Callers,
             \/ Read(a) \/ Refreshed(a) \/ RefreshedWithError(a)
             \/ RefreshFails(a) \/ RefreshLost(a)
      PROVE Apart'
  BY <1>4 DEF Read, Refreshed, RefreshedWithError, RefreshFails, RefreshLost, Answered
<1>5. ASSUME NEW a \in Actors, Put(a) PROVE Apart'
  BY <1>5 DEF Put, PutLoad, PutFails, Truncate, Write, WriteFails
<1>6. ASSUME NEW c \in Clis, CliDies(c) PROVE Apart'
  BY <1>6 DEF CliDies, Dies
<1>7. CASE ControllerDies
  BY <1>7 DEF ControllerDies, Dies
<1> QED BY <1>1, <1>2, <1>3, <1>4, <1>5, <1>6, <1>7 DEF Next

\* Apart, nobody else is between the load and the end of a save.
LEMMA Alone ==
  ASSUME Basics, Apart, NEW a \in Actors, stage[a] \in {"save", "write"},
         NEW b \in Actors, b # a
  PROVE  stage[b] \notin {"save", "write"}
<1>1. CASE a \in Clis \/ b \in Clis
  BY <1>1 DEF Apart, Idle, Actors
<1>2. CASE a \in Callers /\ b \in Callers
  BY <1>2 DEF Basics, Mutex
<1> QED BY <1>1, <1>2 DEF Actors

\* Apart, a call that finds the mutex free may load, and so may an auth.
LEMMA AloneToLoad ==
  ASSUME Basics, Apart, NEW a \in Actors, PutLoad(a), NEW b \in Actors
  PROVE  stage[b] \notin {"save", "write"}
<1>1. stage[a] = "put"
  BY DEF PutLoad
<1>2. CASE b \in Callers
  <2>1. CASE a \in Callers
    BY <1>2, <2>1 DEF Basics, Mutex, PutLoad
  <2>2. CASE a \in Clis
    BY <1>1, <1>2, <2>2 DEF Apart, Idle, Actors
  <2> QED BY <2>1, <2>2 DEF Actors
<1>3. CASE b \in Clis
  BY <1>1, <1>3 DEF Apart, Idle, Actors
<1> QED BY <1>2, <1>3 DEF Actors

LEMMA FreshStep ==
  ASSUME Basics, ~overlapping, Apart, Fresh, [Next]_vars
  PROVE  Fresh'
<1> USE DEF Basics, TypeOK, Actors, Goto, Fresh, Done
<1>1. CASE UNCHANGED vars
  BY <1>1 DEF vars
<1>2. ASSUME NEW a \in Callers, Call(a) PROVE Fresh'
  BY <1>2 DEF Call
<1>3. ASSUME NEW c \in Clis, Authorize(c) \/ AuthorizeLost(c) PROVE Fresh'
  BY <1>3 DEF Authorize, AuthorizeLost, Answered
<1>4. ASSUME NEW a \in Callers,
             \/ Read(a) \/ Refreshed(a) \/ RefreshedWithError(a)
             \/ RefreshFails(a) \/ RefreshLost(a)
      PROVE Fresh'
  BY <1>4 DEF Read, Refreshed, RefreshedWithError, RefreshFails, RefreshLost, Answered
<1>5. ASSUME NEW a \in Actors, PutLoad(a) PROVE Fresh'
  BY <1>5, AloneToLoad DEF PutLoad
<1>6. ASSUME NEW a \in Actors, PutFails(a) \/ WriteFails(a) PROVE Fresh'
  BY <1>6 DEF PutFails, WriteFails
<1>7. ASSUME NEW a \in Actors, Truncate(a) PROVE Fresh'
  BY <1>7, Alone DEF Truncate
<1>8. ASSUME NEW a \in Actors, Write(a) PROVE Fresh'
  BY <1>8, Alone DEF Write
<1>9. ASSUME NEW c \in Clis, CliDies(c) PROVE Fresh'
  BY <1>9 DEF CliDies, Dies
<1>10. CASE ControllerDies
  BY <1>10 DEF ControllerDies, Dies
<1> QED BY <1>1, <1>2, <1>3, <1>4, <1>5, <1>6, <1>7, <1>8, <1>9, <1>10 DEF Next, Put

-----------------------------------------------------------------------------
\* a holds the latest token of p and nobody else knows it.
HasLatest(a) ==
  LET p == about[a] IN
    /\ Works(p, token[a])
    /\ p \in Rotating =>
         /\ file # Torn => file[p] < grant[p]
         /\ \A b \in Actors : seen[b][p] < grant[p]
         /\ \A b \in Actors \ {a} : about[b] = p => token[b] < grant[p]

Holding(a) ==
  stage[a] \in {"put", "save", "write"} /\ answer[a] \notin {"bare", "error"}

LEMMA LatestIs ==
  ASSUME Latest, NEW a \in Actors, Holding(a)
  PROVE  HasLatest(a)
BY Zenon DEF Latest, Holding, HasLatest

\* It stays so in a step that gives out no token of p and copies only what
\* somebody knows.
LEMMA KeepsLatest ==
  ASSUME Basics, NEW a \in Actors, HasLatest(a),
         about'[a] = about[a], token'[a] = token[a],
         about[a] \in Rotating =>
           /\ grant'[about[a]] = grant[about[a]]
           /\ file' # Torn => \/ file # Torn /\ file'[about[a]] = file[about[a]]
                              \/ file'[about[a]] < grant[about[a]]
           /\ \A b \in Actors : \/ seen'[b][about[a]] = seen[b][about[a]]
                                \/ seen'[b][about[a]] < grant[about[a]]
           /\ \A b \in Actors \ {a} : about'[b] = about[a] =>
                \/ about[b] = about'[b] /\ token'[b] = token[b]
                \/ token'[b] < grant[about[a]]
  PROVE  HasLatest(a)'
BY DEF Basics, TypeOK, HasLatest, Works

\* A provider has given out the token that is its latest.
LEMMA LatestIsSome ==
  ASSUME Basics, NEW a \in Actors, HasLatest(a)
  PROVE  0 < grant[about[a]]
BY DEF Basics, TypeOK, Bounded, HasLatest, Works, NoToken

\* Two do not hold the latest token of one provider that rotates.
LEMMA LatestIsOne ==
  ASSUME Basics, NEW a \in Actors, HasLatest(a), about[a] \in Rotating,
         NEW b \in Actors \ {a}, about[b] = about[a]
  PROVE  ~Works(about[b], token[b])
BY DEF Basics, TypeOK, HasLatest, Works

\* A provider that gives one out makes it the latest, known to who gets it.
LEMMA GivesLatest ==
  ASSUME Basics, NEW a \in Actors, NEW p \in Providers, about' = [about EXCEPT ![a] = p],
         Grants(p), token' = [token EXCEPT ![a] = grant'[p]], UNCHANGED <<file, seen>>
  PROVE  HasLatest(a)'
<1> USE DEF Basics, TypeOK, Actors
<1>1. /\ grant' = [grant EXCEPT ![p] = grant'[p]] /\ grant'[p] \in Nat /\ 0 < grant'[p]
      /\ p \in Rotating => grant'[p] = grant[p] + 1
  BY GrantsNext
<1>2. about'[a] = p /\ token'[a] = grant'[p]
  BY <1>1
<1>3. Works(p, token[a])'
  BY <1>1, <1>2 DEF Works, NoToken
<1> SUFFICES ASSUME p \in Rotating
             PROVE  /\ file' # Torn => file'[p] < grant'[p]
                    /\ \A b \in Actors : seen'[b][p] < grant'[p]
                    /\ \A b \in Actors \ {a} : about'[b] = p => token'[b] < grant'[p]
  BY <1>2, <1>3 DEF HasLatest, Works
<1>4. file' # Torn => file'[p] < grant'[p]
  BY <1>1 DEF Bounded, File
<1>5. \A b \in Actors : seen'[b][p] < grant'[p]
  BY <1>1 DEF Bounded, File
<1>6. \A b \in Actors \ {a} : about'[b] = p => token'[b] < grant'[p]
  <2> TAKE b \in Actors \ {a}
  <2>1. about'[b] = about[b] /\ token'[b] = token[b]
    OBVIOUS
  <2>2. token[b] <= grant[about[b]] /\ token[b] \in Nat
    BY DEF Bounded
  <2> QED BY <1>1, <2>1, <2>2
<1> QED BY <1>4, <1>5, <1>6

\* Another one that is over gives back what it had.
LEMMA DoneKeeps ==
  ASSUME Basics, Latest, NEW h \in Actors, Holding(h)', NEW a \in Actors, Done(a),
         about[h] \in Rotating =>
           /\ Holding(h) /\ h # a => grant'[about[h]] = grant[about[h]]
           /\ file' # Torn => \/ file # Torn /\ file'[about[h]] = file[about[h]]
                              \/ file'[about[h]] < grant[about[h]]
  PROVE  HasLatest(h)'
<1> USE DEF Basics, TypeOK
<1>1. Holding(h) /\ h # a
  BY DEF Done, Goto, Holding
<1>2. HasLatest(h) /\ 0 < grant[about[h]]
  BY <1>1, LatestIs, LatestIsSome
<1>3. about'[h] = about[h] /\ token'[h] = token[h]
  BY <1>1 DEF Done
<1>4. \A b \in Actors : \/ seen'[b][about[h]] = seen[b][about[h]]
                        \/ seen'[b][about[h]] < grant[about[h]]
  BY <1>2 DEF Done, Empty, NoToken
<1>5. \A b \in Actors \ {h} : \/ about'[b] = about[b] /\ token'[b] = token[b]
                              \/ token'[b] < grant[about[h]]
  BY <1>2 DEF Done, NoToken
<1> QED BY <1>1, <1>2, <1>3, <1>4, <1>5, KeepsLatest

LEMMA LatestStep ==
  ASSUME Basics, ~overlapping, Apart, Fresh, Latest, [Next]_vars
  PROVE  Latest'
<1> SUFFICES ASSUME NEW h \in Actors, Holding(h)' PROVE HasLatest(h)'
  BY DEF Latest, Holding, HasLatest
<1> USE DEF Basics, TypeOK, Actors, Goto, File, NoToken, Done, Empty
<1>0. Holding(h) => HasLatest(h) /\ 0 < grant[about[h]]
  BY LatestIs, LatestIsSome
<1>1. CASE UNCHANGED vars
  BY <1>0, <1>1, KeepsLatest DEF vars, Holding
<1>2. ASSUME NEW a \in Callers, Call(a) PROVE HasLatest(h)'
  <2>1. Holding(h) /\ h # a
    BY <1>2 DEF Call, Holding
  <2>2. token'[a] < grant[about[h]]
    BY <1>0, <1>2, <2>1 DEF Call, Bounded
  <2> QED BY <1>0, <1>2, <2>1, <2>2, KeepsLatest DEF Call
<1>3. ASSUME NEW a \in Callers, Read(a) PROVE HasLatest(h)'
  <2>1. Holding(h) /\ h # a
    BY <1>3 DEF Read, Holding
  <2>2. about[a] = about[h] /\ about[h] \in Rotating => token'[a] < grant[about[h]]
    BY <1>0, <1>3, <2>1 DEF Read, HasLatest
  <2>3. seen'[a][about[h]] = seen[a][about[h]] \/ seen'[a][about[h]] < grant[about[h]]
    BY <1>0, <1>3, <2>1 DEF Read
  <2> QED BY <1>0, <1>3, <2>1, <2>2, <2>3, KeepsLatest DEF Read
<1>4. ASSUME NEW a \in Callers, Refreshed(a) PROVE HasLatest(h)'
  <2>1. CASE h = a /\ about[a] \in Rotating
    <3>1. about' = [about EXCEPT ![a] = about[a]] /\ about[a] \in Providers
      BY <1>4 DEF Refreshed
    <3>2. Grants(about[a]) /\ token' = [token EXCEPT ![a] = grant'[about[a]]]
          /\ UNCHANGED <<file, seen>>
      BY <1>4, <2>1 DEF Refreshed, Answered
    <3> QED BY <2>1, <3>1, <3>2, GivesLatest
  <2>2. CASE h = a /\ about[a] \notin Rotating
    BY <1>4, <2>2 DEF Refreshed, Answered, HasLatest, Works
  <2>3. CASE h # a
    <3>1. Holding(h) /\ token'[h] = token[h] /\ UNCHANGED <<file, about, seen>>
      BY <1>4, <2>3 DEF Refreshed, Answered, Holding
    <3>2. about[h] \in Rotating => about[a] # about[h]
      BY <1>0, <1>4, <2>3, <3>1, LatestIsOne DEF Refreshed
    <3>3. about[h] \in Rotating => grant'[about[h]] = grant[about[h]]
      BY <1>4, <3>2 DEF Refreshed, Grants
    <3>4. \A b \in Actors \ {a} : token'[b] = token[b]
      BY <1>4 DEF Refreshed, Answered
    <3> QED BY <1>0, <3>1, <3>2, <3>3, <3>4, KeepsLatest
  <2> QED BY <2>1, <2>2, <2>3
<1>13. ASSUME NEW a \in Callers, RefreshedWithError(a) PROVE HasLatest(h)'
  <2>1. Holding(h)
    BY <1>13 DEF RefreshedWithError, Answered, Holding
  <2>2. token' = token /\ UNCHANGED <<file, grant, about, seen>>
    BY <1>13 DEF RefreshedWithError, Answered
  <2> QED BY <1>0, <2>1, <2>2, KeepsLatest
<1>5. ASSUME NEW a \in Callers, RefreshFails(a) \/ RefreshLost(a) PROVE HasLatest(h)'
  <2>1. Done(a) /\ UNCHANGED file
    BY <1>5 DEF RefreshFails, RefreshLost
  <2>3. Holding(h) /\ h # a => (about[h] \in Rotating => grant'[about[h]] = grant[about[h]])
    BY <1>0, <1>5, LatestIsOne DEF RefreshFails, RefreshLost, Grants
  <2> QED BY <2>1, <2>3, DoneKeeps
<1>6. ASSUME NEW c \in Clis, Authorize(c) PROVE HasLatest(h)'
  <2>1. PICK p \in Providers :
          /\ about' = [about EXCEPT ![c] = p]
          /\ \/ Grants(p) /\ Answered(c, grant'[p], "granted")
             \/ UNCHANGED grant /\ Answered(c, 0, "bare")
    BY <1>6 DEF Authorize
  <2>2. h = c /\ answer'[c] # "bare" /\ UNCHANGED <<file, seen>>
    BY <1>6, <2>1 DEF Authorize, Answered, Idle, Holding
  <2>3. Grants(p) /\ token' = [token EXCEPT ![c] = grant'[p]]
    BY <2>1, <2>2 DEF Answered
  <2> QED BY <2>1, <2>2, <2>3, GivesLatest
<1>14. ASSUME NEW c \in Clis, AuthorizeLost(c) PROVE HasLatest(h)'
  BY <1>14 DEF AuthorizeLost, Idle, Holding
<1>7. ASSUME NEW a \in Actors, PutLoad(a) PROVE HasLatest(h)'
  <2>1. Holding(h)
    BY <1>7 DEF PutLoad, Holding
  <2>2. about[h] \in Rotating => file[about[h]] < grant[about[h]]
    BY <1>0, <1>7, <2>1 DEF PutLoad, HasLatest
  <2>3. \A b \in Actors : \/ seen'[b] = seen[b]
                          \/ seen'[b] = file
    BY <1>7 DEF PutLoad
  <2> QED BY <1>0, <1>7, <2>1, <2>2, <2>3, KeepsLatest DEF PutLoad
<1>8. ASSUME NEW a \in Actors, PutFails(a) \/ WriteFails(a) PROVE HasLatest(h)'
  BY <1>8, DoneKeeps DEF PutFails, WriteFails
<1>9. ASSUME NEW a \in Actors, Truncate(a) PROVE HasLatest(h)'
  <2>1. Holding(h)
    BY <1>9 DEF Truncate, Holding
  <2> QED BY <1>0, <1>9, <2>1, KeepsLatest DEF Truncate
<1>10. ASSUME NEW a \in Actors, Write(a) PROVE HasLatest(h)'
  <2>1. Done(a) /\ file' = Saved(a) /\ UNCHANGED grant
    BY <1>10 DEF Write
  <2>2. Holding(h) /\ h # a
    BY <2>1 DEF Holding
  <2>3. about[h] \in Rotating =>
          /\ seen[a][about[h]] < grant[about[h]]
          /\ about[a] = about[h] => token[a] < grant[about[h]]
    BY <1>0, <2>2 DEF HasLatest
  <2>4. about[h] \in Rotating => file'[about[h]] < grant[about[h]]
    BY <2>1, <2>3 DEF Saved
  <2> QED BY <2>1, <2>4, DoneKeeps
<1>11. ASSUME NEW S \in SUBSET Actors, Dies(S) PROVE HasLatest(h)'
  <2>1. Holding(h) /\ h \notin S
    BY <1>11 DEF Dies, Holding
  <2>2. \A b \in Actors : \/ seen'[b][about[h]] = seen[b][about[h]]
                          \/ seen'[b][about[h]] < grant[about[h]]
    BY <1>0, <1>11, <2>1 DEF Dies
  <2>3. \A b \in Actors \ {h} : \/ about'[b] = about[b] /\ token'[b] = token[b]
                                \/ token'[b] < grant[about[h]]
    BY <1>0, <1>11, <2>1 DEF Dies
  <2> QED BY <1>0, <1>11, <2>1, <2>2, <2>3, KeepsLatest DEF Dies
<1> QED BY <1>1, <1>2, <1>3, <1>4, <1>5, <1>6, <1>7, <1>8, <1>9, <1>10, <1>11, <1>13, <1>14
        DEF Next, Put, ControllerDies, CliDies

-----------------------------------------------------------------------------
LEMMA Inductive == Spec => []IInv
<1>1. IInv /\ [Next]_vars => IInv'
  <2> SUFFICES ASSUME IInv, [Next]_vars PROVE IInv'
    OBVIOUS
  <2>1. Basics'
    BY BasicStep DEF IInv, Basics
  <2>2. overlapping' = overlapping
    BY DEF Next, Put, vars, Call, Read, Refreshed, RefreshedWithError, RefreshFails,
           RefreshLost, Authorize, AuthorizeLost, PutLoad, PutFails, Truncate, Write, WriteFails, CliDies, ControllerDies, Dies
  <2>3. ~overlapping => Apart' /\ Fresh' /\ Latest'
    BY ApartStep, FreshStep, LatestStep DEF IInv, Basics
  <2> QED BY <2>1, <2>2, <2>3 DEF IInv, Basics
<1> QED BY InitOK, <1>1, PTL DEF Spec

(***************************************************************************)
(* The inductive invariant: puts take turns, and apart from the command    *)
(* line a put works on a fresh copy, and what a provider gave a refresh or *)
(* a consent to save is its latest token.                                  *)
(***************************************************************************)
THEOREM Invariance == Spec => []IInv
BY Inductive

\* The file, or who has a token to save, has one of p that works.
LEMMA StaysAuthorized ==
  ASSUME IInv, ~overlapping, [Next]_vars, ~Failure, NEW p \in Providers, Authorized(p),
         ~SavesUnchecked(p)
  PROVE  Authorized(p)'
<1> USE DEF IInv, TypeOK, Actors, Goto, File, NoToken, Authorized, Works, Saved
<1>1. CASE UNCHANGED vars
  BY <1>1 DEF vars
<1>2. ASSUME NEW a \in Callers, Call(a) PROVE Authorized(p)'
  BY <1>2 DEF Call
<1>3. ASSUME NEW a \in Callers, Read(a) PROVE Authorized(p)'
  BY <1>3 DEF Read, Done
<1>4. ASSUME NEW a \in Callers, Refreshed(a) PROVE Authorized(p)'
  <2>0. about[a] \in Providers
    OBVIOUS
  <2>1. CASE about[a] = p
    <3>1. stage'[a] = "put" /\ about'[a] = p
      BY <1>4, <2>1 DEF Refreshed, Answered
    <3>2. CASE p \in Rotating
      <4>1. Grants(p) /\ token'[a] = grant'[p]
        BY <1>4, <2>1, <3>2 DEF Refreshed, Answered
      <4>2. 0 < grant'[p] /\ grant'[p] \in Nat
        BY <4>1, GrantsNext
      <4> QED BY <3>1, <4>1, <4>2
    <3>3. CASE p \notin Rotating
      BY <1>4, <2>1, <3>1, <3>3 DEF Refreshed, Answered
    <3> QED BY <3>2, <3>3
  <2>2. CASE about[a] # p
    <3>1. grant'[p] = grant[p] /\ UNCHANGED <<file, about, seen>>
      BY <1>4, <2>2 DEF Refreshed, Grants
    <3>2. \A b \in Actors \ {a} : token'[b] = token[b] /\ stage'[b] = stage[b]
      BY <1>4 DEF Refreshed, Answered
    <3>3. stage[a] = "refresh"
      BY <1>4 DEF Refreshed
    <3> QED BY <2>2, <3>1, <3>2, <3>3
  <2> QED BY <2>1, <2>2
<1>10. ASSUME NEW a \in Callers, RefreshedWithError(a) PROVE Authorized(p)'
  BY <1>10 DEF RefreshedWithError, Answered
<1>5. ASSUME NEW a \in Callers, RefreshFails(a) PROVE Authorized(p)'
  BY <1>5 DEF RefreshFails, Done
<1>6. ASSUME NEW c \in Clis, Authorize(c) PROVE Authorized(p)'
  <2>1. PICK q \in Providers :
          /\ about' = [about EXCEPT ![c] = q]
          /\ \/ Grants(q) /\ Answered(c, grant'[q], "granted")
             \/ UNCHANGED grant /\ Answered(c, 0, "bare")
    BY <1>6 DEF Authorize
  <2>2. UNCHANGED file /\ file # Torn /\ Works(p, file[p])
    BY <1>6 DEF Authorize, Idle
  <2>3. CASE grant'[p] = grant[p]
    BY <2>2, <2>3
  <2>4. CASE grant'[p] # grant[p]
    <3>1. q = p /\ Grants(p) /\ Answered(c, grant'[p], "granted")
      BY <2>1, <2>4 DEF Grants
    <3>2. 0 < grant'[p] /\ grant'[p] \in Nat
      BY <3>1, GrantsNext
    <3>3. stage'[c] = "put" /\ about'[c] = p /\ token'[c] = grant'[p]
      BY <2>1, <3>1 DEF Answered
    <3> QED BY <3>2, <3>3
  <2> QED BY <2>3, <2>4
<1>7. ASSUME NEW a \in Actors, PutLoad(a) PROVE Authorized(p)'
  BY <1>7 DEF PutLoad
<1>8. ASSUME NEW a \in Actors, Truncate(a) PROVE Authorized(p)'
  <2>1. CASE file # Torn /\ Works(p, file[p])
    <3>1. Works(p, Saved(a)[p])
      <4>1. stage[a] = "save" /\ file = seen[a] /\ Saved(a) \in File
        BY <1>8, <2>1 DEF Truncate, Fresh
      <4>2. CASE about[a] # p
        BY <2>1, <4>1, <4>2
      <4>3. CASE about[a] = p
        <5>1. answer[a] \notin {"bare", "error"}
          BY <1>8, <4>3 DEF SavesUnchecked
        <5>3. Works(p, token[a])
          BY <4>1, <4>3, <5>1 DEF Latest
        <5> QED BY <4>1, <4>3, <5>3
      <4> QED BY <4>2, <4>3
    <3> QED BY <1>8, <3>1 DEF Truncate
  <2>2. CASE ~(file # Torn /\ Works(p, file[p]))
    BY <1>8, <2>2 DEF Truncate
  <2> QED BY <2>1, <2>2
<1>9. ASSUME NEW a \in Actors, Write(a) PROVE Authorized(p)'
  <2>1. file = Torn /\ file' = Saved(a) /\ file' # Torn
    BY <1>9 DEF Write, Fresh
  <2> QED BY <1>9, <2>1 DEF Write, Done
<1> QED BY <1>1, <1>2, <1>3, <1>4, <1>5, <1>6, <1>7, <1>8, <1>9, <1>10
        DEF Next, Put, Failure

(***************************************************************************)
(* Apart from the command line, nothing but a failure or an answer nobody  *)
(* checked about the same provider loses what the user has authorized,     *)
(* however the refreshes overlap.                                          *)
(***************************************************************************)
THEOREM AuthorizationsStay == Spec => OnlyFailuresLose
<1>1. IInv /\ [Next]_vars =>
        [\A p \in Providers :
           Authorized(p) /\ ~overlapping =>
             Authorized(p)' \/ Failure \/ SavesUnchecked(p)]_vars
  BY StaysAuthorized
<1> QED BY <1>1, Inductive, PTL DEF Spec, OnlyFailuresLose

-----------------------------------------------------------------------------
(***************************************************************************)
(* The runs of code skills.                                                *)
(***************************************************************************)

USE SkillRunAssumption

LEMMA RunInitOK == RunInit => RunInv
BY DEF RunInit, RunInv, RunTypeOK, TokenEndsWithRun, OutputComplete, Clocks, HasOutput, Busy

\* One step per action; Start, Return and Kill are what most of them share.
LEMMA RunStepOK == RunInv /\ [RunNext]_runVars => RunInv'
<1> SUFFICES ASSUME RunInv, [RunNext]_runVars PROVE RunInv'
  OBVIOUS
<1> USE DEF RunInv, RunTypeOK, TokenEndsWithRun, OutputComplete, Clocks, HasOutput,
            Busy, Child, Piped, Group
<1>1. CASE UNCHANGED runVars
  BY <1>1 DEF runVars
<1>2. ASSUME NEW r \in Runs, Refuse(r) PROVE RunInv'
  BY <1>2 DEF Refuse, Return
<1>3. ASSUME NEW r \in Runs, BeginBuild(r) PROVE RunInv'
  BY <1>3 DEF BeginBuild, Start, IssueToken
<1>4. ASSUME NEW r \in Runs, BeginProgram(r) PROVE RunInv'
  BY <1>4 DEF BeginProgram, Start, IssueToken
<1>5. ASSUME NEW r \in Runs, Fork(r) PROVE RunInv'
  BY <1>5 DEF Fork
<1>6. ASSUME NEW r \in Runs, ChildEnds(r) PROVE RunInv'
  BY <1>6 DEF ChildEnds
<1>7. ASSUME NEW r \in Runs, Exit(r) PROVE RunInv'
  BY <1>7 DEF Exit
<1>8. ASSUME NEW r \in Runs, TimeOut(r) \/ Cancel(r) PROVE RunInv'
  BY <1>8 DEF TimeOut, Cancel, Kill
<1>9. ASSUME NEW r \in Runs, Built(r) PROVE RunInv'
  BY <1>9 DEF Built, Awaited, Start, IssueToken
<1>10. ASSUME NEW r \in Runs, BuildFailed(r) \/ Finish(r) PROVE RunInv'
  BY <1>10 DEF BuildFailed, Finish, Awaited, Return
<1>11. CASE Crash
  BY <1>11 DEF Crash
<1>12. CASE Tick
  BY <1>12 DEF Tick, Limit
<1> QED BY <1>1, <1>2, <1>3, <1>4, <1>5, <1>6, <1>7, <1>8, <1>9, <1>10, <1>11, <1>12 DEF RunNext

LEMMA RunInductive == RunSpec => []RunInv
BY RunInitOK, RunStepOK, PTL DEF RunSpec

(***************************************************************************)
(* The inductive invariant.                                                *)
(***************************************************************************)
THEOREM RunInvariance == RunSpec => []RunInv
BY RunInductive

(***************************************************************************)
(* A token is in the sidecar's map only while its run is on, and there all *)
(* the time its program runs.                                              *)
(***************************************************************************)
THEOREM TokensEnd == RunSpec => []TokenEndsWithRun
<1>1. RunInv => TokenEndsWithRun
  BY DEF RunInv
<1> QED BY <1>1, RunInductive, PTL

(***************************************************************************)
(* The token of a program within its limit works, if the wait before the   *)
(* program was no longer than the grace: it is no older than that wait and *)
(* the program's time together.                                            *)
(***************************************************************************)
THEOREM TokensLast == RunSpec => []TokenLasts
<1>1. RunInv => TokenLasts
  BY DEF RunInv, RunTypeOK, TokenEndsWithRun, Clocks, TokenLasts, Usable, TokenTTL, Busy
<1> QED BY <1>1, RunInductive, PTL

(***************************************************************************)
(* Nobody is left to write to the output of a run that returned.           *)
(***************************************************************************)
THEOREM OutputsComplete == RunSpec => []OutputComplete
<1>1. RunInv => OutputComplete
  BY DEF RunInv
<1> QED BY <1>1, RunInductive, PTL
=============================================================================
