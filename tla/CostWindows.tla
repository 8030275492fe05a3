---------------------------- MODULE CostWindows ----------------------------
(***************************************************************************)
(* The spending windows of one agent (internal/agent/tokenlimit.go) under  *)
(* the calls of Agent.Chat that share them.                                *)
(*                                                                         *)
(* Only differences of times enter the code (now.Sub(started)), so time is *)
(* kept as ages, in ticks: a window's age stops at its length, where it is *)
(* expired, and paid is the history of what responses have cost.  The      *)
(* fields of a window have no lock: recording a cost is a load and a store *)
(* that other goroutines can come between.                                 *)
(***************************************************************************)
EXTENDS Integers, Sequences, FiniteSetsExt

CONSTANTS
  Chats,    \* goroutines that call Chat, one call after another
  Limit,    \* Limit[w]: limit of window w, in millicents
  Length,   \* Length[w]: its duration, in ticks
  MaxCost   \* bound: cost of one response

Windows == 1..Len(Limit)

ASSUME WindowAssumption ==
  /\ Limit \in Seq(Nat \ {0}) /\ Limit # <<>>  \* without, nothing is tracked
  /\ Length \in [Windows -> Nat \ {0}]
  /\ MaxCost \in Nat

VARIABLES
  age,    \* ticks since a window was started; NotStarted at first
  spent,  \* CostWindow.spent
  paid,   \* paid[n]: what responses cost in the last n ticks, this one included
  at,     \* where a goroutine is
  charge  \* what it is recording: window, cost, value loaded, limit reached

vars == <<age, spent, paid, at, charge>>

NotStarted == -1

Horizon == Max({Length[w] : w \in Windows})

Idle == [window |-> 1, cost |-> 0, loaded |-> 0, over |-> FALSE]

TypeOK ==
  /\ age \in [Windows -> Int]
  /\ \A w \in Windows : age[w] \in NotStarted..Length[w]
  /\ spent \in [Windows -> Nat]
  /\ paid \in [0..Horizon -> Nat]
  /\ at \in [Chats -> {"idle", "call", "load", "store"}]
  /\ charge \in [Chats -> [window : Windows, cost : 0..MaxCost,
                           loaded : Nat, over : BOOLEAN]]

Init ==
  /\ age = [w \in Windows |-> NotStarted]
  /\ spent = [w \in Windows |-> 0]
  /\ paid = [n \in 0..Horizon |-> 0]
  /\ at = [c \in Chats |-> "idle"]
  /\ charge = [c \in Chats |-> Idle]

Expired(w) == age[w] = Length[w]

\* Mutant: reaching the limit is not exceeding it.
ExceededAbove(w) == ~Expired(w) /\ spent[w] > Limit[w]

\* CostWindow.exceeded: an expired window no longer counts.
Exceeded(w) == ~Expired(w) /\ spent[w] >= Limit[w]

-----------------------------------------------------------------------------
\* Chat starts if no window is exceeded; otherwise it returns at once.
Admit(c) ==
  /\ at[c] = "idle"
  /\ \A w \in Windows : ~Exceeded(w)
  /\ at' = [at EXCEPT ![c] = "call"]
  /\ UNCHANGED <<age, spent, paid, charge>>

\* A response arrives and is paid for, or the request fails.
Respond(c) ==
  /\ at[c] = "call"
  /\ \E cost \in 0..MaxCost :
       /\ charge' = [charge EXCEPT ![c] = [Idle EXCEPT !.cost = cost]]
       /\ paid' = [n \in 0..Horizon |-> IF n = 0 THEN 0 ELSE paid[n] + cost]
  /\ at' = [at EXCEPT ![c] = "load"]
  /\ UNCHANGED <<age, spent>>

RequestFails(c) ==
  /\ at[c] = "call"
  /\ at' = [at EXCEPT ![c] = "idle"]
  /\ UNCHANGED <<age, spent, paid, charge>>

\* Mutant: a window starts again without forgetting what was spent.
LoadKeepsSpent(c) ==
  /\ at[c] = "load"
  /\ LET w == charge[c].window
         fresh == age[w] = NotStarted \/ Expired(w)
     IN  /\ age' = IF fresh THEN [age EXCEPT ![w] = 0] ELSE age
         /\ charge' = [charge EXCEPT ![c].loaded = spent[w]]
  /\ at' = [at EXCEPT ![c] = "store"]
  /\ UNCHANGED <<paid, spent>>

\* CostWindow.record, first half: a window that expired, or never started,
\* starts again at zero; then spent is read ...
Load(c) ==
  /\ at[c] = "load"
  /\ LET w == charge[c].window
         fresh == age[w] = NotStarted \/ Expired(w)
     IN  /\ age'   = IF fresh THEN [age EXCEPT ![w] = 0] ELSE age
         /\ spent' = IF fresh THEN [spent EXCEPT ![w] = 0] ELSE spent
         /\ charge' = [charge EXCEPT ![c].loaded = spent'[w]]
  /\ at' = [at EXCEPT ![c] = "store"]
  /\ UNCHANGED paid

\* Mutant: only the last window decides whether Chat goes on.
StoreLastDecides(c) ==
  /\ at[c] = "store"
  /\ LET w   == charge[c].window
         sum == charge[c].loaded + charge[c].cost
     IN  /\ spent' = [spent EXCEPT ![w] = sum]
         /\ IF w < Len(Limit)
            THEN /\ at' = [at EXCEPT ![c] = "load"]
                 /\ charge' = [charge EXCEPT ![c].window = w + 1]
            ELSE /\ \E next \in IF sum >= Limit[w] THEN {"idle"}
                                                   ELSE {"idle", "call"} :
                      at' = [at EXCEPT ![c] = next]
                 /\ charge' = [charge EXCEPT ![c] = Idle]
  /\ UNCHANGED <<age, paid>>

\* ... and written.  After the last window Chat goes on to its next request
\* or returns; if a window is at its limit it returns.
Store(c) ==
  /\ at[c] = "store"
  /\ LET w    == charge[c].window
         sum  == charge[c].loaded + charge[c].cost
         over == charge[c].over \/ sum >= Limit[w]
     IN  /\ spent' = [spent EXCEPT ![w] = sum]
         /\ IF w < Len(Limit)
            THEN /\ at' = [at EXCEPT ![c] = "load"]
                 /\ charge' = [charge EXCEPT ![c].window = w + 1,
                                             ![c].over = over]
            ELSE /\ \E next \in IF over THEN {"idle"} ELSE {"idle", "call"} :
                      at' = [at EXCEPT ![c] = next]
                 /\ charge' = [charge EXCEPT ![c] = Idle]
  /\ UNCHANGED <<age, paid>>

\* A tick is long (windows last an hour at least): recording falls within one.
Tick ==
  /\ \A c \in Chats : at[c] \in {"idle", "call"}
  /\ age' = [w \in Windows |->
               IF age[w] = NotStarted \/ Expired(w) THEN age[w] ELSE age[w] + 1]
  /\ paid' = [n \in 0..Horizon |-> IF n = 0 THEN 0 ELSE paid[n - 1]]
  /\ UNCHANGED <<spent, at, charge>>

Next ==
  \/ \E c \in Chats :
       Admit(c) \/ Respond(c) \/ RequestFails(c) \/ Load(c) \/ Store(c)
  \/ Tick

\* Fairness: time passes, requests end, and a cost is recorded.
Spec ==
  /\ Init /\ [][Next]_vars
  /\ WF_vars(Tick)
  /\ \A c \in Chats :
       WF_vars(Respond(c) \/ RequestFails(c)) /\ WF_vars(Load(c) \/ Store(c))

-----------------------------------------------------------------------------
\* What was paid since window w was started; nothing if it is not running.
PaidSinceStart(w) ==
  IF age[w] = NotStarted \/ Expired(w) THEN 0 ELSE paid[age[w] + 1]

Recording == \E c \in Chats : at[c] \in {"load", "store"}

(***************************************************************************)
(* tokenlimit.go:17: spent is the "millicents spent in current window":    *)
(* whenever no cost is being recorded, a running window holds exactly what *)
(* was paid since it started, whichever resets came before.                *)
(***************************************************************************)
SpentExact ==
  ~Recording => \A w \in Windows :
    age[w] # NotStarted /\ ~Expired(w) => spent[w] = PaidSinceStart(w)

(***************************************************************************)
(* No request is sent while what was really paid in a running window has   *)
(* reached its limit: neither a new call's first request nor the next one  *)
(* of a call whose own response, or another window, was the one too many.  *)
(***************************************************************************)
NoRequestOverLimit ==
  [][\A c \in Chats :
       at[c] # "call" /\ at'[c] = "call" =>
         \A w \in Windows : PaidSinceStart(w)' < Limit[w]]_vars

\* The most a period of window w can cost: one below the limit, and then the
\* response in flight of every call.
PeriodMax(w) == Limit[w] - 1 + Cardinality(Chats) * MaxCost

(***************************************************************************)
(* tokenlimit.go:12: a CostWindow "tracks spending within a rolling time   *)
(* window".  It keeps fixed periods, and any stretch of time as long as    *)
(* one meets at most two: what it costs is bounded by twice what one       *)
(* period can cost (and passes what one can: the window does not roll).    *)
(***************************************************************************)
TrailingBound == \A w \in Windows : paid[Length[w]] <= 2 * PeriodMax(w)
=============================================================================
