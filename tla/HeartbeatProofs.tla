-------------------------- MODULE HeartbeatProofs --------------------------
(***************************************************************************)
(* What holds of one agent's spending windows and heartbeat for every      *)
(* number of windows, every limit, length and price, as long as one        *)
(* goroutine calls Chat.  (With two, SpentExact fails: run cost_race.)     *)
(***************************************************************************)
EXTENDS Heartbeat, DataInduction, FiniteSetTheorems, SequenceTheorems, TLAPS

\* A window that expired or never started starts again when it is recorded in.
Fresh(w) == age[w] = NotStarted \/ Expired(w)

Recorder(c) == at[c] \in {"load", "store"}

\* What c has paid and not yet stored in window w.
Pending(c, w) ==
  IF Recorder(c) /\ charge[c].window <= w THEN charge[c].cost ELSE 0

PaidMonotone ==
  /\ paid[0] = 0
  /\ \A n \in 1..Horizon : paid[n - 1] <= paid[n]

\* A window lags behind what was paid by what is still to be stored in it.
SpentKept(c) ==
  \A w \in Windows :
    /\ Fresh(w) => paid[1] = Pending(c, w)
    /\ ~Fresh(w) => spent[w] + Pending(c, w) = paid[age[w] + 1]

\* Nobody else came between the load and the store.
StoreReady(c) ==
  at[c] = "store" =>
    /\ ~Fresh(charge[c].window)
    /\ charge[c].loaded = spent[charge[c].window]

\* No window that was found exceeded is forgotten.
OverKnown(c) ==
  Recorder(c) => \A w \in Windows :
    w < charge[c].window /\ spent[w] >= Limit[w] => charge[c].over

CallAdmitted(c) ==
  at[c] = "call" => \A w \in Windows : Fresh(w) \/ spent[w] < Limit[w]

\* What the period that runs has cost, and what was paid before it started
\* and not yet Length[w] ago: each is at most what one period can cost.
PeriodsBounded ==
  \A w \in Windows :
    /\ Fresh(w) => paid[Length[w]] - paid[1] <= PeriodMax(w)
    /\ ~Fresh(w) => /\ paid[age[w] + 1] <= PeriodMax(w)
                    /\ paid[Length[w]] - paid[age[w] + 1] <= PeriodMax(w)

IInv(c) ==
  /\ TypeOK /\ PaidMonotone /\ SpentKept(c) /\ StoreReady(c)
  /\ OverKnown(c) /\ CallAdmitted(c) /\ PeriodsBounded

-----------------------------------------------------------------------------
\* The longest window's length is a number, and no window is longer.
LEMMA HorizonReached ==
  /\ Horizon \in Nat
  /\ \A w \in Windows : Length[w] \in 1..Horizon /\ Length[w] \in Nat
  /\ Windows = 1..Len(Limit) /\ Len(Limit) \in Nat \ {0}
  /\ \A w \in Windows : Limit[w] \in Nat \ {0}
<1> DEFINE n == Len(Limit)
           Lengths == {Length[w] : w \in Windows}
           Bounded == {k \in Nat : k <= n => \E m \in Nat : \A w \in 1..k : Length[w] <= m}
           Bounds == {m \in Nat : \A w \in Windows : Length[w] <= m}
<1>1. n \in Nat \ {0} /\ (\A w \in Windows : Limit[w] \in Nat \ {0})
  BY WindowAssumption, LenProperties, EmptySeq, ElementOfSeq DEF Windows
<1>2. \A w \in Windows : Length[w] \in Nat \ {0}
  BY WindowAssumption
<1>3. Bounded = Nat
  <2>1. 0 \in Bounded
    OBVIOUS
  <2>2. ASSUME NEW k \in Bounded PROVE k + 1 \in Bounded
    <3> SUFFICES ASSUME k + 1 <= n
                 PROVE  \E m \in Nat : \A w \in 1..(k + 1) : Length[w] <= m
      OBVIOUS
    <3>1. PICK m \in Nat : \A w \in 1..k : Length[w] <= m
      BY <1>1
    <3>2. Length[k + 1] \in Nat
      BY <1>1, <1>2 DEF Windows
    <3>3. m + Length[k + 1] \in Nat /\ \A w \in 1..(k + 1) : Length[w] <= m + Length[k + 1]
      <4> SUFFICES ASSUME NEW w \in 1..(k + 1) PROVE Length[w] <= m + Length[k + 1]
        BY <3>2
      <4>1. Length[w] \in Nat /\ (w \in 1..k \/ w = k + 1)
        BY <1>1, <1>2 DEF Windows
      <4> QED BY <4>1, <3>1, <3>2
    <3> QED BY <3>3
  <2> QED BY <2>1, <2>2, NatInduct
<1> HIDE DEF Bounded
<1>4. n \in Bounded
  BY <1>1, <1>3
<1>5. PICK h \in Bounds : \A m \in Bounds : h <= m
  <2>1. Bounds # {}
    <3>1. \E m \in Nat : \A w \in 1..n : Length[w] <= m
      BY <1>4, <1>1 DEF Bounded
    <3> QED BY <3>1, <1>1 DEF Windows
  <2> QED BY <2>1, LeastNumber
<1>6. h \in Lengths
  <2> SUFFICES ASSUME h \notin Lengths PROVE FALSE
    OBVIOUS
  <2>1. 1 \in Windows
    BY <1>1 DEF Windows
  <2>2. \A w \in Windows : Length[w] <= h - 1
    BY <1>2
  <2>3. h - 1 \in Nat
    BY <2>1, <2>2, <1>2
  <2> QED BY <2>2, <2>3, <1>5
<1>7. Horizon \in Lengths /\ \A y \in Lengths : Horizon >= y
  BY <1>5, <1>6 DEF Horizon, Max
<1> QED BY <1>1, <1>2, <1>7 DEF Windows

-----------------------------------------------------------------------------
LEMMA InitOK ==
  ASSUME NEW c, Chats = {c}, Init
  PROVE  IInv(c)
<1> USE HorizonReached, WindowAssumption DEF Init, Idle, NotStarted
<1>1. TypeOK
  BY DEF TypeOK
<1>2. PaidMonotone
  BY DEF PaidMonotone
<1>3. SpentKept(c) /\ StoreReady(c) /\ OverKnown(c) /\ CallAdmitted(c)
  BY DEF SpentKept, StoreReady, OverKnown, CallAdmitted, Fresh, Pending, Recorder, Expired
<1>4. \A w \in Windows : PeriodMax(w) \in Nat
  <2>1. Cardinality(Chats) = 1
    BY FS_Singleton
  <2> QED BY <2>1 DEF PeriodMax
<1>5. PeriodsBounded
  BY <1>4 DEF PeriodsBounded, Fresh, Expired
<1> QED BY <1>1, <1>2, <1>3, <1>5 DEF IInv

\* One goroutine's response in flight is all that can come on top.
LEMMA PeriodMaxOfOne ==
  ASSUME NEW c, Chats = {c}, NEW w \in Windows
  PROVE  PeriodMax(w) = Limit[w] - 1 + MaxCost /\ PeriodMax(w) \in Nat
<1>1. Cardinality(Chats) = 1
  BY FS_Singleton
<1> QED BY <1>1, HorizonReached, WindowAssumption DEF PeriodMax

\* What the types say of one window.
LEMMA Typed ==
  ASSUME TypeOK, NEW w \in Windows
  PROVE  /\ age[w] \in Int /\ spent[w] \in Nat
         /\ Length[w] \in Nat /\ Limit[w] \in Nat /\ 1 <= Limit[w]
         /\ 1 <= Length[w] /\ \A n \in 0..Length[w] : n \in 0..Horizon /\ paid[n] \in Nat
         /\ Fresh(w) <=> age[w] = -1 \/ age[w] = Length[w]
         /\ ~Fresh(w) => age[w] + 1 \in 1..Length[w]
<1>1. /\ Length[w] \in Nat /\ 1 <= Length[w] /\ Length[w] <= Horizon /\ Horizon \in Nat
      /\ Limit[w] \in Nat /\ 1 <= Limit[w]
  BY HorizonReached
<1>2. age[w] \in Int /\ -1 <= age[w] /\ age[w] <= Length[w] /\ spent[w] \in Nat
  BY <1>1 DEF TypeOK, NotStarted
<1>3. \A n \in 0..Length[w] : n \in 0..Horizon /\ paid[n] \in Nat
  BY <1>1 DEF TypeOK
<1> QED BY <1>1, <1>2, <1>3 DEF Fresh, Expired, NotStarted

LEMMA PaidTyped ==
  ASSUME TypeOK
  PROVE  1 \in 0..Horizon /\ Horizon \in Nat /\ \A n \in 0..Horizon : paid[n] \in Nat
<1>1. PICK w \in Windows : TRUE
  BY HorizonReached
<1> QED BY <1>1, HorizonReached DEF TypeOK

LEMMA AdmitKeeps ==
  ASSUME NEW c, Chats = {c}, IInv(c), Admit(c)
  PROVE  IInv(c)'
<1> USE DEF IInv, Admit
<1>1. TypeOK'
  BY DEF TypeOK
<1>2. SpentKept(c)' /\ StoreReady(c)' /\ OverKnown(c)'
  BY DEF TypeOK, SpentKept, StoreReady, OverKnown, Fresh, Expired, Pending, Recorder
<1>3. CallAdmitted(c)'
  <2>1. ASSUME NEW w \in Windows PROVE Fresh(w) \/ spent[w] < Limit[w]
    BY Typed DEF Exceeded, Fresh
  <2> QED BY <2>1 DEF CallAdmitted, Fresh, Expired
<1>4. PaidMonotone' /\ PeriodsBounded'
  BY DEF PaidMonotone, PeriodsBounded, PeriodMax, Fresh, Expired
<1> QED BY <1>1, <1>2, <1>3, <1>4

LEMMA RequestFailsKeeps ==
  ASSUME NEW c, Chats = {c}, IInv(c), RequestFails(c)
  PROVE  IInv(c)'
<1> USE DEF IInv, RequestFails
<1>1. TypeOK'
  BY DEF TypeOK
<1>2. SpentKept(c)' /\ StoreReady(c)' /\ OverKnown(c)' /\ CallAdmitted(c)'
  BY DEF TypeOK, SpentKept, StoreReady, OverKnown, Fresh, Expired, Pending,
         Recorder, CallAdmitted
<1>3. PaidMonotone' /\ PeriodsBounded'
  BY DEF PaidMonotone, PeriodsBounded, PeriodMax, Fresh, Expired
<1> QED BY <1>1, <1>2, <1>3

LEMMA RespondKeeps ==
  ASSUME NEW c, Chats = {c}, IInv(c), Respond(c)
  PROVE  IInv(c)'
<1> USE DEF IInv
<1>1. PICK cost \in 0..MaxCost :
        /\ charge' = [charge EXCEPT ![c] = [Idle EXCEPT !.cost = cost]]
        /\ paid' = [n \in 0..Horizon |-> IF n = 0 THEN 0 ELSE paid[n] + cost]
  BY DEF Respond
<1>2. /\ at[c] = "call" /\ at' = [at EXCEPT ![c] = "load"]
      /\ age' = age /\ spent' = spent
  BY DEF Respond
<1>3. charge'[c] = [window |-> 1, cost |-> cost, loaded |-> 0, over |-> FALSE]
  BY <1>1 DEF Idle, TypeOK
<1>4. cost \in Nat /\ cost <= MaxCost /\ MaxCost \in Nat
  BY WindowAssumption
<1>5. TypeOK'
  <2>1. charge'[c] \in [window : Windows, cost : 0..MaxCost,
                       loaded : Nat, over : BOOLEAN]
    <3>1. 1 \in Windows
      BY HorizonReached
    <3> QED BY <1>3, <3>1
  <2>2. charge' \in [Chats -> [window : Windows, cost : 0..MaxCost,
                              loaded : Nat, over : BOOLEAN]]
    BY <1>1, <2>1 DEF TypeOK
  <2>3. paid' \in [0..Horizon -> Nat]
    BY <1>1, <1>4 DEF TypeOK
  <2> QED BY <1>2, <2>2, <2>3 DEF TypeOK
<1>6. at'[c] = "load" /\ \A w \in Windows : Pending(c, w) = 0 /\ Pending(c, w)' = cost
  <2>1. \A w \in Windows : 1 <= w
    BY HorizonReached
  <2> QED BY <1>2, <1>3, <2>1 DEF TypeOK, Pending, Recorder
<1>7. \A n \in 0..Horizon : n # 0 => paid'[n] = paid[n] + cost /\ paid[n] \in Nat
  BY <1>1 DEF TypeOK
<1>8. \A w \in Windows : Fresh(w)' <=> Fresh(w)
  BY <1>2 DEF Fresh, Expired
<1>9. SpentKept(c)'
  <2> SUFFICES ASSUME NEW w \in Windows
               PROVE  /\ Fresh(w)' => paid'[1] = Pending(c, w)'
                      /\ ~Fresh(w)' => spent'[w] + Pending(c, w)' = paid'[age'[w] + 1]
    BY DEF SpentKept
  <2>1. CASE Fresh(w)
    BY <2>1, <1>4, <1>6, <1>7, <1>8, PaidTyped DEF SpentKept
  <2>2. CASE ~Fresh(w)
    BY <2>2, <1>2, <1>4, <1>6, <1>7, <1>8, Typed DEF SpentKept
  <2> QED BY <2>1, <2>2
<1>10. StoreReady(c)' /\ OverKnown(c)' /\ CallAdmitted(c)'
  <2>1. \A w \in Windows : ~(w < 1)
    BY HorizonReached
  <2> QED BY <1>3, <1>6, <2>1 DEF StoreReady, OverKnown, CallAdmitted
<1>11. PaidMonotone'
  <2> SUFFICES ASSUME NEW n \in 1..Horizon PROVE paid'[n - 1] <= paid'[n]
    BY <1>1, PaidTyped DEF PaidMonotone
  <2>1. /\ n - 1 \in 0..Horizon /\ n \in 0..Horizon /\ n # 0
        /\ paid[n - 1] <= paid[n] /\ paid[n - 1] \in Nat /\ paid[n] \in Nat
    BY PaidTyped DEF PaidMonotone
  <2>2. paid'[n] = paid[n] + cost /\ (n - 1 # 0 => paid'[n - 1] = paid[n - 1] + cost)
    BY <1>7, <2>1
  <2>3. n - 1 = 0 => paid'[n - 1] = 0
    BY <1>1, <2>1
  <2> QED BY <1>4, <2>1, <2>2, <2>3
<1>12. PeriodsBounded'
  <2> SUFFICES ASSUME NEW w \in Windows
               PROVE  /\ Fresh(w)' => paid'[Length[w]] - paid'[1] <= PeriodMax(w)
                      /\ ~Fresh(w)' =>
                           /\ paid'[age'[w] + 1] <= PeriodMax(w)
                           /\ paid'[Length[w]] - paid'[age'[w] + 1] <= PeriodMax(w)
    BY DEF PeriodsBounded, PeriodMax
  <2>1. /\ Length[w] \in Nat /\ 1 <= Length[w]
        /\ paid'[Length[w]] = paid[Length[w]] + cost /\ paid[Length[w]] \in Nat
        /\ paid'[1] = paid[1] + cost /\ paid[1] \in Nat
    BY <1>7, Typed
  <2>2. PeriodMax(w) = Limit[w] - 1 + MaxCost /\ PeriodMax(w) \in Nat
    BY PeriodMaxOfOne
  <2>3. CASE Fresh(w)
    <3>1. paid[Length[w]] - paid[1] <= PeriodMax(w)
      BY <2>3 DEF PeriodsBounded
    <3> QED BY <2>1, <2>2, <2>3, <3>1, <1>4, <1>8
  <2>4. CASE ~Fresh(w)
    <3> DEFINE p == paid[age[w] + 1]
    <3>1. p \in Nat /\ paid'[age'[w] + 1] = p + cost
      BY <2>4, <1>2, <1>7, Typed
    <3>2. p < Limit[w]
      BY <2>4, <1>2, <1>6, Typed DEF CallAdmitted, SpentKept
    <3>3. paid[Length[w]] - p <= PeriodMax(w) /\ Limit[w] \in Nat
      BY <2>4, Typed DEF PeriodsBounded
    <3> HIDE DEF p
    <3>4. /\ p + cost <= Limit[w] - 1 + MaxCost
          /\ paid[Length[w]] + cost - (p + cost) <= PeriodMax(w)
      BY <1>4, <2>1, <2>2, <3>1, <3>2, <3>3
    <3> QED BY <2>1, <2>2, <2>4, <3>1, <3>4, <1>8
  <2> QED BY <2>3, <2>4
<1> QED BY <1>5, <1>9, <1>10, <1>11, <1>12

LEMMA LoadKeeps ==
  ASSUME NEW c, Chats = {c}, IInv(c), Load(c)
  PROVE  IInv(c)'
<1> DEFINE v == charge[c].window
<1> USE DEF IInv
<1>1. /\ v \in Windows /\ at[c] = "load" /\ at' = [at EXCEPT ![c] = "store"]
      /\ at'[c] = "store" /\ paid' = paid
      /\ charge[c].cost \in 0..MaxCost
  BY DEF Load, TypeOK
<1>2. CASE Fresh(v)
  <2>1. /\ age' = [age EXCEPT ![v] = 0] /\ spent' = [spent EXCEPT ![v] = 0]
        /\ charge' = [charge EXCEPT ![c].loaded = spent'[v]]
    BY <1>2 DEF Load, Fresh
  <2>2. /\ spent'[v] = 0 /\ age'[v] = 0
        /\ \A w \in Windows \ {v} : spent'[w] = spent[w] /\ age'[w] = age[w]
    BY <1>1, <2>1 DEF TypeOK
  <2>3. charge'[c] = [charge[c] EXCEPT !.loaded = 0]
    BY <2>1, <2>2 DEF TypeOK
  <2>4. TypeOK'
    <3>1. age' \in [Windows -> Int] /\ spent' \in [Windows -> Nat]
      BY <2>1 DEF TypeOK
    <3>2. ASSUME NEW w \in Windows PROVE age'[w] \in NotStarted..Length[w]
      <4>1. CASE w = v
        BY <4>1, <2>2, Typed DEF NotStarted
      <4>2. CASE w # v
        BY <4>2, <2>2 DEF TypeOK
      <4> QED BY <4>1, <4>2
    <3>3. charge' \in [Chats -> [window : Windows, cost : 0..MaxCost,
                                loaded : Nat, over : BOOLEAN]]
      <4>1. charge' = [charge EXCEPT ![c].loaded = 0]
        BY <2>1, <2>2
      <4> QED BY <4>1 DEF TypeOK
    <3> QED BY <1>1, <3>1, <3>2, <3>3 DEF TypeOK
  <2>5. \A w \in Windows : Pending(c, w)' = Pending(c, w)
    BY <1>1, <2>3 DEF TypeOK, Pending, Recorder
  <2>6. \A w \in Windows : Fresh(w)' <=> Fresh(w) /\ w # v
    <3>1. Length[v] # 0
      BY <1>1, Typed
    <3> SUFFICES ASSUME NEW w \in Windows PROVE Fresh(w)' <=> Fresh(w) /\ w # v
      OBVIOUS
    <3>2. CASE w = v
      BY <3>1, <3>2, <2>2 DEF Fresh, Expired, NotStarted
    <3>3. CASE w # v
      BY <3>3, <2>2 DEF Fresh, Expired
    <3> QED BY <3>2, <3>3
  <2>7. SpentKept(c)'
    <3> SUFFICES ASSUME NEW w \in Windows
                 PROVE  /\ Fresh(w)' => paid'[1] = Pending(c, w)'
                        /\ ~Fresh(w)' => spent'[w] + Pending(c, w)' = paid'[age'[w] + 1]
      BY DEF SpentKept
    <3>1. CASE w = v
      <4>1. paid[1] = Pending(c, v) /\ paid[1] \in Nat
        BY <1>1, <1>2, PaidTyped DEF SpentKept
      <4> QED BY <3>1, <4>1, <1>1, <2>2, <2>5, <2>6
    <3>2. CASE w # v
      BY <3>2, <1>1, <2>2, <2>5, <2>6 DEF SpentKept
    <3> QED BY <3>1, <3>2
  <2>8. StoreReady(c)'
    BY <1>1, <2>2, <2>3, <2>6 DEF StoreReady, TypeOK
  <2>9. OverKnown(c)' /\ CallAdmitted(c)'
    <3>1. CallAdmitted(c)'
      BY <1>1 DEF CallAdmitted
    <3>2. ASSUME NEW w \in Windows, w < v, spent'[w] >= Limit[w]
          PROVE  charge'[c].over
      <4>1. w # v
        BY <3>2, <1>1, HorizonReached
      <4>2. charge[c].over
        BY <4>1, <3>2, <1>1, <2>2 DEF OverKnown, Recorder
      <4> QED BY <4>2, <2>3 DEF TypeOK
    <3>3. charge'[c].window = v
      BY <2>3 DEF TypeOK
    <3> QED BY <3>1, <3>2, <3>3 DEF OverKnown
  <2>10. PaidMonotone'
    BY <1>1 DEF PaidMonotone
  <2>11. PeriodsBounded'
    <3> SUFFICES ASSUME NEW w \in Windows
                 PROVE  /\ Fresh(w)' => paid[Length[w]] - paid[1] <= PeriodMax(w)
                        /\ ~Fresh(w)' =>
                             /\ paid[age'[w] + 1] <= PeriodMax(w)
                             /\ paid[Length[w]] - paid[age'[w] + 1] <= PeriodMax(w)
      BY <1>1 DEF PeriodsBounded, PeriodMax
    <3>1. CASE w = v
      <4>1. paid[1] <= MaxCost /\ paid[1] \in Nat /\ MaxCost \in Nat
        <5>1. paid[1] = Pending(c, v)
          BY <1>1, <1>2 DEF SpentKept
        <5>2. Pending(c, v) \in 0..MaxCost
          BY <1>1, WindowAssumption DEF Pending
        <5> QED BY <5>1, <5>2, WindowAssumption
      <4>2. PeriodMax(w) = Limit[w] - 1 + MaxCost /\ Limit[w] \in Nat /\ 1 <= Limit[w]
        BY PeriodMaxOfOne, Typed
      <4>3. paid[1] <= PeriodMax(w)
        BY <4>1, <4>2
      <4>4. paid[Length[w]] - paid[1] <= PeriodMax(w)
        BY <1>2, <3>1 DEF PeriodsBounded
      <4> QED BY <3>1, <2>2, <2>6, <4>3, <4>4
    <3>2. CASE w # v
      BY <3>2, <2>2, <2>6 DEF PeriodsBounded
    <3> QED BY <3>1, <3>2
  <2> QED BY <2>4, <2>7, <2>8, <2>9, <2>10, <2>11
<1>3. CASE ~Fresh(v)
  <2>1. /\ age' = age /\ spent' = spent
        /\ charge' = [charge EXCEPT ![c].loaded = spent[v]]
    BY <1>3 DEF Load, Fresh
  <2>2. charge'[c] = [charge[c] EXCEPT !.loaded = spent[v]]
    BY <2>1 DEF TypeOK
  <2>3. TypeOK'
    <3> DEFINE Charge == [window : Windows, cost : 0..MaxCost, loaded : Nat, over : BOOLEAN]
    <3>1. charge \in [Chats -> Charge] /\ spent[v] \in Nat /\ charge[c] \in Charge
      BY <1>1 DEF TypeOK
    <3>2. [charge[c] EXCEPT !.loaded = spent[v]] \in Charge
      BY <3>1
    <3>3. charge' = [charge EXCEPT ![c] = [charge[c] EXCEPT !.loaded = spent[v]]]
      BY <2>1, <3>1
    <3>4. charge' \in [Chats -> Charge]
      <4> HIDE DEF Charge
      <4> QED BY <3>1, <3>2, <3>3
    <3> QED BY <1>1, <2>1, <3>4 DEF TypeOK
  <2>4. \A w \in Windows : Pending(c, w)' = Pending(c, w)
    BY <1>1, <2>2 DEF TypeOK, Pending, Recorder
  <2>5. SpentKept(c)' /\ PeriodsBounded' /\ PaidMonotone'
    BY <1>1, <2>1, <2>4 DEF SpentKept, PeriodsBounded, PeriodMax, PaidMonotone, Fresh, Expired
  <2>6. StoreReady(c)' /\ OverKnown(c)' /\ CallAdmitted(c)'
    BY <1>1, <1>3, <2>1, <2>2
       DEF StoreReady, OverKnown, CallAdmitted, Recorder, TypeOK, Fresh, Expired
  <2> QED BY <2>3, <2>5, <2>6
<1> QED BY <1>2, <1>3
LEMMA StoreKeeps ==
  ASSUME NEW c, Chats = {c}, IInv(c), Store(c)
  PROVE  IInv(c)'
<1> DEFINE v == charge[c].window
           sum == charge[c].loaded + charge[c].cost
           over == charge[c].over \/ sum >= Limit[v]
<1> USE DEF IInv
<1>1. /\ v \in Windows /\ at[c] = "store" /\ Recorder(c) /\ ~Fresh(v)
      /\ charge[c].cost \in 0..MaxCost /\ charge[c].loaded = spent[v]
      /\ spent[v] \in Nat /\ charge[c].over \in BOOLEAN
      /\ age' = age /\ paid' = paid /\ spent' = [spent EXCEPT ![v] = sum]
  BY DEF Store, TypeOK, StoreReady, Recorder
<1>2. sum \in Nat /\ sum = spent[v] + charge[c].cost
  BY <1>1, WindowAssumption
<1>3. /\ spent' \in [Windows -> Nat] /\ spent'[v] = sum
      /\ \A w \in Windows \ {v} : spent'[w] = spent[w]
  BY <1>1, <1>2 DEF TypeOK
<1>4. \A w \in Windows : Fresh(w)' <=> Fresh(w)
  BY <1>1 DEF Fresh, Expired
<1>5. PaidMonotone' /\ PeriodsBounded'
  BY <1>1 DEF PaidMonotone, PeriodsBounded, PeriodMax, Fresh, Expired
<1>6. Pending(c, v) = charge[c].cost
  BY <1>1, HorizonReached DEF Pending
<1>7. ASSUME \A w \in Windows : Pending(c, w)' = IF w = v THEN 0 ELSE Pending(c, w)
      PROVE  SpentKept(c)'
  <2> SUFFICES ASSUME NEW w \in Windows
               PROVE  /\ Fresh(w)' => paid'[1] = Pending(c, w)'
                      /\ ~Fresh(w)' => spent'[w] + Pending(c, w)' = paid'[age'[w] + 1]
    BY DEF SpentKept
  <2>1. CASE w = v
    <3>1. spent[v] + charge[c].cost = paid[age[v] + 1]
      BY <1>1, <1>6 DEF SpentKept
    <3> QED BY <3>1, <2>1, <1>1, <1>2, <1>3, <1>4, <1>7
  <2>2. CASE w # v
    BY <2>2, <1>1, <1>3, <1>4, <1>7 DEF SpentKept
  <2> QED BY <2>1, <2>2
<1>8. ASSUME NEW w \in Windows, w < v \/ w = v, spent'[w] >= Limit[w] PROVE over
  BY <1>8, <1>1, <1>3, HorizonReached DEF OverKnown
<1>9. CASE v < Len(Limit)
  <2>1. /\ at' = [at EXCEPT ![c] = "load"]
        /\ charge' = [charge EXCEPT ![c].window = v + 1, ![c].over = over]
    BY <1>9 DEF Store
  <2>2. /\ v + 1 \in Windows /\ v \in Int /\ over \in BOOLEAN
        /\ \A w \in Windows : w \in Int
    BY <1>1, <1>9, HorizonReached
  <2> HIDE DEF over
  <2>3. /\ at'[c] = "load" /\ Recorder(c)'
        /\ charge'[c] = [charge[c] EXCEPT !.window = v + 1, !.over = over]
    BY <2>1 DEF TypeOK, Recorder
  <2>4. charge'[c].window = v + 1 /\ charge'[c].cost = charge[c].cost /\ charge'[c].over = over
    BY <2>3 DEF TypeOK
  <2>5. TypeOK'
    <3> DEFINE Charge == [window : Windows, cost : 0..MaxCost, loaded : Nat, over : BOOLEAN]
    <3>1. charge \in [Chats -> Charge] /\ charge[c] \in Charge
      BY DEF TypeOK
    <3>2. [charge[c] EXCEPT !.window = v + 1, !.over = over] \in Charge
      BY <2>2, <3>1
    <3>3. charge' = [charge EXCEPT ![c] = [charge[c] EXCEPT !.window = v + 1, !.over = over]]
      BY <2>1, <3>1
    <3>4. charge' \in [Chats -> Charge]
      <4> HIDE DEF Charge
      <4> QED BY <3>1, <3>2, <3>3
    <3> QED BY <1>1, <1>3, <2>1, <3>4 DEF TypeOK
  <2>6. \A w \in Windows : Pending(c, w)' = IF w = v THEN 0 ELSE Pending(c, w)
    <3> SUFFICES ASSUME NEW w \in Windows
                 PROVE  Pending(c, w)' = IF w = v THEN 0 ELSE Pending(c, w)
      OBVIOUS
    <3>1. v + 1 <= w <=> (v <= w /\ w # v)
      BY <2>2
    <3> QED BY <3>1, <1>1, <2>2, <2>3, <2>4 DEF Pending
  <2>7. SpentKept(c)'
    BY <1>7, <2>6
  <2>8. StoreReady(c)' /\ CallAdmitted(c)'
    BY <2>3 DEF StoreReady, CallAdmitted
  <2>9. OverKnown(c)'
    <3>1. \A w \in Windows : w < v + 1 => w < v \/ w = v
      BY <2>2
    <3> QED BY <3>1, <1>8, <2>4 DEF OverKnown
  <2> QED BY <1>5, <2>5, <2>7, <2>8, <2>9
<1>10. CASE ~(v < Len(Limit))
  <2>1. PICK next \in IF over THEN {"idle"} ELSE {"idle", "call"} :
          at' = [at EXCEPT ![c] = next]
    BY <1>10 DEF Store
  <2>2. charge' = [charge EXCEPT ![c] = Idle]
    BY <1>10 DEF Store
  <2>3. \A w \in Windows : w \in Int /\ (w < v \/ w = v)
    BY <1>1, <1>10, HorizonReached
  <2> HIDE DEF over
  <2>4. /\ at'[c] = next /\ next \in {"idle", "call"} /\ (next = "call" => ~over)
        /\ ~Recorder(c)' /\ at'[c] # "store"
    BY <2>1 DEF TypeOK, Recorder
  <2>5. TypeOK'
    <3>1. Idle \in [window : Windows, cost : 0..MaxCost, loaded : Nat, over : BOOLEAN]
      BY HorizonReached, WindowAssumption DEF Idle
    <3> QED BY <1>1, <1>3, <2>1, <2>2, <2>4, <3>1 DEF TypeOK
  <2>6. SpentKept(c)'
    <3>1. \A w \in Windows : Pending(c, w)' = IF w = v THEN 0 ELSE Pending(c, w)
      BY <1>1, <2>3, <2>4 DEF Pending
    <3> QED BY <3>1, <1>7
  <2>7. StoreReady(c)' /\ OverKnown(c)'
    BY <2>4 DEF StoreReady, OverKnown
  <2>8. CallAdmitted(c)'
    <3> SUFFICES ASSUME next = "call", NEW w \in Windows PROVE spent'[w] < Limit[w]
      BY <2>4 DEF CallAdmitted
    <3>1. ~(spent'[w] >= Limit[w])
      BY <1>8, <2>3, <2>4
    <3>2. spent'[w] \in Nat /\ Limit[w] \in Nat
      BY <1>3, Typed
    <3> QED BY <3>1, <3>2
  <2> QED BY <1>5, <2>5, <2>6, <2>7, <2>8
<1> QED BY <1>9, <1>10

LEMMA TickKeeps ==
  ASSUME NEW c, Chats = {c}, IInv(c), Tick
  PROVE  IInv(c)'
<1> USE DEF IInv
<1>1. /\ at[c] \in {"idle", "call"} /\ at' = at /\ charge' = charge /\ spent' = spent
      /\ ~Recorder(c) /\ ~Recorder(c)'
      /\ \A w \in Windows : Pending(c, w) = 0 /\ Pending(c, w)' = 0
  BY DEF Tick, Recorder, Pending
<1>2. \A w \in Windows : age'[w] = IF Fresh(w) THEN age[w] ELSE age[w] + 1
  BY DEF Tick, Fresh
<1>3. paid' = [n \in 0..Horizon |-> IF n = 0 THEN 0 ELSE paid[n - 1]]
  BY DEF Tick
<1>4. /\ paid' \in [0..Horizon -> Nat] /\ paid'[0] = 0
      /\ \A n \in 1..Horizon : paid'[n] = paid[n - 1]
  BY <1>3, PaidTyped
<1>5. paid[0] = 0 /\ \A n \in 1..Horizon : paid[n - 1] <= paid[n]
  BY DEF PaidMonotone
<1>6. TypeOK'
  <2>1. ASSUME NEW w \in Windows
        PROVE  age'[w] \in Int /\ age'[w] \in NotStarted..Length[w]
    <3>1. CASE Fresh(w)
      BY <3>1, <1>2 DEF TypeOK
    <3>2. CASE ~Fresh(w)
      <4>1. age[w] \in Int /\ Length[w] \in Nat /\ age[w] + 1 \in 1..Length[w]
        BY <3>2, Typed
      <4> QED BY <3>2, <4>1, <1>2 DEF NotStarted
    <3> QED BY <3>1, <3>2
  <2>2. age' \in [Windows -> Int]
    BY <2>1 DEF Tick
  <2> QED BY <1>1, <1>4, <2>1, <2>2 DEF TypeOK
<1>7. PaidMonotone'
  <2> SUFFICES ASSUME NEW n \in 1..Horizon PROVE paid'[n - 1] <= paid'[n]
    BY <1>4 DEF PaidMonotone
  <2>1. n \in Int /\ n - 1 \in 0..Horizon /\ paid[n - 1] \in Nat
    BY PaidTyped
  <2>2. CASE n = 1
    BY <2>1, <2>2, <1>4
  <2>3. CASE n # 1
    BY <2>1, <2>3, <1>4, <1>5, PaidTyped
  <2> QED BY <2>2, <2>3
<1>8. /\ StoreReady(c)' /\ OverKnown(c)'
  BY <1>1 DEF StoreReady, OverKnown
\* A running window grows older, and expires at its length.
<1>9. ASSUME NEW w \in Windows, ~Fresh(w)
      PROVE  /\ age'[w] = age[w] + 1 /\ age[w] + 1 \in 1..Length[w]
             /\ Fresh(w)' <=> age[w] + 1 = Length[w]
  <2>1. age[w] \in Int /\ Length[w] \in Nat /\ age[w] + 1 \in 1..Length[w]
    BY <1>9, Typed
  <2> QED BY <2>1, <1>2, <1>9 DEF Fresh, Expired, NotStarted
<1>10. ASSUME NEW w \in Windows, Fresh(w) PROVE Fresh(w)'
  BY <1>2, <1>10 DEF Fresh, Expired
<1>11. CallAdmitted(c)'
  <2>1. \A w \in Windows : Fresh(w)' \/ Fresh(w) \/ spent[w] < Limit[w] \/ at[c] # "call"
    BY DEF CallAdmitted
  <2> QED BY <2>1, <1>1, <1>10 DEF CallAdmitted
<1>12. 1 \in 1..Horizon /\ paid'[1] = 0
  BY <1>4, <1>5, PaidTyped
<1>13. SpentKept(c)'
  <2> SUFFICES ASSUME NEW w \in Windows, ~Fresh(w)'
               PROVE  spent[w] = paid'[age'[w] + 1] /\ spent[w] \in Nat
    BY <1>1, <1>12 DEF SpentKept
  <2>1. ~Fresh(w)
    BY <1>10
  <2>2. spent[w] = paid[age[w] + 1] /\ spent[w] \in Nat
    BY <1>1, <2>1, Typed DEF SpentKept
  <2>3. age'[w] = age[w] + 1 /\ age[w] + 1 \in 1..Length[w] /\ age[w] + 1 # Length[w]
    BY <1>9, <2>1
  <2> DEFINE b == age[w] + 2
  <2>4. b \in 1..Horizon /\ age'[w] + 1 = b /\ age[w] + 1 = b - 1
    BY <2>3, Typed, HorizonReached
  <2> HIDE DEF b
  <2>5. paid'[b] = paid[b - 1]
    BY <2>4, <1>4
  <2> QED BY <2>2, <2>4, <2>5
<1>14. PeriodsBounded'
  <2> SUFFICES ASSUME NEW w \in Windows
               PROVE  /\ Fresh(w)' => paid'[Length[w]] - paid'[1] <= PeriodMax(w)
                      /\ ~Fresh(w)' =>
                           /\ paid'[age'[w] + 1] <= PeriodMax(w)
                           /\ paid'[Length[w]] - paid'[age'[w] + 1] <= PeriodMax(w)
    BY DEF PeriodsBounded, PeriodMax
  <2> DEFINE L == Length[w]
             m == PeriodMax(w)
  <2>1. L \in Nat /\ 1 <= L /\ L \in 1..Horizon /\ m \in Nat
    <3>1. L \in Nat /\ 1 <= L /\ L \in 1..Horizon
      BY HorizonReached
    <3> QED BY <3>1, PeriodMaxOfOne
  <2>2. /\ paid'[L] = paid[L - 1] /\ paid[L - 1] <= paid[L]
        /\ paid[L - 1] \in Nat /\ paid[L] \in Nat
    BY <2>1, <1>4, <1>5, PaidTyped
  <2> HIDE DEF m, L
  <2>3. CASE Fresh(w)
    <3>1. paid[L] - paid[1] <= m /\ paid[1] = 0
      BY <2>3, <1>1 DEF PeriodsBounded, SpentKept, m, L
    <3>2. paid'[L] - paid'[1] <= m
      BY <3>1, <2>1, <2>2, <1>12
    <3> QED BY <3>2, <2>3, <1>10 DEF m, L
  <2>4. CASE ~Fresh(w)
    <3> DEFINE a == age[w] + 1
    <3>1. age'[w] = a /\ a \in 1..L /\ (Fresh(w)' <=> a = L) /\ L <= Horizon
      BY <1>9, <2>4, <2>1 DEF L
    <3>2. paid[a] <= m /\ paid[L] - paid[a] <= m /\ paid[a] \in Nat
      BY <2>4, Typed DEF PeriodsBounded, m, L
    <3> HIDE DEF a
    <3>3. CASE a = L
      <4>1. paid'[L] - paid'[1] <= m
        BY <3>2, <3>3, <2>1, <2>2, <1>12
      <4> QED BY <4>1, <3>1, <3>3 DEF m, L
    <3>4. CASE a # L
      <4> DEFINE b == a + 1
      <4>1. b \in 1..Horizon /\ b - 1 = a
        BY <3>1, <3>4, <2>1, PaidTyped
      <4>2. paid'[a + 1] = paid[a]
        <5> HIDE DEF b
        <5>1. paid'[b] = paid[b - 1]
          BY <4>1, <1>4
        <5> QED BY <5>1, <4>1 DEF b
      <4>3. paid'[a + 1] <= m /\ paid'[L] - paid'[a + 1] <= m
        BY <4>2, <3>2, <2>1, <2>2
      <4> QED BY <4>3, <3>1, <3>4 DEF m, L
    <3> QED BY <3>3, <3>4
  <2> QED BY <2>3, <2>4
<1> QED BY <1>6, <1>7, <1>8, <1>11, <1>13, <1>14

-----------------------------------------------------------------------------
\* The heartbeat and its hours touch the windows only by the steps of Chat.
LEMMA BeatIsStep ==
  ASSUME [HeartbeatNext]_<<vars, beatVars>>
  PROVE  [Next]_vars
<1> USE DEF vars
<1>1. CASE Skip \/ BeatSkill \/ SkillEnds \/ Cancel \/ Stop
  BY <1>1 DEF Skip, BeatSkill, SkillEnds, Cancel, Stop
<1>2. CASE Hour
  BY <1>2 DEF Hour, Next
<1>3. ASSUME NEW c \in Chats, BeatChat(c) \/ UserCalls(c) \/ ChatStep(c) PROVE Next
  BY <1>3 DEF BeatChat, UserCalls, ChatStep, Next
<1> QED BY <1>1, <1>2, <1>3 DEF HeartbeatNext

LEMMA StepKeeps ==
  ASSUME NEW c, Chats = {c}, IInv(c), [Next]_vars
  PROVE  IInv(c)'
<1>1. CASE Admit(c)
  BY <1>1, AdmitKeeps
<1>2. CASE Respond(c)
  BY <1>2, RespondKeeps
<1>3. CASE RequestFails(c)
  BY <1>3, RequestFailsKeeps
<1>4. CASE Load(c)
  BY <1>4, LoadKeeps
<1>5. CASE Store(c)
  BY <1>5, StoreKeeps
<1>6. CASE Tick
  BY <1>6, TickKeeps
<1>7. CASE UNCHANGED vars
  BY <1>7 DEF IInv, TypeOK, PaidMonotone, SpentKept, StoreReady, OverKnown, CallAdmitted,
     PeriodsBounded, PeriodMax, Fresh, Expired, Pending, Recorder, vars
<1> QED BY <1>1, <1>2, <1>3, <1>4, <1>5, <1>6, <1>7 DEF Next

\* One goroutine calls Chat: a user's, or the heartbeat's.
OneCaller == \E c \in Chats : Chats = {c}

Kept == \A c \in Chats : IInv(c)

LEMMA Invariance ==
  ASSUME OneCaller
  PROVE  HeartbeatSpec => []Kept
<1>1. PICK c \in Chats : Chats = {c}
  BY DEF OneCaller
<1>2. HeartbeatInit => Kept
  BY <1>1, InitOK DEF HeartbeatInit, Kept
<1>3. Kept /\ [HeartbeatNext]_<<vars, beatVars>> => Kept'
  BY <1>1, BeatIsStep, StepKeeps DEF Kept
<1> QED BY <1>2, <1>3, PTL DEF HeartbeatSpec

(***************************************************************************)
(* A window's spent is exactly what was paid since it started: resets,     *)
(* expiries and failed requests lose nothing and count nothing twice.      *)
(***************************************************************************)
THEOREM SpentIsExact ==
  ASSUME OneCaller
  PROVE  HeartbeatSpec => []SpentExact
<1>1. Kept => SpentExact
  BY DEF OneCaller, Kept, IInv, SpentKept, SpentExact, PaidSinceStart, Pending, Recorder, Recording,
     Fresh, TypeOK
<1> QED BY <1>1, Invariance, PTL

CallsBelowLimit ==
  \A c \in Chats : at[c] = "call" => \A w \in Windows : PaidSinceStart(w) < Limit[w]

(***************************************************************************)
(* No request is sent while a window has really cost its limit: the check  *)
(* before a call and the one after each response see every window.         *)
(***************************************************************************)
THEOREM RequestsWithinLimits ==
  ASSUME OneCaller
  PROVE  HeartbeatSpec => NoRequestOverLimit
<1>1. ASSUME Kept, NEW c \in Chats, at[c] = "call", NEW w \in Windows
      PROVE  PaidSinceStart(w) < Limit[w]
  <2>1. Pending(c, w) = 0
    BY <1>1 DEF Pending, Recorder
  <2> QED BY <1>1, <2>1, Typed
          DEF Kept, IInv, CallAdmitted, SpentKept, PaidSinceStart, Fresh
<1>2. Kept => CallsBelowLimit
  BY <1>1 DEF CallsBelowLimit
<1>3. CallsBelowLimit' =>
        [\A c \in Chats :
           at[c] # "call" /\ at'[c] = "call" =>
             \A w \in Windows : PaidSinceStart(w)' < Limit[w]]_vars
  BY DEF CallsBelowLimit
<1> QED BY <1>2, <1>3, Invariance, PTL DEF NoRequestOverLimit

(***************************************************************************)
(* Any stretch of time as long as a window meets two of its periods at     *)
(* most, and each costs less than the limit and one response.              *)
(***************************************************************************)
THEOREM TrailingBounded ==
  ASSUME OneCaller
  PROVE  HeartbeatSpec => []TrailingBound
<1> PICK c \in Chats : Chats = {c}
  BY DEF OneCaller
<1>1. ASSUME IInv(c), NEW w \in Windows
      PROVE  paid[Length[w]] <= 2 * PeriodMax(w)
  <2> DEFINE m == PeriodMax(w)
             total == paid[Length[w]]
  <2>1. /\ m \in Nat /\ m = Limit[w] - 1 + MaxCost
        /\ Limit[w] \in Nat /\ 1 <= Limit[w] /\ MaxCost \in Nat
        /\ total \in Nat /\ paid[1] \in Nat
    <3>1. m \in Nat /\ m = Limit[w] - 1 + MaxCost /\ MaxCost \in Nat
      BY PeriodMaxOfOne, WindowAssumption
    <3>2. /\ Limit[w] \in Nat /\ 1 <= Limit[w] /\ Length[w] \in 0..Length[w]
          /\ 1 \in 0..Length[w]
      BY <1>1, Typed DEF IInv
    <3>3. total \in Nat /\ paid[1] \in Nat
      BY <1>1, <3>2, Typed DEF IInv
    <3> QED BY <3>1, <3>2, <3>3
  <2> HIDE DEF m, total
  <2>2. CASE Fresh(w)
    <3>1. Pending(c, w) \in 0..MaxCost
      BY <1>1, WindowAssumption DEF IInv, TypeOK, Pending
    <3>2. paid[1] = Pending(c, w) /\ total - paid[1] <= m
      BY <1>1, <2>2 DEF IInv, SpentKept, PeriodsBounded, m, total
    <3> QED BY <3>1, <3>2, <2>1 DEF m, total
  <2>3. CASE ~Fresh(w)
    <3> DEFINE p == paid[age[w] + 1]
    <3>1. p \in Nat /\ p <= m /\ total - p <= m
      BY <1>1, <2>3, Typed DEF IInv, PeriodsBounded, m, total
    <3> HIDE DEF p
    <3> QED BY <3>1, <2>1 DEF m, total
  <2> QED BY <2>2, <2>3
<1>2. Kept => TrailingBound
  BY <1>1 DEF TrailingBound, Kept
<1> QED BY <1>2, Invariance, PTL

-----------------------------------------------------------------------------
\* The hours of the configuration and of the clock.
HoursOK ==
  /\ hour \in 0..(Day - 1)
  /\ hc.quietStart \in -1..Day
  /\ hc.quietEnd \in 0..Day

LEMMA HoursInvariant == HeartbeatSpec => []HoursOK
<1>1. HeartbeatInit => HoursOK
  <2> SUFFICES ASSUME HeartbeatInit PROVE HoursOK
    OBVIOUS
  <2>1. PICK mode \in {"off", "chat", "skill"}, i \in IntervalStrings, q \in QuietStrings :
          hc = ParseHeartbeatConfig(mode, i, q)
    BY DEF HeartbeatInit
  <2>2. CASE q = Malformed
    BY <2>1, <2>2, HeartbeatAssumption DEF ParseHeartbeatConfig, HoursOK, HeartbeatInit
  <2>3. CASE q # Malformed
    <3>1. q[1] \in 0..Day /\ q[2] \in 0..Day
      BY <2>3, HeartbeatAssumption
    <3> QED BY <2>1, <2>3, <3>1, HeartbeatAssumption
            DEF ParseHeartbeatConfig, HoursOK, HeartbeatInit
  <2> QED BY <2>2, <2>3
<1>2. HoursOK /\ [HeartbeatNext]_<<vars, beatVars>> => HoursOK'
  <2> SUFFICES ASSUME HoursOK, [HeartbeatNext]_<<vars, beatVars>> PROVE HoursOK'
    OBVIOUS
  <2>1. CASE Hour
    <3>1. (hour + 1) % Day \in 0..(Day - 1)
      BY HeartbeatAssumption DEF HoursOK
    <3> QED BY <2>1, <3>1 DEF Hour, HoursOK
  <2>2. CASE hour' = hour /\ hc' = hc
    BY <2>2 DEF HoursOK
  <2> QED BY <2>1, <2>2 DEF HeartbeatNext, Skip, BeatSkill, SkillEnds, Cancel, Stop,
          BeatChat, UserCalls, ChatStep, beatVars
<1> QED BY <1>1, <1>2, PTL DEF HeartbeatSpec

LEMMA QuietHoursKept ==
  ASSUME HoursOK, ~IsQuietHour
  PROVE  ~QuietAt(hour)
<1> DEFINE s == hc.quietStart
           e == hc.quietEnd
<1>1. /\ Day \in Nat \ {0} /\ hour \in Int /\ 0 <= hour /\ hour < Day
      /\ s \in Int /\ s <= Day /\ e \in Int /\ 0 <= e /\ e <= Day
  BY HeartbeatAssumption DEF HoursOK
<1> SUFFICES ASSUME s >= 0, NEW k \in 0..(QuietLength - 1),
                    s + k = hour \/ s + k = hour + Day
             PROVE  FALSE
  BY DEF QuietAt
<1>2. ~IF s < e THEN hour >= s /\ hour < e ELSE hour >= s \/ hour < e
  BY DEF IsQuietHour
<1>3. QuietLength = e - s + (IF s < e THEN 0 ELSE Day)
  BY DEF QuietLength
<1> HIDE DEF s, e
<1> QED BY <1>1, <1>2, <1>3

(***************************************************************************)
(* The heartbeat starts nothing in its quiet hours, and nothing while a    *)
(* window has really cost its limit.                                       *)
(***************************************************************************)
THEOREM QuietIsKept ==
  ASSUME OneCaller
  PROVE  HeartbeatSpec => QuietKept
<1> PICK g \in Chats : Chats = {g}
  BY DEF OneCaller
<1> DEFINE Started == due /\ ~due' /\ ((\E c \in Chats : at[c] # at'[c]) \/ skill # skill')
           Allowed == /\ ~QuietAt(hour)
                      /\ Recording \/ \A w \in Windows : PaidSinceStart(w) < Limit[w]
<1>1. ASSUME IInv(g), HoursOK, HeartbeatNext, Started
      PROVE  Allowed
  <2>1. ~IsQuietHour /\ \A w \in Windows : ~Exceeded(w)
    <3>1. CASE BeatSkill
      BY <3>1 DEF BeatSkill, Paused
    <3>2. ASSUME NEW d \in Chats, BeatChat(d) PROVE ~IsQuietHour /\ \A w \in Windows : ~Exceeded(w)
      BY <3>2 DEF BeatChat, Admit
    <3>3. CASE Skip \/ SkillEnds \/ Cancel \/ Stop \/ Hour
      BY <3>3, <1>1 DEF Skip, SkillEnds, Cancel, Stop, Hour, Tick, vars
    <3>4. ASSUME NEW d \in Chats, UserCalls(d) \/ ChatStep(d) PROVE FALSE
      BY <3>4, <1>1 DEF UserCalls, ChatStep, beatVars
    <3> QED BY <1>1, <3>1, <3>2, <3>3, <3>4 DEF HeartbeatNext
  <2>2. ~QuietAt(hour)
    BY <1>1, <2>1, QuietHoursKept
  <2>3. ASSUME ~Recording, NEW w \in Windows PROVE PaidSinceStart(w) < Limit[w]
    <3>1. Pending(g, w) = 0
      BY <2>3 DEF Recording, Pending, Recorder
    <3>2. /\ spent[w] \in Nat /\ Limit[w] \in Nat /\ 1 <= Limit[w]
      BY <1>1, Typed DEF IInv
    <3>3. ~Fresh(w) => spent[w] < Limit[w] /\ spent[w] = paid[age[w] + 1]
      BY <1>1, <2>1, <3>1, <3>2 DEF IInv, SpentKept, Fresh, Exceeded
    <3> QED BY <3>2, <3>3 DEF PaidSinceStart, Fresh
  <2> QED BY <2>2, <2>3
<1>2. Kept /\ HoursOK /\ [HeartbeatNext]_<<vars, beatVars>>
        => [due /\ ~due' /\ ((\E c \in Chats : at[c] # at'[c]) \/ skill # skill') =>
              /\ ~QuietAt(hour)
              /\ Recording \/ \A w \in Windows : PaidSinceStart(w) < Limit[w]]_<<vars, beatVars>>
  BY <1>1 DEF Kept
<1> QED BY <1>2, Invariance, HoursInvariant, PTL DEF HeartbeatSpec, QuietKept
=============================================================================
