---------------------------- MODULE SmithlyProofs ---------------------------
(***************************************************************************)
(* Proofs about the parts of `smithly start`: the limiter in front of the  *)
(* gateway's handlers (RateLimiter) is the sliding window, for any number  *)
(* of clients and any window, limit and clean-up age; and of Telegram      *)
(* (Controller), for any number of updates, starts and clients, its server *)
(* drops no message that was not handled, and a process answers none       *)
(* twice; and of the terminal (Terminal), for any keys, that what is typed *)
(* ahead is the line the next chat is given.                               *)
(***************************************************************************)
EXTENDS RateLimiter, Controller, Terminal, FiniteSetTheorems, DataInduction, TLAPS

-----------------------------------------------------------------------------
(***************************************************************************)
(* The limiter.                                                            *)
(***************************************************************************)

USE LimiterAssumption

\* A subset of a set that is small enough is small enough.
LEMMA SmallSubset ==
  ASSUME NEW S, NEW T, IsFiniteSet(T), S \subseteq T, Cardinality(T) <= MaxReqs
  PROVE  IsFiniteSet(S) /\ Cardinality(S) <= MaxReqs
<1>1. IsFiniteSet(S) /\ Cardinality(S) <= Cardinality(T)
  BY FS_Subset
<1>2. Cardinality(S) \in Nat /\ Cardinality(T) \in Nat
  BY <1>1, FS_CardinalityType
<1> QED BY <1>1, <1>2

\* The timestamps allow keeps are exactly the requests that still count.
LEMMA ValidIsLive ==
  ASSUME IInv, NEW ip \in Clients
  PROVE  Valid(ip) = Live(ip)
BY DEF IInv, Remembered, Valid, Live, Promise!Live

\* The next request's number is new.
LEMMA FreshNumber ==
  ASSUME IInv, NEW ip \in Clients
  PROVE  LET new == [ip |-> ip, at |-> clock, n |-> Cardinality(accepted) + 1]
         IN  /\ new \in Request
             /\ new \notin accepted
             /\ IsFiniteSet(accepted \cup {new})
             /\ Cardinality(accepted \cup {new}) = Cardinality(accepted) + 1
             /\ Cardinality(accepted) \in Nat
<1> DEFINE new == [ip |-> ip, at |-> clock, n |-> Cardinality(accepted) + 1]
<1>1. IsFiniteSet(accepted) /\ Cardinality(accepted) \in Nat
  BY FS_CardinalityType DEF IInv, Numbered
<1>2. new \in Request
  BY <1>1 DEF IInv, TypeOK, Request
<1>3. new \notin accepted
  BY <1>1 DEF IInv, Numbered
<1>4. /\ IsFiniteSet(accepted \cup {new})
      /\ Cardinality(accepted \cup {new}) = Cardinality(accepted) + 1
  BY <1>1, <1>3, FS_AddElement
<1> QED BY <1>1, <1>2, <1>3, <1>4

LEMMA InitIInv == Init => IInv
<1> SUFFICES ASSUME Init PROVE IInv
  OBVIOUS
<1>1. IsFiniteSet({}) /\ Cardinality({}) = 0
  BY FS_EmptySet
<1> QED BY <1>1 DEF Init, IInv, TypeOK, Remembered, Numbered, Live, Promise!Live

\* A request let through: the client remembers one more, which it had room
\* for; every other client is left alone.
LEMMA AllowIInv ==
  ASSUME IInv, NEW ip \in Clients, Allow(ip)
  PROVE  IInv'
<1> DEFINE new == [ip |-> ip, at |-> clock, n |-> Cardinality(accepted) + 1]
<1>1. /\ new \in Request /\ new \notin accepted
      /\ IsFiniteSet(accepted \cup {new})
      /\ Cardinality(accepted \cup {new}) = Cardinality(accepted) + 1
      /\ Cardinality(accepted) \in Nat
  BY FreshNumber
<1>2. /\ clients' = [clients EXCEPT ![ip] = Valid(ip) \cup {new}]
      /\ accepted' = accepted \cup {new}
      /\ clock' = clock
      /\ Cardinality(Valid(ip)) < MaxReqs
      /\ answers' = [answers EXCEPT ![ip] = "accepted"]
  BY DEF Allow
<1>3. TypeOK'
  BY <1>1, <1>2 DEF IInv, TypeOK, Valid
<1>4. Numbered'
  <2>1. \A r \in accepted : /\ r.n \in Nat /\ r.n <= Cardinality(accepted)
                           /\ r.at <= clock
    BY DEF IInv, TypeOK, Numbered, Request
  <2>2. new.n = Cardinality(accepted) + 1 /\ new.at = clock /\ clock \in Nat
    BY DEF IInv, TypeOK
  <2>3. \A r \in accepted \cup {new} :
          r.n <= Cardinality(accepted) + 1 /\ r.at <= clock
    BY <1>1, <2>1, <2>2
  <2> QED BY <1>1, <1>2, <2>3 DEF Numbered
<1>5. ASSUME NEW c \in Clients
      PROVE  /\ Live(c)' \subseteq clients'[c]
             /\ clients'[c] \subseteq {r \in accepted' : r.ip = c}
             /\ IsFiniteSet(clients'[c])
             /\ Cardinality(clients'[c]) <= MaxReqs
  <2>1. CASE c = ip
    <3>1. clients'[c] = Valid(ip) \cup {new}
      BY <1>2, <2>1 DEF IInv, TypeOK
    <3>2. IsFiniteSet(Valid(ip))
      BY FS_Subset DEF IInv, Remembered, Valid
    <3>3. Valid(ip) \subseteq accepted
      BY DEF IInv, Remembered, Valid
    <3>4. /\ IsFiniteSet(Valid(ip) \cup {new})
          /\ Cardinality(Valid(ip) \cup {new}) = Cardinality(Valid(ip)) + 1
      BY <1>1, <3>2, <3>3, FS_AddElement
    <3>5. Cardinality(Valid(ip)) \in Nat
      BY <3>2, FS_CardinalityType
    <3>6. Live(c)' \subseteq clients'[c]
      BY <1>2, <2>1, <3>1, ValidIsLive DEF Live, Promise!Live
    <3>7. clients'[c] \subseteq {r \in accepted' : r.ip = c}
      BY <1>2, <2>1, <3>1 DEF IInv, Remembered, Valid
    <3>8. Cardinality(Valid(ip)) + 1 <= MaxReqs
      BY <1>2, <3>5
    <3> QED BY <3>1, <3>4, <3>6, <3>7, <3>8
  <2>2. CASE c # ip
    BY <1>2, <2>2 DEF IInv, TypeOK, Remembered, Live, Promise!Live
  <2> QED BY <2>1, <2>2
<1>6. Remembered'
  BY <1>5 DEF Remembered
<1> QED BY <1>3, <1>4, <1>6 DEF IInv

\* Steps that let nothing through may only forget what no longer counts.
LEMMA ForgetIInv ==
  ASSUME IInv, TypeOK', accepted' = accepted, clock' >= clock,
         \A c \in Clients : /\ clients'[c] \subseteq clients[c]
                            /\ Live(c)' \subseteq clients'[c]
  PROVE  IInv'
<1>1. Remembered'
  <2> SUFFICES ASSUME NEW c \in Clients
               PROVE  /\ clients'[c] \subseteq {r \in accepted' : r.ip = c}
                      /\ IsFiniteSet(clients'[c])
                      /\ Cardinality(clients'[c]) <= MaxReqs
    BY DEF Remembered
  <2>1. /\ IsFiniteSet(clients[c])
        /\ Cardinality(clients[c]) <= MaxReqs
        /\ clients[c] \subseteq {r \in accepted : r.ip = c}
    BY DEF IInv, Remembered
  <2> QED BY <2>1, SmallSubset
<1>2. Numbered'
  BY DEF IInv, TypeOK, Numbered, Request
<1> QED BY <1>1, <1>2 DEF IInv

LEMMA RefuseIInv ==
  ASSUME IInv, NEW ip \in Clients, Refuse(ip)
  PROVE  IInv'
<1>1. TypeOK'
  BY DEF IInv, TypeOK, Refuse, Valid
<1>2. \A c \in Clients : clients'[c] = IF c = ip THEN Valid(ip) ELSE clients[c]
  BY DEF IInv, TypeOK, Refuse
<1>3. \A c \in Clients : Live(c)' = Live(c)
  BY DEF Refuse, Live, Promise!Live
<1>4. \A c \in Clients : Live(c)' \subseteq clients'[c]
  BY <1>2, <1>3, ValidIsLive DEF IInv, Remembered
<1>5. \A c \in Clients : clients'[c] \subseteq clients[c]
  BY <1>2 DEF Valid
<1>6. accepted' = accepted /\ clock' >= clock
  BY DEF IInv, TypeOK, Refuse
<1> QED BY <1>1, <1>4, <1>5, <1>6, ForgetIInv

\* This is where CleanAge must not be shorter than the window.
LEMMA CleanupIInv ==
  ASSUME IInv, Cleanup
  PROVE  IInv'
<1>1. TypeOK'
  BY DEF IInv, TypeOK, Cleanup
<1>2. \A c \in Clients : clients'[c] = IF Stale(c) THEN {} ELSE clients[c]
  BY DEF Cleanup
<1>3. \A c \in Clients : Live(c)' = Live(c)
  BY DEF Cleanup, Live, Promise!Live
<1>4. ASSUME NEW c \in Clients
      PROVE  Live(c)' \subseteq clients'[c]
  <2>1. CASE Stale(c)
    <3>1. \A r \in clients[c] : r.at \in Nat /\ r.at < clock - CleanAge
      BY <2>1 DEF Stale, IInv, TypeOK, Request
    <3>2. \A r \in Live(c) : r \in clients[c] /\ r.at > clock - Window
      BY DEF IInv, Remembered, Live, Promise!Live
    <3>3. Live(c) = {}
      BY <3>1, <3>2 DEF IInv, TypeOK
    <3> QED BY <1>3, <3>3
  <2>2. CASE ~Stale(c)
    BY <1>2, <1>3, <2>2 DEF IInv, Remembered
  <2> QED BY <2>1, <2>2
<1>5. \A c \in Clients : clients'[c] \subseteq clients[c]
  BY <1>2
<1>6. accepted' = accepted /\ clock' >= clock
  BY DEF IInv, TypeOK, Cleanup
<1> QED BY <1>1, <1>4, <1>5, <1>6, ForgetIInv

LEMMA TickIInv ==
  ASSUME IInv, Tick
  PROVE  IInv'
<1>1. TypeOK'
  BY DEF IInv, TypeOK, Tick
<1>2. accepted' = accepted /\ clock' >= clock /\ clients' = clients
  BY DEF IInv, TypeOK, Tick
<1>3. \A c \in Clients : Live(c)' \subseteq Live(c)
  <2> SUFFICES ASSUME NEW c \in Clients, NEW r \in Live(c)'
               PROVE  r \in Live(c)
    OBVIOUS
  <2>1. r \in accepted /\ r.ip = c /\ r.at > clock' - Window
    BY <1>2 DEF Live, Promise!Live
  <2>2. r.at \in Nat
    BY <2>1 DEF IInv, TypeOK, Request
  <2> QED BY <1>2, <2>1, <2>2 DEF IInv, TypeOK, Tick, Live, Promise!Live
<1>4. \A c \in Clients : Live(c)' \subseteq clients'[c] /\ clients'[c] \subseteq clients[c]
  BY <1>2, <1>3 DEF IInv, Remembered
<1> QED BY <1>1, <1>2, <1>4, ForgetIInv

LEMMA NextIInv == IInv /\ [Next]_vars => IInv'
<1> SUFFICES ASSUME IInv, [Next]_vars PROVE IInv'
  OBVIOUS
<1>1. ASSUME NEW ip \in Clients, Allow(ip) PROVE IInv'
  BY <1>1, AllowIInv
<1>2. ASSUME NEW ip \in Clients, Refuse(ip) PROVE IInv'
  BY <1>2, RefuseIInv
<1>3. CASE Cleanup
  BY <1>3, CleanupIInv
<1>4. CASE Tick
  BY <1>4, TickIInv
<1>5. CASE UNCHANGED vars
  BY <1>5 DEF vars, IInv, TypeOK, Remembered, Numbered, Live, Promise!Live
<1> QED BY <1>1, <1>2, <1>3, <1>4, <1>5 DEF Next

(***************************************************************************)
(* The limiter's state is always well-typed, remembers what still counts,  *)
(* and never more than MaxReqs timestamps of a client.                     *)
(***************************************************************************)
THEOREM Invariance == Spec => []IInv
<1>1. Init => IInv
  BY InitIInv
<1>2. IInv /\ [Next]_vars => IInv'
  BY NextIInv
<1> QED BY <1>1, <1>2, PTL DEF Spec

(***************************************************************************)
(* No window holds more than MaxReqs requests of one client.               *)
(***************************************************************************)
THEOREM RateIsBounded == Spec => []RateBound
<1>1. IInv => RateBound
  BY SmallSubset DEF IInv, Remembered, RateBound
<1> QED BY <1>1, Invariance, PTL

(***************************************************************************)
(* The limiter implements the sliding window that forgets nothing: it lets *)
(* through and refuses exactly the requests that one would.                *)
(***************************************************************************)
THEOREM Implements == Spec => IsSlidingWindow
<1>1. Init => Promise!Init
  BY DEF Init, Promise!Init
<1>2. IInv /\ [Next]_vars => [Promise!Next]_(Promise!vars)
  <2> SUFFICES ASSUME IInv, [Next]_vars
               PROVE  [Promise!Next]_(Promise!vars)
    OBVIOUS
  <2>1. ASSUME NEW ip \in Clients, Allow(ip)
        PROVE  Promise!Accept(ip)
    <3>1. Valid(ip) = Promise!Live(ip)
      BY ValidIsLive DEF Live
    <3> QED BY <2>1, <3>1 DEF Allow, Promise!Accept, Promise!Answer,
            Cardinality, Promise!Cardinality
  <2>2. ASSUME NEW ip \in Clients, Refuse(ip)
        PROVE  Promise!Reject(ip)
    <3>1. Valid(ip) = Promise!Live(ip)
      BY ValidIsLive DEF Live
    <3> QED BY <2>2, <3>1 DEF Refuse, Promise!Reject, Promise!Answer,
            Cardinality, Promise!Cardinality
  <2>3. CASE Cleanup
    BY <2>3 DEF Cleanup, Promise!vars
  <2>4. CASE Tick
    BY <2>4 DEF Tick, Promise!Tick, Promise!Next
  <2>5. CASE UNCHANGED vars
    BY <2>5 DEF vars, Promise!vars
  <2> QED BY <2>1, <2>2, <2>3, <2>4, <2>5 DEF Next, Promise!Next
<1> QED BY <1>1, <1>2, Invariance, PTL DEF Spec, IsSlidingWindow, Promise!Spec

-----------------------------------------------------------------------------
(***************************************************************************)
(* The Telegram goroutine.                                                 *)
(***************************************************************************)

\* The next update that the server would send or the process would take.
Pending == Larger(Larger(confirmed, offset), 1)

StartTypeOK ==
  /\ offset \in Nat /\ confirmed \in Nat /\ sent \in Nat
  /\ batch \in Seq(Nat) /\ given \in Seq(Nat)

\* The goroutine is started once the agents are loaded.
NotYet == proc \in {"down", "loading"} => tg = "off"

Working == tg \in {"batch", "chatting"}

\* A batch is what comes next, without a gap, and is worked off before the
\* next poll.
BatchOK ==
  /\ \A i \in 1..Len(batch) : batch[i] = Pending + i - 1
  /\ ~Working => batch = <<>>

\* Until ctx is done, what the offset has passed was handled or is being so.
OffsetOK ==
  ~cancelled =>
    \A u \in TextUpdates \cap 1..(offset - 1) :
      u \in handled \/ (tg = "chatting" /\ u = given[Len(given)])

GivenOK ==
  /\ \A i \in 1..Len(given) : given[i] < offset
  /\ tg = "chatting" => given # <<>>

StartInv ==
  /\ StartTypeOK /\ NotYet /\ BatchOK /\ OffsetOK /\ GivenOK
  /\ ConfirmedIsHandled /\ GivenOnceInOrder

-----------------------------------------------------------------------------
LEMMA StartInitOK == StartInit => StartInv
BY DEF StartInit, StartInv, StartTypeOK, NotYet, Working, BatchOK, OffsetOK, GivenOK,
       ConfirmedIsHandled, GivenOnceInOrder

\* Steps that are none of the Telegram goroutine's but may start or end it.
LEMMA OtherStep ==
  ASSUME StartInv, UNCHANGED <<offset, batch, given, confirmed, handled>>, sent' \in Nat,
         tg' = tg \/ (~Working /\ ~Working'),
         cancelled => cancelled', NotYet'
  PROVE  StartInv'
<1>1. StartTypeOK' /\ ConfirmedIsHandled' /\ GivenOnceInOrder'
  BY DEF StartInv, StartTypeOK, ConfirmedIsHandled, GivenOnceInOrder
<1>2. Pending' = Pending
  BY DEF Pending
<1>3. BatchOK'
  BY <1>2 DEF StartInv, BatchOK, Working
<1>4. OffsetOK'
  BY DEF StartInv, OffsetOK, Working
<1>5. GivenOK'
  BY DEF StartInv, GivenOK, Working
<1> QED BY <1>1, <1>3, <1>4, <1>5 DEF StartInv

\* The end of the process: the server's side stays.
LEMMA GoneStep ==
  ASSUME StartInv, NEW how, Gone(how)
  PROVE  StartInv'
<1>1. /\ offset' = 0 /\ batch' = <<>> /\ given' = <<>> /\ tg' = "off"
      /\ UNCHANGED <<sent, confirmed, handled>>
  BY DEF Gone, serverVars
<1>2. StartTypeOK'
  BY <1>1 DEF StartInv, StartTypeOK
<1>3. NotYet' /\ BatchOK' /\ OffsetOK' /\ GivenOK' /\ GivenOnceInOrder'
  BY <1>1 DEF NotYet, BatchOK, Working, OffsetOK, GivenOK, GivenOnceInOrder
<1>4. ConfirmedIsHandled'
  BY <1>1 DEF StartInv, ConfirmedIsHandled
<1> QED BY <1>2, <1>3, <1>4 DEF StartInv

LEMMA LargerOf ==
  ASSUME NEW a \in Nat, NEW b \in Nat
  PROVE  /\ Larger(a, b) \in Nat /\ Larger(a, b) \in {a, b}
         /\ Larger(a, b) >= a /\ Larger(a, b) >= b
BY DEF Larger

\* A poll tells the server the offset, whether its answer comes or not.
LEMMA PollStep ==
  ASSUME StartInv, tg = "top", ~cancelled,
         confirmed' = confirmed \/ confirmed' = Larger(confirmed, offset),
         UNCHANGED handled
  PROVE  ConfirmedIsHandled' /\ confirmed' \in Nat
<1>1. confirmed \in Nat /\ offset \in Nat
  BY DEF StartInv, StartTypeOK
<1>2. confirmed' = confirmed \/ confirmed' = offset
  BY <1>1, LargerOf
<1>3. CASE confirmed' = confirmed
  BY <1>1, <1>3 DEF StartInv, ConfirmedIsHandled
<1>4. CASE confirmed' = offset
  <2>1. \A u \in TextUpdates \cap 1..(offset - 1) : u \in handled
    BY DEF StartInv, OffsetOK
  <2> QED BY <1>1, <1>4, <2>1 DEF ConfirmedIsHandled
<1> QED BY <1>2, <1>3, <1>4

-----------------------------------------------------------------------------
\* The update that is taken is the one after all that were dropped or taken.
LEMMA TakeStep == ASSUME StartInv, Take PROVE StartInv'
<1> DEFINE u == Head(batch)
<1>1. /\ offset \in Nat /\ confirmed \in Nat /\ batch \in Seq(Nat)
      /\ given \in Seq(Nat) /\ sent \in Nat
  BY DEF StartInv, StartTypeOK
<1>2. /\ tg = "batch" /\ batch # <<>>
      /\ offset' = Larger(offset, u + 1) /\ batch' = Tail(batch)
      /\ UNCHANGED <<cancelled, proc, sent, confirmed, handled>>
  BY DEF Take, mainVars, sigVars, serverVars
<1>3. \/ tg' = "chatting" /\ given' = Append(given, u)
      \/ tg' = "batch" /\ given' = given /\ u \notin TextUpdates
  BY <1>2 DEF Take
<1>4. /\ Len(batch) \in Nat /\ Len(batch) >= 1 /\ u = batch[1]
      /\ batch' \in Seq(Nat) /\ Len(batch') = Len(batch) - 1
      /\ \A i \in 1..Len(batch') : batch'[i] = batch[i + 1]
  BY <1>1, <1>2
<1> HIDE DEF u
<1>5. u = Pending
  <2>1. Pending \in Nat
    BY <1>1, LargerOf DEF Pending
  <2>2. 1 \in 1..Len(batch)
    BY <1>4
  <2>3. batch[1] = Pending + 1 - 1
    BY <2>2 DEF StartInv, BatchOK
  <2> QED BY <1>4, <2>1, <2>3
<1>6. u \in Nat /\ u >= 1 /\ u >= offset /\ u >= confirmed
      /\ (u = 1 \/ u = offset \/ u = confirmed)
  <2>1. /\ Larger(confirmed, offset) \in Nat
        /\ Larger(confirmed, offset) \in {confirmed, offset}
        /\ Larger(confirmed, offset) >= confirmed
        /\ Larger(confirmed, offset) >= offset
    BY <1>1, LargerOf
  <2>2. /\ u \in Nat /\ u \in {Larger(confirmed, offset), 1}
        /\ u >= Larger(confirmed, offset) /\ u >= 1
    BY <1>5, <2>1, LargerOf DEF Pending
  <2> QED BY <1>1, <2>1, <2>2
<1>7. offset' = u + 1 /\ Pending' = u + 1
  <2>1. \A a, b \in Nat : a <= b => Larger(a, b) = b
    BY DEF Larger
  <2>2. offset' = u + 1
    BY <1>1, <1>2, <1>6, <2>1
  <2>3. Larger(confirmed', offset') = u + 1
    BY <1>1, <1>2, <1>6, <2>1, <2>2
  <2>4. Larger(u + 1, 1) = u + 1
    BY <1>6 DEF Larger
  <2> QED BY <2>2, <2>3, <2>4 DEF Pending
<1>8. StartTypeOK'
  <2>1. Append(given, u) \in Seq(Nat)
    BY <1>1, <1>6
  <2>2. given' \in Seq(Nat)
    BY <1>1, <1>3, <2>1
  <2>3. offset' \in Nat
    BY <1>6, <1>7
  <2>4. batch' \in Seq(Nat)
    BY <1>4
  <2> QED BY <1>1, <1>2, <2>2, <2>3, <2>4 DEF StartTypeOK
<1>9. NotYet' /\ ConfirmedIsHandled'
  BY <1>2 DEF StartInv, NotYet, ConfirmedIsHandled
<1>10. BatchOK'
  <2>1. ASSUME NEW i \in 1..Len(batch') PROVE batch'[i] = Pending' + i - 1
    <3>1. i \in Nat /\ i + 1 \in 1..Len(batch)
      BY <1>4
    <3>2. batch[i + 1] = u + (i + 1) - 1
      BY <1>5, <3>1 DEF StartInv, BatchOK
    <3> QED BY <1>4, <1>6, <1>7, <3>1, <3>2
  <2> QED BY <1>3, <2>1 DEF BatchOK, Working
<1>11. /\ Len(given) \in Nat /\ Len(given') \in Nat
       /\ tg' = "chatting" => /\ Len(given') = Len(given) + 1
                               /\ given'[Len(given')] = u
                               /\ \A i \in 1..Len(given) : given'[i] = given[i]
  BY <1>1, <1>3
<1>12. OffsetOK'
  <2> SUFFICES ASSUME ~cancelled, NEW v \in TextUpdates, v \in 1..u
               PROVE  v \in handled \/ (tg' = "chatting" /\ v = given'[Len(given')])
    BY <1>2, <1>6, <1>7 DEF OffsetOK
  <2>1. CASE v = u
    BY <1>3, <1>11, <2>1
  <2>2. CASE v < confirmed
    BY <1>1, <2>2 DEF StartInv, ConfirmedIsHandled
  <2>3. CASE v < offset
    BY <1>1, <1>2, <2>3 DEF StartInv, OffsetOK
  <2> QED BY <1>1, <1>6, <2>1, <2>2, <2>3
<1>13. GivenOK' /\ GivenOnceInOrder'
  <2>1. \A i \in 1..Len(given) : given[i] \in Nat /\ given[i] < u
    BY <1>1, <1>6 DEF StartInv, GivenOK
  <2>2. CASE tg' = "batch" /\ given' = given
    BY <1>6, <1>7, <2>1, <2>2 DEF StartInv, GivenOK, GivenOnceInOrder
  <2>3. CASE tg' = "chatting" /\ given' = Append(given, u)
    <3>1. GivenOK'
      BY <1>6, <1>7, <1>11, <2>1, <2>3 DEF GivenOK
    <3>2. GivenOnceInOrder'
      BY <1>11, <2>1, <2>3 DEF StartInv, GivenOnceInOrder
    <3> QED BY <3>1, <3>2
  <2> QED BY <1>3, <2>2, <2>3
<1> QED BY <1>8, <1>9, <1>10, <1>12, <1>13 DEF StartInv

\* A poll's answer begins with the first update that was neither dropped nor
\* taken.
LEMMA AnswerStep == ASSUME StartInv, Poll PROVE StartInv'
<1>1. /\ tg = "top" /\ ~cancelled /\ tg' = "batch"
      /\ confirmed' = Larger(confirmed, offset)
      /\ UNCHANGED <<cancelled, proc, offset, given, sent, handled>>
  BY DEF Poll, mainVars, sigVars
<1>2. /\ offset \in Nat /\ confirmed \in Nat /\ given \in Seq(Nat) /\ sent \in Nat
  BY DEF StartInv, StartTypeOK
<1>3. confirmed' \in Nat /\ ConfirmedIsHandled'
  BY <1>1, PollStep
<1>4. Pending' = Larger(confirmed', 1) /\ Pending' \in Nat /\ Pending' >= 1
  BY <1>1, <1>2 DEF Pending, Larger
<1>5. PICK last \in 0..sent :
        batch' = [i \in 1..(last + 1 - Pending') |-> Pending' + i - 1]
  BY <1>4 DEF Poll
<1> DEFINE n == IF last + 1 - Pending' < 0 THEN 0 ELSE last + 1 - Pending'
<1>6. n \in Nat /\ 1..n = 1..(last + 1 - Pending')
  BY <1>2, <1>4
<1> HIDE DEF n
<1>7. batch' = [i \in 1..n |-> Pending' + i - 1]
  BY <1>5, <1>6
<1>8. \A i \in 1..n : Pending' + i - 1 \in Nat
  BY <1>4, <1>6
<1>9. batch' \in Seq(Nat) /\ Len(batch') = n
  BY <1>6, <1>7, <1>8
<1>10. StartTypeOK'
  BY <1>1, <1>2, <1>3, <1>9 DEF StartTypeOK
<1>11. NotYet' /\ BatchOK'
  BY <1>1, <1>7, <1>9 DEF StartInv, NotYet, BatchOK, Working
<1>12. OffsetOK' /\ GivenOK' /\ GivenOnceInOrder'
  BY <1>1 DEF StartInv, OffsetOK, GivenOK, GivenOnceInOrder
<1> QED BY <1>3, <1>10, <1>11, <1>12 DEF StartInv

LEMMA LostStep == ASSUME StartInv, PollFails PROVE StartInv'
<1>1. /\ tg = "top" /\ ~cancelled /\ tg' = "retrying"
      /\ UNCHANGED <<cancelled, proc, offset, batch, given, sent, handled>>
  BY DEF PollFails, mainVars, sigVars
<1>2. confirmed' \in Nat /\ ConfirmedIsHandled'
  <2>1. confirmed' = confirmed \/ confirmed' = Larger(confirmed, offset)
    BY DEF PollFails
  <2> QED BY <1>1, <2>1, PollStep
<1>3. batch = <<>> /\ StartTypeOK'
  BY <1>1, <1>2 DEF StartInv, BatchOK, Working, StartTypeOK
<1>4. NotYet' /\ BatchOK'
  BY <1>1, <1>3 DEF StartInv, NotYet, BatchOK, Working
<1>5. OffsetOK' /\ GivenOK' /\ GivenOnceInOrder'
  BY <1>1 DEF StartInv, OffsetOK, GivenOK, GivenOnceInOrder
<1> QED BY <1>2, <1>3, <1>4, <1>5 DEF StartInv

\* The answer is sent, and the update is handled.
LEMMA HandledStep == ASSUME StartInv, HandleEnds PROVE StartInv'
<1>1. /\ tg = "chatting" /\ tg' = "batch"
      /\ UNCHANGED <<cancelled, proc, offset, batch, given, sent, confirmed>>
      /\ handled \subseteq handled'
      /\ ~cancelled => given[Len(given)] \in handled'
  BY DEF HandleEnds, mainVars, sigVars, Last
<1>2. StartTypeOK' /\ NotYet' /\ GivenOnceInOrder'
  BY <1>1 DEF StartInv, StartTypeOK, NotYet, GivenOnceInOrder
<1>3. Pending' = Pending
  BY <1>1 DEF Pending
<1>4. BatchOK'
  BY <1>1, <1>3 DEF StartInv, BatchOK, Working
<1>5. OffsetOK'
  BY <1>1 DEF StartInv, OffsetOK
<1>6. GivenOK' /\ ConfirmedIsHandled'
  BY <1>1 DEF StartInv, GivenOK, ConfirmedIsHandled
<1> QED BY <1>2, <1>4, <1>5, <1>6 DEF StartInv

-----------------------------------------------------------------------------
\* One step per action.
LEMMA StartStepOK == StartInv /\ [StartNext]_startVars => StartInv'
<1> SUFFICES ASSUME StartInv, [StartNext]_startVars PROVE StartInv'
  OBVIOUS
<1>1. sent \in Nat /\ NotYet
  BY DEF StartInv, StartTypeOK
<1> USE DEF mainVars, sigVars, tgVars, serverVars, NotYet, Working
<1>2. CASE UNCHANGED startVars
  BY <1>1, <1>2, OtherStep DEF startVars
<1>3. CASE Start \/ LoadAgent
  BY <1>1, <1>3, OtherStep DEF Start, LoadAgent, Running
<1>4. CASE LoadFails \/ Crash \/ Exit
  BY <1>4, GoneStep DEF LoadFails, Crash, Exit
<1>5. CASE StartChannels
  BY <1>1, <1>5, OtherStep DEF StartChannels
<1>6. CASE SetServer \/ Listen
  BY <1>1, <1>6, OtherStep DEF SetServer, Listen
<1>7. CASE ServeReturns \/ CloseStore
  BY <1>1, <1>7, OtherStep DEF ServeReturns, CloseStore
<1>8. CASE Signal \/ ShutDownOther \/ ShutDownGateway
  BY <1>1, <1>8, OtherStep DEF Signal, ShutDownOther, ShutDownGateway
<1>9. CASE Drained \/ CancelContext
  BY <1>1, <1>9, OtherStep DEF Drained, CancelContext
<1>10. ASSUME NEW c \in Apps, Accept(c) \/ ChatEnds(c) PROVE StartInv'
  BY <1>1, <1>10, OtherStep DEF Accept, ChatEnds
<1>11. CASE UserSends
  BY <1>1, <1>11, OtherStep DEF UserSends
<1>12. CASE Verify \/ Retry \/ TelegramEnds
  BY <1>1, <1>12, OtherStep DEF Verify, Retry, TelegramEnds
<1>13. CASE BatchDone
  <2>1. /\ tg = "batch" /\ tg' = "top" /\ batch = <<>>
        /\ UNCHANGED <<cancelled, proc, offset, batch, given, sent, confirmed, handled>>
    BY <1>13 DEF BatchDone
  <2>2. StartTypeOK' /\ NotYet' /\ GivenOnceInOrder' /\ ConfirmedIsHandled'
    BY <2>1 DEF StartInv, StartTypeOK, GivenOnceInOrder, ConfirmedIsHandled
  <2>3. BatchOK' /\ OffsetOK' /\ GivenOK'
    BY <2>1 DEF StartInv, BatchOK, OffsetOK, GivenOK
  <2> QED BY <2>2, <2>3 DEF StartInv
<1>14. CASE Poll \/ PollFails \/ Take \/ HandleEnds
  BY <1>14, AnswerStep, LostStep, TakeStep, HandledStep
<1>15. ASSUME NEW s \in Others, RequestBegins(s) \/ RequestEnds(s) PROVE StartInv'
  BY <1>1, <1>15, OtherStep DEF RequestBegins, RequestEnds
<1> QED BY <1>2, <1>3, <1>4, <1>5, <1>6, <1>7, <1>8, <1>9, <1>10, <1>11, <1>12,
           <1>13, <1>14, <1>15 DEF StartNext, Loading, Serving, SignalSteps, TelegramSteps

LEMMA StartInductive == StartSpec => []StartInv
BY StartInitOK, StartStepOK, PTL DEF StartSpec

(***************************************************************************)
(* An update with a text that Telegram's server has dropped was handled:   *)
(* the offset is told only between batches, when everything below it is    *)
(* handled, and a batch begins where the last one ended.                   *)
(***************************************************************************)
THEOREM NothingDropped == StartSpec => []ConfirmedIsHandled
<1>1. StartInv => ConfirmedIsHandled
  BY DEF StartInv
<1> QED BY <1>1, StartInductive, PTL

(***************************************************************************)
(* One process gives no update to Chat twice, and none out of order.       *)
(***************************************************************************)
THEOREM GivenOnce == StartSpec => []GivenOnceInOrder
<1>1. StartInv => GivenOnceInOrder
  BY DEF StartInv
<1> QED BY <1>1, StartInductive, PTL

-----------------------------------------------------------------------------
(***************************************************************************)
(* The terminal: the keys of a line are folded, so that the line that is   *)
(* edited after ESC is what the keys taken so far make of it, and the keys *)
(* still to be taken are the rest of those pressed after ESC.              *)
(***************************************************************************)
Lines == Seq(Printable)

EditStep == [pair \in Lines \X Keys |-> Edit(pair[1], pair[2])]

LEMMA EditType ==
  ASSUME NEW line \in Lines, NEW key \in Keys
  PROVE  Edit(line, key) \in Lines /\ EditStep[<<line, key>>] = Edit(line, key)
<1>1. /\ key \in Printable => Append(line, key) \in Lines
      /\ line # <<>> => Front(line) \in Lines
      /\ <<>> \in Lines
  BY DEF Lines, Front
<1>2. Edit(line, key) \in Lines
  BY <1>1 DEF Edit
<1>3. EditStep[<<line, key>>] = Edit(line, key)
  BY DEF EditStep
<1> QED BY <1>2, <1>3

LEMMA EditStays ==
  ASSUME NEW s \in Seq(Keys)
  PROVE  FoldStays(Lines, EditStep, <<>>, s)
<1>1. \A line \in Lines : \A n \in 1..Len(s) : EditStep[<<line, s[n]>>] \in Lines
  <2> TAKE line \in Lines
  <2> TAKE n \in 1..Len(s)
  <2>1. s[n] \in Keys
    OBVIOUS
  <2> QED BY <2>1, EditType
<1>2. <<>> \in Lines /\ Len(s) \in Nat
  BY DEF Lines
<1> QED BY <1>1, <1>2 DEF FoldStays

LEMMA EditIsFold ==
  ASSUME NEW s \in Seq(Keys)
  PROVE  FoldLeft(Edit, <<>>, s) = Folded(Lines, EditStep, <<>>, s)
<1> DEFINE g == EditStep
           E(iter) ==
             iter = [t \in SUBSET DOMAIN s |->
                       IF t = {} THEN <<>> ELSE Edit(iter[t \ {Max(t)}], s[Max(t)])]
           c == CHOOSE iter : E(iter)
<1>1. DOMAIN s = 1..Len(s) /\ Len(s) \in Nat
  OBVIOUS
<1>2. FoldLeft(Edit, <<>>, s) = c[DOMAIN s]
  BY DEF FoldLeft, MapThenFoldSet
<1> HIDE DEF g
<1>3. FoldStays(Lines, g, <<>>, s)
  BY EditStays DEF g
<1>4. \E iter : E(iter)
  <2>1. PICK h \in [SUBSET (1..Len(s)) -> Lines] : SetFold(h, g, <<>>, s)
    BY <1>3, SetFoldExists
  <2>2. ASSUME NEW t \in SUBSET DOMAIN s, t # {}
        PROVE  h[t] = Edit(h[t \ {Max(t)}], s[Max(t)])
    <3>1. Max(t) \in 1..Len(s)
      BY <1>1, <2>2, MaxIn
    <3>2. s[Max(t)] \in Keys /\ h[t \ {Max(t)}] \in Lines
      BY <1>1, <3>1
    <3>3. h[t] = g[<<h[t \ {Max(t)}], s[Max(t)]>>]
      BY <1>1, <2>1, <2>2 DEF SetFold
    <3> QED BY <3>2, <3>3, EditType DEF g
  <2>3. h[{}] = <<>>
    BY <2>1 DEF SetFold
  <2>4. E(h)
    BY <1>1, <2>2, <2>3
  <2> QED BY <2>4
<1>5. E(c)
  BY <1>4
<1> HIDE DEF c
<1>6. c[{}] = <<>>
  BY <1>5
<1>7. ASSUME NEW n \in 1..Len(s), c[1..(n - 1)] \in Lines
      PROVE  c[1..n] = g[<<c[1..(n - 1)], s[n]>>]
  <2>1. n \in Nat /\ n # 0
    BY <1>1
  <2>2. Max(1..n) = n /\ (1..n) \ {n} = 1..(n - 1) /\ 1..n # {}
    BY <2>1, MaxOfFirst
  <2>3. 1..n \in SUBSET DOMAIN s
    BY <1>1
  <2>4. c[1..n] = Edit(c[(1..n) \ {Max(1..n)}], s[Max(1..n)])
    BY <1>5, <2>2, <2>3, Zenon
  <2>5. c[1..n] = Edit(c[1..(n - 1)], s[n])
    BY <2>2, <2>4
  <2>6. s[n] \in Keys
    OBVIOUS
  <2> QED BY <1>7, <2>5, <2>6, EditType DEF g
<1> HIDE DEF E
<1>8. c[1..Len(s)] = Folded(Lines, g, <<>>, s)
  <2>1. SetSteps(c, Lines, g, <<>>, s)
    BY <1>6, <1>7 DEF SetSteps
  <2> QED BY <1>3, <2>1, SetFoldIs
<1> QED BY <1>1, <1>2, <1>8 DEF g

\* The line that the first n keys make.
LineOf(s, n) == FoldLeft(Edit, <<>>, SubSeq(s, 1, n))

LEMMA FirstKeys ==
  ASSUME NEW s \in Seq(Keys), NEW n \in 0..Len(s)
  PROVE  /\ SubSeq(s, 1, n) \in Seq(Keys) /\ Len(SubSeq(s, 1, n)) = n
         /\ \A i \in 1..n : SubSeq(s, 1, n)[i] = s[i]
OBVIOUS

LEMMA NoKeys == ASSUME NEW s \in Seq(Keys) PROVE LineOf(s, 0) = <<>>
<1>1. SubSeq(s, 1, 0) = <<>> /\ <<>> \in Seq(Keys) /\ <<>> \in Lines
  BY DEF Lines
<1>2. FoldLeft(Edit, <<>>, <<>>) = Folded(Lines, EditStep, <<>>, <<>>)
  BY <1>1, EditIsFold
<1> QED BY <1>1, <1>2, FoldedNone DEF LineOf

\* One key more.
LEMMA NextKey ==
  ASSUME NEW s \in Seq(Keys), NEW n \in 0..Len(s), n + 1 \in 0..Len(s)
  PROVE  LineOf(s, n + 1) = Edit(LineOf(s, n), s[n + 1])
<1> DEFINE a == SubSeq(s, 1, n)
           b == SubSeq(s, 1, n + 1)
           x == s[n + 1]
<1>1. a \in Seq(Keys) /\ Len(a) = n /\ (\A i \in 1..n : a[i] = s[i]) /\ n \in Nat
  BY FirstKeys
<1>2. b \in Seq(Keys) /\ Len(b) = n + 1 /\ \A i \in 1..(n + 1) : b[i] = s[i]
  BY FirstKeys
<1>3. x \in Keys
  BY <1>1
<1> HIDE DEF a, b
<1>4. IsAppend(b, a, x)
  BY <1>1, <1>2 DEF IsAppend
<1> HIDE DEF x
<1>5. FoldStays(Lines, EditStep, <<>>, a) /\ FoldStays(Lines, EditStep, <<>>, b)
  BY <1>1, <1>2, EditStays
<1>6. FoldGrows(Lines, EditStep, <<>>, a, x, b)
  BY <1>4, <1>5, FoldedAppend
<1>7. Folded(Lines, EditStep, <<>>, a) \in Lines
  BY <1>5, FoldedType
<1>8. EditStep[<<Folded(Lines, EditStep, <<>>, a), x>>]
        = Edit(Folded(Lines, EditStep, <<>>, a), x)
  BY <1>3, <1>7, EditType
<1>9. /\ FoldLeft(Edit, <<>>, a) = Folded(Lines, EditStep, <<>>, a)
      /\ FoldLeft(Edit, <<>>, b) = Folded(Lines, EditStep, <<>>, b)
  BY <1>1, <1>2, EditIsFold
<1>10. FoldLeft(Edit, <<>>, b) = Edit(FoldLeft(Edit, <<>>, a), x)
  BY <1>6, <1>8, <1>9 DEF FoldGrows
<1> QED BY <1>10 DEF LineOf, a, b, x

\* A key pressed later is of no matter.
LEMMA LaterKey ==
  ASSUME NEW s \in Seq(Keys), NEW key \in Keys, NEW n \in 0..Len(s)
  PROVE  LineOf(Append(s, key), n) = LineOf(s, n)
<1>1. SubSeq(Append(s, key), 1, n) = SubSeq(s, 1, n)
  OBVIOUS
<1> QED BY <1>1 DEF LineOf

-----------------------------------------------------------------------------
\* The first n keys of those meant for the type-ahead loop are taken.
TakenUpTo(n) ==
  /\ buf = LineOf(meant, n)
  /\ \A i \in 1..n : meant[i] # "enter"

\* Until ESC takes effect no key is taken, unless a prompt was waiting.
AheadInv ==
  /\ bytesCh \in Seq(Keys) /\ meant \in Seq(Keys)
  /\ mode \in {"query", "pausing"} => buf = <<>>
  /\ mode \in {"ahead", "waiting"} => paused
  /\ ~prompt =>
       /\ mode \in {"pausing", "ahead", "waiting"} => chat # "asking"
       /\ mode = "pausing" => meant = bytesCh
       /\ mode = "ahead" =>
            \E n \in 0..Len(meant) :
              TakenUpTo(n) /\ bytesCh = SubSeq(meant, n + 1, Len(meant))
       /\ mode = "waiting" =>
            \E n \in 0..Len(meant) :
              TakenUpTo(n) /\ n < Len(meant) /\ meant[n + 1] = "enter"

LEMMA ChatInitInv == ChatInit => AheadInv
BY DEF ChatInit, AheadInv

\* A key is taken: the rest stays.
LEMMA TakesType ==
  ASSUME AheadInv, NEW key \in Keys, Takes(key)
  PROVE  /\ bytesCh' \in Seq(Keys) /\ bytesCh # <<>>
         /\ key = Head(bytesCh) /\ bytesCh' = Tail(bytesCh)
BY DEF AheadInv, Takes

\* The keys that are still to be taken, and one pressed now.
LEMMA RestKeys ==
  ASSUME NEW s \in Seq(Keys), NEW key \in Keys, NEW n \in 0..Len(s)
  PROVE  Append(SubSeq(s, n + 1, Len(s)), key)
           = SubSeq(Append(s, key), n + 1, Len(Append(s, key)))
<1> DEFINE a == Append(SubSeq(s, n + 1, Len(s)), key)
           t == Append(s, key)
           b == SubSeq(t, n + 1, Len(t))
           k == Len(s) - n
<1>1. Len(s) \in Nat /\ n \in Nat /\ k \in Nat /\ n + k = Len(s)
  OBVIOUS
<1>2. /\ t \in Seq(Keys) /\ Len(t) = Len(s) + 1 /\ t[Len(s) + 1] = key
      /\ \A i \in 1..Len(s) : t[i] = s[i]
  BY <1>1
<1> HIDE DEF t
<1>3. b \in Seq(Keys) /\ Len(b) = k + 1 /\ \A i \in 1..(k + 1) : b[i] = t[n + i]
  <2>1. /\ n + 1 \in 1..(Len(t) + 1) /\ Len(t) \in Nat
        /\ Len(t) - (n + 1) + 1 = k + 1
    BY <1>1, <1>2
  <2> HIDE DEF k
  <2>2. b = [i \in 1..(k + 1) |-> t[i + (n + 1) - 1]]
    <3>1. b = [i \in 1..(Len(t) - (n + 1) + 1) |-> t[i + (n + 1) - 1]]
      OBVIOUS
    <3> QED BY <2>1, <3>1
  <2>3. \A i \in 1..(k + 1) : i + (n + 1) - 1 = n + i /\ n + i \in 1..Len(t)
    BY <1>1, <1>2
  <2>4. \A i \in 1..(k + 1) : b[i] = t[n + i] /\ t[n + i] \in Keys
    BY <1>2, <2>2, <2>3
  <2> HIDE DEF b
  <2>5. k + 1 \in Nat /\ \A i \in 1..(k + 1) : b[i] \in Keys
    BY <1>1, <2>4
  <2>6. b \in Seq(Keys) /\ Len(b) = k + 1
    <3> HIDE DEF Keys
    <3> QED BY <2>2, <2>4, <2>5
  <2> QED BY <2>4, <2>6
<1>4. a \in Seq(Keys) /\ Len(a) = k + 1 /\ a[k + 1] = key
      /\ \A i \in 1..k : a[i] = s[n + i]
  BY <1>1
<1> HIDE DEF a, b
<1>5. ASSUME NEW i \in 1..(k + 1) PROVE a[i] = b[i]
  <2>1. CASE i = k + 1
    BY <1>1, <1>2, <1>3, <1>4, <2>1
  <2>2. CASE i # k + 1
    <3>1. i \in 1..k /\ n + i \in 1..Len(s)
      BY <1>1, <2>2
    <3> HIDE DEF k
    <3>2. a[i] = s[n + i] /\ b[i] = t[n + i] /\ t[n + i] = s[n + i]
      BY <1>2, <1>3, <1>4, <3>1
    <3> QED BY <3>2
  <2> QED BY <2>1, <2>2
<1> HIDE DEF k
<1>6. a = b
  BY <1>1, <1>3, <1>4, <1>5
<1> QED BY <1>6 DEF a, b, t

LEMMA PressStep ==
  ASSUME AheadInv, NEW key \in Keys, Press(key)
  PROVE  AheadInv'
<1>1. /\ bytesCh' = Append(bytesCh, key) /\ bytesCh \in Seq(Keys) /\ meant \in Seq(Keys)
      /\ meant' = (IF mode \in {"pausing", "ahead"} THEN Append(meant, key) ELSE meant)
      /\ UNCHANGED <<mode, buf, chat, paused, prompt>>
  BY DEF Press, AheadInv
<1>2. bytesCh' \in Seq(Keys) /\ meant' \in Seq(Keys)
  BY <1>1
<1>3. ASSUME ~prompt, mode = "ahead"
      PROVE  \E n \in 0..Len(meant') :
               TakenUpTo(n)' /\ bytesCh' = SubSeq(meant', n + 1, Len(meant'))
  <2>1. PICK n \in 0..Len(meant) :
          TakenUpTo(n) /\ bytesCh = SubSeq(meant, n + 1, Len(meant))
    BY <1>3 DEF AheadInv
  <2>2. meant' = Append(meant, key) /\ Len(meant') = Len(meant) + 1 /\ Len(meant) \in Nat
        /\ \A i \in 1..Len(meant) : meant'[i] = meant[i]
    BY <1>1, <1>3
  <2>3. LineOf(meant', n) = LineOf(meant, n)
    BY <1>1, <2>2, LaterKey
  <2>4. TakenUpTo(n)'
    <3>1. \A i \in 1..n : meant'[i] # "enter"
      BY <2>1, <2>2 DEF TakenUpTo
    <3> QED BY <1>1, <2>1, <2>3, <3>1 DEF TakenUpTo
  <2>5. bytesCh' = SubSeq(meant', n + 1, Len(meant'))
    <3>1. Append(SubSeq(meant, n + 1, Len(meant)), key)
            = SubSeq(Append(meant, key), n + 1, Len(Append(meant, key)))
      BY <1>1, <2>1, RestKeys
    <3> QED BY <1>1, <2>1, <2>2, <3>1
  <2> n \in 0..Len(meant')
    BY <2>2
  <2> WITNESS n \in 0..Len(meant')
  <2> QED BY <2>4, <2>5
<1>4. ASSUME ~prompt, mode = "waiting"
      PROVE  \E n \in 0..Len(meant') :
               TakenUpTo(n)' /\ n < Len(meant') /\ meant'[n + 1] = "enter"
  <2>1. PICK n \in 0..Len(meant) :
          TakenUpTo(n) /\ n < Len(meant) /\ meant[n + 1] = "enter"
    BY <1>4 DEF AheadInv
  <2>2. TakenUpTo(n)' /\ meant' = meant
    BY <1>1, <1>4, <2>1 DEF TakenUpTo
  <2> QED BY <2>1, <2>2
<1>5. ~prompt /\ mode = "pausing" => meant' = bytesCh'
  BY <1>1 DEF AheadInv
<1> QED BY <1>1, <1>2, <1>3, <1>4, <1>5 DEF AheadInv

\* What does not touch the line or the keys meant for it.
LEMMA SameAhead ==
  ASSUME AheadInv, UNCHANGED <<buf, meant, prompt>>
  PROVE  /\ ~prompt /\ mode = "ahead" /\ bytesCh' = bytesCh =>
              \E n \in 0..Len(meant) :
                TakenUpTo(n)' /\ bytesCh' = SubSeq(meant', n + 1, Len(meant'))
         /\ ~prompt /\ mode = "waiting" =>
              \E n \in 0..Len(meant) :
                TakenUpTo(n)' /\ n < Len(meant') /\ meant'[n + 1] = "enter"
BY DEF AheadInv, TakenUpTo

\* Steps of the chat and of the prompt, and those that leave the loop.
LEMMA OutsideStep ==
  ASSUME AheadInv,
         \/ HangUp \/ Ask \/ Finish \/ LineClosed \/ Result \/ QueryClosed \/ Cancelled
         \/ AnswerNone \/ (\E key \in Keys : AnswerKey(key)) \/ UNCHANGED chatVars
  PROVE  AheadInv'
<1>1. CASE HangUp \/ Finish \/ AnswerNone \/ UNCHANGED chatVars
  <2>1. UNCHANGED <<bytesCh, mode, buf, paused, meant, prompt>>
    BY <1>1 DEF HangUp, Finish, AnswerNone, Closed, keyVars, chatVars
  <2>2. chat' = "asking" => chat = "asking"
    BY <1>1 DEF HangUp, Finish, AnswerNone, chatVars
  <2> QED BY <2>1, <2>2, SameAhead DEF AheadInv
<1>2. CASE Ask
  <2>1. /\ UNCHANGED <<bytesCh, mode, buf, paused, meant>> /\ ~paused
        /\ prompt' = (prompt \/ mode = "pausing")
    BY <1>2 DEF Ask, keyVars
  <2>2. mode \notin {"ahead", "waiting"}
    BY <2>1 DEF AheadInv
  <2> QED BY <2>1, <2>2 DEF AheadInv
<1>3. CASE LineClosed \/ Result \/ QueryClosed \/ Cancelled
  <2>1. mode' \in {"quit", "line", "cancelling"} /\ UNCHANGED <<bytesCh, meant>>
    BY <1>3 DEF LineClosed, Result, QueryClosed, Cancelled, Closed, keyVars
  <2> QED BY <2>1 DEF AheadInv
<1>4. ASSUME NEW key \in Keys, AnswerKey(key) PROVE AheadInv'
  <2>1. /\ UNCHANGED <<mode, buf, paused, meant, prompt>> /\ chat = "asking"
        /\ chat' = "running" /\ bytesCh' \in Seq(Keys)
    BY <1>4, TakesType DEF AnswerKey
  <2> QED BY <2>1, SameAhead DEF AheadInv
<1> QED BY <1>1, <1>2, <1>3, <1>4

LEMMA LineKeyStep ==
  ASSUME AheadInv, NEW key \in Keys, LineKey(key)
  PROVE  AheadInv'
<1>1. bytesCh' \in Seq(Keys) /\ UNCHANGED <<meant, prompt>> /\ mode = "line"
  BY TakesType DEF LineKey
<1>2. mode' \in {"line", "quit"} \/ (mode' = "query" /\ buf' = <<>>)
  BY DEF LineKey, Submit
<1> QED BY <1>1, <1>2 DEF AheadInv

LEMMA QueryKeyStep ==
  ASSUME AheadInv, NEW key \in Keys, QueryKey(key)
  PROVE  AheadInv'
<1>1. bytesCh' \in Seq(Keys) /\ UNCHANGED <<buf, chat>> /\ mode = "query" /\ buf = <<>>
  BY TakesType DEF QueryKey, AheadInv
<1>2. \/ mode' = "cancelling" /\ meant' = meant
      \/ mode' = "query" /\ meant' = meant
      \/ mode' = "pausing" /\ meant' = bytesCh' /\ prompt' = (chat = "asking")
  BY <1>1 DEF QueryKey
<1> QED BY <1>1, <1>2 DEF AheadInv

LEMMA PauseStep == ASSUME AheadInv, Pause PROVE AheadInv'
<1>1. /\ UNCHANGED <<bytesCh, buf, chat, meant, prompt>> /\ paused' /\ mode' = "ahead"
      /\ buf = <<>> /\ bytesCh \in Seq(Keys) /\ meant \in Seq(Keys)
      /\ ~prompt => meant = bytesCh /\ chat # "asking"
  BY DEF Pause, keyVars, AheadInv
<1>2. Len(meant) \in Nat /\ 0 \in 0..Len(meant) /\ SubSeq(meant, 0 + 1, Len(meant)) = meant
  BY <1>1
<1>3. TakenUpTo(0)'
  BY <1>1, NoKeys DEF TakenUpTo
<1> QED BY <1>1, <1>2, <1>3 DEF AheadInv

LEMMA AheadKeyStep ==
  ASSUME AheadInv, NEW key \in Keys, AheadKey(key)
  PROVE  AheadInv'
<1>1. /\ bytesCh' \in Seq(Keys) /\ bytesCh # <<>> /\ bytesCh \in Seq(Keys)
      /\ key = Head(bytesCh) /\ bytesCh' = Tail(bytesCh) /\ mode = "ahead"
      /\ UNCHANGED <<chat, paused, meant, prompt>>
      /\ meant \in Seq(Keys) /\ paused
  BY TakesType DEF AheadKey, AheadInv
<1>2. \/ key = "enter" /\ mode' = "waiting" /\ buf' = buf
      \/ mode' = "cancelling"
      \/ key # "enter" /\ mode' = "ahead" /\ buf' = Edit(buf, key)
  BY <1>1 DEF AheadKey
<1>3. ASSUME ~prompt, mode' # "cancelling" PROVE AheadInv'
  <2>1. PICK n \in 0..Len(meant) :
          TakenUpTo(n) /\ bytesCh = SubSeq(meant, n + 1, Len(meant))
    BY <1>1, <1>3 DEF AheadInv
  <2>2. Len(meant) \in Nat /\ n \in Nat /\ n < Len(meant) /\ meant[n + 1] = key
        /\ bytesCh' = SubSeq(meant, n + 2, Len(meant))
    BY <1>1, <2>1
  <2> DEFINE k == n + 1
  <2>3. k \in 0..Len(meant) /\ n + 2 = k + 1
    BY <2>2
  <2>4. CASE key = "enter" /\ mode' = "waiting" /\ buf' = buf
    <3>1. TakenUpTo(n)'
      BY <1>1, <2>1, <2>4 DEF TakenUpTo
    <3> QED BY <1>1, <1>3, <2>1, <2>2, <2>4, <3>1 DEF AheadInv
  <2>5. CASE key # "enter" /\ mode' = "ahead" /\ buf' = Edit(buf, key)
    <3>1. buf' = LineOf(meant, k)
      BY <1>1, <2>1, <2>2, <2>3, <2>5, NextKey DEF TakenUpTo
    <3>2. \A i \in 1..k : meant[i] # "enter"
      BY <2>1, <2>2, <2>5 DEF TakenUpTo
    <3> HIDE DEF k
    <3>3. TakenUpTo(k)'
      BY <1>1, <3>1, <3>2 DEF TakenUpTo
    <3> QED BY <1>1, <1>3, <2>2, <2>3, <2>5, <3>3 DEF AheadInv
  <2> QED BY <1>2, <1>3, <2>4, <2>5
<1>4. CASE prompt \/ mode' = "cancelling"
  BY <1>1, <1>2, <1>4 DEF AheadInv
<1> QED BY <1>3, <1>4

LEMMA AheadStep == ASSUME AheadInv, Ahead PROVE AheadInv'
<1>1. mode' \in {"line", "quit", "query"} /\ buf' = <<>> /\ UNCHANGED <<bytesCh, meant>>
  BY DEF Ahead, Submit, keyVars
<1> QED BY <1>1 DEF AheadInv

LEMMA ChatNextInv == AheadInv /\ [ChatNext]_chatVars => AheadInv'
<1> SUFFICES ASSUME AheadInv, [ChatNext]_chatVars PROVE AheadInv'
  OBVIOUS
<1> QED BY PressStep, OutsideStep, LineKeyStep, QueryKeyStep, PauseStep, AheadKeyStep,
           AheadStep DEF ChatNext, Loop, Prompt

\* The line that was typed up to the first Enter is the one being edited.
LEMMA EditedIsTyped ==
  ASSUME AheadInv, mode = "waiting", ~prompt
  PROVE  buf = Typed
<1>1. PICK n \in 0..Len(meant) :
        TakenUpTo(n) /\ n < Len(meant) /\ meant[n + 1] = "enter"
  BY DEF AheadInv
<1>2. meant \in Seq(Keys) /\ Len(meant) \in Nat /\ n \in Nat
  BY DEF AheadInv
<1> DEFINE enters == {i \in 1..Len(meant) : meant[i] = "enter"}
<1>3. n + 1 \in enters /\ \A i \in enters : n + 1 <= i
  BY <1>1, <1>2 DEF TakenUpTo
<1>4. Min(enters) = n + 1
  <2>1. \A i \in enters : i \in Nat
    BY <1>2
  <2> HIDE DEF enters
  <2> QED BY <1>2, <1>3, <2>1 DEF Min
<1>5. enters # {} /\ Min(enters) - 1 = n
  BY <1>2, <1>3, <1>4
<1> HIDE DEF enters
<1>6. Typed = FoldLeft(Edit, <<>>, SubSeq(meant, 1, Min(enters) - 1))
  BY <1>5 DEF Typed, enters
<1>7. Typed = LineOf(meant, n)
  BY <1>5, <1>6 DEF LineOf
<1> QED BY <1>1, <1>7 DEF TakenUpTo

\* For keys and channel of any size: what is typed after ESC, edited, is the
\* line the next chat is given, unless a prompt was waiting for a key.
THEOREM AheadIsKept == ChatSpec => TypedAheadKept
<1>1. AheadInv /\ [ChatNext]_chatVars
        => [mode = "waiting" /\ mode' = "query" /\ ~prompt => input' = Typed]_chatVars
  <2> SUFFICES ASSUME AheadInv, ChatNext, mode = "waiting", mode' = "query", ~prompt
               PROVE  input' = Typed
    OBVIOUS
  <2>1. Ahead
    BY DEF ChatNext, Loop, Prompt, HangUp, Ask, Finish, LineClosed, Result, Pause,
           QueryClosed, Cancelled, LineKey, QueryKey, AheadKey, AnswerNone, AnswerKey, Press
  <2>2. input' = buf
    BY <2>1 DEF Ahead, Submit
  <2> QED BY <2>2, EditedIsTyped
<1> QED BY <1>1, ChatInitInv, ChatNextInv, PTL DEF ChatSpec, TypedAheadKept
=============================================================================
