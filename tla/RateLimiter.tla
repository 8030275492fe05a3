---------------------------- MODULE RateLimiter ----------------------------
(***************************************************************************)
(* The gateway's rate limiter (internal/gateway/ratelimit.go).  One mutex  *)
(* covers allow and cleanup, so each is one step, in any order and at any  *)
(* time.  A client's timestamps are kept as the requests they stand for:   *)
(* two requests at one reading of the clock are two timestamps.  They are  *)
(* appended as the clock advances, so the last one is the newest.          *)
(***************************************************************************)
EXTENDS Integers, FiniteSets

CONSTANTS
  Clients,   \* client addresses
  Window,    \* rateLimiter.window: one minute
  MaxReqs,   \* rateLimiter.maxReqs: positive, else there is no limiter
  CleanAge,  \* rateLimiter.cleanAge: five minutes
  MaxTime    \* bound: the clock stops here

ASSUME LimiterAssumption ==
  /\ Window \in Nat \ {0}
  /\ MaxReqs \in Nat \ {0}
  /\ CleanAge \in Nat /\ CleanAge >= Window
  /\ MaxTime \in Nat

VARIABLES
  clients,   \* each client's timestamps; {} also for one not in the map
  clock,     \* the time now
  accepted,  \* history: the requests let through, numbered
  answers    \* what each client's last request was told

vars == <<clients, clock, accepted, answers>>

Request == [ip : Clients, at : Nat, n : Nat]

TypeOK ==
  /\ clients \in [Clients -> SUBSET Request]
  /\ clock \in Nat
  /\ accepted \in SUBSET Request
  /\ answers \in [Clients -> {"none", "accepted", "rejected"}]

Init ==
  /\ clients = [ip \in Clients |-> {}]
  /\ clock = 0
  /\ accepted = {}
  /\ answers = [ip \in Clients |-> "none"]

\* Mutant: a timestamp is dropped one reading of the clock early.
ValidShort(ip) == {r \in clients[ip] : r.at > clock - Window + 1}

\* The timestamps after the cutoff.
Valid(ip) == {r \in clients[ip] : r.at > clock - Window}

\* allow: drop what left the window, then count and append, or refuse.
Allow(ip) ==
  LET new == [ip |-> ip, at |-> clock, n |-> Cardinality(accepted) + 1]
  IN  /\ Cardinality(Valid(ip)) < MaxReqs
      /\ clients' = [clients EXCEPT ![ip] = Valid(ip) \cup {new}]
      /\ accepted' = accepted \cup {new}
      /\ answers' = [answers EXCEPT ![ip] = "accepted"]
      /\ UNCHANGED clock

\* Mutant: a refused request counts too.
RefuseCounts(ip) ==
  /\ Cardinality(Valid(ip)) >= MaxReqs
  /\ clients' = [clients EXCEPT ![ip] =
                   Valid(ip) \cup {[ip |-> ip, at |-> clock, n |-> 0]}]
  /\ answers' = [answers EXCEPT ![ip] = "rejected"]
  /\ UNCHANGED <<clock, accepted>>

Refuse(ip) ==
  /\ Cardinality(Valid(ip)) >= MaxReqs
  /\ clients' = [clients EXCEPT ![ip] = Valid(ip)]
  /\ answers' = [answers EXCEPT ![ip] = "rejected"]
  /\ UNCHANGED <<clock, accepted>>

\* cleanup: forget the clients whose newest timestamp is older than CleanAge.
Stale(ip) == \A r \in clients[ip] : r.at < clock - CleanAge

Cleanup ==
  /\ clients' = [ip \in Clients |-> IF Stale(ip) THEN {} ELSE clients[ip]]
  /\ UNCHANGED <<clock, accepted, answers>>

Tick ==
  /\ clock < MaxTime
  /\ clock' = clock + 1
  /\ UNCHANGED <<clients, accepted, answers>>

Next == (\E ip \in Clients : Allow(ip) \/ Refuse(ip)) \/ Cleanup \/ Tick

Spec == Init /\ [][Next]_vars

-----------------------------------------------------------------------------
\* What the limiter promises, with every request remembered.
Promise == INSTANCE SlidingWindow

Live(ip) == Promise!Live(ip)

(***************************************************************************)
(* However requests and cleanups interleave, no window holds more than     *)
(* MaxReqs requests of one client: neither pruning nor cleanup forgets a   *)
(* request that still counts.                                              *)
(***************************************************************************)
RateBound == \A ip \in Clients : Cardinality(Live(ip)) <= MaxReqs

(***************************************************************************)
(* A client is refused only if its window is full of requests it really    *)
(* made, and let through otherwise: the limiter is the sliding window.     *)
(***************************************************************************)
IsSlidingWindow == Promise!Spec

-----------------------------------------------------------------------------
\* The inductive invariant: what still counts is still remembered, what is
\* remembered was let through, and there is never too much of it.
Remembered ==
  \A ip \in Clients :
    /\ Live(ip) \subseteq clients[ip]
    /\ clients[ip] \subseteq {r \in accepted : r.ip = ip}
    /\ IsFiniteSet(clients[ip])
    /\ Cardinality(clients[ip]) <= MaxReqs

Numbered ==
  /\ IsFiniteSet(accepted)
  /\ \A r \in accepted : r.n <= Cardinality(accepted) /\ r.at <= clock

IInv == TypeOK /\ Remembered /\ Numbered
=============================================================================
