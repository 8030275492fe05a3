--------------------------- MODULE SlidingWindow ---------------------------
(***************************************************************************)
(* What the gateway's rate limiter promises: a client's request is let     *)
(* through exactly when fewer than MaxReqs of its requests were let        *)
(* through in the window that ends now.  This specification remembers      *)
(* every request it ever let through; the limiter must not need to.        *)
(***************************************************************************)
EXTENDS Integers, FiniteSets

CONSTANTS
  Clients,  \* client addresses
  Window,   \* length of the window: one minute
  MaxReqs,  \* requests let through in a window
  MaxTime   \* bound: the clock stops here

VARIABLES
  clock,     \* the time now
  accepted,  \* the requests let through, each with its number
  answers    \* what each client's last request was told

vars == <<clock, accepted, answers>>

Request == [ip : Clients, at : Nat, n : Nat]

\* The requests of ip let through in the window ending now.
Live(ip) == {r \in accepted : r.ip = ip /\ r.at > clock - Window}

Init ==
  /\ clock = 0
  /\ accepted = {}
  /\ answers = [ip \in Clients |-> "none"]

Answer(ip, told) == answers' = [answers EXCEPT ![ip] = told]

Accept(ip) ==
  /\ Cardinality(Live(ip)) < MaxReqs
  /\ accepted' = accepted \cup
       {[ip |-> ip, at |-> clock, n |-> Cardinality(accepted) + 1]}
  /\ Answer(ip, "accepted")
  /\ UNCHANGED clock

Reject(ip) ==
  /\ Cardinality(Live(ip)) >= MaxReqs
  /\ Answer(ip, "rejected")
  /\ UNCHANGED <<clock, accepted>>

Tick ==
  /\ clock < MaxTime
  /\ clock' = clock + 1
  /\ UNCHANGED <<accepted, answers>>

Next == (\E ip \in Clients : Accept(ip) \/ Reject(ip)) \/ Tick

Spec == Init /\ [][Next]_vars
=============================================================================
