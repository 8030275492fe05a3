----------------------------- MODULE MCSmithly -----------------------------
(***************************************************************************)
(* Model checking of the program as its user starts it: `smithly start`    *)
(* (Controller) or `smithly chat` (Terminal), each behaviour the one that  *)
(* command says.  The limiter in front of the gateway's handlers           *)
(* (RateLimiter) decides alone, under its own mutex; the behaviours about  *)
(* it are a third kind.                                                    *)
(***************************************************************************)
EXTENDS RateLimiter, Controller, Terminal

VARIABLE command

SmithlyInit ==
  /\ command \in {"start", "chat", "limiter"}
  /\ Init /\ StartInit /\ ChatInit

SmithlyNext ==
  \/ command = "limiter" /\ Next /\ UNCHANGED <<command, startVars, chatVars>>
  \/ command = "start" /\ StartNext /\ UNCHANGED <<command, vars, chatVars>>
  \/ command = "chat" /\ ChatNext /\ UNCHANGED <<command, vars, startVars>>

\* (What the other command would have to do is never enabled.)
SmithlySpec ==
  /\ SmithlyInit /\ [][SmithlyNext]_<<command, vars, startVars, chatVars>>
  /\ StartFairness /\ ChatFairness

MCExitLine == <<"q">>
=============================================================================
