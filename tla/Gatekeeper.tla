----------------------------- MODULE Gatekeeper -----------------------------
(***************************************************************************)
(* The domain allowlist (internal/gatekeeper, the domain_allowlist table)  *)
(* under everybody who uses it at once: the proxy's requests in the        *)
(* controller, `smithly domain allow|deny`, and `smithly skill add`, which *)
(* are processes of their own on the same database.  Each SQL statement is *)
(* one step; between two of them the others get in.                        *)
(*                                                                         *)
(* Both places that make a gatekeeper give it no approval callback, so an  *)
(* unknown domain that is no default is denied.                            *)
(***************************************************************************)
EXTENDS Integers, FiniteSets

CONSTANTS
  Requests,  \* requests of the proxy, each any number of times
  Seeders,   \* `smithly skill add`, for any domains one after another
  Domains,   \* normalized host names
  Defaults,  \* defaultDomains
  MaxCount   \* bound: accesses counted per domain

ASSUME GatekeeperAssumption ==
  /\ Requests \cap Seeders = {}
  /\ Defaults \subseteq Domains
  /\ MaxCount \in Nat

VARIABLES
  table,    \* domain_allowlist; NoEntry for a domain it does not hold
  stage,    \* where each request and each seeder is
  subject,  \* the domain each of them is about
  verdict   \* what CheckDomain will say to each request

vars == <<table, stage, subject, verdict>>

Actors  == Requests \cup Seeders
NoEntry == [status |-> "none", by |-> "nobody", count |-> 0]

Entry == [status : {"allow", "deny"}, by : {"user", "default", "skill"}, count : Nat]

TypeOK ==
  /\ table \in [Domains -> Entry \cup {NoEntry}]
  /\ stage \in [Actors -> {"idle", "grant", "touch", "log"}]
  /\ subject \in [Actors -> Domains]
  /\ verdict \in [Requests -> {"allow", "deny"}]

Init ==
  /\ table = [d \in Domains |-> NoEntry]
  /\ stage = [a \in Actors |-> "idle"]
  /\ subject \in [Actors -> Domains]
  /\ verdict = [r \in Requests |-> "deny"]

Goto(a, where) == stage' = [stage EXCEPT ![a] = where]

\* SetDomain: insert, or update all but the access count.
SetDomain(d, status, by) ==
  table' = [table EXCEPT ![d] = [status |-> status, by |-> by, count |-> @.count]]

Decide(r, d, what, where) ==
  /\ subject' = [subject EXCEPT ![r] = d]
  /\ verdict' = [verdict EXCEPT ![r] = what]
  /\ Goto(r, where)

\* Mutant: a lookup that fails lets the request through.
LookupFailsOpen(r) ==
  /\ stage[r] = "idle"
  /\ \E d \in Domains : Decide(r, d, "allow", "log")
  /\ UNCHANGED table

-----------------------------------------------------------------------------
\* CheckDomain of a request: what the table says, else the defaults, else no.
Lookup(r) ==
  /\ stage[r] = "idle"
  /\ \E d \in Domains :
       \/ /\ table[d] # NoEntry
          /\ Decide(r, d, table[d].status, "touch")
       \/ /\ table[d] = NoEntry /\ d \in Defaults
          /\ Decide(r, d, "allow", "grant")
       \/ /\ table[d] = NoEntry /\ d \notin Defaults
          /\ Decide(r, d, "deny", "log")
  /\ UNCHANGED table

\* A database error denies.
LookupFails(r) ==
  /\ stage[r] = "idle"
  /\ \E d \in Domains : Decide(r, d, "deny", "log")
  /\ UNCHANGED table

\* The default is persisted; a failure is only logged.
GrantDefault(r) ==
  /\ stage[r] = "grant"
  /\ \/ SetDomain(subject[r], "allow", "default")
     \/ UNCHANGED table
  /\ Goto(r, "touch")
  /\ UNCHANGED <<subject, verdict>>

\* The access is counted, if there is a row and the update does not fail.
Touch(r) ==
  /\ stage[r] = "touch"
  /\ LET d == subject[r]
     IN  \/ /\ table[d] # NoEntry /\ table[d].count < MaxCount
            /\ table' = [table EXCEPT ![d].count = @ + 1]
         \/ UNCHANGED table
  /\ Goto(r, "log")
  /\ UNCHANGED <<subject, verdict>>

\* The proxy audits the verdict, or fails to, and forwards or refuses.
LogAccess(r) ==
  /\ stage[r] = "log"
  /\ Goto(r, "idle")
  /\ verdict' = [verdict EXCEPT ![r] = "deny"]
  /\ UNCHANGED <<table, subject>>

-----------------------------------------------------------------------------
\* Mutant: an entry somebody else made does not keep a seeder from its own.
SeedAlways(s) ==
  /\ stage[s] = "idle"
  /\ \E d \in Domains :
       /\ subject' = [subject EXCEPT ![s] = d]
       /\ Goto(s, "grant")
  /\ UNCHANGED <<table, verdict>>

\* SeedSkillDomains, one domain: only if the table has no entry for it.
SeedLookup(s) ==
  /\ stage[s] = "idle"
  /\ \E d \in Domains :
       /\ table[d] = NoEntry
       /\ subject' = [subject EXCEPT ![s] = d]
       /\ Goto(s, "grant")
  /\ UNCHANGED <<table, verdict>>

SeedDomain(s) ==
  /\ stage[s] = "grant"
  /\ \/ SetDomain(subject[s], "allow", "skill")
     \/ UNCHANGED table
  /\ Goto(s, "idle")
  /\ UNCHANGED <<subject, verdict>>

\* smithly domain allow|deny
UserSets ==
  /\ \E d \in Domains, status \in {"allow", "deny"} :
       SetDomain(d, status, "user")
  /\ UNCHANGED <<stage, subject, verdict>>

\* The controller dies; the table stays, and so do the other processes.
Crash ==
  /\ stage' = [a \in Actors |-> IF a \in Requests THEN "idle" ELSE stage[a]]
  /\ verdict' = [r \in Requests |-> "deny"]
  /\ UNCHANGED <<table, subject>>

Next ==
  \/ \E r \in Requests :
       Lookup(r) \/ LookupFails(r) \/ GrantDefault(r) \/ Touch(r) \/ LogAccess(r)
  \/ \E s \in Seeders : SeedLookup(s) \/ SeedDomain(s)
  \/ UserSets
  \/ Crash

Spec == Init /\ [][Next]_vars

-----------------------------------------------------------------------------
\* Who looked the domain up, found nothing, and has yet to allow it.
Racing(d) == {a \in Actors : stage[a] = "grant" /\ subject[a] = d}

(***************************************************************************)
(* Once a domain has an entry, nobody starts to grant it on his own; and   *)
(* when those who had started before are done, only the user changes what  *)
(* it says, whichever skills are added and whatever fails or dies.         *)
(***************************************************************************)
SettledStands ==
  [][\A d \in Domains : table[d] # NoEntry =>
       /\ Racing(d)' \subseteq Racing(d)
       /\ Racing(d) = {} =>
            \/ table'[d].status = table[d].status /\ table'[d].by = table[d].by
            \/ table'[d].by = "user"]_vars

(***************************************************************************)
(* A request that is being let through is for a default, or for a domain   *)
(* with an entry: an error, a crash or a failed insert never opens an      *)
(* unknown domain (gatekeeper.go:49 "fail closed").                        *)
(***************************************************************************)
AllowExplained ==
  \A r \in Requests :
    stage[r] # "idle" /\ verdict[r] = "allow" =>
      subject[r] \in Defaults \/ table[subject[r]] # NoEntry

=============================================================================
