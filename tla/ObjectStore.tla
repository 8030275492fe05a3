---------------------------- MODULE ObjectStore ----------------------------
(***************************************************************************)
(* The versioned object store of the skills (internal/store/sqlite.go) and *)
(* the sidecar handlers in front of it.                                    *)
(*                                                                         *)
(* Each caller is an HTTP request goroutine of the sidecar, with the skill *)
(* its token names.  All share one database connection (MaxOpenConns 1):   *)
(* a transaction holds it, every other query waits for it.  Between two    *)
(* queries of one operation other callers get in.                          *)
(*                                                                         *)
(* Type, data and the public flag of an object are one value, its content. *)
(***************************************************************************)
EXTENDS Integers, FiniteSets

CONSTANTS
  Callers,         \* concurrent requests
  Skills, Ids,     \* the skills and the object ids they use
  Contents,        \* what an object may hold
  PublicContents,  \* the contents flagged public
  Wanted,          \* the contents a query's filter matches
  Limit,           \* a query's limit: 100 unless given
  NoCaller,        \* holder of a free connection
  MaxVersions      \* bound: versions of an object

ASSUME StoreAssumption ==
  /\ NoCaller \notin Callers
  /\ PublicContents \subseteq Contents /\ Wanted \subseteq Contents
  /\ Limit \in Nat \ {0}
  /\ MaxVersions \in Nat

VARIABLES
  rows,     \* the committed rows of store_objects
  conn,     \* the caller whose transaction holds the connection
  stage,    \* where each caller is
  pending,  \* the row each caller is about to insert or has looked up
  answer    \* the rows each caller's last operation returned

vars == <<rows, conn, stage, pending, answer>>

Body == [id : Ids, skill : Skills, content : Contents, deleted : BOOLEAN]

Row == [id : Ids, version : Nat, skill : Skills, content : Contents,
        deleted : BOOLEAN]

TypeOK ==
  /\ rows \in SUBSET Row
  /\ conn \in Callers \cup {NoCaller}
  /\ stage \in [Callers -> {"idle", "put", "tx", "history"}]
  /\ \A c \in Callers : stage[c] # "idle" => pending[c] \in Row
  /\ DOMAIN pending = Callers
  /\ answer \in [Callers -> SUBSET Row]

NoRow == "no row"

Init ==
  /\ rows = {}
  /\ conn = NoCaller
  /\ stage = [c \in Callers |-> "idle"]
  /\ pending = [c \in Callers |-> NoRow]
  /\ answer = [c \in Callers |-> {}]

RowsOf(id) == {r \in rows : r.id = id}

\* ORDER BY version DESC LIMIT 1, and the join on MAX(version).
IsLatest(r) == r \in rows /\ \A s \in RowsOf(r.id) : s.version <= r.version

\* COALESCE(MAX(version), 0) + 1
IsNext(id, v) ==
  /\ \A r \in RowsOf(id) : r.version < v
  /\ v = 1 \/ \E r \in RowsOf(id) : r.version = v - 1

Visible(r, skill) == r.skill = skill \/ r.content \in PublicContents

\* The operation ends with these rows as its result.
Return(c, result) ==
  /\ stage' = [stage EXCEPT ![c] = "idle"]
  /\ pending' = [pending EXCEPT ![c] = NoRow]
  /\ answer' = [answer EXCEPT ![c] = result]

Goto(c, where, row) ==
  /\ stage' = [stage EXCEPT ![c] = where]
  /\ pending' = [pending EXCEPT ![c] = row]
  /\ answer' = [answer EXCEPT ![c] = {}]

\* A caller may query while no transaction holds the connection.
CanQuery(c, where) == stage[c] = where /\ conn = NoCaller

-----------------------------------------------------------------------------
\* Put, called by the handler: any skill, any id; the version is not known yet.
Put(c) ==
  /\ stage[c] = "idle"
  /\ \E id \in Ids, skill \in Skills, content \in Contents :
       Goto(c, "put", [id |-> id, version |-> 0, skill |-> skill,
                       content |-> content, deleted |-> FALSE])
  /\ UNCHANGED <<rows, conn>>

\* Mutant: a delete is not refused to a skill that does not own the object.
DeleteByAnyone(c) ==
  /\ CanQuery(c, "idle")
  /\ \E id \in Ids, skill \in Skills : \E r \in RowsOf(id) :
       /\ IsLatest(r)
       /\ Goto(c, "put", [r EXCEPT !.deleted = TRUE, !.skill = skill])
  /\ UNCHANGED <<rows, conn>>

\* Delete looks the object up; without it, or if another skill owns it, that
\* is an error.  Otherwise it puts a tombstone made from what it read.
Delete(c) ==
  /\ CanQuery(c, "idle")
  /\ \E id \in Ids, skill \in Skills :
       \/ /\ ~\E r \in RowsOf(id) : IsLatest(r) /\ r.skill = skill
          /\ Return(c, {})
       \/ \E r \in RowsOf(id) :
            /\ IsLatest(r) /\ r.skill = skill
            /\ Goto(c, "put", [r EXCEPT !.deleted = TRUE])
  /\ UNCHANGED <<rows, conn>>

\* The transaction takes the connection and reads the next version.
Begin(c) ==
  /\ CanQuery(c, "put")
  /\ conn' = c
  /\ stage' = [stage EXCEPT ![c] = "tx"]
  /\ \E v \in 1..(MaxVersions + 1) :
       /\ IsNext(pending[c].id, v)
       /\ pending' = [pending EXCEPT ![c].version = v]
  /\ UNCHANGED <<rows, answer>>

\* Mutant: a delete removes the object's rows.
CommitHardDelete(c) ==
  /\ stage[c] = "tx"
  /\ pending[c].version <= MaxVersions
  /\ rows' = IF pending[c].deleted THEN rows \ RowsOf(pending[c].id)
                                   ELSE rows \cup {pending[c]}
  /\ conn' = NoCaller
  /\ Return(c, {pending[c]})

\* The insert keeps the primary key, and the commit publishes the row.  (At
\* the bound every insert fails.)
Commit(c) ==
  /\ stage[c] = "tx"
  /\ pending[c].version <= MaxVersions
  /\ \A r \in RowsOf(pending[c].id) : r.version # pending[c].version
  /\ rows' = rows \cup {pending[c]}
  /\ conn' = NoCaller
  /\ Return(c, {pending[c]})

\* Mutant: the error of the commit is not looked at.
RollbackUnnoticed(c) ==
  /\ stage[c] = "tx"
  /\ conn' = NoCaller
  /\ Return(c, {pending[c]})
  /\ UNCHANGED rows

\* Mutant: a failed transaction is never rolled back.
RollbackForgotten(c) ==
  /\ stage[c] = "tx"
  /\ Return(c, {})
  /\ UNCHANGED <<rows, conn>>

\* An insert or a commit fails; the deferred rollback frees the connection.
Rollback(c) ==
  /\ stage[c] = "tx"
  /\ conn' = NoCaller
  /\ Return(c, {})
  /\ UNCHANGED rows

\* A query, or the request's context, fails before a transaction is open.
Fail(c) ==
  /\ stage[c] \in {"put", "history"}
  /\ Return(c, {})
  /\ UNCHANGED <<rows, conn>>

Get(c) ==
  /\ CanQuery(c, "idle")
  /\ \E id \in Ids, skill \in Skills :
       Return(c, {r \in RowsOf(id) : IsLatest(r) /\ Visible(r, skill)})
  /\ UNCHANGED <<rows, conn>>

\* History: the latest version decides whether the skill may look ...
HistoryCheck(c) ==
  /\ CanQuery(c, "idle")
  /\ \E id \in Ids, skill \in Skills :
       \/ /\ ~\E r \in RowsOf(id) : IsLatest(r) /\ Visible(r, skill)
          /\ Return(c, {})
       \/ \E r \in RowsOf(id) :
            /\ IsLatest(r) /\ Visible(r, skill)
            /\ Goto(c, "history", r)
  /\ UNCHANGED <<rows, conn>>

\* ... and a second query returns all versions.
HistoryRead(c) ==
  /\ CanQuery(c, "history")
  /\ Return(c, RowsOf(pending[c].id))
  /\ UNCHANGED <<rows, conn>>

(***************************************************************************)
(* Query: the latest versions, not deleted and visible, newest first, no   *)
(* more than the limit; then the filter.  created_at counts seconds, so    *)
(* rows of one second come in any order: any page of that size.            *)
(***************************************************************************)
Candidates(skill) ==
  {r \in rows : IsLatest(r) /\ ~r.deleted /\ Visible(r, skill)}

Pages(S) ==
  {P \in SUBSET S : \/ Cardinality(P) = Limit
                    \/ P = S /\ Cardinality(S) < Limit}

Query(c) ==
  /\ CanQuery(c, "idle")
  /\ \E skill \in Skills : \E page \in Pages(Candidates(skill)) :
       Return(c, {r \in page : r.content \in Wanted})
  /\ UNCHANGED <<rows, conn>>

\* The process dies: open transactions are rolled back, committed rows stay.
Crash ==
  /\ conn' = NoCaller
  /\ stage' = [c \in Callers |-> "idle"]
  /\ pending' = [c \in Callers |-> NoRow]
  /\ UNCHANGED <<rows, answer>>

Next ==
  \/ \E c \in Callers :
       \/ Put(c) \/ Delete(c) \/ Begin(c) \/ Commit(c) \/ Rollback(c)
       \/ Fail(c) \/ Get(c) \/ HistoryCheck(c) \/ HistoryRead(c) \/ Query(c)
  \/ Crash

(***************************************************************************)
(* Fairness: an open transaction ends, and database/sql gives the freed    *)
(* connection to the requests in the order they asked for it, so that one  *)
(* asking again and again gets it.                                         *)
(***************************************************************************)
Fairness ==
  \A c \in Callers :
    /\ WF_vars(Commit(c) \/ Rollback(c))
    /\ SF_vars(Begin(c)) /\ SF_vars(HistoryRead(c))

Spec == Init /\ [][Next]_vars /\ Fairness

-----------------------------------------------------------------------------
(***************************************************************************)
(* store.go:16: "Every mutation creates a new version -- nothing is        *)
(* overwritten or hard-deleted": a committed row stays as it is.           *)
(***************************************************************************)
AppendOnly == [][rows \subseteq rows']_vars

(***************************************************************************)
(* The versions of an object are 1, 2, ... without a gap or a double,      *)
(* whichever callers put, delete, fail or die at the same time.            *)
(***************************************************************************)
VersionsContiguous ==
  /\ \A r, s \in rows : r.id = s.id /\ r.version = s.version => r = s
  /\ \A r \in rows :
       /\ r.version >= 1
       /\ r.version > 1 => \E s \in RowsOf(r.id) : s.version = r.version - 1

\* What a caller was told is stored stays stored, also through a crash.
AnswerStands == \A c \in Callers : answer[c] \subseteq rows

\* The store is the append-only log of store.go.
BodyOf(r) == [id |-> r.id, skill |-> r.skill, content |-> r.content,
              deleted |-> r.deleted]

Log == INSTANCE VersionedLog
         WITH Bodies <- Body,
              log <- [id \in Ids |->
                        [v \in 1..Cardinality(RowsOf(id)) |->
                           BodyOf(CHOOSE r \in RowsOf(id) : r.version = v)]]

IsVersionedLog == Log!Spec

\* No request waits for the connection for ever.
RequestsEnd == \A c \in Callers : stage[c] # "idle" ~> stage[c] = "idle"

(***************************************************************************)
(* sqlite.go:153: Delete reads the latest version "to preserve type and    *)
(* skill".  Other requests may have put versions in between; whatever they *)
(* did, a tombstone holds what an earlier version held, and is the owner's *)
(* of that version: no skill deletes an object that never was its own.     *)
(***************************************************************************)
TombstoneOfVersion ==
  \A r \in rows : r.deleted =>
    \E s \in RowsOf(r.id) :
      s.version < r.version /\ s.skill = r.skill /\ s.content = r.content

-----------------------------------------------------------------------------
\* The inductive invariant: the caller in a transaction, and only it, holds
\* the connection, and the version it read is still the next one.
Locked ==
  \A c \in Callers :
    /\ stage[c] = "tx" <=> conn = c
    /\ stage[c] = "tx" => IsNext(pending[c].id, pending[c].version)

IInv == TypeOK /\ VersionsContiguous /\ AnswerStands /\ Locked

\* What a tombstone on its way was made from is there.
Held ==
  \A c \in Callers :
    stage[c] \in {"put", "tx"} /\ pending[c].deleted =>
      \E s \in RowsOf(pending[c].id) :
        s.skill = pending[c].skill /\ s.content = pending[c].content
=============================================================================
