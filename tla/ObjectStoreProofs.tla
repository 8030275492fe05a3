------------------------- MODULE ObjectStoreProofs -------------------------
(***************************************************************************)
(* Proofs about ObjectStore, for every set of callers, skills, ids and     *)
(* contents: the versions of an object have no gap and no double, rows are *)
(* only added, what a caller was told is stored stays stored, and all of   *)
(* it together is the append-only log that VersionedLog describes.         *)
(***************************************************************************)
EXTENDS ObjectStore, FiniteSetTheorems, SequenceTheorems, TLAPS

USE StoreAssumption

\* The rows of an id are what they were, if rows are.
LEMMA SameRows ==
  ASSUME rows' = rows
  PROVE  /\ VersionsContiguous => VersionsContiguous'
         /\ \A id, v : IsNext(id, v) => IsNext(id, v)'
BY DEF VersionsContiguous, IsNext, RowsOf

LEMMA InitIInv == Init => IInv
BY DEF Init, IInv, TypeOK, VersionsContiguous, AnswerStands, Locked, RowsOf

(***************************************************************************)
(* A step of one caller that reads, or arrives, or gives up: no row is     *)
(* added, no transaction opened or closed, and what it returns are rows.   *)
(***************************************************************************)
LEMMA ReadStep ==
  ASSUME IInv, NEW c \in Callers,
         rows' = rows, conn' = conn, stage[c] # "tx",
         NEW where \in {"idle", "put", "history"},
         stage' = [stage EXCEPT ![c] = where],
         NEW row, where # "idle" => row \in Row,
         pending' = [pending EXCEPT ![c] = row],
         NEW result, result \subseteq rows,
         answer' = [answer EXCEPT ![c] = result]
  PROVE  IInv'
<1>1. TypeOK'
  BY DEF IInv, TypeOK
<1>2. VersionsContiguous'
  BY SameRows DEF IInv
<1>3. AnswerStands'
  BY DEF IInv, TypeOK, AnswerStands
<1>4. Locked'
  <2> SUFFICES ASSUME NEW d \in Callers
               PROVE  /\ stage'[d] = "tx" <=> conn' = d
                      /\ stage'[d] = "tx" =>
                           IsNext(pending[d].id, pending[d].version)'
    BY DEF Locked
  <2>1. CASE d = c
    BY <2>1 DEF IInv, TypeOK, Locked
  <2>2. CASE d # c
    <3>1. stage'[d] = stage[d] /\ pending'[d] = pending[d]
      BY <2>2 DEF IInv, TypeOK
    <3> QED BY <3>1, SameRows DEF IInv, Locked
  <2> QED BY <2>1, <2>2
<1> QED BY <1>1, <1>2, <1>3, <1>4 DEF IInv

\* The two ways such a step ends.
LEMMA ReturnStep ==
  ASSUME IInv, NEW c \in Callers, rows' = rows, conn' = conn,
         stage[c] # "tx", NEW result, result \subseteq rows, Return(c, result)
  PROVE  IInv'
BY ReadStep DEF Return

LEMMA GotoStep ==
  ASSUME IInv, NEW c \in Callers, rows' = rows, conn' = conn,
         stage[c] # "tx", NEW where \in {"put", "history"}, NEW row \in Row,
         Goto(c, where, row)
  PROVE  IInv'
<1>1. where \in {"idle", "put", "history"} /\ {} \subseteq rows
  OBVIOUS
<1>2. /\ stage' = [stage EXCEPT ![c] = where]
      /\ pending' = [pending EXCEPT ![c] = row]
      /\ answer' = [answer EXCEPT ![c] = {}]
  BY DEF Goto
<1> QED BY <1>1, <1>2, ReadStep

\* The connection is free, so no other caller is in a transaction.
LEMMA BeginStep ==
  ASSUME IInv, NEW c \in Callers, Begin(c)
  PROVE  IInv'
<1>1. /\ conn = NoCaller /\ stage[c] = "put"
      /\ conn' = c /\ rows' = rows /\ answer' = answer
      /\ stage' = [stage EXCEPT ![c] = "tx"]
  BY DEF Begin, CanQuery
<1>2. PICK v \in 1..(MaxVersions + 1) :
        /\ IsNext(pending[c].id, v)
        /\ pending' = [pending EXCEPT ![c].version = v]
  BY DEF Begin
<1>3. pending[c] \in Row
  BY <1>1 DEF IInv, TypeOK
<1>4. /\ pending'[c] = [pending[c] EXCEPT !.version = v]
      /\ \A d \in Callers : d # c => pending'[d] = pending[d]
      /\ DOMAIN pending' = Callers
  BY <1>2 DEF IInv, TypeOK
<1>5. pending'[c] \in Row /\ pending'[c].id = pending[c].id /\ pending'[c].version = v
  BY <1>3, <1>4 DEF Row
<1>6. TypeOK'
  BY <1>1, <1>4, <1>5 DEF IInv, TypeOK
<1>7. VersionsContiguous' /\ AnswerStands'
  BY <1>1, SameRows DEF IInv, AnswerStands
<1>8. Locked'
  <2> SUFFICES ASSUME NEW d \in Callers
               PROVE  /\ stage'[d] = "tx" <=> conn' = d
                      /\ stage'[d] = "tx" =>
                           IsNext(pending[d].id, pending[d].version)'
    BY DEF Locked
  <2>1. CASE d = c
    <3>1. stage'[c] = "tx"
      BY <1>1 DEF IInv, TypeOK
    <3>2. IsNext(pending[d].id, pending[d].version)'
      BY <1>1, <1>2, <1>5, <2>1 DEF IsNext, RowsOf
    <3> QED BY <1>1, <2>1, <3>1, <3>2
  <2>2. CASE d # c
    BY <1>1, <2>2 DEF IInv, TypeOK, Locked
  <2> QED BY <2>1, <2>2
<1> QED BY <1>6, <1>7, <1>8 DEF IInv

\* The row committed has the version read when the connection was taken,
\* which is still the next one: nobody else could commit in between.
LEMMA CommitStep ==
  ASSUME IInv, NEW c \in Callers, Commit(c)
  PROVE  IInv'
<1> DEFINE new == pending[c]
<1>1. /\ stage[c] = "tx" /\ rows' = rows \cup {new} /\ conn' = NoCaller
      /\ stage' = [stage EXCEPT ![c] = "idle"]
      /\ pending' = [pending EXCEPT ![c] = NoRow]
      /\ answer' = [answer EXCEPT ![c] = {new}]
  BY DEF Commit, Return
<1>2. new \in Row /\ conn = c /\ IsNext(new.id, new.version)
  BY <1>1 DEF IInv, TypeOK, Locked
<1>3. TypeOK'
  BY <1>1, <1>2 DEF IInv, TypeOK
<1>4. \A d \in Callers : stage'[d] # "tx"
  BY <1>1, <1>2 DEF IInv, TypeOK, Locked
<1>5. Locked'
  BY <1>1, <1>4 DEF Locked
<1>6. AnswerStands'
  BY <1>1 DEF IInv, TypeOK, AnswerStands
<1>7. VersionsContiguous'
  <2>1. \A r \in rows : r \in Row
    BY DEF IInv, TypeOK
  <2>2. /\ \A r \in rows : r.id = new.id => r.version < new.version
        /\ \/ new.version = 1
           \/ \E r \in rows : r.id = new.id /\ r.version = new.version - 1
    BY <1>2 DEF IsNext, RowsOf
  <2>3. ASSUME NEW r \in rows', NEW s \in rows',
               r.id = s.id, r.version = s.version
        PROVE  r = s
    <3>1. \A q \in rows : q.id = new.id => q.version # new.version
      BY <2>1, <2>2, <1>2 DEF Row
    <3> QED BY <1>1, <2>3, <3>1 DEF IInv, VersionsContiguous
  <2>4. ASSUME NEW r \in rows'
        PROVE  /\ r.version >= 1
               /\ r.version > 1 =>
                    \E s \in rows' : s.id = r.id /\ s.version = r.version - 1
    <3>1. CASE r \in rows
      BY <1>1, <3>1 DEF IInv, VersionsContiguous, RowsOf
    <3>2. CASE r = new
      <4>1. new.version \in Nat
        BY <1>2 DEF Row
      <4>2. \A q \in rows : q.id = new.id => q.version >= 1
        BY DEF IInv, VersionsContiguous
      <4>3. new.version >= 1
        BY <2>1, <2>2, <4>1, <4>2 DEF Row
      <4> QED BY <1>1, <2>2, <3>2, <4>3
    <3> QED BY <1>1, <3>1, <3>2
  <2> QED BY <2>3, <2>4 DEF VersionsContiguous, RowsOf
<1> QED BY <1>3, <1>5, <1>6, <1>7 DEF IInv

LEMMA RollbackStep ==
  ASSUME IInv, NEW c \in Callers, Rollback(c)
  PROVE  IInv'
<1>1. /\ stage[c] = "tx" /\ rows' = rows /\ conn' = NoCaller
      /\ stage' = [stage EXCEPT ![c] = "idle"]
      /\ pending' = [pending EXCEPT ![c] = NoRow]
      /\ answer' = [answer EXCEPT ![c] = {}]
  BY DEF Rollback, Return
<1>2. TypeOK'
  BY <1>1 DEF IInv, TypeOK
<1>3. \A d \in Callers : stage'[d] # "tx"
  BY <1>1 DEF IInv, TypeOK, Locked
<1>4. Locked'
  BY <1>1, <1>3 DEF Locked
<1>5. AnswerStands' /\ VersionsContiguous'
  BY <1>1, SameRows DEF IInv, TypeOK, AnswerStands
<1> QED BY <1>2, <1>4, <1>5 DEF IInv

LEMMA CrashStep ==
  ASSUME IInv, Crash
  PROVE  IInv'
<1>1. TypeOK' /\ Locked'
  BY DEF IInv, TypeOK, Crash, Locked
<1>2. AnswerStands' /\ VersionsContiguous'
  BY SameRows DEF IInv, Crash, AnswerStands
<1> QED BY <1>1, <1>2 DEF IInv

LEMMA NextIInv == IInv /\ [Next]_vars => IInv'
<1> SUFFICES ASSUME IInv, [Next]_vars PROVE IInv'
  OBVIOUS
<1>1. ASSUME NEW c \in Callers, Put(c) PROVE IInv'
  <2>1. PICK id \in Ids, skill \in Skills, content \in Contents :
          Goto(c, "put", [id |-> id, version |-> 0, skill |-> skill,
                          content |-> content, deleted |-> FALSE])
    BY <1>1 DEF Put
  <2>2. [id |-> id, version |-> 0, skill |-> skill,
         content |-> content, deleted |-> FALSE] \in Row
    BY DEF Row
  <2> QED BY <1>1, <2>1, <2>2, GotoStep DEF Put
<1>2. ASSUME NEW c \in Callers, Delete(c) PROVE IInv'
  <2>1. /\ stage[c] = "idle" /\ rows' = rows /\ conn' = conn
        /\ \/ Return(c, {})
           \/ \E r \in rows : Goto(c, "put", [r EXCEPT !.deleted = TRUE])
    BY <1>2 DEF Delete, CanQuery, RowsOf
  <2>2. CASE Return(c, {})
    BY <2>1, <2>2, ReturnStep
  <2>3. ASSUME NEW r \in rows, Goto(c, "put", [r EXCEPT !.deleted = TRUE])
        PROVE  IInv'
    <3>1. [r EXCEPT !.deleted = TRUE] \in Row
      <4>1. r \in Row
        BY DEF IInv, TypeOK
      <4> HIDE DEF IInv
      <4>2. QED BY <4>1 DEF Row
    <3> QED BY <2>1, <2>3, <3>1, GotoStep
  <2> QED BY <2>1, <2>2, <2>3
<1>3. ASSUME NEW c \in Callers, Begin(c) PROVE IInv'
  BY <1>3, BeginStep
<1>4. ASSUME NEW c \in Callers, Commit(c) PROVE IInv'
  BY <1>4, CommitStep
<1>5. ASSUME NEW c \in Callers, Rollback(c) PROVE IInv'
  BY <1>5, RollbackStep
<1>6. ASSUME NEW c \in Callers, Fail(c) PROVE IInv'
  <2>1. stage[c] # "tx" /\ Return(c, {}) /\ rows' = rows /\ conn' = conn
    BY <1>6 DEF Fail
  <2> QED BY <2>1, ReturnStep
<1>7. ASSUME NEW c \in Callers, Get(c) PROVE IInv'
  <2>1. PICK id \in Ids, skill \in Skills :
          Return(c, {r \in RowsOf(id) : IsLatest(r) /\ Visible(r, skill)})
    BY <1>7 DEF Get
  <2>2. {r \in RowsOf(id) : IsLatest(r) /\ Visible(r, skill)} \subseteq rows
    BY DEF RowsOf
  <2>3. stage[c] # "tx" /\ rows' = rows /\ conn' = conn
    BY <1>7 DEF Get, CanQuery
  <2> QED BY <2>1, <2>2, <2>3, ReturnStep
<1>8. ASSUME NEW c \in Callers, HistoryCheck(c) PROVE IInv'
  <2>1. /\ stage[c] = "idle" /\ rows' = rows /\ conn' = conn
        /\ Return(c, {}) \/ \E r \in rows : Goto(c, "history", r)
    BY <1>8 DEF HistoryCheck, CanQuery, RowsOf
  <2>2. CASE Return(c, {})
    BY <2>1, <2>2, ReturnStep
  <2>3. ASSUME NEW r \in rows, Goto(c, "history", r) PROVE IInv'
    BY <2>1, <2>3, GotoStep DEF IInv, TypeOK
  <2> QED BY <2>1, <2>2, <2>3
<1>9. ASSUME NEW c \in Callers, HistoryRead(c) PROVE IInv'
  <2>1. /\ stage[c] # "tx" /\ rows' = rows /\ conn' = conn
        /\ Return(c, RowsOf(pending[c].id))
        /\ RowsOf(pending[c].id) \subseteq rows
    BY <1>9 DEF HistoryRead, CanQuery, RowsOf
  <2> QED BY <2>1, ReturnStep
<1>10. ASSUME NEW c \in Callers, Query(c) PROVE IInv'
  <2>1. PICK skill \in Skills : \E page \in Pages(Candidates(skill)) :
          Return(c, {r \in page : r.content \in Wanted})
    BY <1>10 DEF Query
  <2>2. PICK page \in Pages(Candidates(skill)) :
          Return(c, {r \in page : r.content \in Wanted})
    BY <2>1
  <2>3. {r \in page : r.content \in Wanted} \subseteq rows
    BY DEF Pages, Candidates
  <2>4. stage[c] # "tx" /\ rows' = rows /\ conn' = conn
    BY <1>10 DEF Query, CanQuery
  <2> QED BY <2>2, <2>3, <2>4, ReturnStep
<1>11. CASE Crash
  BY <1>11, CrashStep
<1>12. CASE UNCHANGED vars
  BY <1>12, SameRows DEF vars, IInv, TypeOK, AnswerStands, Locked
<1> QED BY <1>1, <1>2, <1>3, <1>4, <1>5, <1>6, <1>7, <1>8, <1>9, <1>10,
           <1>11, <1>12 DEF Next

(***************************************************************************)
(* The inductive invariant: the connection is a lock, and the version its  *)
(* holder read stays the next one until it commits.                        *)
(***************************************************************************)
THEOREM Invariance == Spec => []IInv
<1>1. Init => IInv
  BY InitIInv
<1>2. IInv /\ [Next]_vars => IInv'
  BY NextIInv
<1> QED BY <1>1, <1>2, PTL DEF Spec

(***************************************************************************)
(* Versions of an object are 1, 2, ... without a gap or a double.          *)
(***************************************************************************)
THEOREM Contiguity == Spec => []VersionsContiguous
<1>1. IInv => VersionsContiguous
  BY DEF IInv
<1> QED BY <1>1, Invariance, PTL

(***************************************************************************)
(* What a caller was told is stored stays stored.                          *)
(***************************************************************************)
THEOREM Durability == Spec => []AnswerStands
<1>1. IInv => AnswerStands
  BY DEF IInv
<1> QED BY <1>1, Invariance, PTL

(***************************************************************************)
(* No committed row is ever changed or removed.                            *)
(***************************************************************************)
THEOREM RowsStay == Spec => AppendOnly
<1>1. [Next]_vars => [rows \subseteq rows']_vars
  BY DEF Next, Put, Delete, Begin, Commit, Rollback, Fail, Get, HistoryCheck,
         HistoryRead, Query, Crash, vars
<1> QED BY <1>1, PTL DEF Spec, AppendOnly

(***************************************************************************)
(* What a tombstone on its way was made from stays, so that a step that    *)
(* adds no row has to answer for the row its caller now holds only.        *)
(***************************************************************************)
LEMMA HeldStep ==
  ASSUME TypeOK, Held, NEW c \in Callers, rows \subseteq rows',
         \A d \in Callers \ {c} :
           stage'[d] = stage[d] /\ pending'[d] = pending[d],
         stage'[c] \in {"put", "tx"} /\ pending'[c].deleted =>
           \E s \in rows : /\ s.id = pending'[c].id
                           /\ s.skill = pending'[c].skill
                           /\ s.content = pending'[c].content
  PROVE  Held'
BY DEF Held, RowsOf

\* A caller that is done, or only looks, holds no tombstone.
LEMMA ReturnHeld ==
  ASSUME TypeOK, Held, NEW c \in Callers, rows \subseteq rows',
         NEW where \in {"idle", "history"}, NEW row,
         stage' = [stage EXCEPT ![c] = where],
         pending' = [pending EXCEPT ![c] = row]
  PROVE  Held'
<1>1. \A d \in Callers \ {c} : stage'[d] = stage[d] /\ pending'[d] = pending[d]
  BY DEF TypeOK
<1>2. stage'[c] = where
  BY DEF TypeOK
<1> QED BY <1>1, <1>2, HeldStep

LEMMA NextHeld ==
  ASSUME IInv, Held, [Next]_vars
  PROVE  Held'
<1> USE DEF IInv
<1>1. ASSUME NEW c \in Callers, Put(c) PROVE Held'
  <2>1. PICK id \in Ids, skill \in Skills, content \in Contents :
          Goto(c, "put", [id |-> id, version |-> 0, skill |-> skill,
                          content |-> content, deleted |-> FALSE])
    BY <1>1 DEF Put
  <2>2. ~pending'[c].deleted
    BY <2>1 DEF Goto, TypeOK
  <2>3. /\ rows' = rows
        /\ \A d \in Callers \ {c} :
             stage'[d] = stage[d] /\ pending'[d] = pending[d]
    BY <1>1, <2>1 DEF Put, Goto, TypeOK
  <2> QED BY <2>2, <2>3, HeldStep
<1>2. ASSUME NEW c \in Callers, Delete(c) PROVE Held'
  <2>1. CASE Return(c, {})
    BY <1>2, <2>1, ReturnHeld DEF Delete, Return
  <2>2. ASSUME NEW r \in rows, Goto(c, "put", [r EXCEPT !.deleted = TRUE])
        PROVE  Held'
    <3>1. r \in Row
      BY DEF TypeOK
    <3>2. /\ pending'[c] = [r EXCEPT !.deleted = TRUE]
          /\ \A d \in Callers \ {c} :
               stage'[d] = stage[d] /\ pending'[d] = pending[d]
      BY <2>2 DEF Goto, TypeOK
    <3>3. /\ r.id = pending'[c].id /\ r.skill = pending'[c].skill
          /\ r.content = pending'[c].content
      BY <3>1, <3>2 DEF Row
    <3>4. rows' = rows
      BY <1>2 DEF Delete
    <3> QED BY <3>2, <3>3, <3>4, HeldStep
  <2> QED BY <1>2, <2>1, <2>2 DEF Delete, RowsOf
<1>3. ASSUME NEW c \in Callers, Begin(c) PROVE Held'
  <2>1. PICK v : pending' = [pending EXCEPT ![c].version = v]
    BY <1>3 DEF Begin
  <2>2. stage[c] = "put" /\ rows' = rows /\ pending[c] \in Row
    BY <1>3 DEF Begin, CanQuery, TypeOK
  <2>3. /\ pending'[c] = [pending[c] EXCEPT !.version = v]
        /\ \A d \in Callers \ {c} :
             stage'[d] = stage[d] /\ pending'[d] = pending[d]
    BY <1>3, <2>1 DEF Begin, TypeOK
  <2>4. /\ pending'[c].id = pending[c].id
        /\ pending'[c].skill = pending[c].skill
        /\ pending'[c].content = pending[c].content
        /\ pending'[c].deleted = pending[c].deleted
    BY <2>2, <2>3 DEF Row
  <2>5. pending[c].deleted =>
          \E s \in rows : /\ s.id = pending[c].id /\ s.skill = pending[c].skill
                          /\ s.content = pending[c].content
    BY <2>2 DEF Held, RowsOf
  <2>6. pending'[c].deleted =>
          \E s \in rows : /\ s.id = pending'[c].id
                          /\ s.skill = pending'[c].skill
                          /\ s.content = pending'[c].content
    BY <2>4, <2>5
  <2> QED BY <2>2, <2>3, <2>6, HeldStep
<1>4. ASSUME NEW c \in Callers,
             \/ Commit(c) \/ Rollback(c) \/ Fail(c) \/ Get(c)
             \/ HistoryRead(c) \/ Query(c)
      PROVE  Held'
  BY <1>4, ReturnHeld DEF Commit, Rollback, Fail, Get, HistoryRead, Query, Return
<1>5. ASSUME NEW c \in Callers, HistoryCheck(c) PROVE Held'
  BY <1>5, ReturnHeld DEF HistoryCheck, Return, Goto
<1>6. CASE Crash
  BY <1>6 DEF Crash, Held
<1>7. CASE UNCHANGED vars
  BY <1>7 DEF vars, Held, RowsOf
<1> QED BY <1>1, <1>2, <1>3, <1>4, <1>5, <1>6, <1>7 DEF Next

\* Only a commit adds a row: the one held, with the next version.
LEMMA NextTombstone ==
  ASSUME IInv, Held, TombstoneOfVersion, [Next]_vars
  PROVE  TombstoneOfVersion'
<1>1. CASE rows' = rows
  BY <1>1 DEF TombstoneOfVersion, RowsOf
<1>2. ASSUME NEW c \in Callers, Commit(c) PROVE TombstoneOfVersion'
  <2> DEFINE new == pending[c]
  <2>1. rows' = rows \cup {new} /\ stage[c] = "tx"
    BY <1>2 DEF Commit
  <2>2. \A r \in rows : r.id = new.id => r.version < new.version
    BY <2>1 DEF IInv, Locked, IsNext, RowsOf
  <2>3. new.deleted =>
          \E s \in rows : /\ s.id = new.id /\ s.version < new.version
                          /\ s.skill = new.skill /\ s.content = new.content
    BY <2>1, <2>2 DEF Held, RowsOf
  <2> QED BY <2>1, <2>3 DEF TombstoneOfVersion, RowsOf
<1>3. (\E c \in Callers : Commit(c)) \/ rows' = rows
  BY DEF Next, Put, Delete, Begin, Rollback, Fail, Get, HistoryCheck,
         HistoryRead, Query, Crash, vars
<1> QED BY <1>1, <1>2, <1>3

(***************************************************************************)
(* A tombstone holds what an earlier version held and belongs to that      *)
(* version's owner, whatever was put between the delete's two queries.     *)
(***************************************************************************)
THEOREM Tombstones == Spec => []TombstoneOfVersion
<1>1. Init => Held /\ TombstoneOfVersion
  BY DEF Init, Held, TombstoneOfVersion
<1>2. IInv /\ Held /\ TombstoneOfVersion /\ [Next]_vars
        => Held' /\ TombstoneOfVersion'
  BY NextHeld, NextTombstone
<1> QED BY <1>1, <1>2, Invariance, PTL DEF Spec

-----------------------------------------------------------------------------
\* Versions are numbers of rows: an object of n rows has the versions 1..n.
Numbered ==
  \A id \in Ids :
    /\ IsFiniteSet(RowsOf(id))
    /\ \A r \in RowsOf(id) : r.version <= Cardinality(RowsOf(id))
    /\ \A v \in 1..Cardinality(RowsOf(id)) : \E r \in RowsOf(id) : r.version = v

\* What the log holds of an object.
Versions(id) ==
  [v \in 1..Cardinality(RowsOf(id)) |->
     BodyOf(CHOOSE r \in RowsOf(id) : r.version = v)]

\* A commit adds the row that has the next number.
LEMMA NewRow ==
  ASSUME IInv, Numbered, NEW new \in Row, IsNext(new.id, new.version),
         rows' = rows \cup {new}
  PROVE  /\ RowsOf(new.id)' = RowsOf(new.id) \cup {new}
         /\ \A id \in Ids \ {new.id} : RowsOf(id)' = RowsOf(id)
         /\ IsFiniteSet(RowsOf(new.id)')
         /\ Cardinality(RowsOf(new.id)) \in Nat
         /\ Cardinality(RowsOf(new.id)') = Cardinality(RowsOf(new.id)) + 1
         /\ new.version = Cardinality(RowsOf(new.id)) + 1
<1> DEFINE R == RowsOf(new.id)
           n == Cardinality(R)
<1>1. /\ new.id \in Ids /\ new.version \in Nat
      /\ \A r \in R : r.version \in Nat
  BY DEF Row, IInv, TypeOK, RowsOf
<1>2. /\ R' = R \cup {new}
      /\ \A id \in Ids \ {new.id} : RowsOf(id)' = RowsOf(id)
  BY DEF RowsOf
<1>3. /\ \A r \in R : r.version < new.version
      /\ new.version = 1 \/ \E r \in R : r.version = new.version - 1
  BY DEF IsNext
<1>4. /\ IsFiniteSet(R)
      /\ \A r \in R : r.version <= n
      /\ \A v \in 1..n : \E r \in R : r.version = v
  BY <1>1 DEF Numbered
<1> HIDE DEF R
<1>5. n \in Nat /\ (n = 0 <=> R = {})
  BY <1>4, FS_CardinalityType, FS_EmptySet
<1>6. new \notin R
  BY <1>1, <1>3
<1>7. IsFiniteSet(R') /\ Cardinality(R') = n + 1
  BY <1>2, <1>4, <1>6, FS_AddElement
<1>8. new.version = n + 1
  <2> HIDE DEF n
  <2>1. new.version > n
    <3>1. CASE n = 0
      <4>1. new.version = 1
        BY <1>3, <1>5, <3>1
      <4> QED BY <3>1, <4>1
    <3>2. CASE n # 0
      <4>1. n \in 1..n
        BY <1>5, <3>2
      <4>2. PICK r \in R : r.version = n
        BY <1>4, <4>1
      <4> QED BY <1>3, <4>2
    <3> QED BY <3>1, <3>2
  <2>2. new.version <= n + 1
    <3>1. CASE new.version = 1
      BY <1>5, <3>1
    <3>2. ASSUME NEW r \in R, r.version = new.version - 1
          PROVE  new.version <= n + 1
      BY <1>1, <1>4, <1>5, <3>2
    <3> QED BY <1>3, <3>1, <3>2
  <2> QED BY <1>1, <1>5, <2>1, <2>2
<1> QED BY <1>2, <1>5, <1>7, <1>8 DEF R

LEMMA NumberedStep ==
  ASSUME IInv, Numbered, NEW new \in Row, IsNext(new.id, new.version),
         rows' = rows \cup {new}
  PROVE  Numbered'
<1> SUFFICES ASSUME NEW id \in Ids
             PROVE  LET R == RowsOf(id)'
                    IN  /\ IsFiniteSet(R)
                        /\ \A r \in R : r.version <= Cardinality(R)
                        /\ \A v \in 1..Cardinality(R) : \E r \in R : r.version = v
  BY DEF Numbered
<1>1. CASE id # new.id
  <2>1. RowsOf(id)' = RowsOf(id)
    BY <1>1, NewRow
  <2> QED BY <2>1 DEF Numbered
<1>2. CASE id = new.id
  <2> DEFINE R == RowsOf(new.id)
             n == Cardinality(R)
  <2>1. /\ R' = R \cup {new} /\ IsFiniteSet(R') /\ n \in Nat
        /\ Cardinality(R') = n + 1 /\ new.version = n + 1
    BY NewRow
  <2>2. /\ \A r \in R : r.version <= n
        /\ \A v \in 1..n : \E r \in R : r.version = v
    BY <1>2 DEF Numbered
  <2>3. \A r \in R : r.version \in Nat
    BY DEF IInv, TypeOK, RowsOf, Row
  <2> HIDE DEF n, R
  <2>4. \A r \in R' : r.version <= n + 1
    BY <2>1, <2>2, <2>3
  <2>5. \A v \in 1..(n + 1) : \E r \in R' : r.version = v
    <3> SUFFICES ASSUME NEW v \in 1..(n + 1) PROVE \E r \in R' : r.version = v
      OBVIOUS
    <3>1. v \in 1..n \/ v = n + 1
      BY <2>1
    <3> QED BY <2>1, <2>2, <3>1
  <2> QED BY <1>2, <2>1, <2>4, <2>5 DEF R
<1> QED BY <1>1, <1>2

\* One value more at the end of a sequence.
LEMMA Appended ==
  ASSUME NEW T, NEW n \in Nat, NEW s \in Seq(T), NEW t \in Seq(T), NEW x \in T,
         Len(s) = n, Len(t) = n + 1,
         t[n + 1] = x, \A v \in 1..n : t[v] = s[v]
  PROVE  t = Append(s, x)
<1>1. /\ Append(s, x) \in Seq(T) /\ Len(Append(s, x)) = n + 1
      /\ Append(s, x)[n + 1] = x
      /\ \A v \in 1..n : Append(s, x)[v] = s[v]
  BY AppendProperties
<1>2. ASSUME NEW v \in 1..Len(t) PROVE t[v] = Append(s, x)[v]
  <2>1. v \in 1..n \/ v = n + 1
    OBVIOUS
  <2> QED BY <1>1, <2>1
<1> QED BY <1>1, <1>2, SeqEqual

\* A sequence by its values.
LEMMA Listed ==
  ASSUME NEW T, NEW n \in Nat, NEW f \in [1..n -> T]
  PROVE  f \in Seq(T) /\ Len(f) = n
OBVIOUS

\* The log's sequence of the object is longer by the row's body, and those of
\* the others are what they were.
LEMMA LogStep ==
  ASSUME IInv, Numbered, NEW new \in Row, IsNext(new.id, new.version),
         rows' = rows \cup {new}, VersionsContiguous'
  PROVE  /\ Versions(new.id)' = Append(Versions(new.id), BodyOf(new))
         /\ \A id \in Ids \ {new.id} : Versions(id)' = Versions(id)
<1> DEFINE R == RowsOf(new.id)
           n == Cardinality(R)
           At(S, v) == BodyOf(CHOOSE r \in S : r.version = v)
<1>1. /\ R' = R \cup {new} /\ n \in Nat
      /\ Cardinality(R') = n + 1 /\ new.version = n + 1
  BY NewRow
<1>2. \A v \in 1..n : \E r \in R : r.version = v
  BY DEF Numbered, Row
<1>3. \A r, s \in R' : r.version = s.version => r = s
  BY DEF VersionsContiguous, RowsOf
<1>4. ASSUME NEW v \in 1..n PROVE At(R', v) = At(R, v)
  <2>1. PICK r \in R : r.version = v
    BY <1>2
  <2>2. \A s \in R' : s.version = v <=> s = r
    BY <1>1, <1>3, <2>1
  <2>3. (CHOOSE s \in R' : s.version = v) = r
    BY <1>1, <2>1, <2>2
  <2>4. (CHOOSE s \in R : s.version = v) = r
    BY <1>1, <2>1, <2>2
  <2> QED BY <2>3, <2>4
<1>5. At(R', n + 1) = BodyOf(new)
  <2>1. \A q \in R' : q.version = n + 1 <=> q = new
    BY <1>1, <1>3
  <2>2. (CHOOSE q \in R' : q.version = n + 1) = new
    BY <1>1, <2>1
  <2> QED BY <2>2
<1>6. BodyOf(new) \in Body /\ \A v \in 1..n : At(R, v) \in Body
  <2>1. \A r \in Row : BodyOf(r) \in Body
    BY DEF Row, Body, BodyOf
  <2>2. \A r \in R : r \in Row
    BY DEF IInv, TypeOK, RowsOf
  <2>3. ASSUME NEW v \in 1..n PROVE At(R, v) \in Body
    <3>1. (CHOOSE r \in R : r.version = v) \in R
      BY <1>2
    <3> QED BY <2>1, <2>2, <3>1
  <2> QED BY <2>1, <2>3
<1> DEFINE s == Versions(new.id)
           t == Versions(new.id)'
<1>7. s = [v \in 1..n |-> At(R, v)]
  BY DEF Versions
<1>8. t = [v \in 1..(n + 1) |-> At(R', v)]
  BY <1>1 DEF Versions
<1> HIDE DEF At, n, R, s, t
<1>9. s \in Seq(Body) /\ Len(s) = n
  BY <1>1, <1>6, <1>7, Listed
<1>10. \A v \in 1..(n + 1) :
         /\ At(R', v) = IF v = n + 1 THEN BodyOf(new) ELSE At(R, v)
         /\ At(R', v) \in Body
  <2> SUFFICES ASSUME NEW v \in 1..(n + 1)
               PROVE  /\ At(R', v) = IF v = n + 1 THEN BodyOf(new) ELSE At(R, v)
                      /\ At(R', v) \in Body
    OBVIOUS
  <2>1. CASE v = n + 1
    BY <1>5, <1>6, <2>1
  <2>2. CASE v # n + 1
    <3>1. v \in 1..n
      BY <1>1, <2>2
    <3> QED BY <1>4, <1>6, <2>2, <3>1
  <2> QED BY <2>1, <2>2
<1>11. t \in Seq(Body) /\ Len(t) = n + 1
  <2> DEFINE m == n + 1
  <2>1. m \in Nat
    BY <1>1
  <2>2. t = [v \in 1..m |-> At(R', v)] /\ \A v \in 1..m : At(R', v) \in Body
    BY <1>8, <1>10
  <2> HIDE DEF m
  <2>3. t \in [1..m -> Body]
    BY <2>2
  <2>4. t \in Seq(Body) /\ Len(t) = m
    BY <2>1, <2>3, Listed
  <2> QED BY <2>4 DEF m
<1>12. t[n + 1] = BodyOf(new)
  <2>1. n + 1 \in 1..(n + 1)
    BY <1>1
  <2> QED BY <1>5, <1>8, <2>1
<1>13. ASSUME NEW v \in 1..n PROVE t[v] = s[v]
  <2>1. v \in 1..(n + 1)
    BY <1>1
  <2>2. t[v] = At(R', v)
    BY <1>8, <2>1
  <2>3. s[v] = At(R, v)
    BY <1>7
  <2> QED BY <1>4, <2>2, <2>3
<1>14. t = Append(s, BodyOf(new))
  BY <1>1, <1>6, <1>9, <1>11, <1>12, <1>13, Appended
<1>15. \A id \in Ids \ {new.id} : Versions(id)' = Versions(id)
  <2> SUFFICES ASSUME NEW id \in Ids \ {new.id} PROVE Versions(id)' = Versions(id)
    OBVIOUS
  <2>1. RowsOf(id)' = RowsOf(id)
    BY NewRow
  <2> QED BY <2>1 DEF Versions
<1> QED BY <1>14, <1>15 DEF s, t

(***************************************************************************)
(* The store implements the append-only log: a commit appends one version  *)
(* to one object, and every other step, a failure or a crash among them,   *)
(* leaves the log as it is.                                                *)
(***************************************************************************)
THEOREM Implements == Spec => IsVersionedLog
<1> DEFINE Image == [id \in Ids |-> Versions(id)]
<1>1. Init => Numbered /\ Log!Init
  <2> SUFFICES ASSUME Init PROVE Numbered /\ Log!Init
    OBVIOUS
  <2>1. \A id : RowsOf(id) = {}
    BY DEF Init, RowsOf
  <2>2. \A id : IsFiniteSet(RowsOf(id)) /\ Cardinality(RowsOf(id)) = 0
    BY <2>1, FS_EmptySet
  <2>3. Numbered
    BY <2>1, <2>2 DEF Numbered
  <2>4. \A id : Versions(id) = <<>>
    BY <2>2 DEF Versions
  <2> QED BY <2>3, <2>4 DEF Log!Init, Versions
<1>2. IInv /\ IInv' /\ Numbered /\ [Next]_vars => Numbered' /\ [Log!Next]_Image
  <2> SUFFICES ASSUME IInv, IInv', Numbered, [Next]_vars
               PROVE  Numbered' /\ [Log!Next]_Image
    OBVIOUS
  <2>1. (\E c \in Callers : Commit(c)) \/ rows' = rows
    BY DEF Next, Put, Delete, Begin, Rollback, Fail, Get, HistoryCheck,
           HistoryRead, Query, Crash, vars
  <2>2. CASE rows' = rows
    <3>1. \A id : RowsOf(id)' = RowsOf(id)
      BY <2>2 DEF RowsOf
    <3>2. Numbered'
      BY <3>1 DEF Numbered
    <3>3. \A id \in Ids : Versions(id)' = Versions(id)
      <4> SUFFICES ASSUME NEW id \in Ids PROVE Versions(id)' = Versions(id)
        OBVIOUS
      <4>1. RowsOf(id)' = RowsOf(id)
        BY <3>1
      <4> QED BY <4>1 DEF Versions
    <3>4. Image' = Image
      BY <3>3
    <3> QED BY <3>2, <3>4
  <2>3. ASSUME NEW c \in Callers, Commit(c) PROVE Numbered' /\ Log!Next
    <3>1. PICK new : new = pending[c]
      OBVIOUS
    <3>2. /\ rows' = rows \cup {new} /\ new \in Row
          /\ IsNext(new.id, new.version)
      BY <2>3, <3>1 DEF Commit, IInv, TypeOK, Locked
    <3>3. VersionsContiguous'
      BY DEF IInv
    <3>4. /\ Versions(new.id)' = Append(Versions(new.id), BodyOf(new))
          /\ \A id \in Ids \ {new.id} : Versions(id)' = Versions(id)
      BY <3>2, <3>3, LogStep
    <3>5. new.id \in Ids /\ BodyOf(new) \in Body
      BY <3>2 DEF Row, BodyOf, Body
    <3>6. Image' = [Image EXCEPT ![new.id] = Append(@, BodyOf(new))]
      BY <3>4, <3>5
    <3>7. Log!NewVersion(new.id)
      BY <3>5, <3>6 DEF Log!NewVersion, Versions
    <3>8. Numbered'
      BY <3>2, NumberedStep
    <3> QED BY <3>5, <3>7, <3>8 DEF Log!Next
  <2> QED BY <2>1, <2>2, <2>3
<1>3. Image = [id \in Ids |->
                 [v \in 1..Cardinality(RowsOf(id)) |->
                    BodyOf(CHOOSE r \in RowsOf(id) : r.version = v)]]
  BY DEF Versions
<1> QED BY <1>1, <1>2, Invariance, PTL DEF Spec, IsVersionedLog, Log!Spec, Versions
=============================================================================
