---------------------------- MODULE VersionedLog ----------------------------
(***************************************************************************)
(* What the object store promises (internal/store/store.go): a versioned,  *)
(* append-only log per object.  Every mutation appends one version;        *)
(* nothing is overwritten, skipped or removed.                             *)
(***************************************************************************)
EXTENDS Sequences

CONSTANTS Ids, Bodies

VARIABLE log  \* log[id][v]: version v of the object

Init == log = [id \in Ids |-> <<>>]

NewVersion(id) ==
  \E b \in Bodies : log' = [log EXCEPT ![id] = Append(@, b)]

Next == \E id \in Ids : NewVersion(id)

Spec == Init /\ [][Next]_log
=============================================================================
