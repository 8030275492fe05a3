---------------------------- MODULE AgentProofs -----------------------------
(***************************************************************************)
(* Proofs about the agent.  For any number of processes, messages and      *)
(* deaths, the database's migrations are applied once and its full text    *)
(* index misses nothing (MemoryIndex).  Whatever the model answers, each   *)
(* request of a call is one its API accepts, the model is told of a loop   *)
(* when it closes one, and the audit trail is complete (AgentLoop).        *)
(***************************************************************************)
EXTENDS AgentLoop, MemoryIndex, DataInduction, FiniteSetTheorems

-----------------------------------------------------------------------------
(***************************************************************************)
(* The memory's tables.                                                    *)
(***************************************************************************)

Past == {"serving", "list", "embed"}
Labels == Past \cup {"down", "open", "migrate", "record", "commit"}

MemoryTypeOK ==
  /\ schema \subseteq 1..Latest /\ effects \in [1..Latest -> Nat]
  /\ saved \in Nat /\ indexed \in [MessageIds -> Nat]
  /\ writer \in Processes \cup {None}
  /\ pc \in [Processes -> Labels] /\ next \in [Processes -> Nat \ {0}]

\* Versions are applied in order, each one once.
InOrder ==
  /\ \A v \in schema : \A u \in 1..v : u \in schema
  /\ \A v \in 1..Latest : effects[v] = IF v \in schema THEN 1 ELSE 0

\* The lock is held from the first statement of a version to its commit.
Locked == \A p \in Processes : pc[p] \in {"record", "commit"} <=> writer = p

\* The version a process is to apply leaves no gap; the one it has recorded
\* nobody else has applied.
Migrating ==
  \A p \in Processes :
    /\ pc[p] \in {"migrate", "record", "commit"} => 1..(next[p] - 1) \subseteq schema
    /\ pc[p] \in {"record", "commit"} => next[p] <= Latest
    /\ pc[p] = "commit" => next[p] \notin schema

\* Before the index there is nothing in it; then it has what is saved.
Indexed ==
  \A m \in MessageIds :
    indexed[m] = IF IndexVersion \in schema /\ m <= saved THEN 1 ELSE 0

Complete == \A p \in Processes : pc[p] \in Past => schema = 1..Latest

MemoryInv == MemoryTypeOK /\ InOrder /\ Locked /\ Migrating /\ Indexed /\ Complete

LEMMA MemoryInitOK == MemoryInit => MemoryInv
<1> SUFFICES ASSUME MemoryInit PROVE MemoryInv
  OBVIOUS
<1>1. MemoryTypeOK
  BY DEF MemoryInit, MemoryTypeOK, Latest, Labels
<1>2. InOrder
  BY DEF MemoryInit, InOrder, Latest
<1>3. Locked /\ Migrating /\ Complete
  BY MemoryAssumption DEF MemoryInit, Locked, Migrating, Complete, Past
<1>4. Indexed
  BY DEF MemoryInit, Indexed, IndexVersion
<1> QED BY <1>1, <1>2, <1>3, <1>4 DEF MemoryInv

\* A process moves on, or ends and rolls its transaction back: the tables
\* stay as they are.
LEMMA MoveStep ==
  ASSUME MemoryInv, UNCHANGED tables, NEW p \in Processes, NEW l \in Labels,
         pc' = [pc EXCEPT ![p] = l], UNCHANGED next,
         l \notin {"migrate", "record", "commit"},
         writer' = IF writer = p THEN None ELSE writer,
         l \in Past => schema = 1..Latest
  PROVE  MemoryInv'
<1>1. pc'[p] = l /\ \A q \in Processes \ {p} : pc'[q] = pc[q]
  BY DEF MemoryInv, MemoryTypeOK
<1>2. MemoryTypeOK'
  BY DEF MemoryInv, MemoryTypeOK, tables
<1>3. InOrder' /\ Indexed'
  BY DEF MemoryInv, InOrder, Indexed, tables
<1>4. Locked'
  BY <1>1, MemoryAssumption DEF MemoryInv, Locked
<1>5. Migrating'
  BY <1>1 DEF MemoryInv, Migrating, tables
<1>6. Complete'
  BY <1>1 DEF MemoryInv, Complete, tables
<1> QED BY <1>2, <1>3, <1>4, <1>5, <1>6 DEF MemoryInv

\* A process at `l` takes up its next version.
LEMMA VersionStep ==
  ASSUME MemoryInv, NEW p \in Processes, GetVersion(p)
  PROVE  MemoryInv'
<1>1. /\ UNCHANGED <<tables, writer>> /\ pc[p] = "open"
      /\ pc' = [pc EXCEPT ![p] = "migrate"]
      /\ next' = [next EXCEPT ![p] = Max(schema \union {0}) + 1]
  BY DEF GetVersion, Goto
<1> DEFINE n == Max(schema \union {0})
<1>2. n \in schema \union {0} /\ \A v \in schema : v <= n
  <2>1. schema \subseteq {1, 2, 3}
    BY DEF MemoryInv, MemoryTypeOK, Latest
  <2>2. \E x \in schema \union {0} : \A y \in schema \union {0} : x >= y
    BY <2>1
  <2> QED BY <2>1, <2>2 DEF Max
<1> HIDE DEF n
<1>3. n \in Nat /\ 1..n \subseteq schema
  BY <1>2 DEF MemoryInv, MemoryTypeOK, InOrder, Latest
<1>4. pc'[p] = "migrate" /\ \A q \in Processes \ {p} : pc'[q] = pc[q]
  BY <1>1 DEF MemoryInv, MemoryTypeOK
<1>5. next' = [next EXCEPT ![p] = n + 1]
  BY <1>1 DEF n
<1>6. next'[p] = n + 1 /\ \A q \in Processes \ {p} : next'[q] = next[q]
  BY <1>5 DEF MemoryInv, MemoryTypeOK
<1>7. MemoryTypeOK'
  BY <1>1, <1>3, <1>5 DEF MemoryInv, MemoryTypeOK, tables, Labels
<1>8. InOrder' /\ Indexed'
  BY <1>1 DEF MemoryInv, InOrder, Indexed, tables
<1>9. Locked'
  BY <1>1, <1>4 DEF MemoryInv, Locked
<1>10. 1..(next'[p] - 1) \subseteq schema
  BY <1>3, <1>6
<1>11. Complete'
  BY <1>1, <1>4 DEF MemoryInv, Complete, Past, tables
<1>12. Migrating'
  BY <1>1, <1>4, <1>6, <1>10 DEF MemoryInv, Migrating, tables
<1> QED BY <1>7, <1>8, <1>9, <1>11, <1>12 DEF MemoryInv

\* The statements of a version are run, and the version recorded, under the
\* lock.
LEMMA TransactionStep ==
  ASSUME MemoryInv, NEW p \in Processes, Execute(p) \/ Record(p)
  PROVE  MemoryInv'
<1>1. /\ UNCHANGED <<tables, next>> /\ writer' = p
      /\ \/ /\ pc[p] = "migrate" /\ next[p] <= Latest /\ writer = None
            /\ pc' = [pc EXCEPT ![p] = "record"]
         \/ /\ pc[p] = "record" /\ next[p] \notin schema
            /\ pc' = [pc EXCEPT ![p] = "commit"] /\ writer = p
  BY DEF Execute, Record, Goto, MemoryInv, Locked
<1>2. \A q \in Processes \ {p} : pc'[q] = pc[q] /\ writer # q
  BY <1>1, MemoryAssumption DEF MemoryInv, MemoryTypeOK
<1>3. pc'[p] \in {"record", "commit"} /\ (pc'[p] = "commit" => next[p] \notin schema)
  BY <1>1 DEF MemoryInv, MemoryTypeOK
<1>4. MemoryTypeOK'
  BY <1>1 DEF MemoryInv, MemoryTypeOK, tables, Labels
<1>5. InOrder' /\ Indexed'
  BY <1>1 DEF MemoryInv, InOrder, Indexed, tables
<1>6. Locked'
  BY <1>1, <1>2, <1>3 DEF MemoryInv, Locked
<1>7. Complete'
  BY <1>1, <1>2, <1>3 DEF MemoryInv, Complete, Past, tables
<1>8. 1..(next[p] - 1) \subseteq schema /\ next[p] <= Latest
  BY <1>1 DEF MemoryInv, Migrating
<1>9. Migrating'
  BY <1>1, <1>2, <1>3, <1>8 DEF MemoryInv, Migrating, tables
<1> QED BY <1>4, <1>5, <1>6, <1>7, <1>9 DEF MemoryInv

\* The version is the first one that was not applied, and applied now.
LEMMA CommitStep ==
  ASSUME MemoryInv, NEW p \in Processes, Commit(p)
  PROVE  MemoryInv'
<1> DEFINE v == next[p]
<1>1. /\ v \in 1..Latest /\ v \notin schema /\ 1..(v - 1) \subseteq schema
      /\ writer = p /\ effects[v] = 0
  BY DEF Commit, MemoryInv, MemoryTypeOK, Locked, Migrating, InOrder
<1>2. /\ schema' = schema \union {v} /\ effects' = [effects EXCEPT ![v] = 1]
      /\ pc' = [pc EXCEPT ![p] = "migrate"] /\ writer' = None
      /\ next' = [next EXCEPT ![p] = v + 1] /\ UNCHANGED saved
      /\ indexed' = IF v = IndexVersion THEN IndexAll ELSE indexed
  BY <1>1 DEF Commit, Goto, MemoryInv, MemoryTypeOK
<1> HIDE DEF v
<1>3. v \in {1, 2, 3} /\ v + 1 \in Nat \ {0} /\ v + 1 - 1 = v
  BY <1>1 DEF Latest
<1>4. schema' = 1..v
  <2>1. \A u \in schema : u < v
    BY <1>1, <1>3 DEF MemoryInv, MemoryTypeOK, InOrder, Latest
  <2>2. \A u \in schema : u \in Nat /\ u >= 1
    BY DEF MemoryInv, MemoryTypeOK, Latest
  <2>3. \A u \in 1..v : u \in 1..(v - 1) \/ u = v
    BY <1>3
  <2>4. schema \subseteq 1..v /\ v \in 1..v
    BY <1>3, <2>1, <2>2
  <2> QED BY <1>1, <1>2, <2>3, <2>4
<1>5. /\ pc'[p] = "migrate" /\ next'[p] = v + 1
      /\ \A q \in Processes \ {p} :
           /\ pc'[q] = pc[q] /\ next'[q] = next[q]
           /\ pc[q] \notin {"record", "commit"}
  BY <1>1, <1>2, MemoryAssumption DEF MemoryInv, MemoryTypeOK, Locked
<1>6. InOrder'
  <2>1. \A u \in 1..Latest : effects'[u] = IF u \in schema' THEN 1 ELSE 0
    BY <1>1, <1>2 DEF MemoryInv, MemoryTypeOK, InOrder
  <2> QED BY <1>3, <1>4, <2>1 DEF InOrder
<1>7. Indexed'
  <2>1. IndexVersion \in schema => v # IndexVersion
    BY <1>1
  <2>2. CASE v = IndexVersion
    BY <1>1, <1>2, <2>2 DEF MemoryInv, MemoryTypeOK, Indexed, IndexAll
  <2>3. CASE v # IndexVersion
    BY <1>1, <1>2, <2>3 DEF MemoryInv, MemoryTypeOK, Indexed
  <2> QED BY <2>2, <2>3
<1>8. MemoryTypeOK'
  <2>1. schema' \subseteq 1..Latest /\ effects' \in [1..Latest -> Nat]
    BY <1>1, <1>2 DEF MemoryInv, MemoryTypeOK
  <2>2. indexed' \in [MessageIds -> Nat]
    BY <1>2 DEF MemoryInv, MemoryTypeOK, IndexAll
  <2>3. pc' \in [Processes -> Labels] /\ next' \in [Processes -> Nat \ {0}]
    BY <1>2, <1>3 DEF MemoryInv, MemoryTypeOK, Labels
  <2> QED BY <1>2, <2>1, <2>2, <2>3 DEF MemoryInv, MemoryTypeOK
<1>9. Locked'
  BY <1>2, <1>5, MemoryAssumption DEF MemoryInv, Locked
<1>10. Migrating'
  <2>1. 1..(next'[p] - 1) \subseteq schema'
    BY <1>3, <1>4, <1>5
  <2> QED BY <1>2, <1>5, <2>1 DEF MemoryInv, Migrating
<1>11. Complete'
  <2>1. \A q \in Processes : pc'[q] \in Past => schema = 1..Latest
    BY <1>5 DEF MemoryInv, Complete, Past
  <2> QED BY <1>1, <2>1 DEF Complete
<1> QED BY <1>6, <1>7, <1>8, <1>9, <1>10, <1>11 DEF MemoryInv

\* Once messages are appended there is an index, and its trigger.
LEMMA AppendStep ==
  ASSUME MemoryInv, NEW p \in Processes, AppendMessage(p)
  PROVE  MemoryInv'
<1>1. schema = 1..Latest /\ IndexVersion \in schema /\ effects[IndexVersion] = 1
  BY DEF AppendMessage, MemoryInv, Complete, Past, InOrder, IndexVersion, Latest
<1>2. /\ saved' = saved + 1 /\ saved + 1 \in MessageIds
      /\ indexed' = [indexed EXCEPT ![saved + 1] = @ + 1]
      /\ UNCHANGED <<schema, effects, writer, pc, next>>
  BY <1>1, MemoryAssumption DEF AppendMessage, MemoryInv, MemoryTypeOK, MessageIds
<1>3. saved \in Nat /\ \A m \in MessageIds : m \in Int /\ indexed[m] = IF m <= saved THEN 1 ELSE 0
  BY <1>1 DEF MemoryInv, MemoryTypeOK, Indexed, MessageIds
<1>4. MemoryTypeOK'
  BY <1>2 DEF MemoryInv, MemoryTypeOK
<1>5. InOrder' /\ Locked' /\ Migrating' /\ Complete'
  BY <1>2 DEF MemoryInv, InOrder, Locked, Migrating, Complete
<1>6. Indexed'
  BY <1>1, <1>2, <1>3 DEF MemoryInv, MemoryTypeOK, Indexed
<1> QED BY <1>4, <1>5, <1>6 DEF MemoryInv

\* One step per action.
LEMMA MemoryStepOK == MemoryInv /\ [MemoryNext]_memoryVars => MemoryInv'
<1> SUFFICES ASSUME MemoryInv, [MemoryNext]_memoryVars PROVE MemoryInv'
  OBVIOUS
<1>1. ASSUME UNCHANGED <<tables, writer, pc, next>> PROVE MemoryInv'
  BY <1>1 DEF tables, MemoryInv, MemoryTypeOK, InOrder, Locked, Migrating, Indexed, Complete
<1>2. CASE UNCHANGED memoryVars
  BY <1>1, <1>2 DEF memoryVars, tables
<1> SUFFICES ASSUME NEW p \in Processes,
                    \/ \E work \in {"start", "embed"} : Open(p, work)
                    \/ Proceeds(p) \/ AppendMessage(p) \/ Stop(p) \/ Kill(p)
             PROVE  MemoryInv'
  BY <1>2 DEF MemoryNext
<1>3. \A q \in Processes : writer = q <=> pc[q] \in {"record", "commit"}
  BY DEF MemoryInv, Locked
<1>4. (pc[p] \in Past => schema = 1..Latest) /\ pc[p] \in Labels
  BY DEF MemoryInv, Complete, MemoryTypeOK
<1>5. ASSUME NEW work, Open(p, work) PROVE MemoryInv'
  <2>1. writer # p
    BY <1>3, <1>5 DEF Open
  <2> QED BY <1>5, <2>1, MoveStep DEF Open, Goto, Labels, Past
<1>6. CASE GetVersion(p)
  BY <1>6, VersionStep
<1>7. CASE Execute(p) \/ Record(p)
  BY <1>7, TransactionStep
<1>8. CASE Commit(p)
  BY <1>8, CommitStep
<1>9. CASE MigrateFails(p)
  BY <1>9, MoveStep DEF MigrateFails, Goto, Labels, Past
<1>10. CASE Migrated(p)
  <2>1. writer # p
    BY <1>3, <1>10 DEF Migrated
  <2>2. schema = 1..Latest
    <3>1. 1..(next[p] - 1) \subseteq schema /\ next[p] > Latest /\ next[p] \in Nat
      BY <1>10 DEF Migrated, MemoryInv, Migrating, MemoryTypeOK
    <3>2. 1 \in schema /\ 2 \in schema /\ 3 \in schema
      BY <3>1 DEF Latest
    <3>3. schema \subseteq 1..Latest /\ 1..Latest = {1, 2, 3}
      BY DEF MemoryInv, MemoryTypeOK, Latest
    <3> QED BY <3>2, <3>3
  <2>3. PICK l \in {"list", "serving"} : pc' = [pc EXCEPT ![p] = l]
    BY <1>10 DEF Migrated, Goto
  <2>4. l \in Labels /\ l \notin {"migrate", "record", "commit"}
    BY DEF Labels, Past
  <2> QED BY <1>10, <2>1, <2>2, <2>3, <2>4, MoveStep DEF Migrated
<1>11. CASE AppendMessage(p)
  BY <1>11, AppendStep
<1>12. CASE Stop(p) \/ ListUnembedded(p) \/ EmbedDone(p)
  <2>1. writer # p
    BY <1>3, <1>12 DEF Stop, ListUnembedded, EmbedDone
  <2>2. PICK l \in {"down", "embed"} : pc' = [pc EXCEPT ![p] = l]
    BY <1>12 DEF Stop, ListUnembedded, EmbedDone, Goto
  <2>3. l \in Labels /\ l \notin {"migrate", "record", "commit"} /\ schema = 1..Latest
    BY <1>4, <1>12 DEF Labels, Past, Stop, ListUnembedded, EmbedDone
  <2> QED BY <1>12, <2>1, <2>2, <2>3, MoveStep DEF Stop, ListUnembedded, EmbedDone
<1>13. CASE EmbedFails(p)
  BY <1>1, <1>13 DEF EmbedFails
<1>14. ASSUME NEW m \in MessageIds, Embed(p, m) PROVE MemoryInv'
  BY <1>14 DEF Embed, MemoryInv, MemoryTypeOK, InOrder, Locked, Migrating, Indexed, Complete
<1>15. CASE Kill(p)
  BY <1>15, MoveStep DEF Kill, Goto, Labels, Past
<1> QED BY <1>5, <1>6, <1>7, <1>8, <1>9, <1>10, <1>11, <1>12, <1>13, <1>14, <1>15
        DEF Proceeds

LEMMA MemoryInvariance == MemorySpec => []MemoryInv
BY MemoryInitOK, MemoryStepOK, PTL DEF MemorySpec

(***************************************************************************)
(* Whatever processes start at the same time, fail and die, one that has   *)
(* got past Migrate has every version, each applied exactly once.          *)
(***************************************************************************)
THEOREM MigratedOnce == MemorySpec => []SchemaComplete
<1>1. MemoryInv => SchemaComplete
  BY DEF MemoryInv, Complete, Past, InOrder, SchemaComplete
<1> QED BY <1>1, MemoryInvariance, PTL

(***************************************************************************)
(* The full text index has every message once, also those of before there  *)
(* was an index: no message is appended by who has not got past Migrate,   *)
(* and none between the statements of its migration and their commit.      *)
(***************************************************************************)
THEOREM NothingUnindexed == MemorySpec => []IndexComplete
<1>1. MemoryInv => IndexComplete
  BY DEF MemoryInv, Indexed, IndexComplete
<1> QED BY <1>1, MemoryInvariance, PTL

-----------------------------------------------------------------------------
(***************************************************************************)
(* The tool loop.                                                          *)
(***************************************************************************)

Message == [role : {"system", "user", "assistant", "tool"},
            calls : Seq(Nat), for : Nat \cup {NoCall}]

LoopTypeOK == TypeOK /\ messages \in Seq(Message)

\* Of the calls of a round, which are numbered after all calls before them,
\* some are done, each with its result; those set `looping`.
RoundOK ==
  phase = "tools" =>
    \E done \in Nat :
      LET last == Len(messages)
          ids  == messages[last - done].calls
      IN  /\ done < last /\ done <= Len(seen)
          /\ Len(ids) = done + Len(todo) /\ ids # <<>>
          /\ \A i \in 1..done : /\ messages[last - done + i].calls = <<>>
                                /\ messages[last - done + i].role = "tool"
          /\ looping <=> \E k \in (Len(seen) - done + 1)..Len(seen) :
                           Repeats(SubSeq(seen, 1, k))

LEMMA LogType ==
  ASSUME TypeOK, NEW e \in Entries, LogAudit(e)
  PROVE  audit' \in Seq(Entries) /\ lost' \subseteq Entries
<1>1. audit \in Seq(Entries) /\ lost \subseteq Entries
  BY DEF TypeOK
<1> DEFINE E == Entries
<1>2. audit \in Seq(E) /\ e \in E
  BY <1>1
<1> HIDE DEF E
<1>3. Append(audit, e) \in Seq(E)
  BY <1>2
<1> QED BY <1>1, <1>3 DEF LogAudit, E

LEMMA EntryType ==
  /\ \A n \in Nat : \A a \in {"tool_call", "loop_detected", "llm_chat"} :
       Entry(a, n) \in Entries
BY DEF Entry, Entries

LEMMA MessageTypes ==
  /\ SystemMsg \in Message /\ UserMsg \in Message /\ AssistantMsg \in Message
  /\ \A ids \in Seq(Nat) : CallsMsg(ids) \in Message
  /\ \A id \in Nat : ToolMsg(id) \in Message
<1>1. <<>> \in Seq(Nat)
  OBVIOUS
<1> QED BY <1>1 DEF Message, SystemMsg, UserMsg, AssistantMsg, CallsMsg, ToolMsg

\* What a step does to the message list and to the calls.
LEMMA LoopTypeInit == Init => LoopTypeOK
<1> SUFFICES ASSUME Init PROVE LoopTypeOK
  OBVIOUS
<1>1. PICK h \in Contexts : messages = <<SystemMsg>> \o h \o <<UserMsg>>
  BY DEF Init
<1>2. <<SystemMsg>> \in Seq(Message) /\ <<UserMsg>> \in Seq(Message)
  BY MessageTypes
<1>3. h \in Seq(Message)
  <2>1. \A m \in {SystemMsg, UserMsg, AssistantMsg} : m \in Message
    BY MessageTypes
  <2> QED BY <2>1, LoopAssumption
<1>4. messages \in Seq(Message)
  BY <1>1, <1>2, <1>3
<1>5. MaxIterations \in Nat
  BY LoopAssumption
<1>6. TypeOK
  <2>1. <<>> \in Seq(Call) /\ <<>> \in Seq(Signatures)
        /\ <<>> \in Seq(Entries)
    OBVIOUS
  <2>2. requests \in 0..MaxIterations
    BY <1>5 DEF Init
  <2> QED BY <2>1, <2>2 DEF Init, TypeOK
<1> QED BY <1>4, <1>6 DEF LoopTypeOK

\* The calls of an answer get the numbers after those of all calls before.
LEMMA NewCalls ==
  ASSUME LoopTypeOK, AnswerWithCalls
  PROVE  \E n \in Nat \ {0} :
           /\ Len(todo') = n /\ todo' \in Seq(Call)
           /\ \A i \in 1..n : todo'[i].id = Len(seen) + i
           /\ messages' = Append(messages, CallsMsg([i \in 1..n |-> Len(seen) + i]))
           /\ [i \in 1..n |-> Len(seen) + i] \in Seq(Nat)
<1>1. PICK n \in 1..MaxCalls : \E sigs \in [1..n -> Signatures] :
        LET calls == [i \in 1..n |-> [id |-> Len(seen) + i, sig |-> sigs[i]]]
        IN  /\ todo' = calls
            /\ messages' = Append(messages, CallsMsg([i \in 1..n |-> calls[i].id]))
  BY DEF AnswerWithCalls
<1>2. PICK sigs \in [1..n -> Signatures] :
        LET calls == [i \in 1..n |-> [id |-> Len(seen) + i, sig |-> sigs[i]]]
        IN  /\ todo' = calls
            /\ messages' = Append(messages, CallsMsg([i \in 1..n |-> calls[i].id]))
  BY <1>1
<1>3. n \in Nat \ {0} /\ Len(seen) \in Nat
  BY LoopAssumption DEF LoopTypeOK, TypeOK
<1>4. \A i \in 1..n : [id |-> Len(seen) + i, sig |-> sigs[i]] \in Call
  BY <1>3 DEF Call
<1>5. todo' = [i \in 1..n |-> [id |-> Len(seen) + i, sig |-> sigs[i]]]
  BY <1>2
<1>6. todo' \in Seq(Call) /\ Len(todo') = n
  BY <1>3, <1>4, <1>5
<1>7. \A i \in 1..n : todo'[i].id = Len(seen) + i
  BY <1>5
<1>8. [i \in 1..n |-> [id |-> Len(seen) + i, sig |-> sigs[i]].id]
        = [i \in 1..n |-> Len(seen) + i]
  OBVIOUS
<1>9. messages' = Append(messages, CallsMsg([i \in 1..n |-> Len(seen) + i]))
  BY <1>2, <1>8
<1>10. [i \in 1..n |-> Len(seen) + i] \in Seq(Nat)
  BY <1>3
<1> QED BY <1>3, <1>6, <1>7, <1>9, <1>10

LEMMA LoopTypeStep == ASSUME LoopTypeOK, [Next]_vars PROVE LoopTypeOK'
<1> USE DEF LoopTypeOK, TypeOK, Returned
<1>1. CASE UNCHANGED vars \/ Request \/ Exhausted \/ RequestFails \/ OverLimit
  BY <1>1, LoopAssumption DEF vars, trail, Request, Exhausted, RequestFails, OverLimit
<1>2. CASE AnswerWithCalls
  <2>1. PICK n \in Nat \ {0} :
          /\ todo' \in Seq(Call)
          /\ messages' = Append(messages, CallsMsg([i \in 1..n |-> Len(seen) + i]))
          /\ [i \in 1..n |-> Len(seen) + i] \in Seq(Nat)
    BY <1>2, NewCalls
  <2>2. CallsMsg([i \in 1..n |-> Len(seen) + i]) \in Message
    BY <2>1, MessageTypes
  <2>3. messages' \in Seq(Message)
    BY <2>1, <2>2
  <2> QED BY <1>2, <2>1, <2>3 DEF AnswerWithCalls, trail
<1>3. CASE RunTool
  <2>1. Head(todo) \in Call /\ Tail(todo) \in Seq(Call)
    BY <1>3 DEF RunTool
  <2>2. Head(todo).sig \in Signatures /\ Head(todo).id \in Nat
    BY <2>1 DEF Call
  <2>3. ToolMsg(Head(todo).id) \in Message
    BY <2>2, MessageTypes
  <2>4. seen' \in Seq(Signatures) /\ messages' \in Seq(Message) /\ looping' \in BOOLEAN
    BY <1>3, <2>2, <2>3 DEF RunTool, Repeats
  <2>5. audit' \in Seq(Entries) /\ lost' \subseteq Entries
    <3>1. Entry("tool_call", Len(seen')) \in Entries
      BY <2>4, EntryType
    <3>2. LogAudit(Entry("tool_call", Len(seen')))
      BY <1>3 DEF RunTool
    <3> QED BY <3>1, <3>2, LogType
  <2> QED BY <1>3, <2>1, <2>4, <2>5 DEF RunTool
<1>4. CASE EndRound
  <2>1. UserMsg \in Message
    BY MessageTypes
  <2>2. messages' \in Seq(Message)
    <3>1. messages' = messages \/ messages' = Append(messages, UserMsg)
      BY <1>4 DEF EndRound
    <3>2. Append(messages, UserMsg) \in Seq(Message)
      BY <2>1
    <3> QED BY <3>1, <3>2
  <2>3. audit' \in Seq(Entries) /\ lost' \subseteq Entries
    <3>1. Entry("loop_detected", Len(seen)) \in Entries
      BY EntryType
    <3>2. LogAudit(Entry("loop_detected", Len(seen))) \/ UNCHANGED trail
      BY <1>4 DEF EndRound
    <3> HIDE DEF LoopTypeOK
    <3> QED BY <3>1, <3>2, LogType DEF trail, LoopTypeOK
  <2> QED BY <1>4, <2>2, <2>3 DEF EndRound
<1>5. CASE AnswerWithText
  <2>1. audit' \in Seq(Entries) /\ lost' \subseteq Entries
    <3>1. Entry("llm_chat", Len(seen)) \in Entries
      BY EntryType
    <3>2. LogAudit(Entry("llm_chat", Len(seen))) \/ UNCHANGED trail
      BY <1>5 DEF AnswerWithText
    <3> QED BY <3>1, <3>2, LogType DEF trail
  <2> QED BY <1>5, <2>1 DEF AnswerWithText
<1> QED BY <1>1, <1>2, <1>3, <1>4, <1>5 DEF Next, Chatting

-----------------------------------------------------------------------------
LEMMA RoundStep ==
  ASSUME LoopTypeOK, RoundOK, [Next]_vars
  PROVE  RoundOK'
<1>1. CASE UNCHANGED vars
  BY <1>1 DEF vars, RoundOK
<1>2. CASE Request \/ Exhausted \/ RequestFails \/ OverLimit \/ EndRound \/ AnswerWithText
  BY <1>2 DEF Request, Exhausted, RequestFails, OverLimit, EndRound, AnswerWithText,
              RoundOK
<1>3. CASE AnswerWithCalls
  <2>1. PICK n \in Nat \ {0} :
          /\ Len(todo') = n
          /\ messages' = Append(messages, CallsMsg([i \in 1..n |-> Len(seen) + i]))
    BY <1>3, NewCalls
  <2> DEFINE ids == [i \in 1..n |-> Len(seen) + i]
  <2>2. Len(ids) = n /\ ids # <<>>
    OBVIOUS
  <2>3. Len(messages') = Len(messages) + 1 /\ messages'[Len(messages')] = CallsMsg(ids)
    BY <2>1 DEF LoopTypeOK
  <2> HIDE DEF ids
  <2>4. UNCHANGED seen /\ ~looping' /\ Len(seen) \in Nat /\ Len(messages) \in Nat
    BY <1>3 DEF AnswerWithCalls, LoopTypeOK, TypeOK
  <2>5. messages'[Len(messages') - 0].calls = ids
    BY <2>3, <2>4 DEF CallsMsg
  <2>6. \E done \in Nat :
          LET now == Len(messages')
              its == messages'[now - done].calls
          IN  /\ done < now /\ done <= Len(seen')
              /\ Len(its) = done + Len(todo') /\ its # <<>>
              /\ \A i \in 1..done : /\ messages'[now - done + i].calls = <<>>
                                    /\ messages'[now - done + i].role = "tool"
              /\ looping' <=> \E k \in (Len(seen') - done + 1)..Len(seen') :
                                Repeats(SubSeq(seen', 1, k))
    <3> WITNESS 0 \in Nat
    <3> QED BY <2>1, <2>2, <2>3, <2>4, <2>5
  <2> QED BY <2>6 DEF RoundOK, Repeats
<1>4. CASE RunTool
  <2>1. /\ phase = "tools" /\ todo # <<>> /\ UNCHANGED phase
        /\ seen' = Append(seen, Head(todo).sig)
        /\ looping' <=> (looping \/ Repeats(seen'))
        /\ messages' = Append(messages, ToolMsg(Head(todo).id))
        /\ todo' = Tail(todo)
    BY <1>4 DEF RunTool
  <2>2. PICK done \in Nat :
          LET last == Len(messages)
              ids  == messages[last - done].calls
          IN  /\ done < last /\ done <= Len(seen)
              /\ Len(ids) = done + Len(todo) /\ ids # <<>>
              /\ \A i \in 1..done : /\ messages[last - done + i].calls = <<>>
                                    /\ messages[last - done + i].role = "tool"
              /\ looping <=> \E k \in (Len(seen) - done + 1)..Len(seen) :
                               Repeats(SubSeq(seen, 1, k))
    BY <2>1 DEF RoundOK
  <2> DEFINE last == Len(messages)
             n == Len(seen)
             new == done + 1
  <2>3. last \in Nat /\ n \in Nat /\ Len(todo') = Len(todo) - 1 /\ Len(todo) \in Nat
    BY <2>1 DEF LoopTypeOK, TypeOK
  <2>4. /\ Len(messages') = last + 1
        /\ \A i \in 1..last : messages'[i] = messages[i]
        /\ messages'[last + 1].calls = <<>> /\ messages'[last + 1].role = "tool"
    BY <2>1 DEF LoopTypeOK, ToolMsg
  <2>5. Len(seen') = n + 1 /\ \A k \in 1..n : seen'[k] = seen[k]
    BY <2>1 DEF LoopTypeOK, TypeOK
  <2>6. \A k \in 1..n : SubSeq(seen', 1, k) = SubSeq(seen, 1, k)
    <3>1. ASSUME NEW k \in 1..n PROVE SubSeq(seen', 1, k) = SubSeq(seen, 1, k)
      BY <2>3, <2>5
    <3> QED BY <3>1
  <2>7. SubSeq(seen', 1, n + 1) = seen'
    BY <2>1, <2>3, <2>5 DEF LoopTypeOK, TypeOK
  <2>8. looping' <=> \E k \in (Len(seen') - new + 1)..Len(seen') :
                       Repeats(SubSeq(seen', 1, k))
    <3>1. (Len(seen') - new + 1)..Len(seen') = (n - done + 1)..n \cup {n + 1}
      BY <2>2, <2>3, <2>5
    <3>2. (n - done + 1)..n \subseteq 1..n
      BY <2>2, <2>3
    <3> QED BY <2>1, <2>2, <2>5, <2>6, <2>7, <3>1, <3>2
  <2>9. /\ Len(messages') - new = last - done /\ last - done \in 1..last
        /\ messages'[Len(messages') - new] = messages[last - done]
    <3>1. Len(messages') - new = last - done /\ last - done \in 1..last
      BY <2>2, <2>3, <2>4
    <3> QED BY <2>4, <3>1
  <2>10. \A i \in 1..new : /\ messages'[Len(messages') - new + i].calls = <<>>
                           /\ messages'[Len(messages') - new + i].role = "tool"
    <3> SUFFICES ASSUME NEW i \in 1..new
                 PROVE  /\ messages'[last - done + i].calls = <<>>
                        /\ messages'[last - done + i].role = "tool"
      BY <2>9
    <3>1. CASE i = new
      BY <2>3, <2>4, <3>1
    <3>2. CASE i # new
      <4>1. i \in 1..done /\ last - done + i \in 1..last
        BY <2>2, <2>3, <3>2
      <4> QED BY <2>2, <2>4, <4>1
    <3> QED BY <3>1, <3>2
  <2>11. /\ new \in Nat /\ new < Len(messages') /\ new <= Len(seen')
         /\ Len(messages'[Len(messages') - new].calls) = new + Len(todo')
         /\ messages'[Len(messages') - new].calls # <<>>
    <3>1. new \in Nat /\ new < Len(messages') /\ new <= Len(seen')
      BY <2>2, <2>3, <2>4, <2>5
    <3>2. messages'[Len(messages') - new].calls = messages[last - done].calls
      BY <2>9
    <3>3. Len(messages[last - done].calls) = new + Len(todo')
      BY <2>2, <2>3
    <3> QED BY <2>2, <3>1, <3>2, <3>3
  <2> HIDE DEF last, n, new
  <2> QED BY <2>8, <2>10, <2>11 DEF RoundOK
<1> QED BY <1>1, <1>2, <1>3, <1>4 DEF Next, Chatting

LEMMA NudgeStep ==
  ASSUME LoopTypeOK, RoundOK, NudgedIffLooping, [Next]_vars
  PROVE  NudgedIffLooping'
<1>1. CASE UNCHANGED vars
  BY <1>1 DEF vars, NudgedIffLooping, Repeats
<1>2. CASE Request \/ Exhausted \/ RequestFails \/ OverLimit \/ AnswerWithCalls
             \/ RunTool \/ AnswerWithText
  BY <1>2 DEF Request, Exhausted, RequestFails, OverLimit, AnswerWithCalls, RunTool,
              AnswerWithText, NudgedIffLooping
<1>3. CASE EndRound
  <2>1. /\ phase = "tools" /\ todo = <<>> /\ UNCHANGED seen
        /\ messages' = IF looping THEN Append(messages, UserMsg) ELSE messages
    BY <1>3 DEF EndRound
  <2>2. PICK done \in Nat :
          LET last == Len(messages)
              ids  == messages[last - done].calls
          IN  /\ done < last /\ done <= Len(seen)
              /\ Len(ids) = done + Len(todo) /\ ids # <<>>
              /\ \A i \in 1..done : /\ messages[last - done + i].calls = <<>>
                                    /\ messages[last - done + i].role = "tool"
              /\ looping <=> \E k \in (Len(seen) - done + 1)..Len(seen) :
                               Repeats(SubSeq(seen, 1, k))
    BY <2>1 DEF RoundOK
  <2> DEFINE last == Len(messages)
             r == last - done
             calling == {i \in 1..Len(messages') : messages'[i].calls # <<>>}
  <2>3. last \in Nat /\ r \in 1..last /\ messages \in Seq(Message)
    BY <2>2 DEF LoopTypeOK
  <2>4. /\ messages[r].calls \in Seq(Nat) /\ messages[r].calls # <<>>
        /\ Len(messages[r].calls) = done /\ done >= 1
    <3>1. messages[r] \in Message
      BY <2>3
    <3>2. messages[r].calls \in Seq(Nat)
      BY <3>1 DEF Message
    <3> QED BY <2>1, <2>2, <3>2
  <2>5. /\ \A i \in 1..last : messages'[i] = messages[i]
        /\ looping => /\ Len(messages') = last + 1 /\ messages'[last + 1].calls = <<>>
                      /\ messages'[last + 1].role = "user"
        /\ ~looping => Len(messages') = last
    BY <2>1, <2>3 DEF UserMsg
  <2>6. Max(calling) = r
    <3>1. r \in calling
      BY <2>3, <2>4, <2>5
    <3>2. ASSUME NEW y \in calling, y > r PROVE FALSE
      <4>1. y \in Nat /\ y <= Len(messages') /\ messages'[y].calls # <<>>
        OBVIOUS
      <4>2. y <= last
        BY <2>3, <2>5, <4>1
      <4>3. y - r \in 1..done /\ y = last - done + (y - r) /\ y \in 1..last
        BY <2>2, <2>3, <3>2, <4>1, <4>2
      <4>4. messages[y].calls = <<>>
        BY <2>2, <4>3
      <4> QED BY <2>5, <4>1, <4>3, <4>4
    <3>3. \A y \in calling : r >= y /\ y \in Int
      BY <2>3, <3>2
    <3> HIDE DEF calling
    <3> QED BY <2>3, <3>1, <3>3 DEF Max
  <2>7. Last(messages').role = "user" <=> looping
    <3>1. CASE looping
      BY <2>5, <3>1 DEF Last
    <3>2. CASE ~looping
      <4>1. done \in 1..done /\ last - done + done = last
        BY <2>3, <2>4
      <4>2. messages[last].role = "tool"
        BY <2>2, <4>1
      <4> QED BY <2>1, <3>2, <4>2 DEF Last
    <3> QED BY <3>1, <3>2
  <2>8. Len(messages'[Max(calling)].calls) = done
    BY <2>3, <2>4, <2>5, <2>6
  <2>9. looping <=> \E k \in (Len(seen') - done + 1)..Len(seen') : Repeats(SubSeq(seen', 1, k))
    BY <2>1, <2>2
  <2> HIDE DEF last, r
  <2> QED BY <2>7, <2>8, <2>9 DEF NudgedIffLooping, Repeats
<1> QED BY <1>1, <1>2, <1>3 DEF Next, Chatting

-----------------------------------------------------------------------------
(***************************************************************************)
(* The request's two formats.                                              *)
(***************************************************************************)

Block == [type : {"text", "tool_use", "tool_result"}, id : Nat \cup {NoCall}]
Turn  == [role : {"user", "assistant"}, blocks : Seq(Block)]
Acc   == [out : Seq(Turn), pending : Seq(Block)]

Nothing  == [out |-> <<>>, pending |-> <<>>]
Conv(ms) == FoldLeft(ConvertOne, Nothing, ms)
ConvStep == [pair \in Acc \X Message |-> ConvertOne(pair[1], pair[2])]

LEMMA BlockTypes ==
  /\ TextBlock \in Block
  /\ \A id \in Nat : UseBlock(id) \in Block /\ ResultBlock(id) \in Block
  /\ \A id \in Nat \cup {NoCall} : ResultBlock(id) \in Block
BY DEF TextBlock, UseBlock, ResultBlock, Block

LEMMA MergeType ==
  ASSUME NEW out \in Seq(Turn), NEW blocks \in Seq(Block)
  PROVE  Merge(out, blocks) \in Seq(Turn)
<1>1. CASE out # <<>> /\ Last(out).role = "user"
  <2>1. Last(out) \in Turn /\ Front(out) \in Seq(Turn)
    BY <1>1 DEF Last, Front
  <2>2. Last(out).blocks \o blocks \in Seq(Block)
    BY <2>1 DEF Turn
  <2>3. [Last(out) EXCEPT !.blocks = @ \o blocks] \in Turn
    BY <2>1, <2>2 DEF Turn
  <2>4. <<[Last(out) EXCEPT !.blocks = @ \o blocks]>> \in Seq(Turn)
    BY <2>3
  <2> QED BY <1>1, <2>1, <2>4 DEF Merge
<1>2. CASE ~(out # <<>> /\ Last(out).role = "user")
  <2>1. [role |-> "user", blocks |-> blocks] \in Turn
    BY DEF Turn
  <2> QED BY <1>2, <2>1 DEF Merge
<1> QED BY <1>1, <1>2

LEMMA FlushType ==
  ASSUME NEW acc \in Acc
  PROVE  Flush(acc) \in Acc /\ Flush(acc).pending = <<>>
<1>1. acc.out \in Seq(Turn) /\ acc.pending \in Seq(Block)
  BY DEF Acc
<1>2. Merge(acc.out, acc.pending) \in Seq(Turn) /\ <<>> \in Seq(Block)
  BY <1>1, MergeType
<1> QED BY <1>2 DEF Flush, Acc

\* The blocks an assistant's message becomes.
Said(m) == IF m.calls = <<>> THEN <<TextBlock>>
           ELSE [i \in 1..Len(m.calls) |-> UseBlock(m.calls[i])]

LEMMA SaidType == ASSUME NEW m \in Message PROVE Said(m) \in Seq(Block)
<1>1. m.calls \in Seq(Nat)
  BY DEF Message
<1>2. \A i \in 1..Len(m.calls) : UseBlock(m.calls[i]) \in Block
  BY <1>1, BlockTypes
<1>3. <<TextBlock>> \in Seq(Block)
  BY BlockTypes
<1>4. Len(m.calls) \in Nat
  BY <1>1
<1> QED BY <1>2, <1>3, <1>4 DEF Said

LEMMA ConvertType ==
  ASSUME NEW acc \in Acc, NEW m \in Message
  PROVE  ConvertOne(acc, m) \in Acc
<1>1. Flush(acc) \in Acc /\ Flush(acc).out \in Seq(Turn)
  BY FlushType DEF Acc
<1>2. CASE m.role = "system"
  BY <1>2 DEF ConvertOne
<1>3. CASE m.role = "user"
  <2> DEFINE text == <<TextBlock>>
  <2>0. text \in Seq(Block)
    BY BlockTypes
  <2> HIDE DEF text
  <2>1. Merge(Flush(acc).out, text) \in Seq(Turn)
    BY <1>1, <2>0, MergeType
  <2>2. [Flush(acc) EXCEPT !.out = Merge(@, text)] \in Acc
    BY <1>1, <2>1 DEF Acc
  <2> QED BY <1>3, <2>2 DEF ConvertOne, text
<1>4. CASE m.role = "assistant"
  <2>1. [role |-> "assistant", blocks |-> Said(m)] \in Turn
    BY SaidType DEF Turn
  <2>2. Append(Flush(acc).out, [role |-> "assistant", blocks |-> Said(m)]) \in Seq(Turn)
    BY <1>1, <2>1
  <2>3. [Flush(acc) EXCEPT !.out = Append(@, [role |-> "assistant", blocks |-> Said(m)])]
          \in Acc
    BY <1>1, <2>2 DEF Acc
  <2> QED BY <1>4, <2>3 DEF ConvertOne, Said
<1>5. CASE m.role = "tool"
  <2>1. acc.pending \in Seq(Block) /\ ResultBlock(m.for) \in Block
    BY BlockTypes DEF Acc, Message
  <2>2. Append(acc.pending, ResultBlock(m.for)) \in Seq(Block)
    BY <2>1
  <2>3. [acc EXCEPT !.pending = Append(@, ResultBlock(m.for))] \in Acc
    BY <2>2 DEF Acc
  <2> QED BY <1>5, <2>3 DEF ConvertOne
<1> QED BY <1>2, <1>3, <1>4, <1>5 DEF Message

LEMMA ConvStepType ==
  /\ ConvStep \in [Acc \X Message -> Acc] /\ Nothing \in Acc
  /\ \A acc \in Acc, m \in Message : ConvStep[<<acc, m>>] = ConvertOne(acc, m)
<1>1. Nothing \in Acc
  BY DEF Nothing, Acc
<1>2. \A pair \in Acc \X Message : ConvertOne(pair[1], pair[2]) \in Acc
  BY ConvertType
<1> QED BY <1>1, <1>2 DEF ConvStep

LEMMA ConvClosed ==
  ASSUME NEW s \in Seq(Message)
  PROVE  FoldStays(Acc, ConvStep, Nothing, s)
<1>1. \A acc \in Acc : \A n \in 1..Len(s) : ConvStep[<<acc, s[n]>>] \in Acc
  <2> TAKE acc \in Acc
  <2> TAKE n \in 1..Len(s)
  <2>1. s[n] \in Message
    OBVIOUS
  <2>2. ConvertOne(acc, s[n]) \in Acc
    BY <2>1, ConvertType
  <2> QED BY <2>1, <2>2, ConvStepType
<1> QED BY <1>1, ConvStepType DEF FoldStays

LEMMA ConvIs ==
  ASSUME NEW s \in Seq(Message)
  PROVE  Conv(s) = Folded(Acc, ConvStep, Nothing, s)
<1> DEFINE E(iter) ==
             iter = [t \in SUBSET DOMAIN s |->
                       IF t = {} THEN Nothing
                       ELSE ConvertOne(iter[t \ {Max(t)}], s[Max(t)])]
           c == CHOOSE iter : E(iter)
<1>1. DOMAIN s = 1..Len(s) /\ Len(s) \in Nat
  OBVIOUS
<1>2. Conv(s) = c[DOMAIN s]
  BY DEF Conv, FoldLeft, MapThenFoldSet
<1>3. \E iter : E(iter)
  <2>1. PICK h \in [SUBSET (1..Len(s)) -> Acc] : SetFold(h, ConvStep, Nothing, s)
    BY ConvClosed, SetFoldExists
  <2>2. ASSUME NEW t \in SUBSET DOMAIN s, t # {}
        PROVE  h[t] = ConvertOne(h[t \ {Max(t)}], s[Max(t)])
    <3>1. Max(t) \in 1..Len(s)
      BY <1>1, <2>2, MaxIn
    <3>2. s[Max(t)] \in Message /\ h[t \ {Max(t)}] \in Acc
      BY <1>1, <3>1
    <3>3. h[t] = ConvStep[<<h[t \ {Max(t)}], s[Max(t)]>>]
      BY <1>1, <2>1, <2>2 DEF SetFold
    <3> QED BY <3>2, <3>3, ConvStepType
  <2>3. h[{}] = Nothing
    BY <2>1 DEF SetFold
  <2>4. E(h)
    BY <1>1, <2>2, <2>3
  <2> QED BY <2>4
<1>4. E(c)
  BY <1>3
<1> HIDE DEF c
<1>5. c[{}] = Nothing
  BY <1>4
<1>6. ASSUME NEW n \in 1..Len(s), c[1..(n - 1)] \in Acc
      PROVE  c[1..n] = ConvStep[<<c[1..(n - 1)], s[n]>>]
  <2>0. n \in Nat /\ n # 0
    BY <1>1
  <2>1. Max(1..n) = n /\ (1..n) \ {n} = 1..(n - 1) /\ 1..n # {}
    BY <2>0, MaxOfFirst
  <2>2. 1..n \in SUBSET DOMAIN s
    BY <1>1
  <2>3. c[1..n] = ConvertOne(c[(1..n) \ {Max(1..n)}], s[Max(1..n)])
    BY <1>4, <2>1, <2>2, Zenon
  <2>4. c[1..n] = ConvertOne(c[1..(n - 1)], s[n])
    BY <2>1, <2>3
  <2>5. s[n] \in Message
    OBVIOUS
  <2> QED BY <1>6, <2>4, <2>5, ConvStepType
<1> HIDE DEF E
<1>7. c[1..Len(s)] = Folded(Acc, ConvStep, Nothing, s)
  <2>1. SetSteps(c, Acc, ConvStep, Nothing, s)
    BY <1>5, <1>6 DEF SetSteps
  <2> QED BY <2>1, ConvClosed, SetFoldIs
<1> QED BY <1>1, <1>2, <1>7

\* Nothing, and one message more.
LEMMA ConvEmpty == Conv(<<>>) = Nothing
<1>1. Folded(Acc, ConvStep, Nothing, <<>>) = Nothing
  BY ConvStepType, FoldedNone
<1>2. <<>> \in Seq(Message)
  OBVIOUS
<1> QED BY <1>1, <1>2, ConvIs

LEMMA ConvAppend ==
  ASSUME NEW s \in Seq(Message), NEW m \in Message
  PROVE  /\ Conv(s) \in Acc
         /\ Conv(Append(s, m)) = ConvertOne(Conv(s), m)
<1> DEFINE t == Append(s, m)
<1>1. t \in Seq(Message) /\ IsAppend(t, s, m)
  BY DEF IsAppend
<1> HIDE DEF t
<1>6. IsAppend(t, s, m)
  BY <1>1
<1>7. FoldStays(Acc, ConvStep, Nothing, t)
  BY <1>1, ConvClosed
<1>2. FoldStays(Acc, ConvStep, Nothing, t) /\ FoldStays(Acc, ConvStep, Nothing, s)
  BY <1>1, ConvClosed
<1>3. Folded(Acc, ConvStep, Nothing, s) \in Acc
  BY <1>2, FoldedType
<1>4. Folded(Acc, ConvStep, Nothing, t)
        = ConvStep[<<Folded(Acc, ConvStep, Nothing, s), m>>]
  <2>1. FoldGrows(Acc, ConvStep, Nothing, s, m, t)
    BY <1>6, <1>7, FoldedAppend, Zenon
  <2> QED BY <2>1 DEF FoldGrows
<1>5. Conv(s) \in Acc /\ Conv(t) = ConvStep[<<Conv(s), m>>]
  BY <1>1, <1>3, <1>4, ConvIs
<1> QED BY <1>5, ConvStepType DEF t

-----------------------------------------------------------------------------
\* The ids of blocks, as a fold of Block steps.
Ids == Seq(Nat \cup {NoCall})
IdsStep(type) == [pair \in Ids \X Block |->
                    IF pair[2].type = type THEN Append(pair[1], pair[2].id) ELSE pair[1]]

LEMMA IdsStepType ==
  ASSUME NEW type, NEW ids \in Ids, NEW b \in Block
  PROVE  /\ IdsStep(type)[<<ids, b>>] = IF b.type = type THEN Append(ids, b.id) ELSE ids
         /\ IdsStep(type)[<<ids, b>>] \in Ids
<1>1. b.id \in Nat \cup {NoCall}
  BY DEF Block
<1>2. Append(ids, b.id) \in Ids
  BY <1>1 DEF Ids
<1>3. IdsStep(type)[<<ids, b>>] = IF b.type = type THEN Append(ids, b.id) ELSE ids
  BY DEF IdsStep
<1> QED BY <1>2, <1>3

LEMMA IdsClosed ==
  ASSUME NEW type, NEW s \in Seq(Block)
  PROVE  FoldStays(Ids, IdsStep(type), <<>>, s)
<1>1. \A ids \in Ids : \A n \in 1..Len(s) : IdsStep(type)[<<ids, s[n]>>] \in Ids
  <2> TAKE ids \in Ids
  <2> TAKE n \in 1..Len(s)
  <2>1. s[n] \in Block
    OBVIOUS
  <2> QED BY <2>1, IdsStepType
<1>2. <<>> \in Ids
  BY DEF Ids
<1> QED BY <1>1, <1>2 DEF FoldStays

LEMMA IdsIs ==
  ASSUME NEW type, NEW msg, msg.blocks \in Seq(Block)
  PROVE  BlockIds(msg, type) = Folded(Ids, IdsStep(type), <<>>, msg.blocks)
<1> DEFINE s == msg.blocks
           E(iter) ==
             iter = [t \in SUBSET DOMAIN s |->
                       IF t = {} THEN <<>>
                       ELSE IF s[Max(t)].type = type
                            THEN Append(iter[t \ {Max(t)}], s[Max(t)].id)
                            ELSE iter[t \ {Max(t)}]]
           c == CHOOSE iter : E(iter)
<1>1. DOMAIN s = 1..Len(s) /\ Len(s) \in Nat /\ s \in Seq(Block)
  OBVIOUS
<1>2. BlockIds(msg, type) = c[DOMAIN s]
  BY DEF BlockIds, FoldLeft, MapThenFoldSet
<1> HIDE DEF s
<1>3. \E iter : E(iter)
  <2>1. PICK h \in [SUBSET (1..Len(s)) -> Ids] : SetFold(h, IdsStep(type), <<>>, s)
    BY <1>1, IdsClosed, SetFoldExists
  <2>2. ASSUME NEW t \in SUBSET DOMAIN s, t # {}
        PROVE  h[t] = IF s[Max(t)].type = type
                      THEN Append(h[t \ {Max(t)}], s[Max(t)].id) ELSE h[t \ {Max(t)}]
    <3>1. Max(t) \in 1..Len(s)
      BY <1>1, <2>2, MaxIn
    <3>2. s[Max(t)] \in Block /\ h[t \ {Max(t)}] \in Ids
      BY <1>1, <3>1
    <3>3. h[t] = IdsStep(type)[<<h[t \ {Max(t)}], s[Max(t)]>>]
      BY <1>1, <2>1, <2>2 DEF SetFold
    <3> QED BY <3>2, <3>3, IdsStepType
  <2>3. h[{}] = <<>>
    BY <2>1 DEF SetFold
  <2>4. E(h)
    BY <1>1, <2>2, <2>3
  <2> QED BY <2>4
<1>4. E(c)
  BY <1>3
<1> HIDE DEF c
<1>5. c[{}] = <<>>
  BY <1>4
<1>6. ASSUME NEW n \in 1..Len(s), c[1..(n - 1)] \in Ids
      PROVE  c[1..n] = IdsStep(type)[<<c[1..(n - 1)], s[n]>>]
  <2>0. n \in Nat /\ n # 0
    BY <1>1
  <2>1. Max(1..n) = n /\ (1..n) \ {n} = 1..(n - 1) /\ 1..n # {}
    BY <2>0, MaxOfFirst
  <2>2. 1..n \in SUBSET DOMAIN s
    BY <1>1
  <2>3. c[1..n] = IF s[Max(1..n)].type = type
                  THEN Append(c[(1..n) \ {Max(1..n)}], s[Max(1..n)].id)
                  ELSE c[(1..n) \ {Max(1..n)}]
    BY <1>4, <2>1, <2>2, Zenon
  <2>4. c[1..n] = IF s[n].type = type THEN Append(c[1..(n - 1)], s[n].id)
                  ELSE c[1..(n - 1)]
    BY <2>1, <2>3
  <2>5. s[n] \in Block
    BY <1>1
  <2> QED BY <1>6, <2>4, <2>5, IdsStepType
<1> HIDE DEF E
<1>7. c[1..Len(s)] = Folded(Ids, IdsStep(type), <<>>, s)
  <2>1. SetSteps(c, Ids, IdsStep(type), <<>>, s)
    BY <1>5, <1>6 DEF SetSteps
  <2> QED BY <1>1, <2>1, IdsClosed, SetFoldIs
<1> QED BY <1>1, <1>2, <1>7 DEF s

\* One block more.
LEMMA IdsAppend ==
  ASSUME NEW type, NEW msg, NEW more, NEW b \in Block,
         msg.blocks \in Seq(Block), more.blocks = Append(msg.blocks, b)
  PROVE  /\ BlockIds(msg, type) \in Ids
         /\ BlockIds(more, type) = IF b.type = type THEN Append(BlockIds(msg, type), b.id)
                                   ELSE BlockIds(msg, type)
<1> DEFINE s == msg.blocks
           t == more.blocks
           g == IdsStep(type)
<1>1. s \in Seq(Block) /\ t \in Seq(Block) /\ IsAppend(t, s, b)
  BY DEF IsAppend
<1>2. BlockIds(msg, type) = Folded(Ids, g, <<>>, s)
      /\ BlockIds(more, type) = Folded(Ids, g, <<>>, t)
  BY <1>1, IdsIs
<1>3. FoldStays(Ids, g, <<>>, s) /\ FoldStays(Ids, g, <<>>, t)
  BY <1>1, IdsClosed
<1> HIDE DEF s, t, g
<1>4. Folded(Ids, g, <<>>, s) \in Ids
  BY <1>3, FoldedType
<1>5. FoldGrows(Ids, g, <<>>, s, b, t)
  BY <1>1, <1>3, FoldedAppend, Zenon
<1>6. BlockIds(more, type) = g[<<BlockIds(msg, type), b>>] /\ BlockIds(msg, type) \in Ids
  BY <1>2, <1>4, <1>5 DEF FoldGrows
<1> QED BY <1>6, IdsStepType DEF g

LEMMA IdsNone ==
  ASSUME NEW type, NEW msg, msg.blocks = <<>>
  PROVE  BlockIds(msg, type) = <<>>
<1>1. <<>> \in Seq(Block) /\ <<>> \in Ids
  BY DEF Ids
<1>2. BlockIds(msg, type) = Folded(Ids, IdsStep(type), <<>>, <<>>)
  BY <1>1, IdsIs
<1> QED BY <1>1, <1>2, FoldedNone

\* The blocks of one kind for some calls.
BlocksOf(kind, ids) == [i \in 1..Len(ids) |-> [type |-> kind, id |-> ids[i]]]
Kinds == {"text", "tool_use", "tool_result"}

LEMMA BlocksOfType ==
  ASSUME NEW kind \in Kinds, NEW ids \in Seq(Nat)
  PROVE  /\ BlocksOf(kind, ids) \in Seq(Block) /\ Len(BlocksOf(kind, ids)) = Len(ids)
         /\ \A i \in 1..Len(ids) : BlocksOf(kind, ids)[i] = [type |-> kind, id |-> ids[i]]
<1>1. \A i \in 1..Len(ids) : [type |-> kind, id |-> ids[i]] \in Block
  BY DEF Block, Kinds
<1>2. Len(ids) \in Nat
  OBVIOUS
<1> QED BY <1>1, <1>2 DEF BlocksOf

LEMMA IdsOfKind ==
  ASSUME NEW kind \in Kinds, NEW type \in Kinds, NEW ids \in Seq(Nat), NEW msg,
         msg.blocks = BlocksOf(kind, ids)
  PROVE  BlockIds(msg, type) = IF kind = type THEN ids ELSE <<>>
<1> DEFINE s == msg.blocks
           g == IdsStep(type)
           n == Len(ids)
           f == [k \in 0..n |-> IF kind = type THEN SubSeq(ids, 1, k) ELSE <<>>]
<1>1. s \in Seq(Block) /\ Len(s) = n /\ n \in Nat
      /\ \A k \in 1..n : s[k] = [type |-> kind, id |-> ids[k]]
  BY BlocksOfType
<1>2. BlockIds(msg, type) = Folded(Ids, g, <<>>, s)
  BY <1>1, IdsIs
<1> HIDE DEF s, g
<1>3. \A k \in 0..n : f[k] \in Ids
  <2> TAKE k \in 0..n
  <2>1. SubSeq(ids, 1, k) \in Seq(Nat) /\ <<>> \in Ids
    BY DEF Ids
  <2>2. SubSeq(ids, 1, k) \in Ids
    BY <2>1 DEF Ids
  <2> QED BY <2>1, <2>2
<1>4. f[0] = <<>> /\ f[n] = IF kind = type THEN ids ELSE <<>>
  <2>1. 0 \in 0..n /\ n \in 0..n
    OBVIOUS
  <2>2. SubSeq(ids, 1, 0) = <<>>
    OBVIOUS
  <2>3. SubSeq(ids, 1, n) = ids
    OBVIOUS
  <2> QED BY <2>1, <2>2, <2>3
<1>5. ASSUME NEW k \in 1..n PROVE f[k] = g[<<f[k - 1], s[k]>>]
  <2>0. k - 1 \in 0..n /\ k \in 0..n /\ k \in 1..Len(s)
    BY <1>1
  <2>1. k - 1 \in 0..n /\ k \in 0..n /\ s[k] \in Block
        /\ s[k].type = kind /\ s[k].id = ids[k]
    <3>1. s[k] \in Block
      BY <1>1, <2>0
    <3>2. s[k] = [type |-> kind, id |-> ids[k]]
      BY <1>1
    <3> QED BY <2>0, <3>1, <3>2
  <2>2. g[<<f[k - 1], s[k]>>]
          = IF s[k].type = type THEN Append(f[k - 1], s[k].id) ELSE f[k - 1]
    <3>1. f[k - 1] \in Ids
      BY <1>3, <2>1
    <3> HIDE DEF f
    <3> QED BY <2>1, <3>1, IdsStepType DEF g
  <2>3. SubSeq(ids, 1, k) = Append(SubSeq(ids, 1, k - 1), ids[k])
    BY <2>1
  <2> QED BY <2>1, <2>2, <2>3
<1>6. f \in [0..n -> Ids]
  BY <1>3
<1> HIDE DEF f, n
<1>7. IsFold(f, Ids, g, <<>>, s)
  BY <1>1, <1>4, <1>5, <1>6 DEF IsFold
<1>8. Folded(Ids, g, <<>>, s) = f[Len(s)]
  BY <1>1, <1>7, FoldedIs
<1> QED BY <1>1, <1>2, <1>4, <1>8

-----------------------------------------------------------------------------
\* A request the Messages API accepts, its roles in turn; or, unless strict,
\* in turn but for answers saved before.
InTurn(out, strict) ==
  \A i \in 1..Len(out) :
    out[i].role # RoleBefore(out, i) \/ (~strict /\ SavedAnswer(out[i]))

GoodOut(out, strict) ==
  /\ out \in Seq(Turn) /\ out # <<>>
  /\ InTurn(out, strict) /\ ResultsFollowCalls(out) /\ Last(out).role = "user"

CallsTurn(ids) == [role |-> "assistant", blocks |-> BlocksOf("tool_use", ids)]

\* A round of calls, answered, makes of such a request another.
LEMMA RoundConverts ==
  ASSUME NEW good, NEW strict, GoodOut(good, strict), NEW ids \in Seq(Nat), NEW results \in Seq(Block),
         BlockIds([role |-> "user", blocks |-> results], "tool_result") = ids
  PROVE  GoodOut(Append(Append(good, CallsTurn(ids)),
                        [role |-> "user", blocks |-> results]), strict)
<1> DEFINE n    == Len(good)
           call == CallsTurn(ids)
           user == [role |-> "user", blocks |-> results]
           out  == Append(Append(good, call), user)
<1>1. good \in Seq(Turn) /\ good # <<>> /\ n \in Nat /\ n >= 1 /\ good[n].role = "user"
  BY DEF GoodOut, Last
<1>2. call \in Turn /\ user \in Turn /\ call.role = "assistant" /\ user.role = "user"
  BY BlocksOfType DEF CallsTurn, Turn, Kinds
<1>3. BlockIds(call, "tool_use") = ids /\ BlockIds(user, "tool_result") = ids
  BY IdsOfKind DEF CallsTurn, Kinds
<1> HIDE DEF call, user
<1>4. /\ out \in Seq(Turn) /\ Len(out) = n + 2
      /\ \A i \in 1..n : out[i] = good[i]
      /\ out[n + 1] = call /\ out[n + 2] = user
  BY <1>1, <1>2
<1> HIDE DEF out
<1>6. InTurn(out, strict)
  <2> SUFFICES ASSUME NEW i \in 1..(n + 2)
               PROVE  out[i].role # RoleBefore(out, i) \/ (~strict /\ SavedAnswer(out[i]))
    BY <1>4 DEF InTurn
  <2>1. CASE i \in 1..n
    <3>1. RoleBefore(out, i) = RoleBefore(good, i)
      <4>1. i # 1 => i - 1 \in 1..n
        BY <2>1
      <4> QED BY <1>4, <4>1 DEF RoleBefore
    <3> QED BY <1>4, <2>1, <3>1 DEF GoodOut, InTurn
  <2>2. CASE i = n + 1
    <3>1. i # 1 /\ i - 1 = n /\ n \in 1..n
      BY <1>1, <2>2
    <3> QED BY <1>1, <1>2, <1>4, <2>2, <3>1 DEF RoleBefore
  <2>3. CASE i = n + 2
    <3>1. i # 1 /\ i - 1 = n + 1
      BY <1>1, <2>3
    <3> QED BY <1>2, <1>4, <2>3, <3>1 DEF RoleBefore
  <2> QED BY <1>1, <2>1, <2>2, <2>3
<1>7. ResultsFollowCalls(out)
  <2> SUFFICES ASSUME NEW i \in 1..(n + 2)
               PROVE  /\ out[i].role = "assistant" /\ BlockIds(out[i], "tool_use") # <<>> =>
                           /\ i < n + 2
                           /\ BlockIds(out[i + 1], "tool_result") = BlockIds(out[i], "tool_use")
                      /\ out[i].role = "user" /\ BlockIds(out[i], "tool_result") # <<>> =>
                           /\ i > 1
                           /\ BlockIds(out[i - 1], "tool_use") = BlockIds(out[i], "tool_result")
    BY <1>4 DEF ResultsFollowCalls
  <2>1. CASE i \in 1..n
    <3>1. /\ good[i].role = "assistant" /\ BlockIds(good[i], "tool_use") # <<>> =>
               /\ i < n
               /\ BlockIds(good[i + 1], "tool_result") = BlockIds(good[i], "tool_use")
          /\ good[i].role = "user" /\ BlockIds(good[i], "tool_result") # <<>> =>
               /\ i > 1
               /\ BlockIds(good[i - 1], "tool_use") = BlockIds(good[i], "tool_result")
      BY <2>1 DEF GoodOut, ResultsFollowCalls
    <3>2. out[i] = good[i]
      BY <1>4, <2>1
    <3>3. i < n => out[i + 1] = good[i + 1] /\ i < n + 2
      <4>1. i < n => i + 1 \in 1..n
        BY <1>1, <2>1
      <4> QED BY <1>1, <1>4, <2>1, <4>1
    <3>4. i > 1 => out[i - 1] = good[i - 1]
      <4>1. i > 1 => i - 1 \in 1..n
        BY <1>1, <2>1
      <4> QED BY <1>4, <4>1
    <3> QED BY <3>1, <3>2, <3>3, <3>4
  <2>2. CASE i = n + 1
    <3>1. i + 1 = n + 2 /\ i < n + 2
      BY <1>1, <2>2
    <3> QED BY <1>2, <1>3, <1>4, <2>2, <3>1
  <2>3. CASE i = n + 2
    <3>1. i - 1 = n + 1 /\ i > 1
      BY <1>1, <2>3
    <3> QED BY <1>2, <1>3, <1>4, <2>3, <3>1
  <2> QED BY <1>1, <2>1, <2>2, <2>3
<1>8. out # <<>> /\ Last(out) = user
  BY <1>1, <1>4 DEF Last
<1> QED BY <1>2, <1>4, <1>6, <1>7, <1>8 DEF GoodOut, out, call, user

Numbers(base, n) == [i \in 1..n |-> base + i]

LEMMA NumbersType ==
  ASSUME NEW base \in Nat, NEW n \in Nat
  PROVE  Numbers(base, n) \in Seq(Nat) /\ Len(Numbers(base, n)) = n
BY DEF Numbers

LEMMA ResultsGrow ==
  ASSUME NEW base \in Nat, NEW k \in Nat
  PROVE  BlocksOf("tool_result", Numbers(base, k + 1))
           = Append(BlocksOf("tool_result", Numbers(base, k)), ResultBlock(base + k + 1))
<1> DEFINE s == BlocksOf("tool_result", Numbers(base, k))
           t == BlocksOf("tool_result", Numbers(base, k + 1))
           b == ResultBlock(base + k + 1)
<1>1. /\ Numbers(base, k) \in Seq(Nat) /\ Len(Numbers(base, k)) = k
      /\ Numbers(base, k + 1) \in Seq(Nat) /\ Len(Numbers(base, k + 1)) = k + 1
      /\ \A i \in 1..k : Numbers(base, k)[i] = base + i
      /\ \A i \in 1..(k + 1) : Numbers(base, k + 1)[i] = base + i
  BY NumbersType DEF Numbers
<1>2. /\ s \in Seq(Block) /\ Len(s) = k
      /\ \A i \in 1..k : s[i] = [type |-> "tool_result", id |-> base + i]
  <2> DEFINE ids == Numbers(base, k)
  <2> HIDE DEF ids
  <2>1. ids \in Seq(Nat) /\ Len(ids) = k /\ \A i \in 1..k : ids[i] = base + i
    BY <1>1 DEF ids
  <2>2. /\ BlocksOf("tool_result", ids) \in Seq(Block)
        /\ Len(BlocksOf("tool_result", ids)) = k
        /\ \A i \in 1..k : BlocksOf("tool_result", ids)[i]
                             = [type |-> "tool_result", id |-> ids[i]]
    BY <2>1, BlocksOfType DEF Kinds
  <2> QED BY <2>1, <2>2 DEF ids
<1>3. /\ t \in Seq(Block) /\ Len(t) = k + 1
      /\ \A i \in 1..(k + 1) : t[i] = [type |-> "tool_result", id |-> base + i]
  BY <1>1, BlocksOfType DEF Kinds
<1>4. b = [type |-> "tool_result", id |-> base + (k + 1)] /\ b \in Block
  BY BlockTypes DEF ResultBlock
<1> HIDE DEF s, t, b
<1>5. Append(s, b) \in Seq(Block) /\ Len(Append(s, b)) = k + 1
      /\ \A i \in 1..(k + 1) : Append(s, b)[i] = t[i]
  <2>1. Append(s, b) \in Seq(Block) /\ Len(Append(s, b)) = k + 1
    BY <1>2, <1>4
  <2>2. ASSUME NEW i \in 1..(k + 1) PROVE Append(s, b)[i] = t[i]
    <3>1. CASE i = k + 1
      BY <1>2, <1>3, <1>4, <3>1
    <3>2. CASE i # k + 1
      <4>1. i \in 1..k
        BY <3>2
      <4> QED BY <1>2, <1>3, <4>1
    <3> QED BY <3>1, <3>2
  <2> QED BY <2>1, <2>2
<1>6. t = Append(s, b)
  BY <1>3, <1>5
<1> QED BY <1>6 DEF s, t, b

LEMMA FrontOfAppend ==
  ASSUME NEW S, NEW s \in Seq(S), NEW x \in S
  PROVE  Front(Append(s, x)) = s /\ Last(Append(s, x)) = x /\ Append(s, x) # <<>>
<1> DEFINE t == Append(s, x)
<1>1. t \in Seq(S) /\ Len(t) = Len(s) + 1 /\ t[Len(s) + 1] = x
      /\ \A i \in 1..Len(s) : t[i] = s[i]
  OBVIOUS
<1> HIDE DEF t
<1>2. SubSeq(t, 1, Len(s)) = s
  BY <1>1
<1> QED BY <1>1, <1>2 DEF t, Front, Last

\* The results of a round, all of them, become the next user turn; so does
\* a nudge after them.
LEMMA RoundAnswered ==
  ASSUME NEW conv \in Acc, NEW good, NEW strict, GoodOut(good, strict), NEW ids \in Seq(Nat), ids # <<>>,
         conv.out = Append(good, CallsTurn(ids)),
         conv.pending = BlocksOf("tool_result", ids)
  PROVE  /\ GoodOut(Flush(conv).out, strict)
         /\ GoodOut(Flush(ConvertOne(conv, UserMsg)).out, strict)
<1> DEFINE results == BlocksOf("tool_result", ids)
           called  == Append(good, CallsTurn(ids))
           turn    == [role |-> "user", blocks |-> results]
           both    == Append(results, TextBlock)
           nudged  == [role |-> "user", blocks |-> both]
<1>1. good \in Seq(Turn) /\ CallsTurn(ids) \in Turn /\ CallsTurn(ids).role = "assistant"
  BY BlocksOfType DEF CallsTurn, Turn, GoodOut, Kinds
<1>2. called \in Seq(Turn) /\ called # <<>> /\ Last(called) = CallsTurn(ids)
  <2>1. called \in Seq(Turn)
    BY <1>1
  <2> QED BY <1>1, <2>1, FrontOfAppend
<1>3. results \in Seq(Block) /\ results # <<>> /\ both \in Seq(Block)
      /\ turn \in Turn /\ nudged \in Turn
  <2>1. results \in Seq(Block) /\ Len(results) = Len(ids)
    BY BlocksOfType DEF Kinds
  <2>2. both \in Seq(Block)
    BY <2>1, BlockTypes
  <2> QED BY <2>1, <2>2 DEF Turn
<1>4. BlockIds(turn, "tool_result") = ids
  BY IdsOfKind DEF Kinds
<1>5. BlockIds(nudged, "tool_result") = ids
  <2>1. /\ turn.blocks \in Seq(Block) /\ nudged.blocks = Append(turn.blocks, TextBlock)
        /\ TextBlock \in Block /\ TextBlock.type # "tool_result"
    BY <1>3, BlockTypes DEF TextBlock
  <2> HIDE DEF turn, nudged
  <2> QED BY <1>4, <2>1, IdsAppend
<1>6. GoodOut(Append(called, turn), strict)
  BY <1>3, <1>4, RoundConverts
<1>7. GoodOut(Append(called, nudged), strict)
  BY <1>3, <1>5, RoundConverts
<1> HIDE DEF called, results
<1>8. Merge(called, results) = Append(called, turn)
  BY <1>1, <1>2 DEF Merge
<1>9. Flush(conv) = [out |-> Append(called, turn), pending |-> <<>>]
  BY <1>3, <1>8 DEF Flush, called, results
<1>10. Merge(Append(called, turn), <<TextBlock>>) = Append(called, nudged)
  <2> DEFINE long == Append(called, turn)
  <2>1. long # <<>> /\ Last(long) = turn /\ Front(long) = called
    <3> HIDE DEF turn
    <3> QED BY <1>2, <1>3, FrontOfAppend
  <2>2. [turn EXCEPT !.blocks = @ \o <<TextBlock>>] = nudged
    <3>1. results \o <<TextBlock>> = both
      BY <1>3, BlockTypes
    <3>2. [turn EXCEPT !.blocks = @ \o <<TextBlock>>]
            = [role |-> "user", blocks |-> results \o <<TextBlock>>]
      <4> DEFINE more == results \o <<TextBlock>>
      <4>1. turn.blocks \o <<TextBlock>> = more
        OBVIOUS
      <4> HIDE DEF more
      <4>2. [turn EXCEPT !.blocks = more] = [role |-> "user", blocks |-> more]
        OBVIOUS
      <4> QED BY <4>1, <4>2 DEF more
    <3> QED BY <3>1, <3>2
  <2>3. called \o <<nudged>> = Append(called, nudged)
    BY <1>2, <1>3
  <2> HIDE DEF long, nudged
  <2>4. Last(long).role = "user"
    BY <2>1
  <2> HIDE DEF turn
  <2> QED BY <2>1, <2>2, <2>3, <2>4 DEF Merge, long
<1>11. ConvertOne(conv, UserMsg) = [out |-> Append(called, nudged), pending |-> <<>>]
  <2>1. ConvertOne(conv, UserMsg)
          = [Flush(conv) EXCEPT !.out = Merge(@, <<TextBlock>>)]
    BY DEF ConvertOne, UserMsg
  <2> HIDE DEF turn, nudged
  <2>2. Flush(conv).out = Append(called, turn) /\ Flush(conv).pending = <<>>
    BY <1>9
  <2> QED BY <1>9, <1>10, <2>1, <2>2
<1>12. Flush(ConvertOne(conv, UserMsg)).out = Append(called, nudged)
  BY <1>11 DEF Flush
<1> QED BY <1>6, <1>7, <1>9, <1>12

-----------------------------------------------------------------------------
\* The calls still to run have the numbers after those that ran.
TodoOK ==
  /\ phase \in {"send", "wait"} => todo = <<>>
  /\ \A i \in 1..Len(todo) : todo[i].id = Len(seen) + i

\* A round's calls come after a request that was accepted; the results that
\* are there are those of its first calls.
RoundOpen(conv, strict) ==
  \E good \in Seq(Turn), base \in Nat, n \in Nat :
    /\ GoodOut(good, strict) /\ n >= 1
    /\ base <= Len(seen) /\ Len(seen) + Len(todo) = base + n
    /\ conv.out = Append(good, CallsTurn(Numbers(base, n)))
    /\ conv.pending = BlocksOf("tool_result", Numbers(base, Len(seen) - base))

AnthropicOK ==
  /\ phase \in {"send", "wait"} =>
       GoodOut(Flush(Conv(messages)).out, AnswersInTurn(messages))
  /\ phase = "tools" => RoundOpen(Conv(messages), AnswersInTurn(messages))

\* No answer is added to the list but by being returned.
LEMMA InTurnStays ==
  ASSUME NEW ms \in Seq(Message), NEW m \in Message, m # AssistantMsg
  PROVE  AnswersInTurn(Append(ms, m)) = AnswersInTurn(ms)
<1> DEFINE more == Append(ms, m)
           k    == Len(ms)
<1>1. /\ k \in Nat /\ Len(more) = k + 1 /\ more[k + 1] = m
      /\ \A i \in 1..k : more[i] = ms[i]
  OBVIOUS
<1> HIDE DEF more
<1>2. AnswersInTurn(more) <=> AnswersInTurn(ms)
  <2>1. \A i \in 1..k : i > 1 => i - 1 \in 1..k
    OBVIOUS
  <2>2. 1..(k + 1) = 1..k \cup {k + 1}
    BY <1>1
  <2>3. \A i \in 1..k : (more[i] = AssistantMsg => i > 1 /\ more[i - 1] = UserMsg)
                          <=> (ms[i] = AssistantMsg => i > 1 /\ ms[i - 1] = UserMsg)
    BY <1>1, <2>1
  <2> QED BY <1>1, <2>2, <2>3 DEF AnswersInTurn
<1>3. AnswersInTurn(more) \in BOOLEAN /\ AnswersInTurn(ms) \in BOOLEAN
  BY DEF AnswersInTurn
<1> QED BY <1>2, <1>3 DEF more

LEMMA TodoStep ==
  ASSUME LoopTypeOK, TodoOK, [Next]_vars
  PROVE  TodoOK'
<1>1. CASE UNCHANGED vars \/ Request \/ Exhausted \/ RequestFails \/ OverLimit
             \/ AnswerWithText \/ EndRound
  BY <1>1 DEF vars, Request, Exhausted, RequestFails, OverLimit, AnswerWithText,
              EndRound, TodoOK
<1>2. CASE AnswerWithCalls
  <2>1. PICK n \in Nat \ {0} : /\ Len(todo') = n
                               /\ \A i \in 1..n : todo'[i].id = Len(seen) + i
    BY <1>2, NewCalls
  <2>2. phase' = "tools" /\ UNCHANGED seen
    BY <1>2 DEF AnswerWithCalls
  <2> QED BY <2>1, <2>2 DEF TodoOK
<1>3. CASE RunTool
  <2>1. /\ phase' = "tools" /\ todo # <<>> /\ todo' = Tail(todo)
        /\ seen' = Append(seen, Head(todo).sig)
    BY <1>3 DEF RunTool
  <2>2. todo \in Seq(Call) /\ seen \in Seq(Signatures)
    BY DEF LoopTypeOK, TypeOK
  <2>3. Len(seen') = Len(seen) + 1 /\ Len(seen) \in Nat
    BY <2>1, <2>2
  <2>4. Len(todo') = Len(todo) - 1 /\ \A i \in 1..Len(todo') : todo'[i] = todo[i + 1]
    BY <2>1, <2>2
  <2>5. ASSUME NEW i \in 1..Len(todo') PROVE todo'[i].id = Len(seen') + i
    <3>1. i + 1 \in 1..Len(todo)
      BY <2>2, <2>4
    <3>2. todo[i + 1].id = Len(seen) + (i + 1)
      BY <3>1 DEF TodoOK
    <3> QED BY <2>3, <2>4, <3>2
  <2> QED BY <2>1, <2>5 DEF TodoOK
<1> QED BY <1>1, <1>2, <1>3 DEF Next, Chatting

LEMMA AnthropicStep ==
  ASSUME LoopTypeOK, TodoOK, AnthropicOK, [Next]_vars
  PROVE  AnthropicOK'
<1> DEFINE conv == Conv(messages)
           strict == AnswersInTurn(messages)
<1>0. messages \in Seq(Message) /\ conv \in Acc
  <2>1. messages \in Seq(Message) /\ UserMsg \in Message
    BY MessageTypes DEF LoopTypeOK
  <2> QED BY <2>1, ConvAppend
<1>1. CASE UNCHANGED vars
  BY <1>1 DEF vars, AnthropicOK, RoundOpen, AnswersInTurn
<1>2. CASE Request \/ Exhausted \/ RequestFails \/ OverLimit \/ AnswerWithText
  BY <1>2 DEF Request, Exhausted, RequestFails, OverLimit, AnswerWithText,
              AnthropicOK, RoundOpen, AnswersInTurn
<1>3. CASE AnswerWithCalls
  <2>1. PICK n \in Nat \ {0} :
          /\ Len(todo') = n
          /\ messages' = Append(messages, CallsMsg([i \in 1..n |-> Len(seen) + i]))
    BY <1>3, NewCalls
  <2> DEFINE base == Len(seen)
             ids  == Numbers(base, n)
             good == Flush(conv).out
  <2>2. messages' = Append(messages, CallsMsg(ids))
    BY <2>1 DEF Numbers
  <2>3. base \in Nat /\ ids \in Seq(Nat) /\ Len(ids) = n /\ ids # <<>>
    <3>1. base \in Nat
      BY DEF LoopTypeOK, TypeOK
    <3> QED BY <3>1, NumbersType
  <2>4. GoodOut(good, strict) /\ Flush(conv).pending = <<>> /\ good \in Seq(Turn)
    BY <1>0, <1>3, FlushType DEF AnswerWithCalls, AnthropicOK, GoodOut
  <2>5. phase' = "tools" /\ UNCHANGED seen
    BY <1>3 DEF AnswerWithCalls
  <2> HIDE DEF ids, base
  <2>6. Conv(messages') = ConvertOne(conv, CallsMsg(ids))
    <3>1. CallsMsg(ids) \in Message
      BY <2>3, MessageTypes
    <3> QED BY <1>0, <2>2, <3>1, ConvAppend
  <2>7. ConvertOne(conv, CallsMsg(ids)) = [Flush(conv) EXCEPT !.out = Append(@, CallsTurn(ids))]
    <3>1. CallsMsg(ids).role = "assistant" /\ CallsMsg(ids).calls = ids
      BY DEF CallsMsg
    <3>2. [i \in 1..Len(ids) |-> UseBlock(ids[i])] = BlocksOf("tool_use", ids)
      BY DEF UseBlock, BlocksOf
    <3>3. ConvertOne(conv, CallsMsg(ids))
            = [Flush(conv) EXCEPT !.out = Append(@,
                 [role   |-> "assistant",
                  blocks |-> [i \in 1..Len(ids) |-> UseBlock(ids[i])]])]
      BY <2>3, <3>1 DEF ConvertOne
    <3> QED BY <3>2, <3>3 DEF CallsTurn
  <2>8. Conv(messages').out = Append(good, CallsTurn(ids)) /\ Conv(messages').pending = <<>>
    <3>1. Flush(conv) \in Acc
      BY <1>0, FlushType
    <3> QED BY <2>4, <2>6, <2>7, <3>1 DEF Acc
  <2>9. BlocksOf("tool_result", Numbers(base, 0)) = <<>>
    BY <2>3 DEF BlocksOf, Numbers
  <2>10. Len(seen') = base /\ base - base = 0 /\ Len(todo') = n /\ n >= 1 /\ n \in Nat
    BY <2>1, <2>3, <2>5 DEF base
  <2> HIDE DEF good
  <2>11. \E g \in Seq(Turn), b \in Nat, k \in Nat :
           /\ GoodOut(g, strict) /\ k >= 1
           /\ b <= Len(seen') /\ Len(seen') + Len(todo') = b + k
           /\ Conv(messages').out = Append(g, CallsTurn(Numbers(b, k)))
           /\ Conv(messages').pending
                = BlocksOf("tool_result", Numbers(b, Len(seen') - b))
    <3> good \in Seq(Turn) /\ base \in Nat
      BY <2>3, <2>4
    <3> WITNESS good \in Seq(Turn), base \in Nat, n \in Nat
    <3> QED BY <2>3, <2>4, <2>8, <2>9, <2>10 DEF ids
  <2>12. AnswersInTurn(messages)' = strict
    <3> DEFINE m == CallsMsg(ids)
    <3>1. m \in Message /\ m.calls = ids /\ messages' = Append(messages, m)
      BY <2>2, <2>3, MessageTypes DEF CallsMsg
    <3>2. m # AssistantMsg
      BY <2>3, <3>1 DEF AssistantMsg
    <3> HIDE DEF m
    <3>3. AnswersInTurn(messages') = strict
      BY <1>0, <3>1, <3>2, InTurnStays
    <3> QED BY <3>3
  <2> HIDE DEF strict
  <2> QED BY <2>5, <2>11, <2>12 DEF AnthropicOK, RoundOpen
<1>4. CASE RunTool
  <2>1. /\ phase = "tools" /\ phase' = "tools" /\ todo # <<>> /\ todo' = Tail(todo)
        /\ seen' = Append(seen, Head(todo).sig)
        /\ messages' = Append(messages, ToolMsg(Head(todo).id))
    BY <1>4 DEF RunTool
  <2>2. todo \in Seq(Call) /\ seen \in Seq(Signatures)
    BY DEF LoopTypeOK, TypeOK
  <2>3. /\ Len(seen') = Len(seen) + 1 /\ Len(seen) \in Nat
        /\ Len(todo') = Len(todo) - 1 /\ Len(todo) \in Nat /\ Len(todo) >= 1
    BY <2>1, <2>2
  <2>4. Head(todo).id = Len(seen) + 1
    BY <2>1, <2>2, <2>3 DEF TodoOK
  <2>5. PICK good \in Seq(Turn), base \in Nat, n \in Nat :
          /\ GoodOut(good, strict) /\ n >= 1
          /\ base <= Len(seen) /\ Len(seen) + Len(todo) = base + n
          /\ conv.out = Append(good, CallsTurn(Numbers(base, n)))
          /\ conv.pending = BlocksOf("tool_result", Numbers(base, Len(seen) - base))
    BY <2>1 DEF AnthropicOK, RoundOpen
  <2> DEFINE k == Len(seen) - base
  <2>6. k \in Nat /\ base + k + 1 = Head(todo).id /\ Len(seen') - base = k + 1
    BY <2>3, <2>4, <2>5
  <2>7. Conv(messages') = ConvertOne(conv, ToolMsg(Head(todo).id))
    <3>1. ToolMsg(Head(todo).id) \in Message
      BY <2>3, <2>4, MessageTypes
    <3> QED BY <1>0, <2>1, <3>1, ConvAppend
  <2>8. ConvertOne(conv, ToolMsg(Head(todo).id))
          = [conv EXCEPT !.pending = Append(@, ResultBlock(Head(todo).id))]
    BY DEF ConvertOne, ToolMsg
  <2>9. /\ Conv(messages').out = conv.out
        /\ Conv(messages').pending = Append(conv.pending, ResultBlock(base + k + 1))
    BY <1>0, <2>6, <2>7, <2>8 DEF Acc
  <2>10. BlocksOf("tool_result", Numbers(base, k + 1))
           = Append(BlocksOf("tool_result", Numbers(base, k)), ResultBlock(base + k + 1))
    BY <2>6, ResultsGrow
  <2>11. Conv(messages').pending = BlocksOf("tool_result", Numbers(base, Len(seen') - base))
    BY <2>5, <2>6, <2>9, <2>10
  <2>12. base <= Len(seen') /\ Len(seen') + Len(todo') = base + n
    <3> HIDE DEF conv, k
    <3>1. base <= Len(seen) /\ Len(seen) + Len(todo) = base + n
      BY <2>5
    <3> QED BY <2>3, <3>1
  <2> HIDE DEF conv, k
  <2>13. \E g \in Seq(Turn), b \in Nat, m \in Nat :
           /\ GoodOut(g, strict) /\ m >= 1
           /\ b <= Len(seen') /\ Len(seen') + Len(todo') = b + m
           /\ Conv(messages').out = Append(g, CallsTurn(Numbers(b, m)))
           /\ Conv(messages').pending
                = BlocksOf("tool_result", Numbers(b, Len(seen') - b))
    <3> WITNESS good \in Seq(Turn), base \in Nat, n \in Nat
    <3> QED BY <2>5, <2>9, <2>11, <2>12
  <2>14. AnswersInTurn(messages)' = strict
    <3> DEFINE m == ToolMsg(Head(todo).id)
    <3>1. m \in Message /\ m.role = "tool" /\ messages' = Append(messages, m)
      BY <2>1, <2>3, <2>4, MessageTypes DEF ToolMsg
    <3>2. m # AssistantMsg
      BY <3>1 DEF AssistantMsg
    <3> HIDE DEF m
    <3>3. AnswersInTurn(messages') = strict
      BY <1>0, <3>1, <3>2, InTurnStays
    <3> QED BY <3>3
  <2> HIDE DEF strict
  <2> QED BY <2>1, <2>13, <2>14 DEF AnthropicOK, RoundOpen
<1>5. CASE EndRound
  <2>1. /\ phase = "tools" /\ phase' = "send" /\ todo = <<>>
        /\ messages' = messages \/ messages' = Append(messages, UserMsg)
    BY <1>5 DEF EndRound
  <2>2. PICK good \in Seq(Turn), base \in Nat, n \in Nat :
          /\ GoodOut(good, strict) /\ n >= 1
          /\ base <= Len(seen) /\ Len(seen) + Len(todo) = base + n
          /\ conv.out = Append(good, CallsTurn(Numbers(base, n)))
          /\ conv.pending = BlocksOf("tool_result", Numbers(base, Len(seen) - base))
    BY <2>1 DEF AnthropicOK, RoundOpen
  <2> DEFINE ids == Numbers(base, n)
  <2>3. Len(seen) - base = n
    BY <2>1, <2>2 DEF LoopTypeOK, TypeOK
  <2>4. ids \in Seq(Nat) /\ ids # <<>>
    <3>1. Numbers(base, n) \in Seq(Nat) /\ Len(Numbers(base, n)) = n
      BY NumbersType
    <3> HIDE DEF ids
    <3>2. ids \in Seq(Nat) /\ Len(ids) = n /\ n >= 1
      BY <2>2, <3>1 DEF ids
    <3> QED BY <3>2
  <2>5. conv.out = Append(good, CallsTurn(ids)) /\ conv.pending = BlocksOf("tool_result", ids)
    BY <2>2, <2>3
  <2> HIDE DEF ids, conv
  <2>6. /\ GoodOut(Flush(conv).out, strict)
        /\ GoodOut(Flush(ConvertOne(conv, UserMsg)).out, strict)
    BY <1>0, <2>2, <2>4, <2>5, RoundAnswered
  <2>7. Conv(Append(messages, UserMsg)) = ConvertOne(conv, UserMsg)
    BY <1>0, MessageTypes, ConvAppend DEF conv
  <2>8. GoodOut(Flush(Conv(messages')).out, strict)
    BY <2>1, <2>6, <2>7 DEF conv
  <2>9. AnswersInTurn(messages)' = strict
    <3>1. UserMsg \in Message /\ UserMsg # AssistantMsg
      BY MessageTypes DEF UserMsg, AssistantMsg
    <3>2. AnswersInTurn(messages') = strict
      BY <1>0, <2>1, <3>1, InTurnStays
    <3> QED BY <3>2
  <2> HIDE DEF strict
  <2> QED BY <2>1, <2>8, <2>9 DEF AnthropicOK
<1> QED BY <1>1, <1>2, <1>3, <1>4, <1>5 DEF Next, Chatting

-----------------------------------------------------------------------------
Item  == [type : {"user", "assistant", "function_call", "function_call_output"},
          id : Nat \cup {NoCall}]
Items == Seq(Item)
ItemsStep == [pair \in Items \X Message |-> pair[1] \o ResponsesItems(pair[2])]

LEMMA ItemsOfType ==
  ASSUME NEW m \in Message
  PROVE  ResponsesItems(m) \in Items
<1>1. m.calls \in Seq(Nat) /\ m.for \in Nat \cup {NoCall}
      /\ m.role \in {"system", "user", "assistant", "tool"}
  BY DEF Message
<1>2. /\ [type |-> "user", id |-> NoCall] \in Item
      /\ [type |-> "assistant", id |-> NoCall] \in Item
      /\ [type |-> "function_call_output", id |-> m.for] \in Item
  BY <1>1 DEF Item
<1>3. \A i \in 1..Len(m.calls) : [type |-> "function_call", id |-> m.calls[i]] \in Item
  BY <1>1 DEF Item
<1>4. CASE m.role = "system"
  BY <1>4 DEF ResponsesItems, Items
<1>5. CASE m.role = "user"
  <2>1. ResponsesItems(m) = <<[type |-> "user", id |-> NoCall]>>
    BY <1>5 DEF ResponsesItems
  <2> QED BY <1>2, <2>1 DEF Items
<1>6. CASE m.role = "tool"
  <2>1. ResponsesItems(m) = <<[type |-> "function_call_output", id |-> m.for]>>
    BY <1>6 DEF ResponsesItems
  <2> QED BY <1>2, <2>1 DEF Items
<1>7. CASE m.role = "assistant" /\ m.calls = <<>>
  <2>1. ResponsesItems(m) = <<[type |-> "assistant", id |-> NoCall]>>
    BY <1>7 DEF ResponsesItems
  <2> QED BY <1>2, <2>1 DEF Items
<1>8. CASE m.role = "assistant" /\ m.calls # <<>>
  <2>1. ResponsesItems(m)
          = [i \in 1..Len(m.calls) |-> [type |-> "function_call", id |-> m.calls[i]]]
    BY <1>8 DEF ResponsesItems
  <2>2. Len(m.calls) \in Nat
    BY <1>1
  <2> QED BY <1>3, <2>1, <2>2 DEF Items
<1> QED BY <1>1, <1>4, <1>5, <1>6, <1>7, <1>8

LEMMA ItemsStepType ==
  ASSUME NEW items \in Items, NEW m \in Message
  PROVE  /\ ItemsStep[<<items, m>>] = items \o ResponsesItems(m)
         /\ ItemsStep[<<items, m>>] \in Items
<1>1. items \o ResponsesItems(m) \in Items
  BY ItemsOfType DEF Items
<1> QED BY <1>1 DEF ItemsStep

LEMMA ItemsClosed ==
  ASSUME NEW s \in Seq(Message)
  PROVE  FoldStays(Items, ItemsStep, <<>>, s)
<1>1. \A items \in Items : \A n \in 1..Len(s) : ItemsStep[<<items, s[n]>>] \in Items
  <2> TAKE items \in Items
  <2> TAKE n \in 1..Len(s)
  <2>1. s[n] \in Message
    OBVIOUS
  <2> QED BY <2>1, ItemsStepType
<1>2. <<>> \in Items
  BY DEF Items
<1> QED BY <1>1, <1>2 DEF FoldStays

LEMMA ItemsIs ==
  ASSUME NEW s \in Seq(Message)
  PROVE  ToResponses(s) = Folded(Items, ItemsStep, <<>>, s)
<1> DEFINE E(iter) ==
             iter = [t \in SUBSET DOMAIN s |->
                       IF t = {} THEN <<>>
                       ELSE iter[t \ {Max(t)}] \o ResponsesItems(s[Max(t)])]
           c == CHOOSE iter : E(iter)
<1>1. DOMAIN s = 1..Len(s) /\ Len(s) \in Nat
  OBVIOUS
<1>2. ToResponses(s) = c[DOMAIN s]
  BY DEF ToResponses, FoldLeft, MapThenFoldSet
<1>3. \E iter : E(iter)
  <2>1. PICK h \in [SUBSET (1..Len(s)) -> Items] : SetFold(h, ItemsStep, <<>>, s)
    BY ItemsClosed, SetFoldExists
  <2>2. ASSUME NEW t \in SUBSET DOMAIN s, t # {}
        PROVE  h[t] = h[t \ {Max(t)}] \o ResponsesItems(s[Max(t)])
    <3>1. Max(t) \in 1..Len(s)
      BY <1>1, <2>2, MaxIn
    <3>2. s[Max(t)] \in Message /\ h[t \ {Max(t)}] \in Items
      BY <1>1, <3>1
    <3>3. h[t] = ItemsStep[<<h[t \ {Max(t)}], s[Max(t)]>>]
      BY <1>1, <2>1, <2>2 DEF SetFold
    <3> QED BY <3>2, <3>3, ItemsStepType
  <2>3. h[{}] = <<>>
    BY <2>1 DEF SetFold
  <2>4. E(h)
    BY <1>1, <2>2, <2>3
  <2> QED BY <2>4
<1>4. E(c)
  BY <1>3
<1> HIDE DEF c
<1>5. c[{}] = <<>>
  BY <1>4
<1>6. ASSUME NEW n \in 1..Len(s), c[1..(n - 1)] \in Items
      PROVE  c[1..n] = ItemsStep[<<c[1..(n - 1)], s[n]>>]
  <2>0. n \in Nat /\ n # 0
    BY <1>1
  <2>1. Max(1..n) = n /\ (1..n) \ {n} = 1..(n - 1) /\ 1..n # {}
    BY <2>0, MaxOfFirst
  <2>2. 1..n \in SUBSET DOMAIN s
    BY <1>1
  <2>3. c[1..n] = c[(1..n) \ {Max(1..n)}] \o ResponsesItems(s[Max(1..n)])
    BY <1>4, <2>1, <2>2, Zenon
  <2>4. c[1..n] = c[1..(n - 1)] \o ResponsesItems(s[n])
    BY <2>1, <2>3
  <2>5. s[n] \in Message
    OBVIOUS
  <2> QED BY <1>6, <2>4, <2>5, ItemsStepType
<1> HIDE DEF E
<1>7. c[1..Len(s)] = Folded(Items, ItemsStep, <<>>, s)
  <2>1. SetSteps(c, Items, ItemsStep, <<>>, s)
    BY <1>5, <1>6 DEF SetSteps
  <2> QED BY <2>1, ItemsClosed, SetFoldIs
<1> QED BY <1>1, <1>2, <1>7

\* No message, and one message more.
LEMMA ItemsEmpty == ToResponses(<<>>) = <<>>
<1>1. <<>> \in Items /\ <<>> \in Seq(Message)
  BY DEF Items
<1>2. Folded(Items, ItemsStep, <<>>, <<>>) = <<>>
  BY <1>1, FoldedNone
<1> QED BY <1>1, <1>2, ItemsIs

LEMMA ItemsAppend ==
  ASSUME NEW s \in Seq(Message), NEW m \in Message
  PROVE  /\ ToResponses(s) \in Items
         /\ ToResponses(Append(s, m)) = ToResponses(s) \o ResponsesItems(m)
<1> DEFINE t == Append(s, m)
<1>1. t \in Seq(Message) /\ IsAppend(t, s, m)
  BY DEF IsAppend
<1> HIDE DEF t
<1>2. FoldStays(Items, ItemsStep, <<>>, t) /\ FoldStays(Items, ItemsStep, <<>>, s)
  BY <1>1, ItemsClosed
<1>3. Folded(Items, ItemsStep, <<>>, s) \in Items
  BY <1>2, FoldedType
<1>4. FoldGrows(Items, ItemsStep, <<>>, s, m, t)
  BY <1>1, <1>2, FoldedAppend, Zenon
<1>5. ToResponses(s) \in Items /\ ToResponses(t) = ItemsStep[<<ToResponses(s), m>>]
  BY <1>1, <1>3, <1>4, ItemsIs DEF FoldGrows
<1> QED BY <1>5, ItemsStepType DEF t

-----------------------------------------------------------------------------
Nth(items, type, id) ==
  {i \in 1..Len(items) : items[i].type = type /\ items[i].id = id}

\* Of the ids from 1 on exactly those up to n have an item of a type, one each.
Placed(items, type, n) ==
  \A id \in Nat \ {0} : IF id <= n THEN \E i \in Nat : Nth(items, type, id) = {i}
                                   ELSE Nth(items, type, id) = {}

\* t calls were made and the first d of them answered, each after its call.
ItemsOK(items, d, t) ==
  /\ Placed(items, "function_call", t)
  /\ Placed(items, "function_call_output", d)
  /\ \A id \in 1..d : \A i \in Nth(items, "function_call", id) :
     \A j \in Nth(items, "function_call_output", id) : i < j

LEMMA NthConcat ==
  ASSUME NEW a \in Items, NEW b \in Items, NEW type, NEW id
  PROVE  /\ Nth(a \o b, type, id) \cap (1..Len(a)) = Nth(a, type, id)
         /\ \A k \in 1..Len(b) : Len(a) + k \in Nth(a \o b, type, id)
                                   <=> k \in Nth(b, type, id)
         /\ Nth(a \o b, type, id) \subseteq 1..(Len(a) + Len(b))
<1>1. /\ Len(a) \in Nat /\ Len(b) \in Nat /\ Len(a \o b) = Len(a) + Len(b)
      /\ \A i \in 1..Len(a) : (a \o b)[i] = a[i]
      /\ \A k \in 1..Len(b) : (a \o b)[Len(a) + k] = b[k]
  BY DEF Items
<1> DEFINE c == a \o b
<1> HIDE DEF c
<1>2. /\ Len(c) = Len(a) + Len(b)
      /\ \A i \in 1..Len(a) : c[i] = a[i]
      /\ \A k \in 1..Len(b) : c[Len(a) + k] = b[k]
  BY <1>1 DEF c
<1>3. Nth(c, type, id) \cap (1..Len(a)) = Nth(a, type, id)
  BY <1>1, <1>2 DEF Nth
<1>4. \A k \in 1..Len(b) : Len(a) + k \in Nth(c, type, id) <=> k \in Nth(b, type, id)
  BY <1>1, <1>2 DEF Nth
<1>5. Nth(c, type, id) \subseteq 1..(Len(a) + Len(b))
  BY <1>2 DEF Nth
<1> QED BY <1>3, <1>4, <1>5 DEF c

\* What is new in b is what it adds to a.
LEMMA PlacedMore ==
  ASSUME NEW a \in Items, NEW b \in Items, NEW type, NEW n \in Nat, NEW m \in Nat,
         n <= m, Placed(a, type, n),
         \A id \in Nat \ {0} :
           IF n < id /\ id <= m THEN \E k \in Nat : Nth(b, type, id) = {k}
                                ELSE Nth(b, type, id) = {}
  PROVE  Placed(a \o b, type, m)
<1> SUFFICES ASSUME NEW id \in Nat \ {0}
             PROVE  IF id <= m THEN \E i \in Nat : Nth(a \o b, type, id) = {i}
                               ELSE Nth(a \o b, type, id) = {}
  BY DEF Placed
<1> DEFINE A == Nth(a, type, id)
           B == Nth(b, type, id)
           C == Nth(a \o b, type, id)
<1>1. /\ C \cap (1..Len(a)) = A /\ C \subseteq 1..(Len(a) + Len(b))
      /\ \A k \in 1..Len(b) : Len(a) + k \in C <=> k \in B
  BY NthConcat
<1>2. Len(a) \in Nat /\ Len(b) \in Nat /\ A \subseteq 1..Len(a) /\ B \subseteq 1..Len(b)
  BY DEF Items, Nth
<1>3. /\ IF id <= n THEN \E i \in Nat : A = {i} ELSE A = {}
      /\ IF n < id /\ id <= m THEN \E k \in Nat : B = {k} ELSE B = {}
  BY DEF Placed
<1> HIDE DEF A, B, C
<1>4. \A i \in C : i \in A \/ (i - Len(a) \in 1..Len(b) /\ i - Len(a) \in B)
  <2> TAKE i \in C
  <2>1. CASE i <= Len(a)
    BY <1>1, <1>2, <2>1
  <2>2. CASE i > Len(a)
    <3>1. i - Len(a) \in 1..Len(b) /\ Len(a) + (i - Len(a)) = i
      BY <1>1, <1>2, <2>2
    <3> QED BY <1>1, <3>1
  <2>3. i \in Nat
    BY <1>1, <1>2
  <2> QED BY <1>2, <2>1, <2>2, <2>3
<1>5. CASE id <= n
  <2>1. PICK i \in Nat : A = {i}
    BY <1>3, <1>5
  <2>2. B = {}
    BY <1>3, <1>5
  <2>3. C = {i}
    BY <1>1, <1>4, <2>1, <2>2
  <2> QED BY <1>5, <2>3 DEF C
<1>6. CASE n < id /\ id <= m
  <2>1. PICK k \in Nat : B = {k}
    BY <1>3, <1>6
  <2>2. A = {} /\ k \in 1..Len(b)
    BY <1>2, <1>3, <1>6, <2>1
  <2>3. C = {Len(a) + k}
    <3>1. Len(a) + k \in C
      BY <1>1, <2>1, <2>2
    <3>2. \A i \in C : i = Len(a) + k
      BY <1>1, <1>2, <1>4, <2>1, <2>2
    <3> QED BY <3>1, <3>2
  <2>4. Len(a) + k \in Nat
    BY <1>2
  <2> QED BY <1>6, <2>3, <2>4 DEF C
<1>7. CASE id > m
  <2>1. A = {} /\ B = {}
    BY <1>3, <1>7
  <2> QED BY <1>4, <1>7, <2>1 DEF C
<1> QED BY <1>5, <1>6, <1>7

\* A result answers a call that is there already.
LEMMA ItemsMore ==
  ASSUME NEW a \in Items, NEW b \in Items, NEW d \in Nat, NEW t \in Nat,
         NEW e \in Nat, NEW u \in Nat, ItemsOK(a, d, t), d <= e, t <= u, e <= t,
         \A id \in Nat \ {0} :
           IF t < id /\ id <= u THEN \E k \in Nat : Nth(b, "function_call", id) = {k}
                                ELSE Nth(b, "function_call", id) = {},
         \A id \in Nat \ {0} :
           IF d < id /\ id <= e THEN \E k \in Nat : Nth(b, "function_call_output", id) = {k}
                                ELSE Nth(b, "function_call_output", id) = {}
  PROVE  ItemsOK(a \o b, e, u)
<1>1. Placed(a, "function_call", t) /\ Placed(a, "function_call_output", d)
  BY DEF ItemsOK
<1>2. Placed(a \o b, "function_call", u) /\ Placed(a \o b, "function_call_output", e)
  BY <1>1, PlacedMore
<1>3. ASSUME NEW id \in 1..e, NEW i \in Nth(a \o b, "function_call", id),
             NEW j \in Nth(a \o b, "function_call_output", id)
      PROVE  i < j
  <2> DEFINE c == a \o b
  <2>1. \A type : /\ Nth(c, type, id) \cap (1..Len(a)) = Nth(a, type, id)
                  /\ Nth(c, type, id) \subseteq 1..(Len(a) + Len(b))
    BY NthConcat
  <2>2. Len(a) \in Nat /\ Len(b) \in Nat
        /\ \A type : Nth(a, type, id) \subseteq 1..Len(a)
    BY DEF Items, Nth
  <2>3. PICK p \in Nat : Nth(c, "function_call", id) = {p}
    <3>1. id \in Nat \ {0} /\ id <= u
      OBVIOUS
    <3> QED BY <1>2, <3>1 DEF Placed
  <2>4. PICK q \in Nat : Nth(a, "function_call", id) = {q}
    <3>1. id \in Nat \ {0} /\ id <= t
      OBVIOUS
    <3> QED BY <1>1, <3>1 DEF Placed
  <2> HIDE DEF c
  <2>5. i \in Nth(a, "function_call", id)
    <3>1. i \in Nth(c, "function_call", id) /\ q \in Nth(c, "function_call", id)
      BY <2>1, <2>4 DEF c
    <3> QED BY <2>3, <2>4, <3>1
  <2>6. i \in Nat /\ i <= Len(a)
    BY <2>2, <2>5
  <2>7. j \in Nat
    BY <2>1, <2>2 DEF c
  <2>8. CASE j \in 1..Len(a)
    <3>1. j \in Nth(a, "function_call_output", id)
      BY <2>1, <2>8 DEF c
    <3>2. id <= d
      <4>1. id \in Nat \ {0}
        OBVIOUS
      <4>2. Nth(a, "function_call_output", id) # {}
        BY <3>1
      <4> QED BY <1>1, <4>1, <4>2 DEF Placed
    <3>3. id \in 1..d
      BY <3>2
    <3> QED BY <2>5, <3>1, <3>3 DEF ItemsOK
  <2>9. CASE j \notin 1..Len(a)
    <3>1. j \in 1..(Len(a) + Len(b))
      BY <2>1 DEF c
    <3>2. j > Len(a)
      BY <2>2, <2>9, <3>1
    <3> QED BY <2>2, <2>6, <2>7, <3>2
  <2> QED BY <2>8, <2>9
<1> QED BY <1>2, <1>3 DEF ItemsOK

ResponsesOK ==
  phase \in {"send", "wait", "tools"} =>
    ItemsOK(ToResponses(messages), Len(seen), Len(seen) + Len(todo))

\* An item that is no call and no result disturbs nothing.
LEMMA PlainItem ==
  ASSUME NEW a \in Items, NEW d \in Nat, NEW t \in Nat, d <= t, ItemsOK(a, d, t)
  PROVE  ItemsOK(a \o ResponsesItems(UserMsg), d, t)
<1> DEFINE b == ResponsesItems(UserMsg)
<1>1. b = <<[type |-> "user", id |-> NoCall]>>
  BY DEF ResponsesItems, UserMsg
<1>2. b \in Items
  BY MessageTypes, ItemsOfType
<1>3. \A i \in 1..Len(b) : b[i].type = "user"
  BY <1>1
<1> HIDE DEF b
<1>4. \A id : Nth(b, "function_call", id) = {} /\ Nth(b, "function_call_output", id) = {}
  BY <1>3 DEF Nth
<1>5. ItemsOK(a \o b, d, t)
  BY <1>2, <1>4, ItemsMore
<1> QED BY <1>5 DEF b

LEMMA CallItems ==
  ASSUME NEW a \in Items, NEW d \in Nat, NEW n \in Nat, n >= 1, ItemsOK(a, d, d)
  PROVE  ItemsOK(a \o ResponsesItems(CallsMsg(Numbers(d, n))), d, d + n)
<1> DEFINE ids == Numbers(d, n)
           b   == ResponsesItems(CallsMsg(ids))
<1>1. ids \in Seq(Nat) /\ Len(ids) = n /\ ids # <<>> /\ \A i \in 1..n : ids[i] = d + i
  <2>1. ids \in Seq(Nat) /\ Len(ids) = n
    BY NumbersType
  <2>2. \A i \in 1..n : ids[i] = d + i
    BY DEF Numbers
  <2> HIDE DEF ids
  <2> QED BY <2>1, <2>2
<1> HIDE DEF ids
<1>2. b = [i \in 1..n |-> [type |-> "function_call", id |-> ids[i]]]
  BY <1>1 DEF ResponsesItems, CallsMsg
<1>3. b \in Items
  BY <1>1, MessageTypes, ItemsOfType
<1>4. Len(b) = n /\ \A i \in 1..n : b[i].type = "function_call" /\ b[i].id = d + i
  <2>1. Len(b) = n
    BY <1>2
  <2> QED BY <1>1, <1>2, <2>1
<1> HIDE DEF b
<1>5. \A id : Nth(b, "function_call_output", id) = {}
  BY <1>4 DEF Nth
<1>6. ASSUME NEW id \in Nat \ {0}
      PROVE  IF d < id /\ id <= d + n THEN \E k \in Nat : Nth(b, "function_call", id) = {k}
                                      ELSE Nth(b, "function_call", id) = {}
  <2>1. CASE d < id /\ id <= d + n
    <3>1. id - d \in 1..n
      BY <2>1
    <3>2. Nth(b, "function_call", id) = {id - d}
      BY <1>4, <3>1 DEF Nth
    <3> QED BY <2>1, <3>1, <3>2
  <2>2. CASE ~(d < id /\ id <= d + n)
    BY <1>4, <2>2 DEF Nth
  <2> QED BY <2>1, <2>2
<1>7. ItemsOK(a \o b, d, d + n)
  <2>1. d + n \in Nat /\ d <= d + n /\ d <= d
    OBVIOUS
  <2>2. \A id \in Nat \ {0} :
          IF d < id /\ id <= d THEN \E k \in Nat : Nth(b, "function_call_output", id) = {k}
                               ELSE Nth(b, "function_call_output", id) = {}
    BY <1>5
  <2> QED BY <1>3, <1>6, <2>1, <2>2, ItemsMore
<1> QED BY <1>7 DEF b, ids

LEMMA ResultItem ==
  ASSUME NEW a \in Items, NEW d \in Nat, NEW t \in Nat, d + 1 <= t, ItemsOK(a, d, t)
  PROVE  ItemsOK(a \o ResponsesItems(ToolMsg(d + 1)), d + 1, t)
<1> DEFINE b == ResponsesItems(ToolMsg(d + 1))
<1>1. b = <<[type |-> "function_call_output", id |-> d + 1]>>
  BY DEF ResponsesItems, ToolMsg
<1>2. b \in Items
  <2>1. ToolMsg(d + 1) \in Message
    BY MessageTypes
  <2> QED BY <2>1, ItemsOfType
<1>3. Len(b) = 1 /\ b[1].type = "function_call_output" /\ b[1].id = d + 1
  BY <1>1
<1> HIDE DEF b
<1>4. \A id : Nth(b, "function_call", id) = {}
  BY <1>3 DEF Nth
<1>5. ASSUME NEW id \in Nat \ {0}
      PROVE  IF d < id /\ id <= d + 1
             THEN \E k \in Nat : Nth(b, "function_call_output", id) = {k}
             ELSE Nth(b, "function_call_output", id) = {}
  <2>1. CASE id = d + 1
    <3>1. Nth(b, "function_call_output", id) = {1}
      BY <1>3, <2>1 DEF Nth
    <3> QED BY <2>1, <3>1
  <2>2. CASE id # d + 1
    BY <1>3, <2>2 DEF Nth
  <2> QED BY <2>1, <2>2
<1>6. ItemsOK(a \o b, d + 1, t)
  <2>1. d + 1 \in Nat /\ d <= d + 1 /\ t <= t
    OBVIOUS
  <2>2. \A id \in Nat \ {0} :
          IF t < id /\ id <= t THEN \E k \in Nat : Nth(b, "function_call", id) = {k}
                               ELSE Nth(b, "function_call", id) = {}
    BY <1>4
  <2> QED BY <1>2, <1>5, <2>1, <2>2, ItemsMore
<1> QED BY <1>6 DEF b

LEMMA ResponsesStep ==
  ASSUME LoopTypeOK, TodoOK, ResponsesOK, [Next]_vars
  PROVE  ResponsesOK'
<1> DEFINE items == ToResponses(messages)
           d == Len(seen)
           t == Len(seen) + Len(todo)
<1>0. messages \in Seq(Message) /\ items \in Items /\ d \in Nat /\ t \in Nat /\ d <= t
  <2>1. messages \in Seq(Message) /\ UserMsg \in Message
    BY MessageTypes DEF LoopTypeOK
  <2>2. items \in Items
    BY <2>1, ItemsAppend
  <2> QED BY <2>1, <2>2 DEF LoopTypeOK, TypeOK
<1>1. CASE UNCHANGED vars
  BY <1>1 DEF vars, ResponsesOK
<1>2. CASE Request \/ Exhausted \/ RequestFails \/ OverLimit \/ AnswerWithText
  BY <1>2 DEF Request, Exhausted, RequestFails, OverLimit, AnswerWithText, ResponsesOK
<1>3. CASE AnswerWithCalls
  <2>1. PICK n \in Nat \ {0} :
          /\ Len(todo') = n
          /\ messages' = Append(messages, CallsMsg([i \in 1..n |-> Len(seen) + i]))
          /\ [i \in 1..n |-> Len(seen) + i] \in Seq(Nat)
    BY <1>3, NewCalls
  <2>2. /\ messages' = Append(messages, CallsMsg(Numbers(d, n)))
        /\ CallsMsg(Numbers(d, n)) \in Message
    BY <2>1, MessageTypes DEF Numbers
  <2>3. phase = "wait" /\ todo = <<>> /\ UNCHANGED seen
    BY <1>3 DEF AnswerWithCalls, TodoOK
  <2>4. ItemsOK(items, d, d)
    <3>1. t = d
      BY <1>0, <2>3
    <3> QED BY <2>3, <3>1 DEF ResponsesOK
  <2>5. ToResponses(messages') = items \o ResponsesItems(CallsMsg(Numbers(d, n)))
    BY <1>0, <2>2, ItemsAppend
  <2> HIDE DEF items, d
  <2>6. ItemsOK(ToResponses(messages'), d, d + n)
    BY <1>0, <2>4, <2>5, CallItems
  <2> QED BY <2>1, <2>3, <2>6 DEF ResponsesOK, d
<1>4. CASE RunTool
  <2>1. /\ phase = "tools" /\ todo # <<>> /\ todo' = Tail(todo)
        /\ seen' = Append(seen, Head(todo).sig)
        /\ messages' = Append(messages, ToolMsg(Head(todo).id))
    BY <1>4 DEF RunTool
  <2>2. todo \in Seq(Call) /\ seen \in Seq(Signatures)
    BY DEF LoopTypeOK, TypeOK
  <2>3. /\ Len(seen') = d + 1 /\ Len(seen') + Len(todo') = t
        /\ d + 1 <= t /\ Len(todo) >= 1
    BY <2>1, <2>2
  <2>4. Head(todo).id = d + 1
    BY <2>1, <2>2, <2>3 DEF TodoOK
  <2>5. ToolMsg(d + 1) \in Message
    BY <1>0, MessageTypes
  <2>6. ToResponses(messages') = items \o ResponsesItems(ToolMsg(d + 1))
    BY <1>0, <2>1, <2>4, <2>5, ItemsAppend
  <2>7. ItemsOK(items, d, t)
    BY <2>1 DEF ResponsesOK
  <2> HIDE DEF items, d, t
  <2>8. ItemsOK(ToResponses(messages'), d + 1, t)
    BY <1>0, <2>3, <2>6, <2>7, ResultItem
  <2> QED BY <2>3, <2>8 DEF ResponsesOK
<1>5. CASE EndRound
  <2>1. /\ phase = "tools" /\ UNCHANGED <<seen, todo>>
        /\ messages' = messages \/ messages' = Append(messages, UserMsg)
    BY <1>5 DEF EndRound
  <2>2. ItemsOK(items, d, t)
    BY <2>1 DEF ResponsesOK
  <2>3. ToResponses(Append(messages, UserMsg)) = items \o ResponsesItems(UserMsg)
    BY <1>0, MessageTypes, ItemsAppend
  <2> HIDE DEF items, d, t
  <2>4. ItemsOK(items \o ResponsesItems(UserMsg), d, t)
    BY <1>0, <2>2, PlainItem
  <2>5. ItemsOK(ToResponses(messages'), d, t)
    BY <2>1, <2>2, <2>3, <2>4 DEF items
  <2> QED BY <2>1, <2>5 DEF ResponsesOK, d, t
<1> QED BY <1>1, <1>2, <1>3, <1>4, <1>5 DEF Next, Chatting

LEMMA ItemsPaired == TypeOK /\ TodoOK /\ ResponsesOK /\ phase \in {"send", "wait"} => ResponsesPaired
<1> SUFFICES ASSUME TypeOK, TodoOK, ResponsesOK, phase \in {"send", "wait"},
                    NEW id \in 1..Len(seen)
             PROVE  \E i \in Nth(ToResponses(messages), "function_call", id) :
                    \E j \in Nth(ToResponses(messages), "function_call_output", id) :
                      /\ i < j
                      /\ Nth(ToResponses(messages), "function_call", id) = {i}
                      /\ Nth(ToResponses(messages), "function_call_output", id) = {j}
  BY DEF ResponsesPaired, Nth
<1> DEFINE items == ToResponses(messages)
<1>1. Len(seen) \in Nat /\ Len(seen) + Len(todo) = Len(seen) /\ id \in Nat \ {0}
  BY DEF TypeOK, TodoOK
<1> HIDE DEF items
<1>2. ItemsOK(items, Len(seen), Len(seen))
  BY <1>1 DEF ResponsesOK, items
<1>3. PICK i \in Nat : Nth(items, "function_call", id) = {i}
  BY <1>1, <1>2 DEF ItemsOK, Placed
<1>4. PICK j \in Nat : Nth(items, "function_call_output", id) = {j}
  BY <1>1, <1>2 DEF ItemsOK, Placed
<1>5. i < j
  BY <1>2, <1>3, <1>4 DEF ItemsOK
<1> QED BY <1>3, <1>4, <1>5 DEF items

-----------------------------------------------------------------------------
\* A request without calls: texts only, the roles in turn.
Texts == Seq({TextBlock})
TextOut(out, strict) ==
  /\ out \in Seq(Turn) /\ InTurn(out, strict)
  /\ \A i \in 1..Len(out) : out[i].blocks \in Texts

LEMMA TextsType ==
  /\ <<TextBlock>> \in Texts
  /\ \A blocks \in Texts : blocks \in Seq(Block) /\ blocks \o <<TextBlock>> \in Texts
<1>1. TextBlock \in Block
  BY BlockTypes
<1> QED BY <1>1 DEF Texts

LEMMA TextIds ==
  ASSUME NEW msg, msg.blocks \in Texts
  PROVE  BlockIds(msg, "tool_use") = <<>> /\ BlockIds(msg, "tool_result") = <<>>
<1> DEFINE s == msg.blocks
<1>1. s \in Seq(Block) /\ Len(s) \in Nat /\ \A k \in 1..Len(s) : s[k] = TextBlock
  BY TextsType DEF Texts
<1>2. ASSUME NEW type \in {"tool_use", "tool_result"} PROVE BlockIds(msg, type) = <<>>
  <2> DEFINE f == [k \in 0..Len(s) |-> <<>>]
             g == IdsStep(type)
  <2>1. <<>> \in Ids
    BY DEF Ids
  <2>2. TextBlock.type # type /\ TextBlock \in Block
    BY BlockTypes DEF TextBlock
  <2>3. g[<<<<>>, TextBlock>>] = <<>>
    BY <2>1, <2>2, IdsStepType
  <2>4. f \in [0..Len(s) -> Ids] /\ f[0] = <<>> /\ f[Len(s)] = <<>>
    BY <1>1, <2>1
  <2>5. ASSUME NEW k \in 1..Len(s) PROVE f[k] = g[<<f[k - 1], s[k]>>]
    <3>1. f[k] = <<>> /\ f[k - 1] = <<>>
      BY <1>1
    <3> HIDE DEF f, g
    <3> QED BY <1>1, <2>3, <3>1
  <2> HIDE DEF f, g
  <2>6. IsFold(f, Ids, g, <<>>, s)
    BY <2>4, <2>5 DEF IsFold
  <2>7. Folded(Ids, g, <<>>, s) = f[Len(s)]
    BY <1>1, <2>6, FoldedIs
  <2> QED BY <1>1, <2>4, <2>7, IdsIs DEF g
<1> QED BY <1>2

LEMMA TextAppend ==
  ASSUME NEW strict, NEW out, TextOut(out, strict),
         NEW role \in {"user", "assistant"}, NEW blocks \in Texts,
         \/ role # IF out = <<>> THEN "assistant" ELSE Last(out).role
         \/ ~strict /\ role = "assistant" /\ blocks = <<TextBlock>>
  PROVE  TextOut(Append(out, [role |-> role, blocks |-> blocks]), strict)
<1> DEFINE t   == [role |-> role, blocks |-> blocks]
           all == Append(out, t)
           n   == Len(out)
<1>1. t \in Turn /\ t.role = role /\ t.blocks = blocks
  BY TextsType DEF Turn
<1>2. out \in Seq(Turn) /\ n \in Nat
  BY DEF TextOut
<1> HIDE DEF t
<1>3. /\ all \in Seq(Turn) /\ Len(all) = n + 1 /\ all[n + 1] = t
      /\ \A i \in 1..n : all[i] = out[i]
  BY <1>1, <1>2
<1> HIDE DEF all
<1>4. RoleBefore(all, n + 1) = IF out = <<>> THEN "assistant" ELSE Last(out).role
  <2>1. CASE out = <<>>
    BY <2>1 DEF RoleBefore
  <2>2. CASE out # <<>>
    <3>1. n + 1 # 1 /\ n + 1 - 1 = n /\ n \in 1..n
      BY <1>2, <2>2
    <3>2. all[n + 1 - 1] = out[n]
      BY <1>3, <3>1
    <3> QED BY <2>2, <3>1, <3>2 DEF RoleBefore, Last
  <2> QED BY <2>1, <2>2
<1>5. ASSUME NEW i \in 1..Len(all)
      PROVE  /\ all[i].role # RoleBefore(all, i) \/ (~strict /\ SavedAnswer(all[i]))
             /\ all[i].blocks \in Texts
  <2>1. CASE i = n + 1
    BY <1>1, <1>3, <1>4, <2>1 DEF SavedAnswer
  <2>2. CASE i # n + 1
    <3>1. i \in 1..n /\ (i # 1 => i - 1 \in 1..n)
      BY <1>2, <1>3, <2>2
    <3>2. RoleBefore(all, i) = RoleBefore(out, i)
      BY <1>3, <3>1 DEF RoleBefore
    <3> QED BY <1>3, <3>1, <3>2 DEF TextOut, InTurn
  <2> QED BY <2>1, <2>2
<1> QED BY <1>3, <1>5 DEF TextOut, InTurn, all, t

LEMMA TextMerge ==
  ASSUME NEW strict, NEW out, TextOut(out, strict)
  PROVE  /\ TextOut(Merge(out, <<TextBlock>>), strict)
         /\ Merge(out, <<TextBlock>>) # <<>>
         /\ Last(Merge(out, <<TextBlock>>)).role = "user"
<1> DEFINE text == <<TextBlock>>
<1>0. text \in Texts /\ text \in Seq(Block)
  BY TextsType
<1> HIDE DEF text
<1>1. out \in Seq(Turn) /\ Len(out) \in Nat
  BY DEF TextOut
<1>2. CASE out # <<>> /\ Last(out).role = "user"
  <2> DEFINE n    == Len(out)
             last == [Last(out) EXCEPT !.blocks = @ \o text]
             all  == Front(out) \o <<last>>
  <2>1. n \in Nat \ {0} /\ n \in 1..n /\ Last(out) = out[n] /\ out[n] \in Turn
    BY <1>1, <1>2 DEF Last
  <2>2. last \in Turn /\ last.role = "user" /\ last.blocks \in Texts
    <3>1. out[n].blocks \in Texts
      BY <2>1 DEF TextOut
    <3>2. out[n].blocks \o text \in Texts
      BY <3>1, TextsType DEF text
    <3>3. out[n].blocks \o text \in Seq(Block)
      BY <3>2, TextsType
    <3> QED BY <1>2, <2>1, <3>2, <3>3 DEF Turn
  <2> HIDE DEF last
  <2>3. /\ all \in Seq(Turn) /\ Len(all) = n /\ all[n] = last
        /\ \A i \in 1..(n - 1) : all[i] = out[i]
    <3> HIDE DEF n
    <3>0. Len(out) = n
      BY DEF n
    <3>1. Front(out) \in Seq(Turn) /\ Len(Front(out)) = n - 1
          /\ \A i \in 1..(n - 1) : Front(out)[i] = out[i]
      BY <1>1, <2>1, <3>0 DEF Front
    <3> QED BY <2>1, <2>2, <3>1
  <2> HIDE DEF all
  <2>4. ASSUME NEW i \in 1..Len(all)
        PROVE  /\ all[i].role # RoleBefore(all, i) \/ (~strict /\ SavedAnswer(all[i]))
               /\ all[i].blocks \in Texts
    <3>1. /\ out[i].role # RoleBefore(out, i) \/ (~strict /\ SavedAnswer(out[i]))
          /\ out[i].blocks \in Texts
      BY <2>3 DEF TextOut, InTurn
    <3>2. RoleBefore(all, i) = RoleBefore(out, i)
      <4>1. i # 1 => i - 1 \in 1..(n - 1)
        BY <2>1, <2>3
      <4> QED BY <2>3, <4>1 DEF RoleBefore
    <3>3. CASE i = n
      <4>1. out[i].role = "user" /\ ~SavedAnswer(out[i])
        BY <1>2, <2>1, <3>3 DEF SavedAnswer
      <4> QED BY <2>2, <2>3, <3>1, <3>2, <3>3, <4>1
    <3>4. CASE i # n
      <4>1. i \in 1..(n - 1)
        BY <2>1, <2>3, <3>4
      <4> QED BY <2>3, <3>1, <3>2, <4>1
    <3> QED BY <3>3, <3>4
  <2>5. TextOut(all, strict)
    BY <2>3, <2>4 DEF TextOut, InTurn
  <2>6. all # <<>> /\ Last(all).role = "user"
    BY <2>1, <2>2, <2>3 DEF Last
  <2>7. Merge(out, text) = all
    BY <1>2 DEF Merge, all, last
  <2> QED BY <2>5, <2>6, <2>7 DEF text
<1>3. CASE ~(out # <<>> /\ Last(out).role = "user")
  <2>1. "user" # IF out = <<>> THEN "assistant" ELSE Last(out).role
    BY <1>3
  <2>2. TextOut(Append(out, [role |-> "user", blocks |-> text]), strict)
    BY <1>0, <2>1, TextAppend
  <2>3. Merge(out, text) = Append(out, [role |-> "user", blocks |-> text])
    BY <1>3 DEF Merge
  <2>4. [role |-> "user", blocks |-> text] \in Turn
    BY <1>0 DEF Turn
  <2>5. /\ Append(out, [role |-> "user", blocks |-> text]) # <<>>
        /\ Last(Append(out, [role |-> "user", blocks |-> text])).role = "user"
    BY <1>1, <2>4, FrontOfAppend
  <2> QED BY <2>2, <2>3, <2>5 DEF text
<1> QED BY <1>2, <1>3

\* What the request says of a history without calls; its roles are in turn
\* if each answer follows a user's message.
Plain == {SystemMsg, UserMsg, AssistantMsg}

LEMMA PlainTypes ==
  /\ Plain \subseteq Message
  /\ SystemMsg.role = "system" /\ UserMsg.role = "user" /\ AssistantMsg.role = "assistant"
  /\ AssistantMsg.calls = <<>>
BY MessageTypes DEF Plain, SystemMsg, UserMsg, AssistantMsg

TextConv(conv, last, strict) ==
  /\ conv \in Acc /\ conv.pending = <<>> /\ TextOut(conv.out, strict)
  /\ last = UserMsg => conv.out # <<>> /\ Last(conv.out).role = "user"

LEMMA TextConvStep ==
  ASSUME NEW strict, NEW conv, NEW last, TextConv(conv, last, strict), NEW m \in Plain,
         strict /\ m = AssistantMsg => last = UserMsg
  PROVE  TextConv(ConvertOne(conv, m), m, strict)
<1>1. conv \in Acc /\ conv.pending = <<>> /\ TextOut(conv.out, strict) /\ Flush(conv) = conv
  BY DEF TextConv, Flush
<1>2. ConvertOne(conv, m) \in Acc
  BY <1>1, PlainTypes, ConvertType
<1>3. CASE m = SystemMsg
  <2>1. ConvertOne(conv, m) = conv /\ m # UserMsg
    BY <1>3, PlainTypes DEF ConvertOne
  <2> QED BY <1>1, <2>1 DEF TextConv
<1>4. CASE m = UserMsg
  <2>1. ConvertOne(conv, m) = [conv EXCEPT !.out = Merge(@, <<TextBlock>>)]
    BY <1>1, <1>4, PlainTypes DEF ConvertOne
  <2>2. /\ ConvertOne(conv, m).out = Merge(conv.out, <<TextBlock>>)
        /\ ConvertOne(conv, m).pending = <<>>
    BY <1>1, <2>1 DEF Acc
  <2> QED BY <1>1, <1>2, <2>2, TextMerge DEF TextConv
<1>5. CASE m = AssistantMsg
  <2> DEFINE text == <<TextBlock>>
             t == [role |-> "assistant", blocks |-> text]
  <2>1. ConvertOne(conv, m) = [conv EXCEPT !.out = Append(@, t)]
    BY <1>1, <1>5, PlainTypes DEF ConvertOne
  <2>2. /\ ConvertOne(conv, m).out = Append(conv.out, t)
        /\ ConvertOne(conv, m).pending = <<>>
    BY <1>1, <2>1 DEF Acc
  <2>3. strict => conv.out # <<>> /\ Last(conv.out).role = "user"
    BY <1>5 DEF TextConv
  <2>4. text \in Texts
    BY TextsType
  <2>5. TextOut(Append(conv.out, t), strict)
    BY <1>1, <2>3, <2>4, TextAppend
  <2>6. m # UserMsg
    BY <1>5, PlainTypes
  <2> QED BY <1>2, <2>2, <2>5, <2>6 DEF TextConv
<1> QED BY <1>3, <1>4, <1>5 DEF Plain

LEMMA FirstPart ==
  ASSUME NEW S, NEW s \in Seq(S), NEW n \in Nat, n + 1 <= Len(s)
  PROVE  /\ SubSeq(s, 1, n) \in Seq(S)
         /\ SubSeq(s, 1, n + 1) = Append(SubSeq(s, 1, n), s[n + 1])
<1>1. n + 1 \in 1..Len(s) /\ s[n + 1] \in S
  OBVIOUS
<1> QED BY <1>1

LEMMA PlainRequest ==
  ASSUME NEW ms \in Seq(Plain), ms # <<>>
  PROVE  TextConv(Conv(ms), Last(ms), AnswersInTurn(ms))
<1> DEFINE last(n) == IF n = 0 THEN SystemMsg ELSE ms[n]
           strict == AnswersInTurn(ms)
           S == {n \in Nat : n <= Len(ms) => TextConv(Conv(SubSeq(ms, 1, n)), last(n), strict)}
<1>0. Len(ms) \in Nat /\ ms \in Seq(Message) /\ Len(ms) # 0
  BY PlainTypes
<1>1. 0 \in S
  <2>1. SubSeq(ms, 1, 0) = <<>>
    OBVIOUS
  <2>2. Nothing \in Acc /\ Nothing.pending = <<>> /\ Nothing.out = <<>>
    BY ConvStepType DEF Nothing
  <2> HIDE DEF strict
  <2>3. TextOut(<<>>, strict)
    BY DEF TextOut, InTurn
  <2>4. SystemMsg # UserMsg
    BY PlainTypes
  <2>5. TextConv(Nothing, SystemMsg, strict)
    BY <2>2, <2>3, <2>4 DEF TextConv
  <2> QED BY <2>1, <2>5, ConvEmpty
<1>2. ASSUME NEW n \in S PROVE n + 1 \in S
  <2> SUFFICES ASSUME n + 1 <= Len(ms)
               PROVE  TextConv(Conv(SubSeq(ms, 1, n + 1)), last(n + 1), strict)
    OBVIOUS
  <2> DEFINE s == SubSeq(ms, 1, n)
             m == ms[n + 1]
  <2>1. n \in Nat /\ n + 1 \in 1..Len(ms) /\ m \in Plain /\ last(n + 1) = m
        /\ TextConv(Conv(s), last(n), strict)
    BY <1>0
  <2>2. s \in Seq(Message) /\ SubSeq(ms, 1, n + 1) = Append(s, m)
    BY <1>0, <2>1, FirstPart
  <2>3. m \in Message
    BY <2>1, PlainTypes
  <2>4. strict /\ m = AssistantMsg => last(n) = UserMsg
    <3>1. strict /\ m = AssistantMsg => n + 1 > 1 /\ ms[n + 1 - 1] = UserMsg
      BY <2>1 DEF AnswersInTurn
    <3>2. n + 1 - 1 = n
      BY <2>1
    <3> QED BY <2>1, <3>1, <3>2
  <2> HIDE DEF s, m, last, strict
  <2>5. Conv(Append(s, m)) = ConvertOne(Conv(s), m)
    BY <2>2, <2>3, ConvAppend
  <2>6. TextConv(ConvertOne(Conv(s), m), m, strict)
    BY <2>1, <2>4, TextConvStep
  <2> QED BY <2>1, <2>2, <2>5, <2>6
<1> HIDE DEF S
<1>3. S \in SUBSET Nat
  BY DEF S
<1>4. S = Nat
  BY <1>1, <1>2, <1>3, NatInduct
<1>5. TextConv(Conv(SubSeq(ms, 1, Len(ms))), last(Len(ms)), strict)
  BY <1>0, <1>4 DEF S
<1>6. SubSeq(ms, 1, Len(ms)) = ms
  BY <1>0
<1> QED BY <1>0, <1>5, <1>6 DEF Last

\* A history without calls has no call items.
LEMMA PlainItems ==
  ASSUME NEW ms \in Seq(Plain)
  PROVE  /\ ToResponses(ms) \in Items
         /\ ItemsOK(ToResponses(ms), 0, 0)
<1> DEFINE Clean(items) == \A i \in 1..Len(items) : items[i].type \in {"user", "assistant"}
           S == {n \in Nat : n <= Len(ms) => Clean(ToResponses(SubSeq(ms, 1, n)))}
<1>0. Len(ms) \in Nat /\ ms \in Seq(Message)
  BY PlainTypes
<1>1. 0 \in S
  <2>1. SubSeq(ms, 1, 0) = <<>>
    OBVIOUS
  <2>2. ToResponses(SubSeq(ms, 1, 0)) = <<>>
    BY <2>1, ItemsEmpty
  <2>3. Clean(<<>>)
    OBVIOUS
  <2> HIDE DEF Clean
  <2> QED BY <2>2, <2>3
<1>2. ASSUME NEW n \in S PROVE n + 1 \in S
  <2> SUFFICES ASSUME n + 1 <= Len(ms) PROVE Clean(ToResponses(SubSeq(ms, 1, n + 1)))
    OBVIOUS
  <2> DEFINE s == SubSeq(ms, 1, n)
             m == ms[n + 1]
             a == ToResponses(s)
             b == ResponsesItems(m)
  <2>1. n \in Nat /\ n + 1 \in 1..Len(ms) /\ m \in Plain /\ Clean(a)
    BY <1>0
  <2>2. s \in Seq(Message) /\ SubSeq(ms, 1, n + 1) = Append(s, m)
    BY <1>0, <2>1, FirstPart
  <2>3. m \in Message
    BY <2>1, PlainTypes
  <2>4. a \in Items /\ ToResponses(Append(s, m)) = a \o b /\ b \in Items
    BY <2>2, <2>3, ItemsAppend, ItemsOfType
  <2>5. b = <<>> \/ b = <<[type |-> "user", id |-> NoCall]>>
        \/ b = <<[type |-> "assistant", id |-> NoCall]>>
    <3>1. CASE m = SystemMsg
      BY <3>1, PlainTypes DEF ResponsesItems
    <3>2. CASE m = UserMsg
      BY <3>2, PlainTypes DEF ResponsesItems
    <3>3. CASE m = AssistantMsg
      BY <3>3, PlainTypes DEF ResponsesItems
    <3> QED BY <2>1, <3>1, <3>2, <3>3 DEF Plain
  <2>6. Clean(b)
    BY <2>5
  <2> HIDE DEF s, m, a, b
  <2>7. Clean(a \o b)
    <3> SUFFICES ASSUME NEW i \in 1..Len(a \o b)
                 PROVE  (a \o b)[i].type \in {"user", "assistant"}
      OBVIOUS
    <3>1. Len(a) \in Nat /\ Len(b) \in Nat /\ Len(a \o b) = Len(a) + Len(b)
      BY <2>4 DEF Items
    <3>2. CASE i <= Len(a)
      <4>1. (a \o b)[i] = a[i] /\ i \in 1..Len(a)
        BY <2>4, <3>1, <3>2 DEF Items
      <4> QED BY <2>1, <4>1
    <3>3. CASE i > Len(a)
      <4>1. (a \o b)[i] = b[i - Len(a)] /\ i - Len(a) \in 1..Len(b)
        BY <2>4, <3>1, <3>3 DEF Items
      <4> QED BY <2>6, <4>1
    <3> QED BY <3>1, <3>2, <3>3
  <2> QED BY <2>2, <2>4, <2>7
<1> HIDE DEF S
<1>3. S \in SUBSET Nat
  BY DEF S
<1>4. S = Nat
  BY <1>1, <1>2, <1>3, NatInduct
<1> HIDE DEF Clean
<1>5. Clean(ToResponses(SubSeq(ms, 1, Len(ms))))
  BY <1>0, <1>4 DEF S
<1>6. SubSeq(ms, 1, Len(ms)) = ms
  BY <1>0
<1>7. Clean(ToResponses(ms))
  BY <1>5, <1>6
<1>8. \A id : Nth(ToResponses(ms), "function_call", id) = {}
              /\ Nth(ToResponses(ms), "function_call_output", id) = {}
  BY <1>7 DEF Clean, Nth
<1>9. UserMsg \in Message
  BY MessageTypes
<1>10. ToResponses(ms) \in Items
  BY <1>0, <1>9, ItemsAppend
<1>11. \A id \in Nat \ {0} : ~(id <= 0)
  OBVIOUS
<1> QED BY <1>8, <1>10, <1>11 DEF ItemsOK, Placed

LEMMA FirstRequest ==
  ASSUME NEW h \in Contexts
  PROVE  <<SystemMsg>> \o h \o <<UserMsg>> \in Seq(Plain)
         /\ Last(<<SystemMsg>> \o h \o <<UserMsg>>) = UserMsg
         /\ <<SystemMsg>> \o h \o <<UserMsg>> # <<>>
<1> DEFINE front == <<SystemMsg>> \o h
<1>1. h \in Seq(Plain) /\ SystemMsg \in Plain /\ UserMsg \in Plain
  BY LoopAssumption DEF Plain
<1>2. front \in Seq(Plain) /\ front \o <<UserMsg>> = Append(front, UserMsg)
  BY <1>1
<1> HIDE DEF front
<1>3. /\ Append(front, UserMsg) \in Seq(Plain) /\ Append(front, UserMsg) # <<>>
      /\ Last(Append(front, UserMsg)) = UserMsg
  BY <1>1, <1>2, FrontOfAppend
<1> QED BY <1>2, <1>3 DEF front

RequestInv == LoopTypeOK /\ TodoOK /\ AnthropicOK /\ ResponsesOK

\* The invariant gives what the property says.
LEMMA RequestsGood == RequestInv => RequestWellFormed
<1> SUFFICES ASSUME RequestInv, phase \in {"send", "wait"} PROVE RequestWellFormed
  BY DEF RequestWellFormed
<1>1. GoodOut(Flush(Conv(messages)).out, AnswersInTurn(messages))
  BY DEF RequestInv, AnthropicOK
<1>2. ToAnthropic(messages) = Flush(Conv(messages)).out
  BY DEF ToAnthropic, Conv, Nothing
<1>3. ResponsesPaired
  BY ItemsPaired DEF RequestInv, LoopTypeOK
<1> DEFINE out == ToAnthropic(messages)
           strict == AnswersInTurn(messages)
<1> HIDE DEF out, strict
<1>4. GoodOut(out, strict)
  BY <1>1, <1>2 DEF out, strict
<1>5. AlternatingButSaved(out) /\ (strict => Alternating(out))
  BY <1>4 DEF GoodOut, InTurn, AlternatingButSaved, Alternating
<1> QED BY <1>3, <1>4, <1>5 DEF RequestWellFormed, GoodOut, out, strict

LEMMA RequestInit == Init => RequestInv
<1> SUFFICES ASSUME Init PROVE RequestInv
  OBVIOUS
<1>1. PICK h \in Contexts : messages = <<SystemMsg>> \o h \o <<UserMsg>>
  BY DEF Init
<1>2. phase = "send" /\ todo = <<>> /\ seen = <<>>
  BY DEF Init
<1>3. LoopTypeOK
  BY LoopTypeInit
<1>4. TodoOK
  BY <1>2 DEF TodoOK
<1>5. messages \in Seq(Plain) /\ messages # <<>> /\ Last(messages) = UserMsg
  BY <1>1, FirstRequest
<1> DEFINE conv == Conv(messages)
           strict == AnswersInTurn(messages)
<1>6. TextConv(conv, UserMsg, strict)
  BY <1>5, PlainRequest
<1>7. AnthropicOK
  <2> HIDE DEF conv, strict
  <2>1. TextOut(conv.out, strict) /\ conv.out # <<>> /\ Last(conv.out).role = "user"
        /\ Flush(conv).out = conv.out
    BY <1>6 DEF TextConv, Flush
  <2>2. \A i \in 1..Len(conv.out) : BlockIds(conv.out[i], "tool_use") = <<>>
                                    /\ BlockIds(conv.out[i], "tool_result") = <<>>
    BY <2>1, TextIds DEF TextOut
  <2>3. ResultsFollowCalls(conv.out)
    BY <2>2 DEF ResultsFollowCalls
  <2>4. GoodOut(Flush(conv).out, strict)
    BY <2>1, <2>3 DEF GoodOut, TextOut
  <2> QED BY <1>2, <2>4 DEF AnthropicOK, conv, strict
<1>8. ItemsOK(ToResponses(messages), 0, 0)
  BY <1>5, PlainItems
<1>9. ResponsesOK
  BY <1>2, <1>8 DEF ResponsesOK
<1> QED BY <1>3, <1>4, <1>7, <1>9 DEF RequestInv

LEMMA RequestStepOK == RequestInv /\ [Next]_vars => RequestInv'
BY LoopTypeStep, TodoStep, AnthropicStep, ResponsesStep DEF RequestInv

(***************************************************************************)
(* Whatever history a Chat starts from, however many rounds of calls it    *)
(* makes and how they end, each call's result follows it, once, and roles  *)
(* alternate in every request but where the history itself has an answer   *)
(* that follows no question.                                               *)
(***************************************************************************)
THEOREM RequestsAccepted == Spec => []RequestWellFormed
BY RequestInit, RequestStepOK, RequestsGood, PTL DEF Spec

-----------------------------------------------------------------------------
\* The calls a message list has results of, and the loops it tells of.
Results(ms) == {n \in Nat : \E i \in 1..Len(ms) : ms[i] = ToolMsg(n)}
Told(ms) == {n \in Nat : \E i \in 1..(Len(ms) - 1) : ms[i] = ToolMsg(n) /\ ms[i + 1] = UserMsg}

OneMore(ms, m, more) ==
  /\ Results(more) = Results(ms) \cup {n \in Nat : m = ToolMsg(n)}
  /\ Told(more)
       = Told(ms) \cup {n \in Nat : m = UserMsg /\ ms # <<>> /\ Last(ms) = ToolMsg(n)}
  /\ Told(ms) \subseteq Results(ms)

LEMMA OneMessageMore ==
  ASSUME NEW ms \in Seq(Message), NEW m \in Message
  PROVE  OneMore(ms, m, Append(ms, m))
<1> DEFINE more == Append(ms, m)
           k    == Len(ms)
<1>1. /\ k \in Nat /\ Len(more) = k + 1 /\ more[k + 1] = m
      /\ \A i \in 1..k : more[i] = ms[i]
      /\ ms # <<>> => k \in 1..k /\ Last(ms) = ms[k]
      /\ ms = <<>> => k = 0
  BY DEF Last
<1> HIDE DEF more
<1>2. Results(more) = Results(ms) \cup {n \in Nat : m = ToolMsg(n)}
  <2>1. ASSUME NEW n \in Nat
        PROVE  n \in Results(more) <=> n \in Results(ms) \/ m = ToolMsg(n)
    <3>1. 1..(k + 1) = 1..k \cup {k + 1}
      BY <1>1
    <3> QED BY <1>1, <3>1 DEF Results
  <2> QED BY <2>1 DEF Results
<1>3. Told(more) = Told(ms) \cup {n \in Nat : m = UserMsg /\ ms # <<>> /\ Last(ms) = ToolMsg(n)}
  <2> SUFFICES ASSUME NEW n \in Nat
               PROVE  n \in Told(more)
                        <=> n \in Told(ms) \/ (m = UserMsg /\ ms # <<>> /\ Last(ms) = ToolMsg(n))
    BY DEF Told
  <2>1. \A i \in 1..(k - 1) : i \in 1..k /\ i + 1 \in 1..k
    BY <1>1
  <2>2. CASE ms = <<>>
    BY <1>1, <2>2 DEF Told
  <2>3. CASE ms # <<>>
    <3>1. 1..k = 1..(k - 1) \cup {k} /\ k + 1 - 1 = k
      BY <1>1, <2>3
    <3>2. n \in Told(more) <=> \E i \in 1..k : more[i] = ToolMsg(n) /\ more[i + 1] = UserMsg
      BY <1>1, <3>1 DEF Told
    <3>3. n \in Told(ms) <=> \E i \in 1..(k - 1) : more[i] = ToolMsg(n) /\ more[i + 1] = UserMsg
      BY <1>1, <2>1 DEF Told
    <3>4. Last(ms) = more[k] /\ m = more[k + 1]
      BY <1>1, <2>3
    <3> QED BY <2>3, <3>1, <3>2, <3>3, <3>4
  <2> QED BY <2>2, <2>3
<1>4. Told(ms) \subseteq Results(ms)
  BY <1>1 DEF Told, Results
<1> QED BY <1>2, <1>3, <1>4 DEF OneMore, more

LEMMA ToolMessages ==
  /\ \A n, k : ToolMsg(n) = ToolMsg(k) => n = k
  /\ \A n : ToolMsg(n) \notin {SystemMsg, UserMsg, AssistantMsg}
  /\ \A n, ids : CallsMsg(ids) # UserMsg /\ CallsMsg(ids) # ToolMsg(n)
<1>1. ASSUME NEW n, NEW k, ToolMsg(n) = ToolMsg(k) PROVE n = k
  <2>1. ToolMsg(n).for = n /\ ToolMsg(k).for = k
    BY DEF ToolMsg
  <2> QED BY <1>1, <2>1
<1>2. ASSUME NEW n, NEW ids
      PROVE  /\ ToolMsg(n).role = "tool" /\ CallsMsg(ids).role = "assistant"
             /\ SystemMsg.role = "system" /\ UserMsg.role = "user" /\ AssistantMsg.role = "assistant"
  BY DEF ToolMsg, CallsMsg, SystemMsg, UserMsg, AssistantMsg
<1>3. ASSUME NEW n, NEW ids
      PROVE  /\ ToolMsg(n) \notin {SystemMsg, UserMsg, AssistantMsg}
             /\ CallsMsg(ids) # UserMsg /\ CallsMsg(ids) # ToolMsg(n)
  BY <1>2
<1> QED BY <1>1, <1>3

\* The results are those of the calls made; when a round's calls are done the
\* list ends with the last one's, and no loop is told of yet.
ResultsOK ==
  /\ Results(messages) \subseteq 1..Len(seen)
  /\ phase = "tools" /\ todo = <<>> =>
       /\ Len(seen) >= 1 /\ messages # <<>> /\ Last(messages) = ToolMsg(Len(seen))
       /\ Len(seen) \notin Told(messages)

LEMMA NudgedIsTold == LoopTypeOK /\ ResultsOK => Nudged = Told(messages)
<1> SUFFICES ASSUME LoopTypeOK, ResultsOK PROVE Nudged = Told(messages)
  OBVIOUS
<1>1. Told(messages) \subseteq Results(messages)
  BY MessageTypes, OneMessageMore DEF LoopTypeOK, OneMore
<1>2. Told(messages) \subseteq 1..Len(seen) /\ 1..Len(seen) \subseteq Nat
  BY <1>1 DEF ResultsOK
<1> QED BY <1>2 DEF Nudged, Told

LEMMA ResultsInit == Init => ResultsOK
<1> SUFFICES ASSUME Init PROVE ResultsOK
  OBVIOUS
<1>1. PICK h \in Contexts : messages = <<SystemMsg>> \o h \o <<UserMsg>>
  BY DEF Init
<1>2. \A i \in 1..Len(messages) : messages[i] \in {SystemMsg, UserMsg, AssistantMsg}
  <2> DEFINE S == {SystemMsg, UserMsg, AssistantMsg}
  <2>1. h \in Seq(S) /\ SystemMsg \in S /\ UserMsg \in S
    BY LoopAssumption
  <2> HIDE DEF S
  <2>2. messages \in Seq(S)
    BY <1>1, <2>1
  <2> QED BY <2>2 DEF S
<1>3. Results(messages) = {} /\ phase = "send"
  BY <1>2, ToolMessages DEF Results, Init
<1> QED BY <1>3 DEF ResultsOK

LEMMA ResultsStep ==
  ASSUME LoopTypeOK, TodoOK, ResultsOK, [Next]_vars
  PROVE  ResultsOK'
<1>0. messages \in Seq(Message) /\ seen \in Seq(Signatures) /\ todo \in Seq(Call)
      /\ Len(seen) \in Nat /\ Len(todo) \in Nat
  BY DEF LoopTypeOK, TypeOK
<1>1. CASE UNCHANGED vars \/ Request \/ Exhausted \/ RequestFails \/ OverLimit \/ AnswerWithText
  BY <1>1 DEF vars, Request, Exhausted, RequestFails, OverLimit, AnswerWithText, ResultsOK
<1>2. CASE AnswerWithCalls
  <2>1. PICK n \in Nat \ {0} :
          /\ Len(todo') = n
          /\ messages' = Append(messages, CallsMsg([i \in 1..n |-> Len(seen) + i]))
          /\ [i \in 1..n |-> Len(seen) + i] \in Seq(Nat)
    BY <1>2, NewCalls
  <2> DEFINE m == CallsMsg([i \in 1..n |-> Len(seen) + i])
  <2>2. m \in Message /\ \A k \in Nat : m # ToolMsg(k)
    BY <2>1, MessageTypes, ToolMessages
  <2> HIDE DEF m
  <2>3. Results(messages') = Results(messages)
    <3>1. messages' = Append(messages, m)
      BY <2>1 DEF m
    <3>2. OneMore(messages, m, messages')
      BY <1>0, <2>2, <3>1, OneMessageMore
    <3> QED BY <2>2, <3>2 DEF OneMore
  <2>4. UNCHANGED seen /\ todo' # <<>>
    BY <1>2, <2>1 DEF AnswerWithCalls
  <2> QED BY <2>3, <2>4 DEF ResultsOK
<1>3. CASE RunTool
  <2>1. /\ phase = "tools" /\ todo # <<>> /\ seen' = Append(seen, Head(todo).sig)
        /\ messages' = Append(messages, ToolMsg(Head(todo).id))
    BY <1>3 DEF RunTool
  <2> DEFINE n == Len(seen) + 1
             m == ToolMsg(n)
  <2>2. Len(seen') = n /\ n \in Nat /\ n >= 1
    BY <1>0, <2>1
  <2>3. Head(todo).id = n
    BY <1>0, <2>1 DEF TodoOK
  <2>4. m \in Message /\ m # UserMsg /\ \A k \in Nat : m = ToolMsg(k) => k = n
    BY <2>2, MessageTypes, ToolMessages
  <2> HIDE DEF n, m
  <2>5. messages' = Append(messages, m)
    BY <2>1, <2>3 DEF m
  <2>6. /\ Results(messages') = Results(messages) \cup {k \in Nat : m = ToolMsg(k)}
        /\ Told(messages') = Told(messages) /\ Told(messages) \subseteq Results(messages)
    <3>1. OneMore(messages, m, messages')
      BY <1>0, <2>4, <2>5, OneMessageMore
    <3> QED BY <2>4, <3>1 DEF OneMore
  <2>7. Results(messages) \subseteq 1..Len(seen) /\ n \notin 1..Len(seen)
        /\ 1..Len(seen) \subseteq 1..n
    BY <1>0 DEF ResultsOK, n
  <2>8. Results(messages') \subseteq 1..n /\ n \notin Told(messages')
    BY <2>2, <2>4, <2>6, <2>7
  <2>9. messages' # <<>> /\ Last(messages') = ToolMsg(n)
    BY <1>0, <2>4, <2>5, FrontOfAppend DEF m
  <2> QED BY <2>2, <2>8, <2>9 DEF ResultsOK
<1>4. CASE EndRound
  <2>1. phase' = "send" /\ UNCHANGED seen
        /\ (messages' = messages \/ messages' = Append(messages, UserMsg))
    BY <1>4 DEF EndRound
  <2>2. Results(Append(messages, UserMsg)) = Results(messages)
    <3>1. OneMore(messages, UserMsg, Append(messages, UserMsg))
      BY <1>0, MessageTypes, OneMessageMore
    <3> QED BY <3>1, ToolMessages DEF OneMore
  <2> QED BY <2>1, <2>2 DEF ResultsOK
<1> QED BY <1>1, <1>2, <1>3, <1>4 DEF Next, Chatting

-----------------------------------------------------------------------------
\* The trail: what is written, in order.
Written(entries) == {entries[i] : i \in 1..Len(entries)}
Ordered(entries) == \A i, j \in 1..Len(entries) : i < j => Precedes(entries[i], entries[j])

TrailIs(entries, missing, what) ==
  /\ Written(entries) \cup missing = what /\ Written(entries) \cap missing = {}
  /\ Ordered(entries)

LEMMA OneEntryMore ==
  ASSUME NEW entries \in Seq(Entries), NEW missing, NEW what, NEW e \in Entries,
         TrailIs(entries, missing, what), e \notin what, \A f \in what : Precedes(f, e)
  PROVE  /\ TrailIs(Append(entries, e), missing, what \cup {e})
         /\ TrailIs(entries, missing \cup {e}, what \cup {e})
<1> DEFINE more == Append(entries, e)
           n    == Len(entries)
<1>1. /\ n \in Nat /\ Len(more) = n + 1 /\ more[n + 1] = e
      /\ \A i \in 1..n : more[i] = entries[i]
  OBVIOUS
<1> HIDE DEF more
<1>2. Written(more) = Written(entries) \cup {e}
  <2>1. 1..(n + 1) = 1..n \cup {n + 1}
    BY <1>1
  <2> QED BY <1>1, <2>1 DEF Written
<1>3. Ordered(more)
  <2> SUFFICES ASSUME NEW i \in 1..(n + 1), NEW j \in 1..(n + 1), i < j
               PROVE  Precedes(more[i], more[j])
    BY <1>1 DEF Ordered
  <2>1. i \in 1..n /\ (j \in 1..n \/ j = n + 1)
    BY <1>1
  <2>2. entries[i] \in what
    BY <2>1 DEF TrailIs, Written
  <2>3. CASE j \in 1..n
    BY <1>1, <2>1, <2>3 DEF TrailIs, Ordered
  <2>4. CASE j = n + 1
    BY <1>1, <2>1, <2>2, <2>4
  <2> QED BY <2>1, <2>3, <2>4
<1>4. Written(entries) \subseteq what
  BY DEF TrailIs
<1>5. TrailIs(more, missing, what \cup {e})
  BY <1>2, <1>3, <1>4 DEF TrailIs
<1>6. TrailIs(entries, missing \cup {e}, what \cup {e})
  BY <1>4 DEF TrailIs
<1> QED BY <1>5, <1>6 DEF more

LEMMA Logged ==
  ASSUME LoopTypeOK, AuditComplete, NEW e \in Entries, e \notin Happened,
         \A f \in Happened : Precedes(f, e), LogAudit(e)
  PROVE  TrailIs(audit', lost', Happened \cup {e})
<1>1. TrailIs(audit, lost, Happened)
  BY DEF AuditComplete, TrailIs, Written, Ordered
<1>2. audit \in Seq(Entries)
  BY DEF LoopTypeOK, TypeOK
<1> DEFINE what == Happened
<1> HIDE DEF what
<1>3. /\ TrailIs(Append(audit, e), lost, what \cup {e})
      /\ TrailIs(audit, lost \cup {e}, what \cup {e})
  BY <1>1, <1>2, OneEntryMore DEF what
<1> QED BY <1>3 DEF LogAudit, what

LEMMA AuditIs == (AuditComplete <=> TrailIs(audit, lost, Happened))
                 /\ (AuditComplete' <=> TrailIs(audit', lost', Happened'))
BY DEF AuditComplete, TrailIs, Written, Ordered

LEMMA AuditInit == Init => AuditComplete
<1> SUFFICES ASSUME Init PROVE AuditComplete
  OBVIOUS
<1>1. audit = <<>> /\ lost = {} /\ seen = <<>> /\ phase = "send"
  BY DEF Init
<1>2. Happened = {}
  BY <1>1 DEF Happened, Nudged
<1> QED BY <1>1, <1>2 DEF AuditComplete

\* The entries are of calls that were made.
LEMMA HappenedIs ==
  ASSUME LoopTypeOK, NEW e \in Happened, phase # "answered"
  PROVE  /\ e.calls \in 1..Len(seen)
         /\ \/ e.action = "tool_call" /\ e = Entry("tool_call", e.calls)
            \/ e.action = "loop_detected" /\ e = Entry("loop_detected", e.calls)
               /\ e.calls \in Nudged
BY DEF Happened, Nudged, Entry

LEMMA AuditStep ==
  ASSUME LoopTypeOK, LoopTypeOK', ResultsOK, ResultsOK', AuditComplete, [Next]_vars
  PROVE  AuditComplete'
<1>0. Len(seen) \in Nat /\ messages \in Seq(Message) /\ UserMsg \in Message
      /\ todo \in Seq(Call)
  BY MessageTypes DEF LoopTypeOK, TypeOK
<1>1. Nudged = Told(messages) /\ Nudged' = Told(messages')
  <2>1. Nudged' = {n \in 1..Len(seen') : \E i \in 1..(Len(messages') - 1) :
                     messages'[i] = ToolMsg(n) /\ messages'[i + 1] = UserMsg}
    BY DEF Nudged
  <2>2. Told(messages') \subseteq Results(messages') /\ Results(messages') \subseteq 1..Len(seen')
    BY MessageTypes, OneMessageMore DEF LoopTypeOK, ResultsOK, OneMore
  <2>3. 1..Len(seen') \subseteq Nat
    BY DEF LoopTypeOK, TypeOK
  <2> QED BY <2>1, <2>2, <2>3, NudgedIsTold DEF Told
<1>2. ASSUME UNCHANGED <<trail, seen>>, Nudged' = Nudged,
             phase # "answered", phase' # "answered"
      PROVE  AuditComplete'
  <2>1. Happened' = Happened
    BY <1>2 DEF Happened
  <2> QED BY <1>2, <2>1, AuditIs DEF trail
<1>3. CASE UNCHANGED vars
  BY <1>3, AuditIs DEF vars, Happened, Nudged
<1>4. CASE Request \/ Exhausted \/ RequestFails \/ OverLimit
  BY <1>1, <1>2, <1>4 DEF Request, Exhausted, RequestFails, OverLimit
<1>5. CASE AnswerWithCalls
  <2>1. PICK ids : messages' = Append(messages, CallsMsg(ids)) /\ CallsMsg(ids) \in Message
    <3>1. PICK n \in Nat \ {0} :
            /\ messages' = Append(messages, CallsMsg([i \in 1..n |-> Len(seen) + i]))
            /\ [i \in 1..n |-> Len(seen) + i] \in Seq(Nat)
      BY <1>5, NewCalls
    <3> QED BY <3>1, MessageTypes
  <2>2. Told(messages') = Told(messages)
    <3> DEFINE m == CallsMsg(ids)
    <3>1. m # UserMsg /\ m \in Message /\ messages' = Append(messages, m)
      BY <2>1, ToolMessages
    <3> HIDE DEF m
    <3>2. OneMore(messages, m, messages')
      BY <1>0, <3>1, OneMessageMore
    <3> QED BY <3>1, <3>2 DEF OneMore
  <2> QED BY <1>1, <1>2, <1>5, <2>2 DEF AnswerWithCalls
<1>6. CASE RunTool
  <2> DEFINE n == Len(seen) + 1
             e == Entry("tool_call", n)
  <2>1. /\ phase = "tools" /\ phase' = "tools" /\ Len(seen') = n /\ n \in Nat
        /\ LogAudit(e)
        /\ messages' = Append(messages, ToolMsg(Head(todo).id))
    BY <1>0, <1>6 DEF RunTool, LoopTypeOK, TypeOK
  <2>2. Told(messages') = Told(messages)
    <3> DEFINE m == ToolMsg(Head(todo).id)
    <3>1. m # UserMsg /\ messages' = Append(messages, m)
      BY <2>1, ToolMessages
    <3>2. m \in Message
      <4>1. Head(todo) \in Call
        BY <1>0, <1>6 DEF RunTool
      <4> QED BY <4>1, MessageTypes DEF Call
    <3> HIDE DEF m
    <3>3. OneMore(messages, m, messages')
      BY <1>0, <3>1, <3>2, OneMessageMore
    <3> QED BY <3>1, <3>3 DEF OneMore
  <2>3. 1..n = 1..Len(seen) \cup {n}
    BY <1>0
  <2>4. Happened' = Happened \cup {e}
    BY <1>1, <2>1, <2>2, <2>3 DEF Happened
  <2>5. e \in Entries /\ e.calls = n /\ e.action = "tool_call"
    BY <2>1, EntryType DEF Entry
  <2> HIDE DEF e
  <2>6. \A f \in Happened : f.calls < n
    BY <1>0, <2>1, HappenedIs
  <2>7. e \notin Happened /\ \A f \in Happened : Precedes(f, e)
    BY <2>1, <2>5, <2>6 DEF Precedes
  <2> QED BY <2>1, <2>4, <2>5, <2>7, Logged, AuditIs
<1>7. CASE EndRound
  <2>1. phase = "tools" /\ todo = <<>> /\ phase' = "send" /\ UNCHANGED seen
    BY <1>7 DEF EndRound
  <2>2. CASE ~looping
    BY <1>1, <1>2, <1>7, <2>1, <2>2 DEF EndRound, trail
  <2>3. CASE looping
    <3> DEFINE n == Len(seen)
               e == Entry("loop_detected", n)
    <3>1. LogAudit(e) /\ messages' = Append(messages, UserMsg)
      BY <1>7, <2>3 DEF EndRound
    <3>2. messages # <<>> /\ Last(messages) = ToolMsg(n) /\ n \in Nat /\ n >= 1
          /\ n \notin Told(messages)
      BY <1>0, <2>1 DEF ResultsOK
    <3>3. Told(messages') = Told(messages) \cup {n}
      <4>1. Told(messages')
              = Told(messages) \cup {k \in Nat : UserMsg = UserMsg /\ messages # <<>>
                                                 /\ Last(messages) = ToolMsg(k)}
        <5>1. OneMore(messages, UserMsg, messages')
          BY <1>0, <3>1, OneMessageMore
        <5> QED BY <5>1 DEF OneMore
      <4> QED BY <3>2, <4>1, ToolMessages
    <3>4. Happened' = Happened \cup {e}
      BY <1>1, <2>1, <3>3 DEF Happened
    <3>5. e \in Entries /\ e.calls = n /\ e.action = "loop_detected"
      BY <3>2, EntryType DEF Entry
    <3> HIDE DEF e
    <3>6. \A f \in Happened : f.calls < n \/ (f.calls = n /\ f.action = "tool_call")
      <4> TAKE f \in Happened
      <4>1. /\ f.calls \in 1..n
            /\ f.action = "tool_call" \/ (f.action = "loop_detected" /\ f.calls \in Nudged)
        BY <2>1, HappenedIs
      <4> QED BY <1>1, <3>2, <4>1
    <3>7. e \notin Happened /\ \A f \in Happened : Precedes(f, e)
      BY <3>2, <3>5, <3>6 DEF Precedes
    <3> QED BY <3>1, <3>4, <3>5, <3>7, Logged, AuditIs
  <2> QED BY <2>2, <2>3
<1>8. CASE AnswerWithText
  <2>1. phase = "wait" /\ UNCHANGED <<seen, messages>>
    BY <1>8 DEF AnswerWithText
  <2>2. CASE phase' = "failed" /\ UNCHANGED trail
    BY <1>1, <1>2, <2>1, <2>2
  <2>3. CASE phase' = "answered" /\ LogAudit(Entry("llm_chat", Len(seen)))
    <3> DEFINE n == Len(seen)
               e == Entry("llm_chat", n)
    <3>1. Happened' = Happened \cup {e}
      BY <1>1, <2>1, <2>3 DEF Happened
    <3>2. e \in Entries /\ e.calls = n /\ e.action = "llm_chat"
      BY <1>0, EntryType DEF Entry
    <3>0. LogAudit(e)
      BY <2>3
    <3> HIDE DEF e
    <3>3. \A f \in Happened : /\ f.calls < n \/ f.calls = n
                              /\ f.action \in {"tool_call", "loop_detected"}
      BY <1>0, <2>1, HappenedIs
    <3>4. e \notin Happened /\ \A f \in Happened : Precedes(f, e)
      BY <3>2, <3>3 DEF Precedes
    <3> QED BY <3>0, <3>1, <3>2, <3>4, Logged, AuditIs
  <2> QED BY <1>8, <2>2, <2>3 DEF AnswerWithText
<1> QED BY <1>3, <1>4, <1>5, <1>6, <1>7, <1>8 DEF Next, Chatting

-----------------------------------------------------------------------------
LoopInv ==
  /\ LoopTypeOK /\ TodoOK /\ ResultsOK
  /\ AuditComplete /\ RoundOK /\ NudgedIffLooping

LEMMA LoopInitOK == Init => LoopInv
<1>1. Init => RoundOK /\ NudgedIffLooping /\ TodoOK
  BY DEF Init, RoundOK, NudgedIffLooping, TodoOK
<1> QED BY <1>1, LoopTypeInit, ResultsInit, AuditInit DEF LoopInv

LEMMA LoopStepOK == LoopInv /\ [Next]_vars => LoopInv'
<1> SUFFICES ASSUME LoopInv, [Next]_vars PROVE LoopInv'
  OBVIOUS
<1>1. LoopTypeOK' /\ TodoOK' /\ ResultsOK'
  BY LoopTypeStep, TodoStep, ResultsStep DEF LoopInv
<1> QED BY <1>1, AuditStep, RoundStep, NudgeStep DEF LoopInv

LEMMA LoopInvariance == Spec => []LoopInv
BY LoopInitOK, LoopStepOK, PTL DEF Spec

(***************************************************************************)
(* However the model answers, the call ends and writes of the trail fail,  *)
(* it lists what happened, in order and once; what is missing is in the    *)
(* log.                                                                    *)
(***************************************************************************)
THEOREM TrailComplete == Spec => []AuditComplete
<1>1. LoopInv => AuditComplete
  BY DEF LoopInv
<1> QED BY <1>1, LoopInvariance, PTL

(***************************************************************************)
(* For any number of calls in a round and any threshold the model is told  *)
(* of a loop in the round that closes it, and only then.                   *)
(***************************************************************************)
THEOREM LoopsAreTold == Spec => []NudgedIffLooping
<1>1. LoopInv => NudgedIffLooping
  BY DEF LoopInv
<1> QED BY <1>1, LoopInvariance, PTL
=============================================================================
