---------------------------- MODULE MemoryIndex ----------------------------
(***************************************************************************)
(* The database file as the processes of one user share it: each migrates  *)
(* it when it starts (internal/db/sqlite/sqlite.go and its migrations),    *)
(* the program appends messages, and `smithly memory embed`                *)
(* (cmd/smithly/cmd_memory.go) computes the embeddings that are missing.   *)
(* The full text index and the embeddings are what a search looks into.    *)
(***************************************************************************)
EXTENDS Integers, Sequences, SequencesExt, FiniteSetsExt

CONSTANTS
  Processes,
  Unembeddable,  \* messages the embedding API always refuses
  Batch,         \* messages of one embed run (100 in the code)
  MaxMessages,   \* bound: messages ever appended
  MaxKills       \* bound: processes killed

VARIABLES
  schema,    \* versions in table schema_version
  effects,   \* how often a version's statements were committed
  saved,     \* table memory: messages 1, 2, ..., saved
  indexed,   \* how often a message is in memory_fts
  embedded,  \* messages with an embedding
  writer,    \* the process whose transaction holds the write lock, or None
  pc,        \* "down", "open", "migrate", "record", "commit", "serving",
             \* "list", "embed"
  job,       \* what a process was started for: "start" or "embed"
  next,      \* its next migration
  batch,     \* messages an embed run still has to do
  kills

memoryVars == <<schema, effects, saved, indexed, embedded, writer, pc, job, next,
          batch, kills>>
tables == <<schema, effects, saved, indexed, embedded>>

None == "none"

ASSUME MemoryAssumption ==
  /\ None \notin Processes
  /\ {Batch, MaxMessages, MaxKills} \subseteq Nat

Latest == 3      \* 001_init, 002_store (without statements), 003_memory_fts
IndexVersion == 3
MessageIds == 1..MaxMessages

\* A new file, or one an older release has left with a message or none.
MemoryInit ==
  /\ schema \in {{}, {1}, {1, 2}}
  /\ effects = [v \in 1..Latest |-> IF v \in schema THEN 1 ELSE 0]
  /\ saved \in IF schema = {} THEN {0} ELSE {0, 1}
  /\ indexed = [m \in MessageIds |-> 0] /\ embedded = {}
  /\ writer = None
  /\ pc = [p \in Processes |-> "down"] /\ job = [p \in Processes |-> "start"]
  /\ next = [p \in Processes |-> 1] /\ batch = [p \in Processes |-> <<>>]
  /\ kills = 0

Goto(p, label) == pc' = [pc EXCEPT ![p] = label]

-----------------------------------------------------------------------------
\* loadConfig opens the database.  (Bound: of the long running commands,
\* `start` and `chat`, the user runs one at a time; another cannot have the
\* gateway's port.)
Open(p, work) ==
  /\ pc[p] = "down"
  /\ work = "start" => \A q \in Processes : pc[q] = "down" \/ job[q] = "embed"
  /\ job' = [job EXCEPT ![p] = work] /\ Goto(p, "open")
  /\ UNCHANGED <<tables, writer, next, batch, kills>>

\* Migrate makes schema_version, if it is not there, and reads the largest.
GetVersion(p) ==
  /\ pc[p] = "open"
  /\ next' = [next EXCEPT ![p] = Max(schema \union {0}) + 1]
  /\ Goto(p, "migrate")
  /\ UNCHANGED <<tables, writer, job, batch, kills>>

\* Mutant: a version is recorded, and committed, before its statements run.
ExecuteRecorded(p) ==
  /\ pc[p] = "migrate" /\ next[p] <= Latest /\ writer = None
  /\ next[p] = IndexVersion => effects[IndexVersion] = 0
  /\ schema' = schema \union {next[p]}
  /\ writer' = p /\ Goto(p, "commit")
  /\ UNCHANGED <<effects, saved, indexed, embedded, job, next, batch, kills>>

\* A transaction runs a version's statements.  Those of 003 make triggers,
\* and fail if they are there; those of 001 make what is not there.
Execute(p) ==
  /\ pc[p] = "migrate" /\ next[p] <= Latest /\ writer = None
  /\ next[p] = IndexVersion => effects[IndexVersion] = 0
  /\ writer' = p /\ Goto(p, "record")
  /\ UNCHANGED <<tables, job, next, batch, kills>>

\* In the same transaction the version is recorded, which fails if it is.
Record(p) ==
  /\ pc[p] = "record" /\ next[p] \notin schema
  /\ Goto(p, "commit")
  /\ UNCHANGED <<tables, writer, job, next, batch, kills>>

\* 003 indexes the messages there are; from then on a trigger does.
IndexAll == [m \in MessageIds |-> IF m <= saved THEN indexed[m] + 1 ELSE indexed[m]]

\* Mutant: 003 makes the index and its triggers only.
CommitEmptyIndex(p) ==
  /\ pc[p] = "commit"
  /\ schema' = schema \union {next[p]}
  /\ effects' = [effects EXCEPT ![next[p]] = @ + 1]
  /\ next' = [next EXCEPT ![p] = @ + 1]
  /\ writer' = None /\ Goto(p, "migrate")
  /\ UNCHANGED <<indexed, saved, embedded, job, batch, kills>>

Commit(p) ==
  /\ pc[p] = "commit"
  /\ schema' = schema \union {next[p]}
  /\ effects' = [effects EXCEPT ![next[p]] = @ + 1]
  /\ indexed' = IF next[p] = IndexVersion THEN IndexAll ELSE indexed
  /\ next' = [next EXCEPT ![p] = @ + 1]
  /\ writer' = None /\ Goto(p, "migrate")
  /\ UNCHANGED <<saved, embedded, job, batch, kills>>

\* An error ends the process: the database is locked, or another process
\* has applied the version in the meantime; the transaction is rolled back.
MigrateFails(p) ==
  /\ \/ pc[p] \in {"open", "migrate"} /\ writer \notin {None, p}
     \/ pc[p] = "migrate" /\ next[p] = IndexVersion /\ effects[IndexVersion] > 0
     \/ pc[p] = "record" /\ next[p] \in schema
  /\ writer' = IF writer = p THEN None ELSE writer
  /\ Goto(p, "down")
  /\ UNCHANGED <<tables, job, next, batch, kills>>

Migrated(p) ==
  /\ pc[p] = "migrate" /\ next[p] > Latest
  /\ Goto(p, IF job[p] = "embed" THEN "list" ELSE "serving")
  /\ UNCHANGED <<tables, writer, job, next, batch, kills>>

-----------------------------------------------------------------------------
\* A chat saves a message; the trigger indexes it.
AppendMessage(p) ==
  /\ pc[p] = "serving" /\ saved < MaxMessages /\ writer = None
  /\ saved' = saved + 1
  /\ indexed' = [indexed EXCEPT ![saved + 1] = @ + effects[IndexVersion]]
  /\ UNCHANGED <<schema, effects, embedded, writer, pc, job, next, batch, kills>>

Stop(p) ==
  /\ pc[p] = "serving" /\ Goto(p, "down")
  /\ UNCHANGED <<tables, writer, job, next, batch, kills>>

\* GetUnembeddedMessages: the oldest ones, at most Batch.
Unembedded == SetToSortSeq((1..saved) \ embedded, <)

ListUnembedded(p) ==
  /\ pc[p] = "list"
  /\ batch' = [batch EXCEPT ![p] =
       SubSeq(Unembedded, 1, Min({Batch, Len(Unembedded)}))]
  /\ Goto(p, "embed")
  /\ UNCHANGED <<tables, writer, job, next, kills>>

\* A message is embedded, and its embedding inserted or replaced.
Embed(p, m) ==
  /\ pc[p] = "embed" /\ batch[p] # <<>> /\ Head(batch[p]) = m
  /\ m \notin Unembeddable /\ writer = None
  /\ embedded' = embedded \union {m}
  /\ batch' = [batch EXCEPT ![p] = Tail(@)]
  /\ UNCHANGED <<schema, effects, saved, indexed, writer, pc, job, next, kills>>

\* Mutant: the first message that cannot be embedded ends the run.
EmbedGivesUp(p) ==
  /\ pc[p] = "embed" /\ batch[p] # <<>>
  /\ batch' = [batch EXCEPT ![p] = <<>>]
  /\ UNCHANGED <<tables, writer, pc, job, next, kills>>

\* The API or the database fails: a warning, and the next message.
EmbedFails(p) ==
  /\ pc[p] = "embed" /\ batch[p] # <<>>
  /\ batch' = [batch EXCEPT ![p] = Tail(@)]
  /\ UNCHANGED <<tables, writer, pc, job, next, kills>>

EmbedDone(p) ==
  /\ pc[p] = "embed" /\ batch[p] = <<>>
  /\ Goto(p, "down")
  /\ UNCHANGED <<tables, writer, job, next, batch, kills>>

\* Killed: an open transaction is rolled back.
Kill(p) ==
  /\ pc[p] # "down" /\ kills < MaxKills
  /\ kills' = kills + 1
  /\ writer' = IF writer = p THEN None ELSE writer
  /\ batch' = [batch EXCEPT ![p] = <<>>] /\ Goto(p, "down")
  /\ UNCHANGED <<tables, job, next>>

Proceeds(p) ==
  \/ GetVersion(p) \/ Execute(p) \/ Record(p) \/ Commit(p) \/ MigrateFails(p)
  \/ Migrated(p) \/ ListUnembedded(p) \/ EmbedFails(p) \/ EmbedDone(p)
  \/ \E m \in MessageIds : Embed(p, m)

MemoryNext ==
  \E p \in Processes :
    \/ \E work \in {"start", "embed"} : Open(p, work)
    \/ Proceeds(p) \/ AppendMessage(p) \/ Stop(p) \/ Kill(p)

\* A process that was started goes on.  The user runs embed again and again,
\* and the API answers a message it can embed if it is asked often enough.
MemoryFairness ==
  /\ \A p \in Processes : WF_memoryVars(Proceeds(p))
  /\ SF_memoryVars(\E p \in Processes : Open(p, "embed"))
  /\ \A m \in MessageIds : SF_memoryVars(\E p \in Processes : Embed(p, m))

MemorySpec == MemoryInit /\ [][MemoryNext]_memoryVars /\ MemoryFairness

-----------------------------------------------------------------------------
\* Processes that start at the same time, fail or die: one that has got past
\* Migrate finds every version's statements applied, exactly once.
SchemaComplete ==
  (\E p \in Processes : pc[p] \in {"serving", "list", "embed"})
    => schema = 1..Latest /\ \A v \in schema : effects[v] = 1

\* Keyword search misses no message and finds none twice, also those of
\* before there was an index.  (Migration 003 and its triggers.)
IndexComplete ==
  IndexVersion \in schema =>
    \A m \in MessageIds : indexed[m] = IF m <= saved THEN 1 ELSE 0

\* Every message the API can embed gets its embedding, whoever else is run
\* and whatever fails, unless a whole batch of older ones never can.
\* (cmdMemoryEmbed, GetUnembeddedMessages.)
Backfilled ==
  \A m \in MessageIds \ Unembeddable : saved >= m ~> m \in embedded
=============================================================================
