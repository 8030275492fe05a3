---------------------------- MODULE MCAgentLoop ----------------------------
(***************************************************************************)
(* Model checking of the agent and of its memory: one call of Chat with    *)
(* its tool loop (AgentLoop), or the database its turns are appended to,   *)
(* with its migrations and what it is searched by (MemoryIndex).  They     *)
(* share only the rows that ChatHistory is about, so that each behaviour   *)
(* is of the one that `part` says.                                         *)
(***************************************************************************)
EXTENDS AgentLoop, MemoryIndex

VARIABLE part

\* A summary and a turn; and, cut by a trim, a compaction or the LIMIT of the
\* load, or saved by calls that overlapped, a history that begins with an
\* answer and one with two questions and then two answers.
MCContexts == {<<SystemMsg, UserMsg, AssistantMsg>>, <<AssistantMsg>>,
               <<UserMsg, UserMsg, AssistantMsg, AssistantMsg>>}

NoMemory ==
  /\ pc = [p \in Processes |-> "absent"] /\ schema = {} /\ saved = 0
  /\ effects = <<>> /\ indexed = <<>> /\ embedded = {} /\ writer = "none"
  /\ job = <<>> /\ next = <<>> /\ batch = <<>> /\ kills = 0

NoChat ==
  /\ phase = "absent" /\ messages = <<>> /\ requests = 0 /\ todo = <<>>
  /\ seen = <<>> /\ looping = FALSE /\ audit = <<>> /\ lost = {}

AgentInit ==
  \/ part = "chat" /\ Init /\ NoMemory
  \/ part = "memory" /\ NoChat /\ MemoryInit

AgentNext ==
  \/ part = "chat" /\ Next /\ UNCHANGED <<part, memoryVars>>
  \/ part = "memory" /\ MemoryNext /\ UNCHANGED <<part, vars>>

AgentSpec ==
  /\ AgentInit /\ [][AgentNext]_<<part, memoryVars, vars>>
  /\ WF_vars(Chatting) /\ MemoryFairness
=============================================================================
