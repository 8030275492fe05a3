\* Chat: four requests of at most two calls: rounds can repeat a call, break
\* the repetition, and close a loop across rounds before the iterations run
\* out.  Memory: two processes migrate; of three messages the first can never
\* be embedded, and a batch is two.
CONSTANTS
  NoCall = NoCall
  MaxIterations = 4
  LoopThreshold = 3
  MaxCalls = 2
  MaxLost = 1
  Signatures = {s1, s2}
  Contexts <- MCContexts
  Processes = {p1, p2}
  Unembeddable = {1}
  Batch = 2
  MaxMessages = 3
  MaxKills = 1
SPECIFICATION AgentSpec
INVARIANTS RequestWellFormed NudgedIffLooping AuditComplete SchemaComplete IndexComplete
PROPERTIES ChatReturns Backfilled
CHECK_DEADLOCK FALSE
