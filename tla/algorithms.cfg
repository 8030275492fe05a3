\* Messages cost 10 to 40 of 100 tokens: budgets are met exactly, passed by
\* one, and missed by a single message, with and without room for a prompt.
\* A robots.txt of four lines holds two groups with a rule each, or three
\* rules of one group.  Of four memories some are neither among the matches
\* that are looked at nor among the similar ones.
CONSTANTS
  MaxContext = 100
  Lengths = {0, 1, 37, 120}
  SysCosts = {0, 29, 30, 45, 70}
  ToolTokens = 10
  MaxMessages = 5
  Answers <- MCAnswers
  MaxBad = 1
  Paths <- MCPaths
  Patterns <- MCPatterns
  MaxLines = 4
  Memories <- MCMemories
  MaxCorpus = 4
  SearchLimit = 1
SPECIFICATION AlgorithmsSpec
INVARIANTS WalksExact StreamsAssembled RobotsDecides SearchBest
CHECK_DEADLOCK FALSE
