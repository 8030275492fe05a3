\* Two runs; a build may take longer than the grace. One tick is 30 s for the
\* code's limits, less one: the proportions are what matters.
CONSTANTS
  Runs = {r1, r2}
  Timeout = 1
  BuildTimeout = 2
  Grace = 1
  MaxChildren = 1
SPECIFICATION RunSpec
INVARIANTS TokenEndsWithRun TokenLasts
PROPERTY RunReturns
CHECK_DEADLOCK FALSE
