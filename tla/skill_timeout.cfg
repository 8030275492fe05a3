\* The finding: one run of a program that leaves a child in the background.
CONSTANTS
  Runs = {r1}
  Timeout = 1
  BuildTimeout = 2
  Grace = 1
  MaxChildren = 1
SPECIFICATION RunSpec
INVARIANT KilledOnTimeout
CHECK_DEADLOCK FALSE
