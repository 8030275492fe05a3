\* Three updates, the second without a text; the program is started twice.
\* Six keys are a line, an ESC, and a line typed ahead with a correction.
\* Two clients of one limiter: the clock can pass the window and the cleaning
\* age, so that timestamps leave the window, are pruned, and are cleaned up.
CONSTANTS
  Clients = {a, b}
  Window = 2
  MaxReqs = 2
  CleanAge = 3
  MaxTime = 4
  Apps = {app}
  Agents = 1
  Updates = 3
  TextUpdates = {1, 3}
  MaxStarts = 2
  Printable = {"y", "q"}
  ExitLine <- MCExitLine
  Capacity = 3
  MaxKeys = 6
SPECIFICATION SmithlySpec
INVARIANTS RateBound ConfirmedIsHandled GivenOnceInOrder
PROPERTIES IsSlidingWindow ShutdownEnds TypedAheadKept InterruptEnds
CHECK_DEADLOCK FALSE
