\* As heartbeat.cfg, but a second goroutine calls Chat.
CONSTANTS
  Chats = {c1, c2}
  Limit <- MCLimit
  Length <- MCLength
  MaxCost = 2
  Day = 3
  DefaultInterval = 1
  Malformed = Malformed
  IntervalStrings = {Malformed, 2}
  QuietStrings <- MCQuiet
SPECIFICATION HeartbeatSpec
INVARIANT SpentExact
CHECK_DEADLOCK FALSE
