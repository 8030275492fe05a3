\* One goroutine calls Chat: the heartbeat's, or a user's beside a skill
\* heartbeat or none.  A response can leave a window below its limit, at it
\* and over it; the windows expire at different times; one, two or all hours of
\* three may be quiet; a heartbeat every other hour meets each of the three,
\* one every three hours always the same.
CONSTANTS
  Chats = {c1}
  Limit <- MCLimit
  Length <- MCLength
  MaxCost = 2
  Day = 3
  DefaultInterval = 2
  Malformed = Malformed
  IntervalStrings = {Malformed, 3}
  QuietStrings <- MCQuiet
SPECIFICATION HeartbeatSpec
INVARIANTS SpentExact TrailingBound
PROPERTIES NoRequestOverLimit QuietKept HeartbeatRuns
CHECK_DEADLOCK FALSE
