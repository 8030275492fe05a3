\* Two calls leave a history to compact; the third compacts it and a later one reads what is left.
CONSTANTS
  Chats = {c1, c2, c3}
  NoChat = NoChat
  HistoryLimit = 4
  MaxContext = 30
  MessageLen = 4
  SummaryLen = 4
  SysTokens = 0
  ToolTokens = 0
SYMMETRY Symmetry
SPECIFICATION Spec
INVARIANT ContextHasNoHole
CHECK_DEADLOCK FALSE
