\* Three overlapping calls; two saved messages (22 tokens) already exceed 60%
\* of the 30-token context, and one is kept, so every later call compacts.
CONSTANTS
  Chats = {c1, c2, c3}
  NoChat = NoChat
  HistoryLimit = 4
  MaxContext = 30
  MessageLen = 4
  SummaryLen = 4
  SysTokens = 0
  ToolTokens = 0
SYMMETRY Symmetry
SPECIFICATION Spec
INVARIANTS AnswerIsSaved NoUnsaidAnswer ContextChronological
CHECK_DEADLOCK FALSE
