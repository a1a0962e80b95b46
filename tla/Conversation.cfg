SPECIFICATION ConversationSpec
CONSTANTS
  f = f
  g = g
  none = none
  NoCall = NoCall
  PreserveLast = 2
  DefaultLast = 1
  BigCost = 2
  ProtectRecent = 1
  MinReclaim = 1
  MaxRecentEdits = 1
  Threshold = 5
  ToolTokens = 0
  Ratios = {4}
  TurnLimit = 2
  Lengths <- SomeLengths
  MaxNotes = 1
  Args = {f, g, none}
  CallBatches <- SomeBatches
  ResultBodies = {"small", "big"}
INVARIANTS HistoryIsReplayable
PROPERTIES StateSurvives RecentIsVerbatim
CHECK_DEADLOCK FALSE
