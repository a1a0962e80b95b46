SPECIFICATION Spec
CONSTANTS
  NoCall = NoCall
  NoFile = NoFile
  f = f
  Files = {f}
  PreserveLast = 0
  DefaultLast = 1
  BigCost = 1
  ProtectRecent = 1
  MinReclaim = 1
  MaxRecentEdits = 1
  Threshold = 8
  ToolTokens = 0
  Ratios = {4}
  MaxTurns = 3
  MaxReconnects = 1
  MaxStalls = 1
  MaxEmptyTurns = 2
  MaxContinueNudges = 1
  FailStopAt = 1
  RunOptions <- SomeOptions
  Batches <- SomeBatches
  Texts <- SomeTexts
  Errors <- SomeErrors
  Outcomes <- SomeOutcomes
  Bodies = {"small"}
INVARIANTS OneVisibleAnswer GatedAnswer ReadsSeeWrites CancelStopsTools DiagnosticsDelivered
PROPERTIES LoopEnds KeepsConversation
CHECK_DEADLOCK FALSE
