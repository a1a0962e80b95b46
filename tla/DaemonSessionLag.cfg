SPECIFICATION SessionSpec
CONSTANTS
  a = a
  Clients = {a}
  ChanCap = 1
  MaxBuffer = 2
  MaxLines = 3
INVARIANTS EndedStreamIsComplete
CHECK_DEADLOCK FALSE
