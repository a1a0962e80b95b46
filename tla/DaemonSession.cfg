SPECIFICATION FairSpec
CONSTANTS
  a = a
  b = b
  Clients = {a, b}
  ChanCap = 2
  MaxBuffer = 2
  MaxLines = 5
INVARIANTS GapsAreExact ChannelsClosedOnce
PROPERTIES StreamsEnd
CHECK_DEADLOCK FALSE
