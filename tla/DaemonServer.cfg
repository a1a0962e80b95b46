SPECIFICATION ServerFairSpec
CONSTANTS
  a = a
  b = b
  x = x
  None = None
  Local = {a, b}
  Remote = {x}
PROPERTIES ShutdownStopsServe ShutdownEndsHandlers
CHECK_DEADLOCK FALSE
