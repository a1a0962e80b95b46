SPECIFICATION Spec
CONSTANTS
  i = i
  j = j
  k = k
  a = a
  b = b
  c = c
  d = d
  Ids = {i, j, k}
  Clients = {a, b, c, d}
  MaxSessions = 1
  MaxStarts = 4
SYMMETRY Symmetry
INVARIANTS OpenSessionsRegistered ForgottenOnlyForRoom
PROPERTIES ScanFreesWhatItCan
CHECK_DEADLOCK FALSE
