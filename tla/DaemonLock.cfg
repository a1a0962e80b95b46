SPECIFICATION Spec
CONSTANTS
  p = p
  q = q
  r = r
  s = s
  Empty = Empty
  NoFile = NoFile
  Procs = {p, q, r, s}
SYMMETRY Symmetry
INVARIANTS LoneStartSucceeds
PROPERTIES SettledDaemonKeepsLock
CHECK_DEADLOCK FALSE
