SPECIFICATION Spec
CONSTANTS
  p = p
  q = q
  Empty = Empty
  NoFile = NoFile
  Procs = {p, q}
SYMMETRY Symmetry
INVARIANTS SingleInstance
CHECK_DEADLOCK FALSE
