SPECIFICATION Spec
CONSTANTS
  p = p
  q = q
  r = r
  Nobody = Nobody
  NoFile = NoFile
  Procs = {p, q, r}
  Strict = FALSE
  MaxMessages = 2
  MaxSends = 1
INVARIANTS MutualExclusion
CHECK_DEADLOCK FALSE
