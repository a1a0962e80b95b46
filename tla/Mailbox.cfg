SPECIFICATION Spec
CONSTANTS
  p = p
  q = q
  r = r
  Nobody = Nobody
  NoFile = NoFile
  Procs = {p, q, r}
  Strict = FALSE
  MaxMessages = 2
  MaxSends = 1
SYMMETRY Symmetry
CONSTRAINT Calm
INVARIANTS LockExcludes
PROPERTIES MailboxIsInbox
CHECK_DEADLOCK FALSE
