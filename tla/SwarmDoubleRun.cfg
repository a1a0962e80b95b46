SPECIFICATION Spec
CONSTANTS
  c1 = c1
  c2 = c2
  Callers = {c1, c2}
  Teams = {"t"}
  MaxTeamSize = 2
  MaxRestarts = 0
  MaxIds = 3
  Inherited = 0
  Operations = {"spawn", "adopt"}
INVARIANT NoDoubleExecution
CHECK_DEADLOCK FALSE
