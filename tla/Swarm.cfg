SPECIFICATION Spec
CONSTANTS
  c1 = c1
  c2 = c2
  Callers = {c1, c2}
  Teams = {"t"}
  MaxTeamSize = 1
  MaxRestarts = 0
  MaxIds = 4
  Inherited = 1
  Operations = {"spawn", "handoff", "adopt", "collect"}
SYMMETRY Symmetry
INVARIANTS SlotsAccounted NoTaskStranded
PROPERTIES TerminalIsFinal TeamIsFifoPool
CHECK_DEADLOCK FALSE
