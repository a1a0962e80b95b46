SPECIFICATION FairSpec
CONSTANTS
  c1 = c1
  c2 = c2
  Callers = {c1, c2}
  Teams = {"t"}
  MaxTeamSize = 1
  MaxRestarts = 1
  MaxIds = 3
  Inherited = 0
  Operations = {"spawn", "collect", "close"}
PROPERTIES ClosedSwarmSettles ClosedCollectReturns
CHECK_DEADLOCK FALSE
