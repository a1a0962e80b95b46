\* Two schedulers, one of which skips the backlog when it starts, two users, a
\* schedule of two slots, one in the second minute and one in the last.
CONSTANTS
  Schedulers = {s1, s2}
  Skippers = {s2}
  Users = {u1, u2}
  Slots = {1, 3}
  Absent = Absent
  MaxClock = 3
  MaxCommands = 3
  MaxFaults = 2
SPECIFICATION Spec
INVARIANTS
  SlotFiresOnce
  PauseHolds
  RemovedIsGone
SYMMETRY Symmetry
CHECK_DEADLOCK FALSE
