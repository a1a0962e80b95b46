CONSTANTS
  Procs = {p, t}
  Tuis = {t}
  Files = {f, g}
  Contents = {a}
  Absent = Absent
  Skipped = Skipped
  Unknown = Unknown
  Nobody = Nobody
  NoFile = NoFile
  MaxEvents = 2
  MaxRewinds = 2
  MaxFaults = 1

SYMMETRY Symmetry

SPECIFICATION Spec

INVARIANTS
  RewindRestores
  SequencesIncrease
  AckedIsKept
  RecordedOnce

PROPERTIES
  RewoundOrReported
