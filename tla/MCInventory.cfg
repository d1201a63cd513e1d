\* Inventories by the file table, warm and cold, and by the walk; two at once.
SPECIFICATION Spec
CONSTANTS
  Top = Top  Missing = Missing  None = None  Failed = Failed  s1 = s1  s2 = s2
  Refs = {1, 2, 3, 4, 5, 6, 7}
  Scanners = {s1, s2}
  Setups <- MCSetups
CHECK_DEADLOCK FALSE
INVARIANTS SnapshotCatchesUp QuietListExact
PROPERTIES WalkEnds
