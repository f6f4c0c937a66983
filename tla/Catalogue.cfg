\* Every table: two key values, two requests at a time, three rows, three
\* seconds.
CONSTANTS
  Value = {v1, v2}
  Null = Null
  Session = {s1, s2}
  MaxRows = 3
  MaxTime = 6
  Take = 1
SPECIFICATION Spec
CONSTRAINT Parts
SYMMETRY Symmetry
CHECK_DEADLOCK FALSE
INVARIANTS
  LookedBeforeItInserts
  SyncIsComplete
  WalkIsExact
PROPERTIES
  DeletedComesBackOnPurpose
