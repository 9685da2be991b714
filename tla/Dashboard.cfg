\* Two sessions, overlapping or one after the other, and one other program.
SPECIFICATION FairDashSpec
CONSTANTS
  Processes = {p1, p2}
  MaxMeddling = 1
INVARIANTS
  NewRunsAreOwn
PROPERTIES
  EverySessionReturns
CHECK_DEADLOCK FALSE
