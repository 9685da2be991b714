\* Two runs of either mode and two steps of other programs between theirs.
SPECIFICATION Spec
CONSTANTS
  Processes = {p1, p2}
  MaxMeddling = 2
INVARIANTS
  FileWhole
PROPERTIES
  RowsKept
  RowsUnderOwnHeader
CHECK_DEADLOCK FALSE
