\* Two writers of either mode and two steps of other programs between theirs.
SPECIFICATION Spec
CONSTANTS
  Writers = {w1, w2}
  MaxMeddling = 2
INVARIANTS
  TargetWhole
  ReturnsCleanly
PROPERTIES
  ReplacesAsAllowed
CHECK_DEADLOCK FALSE
