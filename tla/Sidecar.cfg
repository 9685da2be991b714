\* One session after the other is enough: the first fails to write its lines.
SPECIFICATION DashSpec
CONSTANTS
  Processes = {p1, p2}
  MaxMeddling = 0
INVARIANTS
  RecordedCanBeLoaded
CHECK_DEADLOCK FALSE
