\* One run appends after another, and no other program touches the file.
SPECIFICATION Spec
CONSTANTS
  Processes = {p1, p2}
  MaxMeddling = 0
PROPERTIES
  AppendKeepsRows
CHECK_DEADLOCK FALSE
