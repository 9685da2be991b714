\* docs/design/M7: a failure to write images or the CSV ends with exit code 73.
SPECIFICATION Spec
CONSTANTS
  Plans <- OutputPlans
  Warmups = 0
  Repetitions = 1
  MaxFiles = 1
  Versions = {v1}
  MaxError = 0
  MaxEdits = 0
INVARIANTS
  OutputFailureExits73
