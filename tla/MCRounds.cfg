\* Two warm-ups and five repetitions, one image count, one change by another program.
SPECIFICATION Spec
CONSTANTS
  Plans <- RoundsPlans
  Warmups = 2
  Repetitions = 5
  MaxFiles = 1
  Versions = {v1, v2}
  MaxError = 2
  MaxEdits = 1
INVARIANTS
  SpeedupJustified
  ValidationColumnsAgree
PROPERTIES
  EffectiveBatchFixed
