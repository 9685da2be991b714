\* No warm-up, one repetition; two input files; other programs change one input
\* or output file.
SPECIFICATION FairSpec
CONSTANTS
  Plans <- ColdStartPlans
  Warmups = 0
  Repetitions = 1
  MaxFiles = 2
  Versions = {v1, v2}
  MaxError = 2
  MaxEdits = 1
INVARIANTS
  TypeOK
  CountsConsistent
  RowsMatchCounts
  ExitCodeTruthful
  OutputsOfFrozenSources
  ValidatedOutputsAgree
PROPERTIES
  SkipOnlyWithCause
  ReferenceKept
  Terminates
