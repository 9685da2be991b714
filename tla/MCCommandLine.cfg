\* Every form, and every command line one edit away from a valid form's.
SPECIFICATION Spec
CONSTANTS
  Texts <- AllTexts
  Number <- SmallNumbers
  MaxUint = 9
  Forms <- SmallForms
  Spare <- SmallSpare
INVARIANTS
  ValidatedIsAccepted
  AcceptedIsRunnable
  NothingDropped
CHECK_DEADLOCK FALSE
