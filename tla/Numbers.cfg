SPECIFICATION Spec
CONSTANTS
  Digits = 2
  Words = 4
  TmpSize = 3
  MaxSteps = 3
  Texts <- MCTexts
INVARIANTS
  Exact
  ComparesExact
  KeysAgree
CHECK_DEADLOCK FALSE
