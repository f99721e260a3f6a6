SPECIFICATION Spec
CONSTANTS
  good = good
  bad = bad
  Image = Image
  NoVersion = NoVersion
  Versions <- TwoVersions
  Sound <- OnlyGood
  WhileChecked = FALSE
  MaxStages = 1
  MaxFaults = 1
INVARIANT
  NeverTriedAgain
CHECK_DEADLOCK FALSE
