SPECIFICATION Spec
CONSTANTS
  good = good
  bad = bad
  Image = Image
  NoVersion = NoVersion
  Versions <- TwoVersions
  Sound <- OnlyGood
  WhileChecked = TRUE
  MaxStages = 2
  MaxFaults = 0
INVARIANT
  KeptCameUp
CHECK_DEADLOCK FALSE
