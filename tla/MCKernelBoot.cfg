SPECIFICATION FairSpec
CONSTANTS
  good = good
  bad = bad
  Image = Image
  NoVersion = NoVersion
  Versions <- TwoVersions
  Sound <- OnlyGood
  WhileChecked = FALSE
  MaxStages = 4
  MaxFaults = 2
INVARIANTS
  TypeOK
  MarkedIsWhole
  KeptCameUp
  TriedOnce
PROPERTIES
  BadKernelGivesWay
