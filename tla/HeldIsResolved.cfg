SPECIFICATION FairSpec
CONSTANTS
  t1 = t1
  t2 = t2
  t3 = t3
  old = old
  c1 = c1
  NoText = NoText
  Helper = Helper
  Waiter = Waiter
  Boot = Boot
  Timer = Timer
  NoProc = NoProc
  NoPending = NoPending
  NoPage = NoPage
  Texts <- TwoTexts
  Moved <- NoPairs
  Readdressed <- Swap
  Held <- TwoTexts
  Obsolete <- OldTexts
  Clis <- Nobody
  Mortal <- Nobody
  Restarts = FALSE
  Scheduled = TRUE
  MaxApplies = 2
  MaxEdits = 1
  MaxCrashes = 1
  MaxFaults = 1
INVARIANTS
  RefreshIsSameConfig
PROPERTIES
  HeldIsResolved
CHECK_DEADLOCK FALSE
