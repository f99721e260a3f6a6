SPECIFICATION Spec
CONSTANTS
  t1 = t1
  t2 = t2
  t3 = t3
  old = old
  c1 = c1
  NoText = NoText
  Helper = Helper
  Waiter = Waiter
  Boot = Boot
  Timer = Timer
  NoProc = NoProc
  NoPending = NoPending
  NoPage = NoPage
  Texts <- TwoTexts
  Moved <- NoPairs
  Readdressed <- NoPairs
  Held <- TwoTexts
  Obsolete <- Nobody
  Clis <- Nobody
  Mortal <- Nobody
  Restarts = TRUE
  Scheduled = FALSE
  MaxApplies = 2
  MaxEdits = 1
  MaxCrashes = 0
  MaxFaults = 0
INVARIANT
  OneApplyAtATime
CHECK_DEADLOCK FALSE
