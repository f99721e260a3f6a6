SPECIFICATION Spec
CONSTANTS
  t1 = t1
  t2 = t2
  t3 = t3
  old = old
  c1 = c1
  NoText = NoText
  Helper = Helper
  Waiter = Waiter
  Boot = Boot
  Timer = Timer
  NoProc = NoProc
  NoPending = NoPending
  NoPage = NoPage
  Texts <- ThreeTexts
  Moved <- Relabel
  Readdressed <- Swap
  Held <- ThreeTexts
  Obsolete <- Nobody
  Clis <- OneCli
  Mortal <- Everyone
  Restarts = TRUE
  Scheduled = TRUE
  MaxApplies = 2
  MaxEdits = 1
  MaxCrashes = 1
  MaxFaults = 0
INVARIANTS
  RevertOwnsPending
  NoNewApplyWhilePending
CHECK_DEADLOCK FALSE
