SPECIFICATION Spec
CONSTANTS
  t1 = t1
  t2 = t2
  t3 = t3
  old = old
  c1 = c1
  NoText = NoText
  Helper = Helper
  Waiter = Waiter
  Boot = Boot
  Timer = Timer
  NoProc = NoProc
  NoPending = NoPending
  NoPage = NoPage
  Texts <- TwoTexts
  Moved <- Replug
  Readdressed <- Swap
  Held <- TwoTexts
  Obsolete <- OldTexts
  Clis <- OneCli
  Mortal <- Nobody
  Restarts = FALSE
  Scheduled = FALSE
  MaxApplies = 2
  MaxEdits = 1
  MaxCrashes = 1
  MaxFaults = 1
INVARIANTS
  TypeOK
  RevertOwnsPending
  NoNewApplyWhilePending
  RevertGoesBack
  UnconfirmedKept
  OneApplyAtATime
  RebootIsNoConfirmation
PROPERTIES
  ConfirmedIsSeen
CHECK_DEADLOCK FALSE
