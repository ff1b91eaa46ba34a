SPECIFICATION Spec
CONSTANTS
  MaxTimers = 1
  Periods = {2}
  Amounts <- AnyAmount
  ResetTimes = {0, 2}
  MaxTime = 5
  WallFlags = {FALSE}
  CallbackEffects = {}
INVARIANT NowIsClock
