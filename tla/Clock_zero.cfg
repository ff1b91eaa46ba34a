SPECIFICATION Spec
CONSTANTS
  MaxTimers = 1
  Periods = {0, 2}
  Amounts <- AnyAmount
  ResetTimes = {}
  MaxTime = 4
  WallFlags = {FALSE}
  CallbackEffects = {}
PROPERTY AdvanceEnds
