SPECIFICATION Spec
CONSTANTS
  MaxTimers = 2
  Periods = {2, 3}
  Amounts <- AnyAmount
  ResetTimes = {}
  MaxTime = 6
  WallFlags = {FALSE}
  CallbackEffects = {"cancel", "reset", "drop"}
INVARIANTS TypeOK TickCount
PROPERTY LateByLessThanAStep
