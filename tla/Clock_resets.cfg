SPECIFICATION Spec
CONSTANTS
  MaxTimers = 2
  Periods = {2}
  Amounts <- FewAmounts
  ResetTimes = {0, 3}
  MaxTime = 4
  WallFlags = {FALSE, TRUE}
  CallbackEffects = {"create"}
INVARIANTS LandsOnTarget AgreeAfterStep
PROPERTY AdvanceEnds
