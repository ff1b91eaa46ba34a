SPECIFICATION Spec
CONSTANTS
  right = right
  left = left
  far = far
  Goals = {right, left, far}
  Target <- TargetOf
  Limit = 3
  Step = 2
  Tolerance = 2
INVARIANTS OneMover EndsProperly InRange MovingHasMover
PROPERTIES GoalFinishes CancelEnds
CHECK_DEADLOCK FALSE
