SPECIFICATION Spec
CONSTANTS
  Goals = {g1, g2}
  Codes = {"SUCCEEDED", "CANCELED"}
  MaxResults = 2
INVARIANTS ActiveGoalIsOpen OpenGoalStaysActive CallbackBeforeFuture
PROPERTY SendEnds
