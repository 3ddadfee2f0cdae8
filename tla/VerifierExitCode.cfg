\* One session of the CLI whose calls may fail at any time.
SPECIFICATION Spec
CONSTANTS
  MaxUses = 1
  Verifier = {v1}
  Paper <- SelfPaper
  Early = {"Register", "Anchor"}
  Moving = {"Anchor", "Consume"}
INVARIANTS
  InvalidTakesNoUse
CHECK_DEADLOCK FALSE
