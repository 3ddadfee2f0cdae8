\* Two sessions, each the CLI or the browser, over one self-signed credential
\* that is anchored and used by others in the meantime.
SPECIFICATION Spec
CONSTANTS
  MaxUses = 1
  Verifier = {v1, v2}
  Paper <- SelfPaper
  Early = {"Register", "Anchor"}
  Moving = {"Anchor", "Consume"}
INVARIANTS
  RefusedUseStaysRefused
  UsesGrantedWithinLimit
  SkippedOnlyWithoutPolicy
  LimitReachedIsTrue
SYMMETRY Symmetry
CHECK_DEADLOCK FALSE
