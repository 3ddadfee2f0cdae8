\* Two handlers under way at once, two accounts.
SPECIFICATION Spec
CONSTANTS
  Account = {deployer, other}
  Deployer = deployer
  URI = {u1, u2}
  MaxTokens = 2
  Task = {t1, t2}
  Selection <- Ticked
  MaxElsewhere = 2
  MaxBusy = 2
INVARIANTS
  ReportsStand
  GrantLoop
  RowsAgree
  MintsKeptApart
PROPERTIES
  MinterRevoked
SYMMETRY Symmetry
CHECK_DEADLOCK FALSE
