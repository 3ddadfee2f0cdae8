\* Two robots; three invocations, on the page and from the command line.
SPECIFICATION Spec
CONSTANTS
  Robot = {r1, r2}
  NoRobot = none
  Actor = actor
  c1 = c1
  c2 = c2
  c3 = c3
  Task = {c1, c2, c3}
  NoTask = noTask
  Foreign = foreign
  Flow <- AnyFlow
  Type = {"OperationalLog", "SafetyInspection"}
INVARIANTS
  AnchoredDetected
  CheckedSubject
  AnchorShown
SYMMETRY Symmetry
