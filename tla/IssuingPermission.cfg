\* One controller's handler on the page, two robots.
SPECIFICATION Spec
CONSTANTS
  Robot = {r1, r2}
  NoRobot = none
  Actor = actor
  c1 = c1
  c2 = c2
  c3 = c3
  Task = {c2}
  NoTask = noTask
  Foreign = foreign
  Flow <- AnyFlow
  Type = {"OperationalLog", "MaintenanceLog"}
INVARIANTS
  PermissionCoversSubject
