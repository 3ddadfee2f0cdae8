\* Two robots, two handlers under way: any button, and Show or Revoke.
SPECIFICATION Spec
CONSTANTS
  Robot = {r1, r2}
  NoRobot = none
  c1 = c1
  c2 = c2
  Task = {c1, c2}
  Offer <- AnyWithAnother
INVARIANTS
  SelectionListed
  ActsOnSelection
PROPERTIES
  OwnRevocationShown
SYMMETRY Symmetry
