\* Two clicks, two robot keys, and robots minted and registered elsewhere.
SPECIFICATION Spec
CONSTANTS
  Account = {a1, a2}
  NoAccount = noAccount
  Key = {k1, k2}
  NoKey = noKey
  Flow = {f1, f2}
  NoFlow = noFlow
  MaxToken = 2
INVARIANTS
  TypeOK
  KeyServesOneRobot
  OwnToken
  ResultIsRegistered
  StepsFollowFlow
  RunningIsTrue
SYMMETRY Symmetry
