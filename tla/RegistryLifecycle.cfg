\* Two robots, one owner, three keys: suspensions, rotations and revocations
\* of two DIDs interleaved within and across three block timestamps.
SPECIFICATION Spec
CONSTANTS
  Token = {r1, r2}
  Account = {alice}
  RobotKey = {k1, k2, k3}
  ZeroAddress = zero
  Hash = {}
  ZeroHash = zeroHash
  CredentialType = {}
  MetadataURI = {m1}
  Grant = {}
  MaxTime = 3
  MaxSuspensions = 2
  MaxControllers = 0
  MaxUses = 0
SYMMETRY Symmetry
INVARIANTS
  KeyHistoryChained
  RobotKeysUnique
  SuspensionHistoryOrdered
  LifecycleFlagsAgree
  IssuanceNowFollowsFlag
  SignerUnambiguous
PROPERTIES
  PastAnswersStable
  ImplementsTimeline
