\* One robot suspended and reinstated within one block timestamp.
SPECIFICATION Spec
CONSTANTS
  Token = {r1}
  Account = {alice}
  RobotKey = {k1, k2}
  ZeroAddress = zero
  Hash = {}
  ZeroHash = zeroHash
  CredentialType = {}
  MetadataURI = {m1}
  Grant = {}
  MaxTime = 3
  MaxSuspensions = 2
  MaxControllers = 0
  MaxUses = 0
PROPERTIES
  RefusalWhileSuspendedIsPermanent
