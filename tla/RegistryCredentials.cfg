\* One robot that changes hands between two accounts, one of which may be its
\* controller or a trusted issuer; one key, one credential hash and the zero hash.
SPECIFICATION Spec
CONSTANTS
  Token = {r1}
  Account = {alice, bob}
  RobotKey = {k1}
  ZeroAddress = zero
  Hash = {h1, zeroHash}
  ZeroHash = zeroHash
  CredentialType = {maintenance}
  MetadataURI = {m1}
  Grant <- CredentialGrants
  MaxTime = 2
  MaxSuspensions = 1
  MaxControllers = 2
  MaxUses = 2
SYMMETRY Symmetry
INVARIANTS
  TypeOK
  ControllersShownExactly
  AnchorsWithinLifetime
  UsesWithinLimit
PROPERTIES
  RevocationFinal
  PublishedStaysPublished
