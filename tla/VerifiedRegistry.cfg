\* One robot, one account that is its owner and the trusted issuer of its
\* credential, issued in the first of two timestamps, and one session of either
\* program that verifies it.
SPECIFICATION SystemSpec
CONSTANTS
  Token = {r1}
  Account = {alice}
  RobotKey = {k1}
  ZeroAddress = zero
  Hash = {h1}
  ZeroHash = zeroHash
  CredentialType = {maintenance}
  MetadataURI = {m1}
  Grant <- FactsGrants
  MaxTime = 2
  MaxSuspensions = 1
  MaxControllers = 1
  MaxUses = 1
  Subject = r1
  Signer = k1
  Issuer = alice
  Type = maintenance
  IssuedAt = 1
  CredHash = h1
  MaxDelay = 0
  Verifier = {v1}
  Paper <- ExternalPaper
PROPERTIES
  ImplementsFacts
  ImplementsSessions
