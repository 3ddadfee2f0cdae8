\* One session, of either program, over every kind of credential, while
\* everything the registry says of the credential may change and any call fail.
SPECIFICATION Spec
CONSTANTS
  MaxUses = 1
  Verifier = {v1}
  Paper <- EveryPaper
  Early = {"SecondEnds", "Register", "Administer", "RevokeSubject", "ChangeAuthority", "RevokeCredential", "Anchor", "Consume"}
  Moving = {"SecondEnds", "Register", "Administer", "RevokeSubject", "ChangeAuthority", "RevokeCredential", "Anchor", "Consume"}
INVARIANTS
  ValidSinceTheBeginning
PROPERTIES
  SteadyVerdict
  SessionsEnd
