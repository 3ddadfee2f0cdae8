---------------------------- MODULE RegistryFacts ----------------------------
(* The registry, seen through the questions a verifier asks about one       *)
(* credential: RobotDIDRegistry implements CredentialFacts.                 *)
EXTENDS RobotDIDRegistry

CONSTANTS
  Subject,       \* credentialSubject.id
  Signer,        \* the address the proof recovers to
  Issuer,        \* the address of the issuer's DID
  Type,          \* the credential's type
  IssuedAt,      \* issuanceDate, in seconds
  CredHash,      \* the hash of the content
  MaxDelay       \* maxPublishDelaySeconds

ASSUME CredentialAssumption ==
  /\ Subject \in Token /\ Signer \in Address /\ Issuer \in Address
  /\ Type \in CredentialType /\ CredHash \in Hash
  /\ IssuedAt \in Nat \ {0} /\ MaxDelay \in Nat

SubjectStatus == IF Subject \notin exists THEN "none"
                 ELSE IF IsRevoked(Subject) THEN "revoked" ELSE "active"

(* verifyAnchorIssuanceTiming: issuedAt <= publishedAt <= issuedAt + delay. *)
AnchorTiming ==
  IF ~ credentialAnchors[CredHash].exists THEN "none"
  ELSE IF credentialAnchors[CredHash].publishedAt \in IssuedAt .. IssuedAt + MaxDelay
       THEN "timely" ELSE "untimely"

Facts == INSTANCE CredentialFacts WITH
  over        <- now > IssuedAt,
  subject     <- SubjectStatus,
  allowed     <- IsIssuanceAllowedAt(Subject, IssuedAt),
  signed      <- IsRobotKeyAuthorizedAt(Subject, Signer, IssuedAt),
  delegated   <- "ASSERTION" \in GetControllerPermissions(Subject, Issuer),
  trusted     <- <<Issuer, Type>> \in trustedIssuer,
  revoked     <- CredHash \in revokedCredentialHashes,
  anchor      <- AnchorTiming,
  consumption <- consumptionRecords[CredHash]

(* Whatever happens to the registry, what it answers about one credential   *)
(* changes only as CredentialFacts allows: its second is judged once, and   *)
(* no revocation, anchor or use is undone.                                  *)
(* (isIssuanceAllowedAt, isRobotKeyAuthorizedAt, getControllerPermissions,  *)
(* isCredentialRevoked, getCredentialAnchor, getConsumptionRecord)          *)
ImplementsFacts == Facts!FactsSpec
==============================================================================
