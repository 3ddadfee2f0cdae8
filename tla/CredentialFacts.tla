--------------------------- MODULE CredentialFacts ---------------------------
(***************************************************************************)
(* What the registries say of ONE credential, and how that may change while *)
(* somebody verifies it.  A credential file names a subject DID, an issuer, *)
(* a type, the second in which it was issued and, by its content, a hash;   *)
(* every question a verifier puts to the contracts is about one of these.   *)
(*                                                                         *)
(* This is the abstract contract between RobotDIDRegistry.sol and those who *)
(* read it over RPC: RegistryFacts shows that the contract keeps it, and    *)
(* VerifierSession relies on nothing else.  The point is what can NOT       *)
(* happen: a past second is judged once, revocations are final, an anchor   *)
(* is written once and uses are never given back.                           *)
(***************************************************************************)
EXTENDS Naturals

CONSTANT MaxUses            \* bound: largest maxUses given to an anchor

ASSUME MaxUsesAssumption == MaxUses \in Nat

VARIABLES
  over,         \* the second in which the credential was issued is over
  subject,      \* the subject DID: "none", "active" or "revoked"
  allowed,      \* isIssuanceAllowedAt(subject, issuedAt)
  signed,       \* isRobotKeyAuthorizedAt(subject, signer, issuedAt)
  delegated,    \* getControllerPermissions(subject, issuer) has CONTROLLER_ASSERTION
  trusted,      \* isAuthorizedIssuer(type, issuer)
  revoked,      \* isCredentialRevoked(hash)
  anchor,       \* getCredentialAnchor(hash), publishedAt judged against issuedAt
  consumption   \* getConsumptionRecord(hash)

authority == <<delegated, trusted>>
factVars  == <<over, subject, allowed, signed, authority, revoked, anchor, consumption>>

UNLIMITED == 0
LIMITED   == 1

NoConsumption == [configured |-> FALSE, mode |-> 0, maxUses |-> 0, useCount |-> 0]

FactsTypeOK ==
  /\ {over, allowed, signed, delegated, trusted, revoked} \subseteq BOOLEAN
  /\ subject \in {"none", "active", "revoked"}
  /\ anchor \in {"none", "timely", "untimely"}
  /\ consumption \in [configured : BOOLEAN, mode : {UNLIMITED, LIMITED},
                      maxUses : Nat, useCount : Nat]

(* A slip: one use too many. *)
AvailableOffByOne == ~ consumption.configured \/ consumption.mode = UNLIMITED
               \/ consumption.useCount <= consumption.maxUses

Available == ~ consumption.configured \/ consumption.mode = UNLIMITED
               \/ consumption.useCount < consumption.maxUses

FactsInit ==
  /\ over = FALSE
  /\ subject = "none"
  /\ allowed = FALSE /\ signed = FALSE
  /\ delegated = FALSE /\ trusted \in BOOLEAN
  /\ revoked = FALSE
  /\ anchor = "none" /\ consumption = NoConsumption

------------------------------------------------------------------------------
(* A second ends; it may be the one of the credential. *)
SecondEnds ==
  /\ over' = TRUE
  /\ UNCHANGED <<subject, allowed, signed, authority, revoked, anchor, consumption>>

(* The subject is registered.  A key registered later than the credential's *)
(* second does not sign for it; an issuer who owns the robot has every      *)
(* permission from now on.                                                  *)
Register ==
  /\ subject = "none"
  /\ subject' = "active"
  /\ allowed' = TRUE
  /\ signed' \in BOOLEAN /\ (over => ~ signed')
  /\ delegated' \in BOOLEAN
  /\ UNCHANGED <<over, trusted, revoked, anchor, consumption>>

(* Suspensions and rotations decide about the present and the future only. *)
Administer ==
  /\ subject = "active" /\ ~ over
  /\ allowed' \in BOOLEAN
  /\ signed' \in BOOLEAN
  /\ UNCHANGED <<over, subject, authority, revoked, anchor, consumption>>

RevokeSubject ==
  /\ subject = "active"
  /\ subject' = "revoked"
  /\ allowed' = FALSE /\ signed' = FALSE
  /\ UNCHANGED <<over, authority, revoked, anchor, consumption>>

(* Transfers, changes of controllers and of issuers: authority comes and    *)
(* goes, and is not remembered by second.                                   *)
ChangeAuthority ==
  /\ delegated' \in BOOLEAN /\ (subject = "none" => ~ delegated')
  /\ trusted' \in BOOLEAN
  /\ UNCHANGED <<over, subject, allowed, signed, revoked, anchor, consumption>>

RevokeCredential ==
  /\ revoked' = TRUE
  /\ UNCHANGED <<over, subject, allowed, signed, authority, anchor, consumption>>

(* A slip: whoever anchors again sets a new limit. *)
AnchorAgain ==
  /\ anchor' \in {"timely", "untimely"}
  /\ \E mode \in {UNLIMITED, LIMITED}, maxUses \in 0 .. MaxUses :
       /\ mode = LIMITED => maxUses >= 1
       /\ consumption' = [configured |-> TRUE, mode |-> mode, maxUses |-> maxUses, useCount |-> 0]
  /\ UNCHANGED <<over, subject, allowed, signed, authority, revoked>>

Anchor ==
  /\ anchor = "none"
  /\ anchor' \in {"timely", "untimely"}
  /\ \E mode \in {UNLIMITED, LIMITED}, maxUses \in 0 .. MaxUses :
       /\ mode = LIMITED => maxUses >= 1
       /\ consumption' = [configured |-> TRUE, mode |-> mode, maxUses |-> maxUses, useCount |-> 0]
  /\ UNCHANGED <<over, subject, allowed, signed, authority, revoked>>

(* A use of an unlimited credential is not counted. *)
Consume ==
  /\ consumption.configured /\ Available
  /\ consumption' = IF consumption.mode = UNLIMITED THEN consumption
                    ELSE [consumption EXCEPT !.useCount = @ + 1]
  /\ UNCHANGED <<over, subject, allowed, signed, authority, revoked, anchor>>

FactsNext ==
  \/ SecondEnds
  \/ Register \/ Administer \/ RevokeSubject
  \/ ChangeAuthority
  \/ RevokeCredential \/ Anchor \/ Consume

FactsSpec == FactsInit /\ [][FactsNext]_factVars
==============================================================================
