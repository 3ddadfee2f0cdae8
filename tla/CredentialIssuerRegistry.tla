----------------------- MODULE CredentialIssuerRegistry -----------------------
(***************************************************************************)
(* contracts/CredentialIssuerRegistry.sol: which external issuers are       *)
(* active, and which credential types each may issue by its roles.  The two *)
(* are kept apart: an issuer is trusted with a type while it is active and  *)
(* has the type's role.  What an issuer's profile says, and when it was     *)
(* written, is left out.                                                    *)
(***************************************************************************)
EXTENDS AccessControl

VARIABLES
  issuerActive,   \* issuers[account].active
  issuerRoles     \* the roles of AccessControl

issuerVars == <<issuerActive, issuerRoles>>

(* roleForCredentialType: other types are refused. *)
RoleForCredentialType ==
  [Maintenance      |-> "MAINTAINER_ROLE",
   Manufacturing    |-> "MANUFACTURER_ROLE",
   Ownership        |-> "OWNER_ISSUER_ROLE",
   SafetyInspection |-> "SAFETY_INSPECTOR_ROLE",
   OperationLicense |-> "OPERATION_LICENSE_ISSUER_ROLE"]

IssuerCredentialType == DOMAIN RoleForCredentialType
TypeRole   == {RoleForCredentialType[type] : type \in IssuerCredentialType}
IssuerRole == {ADMIN} \cup TypeRole

IssuerTypeOK ==
  /\ issuerActive \in [Account -> BOOLEAN]
  /\ issuerRoles \subseteq IssuerRole \X Account

(* The deployer is an active issuer of every type. *)
IssuerInit ==
  /\ issuerActive = [account \in Account |-> account = Deployer]
  /\ issuerRoles = IssuerRole \X {Deployer}

------------------------------------------------------------------------------
(* A slip: what a registration begins, begins without roles. *)
RegisterIssuerAfresh(caller, issuer) ==
  /\ HasRole(issuerRoles, ADMIN, caller)
  /\ issuerActive' = [issuerActive EXCEPT ![issuer] = TRUE]
  /\ issuerRoles' = issuerRoles \ (TypeRole \X {issuer})

(* An issuer that was revoked comes back with the roles it has. *)
RegisterIssuer(caller, issuer) ==
  /\ HasRole(issuerRoles, ADMIN, caller)
  /\ issuerActive' = [issuerActive EXCEPT ![issuer] = TRUE]
  /\ UNCHANGED issuerRoles

RevokeIssuer(caller, issuer) ==
  /\ HasRole(issuerRoles, ADMIN, caller)
  /\ issuerActive[issuer]
  /\ issuerActive' = [issuerActive EXCEPT ![issuer] = FALSE]
  /\ UNCHANGED issuerRoles

GrantIssuerRole(caller, role, account) ==
  /\ GrantsRole(issuerRoles, issuerRoles', caller, role, account)
  /\ UNCHANGED issuerActive

RevokeIssuerRole(caller, role, account) ==
  /\ RevokesRole(issuerRoles, issuerRoles', caller, role, account)
  /\ UNCHANGED issuerActive

------------------------------------------------------------------------------
(* A slip: the role is enough. *)
IsAuthorizedByRole(type, issuer) ==
  HasRole(issuerRoles, RoleForCredentialType[type], issuer)

IsAuthorizedIssuer(type, issuer) ==
  issuerActive[issuer] /\ HasRole(issuerRoles, RoleForCredentialType[type], issuer)
==============================================================================
