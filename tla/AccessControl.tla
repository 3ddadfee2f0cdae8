---------------------------- MODULE AccessControl ----------------------------
(* OpenZeppelin's AccessControl, which both CredentialIssuerRegistry.sol and  *)
(* RobotIdentityNFT.sol inherit.  A contract's members are the pairs of a role *)
(* and an account that has it; only those with DEFAULT_ADMIN_ROLE give and    *)
(* take roles, and anybody may renounce their own.                           *)
CONSTANTS Account,      \* addresses other than zero
          Deployer      \* who deploys the contracts

ASSUME DeployerAssumption == Deployer \in Account

ADMIN == "DEFAULT_ADMIN_ROLE"

HasRole(members, role, account) == <<role, account>> \in members

(* grantRole, revokeRole: giving what is had, or taking what is not, changes *)
(* nothing.                                                                  *)
GrantsRole(members, membersAfter, caller, role, account) ==
  /\ HasRole(members, ADMIN, caller)
  /\ membersAfter = members \cup {<<role, account>>}

RevokesRole(members, membersAfter, caller, role, account) ==
  /\ HasRole(members, ADMIN, caller) \/ caller = account      \* renounceRole
  /\ membersAfter = members \ {<<role, account>>}
==============================================================================
