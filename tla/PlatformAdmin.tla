---------------------------- MODULE PlatformAdmin ----------------------------
(***************************************************************************)
(* The platform's administration: the page's handlers in ui/js/registry/    *)
(* issuer-admin.js, nft-admin.js and connections.js and the role matrix of  *)
(* ui/js/ui/matrices.js, or the scripts that do the same, over              *)
(* CredentialIssuerRegistry and RobotIdentityNFT.  Several are under way at *)
(* once, each awaiting one answer after another, while other programs       *)
(* change roles and robots are minted; any call may fail.                   *)
(***************************************************************************)
EXTENDS CredentialIssuerRegistry, RobotIdentityNFT, FiniteSets

CONSTANTS
  Task,           \* clicks on the page's buttons and runs of the scripts
  Selection,      \* the credential types that may be ticked, in the page's order
  MaxElsewhere,   \* bound: operations of other programs
  MaxBusy         \* bound: tasks begun and robots minted, together

ASSUME SelectionAssumption ==
  /\ Selection \subseteq Seq(IssuerCredentialType)
  /\ <<>> \notin Selection
  /\ MaxElsewhere \in Nat /\ MaxBusy \in Nat

VARIABLES
  task,           \* the state of each
  elsewhere       \* operations of other programs so far

vars == <<issuerVars, nftVars, task, elsewhere>>

------------------------------------------------------------------------------
IssuerOp == {"grantIssuer", "registerIssuer", "revokeIssuer", "grantAdmin"}
NftOp    == {"checkMinter", "grantMinter", "revokeMinter"}
Op       == IssuerOp \cup NftOp \cup {"checkIssuer", "checkAdmin"}

PROFILE == "profile"
Item    == IssuerCredentialType \cup {PROFILE}

(* step     what a task does next                                           *)
(* types    the credential types ticked                                     *)
(* mined    its transactions so far, listed those its report knows of       *)
(* asked    checkIssuer: what is being asked, shown: the answers            *)
(* answer   whether the account has the role asked about                    *)
(* Auxiliary: overridden are those of its effects that another transaction  *)
(* undid, registered the accounts registered as issuers since it began.     *)
Fresh(op, step, account, types, asked) ==
  [op |-> op, step |-> step, account |-> account, types |-> types,
   signer |-> Deployer, mined |-> 0, listed |-> 0,
   asked |-> asked, shown |-> {}, answer |-> FALSE,
   overridden |-> {}, registered |-> {}]

Idle == Fresh("none", "idle", Deployer, <<>>, {})

Init ==
  /\ IssuerInit /\ NftInit
  /\ task = [t \in Task |-> Idle]
  /\ elsewhere = 0

Busy == Cardinality({t \in Task : task[t].step # "idle"}) + nextTokenId - 1

UnderWay(r) == r.step \notin {"idle", "done", "failed"}
At(t, step) == Settled /\ task[t].step = step

Goes(t, step) == task' = [task EXCEPT ![t].step = step]
OnlyTasks == UNCHANGED <<issuerVars, nftVars, elsewhere>>

------------------------------------------------------------------------------
(* Whose role or registration a transaction sets, and how. *)
Effect(what, account, holds) == <<what, account, holds>>

TxEffect(r, n) ==
  CASE r.op = "grantIssuer"    -> Effect(RoleForCredentialType[r.types[n]], r.account, TRUE)
    [] r.op = "registerIssuer" -> Effect("active", r.account, TRUE)
    [] r.op = "revokeIssuer"   -> Effect("active", r.account, FALSE)
    [] r.op = "grantAdmin"     -> Effect(ADMIN, r.account, TRUE)
    [] r.op = "grantMinter"    -> Effect(MINTER, r.account, TRUE)
    [] r.op = "revokeMinter"   -> Effect(MINTER, r.account, FALSE)

Effects(r) == {TxEffect(r, n) : n \in 1 .. r.mined}

(* What a task remembers of somebody's transaction. *)
Sees(r, effect) ==
  LET opposite == Effect(effect[1], effect[2], ~ effect[3]) IN
  [r EXCEPT
     !.overridden = @ \cup ({opposite} \cap Effects(r)),
     !.registered = IF r.op = "checkIssuer" /\ UnderWay(r)
                       /\ effect[1] = "active" /\ effect[3]
                    THEN @ \cup {effect[2]} ELSE @]

(* A task's own transaction is mined; it waits for the receipt. *)
OwnEffect(r) == TxEffect(r, r.mined + 1)

Sent(r) == [Sees(r, OwnEffect(r)) EXCEPT !.mined = r.mined + 1, !.step = "receipt"]

Mined(t) ==
  task' = [u \in Task |-> IF u = t THEN Sent(task[t]) ELSE Sees(task[u], OwnEffect(task[t]))]

------------------------------------------------------------------------------
(* Other programs.  They give and take roles as they may, mint robots, and in *)
(* a mint's callback the receiver does.                                      *)
ElsewhereSets(effect) ==
  /\ elsewhere < MaxElsewhere
  /\ elsewhere' = elsewhere + 1
  /\ task' = [t \in Task |-> Sees(task[t], effect)]

TakenFromIssuer ==
  \E caller, account \in Account, role \in IssuerRole :
    /\ Settled
    /\ HasRole(issuerRoles, role, account)
    /\ RevokeIssuerRole(caller, role, account)
    /\ ElsewhereSets(Effect(role, account, FALSE))
    /\ UNCHANGED nftVars

NftEffect(role, account, holds) ==
  Effect(IF role = ADMIN THEN "NFT_ADMIN" ELSE role, account, holds)

NftRoleChanged ==
  \E caller, account \in Account, role \in NftRole :
    /\ \/ /\ GrantNftRole(caller, role, account)
          /\ ElsewhereSets(NftEffect(role, account, TRUE))
       \/ /\ RevokeNftRole(caller, role, account)
          /\ ElsewhereSets(NftEffect(role, account, FALSE))
    /\ UNCHANGED issuerVars

RobotsMove ==
  /\ \/ \E caller, to \in Account, uri \in URI :
          Busy < MaxBusy /\ MintRobot(caller, to, uri)
     \/ FinishMint
     \/ RevertMint
     \/ \E token \in Token, to \in Account : TransferToken(token, to)
  /\ UNCHANGED <<issuerVars, task, elsewhere>>

------------------------------------------------------------------------------
(* A click on a button.  Only what awaits nothing is done at once: of the     *)
(* types ticked at least one is needed.  A matrix asks about each account     *)
(* entered by itself, for a row of its own: it is a task for each row.        *)
Begin(t) ==
  /\ task[t].step = "idle" /\ Busy < MaxBusy
  /\ \E op \in Op, account \in Account, types \in Selection :
       /\ op \notin {"grantIssuer", "checkIssuer"} => types = CHOOSE s \in Selection : TRUE
       /\ task' = [task EXCEPT ![t] =
            Fresh(op, IF op \in {"checkIssuer", "checkAdmin"} THEN "ask" ELSE "wallet",
                  account, types, IF op = "checkIssuer" THEN {<<account, PROFILE>>} ELSE {})]
  /\ OnlyTasks

(* connectAdminWallet: whoever the wallet extension is set to signs. *)
ConnectWallet(t) ==
  /\ task[t].step = "wallet"
  /\ \E signer \in Account :
       task' = [task EXCEPT
         ![t].signer = signer,
         ![t].step = CASE task[t].op \in IssuerOp    -> "admin"
                       [] task[t].op = "grantMinter" -> "send"
                       [] OTHER                      -> "ask"]
  /\ OnlyTasks

AssertIssuerRegistryAdmin(t) ==
  /\ At(t, "admin")
  /\ Goes(t, IF HasRole(issuerRoles, ADMIN, task[t].signer) THEN "send" ELSE "failed")
  /\ OnlyTasks

(* checkIssuerRegistryAdmin, checkMinterRole; and revokeMinterRole, before it *)
(* revokes and, on the page, again for its report.                           *)
AskRole(t) ==
  LET has == CASE task[t].op = "checkAdmin" -> HasRole(issuerRoles, ADMIN, task[t].account)
               [] OTHER                     -> HasRole(nftRoles, MINTER, task[t].account)
  IN
  /\ At(t, "ask") \/ At(t, "again")
  /\ task[t].op # "checkIssuer"
  /\ IF task[t].op = "revokeMinter" /\ task[t].step = "ask"
     THEN Goes(t, IF has THEN "send" ELSE "failed")
     ELSE task' = [task EXCEPT ![t].answer = has, ![t].step = "done"]
  /\ OnlyTasks

(* checkIssuerRole, and each row of showRoleMatrix: the profile first, then   *)
(* all types at once, answered in any order.                                 *)
AskIssuer(t) ==
  /\ At(t, "ask")
  /\ \E question \in task[t].asked :
       LET account == question[1]
           item    == question[2]
           types   == {task[t].types[i] : i \in DOMAIN task[t].types}
           yes     == IF item = PROFILE THEN issuerActive[account]
                      ELSE IsAuthorizedIssuer(item, account)
           open    == (task[t].asked \ {question})
                        \cup (IF item = PROFILE THEN {account} \X types ELSE {})
       IN task' = [task EXCEPT ![t].asked = open,
                               ![t].shown = @ \cup {<<account, item, yes>>},
                               ![t].step = IF open = {} THEN "done" ELSE "ask"]
  /\ OnlyTasks

------------------------------------------------------------------------------
(* The transaction is mined. *)
Mine(t) ==
  /\ At(t, "send")
  /\ LET r == task[t] IN
       \/ /\ \/ /\ r.op = "grantIssuer"
                /\ GrantIssuerRole(r.signer, RoleForCredentialType[r.types[r.mined + 1]], r.account)
             \/ r.op = "registerIssuer" /\ RegisterIssuer(r.signer, r.account)
             \/ r.op = "revokeIssuer" /\ RevokeIssuer(r.signer, r.account)
             \/ r.op = "grantAdmin" /\ GrantIssuerRole(r.signer, ADMIN, r.account)
          /\ UNCHANGED nftVars
       \/ /\ \/ r.op = "grantMinter" /\ GrantNftRole(r.signer, MINTER, r.account)
             \/ r.op = "revokeMinter" /\ RevokeNftRole(r.signer, MINTER, r.account)
          /\ UNCHANGED issuerVars
  /\ Mined(t)
  /\ UNCHANGED elsewhere

(* A slip: all grants are sent, then the receipts awaited. *)
ReceiptAtTheEnd(t) ==
  /\ task[t].step = "receipt"
  /\ LET r == task[t] IN
       task' = [task EXCEPT
         ![t].listed = IF r.mined = Len(r.types) THEN r.mined ELSE 0,
         ![t].step = IF r.op = "grantIssuer" /\ r.mined < Len(r.types) THEN "send" ELSE "done"]
  /\ OnlyTasks

(* The receipt joins the report; a grant of several types goes on with the    *)
(* next one.  On the page a revocation asks for the role again.              *)
Receipt(t) ==
  /\ task[t].step = "receipt"
  /\ LET r == task[t]
         listed == r.listed + 1 IN
       \E step \in {"send", "again", "done"} :
         /\ step = "send" <=> r.op = "grantIssuer" /\ listed < Len(r.types)
         /\ step = "again" => r.op = "revokeMinter"
         /\ task' = [task EXCEPT ![t].listed = listed, ![t].step = step]
  /\ OnlyTasks

(* A call is refused, reverted or lost. *)
Fail(t) ==
  /\ UnderWay(task[t])
  /\ Goes(t, "failed")
  /\ OnlyTasks

Next ==
  \/ TakenFromIssuer \/ NftRoleChanged \/ RobotsMove
  \/ \E t \in Task :
       \/ Begin(t) \/ ConnectWallet(t) \/ AssertIssuerRegistryAdmin(t)
       \/ AskRole(t) \/ AskIssuer(t)
       \/ Mine(t) \/ Receipt(t) \/ Fail(t)

Spec == Init /\ [][Next]_vars

------------------------------------------------------------------------------
(* Types.                                                                    *)
What == {"active", MINTER, "NFT_ADMIN"} \cup IssuerRole

Step == {"idle", "wallet", "admin", "ask", "send", "receipt", "again", "done", "failed"}

TaskState ==
  [op : Op \cup {"none"}, step : Step, account : Account, types : Seq(IssuerCredentialType),
   signer : Account, mined : Nat, listed : Nat,
   asked : SUBSET (Account \X Item), shown : SUBSET (Account \X Item \X BOOLEAN),
   answer : BOOLEAN, overridden : SUBSET (What \X Account \X BOOLEAN),
   registered : SUBSET Account]

TypeOK ==
  /\ IssuerTypeOK
  /\ NftTypeOK
  /\ task \in [Task -> TaskState]
  /\ elsewhere \in 0 .. MaxElsewhere

Holds(effect) ==
  /\ effect[1] = "active" => (issuerActive[effect[2]] <=> effect[3])
  /\ effect[1] = MINTER => (HasRole(nftRoles, MINTER, effect[2]) <=> effect[3])
  /\ effect[1] \in IssuerRole => (HasRole(issuerRoles, effect[1], effect[2]) <=> effect[3])

Standing(r) == Effects(r) \ r.overridden

(* What a handler did on-chain lasts until somebody does the opposite to the  *)
(* same account: revoking an issuer, or registering one again, gives and      *)
(* takes no role, in whatever order handlers register and grant.  So an       *)
(* account registered by one and granted a type by another is authorised for  *)
(* it (registerIssuer, revokeIssuer, grantRole; README: register the issuer,  *)
(* grant the role, then issue).                                              *)
ReportsStand ==
  Settled =>
    /\ \A t \in Task : \A effect \in Standing(task[t]) : Holds(effect)
    /\ \A t, u \in Task : \A type \in IssuerCredentialType, account \in Account :
         Effect("active", account, TRUE) \in Standing(task[t])
           /\ Effect(RoleForCredentialType[type], account, TRUE) \in Standing(task[u])
         => IsAuthorizedIssuer(type, account)

(* A report that says roles are granted lists every type ticked, and when a   *)
(* grant fails half way, what it has done is a beginning of them: all it was  *)
(* told of, and at most one it was not (issuer-admin.js, the loop).          *)
GrantLoop ==
  \A t \in Task : task[t].op = "grantIssuer" =>
    /\ task[t].step = "done" => task[t].listed = Len(task[t].types)
    /\ task[t].listed <= task[t].mined /\ task[t].mined <= Len(task[t].types)
    /\ task[t].mined - task[t].listed \in {0, 1}

(* A row of the matrix, or the answer about an issuer, shows an inactive      *)
(* issuer with a type only if it was registered while being asked about: the  *)
(* profile and the types are read one after the other (README: a revoked     *)
(* issuer's credentials fail).                                               *)
RowsAgree ==
  \A t \in Task : \A account \in Account, type \in IssuerCredentialType :
    {<<account, PROFILE, FALSE>>, <<account, type, TRUE>>} \subseteq task[t].shown
      => account \in task[t].registered

(* "address can no longer mint new NFTs": once a handler has taken an         *)
(* account's MINTER_ROLE, and unless somebody gave it again, the account      *)
(* mints nothing, and the report does not say it still has the role.         *)
MinterRevoked ==
  [][\A t \in Task, account \in Account :
       Effect(MINTER, account, FALSE) \in Standing(task[t]) =>
         /\ Len(calls') > Len(calls) => calls'[Len(calls')].caller # account
         /\ task[t].step = "done" => ~ task[t].answer]_vars
==============================================================================
