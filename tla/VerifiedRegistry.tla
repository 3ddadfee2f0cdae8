--------------------------- MODULE VerifiedRegistry ---------------------------
(***************************************************************************)
(* The whole path of one credential: the registry contract in its own       *)
(* variables, anybody who calls it, and the programs that verify the        *)
(* credential meanwhile (the CLI and the page of VerifierSession).          *)
(*                                                                         *)
(* The programs reach the contract through its views, which they read one   *)
(* answer at a time, and through two of its transactions: the consumption   *)
(* of the credential and its revocation.  Both are the contract's actions   *)
(* here, not those of its abstraction.                                      *)
(***************************************************************************)
EXTENDS RegistryFacts

CONSTANTS
  Verifier,      \* the sessions, each one run of a program
  Paper          \* the credential files to consider

ASSUME FileAssumption ==
  Paper \subseteq [model : {"self", "controller", "external"},
                   formed : BOOLEAN, schema : BOOLEAN, hashed : BOOLEAN, proof : BOOLEAN]

VARIABLES
  paper,        \* the credential everybody verifies
  session       \* the state of each verifier

AnyAction == {"SecondEnds", "Register", "Administer", "RevokeSubject",
              "ChangeAuthority", "RevokeCredential", "Anchor", "Consume"}

(* Of a robot's own credential nobody asks what its issuer may do. *)
IssuedByOther == paper.model # "self"

Sessions == INSTANCE VerifierSession WITH
  Early       <- AnyAction,
  Moving      <- AnyAction,
  over        <- now > IssuedAt,
  subject     <- SubjectStatus,
  allowed     <- IsIssuanceAllowedAt(Subject, IssuedAt),
  signed      <- IsRobotKeyAuthorizedAt(Subject, Signer, IssuedAt),
  delegated   <- IssuedByOther /\ "ASSERTION" \in GetControllerPermissions(Subject, Issuer),
  trusted     <- IssuedByOther /\ <<Issuer, Type>> \in trustedIssuer,
  revoked     <- CredHash \in revokedCredentialHashes,
  anchor      <- AnchorTiming,
  consumption <- consumptionRecords[CredHash]

systemVars == <<vars, paper, session>>

SystemInit ==
  /\ Init
  /\ paper \in Paper
  /\ session = [v \in Verifier |-> Sessions!Idle]

(* Anybody calls the contracts, or a block is mined.  Auxiliary: sessions     *)
(* under way stop being steady when one of their answers changes.            *)
RegistryActs ==
  /\ Next
  /\ UNCHANGED paper
  /\ session' = IF Sessions!factVars' = Sessions!factVars THEN session
                ELSE [v \in Verifier |->
                        IF Sessions!Running(v) THEN [session[v] EXCEPT !.steady = FALSE]
                        ELSE session[v]]

(* A program reads, decides or gives up. *)
ProgramActs(v) ==
  /\ UNCHANGED <<vars, paper>>
  /\ \/ Sessions!BeginCli(v) \/ Sessions!BeginUi(v) \/ Sessions!BeginRevoke(v)
     \/ Sessions!Read(v)
     \/ Sessions!Judge(v) \/ Sessions!Reject(v)
     \/ Sessions!ReadShown(v) \/ Sessions!Accept(v)
     \/ Sessions!SkipConsumption(v) \/ Sessions!ConsumeReverts(v)
     \/ Sessions!ReadReceipt(v) \/ Sessions!Report(v)
     \/ Sessions!Fail(v)

(* A slip: the credential is consumed whatever its status said. *)
ConsumesOnChainUnasked(v) ==
  /\ Sessions!Next1(v, "consume")
  /\ ConsumeCredential(CredHash)
  /\ UNCHANGED paper
  /\ Sessions!Mined(v, [session[v] EXCEPT !.used = TRUE,
                                          !.todo = Sessions!AfterUse(session[v].program)])

(* The program's call of consumeCredential is mined. *)
ConsumesOnChain(v) ==
  /\ Sessions!Next1(v, "consume")
  /\ session[v].configured
  /\ ConsumeCredential(CredHash)
  /\ UNCHANGED paper
  /\ Sessions!Mined(v, [session[v] EXCEPT !.used = TRUE,
                                          !.todo = Sessions!AfterUse(session[v].program)])

(* The page's call of revokeCredential is mined. *)
RevokesOnChain(v) ==
  /\ Sessions!Next1(v, "revoke")
  /\ \E sender \in Sender : RevokeCredential(sender, Subject, CredHash)
  /\ UNCHANGED paper
  /\ Sessions!Mined(v, [session[v] EXCEPT !.todo = <<"receipt">>])

SystemNext ==
  \/ RegistryActs
  \/ \E v \in Verifier : ProgramActs(v) \/ ConsumesOnChain(v) \/ RevokesOnChain(v)

SystemSpec == SystemInit /\ [][SystemNext]_systemVars

------------------------------------------------------------------------------
(* Verifying against the contract is verifying against CredentialFacts:      *)
(* whatever anybody does to the registry between two reads, and although two  *)
(* programs' transactions are the contract's own, every step is one of        *)
(* VerifierSession or changes none of its variables.  So what is shown of     *)
(* verdicts and uses there holds of programs and contract together.           *)
(* (verifyCredential.js, verify.js over RobotDIDRegistry.sol)                *)
ImplementsSessions == Sessions!SafeSpec
==============================================================================
