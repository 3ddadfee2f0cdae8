----------------------- MODULE VerifiedRegistry_proofs -----------------------
(* Verifying against the contract is verifying against its abstraction, and   *)
(* what is proved of verdicts and uses there holds of contract and programs   *)
(* together.                                                                 *)
EXTENDS VerifiedRegistry, RegistryRecords_proofs

answers == Sessions!factVars

LEMMA Instance ==
  /\ Sessions!UNLIMITED = 0 /\ Sessions!LIMITED = 1
  /\ Facts!UNLIMITED = 0 /\ Facts!LIMITED = 1
BY DEF Sessions!UNLIMITED, Sessions!LIMITED, Facts!UNLIMITED, Facts!LIMITED

LEMMA SameAnswers ==
  ASSUME UNCHANGED Facts!factVars, UNCHANGED paper
  PROVE  UNCHANGED answers
BY DEF answers, Facts!factVars, Facts!authority, Sessions!factVars, Sessions!authority,
       IssuedByOther

(* What a step does to the answers, seen by those who do not ask about        *)
(* authority in vain.                                                        *)
LEMMA AnswersMove ==
  ASSUME Facts!FactsNext, UNCHANGED paper
  PROVE  \/ UNCHANGED answers
         \/ /\ paper.model = "self" => UNCHANGED Sessions!authority
            /\ \/ Sessions!SecondEnds \/ Sessions!Register \/ Sessions!Administer
               \/ Sessions!RevokeSubject \/ Sessions!ChangeAuthority
               \/ Sessions!RevokeCredential \/ Sessions!Anchor \/ Sessions!Consume
<1> USE DEF IssuedByOther, Facts!authority, Sessions!authority
<1>1. paper.model = "self" => UNCHANGED Sessions!authority
  OBVIOUS
<1>2. CASE Facts!SecondEnds
  <2>1. Sessions!SecondEnds
    BY <1>2 DEF Facts!SecondEnds, Sessions!SecondEnds
  <2> QED BY <1>1, <2>1
<1>3. CASE Facts!Register
  <2>1. Sessions!Register
    BY <1>3 DEF Facts!Register, Sessions!Register
  <2> QED BY <1>1, <2>1
<1>4. CASE Facts!Administer
  <2>1. Sessions!Administer
    BY <1>4 DEF Facts!Administer, Sessions!Administer
  <2> QED BY <1>1, <2>1
<1>5. CASE Facts!RevokeSubject
  <2>1. Sessions!RevokeSubject
    BY <1>5 DEF Facts!RevokeSubject, Sessions!RevokeSubject
  <2> QED BY <1>1, <2>1
<1>6. CASE Facts!ChangeAuthority
  <2>1. Sessions!ChangeAuthority
    BY <1>6 DEF Facts!ChangeAuthority, Sessions!ChangeAuthority
  <2> QED BY <1>1, <2>1
<1>7. CASE Facts!RevokeCredential
  <2>1. Sessions!RevokeCredential
    BY <1>7 DEF Facts!RevokeCredential, Sessions!RevokeCredential
  <2> QED BY <1>1, <2>1
<1>8. CASE Facts!Anchor
  <2>1. Sessions!Anchor
    BY <1>8, Instance DEF Facts!Anchor, Sessions!Anchor
  <2> QED BY <1>1, <2>1
<1>9. CASE Facts!Consume
  <2>1. Sessions!Consume
    BY <1>9, Instance DEF Facts!Consume, Sessions!Consume, Facts!Available, Sessions!Available
  <2> QED BY <1>1, <2>1
<1> QED
  BY <1>2, <1>3, <1>4, <1>5, <1>6, <1>7, <1>8, <1>9 DEF Facts!FactsNext

(* A step of the registry is one that its abstraction may take.               *)
LEMMA RegistryActsAlike ==
  ASSUME TypeOK, KeyHistoryChained, SuspensionHistoryOrdered, FlagsConsistent, RegistryActs
  PROVE  [Sessions!Next]_(Sessions!vars)
<1>1. Next /\ UNCHANGED paper
  BY DEF RegistryActs
<1>2. Facts!FactsNext \/ UNCHANGED Facts!factVars
  BY <1>1, EveryStepMoves DEF Moves
<1>3. CASE UNCHANGED answers
  <2>1. session' = session
    BY <1>3 DEF RegistryActs, answers
  <2> QED BY <1>1, <1>3, <2>1 DEF Sessions!vars, answers
<1>4. CASE ~ UNCHANGED answers
  <2>1. /\ paper.model = "self" => UNCHANGED Sessions!authority
        /\ \/ Sessions!SecondEnds \/ Sessions!Register \/ Sessions!Administer
           \/ Sessions!RevokeSubject \/ Sessions!ChangeAuthority
           \/ Sessions!RevokeCredential \/ Sessions!Anchor \/ Sessions!Consume
    BY <1>1, <1>2, <1>4, SameAnswers, AnswersMove
  <2>2. \A action \in AnyAction : Sessions!May(action)
    BY DEF Sessions!May
  <2>3. session' = [v \in Verifier |->
          IF Sessions!Running(v)
          THEN [session[v] EXCEPT !.steady = @ /\ Sessions!factVars' = Sessions!factVars]
          ELSE session[v]]
    BY <1>4 DEF RegistryActs, answers
  <2>4. Sessions!RegistryMoves
    BY <1>1, <2>1, <2>2, <2>3 DEF Sessions!RegistryMoves, AnyAction
  <2> QED BY <2>4 DEF Sessions!Next
<1> QED BY <1>3, <1>4

(* Programs read the contract's views: nothing on-chain changes.              *)
LEMMA ProgramActsAlike ==
  ASSUME NEW v \in Verifier, ProgramActs(v)
  PROVE  Sessions!Next
BY DEF ProgramActs, Sessions!Next, Sessions!Conclude

(* The contract's transaction is the one the program waits for.               *)
LEMMA ConsumptionAlike ==
  ASSUME TypeOK, NEW v \in Verifier, ConsumesOnChain(v)
  PROVE  Sessions!Next
<1>1. /\ Sessions!Next1(v, "consume") /\ session[v].configured /\ UNCHANGED paper
      /\ Sessions!Mined(v, [session[v] EXCEPT !.used = TRUE,
                                              !.todo = Sessions!AfterUse(session[v].program)])
  BY DEF ConsumesOnChain
<1>2. ConsumeCredential(CredHash)
  BY DEF ConsumesOnChain
<1>3. Facts!Consume
  BY <1>2, ConsumptionIsUse
<1>4. Sessions!Consume
  BY <1>1, <1>3, Instance
     DEF Facts!Consume, Sessions!Consume, Facts!Available, Sessions!Available,
         IssuedByOther, Facts!authority, Sessions!authority
<1>5. Sessions!ConsumeOnChain(v)
  BY <1>1, <1>4 DEF Sessions!ConsumeOnChain
<1> QED BY <1>5 DEF Sessions!Next, Sessions!Conclude

LEMMA RevocationAlike ==
  ASSUME TypeOK, NEW v \in Verifier, RevokesOnChain(v)
  PROVE  Sessions!Next
<1>1. /\ Sessions!Next1(v, "revoke") /\ UNCHANGED paper
      /\ Sessions!Mined(v, [session[v] EXCEPT !.todo = <<"receipt">>])
  BY DEF RevokesOnChain
<1>2. PICK sender \in Sender : RevokeCredential(sender, Subject, CredHash)
  BY DEF RevokesOnChain
<1>3. Facts!RevokeCredential
  BY <1>2, CredentialAssumption, RevocationIsWithdrawal
<1>4. Sessions!RevokeCredential
  BY <1>1, <1>3
     DEF Facts!RevokeCredential, Sessions!RevokeCredential,
         IssuedByOther, Facts!authority, Sessions!authority
<1>5. Sessions!RevokeOnChain(v)
  BY <1>1, <1>4 DEF Sessions!RevokeOnChain
<1> QED BY <1>5 DEF Sessions!Next, Sessions!Conclude

(* What the sessions see at the beginning.                                    *)
LEMMA SessionsInitially == SystemInit => Sessions!Init
<1> SUFFICES ASSUME SystemInit PROVE Sessions!Init
  OBVIOUS
<1>1. Facts!FactsInit /\ trustedIssuer = {}
  BY FactsInitially DEF SystemInit, Init
<1>2. Facts!NoConsumption = Sessions!NoConsumption
  BY DEF Facts!NoConsumption, Sessions!NoConsumption
<1>3. Sessions!FactsInit
  BY <1>1, <1>2 DEF Facts!FactsInit, Sessions!FactsInit, IssuedByOther
<1> QED BY <1>1, <1>3 DEF SystemInit, Sessions!Init, IssuedByOther

(* The registry's own invariants do not depend on who reads it.               *)
LEMMA RegistryAsBefore == SystemSpec => Spec
<1>1. SystemInit => Init
  BY DEF SystemInit
<1>2. [SystemNext]_systemVars => [Next]_vars
  <2> SUFFICES ASSUME [SystemNext]_systemVars PROVE [Next]_vars
    OBVIOUS
  <2>1. CASE UNCHANGED systemVars
    BY <2>1 DEF systemVars
  <2>2. CASE RegistryActs
    BY <2>2 DEF RegistryActs
  <2>3. ASSUME NEW v \in Verifier, ProgramActs(v) PROVE [Next]_vars
    BY <2>3 DEF ProgramActs
  <2>4. ASSUME NEW v \in Verifier, ConsumesOnChain(v) PROVE [Next]_vars
    BY <2>4, CredentialAssumption DEF ConsumesOnChain, Next
  <2>5. ASSUME NEW v \in Verifier, RevokesOnChain(v) PROVE [Next]_vars
    <3>1. PICK sender \in Sender : RevokeCredential(sender, Subject, CredHash)
      BY <2>5 DEF RevokesOnChain
    <3> QED BY <3>1, CredentialAssumption DEF Next, CredentialStep
  <2> QED BY <2>1, <2>2, <2>3, <2>4, <2>5 DEF SystemNext
<1> QED BY <1>1, <1>2, PTL DEF SystemSpec, Spec

(* Contract and programs together implement VerifierSession, for any robots,  *)
(* accounts, sessions and bounds.                                            *)
THEOREM SystemKeepsSessions == SystemSpec => ImplementsSessions
<1>1. TypeOK /\ KeyHistoryChained /\ SuspensionHistoryOrdered /\ FlagsConsistent
        /\ [SystemNext]_systemVars => [Sessions!Next]_(Sessions!vars)
  <2> SUFFICES ASSUME TypeOK, KeyHistoryChained, SuspensionHistoryOrdered, FlagsConsistent,
                      [SystemNext]_systemVars
               PROVE  [Sessions!Next]_(Sessions!vars)
    OBVIOUS
  <2>1. CASE UNCHANGED systemVars
    <3>1. UNCHANGED <<vars, paper, session>>
      BY <2>1 DEF systemVars
    <3>2. UNCHANGED Facts!factVars
      BY <3>1, FactsKept
    <3> QED BY <3>1, <3>2, SameAnswers DEF Sessions!vars, answers
  <2>2. CASE RegistryActs
    BY <2>2, RegistryActsAlike
  <2> QED
    BY <2>1, <2>2, ProgramActsAlike, ConsumptionAlike, RevocationAlike DEF SystemNext
<1> QED
  BY <1>1, SessionsInitially, RegistryAsBefore, TypeCorrect, KeysChainedAlways,
     SuspensionsOrdered, FlagsAlwaysConsistent, PTL DEF SystemSpec, ImplementsSessions, Sessions!SafeSpec

------------------------------------------------------------------------------
(* VerifierSession, with all that is proved of it, over the contract's        *)
(* variables: the same instance as Sessions.                                 *)
Verdicts == INSTANCE VerifierSession_proofs WITH
  Early       <- AnyAction,
  Moving      <- AnyAction,
  over        <- now > IssuedAt,
  subject     <- SubjectStatus,
  allowed     <- IsIssuanceAllowedAt(Subject, IssuedAt),
  signed      <- IsRobotKeyAuthorizedAt(Subject, Signer, IssuedAt),
  delegated   <- IssuedByOther /\ "ASSERTION" \in GetControllerPermissions(Subject, Issuer),
  trusted     <- IssuedByOther /\ <<Issuer, Type>> \in trustedIssuer,
  revoked     <- CredHash \in revokedCredentialHashes,
  anchor      <- AnchorTiming,
  consumption <- consumptionRecords[CredHash]

LEMMA SameInstance ==
  /\ Sessions!Init <=> Verdicts!Init
  /\ Sessions!Next <=> Verdicts!Next
  /\ Sessions!vars = Verdicts!vars
<1> USE DEF Sessions!factVars, Verdicts!factVars, Sessions!authority, Verdicts!authority,
            Sessions!UNLIMITED, Verdicts!UNLIMITED, Sessions!LIMITED, Verdicts!LIMITED,
            Sessions!NoConsumption, Verdicts!NoConsumption, Sessions!Available,
            Verdicts!Available, Sessions!FactsInit, Verdicts!FactsInit, Sessions!SecondEnds,
            Verdicts!SecondEnds, Sessions!Register, Verdicts!Register, Sessions!Administer,
            Verdicts!Administer, Sessions!RevokeSubject, Verdicts!RevokeSubject,
            Sessions!ChangeAuthority, Verdicts!ChangeAuthority, Sessions!RevokeCredential,
            Verdicts!RevokeCredential, Sessions!Anchor, Verdicts!Anchor, Sessions!Consume,
            Verdicts!Consume, Sessions!vars, Verdicts!vars, Sessions!When, Verdicts!When,
            Sessions!UseReads, Verdicts!UseReads, Sessions!AuthorityReads,
            Verdicts!AuthorityReads, Sessions!CliReads, Verdicts!CliReads, Sessions!UiReads,
            Verdicts!UiReads, Sessions!Running, Verdicts!Running, Sessions!Next1,
            Verdicts!Next1, Sessions!Rest, Verdicts!Rest, Sessions!Answer, Verdicts!Answer,
            Sessions!End, Verdicts!End, Sessions!Withdrawn, Verdicts!Withdrawn,
            Sessions!Entitled, Verdicts!Entitled, Sessions!Beginning, Verdicts!Beginning,
            Sessions!Nothing, Verdicts!Nothing, Sessions!Idle, Verdicts!Idle, Sessions!Init,
            Verdicts!Init, Sessions!May, Verdicts!May, Sessions!RegistryMoves,
            Verdicts!RegistryMoves, Sessions!BeginWith, Verdicts!BeginWith,
            Sessions!BeginCli, Verdicts!BeginCli, Sessions!BeginUi, Verdicts!BeginUi,
            Sessions!BeginRevoke, Verdicts!BeginRevoke, Sessions!ReadAnchored,
            Verdicts!ReadAnchored, Sessions!ReadAnchor, Verdicts!ReadAnchor,
            Sessions!ReadExists, Verdicts!ReadExists, Sessions!ReadSubjectRevoked,
            Verdicts!ReadSubjectRevoked, Sessions!ReadAllowed, Verdicts!ReadAllowed,
            Sessions!ReadCredentialRevoked, Verdicts!ReadCredentialRevoked,
            Sessions!ReadUseRecord, Verdicts!ReadUseRecord, Sessions!ReadUseSlot,
            Verdicts!ReadUseSlot, Sessions!CheckAvailable, Verdicts!CheckAvailable,
            Sessions!ReadSigned, Verdicts!ReadSigned, Sessions!ReadDelegated,
            Verdicts!ReadDelegated, Sessions!ReadIssuer, Verdicts!ReadIssuer,
            Sessions!ReadTrusted, Verdicts!ReadTrusted, Sessions!Judge, Verdicts!Judge,
            Sessions!ReadShown, Verdicts!ReadShown, Sessions!Accept, Verdicts!Accept,
            Sessions!Reject, Verdicts!Reject, Sessions!SkipConsumption,
            Verdicts!SkipConsumption, Sessions!Mined, Verdicts!Mined,
            Sessions!RevokeOnChain, Verdicts!RevokeOnChain, Sessions!ConsumeOnChain,
            Verdicts!ConsumeOnChain, Sessions!ConsumeReverts, Verdicts!ConsumeReverts,
            Sessions!AfterUse, Verdicts!AfterUse, Sessions!ReadReceipt, Verdicts!ReadReceipt,
            Sessions!Report, Verdicts!Report, Sessions!Fail, Verdicts!Fail, Sessions!Read,
            Verdicts!Read, Sessions!Conclude, Verdicts!Conclude, Sessions!Next,
            Verdicts!Next
<1>1. Sessions!vars = Verdicts!vars
  OBVIOUS
<1>2. Sessions!Init <=> Verdicts!Init
  OBVIOUS
<1>3. Sessions!Next <=> Verdicts!Next
  OBVIOUS
<1> QED BY <1>1, <1>2, <1>3

(* What VerifierSession assumes of its constants holds of this instance.      *)
LEMMA InstanceAssumptions ==
  /\ MaxUses \in Nat
  /\ AnyAction \subseteq Verdicts!RegistryAction
BY BoundsAssumption DEF AnyAction, Verdicts!RegistryAction

LEMMA SystemKeepsVerdicts == SystemSpec => Verdicts!SafeSpec
<1>1. [Sessions!Next]_(Sessions!vars) => [Verdicts!Next]_(Verdicts!vars)
  BY SameInstance DEF Sessions!vars, Verdicts!vars, Sessions!factVars, Verdicts!factVars,
                      Sessions!authority, Verdicts!authority
<1>2. Sessions!Init => Verdicts!Init
  BY SameInstance
<1> QED
  BY <1>1, <1>2, SystemKeepsSessions, PTL
     DEF ImplementsSessions, Sessions!SafeSpec, Verdicts!SafeSpec

(* A credential that a program found valid, reading the contract one answer at *)
(* a time while anybody calls it, had nothing standing against it on the       *)
(* contract when the program began: it was not revoked, its subject was not    *)
(* revoked, a use was left, its anchor was timely, and if its second was over, *)
(* no suspension covered it and the robot's key was authorised in it.          *)
THEOREM ValidOnTheRegistry == SystemSpec => []Sessions!ValidSinceTheBeginning
<1>1. Verdicts!SafeSpec => []Verdicts!ValidSinceTheBeginning
  BY InstanceAssumptions, FileAssumption, Verdicts!ValidMeansSo
<1>2. Verdicts!ValidSinceTheBeginning => Sessions!ValidSinceTheBeginning
  BY DEF Verdicts!ValidSinceTheBeginning, Sessions!ValidSinceTheBeginning
<1> QED BY <1>1, <1>2, SystemKeepsVerdicts, PTL

(* Of a credential that the contract limits to n uses, no more than n programs *)
(* are granted one, whoever else consumes it and in whatever blocks.           *)
THEOREM UsesOnTheRegistry == SystemSpec => []Sessions!UsesGrantedWithinLimit
<1>1. Verdicts!SafeSpec => []Verdicts!UsesGrantedWithinLimit
  BY InstanceAssumptions, FileAssumption, Verdicts!UsesGranted
<1>2. Verdicts!UsesGrantedWithinLimit => Sessions!UsesGrantedWithinLimit
  BY DEF Verdicts!UsesGrantedWithinLimit, Sessions!UsesGrantedWithinLimit,
         Verdicts!LIMITED, Sessions!LIMITED, Verdicts!Cardinality, Sessions!Cardinality
<1> QED BY <1>1, <1>2, SystemKeepsVerdicts, PTL

(* While the contract's answers do not change, both programs' verdict is what   *)
(* those answers amount to.                                                   *)
THEOREM VerdictsOnTheRegistry == SystemSpec => Sessions!SteadyVerdict
<1>1. Verdicts!SafeSpec => Verdicts!SteadyVerdict
  BY InstanceAssumptions, FileAssumption, Verdicts!VerdictsAgree
<1> DEFINE Found(v) == /\ session'[v].valid => Sessions!Acceptable
                       /\ session'[v].outcome = "invalid" => ~ Sessions!Acceptable
           Heard(v) == /\ session'[v].valid => Verdicts!Acceptable
                       /\ session'[v].outcome = "invalid" => ~ Verdicts!Acceptable
<1>2. [\A v \in Verifier : Verdicts!Next1(v, "verdict") /\ session[v].steady => Heard(v)]_(Verdicts!vars)
       => [\A v \in Verifier : Sessions!Next1(v, "verdict") /\ session[v].steady => Found(v)]_(Sessions!vars)
  <2>1. Sessions!Acceptable <=> Verdicts!Acceptable
    BY DEF Sessions!Acceptable, Verdicts!Acceptable, Sessions!Withdrawn, Verdicts!Withdrawn,
           Sessions!Available, Verdicts!Available, Sessions!UNLIMITED, Verdicts!UNLIMITED
  <2>2. \A v : Sessions!Next1(v, "verdict") <=> Verdicts!Next1(v, "verdict")
    BY DEF Sessions!Next1, Verdicts!Next1, Sessions!Running, Verdicts!Running
  <2> QED
    BY <2>1, <2>2 DEF Sessions!vars, Verdicts!vars, Sessions!factVars, Verdicts!factVars,
                      Sessions!authority, Verdicts!authority
<1> QED
  BY <1>1, <1>2, SystemKeepsVerdicts, PTL DEF Sessions!SteadyVerdict, Verdicts!SteadyVerdict
==============================================================================
