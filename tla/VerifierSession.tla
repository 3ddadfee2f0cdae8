--------------------------- MODULE VerifierSession ---------------------------
(***************************************************************************)
(* Verification of one credential by several people at once, with the CLI   *)
(* (verifier/verifyCredential.js over lib/verifyCredentialCore.js) or in    *)
(* the browser (ui/js/credentials/verify.js), optionally followed by its    *)
(* consumption on-chain; or its revocation from the same page.              *)
(*                                                                         *)
(* Either program asks the contracts one question after another and awaits  *)
(* each answer; the registry (CredentialFacts) may change between any two   *)
(* of them, and any call may fail.  What a program has still to ask is its  *)
(* todo, in the order of the code.                                          *)
(***************************************************************************)
EXTENDS CredentialFacts, Sequences, FiniteSets

CONSTANTS
  Verifier,      \* the sessions, each one run of a program
  Paper,         \* the credential files to consider
  Early,         \* bound: the registry's actions before the first session begins
  Moving         \* bound: the registry's actions from then on

(* A credential file, as far as the programs judge it without the registry:  *)
(*   model   who issued it: the robot, a controller or an external issuer    *)
(*   formed  issuer, subject DID and signature are present and well formed   *)
(*   schema  type, subject fields and issuance model fit the policy          *)
(*   hashed  credentialStatus.credentialHash is the hash of the content      *)
(*   proof   the signature recovers to the right address by the right method *)
(*           and the credential has not expired                              *)
ASSUME PaperAssumption ==
  Paper \subseteq [model : {"self", "controller", "external"},
                   formed : BOOLEAN, schema : BOOLEAN, hashed : BOOLEAN, proof : BOOLEAN]

RegistryAction == {"SecondEnds", "Register", "Administer", "RevokeSubject",
                   "ChangeAuthority", "RevokeCredential", "Anchor", "Consume"}

ASSUME BoundsAssumption == Early \subseteq RegistryAction /\ Moving \subseteq RegistryAction

VARIABLES
  paper,        \* the credential everybody verifies
  session       \* the state of each verifier

vars == <<factVars, paper, session>>

------------------------------------------------------------------------------
(* What the programs ask, in order. *)

When(condition, reads) == IF condition THEN reads ELSE <<>>

(* Promise.all([getConsumptionRecord, isConsumptionAvailable]): the node may *)
(* answer the two in either order, from different blocks.                    *)
UseReads == {<<"useRecord", "useSlot">>, <<"useSlot", "useRecord">>}

(* A slip: an external issuer need only be active. *)
AuthorityReadsActiveOnly ==
  CASE paper.model = "self"       -> <<"signed">>
    [] paper.model = "controller" -> <<"delegated">>
    [] paper.model = "external"   -> <<"issuer">>

AuthorityReads ==
  CASE paper.model = "self"       -> <<"signed">>
    [] paper.model = "controller" -> <<"delegated">>
    [] paper.model = "external"   -> <<"issuer", "trusted">>

(* verifyCredentialPolicy: the anchor first, the consumption status again in *)
(* finish().                                                                 *)
CliReads(uses, finalUses) ==
     When(paper.hashed, <<"anchored", "anchor">>)
  \o When(paper.formed,
            <<"exists", "subjectRevoked", "allowed">>
         \o When(paper.hashed, <<"credentialRevoked">> \o uses \o <<"available">>)
         \o When(paper.hashed /\ paper.schema, AuthorityReads))
  \o When(paper.hashed, finalUses)
  \o <<"verdict">>

(* A slip: neither the uses nor the anchor are asked for. *)
UiReadsUnanchored(uses) ==
     <<"exists">>
  \o When(paper.hashed, <<"credentialRevoked">>)
  \o <<"subjectRevoked", "allowed">>
  \o When(paper.hashed /\ paper.schema, AuthorityReads)
  \o <<"verdict">>

(* verifyCredentialObject: the registry record first, the anchor last but one. *)
UiReads(uses) ==
     <<"exists">>
  \o When(paper.hashed, <<"credentialRevoked">>)
  \o <<"subjectRevoked", "allowed">>
  \o When(paper.hashed, uses \o <<"available", "anchored", "anchor">>)
  \o When(paper.hashed /\ paper.schema, AuthorityReads)
  \o <<"verdict">>

Running(v) == session[v].outcome = "running"
Next1(v, item) == Running(v) /\ session[v].todo[1] = item

Rest(v, n) == SubSeq(session[v].todo, n + 1, Len(session[v].todo))

(* An answer arrived: its check joins the verdict, and the n next items of   *)
(* the todo are done with.                                                   *)
Answer(v, check, n) ==
  /\ session' = [session EXCEPT ![v].ok = @ /\ check, ![v].todo = Rest(v, n)]
  /\ UNCHANGED <<factVars, paper>>

End(v, outcome) ==
  session' = [session EXCEPT ![v].outcome = outcome, ![v].todo = <<>>]

------------------------------------------------------------------------------
(* What stands against the credential for good, whatever happens next. *)
Withdrawn ==
  \/ revoked
  \/ subject = "revoked"
  \/ ~ Available
  \/ anchor = "untimely"

(* What a past second decides for good. *)
Entitled ==
  /\ subject = "active" => allowed
  /\ paper.model = "self" => signed

(* The registry answers every question in the credential's favour. *)
Acceptable ==
  /\ paper.formed /\ paper.schema /\ paper.hashed /\ paper.proof
  /\ subject = "active" /\ allowed
  /\ ~ Withdrawn
  /\ CASE paper.model = "self"       -> signed
       [] paper.model = "controller" -> delegated
       [] paper.model = "external"   -> trusted

(* Auxiliary: what was true when the session began, and whether nothing has  *)
(* changed since.                                                            *)
Beginning == [withdrawn  |-> Withdrawn,
              unentitled |-> over /\ ~ Entitled,
              configured |-> consumption.configured]
Nothing   == [withdrawn |-> FALSE, unentitled |-> FALSE, configured |-> FALSE]

Idle == [program |-> "none", outcome |-> "idle", todo |-> <<>>, ok |-> FALSE,
         valid |-> FALSE, configured |-> FALSE, slot |-> FALSE, refused |-> FALSE,
         used |-> FALSE,
         began |-> Nothing, steady |-> TRUE]

(* A robot that issues for itself has no issuer's address: nobody asks what   *)
(* permissions or trust such an issuer has.                                  *)
Init ==
  /\ FactsInit
  /\ paper \in Paper
  /\ paper.model = "self" => ~ trusted
  /\ session = [v \in Verifier |-> Idle]

May(action) ==
  action \in IF \A v \in Verifier : session[v].outcome = "idle" THEN Early ELSE Moving

(* The registry moves on its own. *)
RegistryMoves ==
  /\ paper.model = "self" => UNCHANGED authority
  /\ \/ May("SecondEnds") /\ SecondEnds
     \/ May("Register") /\ Register
     \/ May("Administer") /\ Administer
     \/ May("RevokeSubject") /\ RevokeSubject
     \/ May("ChangeAuthority") /\ ChangeAuthority
     \/ May("RevokeCredential") /\ RevokeCredential
     \/ May("Anchor") /\ Anchor
     \/ May("Consume") /\ Consume
  /\ session' = [v \in Verifier |->
       IF Running(v) THEN [session[v] EXCEPT !.steady = @ /\ factVars' = factVars]
       ELSE session[v]]
  /\ UNCHANGED paper

(* What can be judged without the registry is judged at once.  Where the CLI *)
(* reports a malformed credential after reading its anchor, the browser      *)
(* throws.                                                                   *)
BeginWith(v, program, outcome, reads) ==
  /\ session[v].outcome = "idle"
  /\ session' = [session EXCEPT ![v] =
       [Idle EXCEPT !.program = program, !.outcome = outcome, !.todo = reads,
                    !.ok = paper.formed /\ paper.schema /\ paper.hashed /\ paper.proof,
                    !.began = Beginning]]
  /\ UNCHANGED <<factVars, paper>>

BeginCli(v) ==
  \E uses, finalUses \in UseReads :
    BeginWith(v, "cli", "running", CliReads(uses, finalUses))

BeginUi(v) ==
  IF paper.formed
  THEN \E uses \in UseReads : BeginWith(v, "ui", "running", UiReads(uses))
  ELSE BeginWith(v, "ui", "failed", <<>>)

(* revokeCredentialFromInput: what is not hashed as it says is not revoked;   *)
(* of the rest of the form only the subject is looked for.                   *)
BeginRevoke(v) ==
  \/ paper.hashed /\ BeginWith(v, "ui", "running", <<"revoke">>)
  \/ ~ (paper.formed /\ paper.hashed) /\ BeginWith(v, "ui", "failed", <<>>)

------------------------------------------------------------------------------
(* The reads.  fetchOnChainAnchor asks for the anchor only if there is one;   *)
(* without one, timing is not enforced.                                      *)
ReadAnchored(v) ==
  /\ Next1(v, "anchored")
  /\ Answer(v, TRUE, IF anchor = "none" THEN 2 ELSE 1)

ReadAnchor(v) ==
  /\ Next1(v, "anchor")
  /\ Answer(v, anchor = "timely", 1)

(* Of an unknown subject the CLI asks nothing else; the browser's             *)
(* getRegistryRecord throws.                                                 *)
ReadExists(v) ==
  /\ Next1(v, "exists")
  /\ IF subject # "none" THEN Answer(v, TRUE, 1)
     ELSE IF session[v].program = "cli" THEN Answer(v, FALSE, 3)
     ELSE End(v, "failed") /\ UNCHANGED <<factVars, paper>>

ReadSubjectRevoked(v) ==
  /\ Next1(v, "subjectRevoked")
  /\ Answer(v, subject # "revoked", 1)

ReadAllowed(v) ==
  /\ Next1(v, "allowed")
  /\ Answer(v, allowed, 1)

ReadCredentialRevoked(v) ==
  /\ Next1(v, "credentialRevoked")
  /\ Answer(v, ~ revoked, 1)

ReadUseRecord(v) ==
  /\ Next1(v, "useRecord")
  /\ session' = [session EXCEPT ![v].configured = consumption.configured,
                                ![v].todo = Rest(v, 1)]
  /\ UNCHANGED <<factVars, paper>>

(* A slip: the number of uses is compared whatever the mode. *)
ReadUseSlotAnyMode(v) ==
  /\ Next1(v, "useSlot")
  /\ session' = [session EXCEPT
       ![v].slot = ~ consumption.configured \/ consumption.useCount < consumption.maxUses,
       ![v].todo = Rest(v, 1)]
  /\ UNCHANGED <<factVars, paper>>

ReadUseSlot(v) ==
  /\ Next1(v, "useSlot")
  /\ session' = [session EXCEPT ![v].slot = Available, ![v].todo = Rest(v, 1)]
  /\ UNCHANGED <<factVars, paper>>

(* fetchConsumptionStatus: without a policy a credential is always available. *)
CheckAvailable(v) ==
  /\ Next1(v, "available")
  /\ LET available == ~ session[v].configured \/ session[v].slot IN
       session' = [session EXCEPT ![v].ok = @ /\ available, ![v].refused = ~ available,
                                  ![v].todo = Rest(v, 1)]
  /\ UNCHANGED <<factVars, paper>>

ReadSigned(v) ==
  /\ Next1(v, "signed")
  /\ Answer(v, signed, 1)

ReadDelegated(v) ==
  /\ Next1(v, "delegated")
  /\ Answer(v, delegated, 1)

(* getIssuer: an issuer trusted with a type is active, an active one may not  *)
(* be trusted with this type.                                                *)
ReadIssuer(v) ==
  /\ Next1(v, "issuer")
  /\ \E active \in BOOLEAN : (trusted => active) /\ Answer(v, active, 1)

ReadTrusted(v) ==
  /\ Next1(v, "trusted")
  /\ Answer(v, trusted, 1)

------------------------------------------------------------------------------
(* The verdict, and what follows it.  The CLI reads the DID document to show  *)
(* it, and the record again before it consumes (--consume); the browser       *)
(* relies on the status it has.                                              *)
Judge(v) ==
  /\ Next1(v, "verdict")
  /\ session[v].ok
  /\ LET cli(reads) == When(session[v].program = "cli", reads)
     IN \E then \in {<<"accept">>, cli(<<"useRecord">>) \o <<"consume">>} :
          session' = [session EXCEPT ![v].valid = TRUE,
                                     ![v].todo = cli(<<"shown">>) \o then]
  /\ UNCHANGED <<factVars, paper>>

(* What is read only to be shown. *)
ReadShown(v) ==
  /\ Next1(v, "shown")
  /\ Answer(v, TRUE, 1)

Accept(v) ==
  /\ Next1(v, "accept")
  /\ End(v, "valid")
  /\ UNCHANGED <<factVars, paper>>

(* A slip: what is not well formed gets no verdict. *)
RejectWellFormed(v) ==
  /\ Next1(v, "verdict")
  /\ ~ session[v].ok
  /\ paper.formed
  /\ End(v, "invalid")
  /\ UNCHANGED <<factVars, paper>>

Reject(v) ==
  /\ Next1(v, "verdict")
  /\ ~ session[v].ok
  /\ End(v, "invalid")
  /\ UNCHANGED <<factVars, paper>>

(* A slip: a used-up credential is taken for one without a policy. *)
SkipConsumptionUnavailable(v) ==
  /\ Next1(v, "consume")
  /\ ~ session[v].configured \/ ~ session[v].slot
  /\ End(v, "skipped")
  /\ UNCHANGED <<factVars, paper>>

SkipConsumption(v) ==
  /\ Next1(v, "consume")
  /\ ~ session[v].configured
  /\ End(v, "skipped")
  /\ UNCHANGED <<factVars, paper>>

(* A session's own transaction is mined; the others may see its effect. *)
Mined(v, after) ==
  /\ session' = [w \in Verifier |->
       IF w = v THEN after
       ELSE IF Running(w) THEN [session[w] EXCEPT !.steady = @ /\ factVars' = factVars]
       ELSE session[w]]
  /\ UNCHANGED paper

RevokeOnChain(v) ==
  /\ Next1(v, "revoke")
  /\ RevokeCredential
  /\ Mined(v, [session[v] EXCEPT !.todo = <<"receipt">>])

(* The status read once a use was counted; the page reads it once more for   *)
(* its report.                                                               *)
AfterUse(program) ==
  IF program = "ui" THEN <<"receipt", "useRecord", "useSlot", "shown", "report">>
                    ELSE <<"receipt", "useRecord", "useSlot", "report">>

(* The transaction is mined and counts a use... *)
ConsumeOnChain(v) ==
  /\ Next1(v, "consume")
  /\ session[v].configured
  /\ Consume
  /\ Mined(v, [session[v] EXCEPT !.used = TRUE, !.todo = AfterUse(session[v].program)])

(* ... or reverts: the last use went to somebody else. *)
ConsumeReverts(v) ==
  /\ Next1(v, "consume")
  /\ session[v].configured
  /\ ~ Available
  /\ End(v, "failed")
  /\ UNCHANGED <<factVars, paper>>

(* tx.wait() returns, some time after the transaction was mined. *)
ReadReceipt(v) ==
  /\ Next1(v, "receipt")
  /\ IF session[v].used THEN Answer(v, TRUE, 1)
     ELSE End(v, "revoked") /\ UNCHANGED <<factVars, paper>>

(* "more uses remain" or "limit reached", as the slot read last says. *)
Report(v) ==
  /\ Next1(v, "report")
  /\ End(v, "consumed")
  /\ UNCHANGED <<factVars, paper>>

(* A call is refused or lost: the program ends with an error. *)
Fail(v) ==
  /\ Running(v)
  /\ session[v].todo[1] \notin {"available", "verdict", "accept", "report"}
  /\ End(v, "failed")
  /\ UNCHANGED <<factVars, paper>>

Read(v) ==
  \/ ReadAnchored(v) \/ ReadAnchor(v)
  \/ ReadExists(v) \/ ReadSubjectRevoked(v) \/ ReadAllowed(v)
  \/ ReadCredentialRevoked(v)
  \/ ReadUseRecord(v) \/ ReadUseSlot(v) \/ CheckAvailable(v)
  \/ ReadSigned(v) \/ ReadDelegated(v) \/ ReadIssuer(v) \/ ReadTrusted(v)

Conclude(v) ==
  \/ Judge(v) \/ Reject(v) \/ ReadShown(v) \/ Accept(v)
  \/ SkipConsumption(v) \/ ConsumeOnChain(v) \/ ConsumeReverts(v)
  \/ RevokeOnChain(v) \/ ReadReceipt(v) \/ Report(v)

Next ==
  \/ RegistryMoves
  \/ \E v \in Verifier : BeginCli(v) \/ BeginUi(v) \/ BeginRevoke(v) \/ Read(v) \/ Conclude(v) \/ Fail(v)

(* Nothing bounds the wait for a wallet's answer, for a block that holds the  *)
(* transaction, or for its receipt; nor for what the page asks through the   *)
(* wallet's own provider, as consumeCredentialOnChain does of the status.    *)
MayHang(v) ==
  /\ Running(v)
  /\ \/ session[v].todo[1] = "consume" /\ session[v].configured
     \/ session[v].todo[1] \in {"revoke", "receipt"}
     \/ /\ session[v].program = "ui" /\ session[v].used
        /\ session[v].todo[1] \in {"useRecord", "useSlot"}

(* A read over HTTP is answered, refused or timed out, and a promise that     *)
(* settled runs its continuation: a session that waits for nothing else goes *)
(* on.                                                                       *)
Fairness ==
  \A v \in Verifier : WF_vars(~ MayHang(v) /\ (Read(v) \/ Conclude(v) \/ Fail(v)))

(* What may happen, and that it goes on. *)
SafeSpec == Init /\ [][Next]_vars
Spec     == SafeSpec /\ Fairness

------------------------------------------------------------------------------
Outcome == {"idle", "running", "failed", "invalid", "valid", "skipped", "consumed",
            "revoked"}
Item == {"anchored", "anchor", "exists", "subjectRevoked", "allowed", "credentialRevoked",
         "useRecord", "useSlot", "available", "signed", "delegated", "issuer", "trusted",
         "verdict", "shown", "accept", "consume", "receipt", "report",
         "revoke"}

(* Types; a session has something to do exactly while it runs. *)
TypeOK ==
  /\ FactsTypeOK
  /\ paper \in Paper
  /\ \A v \in Verifier :
       /\ session[v].program \in {"none", "cli", "ui"}
       /\ session[v].outcome \in Outcome
       /\ \A i \in DOMAIN session[v].todo : session[v].todo[i] \in Item
       /\ Running(v) <=> session[v].todo # <<>>
       /\ session[v].used => session[v].valid

(* A session that finds the credential valid would have had no reason to      *)
(* refuse it the moment it began, although its answers come from different    *)
(* blocks: nothing was withdrawn by then, and if the second of issuance was   *)
(* over, it was already decided in the credential's favour.  Only the         *)
(* authority of a controller or issuer, which is not remembered, may be newer.*)
(* (verifyCredentialPolicy, verifyCredentialObject)                           *)
ValidSinceTheBeginning ==
  \A v \in Verifier : session[v].valid =>
    ~ session[v].began.withdrawn /\ ~ session[v].began.unentitled

(* While nothing changes on-chain, the CLI and the browser give the same      *)
(* verdict, and it is the one the registry's answers amount to: no read is    *)
(* missing, none is confused with another (README: the UI mirrors the policy  *)
(* of lib/verifyCredentialCore.js).                                           *)
SteadyVerdict ==
  [][\A v \in Verifier : Next1(v, "verdict") /\ session[v].steady =>
       /\ session'[v].valid => Acceptable
       /\ session'[v].outcome = "invalid" => ~ Acceptable]_vars

(* Of a credential limited to n uses, at most n sessions get one, however     *)
(* their reads and transactions interleave and whichever of them fail after   *)
(* the transaction was mined (consumeCredential, --consume).                  *)
UsesGrantedWithinLimit ==
  consumption.mode = LIMITED =>
    Cardinality({v \in Verifier : session[v].used}) <= consumption.maxUses

(* A session accepts a credential without consuming it only if no policy had  *)
(* been anchored when it began: a limit is never bypassed by a status that    *)
(* was read too early (verifyCredential.js: "consumption not configured").    *)
SkippedOnlyWithoutPolicy ==
  \A v \in Verifier : session[v].outcome = "skipped" => ~ session[v].began.configured

(* What a refusal for lack of uses shows agrees with it: the status is read    *)
(* again when the CLI builds its report (finish), the record and the free use *)
(* possibly from different blocks, and still says that no use is left.        *)
RefusedUseStaysRefused ==
  \A v \in Verifier : session[v].refused => session[v].configured /\ ~ session[v].slot

(* "limit reached" is reported only when no use is left, for ever. *)
LimitReachedIsTrue ==
  \A v \in Verifier :
    session[v].outcome = "consumed" /\ ~ session[v].slot => ~ Available

(* What the README says of the exit code (1 = invalid): a session whose        *)
(* verdict was VALID and whose use was counted on-chain does not end as       *)
(* INVALID (verifyCredential.js, main and its catch).                         *)
InvalidTakesNoUse ==
  \A v \in Verifier :
    session[v].program = "cli" /\ session[v].outcome \in {"invalid", "failed"}
      => ~ session[v].used

(* Every session ends, whatever its reads return and whichever of them fail,   *)
(* unless it waits for ever for the transaction it sent, or in the page for  *)
(* the wallet: no answer of the registry, and no credential, makes a program *)
(* wait for something that is not under way (verifyCredential.js, verify.js).*)
SessionsEnd == \A v \in Verifier : Running(v) ~> (~ Running(v) \/ MayHang(v))
==============================================================================
