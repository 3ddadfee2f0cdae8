# Robot_DID: a verification project

Robot_DID gives robots decentralised identifiers.  A robot is an ERC-721 token; the
contract `RobotDIDRegistry` keeps for each token a DID with its key history, suspension
history, controllers, and for credentials their anchors, limits of use and revocations.
Programs in Node and in the browser issue credentials, anchor them and verify them.

This directory holds TLA+ models of the parts of the system where time, order and
concurrency matter, TLC configurations that check them on small instances, and TLAPS
proofs for every instance.  Paths below are relative to `src/`.

## 1. Inventory

| Component | State it keeps | Operations | What makes it correct |
|---|---|---|---|
| `contracts/RobotDIDRegistry.sol` | DID records; key history; suspension intervals; used keys; controllers (list and permission map); revoked hashes; anchors; consumption records | register, rotate key, metadata, suspend, unsuspend, revoke; add, update, remove controller; anchor, revoke, consume credential | histories well formed and consistent with the flags; answers about past seconds never change; keys unique for ever; limits respected; revocation and publication final |
| `contracts/RobotIdentityNFT.sol` | owner and metadata of each robot, minter and admin roles | mint (with the receiver's callback before the metadata is written), transfer, grant, revoke and renounce roles | each token has the metadata of its own mint, whatever happens inside a callback; the registry asks for the owner at every call, so authority moves with the token |
| `contracts/CredentialIssuerRegistry.sol` | issuer profiles, a role per credential type | register, revoke issuer, grant, revoke, renounce role | an issuer is trusted with a type only while active and granted, in whatever order it was registered and granted |
| `lib/verifyCredentialCore.js` and its helpers, `verifier/verifyCredential.js` | none but the answers collected so far | up to eleven reads, a verdict, optional consumption | the verdict made of answers from different blocks is one the credential deserved |
| `ui/js/credentials/verify.js` | as above | the same policy in another order; verify and consume | same verdicts as the CLI |
| `lib/credentialPolicies.js`, `ui/js/core/config.js`, `ui/js/credentials/build.js` | none | which issuance model a credential has, which types allow it, which fields a type requires | what is issued is what verifiers recognise and accept, on page and command line |
| `robot/`, `controller/`, `issuer/`, `lib/issueAnchor.js`, `scripts/anchorCredential.js` | one file per credential type | check a permission, sign, write, anchor | what is anchored is what verifiers will take it for |
| `ui/js/credentials/issue.js` | selection, output panels, a text field | the same, robot read from the selection | the credential is about the robot that was checked; the anchor shown is on-chain |
| `ui/js/registry/mint-register.js`, `ui/js/ui/mint-register-ui.js`, `scripts/registerRobot.js` | steps shown, one output | mint, sign challenge, register | one robot per key, each attempt with its own token, steps and result true |
| `ui/js/app.js`, `ui/js/ui/robots-browser.js`, `robot-lifecycle.js`, `controllers.js`, `did-queries.js` | list, cards, selected robot, filter, DID field | load, hide, filter, select; suspend, reinstate, revoke, transfer, rotate, change controllers, show | the selection stays within the list; an operation acts on the robot it was started for |
| `ui/js/registry/issuer-admin.js`, `nft-admin.js`, `connections.js`, `ui/js/ui/matrices.js` | the wallet's signer | register, revoke issuers, grant types in a loop, administrators, minters; role matrix | what a handler did stands until somebody undoes it; reports agree with the chain |
| encodings (`lib/didUzheth.js`, `ui/js/core/did.js`), presentation, ABI tables, deployment, tests | none | pure, or single transactions | not modelled (section 6) |

How they interact.  The contracts call each other synchronously (the registry asks the NFT
for the owner and the issuer registry for trust; the NFT calls the receiver of a token); a
transaction is atomic, a reverted one undoes everything, and several share one timestamp.
Programs read the contracts over RPC, one awaited call at a time; anything may be mined
between two reads and any call may fail.  Two programs share nothing but the chain.  Inside the browser, handlers share the selected
robot, the input fields and the output panels across awaits; JavaScript runs one of them at
a time, from one await to the next.

What is hard: boundaries of whole seconds in which several operations happen; data kept
twice (flags and histories, list and mapping) that must stay together over long sequences
of calls; authority that moves with the token while delegations stay; verdicts made of reads
of different blocks; the race for the last use of a credential; sequences of transactions
that fail half way; control handed to a receiver before a mint has finished; globals of a
page that are read, awaited over and read again.  `PROJECT.json` lists these hazards by line.

## 2. Modules

| Module | Models | Uses |
|---|---|---|
| `DIDTimeline` | abstract: the life of DIDs, second by second | |
| `RobotDIDRegistry` | the registry contract, with the NFT's ownership and the issuers' trust as it sees them | `DIDTimeline` (refinement) |
| `RobotDIDRegistry_proofs` | theorems about its histories and the controllers it shows | `RobotDIDRegistry` |
| `RegistryRecords_proofs` | theorems about its credentials, keys and revocation; its two refinements | `RobotDIDRegistry_proofs`, `RegistryFacts` |
| `CredentialFacts` | abstract: what the contracts answer about one credential, and how that may change | |
| `RegistryFacts` | the registry implements `CredentialFacts` | `RobotDIDRegistry` |
| `VerifierSession` | verification and consumption by the CLI and the browser, over `CredentialFacts` | `CredentialFacts` |
| `VerifierSession_proofs` | theorems about verdicts and uses | `VerifierSession` |
| `VerifiedRegistry` | the contract and the programs that verify a credential against it, composed | `RegistryFacts`, `VerifierSession` (refinement) |
| `VerifiedRegistry_proofs` | theorems about contract and programs together | `VerifiedRegistry`, `RegistryRecords_proofs`, `VerifierSession_proofs` |
| `AccessControl` | OpenZeppelin's roles, as both contracts inherit them (external) | |
| `CredentialIssuerRegistry` | the issuer registry | `AccessControl` |
| `RobotIdentityNFT` | the robots' tokens, minted with a callback | `AccessControl` |
| `PlatformAdmin` | the page's and scripts' administration of both contracts | `CredentialIssuerRegistry`, `RobotIdentityNFT` |
| `PlatformAdmin_proofs` | theorems about mints, and about what administration leaves behind | `PlatformAdmin` |
| `RobotsBrowser` | the list of robots, its cards, filter and selection: the page's globals | |
| `AdminConsole` | the page's handlers for the selected robot, await by await | `RobotsBrowser` |
| `AdminConsole_proofs` | theorems about selection, operations and the list after a revocation | `AdminConsole` |
| `CredentialSchema` | the fields each type requires, and those each way of issuing writes | |
| `CredentialPolicy` | issuance models, which types allow them, how they are detected | `CredentialSchema` |
| `CredentialIssuing` | issuing and anchoring by page and command line | `CredentialPolicy` |
| `CredentialIssuing_proofs` | theorems about issuing | `CredentialIssuing` |
| `MintRegister` | mint and register: two transactions, the steps and the output of the page | |
| `MintRegister_proofs` | theorems about mint and register | `MintRegister` |
| `MC...` | instances for TLC | |

**RobotDIDRegistry.**  A DID is identified with its token.  `records`, `keyHistoryByDid`,
`suspensionHistoryByDid`, `activeDIDByTokenId`, `usedRobotKeyAddresses`, `controllerList`,
`controllerPermissions`, `revokedCredentialHashes`, `credentialAnchors` and
`consumptionRecords` are the contract's storage; the flags of a record are the sets `exists`,
`active` and `suspended`; `nftOwner` and `trustedIssuer` are what the other two contracts
answer; `now` is `block.timestamp`, which never goes back and may stay the same over any
number of transactions (`NextBlock` is the only action that advances it).  Each external
function that changes state is one action, its `require`s the guards in their order of
effect, helpers such as `_closeOpenSuspensionInterval` operators of the same name.  A
reverted transaction changes nothing and is no step.  Strings, public keys and signatures
are members of small sets; a register challenge is modelled by the key that signed it.
`MintRobot`, `TransferRobot` and `ChangeTrust` are the environment.  The views a verifier
uses (`IsIssuanceAllowedAt`, `IsRobotKeyAuthorizedAt`, `GetControllers`, ...) are operators
that evaluate the lists as the contract does.

**DIDTimeline** says what the lists are for: of each elapsed second it remembers whether
the DID ended it suspended, and which keys were current during it.  The refinement maps
the contract's views to these sets, so that it holds only if the interval arithmetic (one
end of a suspension exclusive, both ends of a key entry inclusive) is right.

**CredentialFacts** is the assumption verifiers may make: a second that is over is judged
once, an anchor is written once, uses are never returned, revocations are final; controller
and issuer authority come and go.  **RegistryFacts** shows that the registry keeps it.

**VerifierSession.**  A session's `todo` is what its program has still to ask, in code
order: `CliReads` and `UiReads`.  Each read is an action that takes the current answer, the
two calls of `Promise.all` are answered in either order, `Fail` is a rejected call that
ends the program.  Everything the file alone decides (structure, schema, hash, signature,
expiry) is a boolean of `paper`; a check that fails is part of `ok` from the start, as the
code evaluates all of them before it decides.  The CLI reads the consumption status once for
its verdict and again for its report; both readings are kept apart.  The page's *Verify and
consume* and *Revoke credential* go on after the verdict with their own transaction and reads.
Where the browser meets a malformed issuer DID later than a malformed subject, the model ends
it at once: it is not accepted either way.

**VerifiedRegistry** puts the two together.  Its variables are the contract's storage and the
sessions.  Anybody may call the contract at any time (`RegistryActs`, whole actions of
`RobotDIDRegistry`); a program reads the contract's views (`ProgramActs`), and its own two
transactions are the contract's `ConsumeCredential` and `RevokeCredential`, not their
abstractions (`ConsumesOnChain`, `RevokesOnChain`).  `Sessions` is the instance of
`VerifierSession` in which each fact is what the contract answers; of a robot's own
credential nobody asks for delegation or trust, which are masked there.

**AccessControl**, **CredentialIssuerRegistry** and **RobotIdentityNFT.**  Roles are pairs of
role and account; only administrators give and take them and anybody renounces their own.  An
issuer's `active` flag and its roles are kept apart as in the contract.  Minting is three
actions, because `_safeMint` gives control to the receiver before the metadata is written:
`MintRobot` pushes the call with the state to fall back to, then anything may happen that
roles allow, another mint included, and `FinishMint` or `RevertMint` pops it.  What a profile
says and when it was written is left out, and a robot's metadata is never empty (`NoURI`
stands for metadata not written yet).

**PlatformAdmin.**  `task[t]` is one click on a button of issuer, administrator or minter
administration, one row of the role matrix, or one run of the script that does the same,
awaiting one answer after another.  The signer is whatever account the wallet is set to when it is
connected.  A grant of several types is a loop of transactions, `mined` of which
are on-chain and `listed` of which the report knows.  `overridden` and `registered` are
history variables: which of a task's effects somebody undid, and who was registered as an
issuer meanwhile.  Other programs take roles and mint (`TakenFromIssuer`, `NftRoleChanged`,
`RobotsMove`), also inside a mint's callback, during which no task's transaction can be mined
(`Settled`).

**RobotsBrowser** and **AdminConsole.**  The variables are the page's globals, named after
them; a robot has at most one DID, so a DID is named by its robot.  `task[c]` is one run of a
handler: what it awaits (`at`), the robot its transaction is about (`sent`), whose record it
reads (`record`), whom it names (`said`) and the list it has read.  An action is what a
handler does from one await to the next, with every global it reads in between read *then*:
`Click`, `Submit` and the receipts read the selection anew, as the code does.  `clicked` is a
history variable: the robot selected at the click, forgotten as soon as anything but the
handler itself touches the selection or the DID field.  Another client may change DIDs at any
time.  Who owns or may operate a robot is left open: a check or a transaction passes or fails.
The timeline reads the selection twice, its token first and its DID between two later queries.  `listRobots` is one action, although its calls for different robots may be answered
from different blocks.

**CredentialPolicy** and **CredentialIssuing.**  A credential is its type, issuer and
subject; what it says is left to `CredentialSchema`.  `task[c]` is one invocation of an issuing
handler of the page or of a program, with the robot it asked the contracts about (`checked`)
and the credential it built (`vc`).  `SubjectOf` is where page and programs differ: the page
reads the selection again unless it signs with the robot's key.  What the contracts answer is
the environment's choice: a check passes, or `Fail` ends the invocation.  A hash is anchored
once.  `panel`, `credentialText` and `file` are the places where the result is shown or kept,
each shared by all.  The user empties the text field or pastes a credential into it at any time
(`EditText`): one issued here, or one of somebody else (`Foreign`).  `appendAnchorResultToOutput`
pairs a receipt with whatever the field holds by then; `replaced` is a history variable, the
handlers during whose wait for the anchor the field was written.

**CredentialSchema.**  The fields that `lib/credentialPolicies.js` and `ui/js/core/config.js`
require of each type, and the fields each of the six ways of issuing puts into the subject.
It has no behaviour: `SchemaSatisfied` compares the two for every type and model.

**MintRegister.**  `flow[f]` is one click on *Mint NFT + Register DID*; `steps` and `output`
are the one checklist and the one message all clicks write.  `MintRobot`, `RegisterDID` and
`Transfer` are the contracts' operations as far as the flow meets them, used by the clicks
and by anybody else (`Elsewhere`).  Each check before the registration is an action with its
answer as guard; a check that does not pass, a refused or reverted transaction or a lost
answer is `Fail`, which marks the first step that is active, of whichever click.  `displayed`
is a history variable: the click that alone wrote the checklist since it was reset.

## 3. Runs

| Run | What it asks | Instance |
|---|---|---|
| `registry_lifecycle` | histories, flags, unique keys, stability of past answers, `DIDTimeline` | 2 robots, 3 keys, 3 timestamps, 2 suspensions each |
| `registry_credentials` | anchors, limits, finality of revocation and publication; list of controllers against the permission map, around transfers | 1 robot, 2 accounts, 1 key, one hash and the zero hash, lists of 2 |
| `verified_registry` | the registry implements `CredentialFacts`; registry and programs together implement `VerifierSession` | 1 robot, 1 key, an owner who is a trusted issuer, 2 timestamps, credential of the first, 1 session |
| `verifier_verdict` | verdicts made of reads of different blocks; CLI against browser; a session ends unless wallet or receipt keeps it waiting | 1 session, 7 kinds of credential, everything moves |
| `verifier_consumption` | races for the last use, limits that appear meanwhile, what a refusal is worth | 2 sessions of either program and other consumers |
| `admin_console` | selection, list and handlers of the page against each other | 2 robots, 2 handlers: any button, and Show or Revoke |
| `credential_issuing` | subjects, detection of the issuance model, anchors shown | 2 robots, 3 invocations of page and programs, 2 types |
| `mint_register` | overlapping clicks with the same or other wallets, failures anywhere | 2 clicks, 2 keys, 2 accounts, 2 tokens |
| `platform_admin` | what handlers of issuer, administrator and minter administration did, found and report, against each other, other programs and mints under way | 2 handlers, 2 accounts, 2 tokens |
| `suspension_boundary` | violation: refusal while suspended need not last | 1 robot |
| `verifier_exit_code` | violation: INVALID after a counted use | 1 session |
| `issuing_permission` | violation: credential for a robot whose permission was not asked | 2 robots, 1 handler of the page |

Bounds.  `MaxTime` timestamps are enough for one second before, at and after each end of an
interval, with any number of operations in each; two suspensions give touching, equal and
separate intervals; three keys allow a rotation by each of two robots and a conflict.  Two
accounts are owner and somebody else, and exchange roles by transfer.  `MaxControllers` bounds the
length of the controller list, which the code does not.  One session is enough for a verdict, since
sessions do not read each other (in `verified_registry`, where every state of the session
meets every state of the contract, two timestamps and one account must do; keys rotated and
robots transferred are left to the contract's own runs); two sessions and anonymous consumers meet at a limit of
one.  `Early` and `Moving` name the registry actions that may happen before and after the
first session begins; in `verifier_verdict` they are all of them.  Symmetry is used only
for sets whose members no definition distinguishes, and never with liveness.

On the page, two robots are the one selected at a click and another.  Two handlers meet in
every pair of awaits; the second is `show` or `revoke`, which between them write everything
the others read.  In `credential_issuing` a page handler, one of either kind and a program
meet, or a page handler and two programs; *OperationalLog* and *SafetyInspection* allow
between them all three models and one in common.  In `platform_admin` `MaxBusy` bounds the
tasks begun and the robots minted together (two handlers, or one and a mint, or a mint
inside a mint), `MaxElsewhere` the operations of other programs (one that undoes what a task
did, and one more), and a grant is of one type or of two, so that it may fail between them.
In `mint_register` two tokens are either both clicks' own or one of them another's; a third
would only add a bystander.

Deadlock is checked except where everything may have ended and nothing else may move: when all
sessions are over and the credential is used up (`verifier_consumption`,
`verifier_exit_code`) and when all tasks are done and the bound on other operations is reached
(`platform_admin`).  In the models of the page the user may always go on.

Fairness.  Only `SessionsEnd` needs any: weak fairness of each session's next answer,
conclusion or failure while it waits for nothing that may hang.  The JavaScript runtime
resumes a continuation once its promise settles, and a read over HTTP (every read of the CLI,
and of the page's verification) is answered, refused or times out.  Nothing bounds the wait
for a wallet's prompt, for a transaction to be mined or for `tx.wait()`, nor for a read
through the wallet's own provider, as the page makes after a use: there (`MayHang`) no fairness
is assumed, and `SessionsEnd` says that a session ends or stays at such a wait.  Nothing is
assumed of the registry or of other accounts.  The contract itself has no scheduler and no
liveness property.

What the violations show.  (1) A suspension that begins and ends in one timestamp covers no
second, and the second in which any suspension ends is not covered: a credential refused
while the DID was suspended may be accepted afterwards.  (2) The CLI may report INVALID for a
credential it found valid and whose use it has spent.  (3) The page may sign a
controller-delegated credential for a robot for which the controller's permission was never
asked, when another robot is selected while the contract is being asked.

Observed while reading and not modelled: `scripts/grantIssuerRole.js:12`,
`scripts/revokeIssuer.js:12` and `scripts/grantIssuerRegistryAdmin.js:12` lack a closing
parenthesis and `scripts/registerRobot.js` declares `robotNFTAddress` twice; they do not
parse.  The page shows the number of the receipt's block where it means the date of a
registration.  No button and no script takes an issuer's role; revoking the issuer leaves its
roles in place, and registering it again brings them back into force.

## 4. Proofs

Proved for any sets of robots, accounts, keys, hashes, sessions, tasks and any bounds that
satisfy the assumptions stated in the modules:

| Module | Theorem | Says |
|---|---|---|
| `RobotDIDRegistry_proofs` | `TypeCorrect` | `TypeOK` |
| | `FlagsAgree` | `LifecycleFlagsAgree` |
| | `KeysChainedAlways` | `KeyHistoryChained` |
| | `SuspensionsOrdered` | `SuspensionHistoryOrdered` |
| | `IssuanceFollowsFlag` | `IssuanceNowFollowsFlag` |
| | `PastIsStable` | `PastAnswersStable` |
| | `ControllersAlwaysShown` | `ControllersShownExactly` |
| `RegistryRecords_proofs` | `UsesNeverExceedLimit` | `UsesWithinLimit` |
| | `NothingUnpublished` | `PublishedStaysPublished` |
| | `AnchorsAlwaysWithinLifetime` | `AnchorsWithinLifetime` |
| | `RevocationIsFinal` | `RevocationFinal` |
| | `RobotKeysAlwaysUnique` | `RobotKeysUnique` |
| | `SignerAlwaysUnambiguous` | `SignerUnambiguous` |
| | `RegistryKeepsTimeline` | `ImplementsTimeline`: the registry implements `DIDTimeline` |
| | `RegistryKeepsFacts` | `ImplementsFacts`: the registry implements `CredentialFacts` |
| `VerifierSession_proofs` | `TypeCorrect` | `TypeOK`, and a running session has something left to ask |
| | `ValidMeansSo` | `ValidSinceTheBeginning` |
| | `VerdictsAgree` | `SteadyVerdict` |
| | `LimitNeverSkipped` | `SkippedOnlyWithoutPolicy` |
| | `RefusalStands` | `RefusedUseStaysRefused` |
| | `LimitReachedTruly` | `LimitReachedIsTrue` |
| | `UsesGranted` | `UsesGrantedWithinLimit` |
| `VerifiedRegistry_proofs` | `SystemKeepsSessions` | `ImplementsSessions`: contract and programs implement `VerifierSession` |
| | `ValidOnTheRegistry` | `ValidSinceTheBeginning`, of the contract's storage |
| | `UsesOnTheRegistry` | `UsesGrantedWithinLimit`, likewise |
| | `VerdictsOnTheRegistry` | `SteadyVerdict`, likewise |
| `PlatformAdmin_proofs` | `AdminTypes` | `TypeOK` |
| | `ReportsAlwaysStand` | `ReportsStand` |
| | `GrantsLoopInOrder` | `GrantLoop` |
| | `RowsAlwaysAgree` | `RowsAgree` |
| | `MintsAlwaysKeptApart` | `MintsKeptApart` |
| | `MintersStayRevoked` | `MinterRevoked` |
| `AdminConsole_proofs` | `SelectionStaysListed` | `SelectionListed` |
| | `ActionsFollowSelection` | `ActsOnSelection` |
| | `RevocationAlwaysShown` | `OwnRevocationShown` |
| `CredentialIssuing_proofs` | `IssuingTypes` | `TypeOK` |
| | `SubjectWasChecked` | `CheckedSubject` |
| | `AnchoredIsDetected` | `AnchoredDetected` |
| | `AnchorsAreShown` | `AnchorShown` |
| | `SchemaSatisfied` | whatever is issued has the fields its type requires |
| `MintRegister_proofs` | `MintTypes` | `TypeOK` |
| | `OneRobotPerKey` | `KeyServesOneRobot` |
| | `TokensAreOwn` | `OwnToken` |
| | `ResultIsTrue` | `ResultIsRegistered` |
| | `RunningAlwaysTrue` | `RunningIsTrue` |
| | `StepsAlwaysFollow` | `StepsFollowFlow` |

Every proof of an invariant follows one pattern: a strengthening that says of each actor, by
where it is in its code, what it knows, is shown to hold initially and to be preserved by each
action; the property follows from it.

The registry's histories.  `TypeOK` is inductive by itself.  The lifecycle invariants form one
induction: `FlagsConsistent` (record, index and clock) is needed to know that rotation, suspension and revocation act
on an open last entry, `KeyHistoryChained` and `SuspensionHistoryOrdered` that an earlier one
is closed.  A step is either quiet (it leaves records and histories alone), the next block, or
one of the six lifecycle operations, and each of these has an *effect lemma* that states,
once, what it does to the record and the two histories of its DID and that it touches no
other.  The three invariants are then preserved by looking at the effect alone:
at the end of a sequence an entry is appended, closed or both.  `LifecycleFlagsAgree`
adds to the flags what the histories say of them (`HistoriesAgree`: the open interval exactly
while suspended, the open key entry exactly until the revocation), for which one thing more is
inductive, that the last key entry of a revoked DID ends when it was revoked (`ClosedWhenRevoked`).
`IssuanceNowFollowsFlag` follows from the three: only the open interval can cover the present second.
`PastAnswersStable` rests on the fact that every lifecycle operation stamps with `now`, and
a change at `now` cannot be seen from an earlier second; it is proved from the invariants
for the answers on both sides of each step.

What `getControllers` shows.  Whoever holds a permission is in the list (`PermittedAreListed`:
adding enters both, updating asks for a permission, removal leaves the entry), and the loop
over the list collects exactly its entries with a permission (`CollectedExactly`).  The latter
is an induction over the length of the list.  The provers take no induction principle with a
predicate as its parameter, so `NatInductionSet` states it for a set, and follows from the
pigeonhole principle: were a number missing, adding one would map a finite set injectively
into a smaller one.

The registry's records.  Limits and publication need only that an anchor and its policy are
written together and once.  Revocation is final because every operation on a DID asks for it to
be active, and a token whose DID is revoked keeps that DID.  `RobotKeysUnique` needs that
every key a history names is marked as used (`NamedAreUsed`), is named once (`NamedOnce`) and
belongs to the DID's own record.  `SignerUnambiguous` is the pair `EntriesApart` (two
entries share at most the second in which one was closed and the other opened) and
`EntriesCover` (every second since registration lies in some entry).

The refinements.  For `DIDTimeline` the seconds that block issuance and those in which a key
signs are computed from the histories; the effect lemmas say how the last second changes
and the stability of the past that no other does, so each operation is the abstract one
of its DID and leaves what is told of every other alone.  For `CredentialFacts` each kind of
step is an abstract action or a stutter for the one credential asked about; that
an answer about its second stays is again the stability of the past.

Verification.  `Plan` says what each program's `todo` may contain and in which order, which
holds of all its remainders.  `Later` says that the registry moves one way only: what is
withdrawn stays so.  `Sound` says of a running session that whatever stood against the
credential at its beginning still stands and is still to be asked, or was found, and that the
notes it took of the consumption record agree with the registry as far as they may.
At the verdict nothing is left to ask, so VALID means that nothing stood against it.  For
`SteadyVerdict` the same is said in both directions while nothing has moved.
`UsesGrantedWithinLimit` counts: the sessions that were granted a use are a finite set no
larger than the uses counted on-chain.

Contract and programs.  `SystemKeepsSessions` takes each step of the composition: the
contract's invariants make every call of it one of the abstract moves or none
(`EveryStepMoves`), which the mask leaves so (`AnswersMove`), the consumption of this very
credential is the abstract use and its revocation the abstract one (`ConsumptionIsUse`,
`RevocationIsWithdrawal`), and reads leave the contract alone.  `Verdicts` is the same
instance of `VerifierSession_proofs`, whose theorems need no fairness (they are about
`SafeSpec`) and so hold of every behaviour of the composition once the assumptions about its
constants are discharged.

Administration.  `AdminInv` says of each task's record what is known of it (its counters, its
effects, its answers), argued for one record and one change of the contracts at a time;
effects not overridden hold on-chain.  While a mint is under way, the roles that hold are the
present ones or, should it be refused, the saved ones, so the statement is kept for each
state to fall back to as well.  `MintsKeptApart` likewise: `Kept` is stated of the present
state and of every saved one, each with the calls that were under way then.

The page's selection.  `SelectionListed` needs one thing more, `SelectionIsEntry`: the
selection is a pair of robot and DID and nothing else, since the revoke handler copies it
with the DID cleared.  List, cards and selection are replaced at once or not at all.
`ActsOnSelection` needs that lists name each robot's own DID and that an invocation that still
remembers its click finds that robot selected.  `OwnRevocationShown` needs that a DID never
comes back from revocation: from its receipt on, a revoke handler is about a DID that is gone,
and a list read later shows it so, however late it is rendered.

Issuing.  `IssuingInv` says of each invocation, by where it is (`Sound`): before the
check it has no credential, at the anchor it has one to send; and a credential is about the
robot that was checked if the selection was steady, the model is self-signed or it
was made on the command line.  For the page that needs the selection to be the robot checked
as long as the invocation is steady, which every action but a selection preserves, and a
selection ends the steadiness of all that are under way.  For `AnchoredDetected` every
credential made, wherever it is kept by then, is of a type that allows its model, and issuer
and subject are related as the model says.  For `AnchorShown` a handler that awaits its anchor finds its own
credential in the text field unless it is among the `replaced`, which every writer of the field
enters it in; so the receipt is paired with it.

Mint and register.  `MintInv` says of each click, by where it is (`Sound`): it has a key from
the beginning, a token from the mint on, and from the registration on the token's DID has
that key; its token is older than the next one.  Keys of DIDs are used keys.  The chain only
grows (`ChainGrows`), so a sound click stays sound whatever others do (`SoundLater`); a token
just minted is the next one and so no other's; a key just registered was unused and so is no
other robot's.  `RunningIsTrue` needs that the click that set the output is under way
(`SomeoneRuns`), `StepsFollowFlow` that the checklist of the displayed click is the one its
position calls for (`StepsInv`).

## 5. Only model-checked

`SessionsEnd`: liveness under fairness is out of the provers' reach.  The three violations are
counterexamples on small instances.  All other properties of the runs are theorems.  For
`CredentialIssuing`, `AdminConsole`, `PlatformAdmin` and `VerifierSession`, `TypeOK` is a
theorem only, or part of the invariant the theorems rest on.

## 6. Not modelled

- DID and credential encoding (`lib/didUzheth.js`, `ui/js/core/did.js`, hashing and signing,
  timestamps as text): conversions without state.  Their results are model values, equal when
  the code would call them equal.
- Presentation (`ui/js/ui/panelRender.js`, `display.js`, the page and its styles): how results
  look.  What is shown after which read is part of the handlers' models; how it is
  formatted is not.
- ABI tables, clients, deployment and the scripts around a single transaction, whose effect is
  the contract's action.  Two contracts are deployed at a time and never replaced.
- Issuers' profiles and dates, and templates of credentials beyond their fields: no decision
  reads them.
- The receiver's callback inside the DID registry's own model: there, a token that exists is
  one whose mint is done or under way, as `ownerOf` shows it; the registry asks for nothing else.
- The revoke handler's list, which the page renders without keeping it
  (`ui/js/app.js:437`): a page without a subscription shows lists of any age, and no
  text says how old they may be.

Worth adding should the code change: a bound on the controller list, which the code lacks.
