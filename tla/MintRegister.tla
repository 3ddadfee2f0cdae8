----------------------------- MODULE MintRegister -----------------------------
(* "Mint NFT + Register DID" (ui/js/registry/mint-register.js): one click mints *)
(* a robot token, lets the robot's key sign a challenge and registers the DID.  *)
(* The list of steps (ui/js/ui/mint-register-ui.js) and the output below it are *)
(* shared by all the clicks that are under way.  An action is what one of them  *)
(* does between two awaits.                                                     *)
(*                                                                              *)
(* A token stands for its DID.  The fields of accounts and of the DID are left  *)
(* out: each is written and read within one action.                             *)
EXTENDS Naturals, FiniteSets

CONSTANTS
  Account, NoAccount,
  Key, NoKey,          \* robot keys
  Flow, NoFlow,        \* clicks
  MaxToken             \* tokens minted: a bound of the model

ASSUME MintAssumption ==
  /\ NoAccount \notin Account /\ NoKey \notin Key /\ NoFlow \notin Flow
  /\ MaxToken \in Nat

Token == 1..MaxToken
NoToken == 0

(* MINT_REGISTER_STEPS, in the order shown.                                     *)
connectOwner == 1
mintNft == 2
challengeBuild == 3
challengeSign == 4
challengeVerify == 5
registerDid == 6

Step == connectOwner..registerDid

VARIABLES
  nextTokenId,     \* of RobotIdentityNFT
  owner,           \* ownerOf a token
  didKey,          \* the key a token's DID was registered with
  usedRobotKeys,   \* of RobotDIDRegistry
  connected,       \* the account the wallet extension offers
  wallet,          \* the key in the field generatedRobotPrivateKey
  steps,           \* mintRegisterStepState
  output,          \* robotRegistrationOutput
  flow,            \* the clicks
  displayed        \* history: the click that alone wrote the steps, if there is one

chain == <<nextTokenId, owner, didKey, usedRobotKeys>>
user == <<connected, wallet>>
vars == <<chain, user, steps, output, flow, displayed>>

AllPending == [s \in Step |-> "pending"]

Message(kind) == [kind |-> kind, token |-> NoToken, key |-> NoKey]

(* at: what the click awaits.  token: the one it has minted, from the moment it *)
(* is mined.                                                                    *)
Click ==
  [at : {"idle", "account", "mint", "mintReceipt", "owner", "activeDid", "unusedKey",
         "signature", "onChainDid", "register", "registerReceipt", "record", "list",
         "done", "failed"},
   key : Key \cup {NoKey}, account : Account \cup {NoAccount}, token : Token \cup {NoToken}]

Init ==
  /\ nextTokenId = 1
  /\ owner = [t \in Token |-> NoAccount]
  /\ didKey = [t \in Token |-> NoKey]
  /\ usedRobotKeys = {}
  /\ connected \in Account
  /\ wallet = NoKey
  /\ steps = AllPending
  /\ output = Message("initial")
  /\ flow = [f \in Flow |-> [at |-> "idle", key |-> NoKey, account |-> NoAccount,
                             token |-> NoToken]]
  /\ displayed = NoFlow

UnderWay(f) == flow[f].at \notin {"idle", "done", "failed"}

------------------------------------------------------------------------------
(* The contracts, from whatever program.                                        *)
MintRobot(to) ==
  /\ nextTokenId \in Token
  /\ owner' = [owner EXCEPT ![nextTokenId] = to]
  /\ nextTokenId' = nextTokenId + 1
  /\ UNCHANGED <<didKey, usedRobotKeys>>

(* A slip: nobody asks whether the key serves another robot.                    *)
RegisterDIDWithAnyKey(sender, t, k) ==
  /\ owner[t] = sender
  /\ didKey[t] = NoKey
  /\ didKey' = [didKey EXCEPT ![t] = k]
  /\ usedRobotKeys' = usedRobotKeys \cup {k}
  /\ UNCHANGED <<nextTokenId, owner>>

RegisterDID(sender, t, k) ==
  /\ k \notin usedRobotKeys
  /\ owner[t] = sender
  /\ didKey[t] = NoKey
  /\ didKey' = [didKey EXCEPT ![t] = k]
  /\ usedRobotKeys' = usedRobotKeys \cup {k}
  /\ UNCHANGED <<nextTokenId, owner>>

Transfer(t, to) ==
  /\ owner[t] \in Account \ {to}
  /\ owner' = [owner EXCEPT ![t] = to]
  /\ UNCHANGED <<nextTokenId, didKey, usedRobotKeys>>

Elsewhere ==
  /\ \/ \E to \in Account : MintRobot(to)
     \/ \E t \in Token, k \in Key, a \in Account : RegisterDID(a, t, k)
     \/ \E t \in Token, to \in Account : Transfer(t, to)
  /\ UNCHANGED <<user, steps, output, flow, displayed>>

------------------------------------------------------------------------------
(* The user.                                                                    *)
SwitchAccount(a) ==
  /\ a # connected
  /\ connected' = a
  /\ UNCHANGED <<chain, wallet, steps, output, flow, displayed>>

(* Generated, typed or deleted.                                                 *)
EnterRobotWallet(k) ==
  /\ k # wallet
  /\ wallet' = k
  /\ UNCHANGED <<chain, connected, steps, output, flow, displayed>>

ClearProgress ==
  /\ steps' = AllPending
  /\ output' = Message("initial")
  /\ displayed' = NoFlow
  /\ UNCHANGED <<chain, user, flow>>

------------------------------------------------------------------------------
(* A slip: the steps of the click before stay.                                  *)
BeginWithoutReset(f) ==
  /\ flow[f].at = "idle" /\ wallet # NoKey
  /\ displayed' = IF \E g \in Flow : UnderWay(g) THEN NoFlow ELSE f
  /\ steps' = [steps EXCEPT ![connectOwner] = "active"]
  /\ output' = Message("running")
  /\ flow' = [flow EXCEPT ![f] = [@ EXCEPT !.at = "account", !.key = wallet]]
  /\ UNCHANGED <<chain, user>>

(* A click.  Without a robot wallet, or with one that does not match the fields *)
(* next to it, it fails at once, at no step.                                    *)
Begin(f) ==
  /\ flow[f].at = "idle"
  /\ displayed' = IF \E g \in Flow : UnderWay(g) THEN NoFlow ELSE f
  /\ \/ /\ steps' = AllPending
        /\ output' = Message("invalid")
        /\ flow' = [flow EXCEPT ![f] = [@ EXCEPT !.at = "failed"]]
     \/ /\ wallet # NoKey
        /\ steps' = [AllPending EXCEPT ![connectOwner] = "active"]
        /\ output' = Message("running")
        /\ flow' = [flow EXCEPT ![f] = [@ EXCEPT !.at = "account", !.key = wallet]]
  /\ UNCHANGED <<chain, user>>

(* A click goes on: from one awaited answer to the next, and the steps shown.   *)
GoesOn(f, from, to) ==
  /\ flow[f].at = from
  /\ flow' = [flow EXCEPT ![f] = [@ EXCEPT !.at = to]]
  /\ UNCHANGED <<user, displayed>>

Shows(done, active) ==
  /\ steps' = [s \in Step |-> IF s \in done THEN "done"
                              ELSE IF s = active THEN "active" ELSE steps[s]]
  /\ UNCHANGED output

Unshown == UNCHANGED <<steps, output>>

(* The account that is connected by now becomes owner and sender; who mints is  *)
(* asked for MINTER_ROLE, and not being a minter is a failure.                  *)
ConnectOwner(f) ==
  /\ flow[f].at = "account"
  /\ flow' = [flow EXCEPT ![f] = [@ EXCEPT !.at = "mint", !.account = connected]]
  /\ Shows({connectOwner}, mintNft)
  /\ UNCHANGED <<chain, user, displayed>>

MineMint(f) ==
  /\ flow[f].at = "mint"
  /\ MintRobot(flow[f].account)
  /\ flow' = [flow EXCEPT ![f] = [@ EXCEPT !.at = "mintReceipt", !.token = nextTokenId]]
  /\ UNCHANGED <<user, steps, output, displayed>>

(* A slip: the latest token is taken for the one minted.                        *)
MintReceiptLatest(f) ==
  /\ flow[f].at = "mintReceipt"
  /\ flow' = [flow EXCEPT ![f] = [@ EXCEPT !.at = "owner", !.token = nextTokenId - 1]]
  /\ Shows({mintNft}, NoToken)
  /\ UNCHANGED <<chain, user, displayed>>

(* parseRobotTokenId finds the token in the receipt of the click's own          *)
(* transaction.  It is the only one there: the robot is minted to the wallet's  *)
(* account, which has no code that could mint another in its callback.          *)
MintReceipt(f) ==
  /\ GoesOn(f, "mintReceipt", "owner")
  /\ Shows({mintNft}, NoToken)
  /\ UNCHANGED chain

(* The checks before the challenge.  One that does not pass is a failure.       *)
CheckOwner(f) ==
  /\ GoesOn(f, "owner", "activeDid")
  /\ owner[flow[f].token] = flow[f].account
  /\ Unshown /\ UNCHANGED chain

CheckActiveDid(f) ==
  /\ GoesOn(f, "activeDid", "unusedKey")
  /\ didKey[flow[f].token] = NoKey
  /\ Unshown /\ UNCHANGED chain

BuildChallenge(f) ==
  /\ GoesOn(f, "unusedKey", "signature")
  /\ flow[f].key \notin usedRobotKeys
  /\ Shows({challengeBuild}, challengeSign)
  /\ UNCHANGED chain

SignChallenge(f) ==
  /\ GoesOn(f, "signature", "onChainDid")
  /\ Shows({challengeSign}, challengeVerify)
  /\ UNCHANGED chain

(* The DID of a token never changes, so the signature fits.                     *)
VerifyChallenge(f) ==
  /\ GoesOn(f, "onChainDid", "register")
  /\ Shows({challengeVerify}, registerDid)
  /\ UNCHANGED chain

MineRegister(f) ==
  /\ GoesOn(f, "register", "registerReceipt")
  /\ RegisterDID(flow[f].account, flow[f].token, flow[f].key)
  /\ Unshown

RegisterReceipt(f) ==
  /\ GoesOn(f, "registerReceipt", "record")
  /\ Shows({registerDid}, NoToken)
  /\ UNCHANGED chain

(* Two slips: the wallet is read again; the key is left out.                    *)
ShowResultOfWallet(f) ==
  /\ GoesOn(f, "record", "list")
  /\ output' = [kind |-> "registered", token |-> flow[f].token, key |-> wallet]
  /\ UNCHANGED <<chain, steps>>

ShowResultWithoutKey(f) ==
  /\ GoesOn(f, "record", "list")
  /\ output' = [kind |-> "registered", token |-> flow[f].token]
  /\ UNCHANGED <<chain, steps>>

(* The record has been read: the result is shown, and the robots are loaded.    *)
ShowResult(f) ==
  /\ GoesOn(f, "record", "list")
  /\ output' = [kind |-> "registered", token |-> flow[f].token, key |-> flow[f].key]
  /\ UNCHANGED <<chain, steps>>

Finish(f) ==
  /\ GoesOn(f, "list", "done")
  /\ Unshown /\ UNCHANGED chain

(* markMintRegisterStepError: the first active step, of whichever click.        *)
MarkError ==
  [s \in Step |-> IF steps[s] = "active" /\ \A e \in Step : steps[e] = "active" => s <= e
                    THEN "error" ELSE steps[s]]

(* A slip: the message is left as it is.                                        *)
FailSilently(f) ==
  /\ UnderWay(f)
  /\ flow' = [flow EXCEPT ![f] = [@ EXCEPT !.at = "failed"]]
  /\ steps' = MarkError
  /\ UNCHANGED <<chain, user, output, displayed>>

(* A check does not pass, a transaction is refused or reverts, a call fails.    *)
Fail(f) ==
  /\ UnderWay(f)
  /\ flow' = [flow EXCEPT ![f] = [@ EXCEPT !.at = "failed"]]
  /\ steps' = MarkError
  /\ output' = Message("invalid")
  /\ UNCHANGED <<chain, user, displayed>>

Continue(f) ==
  \/ ConnectOwner(f) \/ MineMint(f) \/ MintReceipt(f)
  \/ CheckOwner(f) \/ CheckActiveDid(f) \/ BuildChallenge(f)
  \/ SignChallenge(f) \/ VerifyChallenge(f)
  \/ MineRegister(f) \/ RegisterReceipt(f) \/ ShowResult(f) \/ Finish(f)
  \/ Fail(f)

Next ==
  \/ Elsewhere
  \/ \E a \in Account : SwitchAccount(a)
  \/ \E k \in Key \cup {NoKey} : EnterRobotWallet(k)
  \/ ClearProgress
  \/ \E f \in Flow : Begin(f) \/ Continue(f)

Spec == Init /\ [][Next]_vars

------------------------------------------------------------------------------
(* Types.                                                                       *)
TypeOK ==
  /\ nextTokenId \in 1..(MaxToken + 1)
  /\ owner \in [Token -> Account \cup {NoAccount}]
  /\ didKey \in [Token -> Key \cup {NoKey}]
  /\ usedRobotKeys \subseteq Key
  /\ connected \in Account
  /\ wallet \in Key \cup {NoKey}
  /\ steps \in [Step -> {"pending", "active", "done", "error"}]
  /\ output \in [kind : {"initial", "running", "invalid", "registered"},
                 token : Token \cup {NoToken}, key : Key \cup {NoKey}]
  /\ flow \in [Flow -> Click]
  /\ displayed \in Flow \cup {NoFlow}

(* Clicks that overlap, all with the same robot wallet perhaps, register at     *)
(* most one robot with a key, although each has asked isUsedRobotKey before the *)
(* other registered.                                                            *)
KeyServesOneRobot ==
  \A t, u \in Token : didKey[t] = didKey[u] /\ didKey[t] # NoKey => t = u

(* Each click works on the token it has minted: no other click has it, however  *)
(* the mints and their receipts interleave with those of others.                *)
OwnToken ==
  \A f, g \in Flow : flow[f].token = flow[g].token /\ flow[f].token # NoToken => f = g

(* What is shown as the result is so on-chain, also after other wallets have    *)
(* been entered, other clicks been made and the token been transferred.         *)
ResultIsRegistered ==
  output.kind = "registered" => output.token \in Token /\ didKey[output.token] = output.key

(* While one click alone writes the steps, they tell how far it has come: the   *)
(* steps done come first, minted and registered are on-chain, and only a        *)
(* failure leaves a mark, or nothing, where it happened.                        *)
StepsFollowFlow ==
  displayed # NoFlow =>
    LET f == flow[displayed] IN
    /\ \A s, e \in Step : steps[s] # "pending" /\ e < s => steps[e] = "done"
    /\ steps[mintNft] = "pending" => f.token = NoToken
    /\ steps[mintNft] = "done" => f.token # NoToken
    /\ steps[registerDid] = "done" => didKey[f.token] = f.key
    /\ UnderWay(displayed) => \A s \in Step : steps[s] # "error"
    /\ f.at = "failed" => \A s \in Step : steps[s] # "active"

(* "Running" is shown only while a click is under way, whatever the order in    *)
(* which several of them end.                                                   *)
RunningIsTrue == output.kind = "running" => \E f \in Flow : UnderWay(f)
==============================================================================
