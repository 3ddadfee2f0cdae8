-------------------------- MODULE MintRegister_proofs --------------------------
(* Theorems about mint and register, for any number of clicks, tokens, accounts *)
(* and keys.                                                                    *)
EXTENDS MintRegister, TLAPS

(* Where a click has its token, and where its DID is registered.                *)
Registered == {"registerReceipt", "record", "list", "done"}

Minted ==
  Registered \cup {"mintReceipt", "owner", "activeDid", "unusedKey", "signature",
                   "onChainDid", "register"}

(* A click r is sound in a chain whose DIDs have these keys and whose next      *)
(* token is next.                                                               *)
Sound(r, keys, next) ==
  /\ r.at \notin {"idle", "failed"} => r.key \in Key
  /\ r.at \in Minted => r.token # NoToken
  /\ r.at \in Registered => keys[r.token] = r.key
  /\ r.token < next

ChainTypes ==
  /\ nextTokenId \in 1..(MaxToken + 1)
  /\ owner \in [Token -> Account \cup {NoAccount}]
  /\ didKey \in [Token -> Key \cup {NoKey}]
  /\ usedRobotKeys \subseteq Key

KeysUsed == \A t \in Token : didKey[t] \in usedRobotKeys \cup {NoKey}

(* Clicks are sound and have their own tokens, and a result has a key.          *)
ClicksSound ==
  /\ flow \in [Flow -> Click]
  /\ \A f \in Flow : Sound(flow[f], didKey, nextTokenId)
  /\ OwnToken

ResultSound ==
  /\ ResultIsRegistered
  /\ output.kind = "registered" => output.key \in Key

(* The inductive invariant.                                                     *)
MintInv ==
  /\ ChainTypes /\ KeysUsed /\ KeyServesOneRobot
  /\ ClicksSound /\ ResultSound
  /\ connected \in Account /\ wallet \in Key \cup {NoKey}

(* The chain only grows: more tokens, and a DID keeps its key.                  *)
ChainGrows ==
  /\ nextTokenId <= nextTokenId'
  /\ \A t \in Token : didKey[t] # NoKey => didKey'[t] = didKey[t]

------------------------------------------------------------------------------
(* A sound click stays sound while the chain grows.                             *)
LEMMA SoundLater ==
  ASSUME NEW r \in Click, NEW keys, NEW keys2, NEW n \in Nat, NEW n2 \in Nat,
         n <= n2, \A t \in Token : keys[t] # NoKey => keys2[t] = keys[t],
         Sound(r, keys, n)
  PROVE  Sound(r, keys2, n2)
<1>1. r.token \in Token \cup {NoToken}
  BY DEF Click
<1>2. r.token < n2
  BY <1>1, MintAssumption DEF Sound, Token, NoToken
<1>3. ASSUME r.at \in Registered
      PROVE  keys2[r.token] = r.key
  <2>1. r.token \in Token /\ r.key \in Key
    BY <1>1, <1>3 DEF Sound, Minted, Registered
  <2> QED
    BY <2>1, <1>3, MintAssumption DEF Sound
<1> QED
  BY <1>2, <1>3 DEF Sound

(* What the three transactions do to the chain.                                 *)
LEMMA MintEffect ==
  ASSUME ChainTypes, KeysUsed, KeyServesOneRobot, NEW to \in Account \cup {NoAccount},
         MintRobot(to)
  PROVE  /\ ChainTypes' /\ KeysUsed' /\ KeyServesOneRobot' /\ ChainGrows
         /\ nextTokenId \in Token /\ nextTokenId' = nextTokenId + 1
<1>1. nextTokenId \in 1..MaxToken /\ nextTokenId' \in 1..(MaxToken + 1)
  BY MintAssumption DEF MintRobot, Token, ChainTypes
<1>2. owner' \in [Token -> Account \cup {NoAccount}]
  BY DEF MintRobot, ChainTypes
<1> QED
  BY <1>1, <1>2 DEF MintRobot, ChainTypes, KeysUsed, KeyServesOneRobot, ChainGrows, Token

LEMMA RegisterEffect ==
  ASSUME ChainTypes, KeysUsed, KeyServesOneRobot, NEW t \in Token, NEW k \in Key,
         NEW sender, RegisterDID(sender, t, k)
  PROVE  /\ ChainTypes' /\ KeysUsed' /\ KeyServesOneRobot' /\ ChainGrows
         /\ didKey'[t] = k /\ nextTokenId' = nextTokenId
<1>1. didKey' = [didKey EXCEPT ![t] = k] /\ usedRobotKeys' = usedRobotKeys \cup {k}
      /\ nextTokenId' = nextTokenId /\ owner' = owner
  BY DEF RegisterDID
<1>2. k \notin usedRobotKeys /\ k # NoKey /\ didKey[t] = NoKey
  BY MintAssumption DEF RegisterDID
<1>3. didKey' \in [Token -> Key \cup {NoKey}] /\ didKey'[t] = k
      /\ \A u \in Token \ {t} : didKey'[u] = didKey[u]
  BY <1>1 DEF ChainTypes
<1>4. ChainTypes' /\ KeysUsed'
  BY <1>1, <1>3 DEF ChainTypes, KeysUsed
<1>5. ChainGrows
  <2>1. nextTokenId <= nextTokenId'
    BY <1>1, MintAssumption DEF ChainTypes
  <2> QED
    BY <2>1, <1>2, <1>3 DEF ChainGrows
<1>6. \A u \in Token \ {t} : didKey'[u] # k
  BY <1>2, <1>3 DEF KeysUsed
<1>7. KeyServesOneRobot'
  BY <1>3, <1>6 DEF KeyServesOneRobot
<1> QED
  BY <1>1, <1>3, <1>4, <1>5, <1>7

LEMMA TransferEffect ==
  ASSUME ChainTypes, KeysUsed, KeyServesOneRobot, NEW t \in Token, NEW to \in Account,
         Transfer(t, to)
  PROVE  ChainTypes' /\ KeysUsed' /\ KeyServesOneRobot' /\ ChainGrows
  BY MintAssumption DEF Transfer, ChainTypes, KeysUsed, KeyServesOneRobot, ChainGrows

LEMMA ChainUnchanged ==
  ASSUME ChainTypes, KeysUsed, KeyServesOneRobot, UNCHANGED chain
  PROVE  ChainTypes' /\ KeysUsed' /\ KeyServesOneRobot' /\ ChainGrows
  BY MintAssumption DEF chain, ChainTypes, KeysUsed, KeyServesOneRobot, ChainGrows

(* One click goes on, soundly, with the token it had or the next one.           *)
LEMMA ClickStep ==
  ASSUME ChainTypes, ChainTypes', ChainGrows, ClicksSound, NEW f \in Flow,
         flow' = [flow EXCEPT ![f] = flow'[f]],
         flow'[f] \in Click, Sound(flow'[f], didKey', nextTokenId'),
         flow'[f].token \in {flow[f].token, nextTokenId}
  PROVE  ClicksSound'
<1>1. nextTokenId \in Nat /\ nextTokenId' \in Nat
  BY MintAssumption DEF ChainTypes
<1>2. flow' \in [Flow -> Click] /\ \A g \in Flow \ {f} : flow'[g] = flow[g]
  BY DEF ClicksSound
<1>3. ASSUME NEW g \in Flow \ {f}
      PROVE  Sound(flow'[g], didKey', nextTokenId')
  <2>1. flow[g] \in Click /\ Sound(flow[g], didKey, nextTokenId)
    BY DEF ClicksSound
  <2>2. Sound(flow[g], didKey', nextTokenId')
    BY <1>1, <2>1, SoundLater DEF ChainGrows
  <2> QED
    BY <1>2, <2>2
<1>4. \A g \in Flow \ {f} : flow[g].token # nextTokenId
  BY <1>1, MintAssumption DEF ClicksSound, Sound, Click, Token, NoToken
<1>5. OwnToken'
  BY <1>2, <1>4 DEF ClicksSound, OwnToken
<1> QED
  BY <1>2, <1>3, <1>5 DEF ClicksSound

LEMMA ClicksUnchanged ==
  ASSUME ChainTypes, ChainTypes', ChainGrows, ClicksSound, UNCHANGED flow
  PROVE  ClicksSound'
<1>1. nextTokenId \in Nat /\ nextTokenId' \in Nat
  BY MintAssumption DEF ChainTypes
<1>2. ASSUME NEW g \in Flow
      PROVE  Sound(flow'[g], didKey', nextTokenId')
  <2>1. flow[g] \in Click /\ Sound(flow[g], didKey, nextTokenId)
    BY DEF ClicksSound
  <2>2. Sound(flow[g], didKey', nextTokenId')
    BY <1>1, <2>1, SoundLater DEF ChainGrows
  <2> QED
    BY <2>2
<1> QED
  BY <1>2 DEF ClicksSound, OwnToken

(* What is shown stays true while the chain grows.                              *)
LEMMA ResultLater ==
  ASSUME ChainGrows, ResultSound, UNCHANGED output
  PROVE  ResultSound'
  BY MintAssumption DEF ChainGrows, ResultSound, ResultIsRegistered

LEMMA MessageSound ==
  ASSUME NEW kind \in {"initial", "running", "invalid"}, output' = Message(kind)
  PROVE  ResultSound'
  BY DEF Message, ResultSound, ResultIsRegistered

(* A click that only moves on keeps its key and its token.                      *)
LEMMA MovesOn ==
  ASSUME ClicksSound, NEW f \in Flow, NEW where \in {"failed", "owner", "activeDid",
           "unusedKey", "signature", "onChainDid", "register", "record", "list", "done"},
         UNCHANGED <<didKey, nextTokenId>>,
         flow' = [flow EXCEPT ![f] = [flow[f] EXCEPT !.at = where]],
         flow[f].at \notin {"idle", "failed"},
         where \in Minted => flow[f].at \in Minted,
         where \in Registered => flow[f].at \in Registered
  PROVE  /\ flow' = [flow EXCEPT ![f] = flow'[f]]
         /\ flow'[f] \in Click /\ Sound(flow'[f], didKey', nextTokenId')
         /\ flow'[f].token \in {flow[f].token, nextTokenId}
<1>1. flow[f] \in Click /\ Sound(flow[f], didKey, nextTokenId)
  BY DEF ClicksSound
<1>2. flow'[f] = [flow[f] EXCEPT !.at = where] /\ flow' = [flow EXCEPT ![f] = flow'[f]]
  BY DEF ClicksSound
<1>3. /\ flow'[f] \in Click /\ flow'[f].at = where
      /\ flow'[f].key = flow[f].key /\ flow'[f].token = flow[f].token
  BY <1>1, <1>2 DEF Click
<1>4. Sound(flow'[f], didKey', nextTokenId')
  BY <1>1, <1>3 DEF Sound
<1> QED
  BY <1>2, <1>3, <1>4

LEMMA GoesOnSound ==
  ASSUME MintInv, NEW f \in Flow, NEW from,
         NEW to \in {"owner", "activeDid", "unusedKey", "signature", "onChainDid", "register",
                     "record", "list", "done"},
         GoesOn(f, from, to), UNCHANGED chain,
         from \in Minted, to \in Registered => from \in Registered
  PROVE  /\ ChainTypes' /\ KeysUsed' /\ KeyServesOneRobot' /\ ChainGrows
         /\ ClicksSound' /\ UNCHANGED user
<1>1. ChainTypes' /\ KeysUsed' /\ KeyServesOneRobot' /\ ChainGrows
  BY ChainUnchanged DEF MintInv
<1>2. flow' = [flow EXCEPT ![f] = [flow[f] EXCEPT !.at = to]] /\ flow[f].at = from
  BY DEF GoesOn
<1>3. /\ flow' = [flow EXCEPT ![f] = flow'[f]]
      /\ flow'[f] \in Click /\ Sound(flow'[f], didKey', nextTokenId')
      /\ flow'[f].token \in {flow[f].token, nextTokenId}
  <2>1. UNCHANGED <<didKey, nextTokenId>> /\ flow[f].at \notin {"idle", "failed"}
    BY <1>2 DEF chain, Minted, Registered
  <2>2. ClicksSound
    BY DEF MintInv
  <2> QED
    BY <1>2, <2>1, <2>2, MovesOn
<1>4. ClicksSound'
  BY <1>1, <1>3, ClickStep DEF MintInv
<1> QED
  BY <1>1, <1>4 DEF GoesOn

(* The steps of a click that do more than move on.                              *)
LEMMA BeginKeepsInv ==
  ASSUME MintInv, NEW f \in Flow, Begin(f)
  PROVE  MintInv'
<1>1. ChainTypes' /\ KeysUsed' /\ KeyServesOneRobot' /\ ChainGrows /\ UNCHANGED <<didKey, nextTokenId>>
  BY ChainUnchanged DEF MintInv, Begin, chain
<1>2. flow[f] \in Click /\ Sound(flow[f], didKey, nextTokenId) /\ flow[f].at = "idle"
  BY DEF MintInv, ClicksSound, Begin
<1>3. CASE /\ flow' = [flow EXCEPT ![f] = [flow[f] EXCEPT !.at = "failed"]]
           /\ output' = Message("invalid")
  <2>1. /\ flow' = [flow EXCEPT ![f] = [flow[f] EXCEPT !.at = "failed"]]
        /\ output' = Message("invalid")
    BY <1>3
  <2>2. flow'[f] = [flow[f] EXCEPT !.at = "failed"] /\ flow' = [flow EXCEPT ![f] = flow'[f]]
    BY <2>1 DEF MintInv, ClicksSound
  <2>3. /\ flow'[f] \in Click /\ flow'[f].at = "failed" /\ flow'[f].token = flow[f].token
    BY <1>2, <2>2 DEF Click
  <2>4. Sound(flow'[f], didKey', nextTokenId')
    BY <1>1, <1>2, <2>3 DEF Sound, Minted, Registered
  <2>5. ClicksSound' /\ ResultSound'
    BY <1>1, <2>1, <2>2, <2>3, <2>4, ClickStep, MessageSound DEF MintInv
  <2> QED
    BY <1>1, <2>5 DEF MintInv, Begin, user
<1>4. CASE /\ wallet # NoKey
           /\ flow' = [flow EXCEPT ![f] = [flow[f] EXCEPT !.at = "account", !.key = wallet]]
           /\ output' = Message("running")
  <2>1. /\ flow' = [flow EXCEPT ![f] = [flow[f] EXCEPT !.at = "account", !.key = wallet]]
        /\ output' = Message("running")
    BY <1>4
  <2>2. flow'[f] = [flow[f] EXCEPT !.at = "account", !.key = wallet]
        /\ flow' = [flow EXCEPT ![f] = flow'[f]]
    BY <2>1 DEF MintInv, ClicksSound
  <2>3. wallet \in Key
    BY <1>4 DEF MintInv
  <2>4. /\ flow'[f] \in Click /\ flow'[f].at = "account" /\ flow'[f].token = flow[f].token
        /\ flow'[f].key = wallet
    BY <1>2, <2>2, <2>3 DEF Click
  <2>5. Sound(flow'[f], didKey', nextTokenId')
    BY <1>1, <1>2, <2>3, <2>4 DEF Sound, Minted, Registered
  <2>6. ClicksSound' /\ ResultSound'
    BY <1>1, <2>1, <2>2, <2>4, <2>5, ClickStep, MessageSound DEF MintInv
  <2> QED
    BY <1>1, <2>6 DEF MintInv, Begin, user
<1> QED
  BY <1>3, <1>4 DEF Begin

LEMMA ConnectOwnerKeepsInv ==
  ASSUME MintInv, NEW f \in Flow, ConnectOwner(f)
  PROVE  MintInv'
<1>1. ChainTypes' /\ KeysUsed' /\ KeyServesOneRobot' /\ ChainGrows /\ UNCHANGED <<didKey, nextTokenId>>
  BY ChainUnchanged DEF MintInv, ConnectOwner, chain
<1>2. flow[f] \in Click /\ Sound(flow[f], didKey, nextTokenId) /\ flow[f].at = "account"
  BY DEF MintInv, ClicksSound, ConnectOwner
<1>3. flow'[f] = [flow[f] EXCEPT !.at = "mint", !.account = connected]
      /\ flow' = [flow EXCEPT ![f] = flow'[f]]
  BY DEF MintInv, ClicksSound, ConnectOwner
<1>4. /\ flow'[f] \in Click /\ flow'[f].at = "mint" /\ flow'[f].token = flow[f].token
      /\ flow'[f].key = flow[f].key
  BY <1>2, <1>3 DEF Click, MintInv
<1>5. Sound(flow'[f], didKey', nextTokenId')
  BY <1>1, <1>2, <1>4 DEF Sound, Minted, Registered
<1>6. ClicksSound' /\ ResultSound'
  BY <1>1, <1>3, <1>4, <1>5, ClickStep, ResultLater DEF MintInv, ConnectOwner, Shows
<1> QED
  BY <1>1, <1>6 DEF MintInv, ConnectOwner, user

LEMMA MineMintKeepsInv ==
  ASSUME MintInv, NEW f \in Flow, MineMint(f)
  PROVE  MintInv'
<1>1. flow[f] \in Click /\ Sound(flow[f], didKey, nextTokenId) /\ flow[f].at = "mint"
  BY DEF MintInv, ClicksSound, MineMint
<1>2. /\ ChainTypes' /\ KeysUsed' /\ KeyServesOneRobot' /\ ChainGrows
      /\ nextTokenId \in Token /\ nextTokenId' = nextTokenId + 1
  <2>1. flow[f].account \in Account \cup {NoAccount}
    BY <1>1 DEF Click
  <2> QED
    BY <2>1, MintEffect DEF MintInv, MineMint
<1>3. flow'[f] = [flow[f] EXCEPT !.at = "mintReceipt", !.token = nextTokenId]
      /\ flow' = [flow EXCEPT ![f] = flow'[f]]
  BY DEF MintInv, ClicksSound, MineMint
<1>4. /\ flow'[f] \in Click /\ flow'[f].at = "mintReceipt" /\ flow'[f].token = nextTokenId
      /\ flow'[f].key = flow[f].key
  BY <1>1, <1>2, <1>3 DEF Click
<1>5. Sound(flow'[f], didKey', nextTokenId')
  BY <1>1, <1>2, <1>4, MintAssumption DEF Sound, Minted, Registered, Token, NoToken
<1>6. ClicksSound' /\ ResultSound'
  BY <1>2, <1>3, <1>4, <1>5, ClickStep, ResultLater DEF MintInv, MineMint
<1> QED
  BY <1>2, <1>6 DEF MintInv, MineMint, user

LEMMA MineRegisterKeepsInv ==
  ASSUME MintInv, NEW f \in Flow, MineRegister(f)
  PROVE  MintInv'
<1>1. flow[f] \in Click /\ Sound(flow[f], didKey, nextTokenId) /\ flow[f].at = "register"
  BY DEF MintInv, ClicksSound, MineRegister, GoesOn
<1>2. flow[f].key \in Key /\ flow[f].token \in Token
  BY <1>1 DEF Sound, Minted, Click
<1>3. /\ ChainTypes' /\ KeysUsed' /\ KeyServesOneRobot' /\ ChainGrows
      /\ didKey'[flow[f].token] = flow[f].key /\ nextTokenId' = nextTokenId
  BY <1>2, RegisterEffect DEF MintInv, MineRegister
<1>4. flow'[f] = [flow[f] EXCEPT !.at = "registerReceipt"]
      /\ flow' = [flow EXCEPT ![f] = flow'[f]]
  BY DEF MintInv, ClicksSound, MineRegister, GoesOn
<1>5. /\ flow'[f] \in Click /\ flow'[f].at = "registerReceipt"
      /\ flow'[f].token = flow[f].token /\ flow'[f].key = flow[f].key
  BY <1>1, <1>4 DEF Click
<1>6. Sound(flow'[f], didKey', nextTokenId')
  BY <1>1, <1>2, <1>3, <1>5, MintAssumption DEF Sound, Minted, Token, NoToken
<1>7. ClicksSound' /\ ResultSound'
  BY <1>3, <1>4, <1>5, <1>6, ClickStep, ResultLater DEF MintInv, MineRegister, Unshown
<1> QED
  BY <1>3, <1>7 DEF MintInv, MineRegister, GoesOn, user

LEMMA ShowResultKeepsInv ==
  ASSUME MintInv, NEW f \in Flow, ShowResult(f)
  PROVE  MintInv'
<1>1. /\ ChainTypes' /\ KeysUsed' /\ KeyServesOneRobot' /\ ChainGrows
      /\ ClicksSound' /\ UNCHANGED user
  BY GoesOnSound DEF ShowResult, Minted, Registered
<1>2. flow[f] \in Click /\ Sound(flow[f], didKey, nextTokenId) /\ flow[f].at = "record"
  BY DEF MintInv, ClicksSound, ShowResult, GoesOn
<1>3. flow[f].token \in Token /\ flow[f].key \in Key /\ didKey'[flow[f].token] = flow[f].key
  BY <1>2 DEF Sound, Minted, Registered, Click, ShowResult, chain
<1>4. ResultSound'
  BY <1>3 DEF ShowResult, ResultSound, ResultIsRegistered
<1> QED
  BY <1>1, <1>4 DEF MintInv, user

LEMMA FailKeepsInv ==
  ASSUME MintInv, NEW f \in Flow, Fail(f)
  PROVE  MintInv'
<1>1. ChainTypes' /\ KeysUsed' /\ KeyServesOneRobot' /\ ChainGrows /\ UNCHANGED <<didKey, nextTokenId>>
  BY ChainUnchanged DEF MintInv, Fail, chain
<1>2. /\ flow' = [flow EXCEPT ![f] = flow'[f]]
      /\ flow'[f] \in Click /\ Sound(flow'[f], didKey', nextTokenId')
      /\ flow'[f].token \in {flow[f].token, nextTokenId}
  <2>1. flow' = [flow EXCEPT ![f] = [flow[f] EXCEPT !.at = "failed"]]
        /\ flow[f].at \notin {"idle", "failed"} /\ "failed" \notin Minted \cup Registered
    BY DEF Fail, UnderWay, Minted, Registered
  <2> QED
    BY <1>1, <2>1, MovesOn DEF MintInv
<1>3. ClicksSound' /\ ResultSound'
  BY <1>1, <1>2, ClickStep, MessageSound DEF MintInv, Fail
<1> QED
  BY <1>1, <1>3 DEF MintInv, Fail, user

(* Steps at which a click only moves on and changes the steps shown.            *)
LEMMA OtherStepsKeepInv ==
  ASSUME MintInv, NEW f \in Flow,
         \/ MintReceipt(f) \/ CheckOwner(f) \/ CheckActiveDid(f) \/ BuildChallenge(f)
         \/ SignChallenge(f) \/ VerifyChallenge(f) \/ RegisterReceipt(f) \/ Finish(f)
  PROVE  MintInv'
<1>1. UNCHANGED output /\ UNCHANGED chain
  BY DEF MintReceipt, CheckOwner, CheckActiveDid, BuildChallenge, SignChallenge,
         VerifyChallenge, RegisterReceipt, Finish, Shows, Unshown
<1>2. /\ ChainTypes' /\ KeysUsed' /\ KeyServesOneRobot' /\ ChainGrows
      /\ ClicksSound' /\ UNCHANGED user
  <2>1. CASE MintReceipt(f) \/ CheckOwner(f) \/ CheckActiveDid(f) \/ BuildChallenge(f)
             \/ SignChallenge(f) \/ VerifyChallenge(f)
    <3>1. PICK from \in Minted, to \in {"owner", "activeDid", "unusedKey", "signature",
                                        "onChainDid", "register"} : GoesOn(f, from, to)
      BY <2>1 DEF Minted, MintReceipt, CheckOwner, CheckActiveDid, BuildChallenge,
                  SignChallenge, VerifyChallenge
    <3> QED
      BY <1>1, <3>1, GoesOnSound DEF Registered
  <2>2. CASE RegisterReceipt(f) \/ Finish(f)
    <3>1. PICK from \in Registered, to \in {"record", "done"} : GoesOn(f, from, to)
      BY <2>2 DEF Registered, RegisterReceipt, Finish
    <3> QED
      BY <1>1, <3>1, GoesOnSound DEF Minted
  <2> QED
    BY <2>1, <2>2
<1>3. ResultSound'
  BY <1>1, <1>2, ResultLater DEF MintInv
<1> QED
  BY <1>2, <1>3 DEF MintInv, user

LEMMA ElsewhereKeepsInv ==
  ASSUME MintInv, Elsewhere
  PROVE  MintInv'
<1>1. ChainTypes' /\ KeysUsed' /\ KeyServesOneRobot' /\ ChainGrows
  <2>1. ASSUME NEW to \in Account, MintRobot(to)
        PROVE  ChainTypes' /\ KeysUsed' /\ KeyServesOneRobot' /\ ChainGrows
    BY <2>1, MintEffect DEF MintInv
  <2>2. ASSUME NEW t \in Token, NEW k \in Key, NEW a \in Account, RegisterDID(a, t, k)
        PROVE  ChainTypes' /\ KeysUsed' /\ KeyServesOneRobot' /\ ChainGrows
    BY <2>2, RegisterEffect DEF MintInv
  <2>3. ASSUME NEW t \in Token, NEW to \in Account, Transfer(t, to)
        PROVE  ChainTypes' /\ KeysUsed' /\ KeyServesOneRobot' /\ ChainGrows
    BY <2>3, TransferEffect DEF MintInv
  <2> QED
    BY <2>1, <2>2, <2>3 DEF Elsewhere
<1> QED
  BY <1>1, ClicksUnchanged, ResultLater DEF MintInv, Elsewhere, user

LEMMA UserKeepsInv ==
  ASSUME MintInv,
         \/ \E a \in Account : SwitchAccount(a)
         \/ \E k \in Key \cup {NoKey} : EnterRobotWallet(k)
         \/ ClearProgress
  PROVE  MintInv'
<1>1. UNCHANGED chain /\ UNCHANGED flow
  BY DEF SwitchAccount, EnterRobotWallet, ClearProgress
<1>2. ChainTypes' /\ KeysUsed' /\ KeyServesOneRobot' /\ ChainGrows /\ ClicksSound'
  BY <1>1, ChainUnchanged, ClicksUnchanged DEF MintInv
<1>3. UNCHANGED output \/ output' = Message("initial")
  BY DEF SwitchAccount, EnterRobotWallet, ClearProgress
<1>4. ResultSound'
  BY <1>2, <1>3, ResultLater, MessageSound DEF MintInv
<1>5. connected' \in Account /\ wallet' \in Key \cup {NoKey}
  BY DEF MintInv, SwitchAccount, EnterRobotWallet, ClearProgress, user
<1> QED
  BY <1>2, <1>4, <1>5 DEF MintInv

LEMMA MintInit ==
  ASSUME Init
  PROVE  MintInv
<1>1. ChainTypes /\ KeysUsed /\ KeyServesOneRobot
  BY MintAssumption DEF Init, ChainTypes, KeysUsed, KeyServesOneRobot, Token
<1>2. ClicksSound
  BY MintAssumption DEF Init, ClicksSound, Click, Sound, Minted, Registered, OwnToken,
                        Token, NoToken
<1>3. ResultSound
  BY DEF Init, Message, ResultSound, ResultIsRegistered
<1> QED
  BY <1>1, <1>2, <1>3 DEF Init, MintInv

LEMMA MintStep ==
  ASSUME MintInv, [Next]_vars
  PROVE  MintInv'
<1>1. CASE Elsewhere
  BY <1>1, ElsewhereKeepsInv
<1>2. CASE \/ \E a \in Account : SwitchAccount(a)
           \/ \E k \in Key \cup {NoKey} : EnterRobotWallet(k)
           \/ ClearProgress
  BY <1>2, UserKeepsInv
<1>3. ASSUME NEW f \in Flow, Begin(f)
      PROVE  MintInv'
  BY <1>3, BeginKeepsInv
<1>4. ASSUME NEW f \in Flow, Continue(f)
      PROVE  MintInv'
  BY <1>4, ConnectOwnerKeepsInv, MineMintKeepsInv, MineRegisterKeepsInv, ShowResultKeepsInv,
     FailKeepsInv, OtherStepsKeepInv DEF Continue
<1>5. CASE UNCHANGED vars
  <2>1. UNCHANGED chain /\ UNCHANGED <<connected, wallet, output, flow>>
    BY <1>5 DEF vars, user
  <2> QED
    BY <2>1, ChainUnchanged, ClicksUnchanged, ResultLater DEF MintInv
<1> QED
  BY <1>1, <1>2, <1>3, <1>4, <1>5 DEF Next

LEMMA MintInvAlways == Spec => []MintInv
  BY MintInit, MintStep, PTL DEF Spec

------------------------------------------------------------------------------
(* No key is registered for two robots (registerDID's usedRobotKeyAddresses),   *)
(* however many clicks passed the check of isUsedRobotKey at the same time.     *)
THEOREM OneRobotPerKey == Spec => []KeyServesOneRobot
<1>1. MintInv => KeyServesOneRobot
  BY DEF MintInv
<1> QED
  BY <1>1, MintInvAlways, PTL

(* No two clicks ever work on one token (parseRobotTokenId).                    *)
THEOREM TokensAreOwn == Spec => []OwnToken
<1>1. MintInv => OwnToken
  BY DEF MintInv, ClicksSound
<1> QED
  BY <1>1, MintInvAlways, PTL

(* The result on the page is registered on-chain with the key it shows          *)
(* (registerRobotDidForToken).                                                  *)
THEOREM ResultIsTrue == Spec => []ResultIsRegistered
<1>1. MintInv => ResultIsRegistered
  BY DEF MintInv, ResultSound
<1> QED
  BY <1>1, MintInvAlways, PTL

(* Types: the chain, the clicks and the user's fields have theirs by MintInv.   *)
PageTypes ==
  /\ steps \in [Step -> {"pending", "active", "done", "error"}]
  /\ output \in [kind : {"initial", "running", "invalid", "registered"},
                 token : Token \cup {NoToken}, key : Key \cup {NoKey}]
  /\ displayed \in Flow \cup {NoFlow}

LEMMA PageStep ==
  ASSUME MintInv, PageTypes, [Next]_vars
  PROVE  PageTypes'
<1>1. CASE UNCHANGED <<steps, output, displayed>>
  BY <1>1 DEF PageTypes
<1>2. CASE ClearProgress
  BY <1>2 DEF ClearProgress, AllPending, Message, PageTypes
<1>3. ASSUME NEW f \in Flow, Begin(f)
      PROVE  PageTypes'
  BY <1>3 DEF Begin, AllPending, Message, PageTypes
<1>4. ASSUME NEW f \in Flow, Fail(f)
      PROVE  PageTypes'
  BY <1>4 DEF Fail, MarkError, Message, PageTypes
<1>5. ASSUME NEW f \in Flow, ShowResult(f)
      PROVE  PageTypes'
  <2>1. flow[f].token \in Token \cup {NoToken} /\ flow[f].key \in Key \cup {NoKey}
    BY DEF MintInv, ClicksSound, Click
  <2> QED
    BY <1>5, <2>1 DEF ShowResult, GoesOn, PageTypes
<1>6. ASSUME NEW done, NEW active, Shows(done, active), UNCHANGED displayed
      PROVE  PageTypes'
  BY <1>6 DEF Shows, PageTypes
<1>7. ASSUME NEW f \in Flow, Continue(f)
      PROVE  PageTypes'
  <2>1. CASE ConnectOwner(f) \/ MintReceipt(f) \/ BuildChallenge(f) \/ SignChallenge(f)
             \/ VerifyChallenge(f) \/ RegisterReceipt(f)
    BY <1>6, <2>1 DEF ConnectOwner, MintReceipt, BuildChallenge, SignChallenge,
                      VerifyChallenge, RegisterReceipt, GoesOn
  <2>2. CASE MineMint(f) \/ CheckOwner(f) \/ CheckActiveDid(f) \/ MineRegister(f) \/ Finish(f)
    BY <1>1, <2>2 DEF MineMint, CheckOwner, CheckActiveDid, MineRegister, Finish, GoesOn, Unshown
  <2> QED
    BY <1>4, <1>5, <1>7, <2>1, <2>2 DEF Continue
<1>8. CASE \/ Elsewhere
           \/ \E a \in Account : SwitchAccount(a)
           \/ \E k \in Key \cup {NoKey} : EnterRobotWallet(k)
           \/ UNCHANGED vars
  BY <1>1, <1>8 DEF Elsewhere, SwitchAccount, EnterRobotWallet, vars
<1> QED
  BY <1>2, <1>3, <1>7, <1>8 DEF Next

(* Every variable has its type, for any number of clicks and tokens.            *)
THEOREM MintTypes == Spec => []TypeOK
<1>1. Init => PageTypes
  BY DEF Init, AllPending, Message, PageTypes
<1>2. MintInv /\ PageTypes /\ [Next]_vars => PageTypes'
  BY PageStep
<1>3. MintInv /\ PageTypes => TypeOK
  BY DEF MintInv, ChainTypes, ClicksSound, PageTypes, TypeOK
<1> QED
  BY <1>1, <1>2, <1>3, MintInvAlways, PTL DEF Spec

------------------------------------------------------------------------------
(* While an output says that something is running, some click is under way that *)
(* has not shown its result yet: whoever ends otherwise replaces the output.    *)
SomeoneRuns ==
  output.kind = "running" => \E f \in Flow : UnderWay(f) /\ flow[f].at # "list"

LEMMA RunningStep ==
  ASSUME ClicksSound, SomeoneRuns, [Next]_vars
  PROVE  SomeoneRuns'
<1>1. flow \in [Flow -> Click]
  BY DEF ClicksSound
<1>2. ASSUME UNCHANGED output, NEW f \in Flow, NEW r, flow' = [flow EXCEPT ![f] = r],
             UnderWay(f) /\ flow[f].at # "list" =>
               r.at \notin {"idle", "done", "failed", "list"}
      PROVE  SomeoneRuns'
  BY <1>1, <1>2 DEF SomeoneRuns, UnderWay
<1>3. ASSUME UNCHANGED <<output, flow>>
      PROVE  SomeoneRuns'
  BY <1>3 DEF SomeoneRuns, UnderWay
<1>4. ASSUME output'.kind # "running"
      PROVE  SomeoneRuns'
  BY <1>4 DEF SomeoneRuns
<1>5. CASE \/ Elsewhere
           \/ \E a \in Account : SwitchAccount(a)
           \/ \E k \in Key \cup {NoKey} : EnterRobotWallet(k)
           \/ UNCHANGED vars
  BY <1>3, <1>5 DEF Elsewhere, SwitchAccount, EnterRobotWallet, vars
<1>6. CASE ClearProgress
  BY <1>4, <1>6 DEF ClearProgress, Message
<1>7. ASSUME NEW f \in Flow, Begin(f)
      PROVE  SomeoneRuns'
  <2>1. CASE output' = Message("invalid")
    BY <1>4, <2>1 DEF Message
  <2>2. CASE flow' = [flow EXCEPT ![f] = [flow[f] EXCEPT !.at = "account", !.key = wallet]]
    <3>1. flow'[f].at = "account"
      BY <1>1, <2>2 DEF Click
    <3> QED BY <3>1 DEF SomeoneRuns, UnderWay
  <2> QED BY <1>7, <2>1, <2>2 DEF Begin
<1>8. ASSUME NEW f \in Flow, Continue(f)
      PROVE  SomeoneRuns'
  <2>1. flow[f] \in Click
    BY <1>1
  <2>2. CASE Fail(f) \/ ShowResult(f)
    BY <1>4, <2>2 DEF Fail, ShowResult, Message
  <2>3. CASE Finish(f)
    <3>1. flow' = [flow EXCEPT ![f] = [flow[f] EXCEPT !.at = "done"]] /\ flow[f].at = "list"
          /\ UNCHANGED output
      BY <2>3 DEF Finish, GoesOn, Unshown
    <3> QED BY <1>2, <3>1
  <2>4. ASSUME ConnectOwner(f) \/ MineMint(f) \/ MintReceipt(f) \/ CheckOwner(f)
               \/ CheckActiveDid(f) \/ BuildChallenge(f) \/ SignChallenge(f)
               \/ VerifyChallenge(f) \/ MineRegister(f) \/ RegisterReceipt(f)
        PROVE  /\ UNCHANGED output
               /\ \E r : /\ flow' = [flow EXCEPT ![f] = r]
                         /\ r.at \notin {"idle", "done", "failed", "list"}
    <3>1. \A where : [flow[f] EXCEPT !.at = where].at = where
      BY <2>1 DEF Click
    <3>2. UNCHANGED output
      BY <2>4 DEF ConnectOwner, MineMint, MintReceipt, CheckOwner, CheckActiveDid, BuildChallenge,
             SignChallenge, VerifyChallenge, MineRegister, RegisterReceipt, Shows, Unshown
    <3>3. CASE ConnectOwner(f) \/ MineMint(f)
      <4> DEFINE a == [flow[f] EXCEPT !.at = "mint", !.account = connected]
                 b == [flow[f] EXCEPT !.at = "mintReceipt", !.token = nextTokenId]
      <4>1. flow' = [flow EXCEPT ![f] = a] \/ flow' = [flow EXCEPT ![f] = b]
        BY <3>3 DEF ConnectOwner, MineMint
      <4>2. a.at = "mint" /\ b.at = "mintReceipt"
        BY <2>1 DEF Click
      <4> HIDE DEF a, b
      <4> QED BY <3>2, <4>1, <4>2
    <3>4. CASE \/ MintReceipt(f) \/ CheckOwner(f) \/ CheckActiveDid(f) \/ BuildChallenge(f)
               \/ SignChallenge(f) \/ VerifyChallenge(f) \/ MineRegister(f) \/ RegisterReceipt(f)
      <4>1. \E to \in {"owner", "activeDid", "unusedKey", "signature", "onChainDid", "register",
                       "registerReceipt", "record"} :
              flow' = [flow EXCEPT ![f] = [flow[f] EXCEPT !.at = to]]
        BY <3>4 DEF MintReceipt, CheckOwner, CheckActiveDid, BuildChallenge, SignChallenge,
               VerifyChallenge, MineRegister, RegisterReceipt, GoesOn
      <4> QED BY <3>1, <3>2, <4>1
    <3> QED BY <2>4, <3>3, <3>4
  <2> QED BY <1>2, <1>8, <2>2, <2>3, <2>4 DEF Continue
<1> QED
  BY <1>5, <1>6, <1>7, <1>8 DEF Next

(* The page never says "running" after the last click under way has ended.      *)
THEOREM RunningAlwaysTrue == Spec => []RunningIsTrue
<1>1. Init => SomeoneRuns
  BY DEF Init, Message, SomeoneRuns
<1>2. MintInv /\ SomeoneRuns /\ [Next]_vars => SomeoneRuns'
  BY RunningStep DEF MintInv
<1>3. SomeoneRuns => RunningIsTrue
  BY DEF SomeoneRuns, RunningIsTrue
<1> QED
  BY <1>1, <1>2, <1>3, MintInvAlways, PTL DEF Spec

------------------------------------------------------------------------------
(* The steps as one click alone writes them: n are done, the next has a mark.   *)
Stage(n, mark) ==
  [s \in Step |-> IF s <= n THEN "done" ELSE IF s = n + 1 THEN mark ELSE "pending"]

(* How many steps are done when a click awaits something, and what the next     *)
(* one is marked with.                                                          *)
DoneAt(at) ==
  CASE at = "account" -> 0
    [] at \in {"mint", "mintReceipt"} -> 1
    [] at \in {"owner", "activeDid", "unusedKey"} -> 2
    [] at = "signature" -> 3
    [] at = "onChainDid" -> 4
    [] at \in {"register", "registerReceipt"} -> 5
    [] OTHER -> 6

MarkAt(at) ==
  IF at \in {"owner", "activeDid", "unusedKey", "record", "list", "done"} THEN "pending" ELSE "active"

(* The steps st are those of click r, and what they say is so.                  *)
Shown(r, st, keys) ==
  /\ r.at # "idle"
  /\ r.at # "failed" => st = Stage(DoneAt(r.at), MarkAt(r.at))
  /\ r.at = "failed" => \E n \in 0 .. 6, mark \in {"pending", "error"} : st = Stage(n, mark)
  /\ st[mintNft] = "pending" => r.token = NoToken
  /\ st[mintNft] = "done" => r.token # NoToken
  /\ st[registerDid] = "done" => r.token \in Token /\ r.key \in Key /\ keys[r.token] = r.key

(* The inductive invariant: no other click is under way, and none has a token   *)
(* before it minted.                                                            *)
StepsInv ==
  /\ \A f \in Flow : flow[f].at \in {"idle", "account"} => flow[f].token = NoToken
  /\ displayed \in Flow =>
       /\ \A g \in Flow : g # displayed => ~ UnderWay(g)
       /\ Shown(flow[displayed], steps, didKey)

LEMMA StageSteps ==
  ASSUME NEW n \in 0 .. 6, NEW mark
  PROVE  /\ \A s \in 1 .. 6 : Stage(n, mark)[s] =
              IF s <= n THEN "done" ELSE IF s = n + 1 THEN mark ELSE "pending"
         /\ DOMAIN Stage(n, mark) = 1 .. 6
  BY DEF Stage, Step, connectOwner, registerDid

(* Shows moves from one stage to the next.                                      *)
LEMMA StageShown ==
  ASSUME NEW n \in 0 .. 5, NEW before, steps = Stage(n, before), NEW after, NEW active \in {n + 2, 0},
         Shows({n + 1}, active), after = IF active = 0 THEN "pending" ELSE "active"
  PROVE  steps' = Stage(n + 1, after)
<1> DEFINE shown(s) == IF s \in {n + 1} THEN "done" ELSE IF s = active THEN "active" ELSE steps[s]
           stage(s) == IF s <= n + 1 THEN "done" ELSE IF s = n + 2 THEN after ELSE "pending"
<1>1. \A s \in 1 .. 6 : steps[s] = IF s <= n THEN "done" ELSE IF s = n + 1 THEN before ELSE "pending"
  BY StageSteps
<1>2. steps' = [s \in 1 .. 6 |-> shown(s)]
  BY DEF Shows, Step, connectOwner, registerDid
<1>3. Stage(n + 1, after) = [s \in 1 .. 6 |-> stage(s)]
  BY DEF Stage, Step, connectOwner, registerDid
<1>4. \A s \in 1 .. 6 : shown(s) = stage(s)
  BY <1>1
<1> HIDE DEF shown, stage
<1> QED
  BY <1>2, <1>3, <1>4, Zenon

(* A failure marks the active step, or none.                                    *)
LEMMA StageFailed ==
  ASSUME NEW n \in 0 .. 6, NEW mark \in {"active", "pending"}, steps = Stage(n, mark)
  PROVE  MarkError = Stage(n, IF mark = "active" THEN "error" ELSE mark)
<1> DEFINE after == IF mark = "active" THEN "error" ELSE mark
           first(s) == steps[s] = "active" /\ \A e \in 1 .. 6 : steps[e] = "active" => s <= e
           marked(s) == IF first(s) THEN "error" ELSE steps[s]
           stage(s) == IF s <= n THEN "done" ELSE IF s = n + 1 THEN after ELSE "pending"
<1>1. \A s \in 1 .. 6 : steps[s] = IF s <= n THEN "done" ELSE IF s = n + 1 THEN mark ELSE "pending"
  BY StageSteps
<1>2. MarkError = [s \in 1 .. 6 |-> marked(s)]
  BY DEF MarkError, Step, connectOwner, registerDid
<1>3. Stage(n, after) = [s \in 1 .. 6 |-> stage(s)]
  BY DEF Stage, Step, connectOwner, registerDid
<1>4. \A s \in 1 .. 6 : marked(s) = stage(s)
  <2>1. \A s \in 1 .. 6 : steps[s] = "active" <=> s = n + 1 /\ mark = "active"
    BY <1>1
  <2>2. \A s \in 1 .. 6 : first(s) <=> s = n + 1 /\ mark = "active"
    BY <2>1
  <2> HIDE DEF first
  <2> QED BY <1>1, <2>2
<1> HIDE DEF marked, stage
<1> QED
  BY <1>2, <1>3, <1>4, Zenon

(* What the steps of a sound click say is so.                                   *)
LEMMA ShownNext ==
  ASSUME NEW r \in Click, r.at \notin {"idle", "failed", "account"}, NEW keys, NEW next,
         Sound(r, keys, next), NEW st, st = Stage(DoneAt(r.at), MarkAt(r.at))
  PROVE  Shown(r, st, keys)
<1> DEFINE n == DoneAt(r.at)
           mark == MarkAt(r.at)
<1>1. r.at \in {"mint", "mintReceipt", "owner", "activeDid", "unusedKey", "signature",
               "onChainDid", "register", "registerReceipt", "record", "list", "done"}
  BY DEF Click
<1>2. /\ n \in 1 .. 6
      /\ n = 1 => mark = "active"
      /\ n >= 2 => r.at \in Minted
      /\ n = 5 => mark = "active"
      /\ n = 6 => r.at \in Registered
  BY <1>1 DEF DoneAt, MarkAt, Minted, Registered
<1> HIDE DEF n, mark
<1>3. \A s \in 1 .. 6 : st[s] = IF s <= n THEN "done" ELSE IF s = n + 1 THEN mark ELSE "pending"
  BY <1>2, StageSteps DEF n, mark
<1>4. /\ st[2] # "pending"
      /\ st[2] = "done" => r.token # NoToken
  BY <1>2, <1>3 DEF Sound
<1>5. st[6] = "done" => r.at \in Registered
  BY <1>2, <1>3
<1>6. r.at \in Registered => r.token \in Token /\ r.key \in Key /\ keys[r.token] = r.key
  BY DEF Sound, Click, Minted
<1> QED
  BY <1>4, <1>5, <1>6 DEF Shown, mintNft, registerDid

LEMMA ShownLater ==
  ASSUME NEW r, NEW st, NEW keys, NEW keys2, Shown(r, st, keys),
         \A t \in Token : keys[t] # NoKey => keys2[t] = keys[t]
  PROVE  Shown(r, st, keys2)
  BY MintAssumption DEF Shown

LEMMA ShownFailed ==
  ASSUME NEW r \in Click, NEW r2, r2.at = "failed", r2.token = r.token, r2.key = r.key,
         NEW keys, Shown(r, steps, keys), r.at \notin {"failed", "done"}
  PROVE  Shown(r2, MarkError, keys)
<1> DEFINE n == DoneAt(r.at)
           mark == MarkAt(r.at)
           after == IF mark = "active" THEN "error" ELSE mark
<1>1. r.at \in {"account", "mint", "mintReceipt", "owner", "activeDid", "unusedKey", "signature",
               "onChainDid", "register", "registerReceipt", "record", "list"}
  BY DEF Click, Shown
<1>2. n \in 0 .. 6 /\ mark \in {"active", "pending"}
  BY <1>1 DEF DoneAt, MarkAt
<1>3. steps = Stage(n, mark)
  BY DEF Shown
<1> HIDE DEF n, mark
<1>4. MarkError = Stage(n, after)
  BY <1>2, <1>3, StageFailed
<1>5. after \in {"pending", "error"}
  BY <1>2
<1>6. /\ \A s \in 1 .. 6 : steps[s] =
           IF s <= n THEN "done" ELSE IF s = n + 1 THEN mark ELSE "pending"
      /\ \A s \in 1 .. 6 : Stage(n, after)[s] =
           IF s <= n THEN "done" ELSE IF s = n + 1 THEN after ELSE "pending"
  BY <1>2, <1>3, StageSteps
<1>7. /\ MarkError[2] = "pending" => steps[2] = "pending"
      /\ MarkError[2] = "done" => steps[2] = "done"
      /\ MarkError[6] = "done" => steps[6] = "done"
  BY <1>2, <1>4, <1>5, <1>6
<1>8. \E m \in 0 .. 6, k \in {"pending", "error"} : MarkError = Stage(m, k)
  BY <1>2, <1>4, <1>5
<1>9. /\ MarkError[2] = "pending" => r2.token = NoToken
      /\ MarkError[2] = "done" => r2.token # NoToken
      /\ MarkError[6] = "done" => r2.token \in Token /\ r2.key \in Key /\ keys[r2.token] = r2.key
  <2>1. /\ steps[2] = "pending" => r.token = NoToken
        /\ steps[2] = "done" => r.token # NoToken
        /\ steps[6] = "done" => r.token \in Token /\ r.key \in Key /\ keys[r.token] = r.key
    BY DEF Shown, mintNft, registerDid
  <2> QED BY <1>7, <2>1
<1> QED
  BY <1>8, <1>9 DEF Shown, mintNft, registerDid

(* The click that writes the steps goes on.                                     *)
LEMMA ContinueShown ==
  ASSUME MintInv, MintInv', NEW f \in Flow, Shown(flow[f], steps, didKey), Continue(f)
  PROVE  Shown(flow'[f], steps', didKey')
<1> DEFINE r == flow[f]
           r2 == flow'[f]
<1>1. r \in Click /\ flow \in [Flow -> Click]
  BY DEF MintInv, ClicksSound
<1>2. r2 \in Click /\ Sound(r2, didKey', nextTokenId')
  BY DEF MintInv, ClicksSound
<1>3. CASE Fail(f)
  <2>1. r.at \notin {"idle", "failed", "done"}
    BY <1>3 DEF Fail, UnderWay
  <2>2. /\ flow' = [flow EXCEPT ![f] = [flow[f] EXCEPT !.at = "failed"]]
        /\ steps' = MarkError /\ didKey' = didKey
    BY <1>3 DEF Fail, chain
  <2>3. r2 = [r EXCEPT !.at = "failed"]
    BY <1>1, <2>2
  <2>4. r2.at = "failed" /\ r2.token = r.token /\ r2.key = r.key
    BY <1>1, <2>3 DEF Click
  <2>5. Shown(r2, MarkError, didKey)
    BY <1>1, <2>1, <2>4, ShownFailed
  <2> QED BY <2>2, <2>5
<1>4. ASSUME ~ Fail(f)
      PROVE  /\ r2.at \notin {"idle", "failed", "account"}
             /\ steps' = Stage(DoneAt(r2.at), MarkAt(r2.at))
  <2>1. ASSUME NEW from, NEW to, GoesOn(f, from, to)
        PROVE  r.at = from /\ r2.at = to
    BY <1>1, <2>1 DEF GoesOn, Click
  <2>2. r.at # "failed" => steps = Stage(DoneAt(r.at), MarkAt(r.at))
    BY DEF Shown
  <2>3. CASE ConnectOwner(f)
    <3>1. r.at = "account" /\ flow' = [flow EXCEPT ![f] = [flow[f] EXCEPT !.at = "mint", !.account = connected]]
          /\ Shows({1}, 2)
      BY <2>3 DEF ConnectOwner, connectOwner, mintNft
    <3>2. r2.at = "mint"
      BY <1>1, <3>1 DEF Click
    <3>3. steps = Stage(0, "active")
      BY <2>2, <3>1 DEF DoneAt, MarkAt
    <3>4. steps' = Stage(1, "active")
      BY <3>1, <3>3, StageShown
    <3> QED BY <3>2, <3>4 DEF DoneAt, MarkAt
  <2>4. CASE MineMint(f)
    <3>1. /\ r.at = "mint" /\ UNCHANGED steps
          /\ flow' = [flow EXCEPT ![f] = [flow[f] EXCEPT !.at = "mintReceipt", !.token = nextTokenId]]
      BY <2>4 DEF MineMint
    <3>2. r2.at = "mintReceipt"
      BY <1>1, <3>1 DEF Click
    <3> QED BY <2>2, <3>1, <3>2 DEF DoneAt, MarkAt
  <2>5. CASE MintReceipt(f)
    <3>1. r.at = "mintReceipt" /\ r2.at = "owner" /\ Shows({2}, 0)
      BY <2>1, <2>5 DEF MintReceipt, mintNft, NoToken
    <3>2. steps = Stage(1, "active")
      BY <2>2, <3>1 DEF DoneAt, MarkAt
    <3>3. steps' = Stage(2, "pending")
      BY <3>1, <3>2, StageShown
    <3> QED BY <3>1, <3>3 DEF DoneAt, MarkAt
  <2>6. CASE CheckOwner(f) \/ CheckActiveDid(f) \/ MineRegister(f) \/ Finish(f)
    <3>1. /\ UNCHANGED steps
          /\ \/ r.at = "owner" /\ r2.at = "activeDid"
             \/ r.at = "activeDid" /\ r2.at = "unusedKey"
             \/ r.at = "register" /\ r2.at = "registerReceipt"
             \/ r.at = "list" /\ r2.at = "done"
      BY <2>1, <2>6 DEF CheckOwner, CheckActiveDid, MineRegister, Finish, Unshown
    <3> QED BY <2>2, <3>1 DEF DoneAt, MarkAt
  <2>7. CASE BuildChallenge(f)
    <3>1. r.at = "unusedKey" /\ r2.at = "signature" /\ Shows({3}, 4)
      BY <2>1, <2>7 DEF BuildChallenge, challengeBuild, challengeSign
    <3>2. steps = Stage(2, "pending")
      BY <2>2, <3>1 DEF DoneAt, MarkAt
    <3>3. steps' = Stage(3, "active")
      BY <3>1, <3>2, StageShown
    <3> QED BY <3>1, <3>3 DEF DoneAt, MarkAt
  <2>8. CASE SignChallenge(f)
    <3>1. r.at = "signature" /\ r2.at = "onChainDid" /\ Shows({4}, 5)
      BY <2>1, <2>8 DEF SignChallenge, challengeSign, challengeVerify
    <3>2. steps = Stage(3, "active")
      BY <2>2, <3>1 DEF DoneAt, MarkAt
    <3>3. steps' = Stage(4, "active")
      BY <3>1, <3>2, StageShown
    <3> QED BY <3>1, <3>3 DEF DoneAt, MarkAt
  <2>9. CASE VerifyChallenge(f)
    <3>1. r.at = "onChainDid" /\ r2.at = "register" /\ Shows({5}, 6)
      BY <2>1, <2>9 DEF VerifyChallenge, challengeVerify, registerDid
    <3>2. steps = Stage(4, "active")
      BY <2>2, <3>1 DEF DoneAt, MarkAt
    <3>3. steps' = Stage(5, "active")
      BY <3>1, <3>2, StageShown
    <3> QED BY <3>1, <3>3 DEF DoneAt, MarkAt
  <2>10. CASE RegisterReceipt(f)
    <3>1. r.at = "registerReceipt" /\ r2.at = "record" /\ Shows({6}, 0)
      BY <2>1, <2>10 DEF RegisterReceipt, registerDid, NoToken
    <3>2. steps = Stage(5, "active")
      BY <2>2, <3>1 DEF DoneAt, MarkAt
    <3>3. steps' = Stage(6, "pending")
      BY <3>1, <3>2, StageShown
    <3> QED BY <3>1, <3>3 DEF DoneAt, MarkAt
  <2>11. CASE ShowResult(f)
    <3>1. r.at = "record" /\ r2.at = "list" /\ UNCHANGED steps
      BY <2>1, <2>11 DEF ShowResult
    <3> QED BY <2>2, <3>1 DEF DoneAt, MarkAt
  <2> QED
    BY <1>4, <2>3, <2>4, <2>5, <2>6, <2>7, <2>8, <2>9, <2>10, <2>11 DEF Continue
<1> QED
  BY <1>2, <1>3, <1>4, ShownNext

LEMMA StepsInit == Init => StepsInv
  BY MintAssumption DEF Init, StepsInv

LEMMA ContinueFrame ==
  ASSUME MintInv, NEW f \in Flow, Continue(f)
  PROVE  /\ UnderWay(f) /\ displayed' = displayed
         /\ flow'[f].at \notin {"idle", "account"}
         /\ \A g \in Flow : g # f => flow'[g] = flow[g]
<1>1. flow \in [Flow -> Click] /\ flow[f] \in Click
  BY DEF MintInv, ClicksSound
<1>2. ASSUME NEW from, NEW to, GoesOn(f, from, to), from \notin {"idle", "done", "failed"},
             to \notin {"idle", "account"}
      PROVE  /\ UnderWay(f) /\ displayed' = displayed
             /\ flow'[f].at \notin {"idle", "account"}
             /\ \A g \in Flow : g # f => flow'[g] = flow[g]
  BY <1>1, <1>2 DEF GoesOn, UnderWay, Click
<1>3. CASE ConnectOwner(f)
  BY <1>1, <1>3 DEF ConnectOwner, UnderWay, Click
<1>4. CASE MineMint(f)
  BY <1>1, <1>4 DEF MineMint, UnderWay, Click
<1>5. CASE Fail(f)
  BY <1>1, <1>5 DEF Fail, UnderWay, Click
<1>6. CASE MintReceipt(f) \/ CheckOwner(f) \/ CheckActiveDid(f) \/ BuildChallenge(f)
           \/ SignChallenge(f) \/ VerifyChallenge(f)
  BY <1>2, <1>6 DEF MintReceipt, CheckOwner, CheckActiveDid, BuildChallenge, SignChallenge,
     VerifyChallenge
<1>7. CASE MineRegister(f) \/ RegisterReceipt(f) \/ ShowResult(f) \/ Finish(f)
  BY <1>2, <1>7 DEF MineRegister, RegisterReceipt, ShowResult, Finish
<1> QED
  BY <1>3, <1>4, <1>5, <1>6, <1>7 DEF Continue

(* The click that starts alone: the steps are its own from now on.              *)
LEMMA BeginShown ==
  ASSUME MintInv, StepsInv, NEW f \in Flow, Begin(f)
  PROVE  StepsInv'
<1>1. flow \in [Flow -> Click] /\ flow[f] \in Click /\ flow[f].token = NoToken
  BY DEF MintInv, ClicksSound, StepsInv, Begin
<1>2. /\ flow'[f].token = NoToken
      /\ \/ flow'[f].at = "failed" /\ steps' = AllPending
         \/ flow'[f].at = "account" /\ steps' = [AllPending EXCEPT ![connectOwner] = "active"]
      /\ \A g \in Flow : g # f => flow'[g] = flow[g]
  <2>1. CASE steps' = AllPending /\ flow' = [flow EXCEPT ![f] = [flow[f] EXCEPT !.at = "failed"]]
    BY <1>1, <2>1 DEF Click
  <2>2. CASE /\ steps' = [AllPending EXCEPT ![connectOwner] = "active"]
             /\ flow' = [flow EXCEPT ![f] = [flow[f] EXCEPT !.at = "account", !.key = wallet]]
    BY <1>1, <2>2 DEF Click
  <2> QED BY <2>1, <2>2 DEF Begin
<1>3. \A g \in Flow : flow'[g].at \in {"idle", "account"} => flow'[g].token = NoToken
  BY <1>2 DEF StepsInv
<1>4. CASE displayed' = NoFlow
  BY <1>3, <1>4, MintAssumption DEF StepsInv
<1>5. CASE displayed' # NoFlow
  <2>1. displayed' = f /\ \A g \in Flow : ~ UnderWay(g)
    BY <1>5 DEF Begin
  <2>2. \A g \in Flow : g # f => ~ UnderWay(g)'
    BY <1>2, <2>1 DEF UnderWay
  <2>3. /\ AllPending = Stage(0, "pending")
        /\ [AllPending EXCEPT ![connectOwner] = "active"] = Stage(0, "active")
    BY DEF AllPending, Stage, Step, connectOwner, registerDid
  <2>4. \A mark : Stage(0, mark)[2] = "pending" /\ Stage(0, mark)[6] = "pending"
    BY DEF Stage, Step, connectOwner, registerDid
  <2>5. ASSUME flow'[f].at = "failed", steps' = AllPending
        PROVE  Shown(flow'[f], steps', didKey')
    BY <1>2, <2>3, <2>4, <2>5 DEF Shown, mintNft, registerDid
  <2>6. ASSUME flow'[f].at = "account", steps' = [AllPending EXCEPT ![connectOwner] = "active"]
        PROVE  Shown(flow'[f], steps', didKey')
    <3>1. steps' = Stage(DoneAt(flow'[f].at), MarkAt(flow'[f].at))
      BY <2>3, <2>6 DEF DoneAt, MarkAt
    <3>2. steps' = Stage(0, "active")
      BY <2>3, <2>6
    <3>3. steps'[2] = "pending" /\ steps'[6] = "pending"
      BY <2>4, <3>2
    <3> QED BY <1>2, <2>6, <3>1, <3>3 DEF Shown, mintNft, registerDid
  <2>7. Shown(flow'[f], steps', didKey')
    BY <1>2, <2>5, <2>6
  <2> QED BY <1>3, <2>1, <2>2, <2>7 DEF StepsInv
<1> QED
  BY <1>4, <1>5

LEMMA ElsewhereGrows ==
  ASSUME MintInv, Elsewhere
  PROVE  \A t \in Token : didKey[t] # NoKey => didKey'[t] = didKey[t]
<1>1. didKey \in [Token -> Key \cup {NoKey}]
  BY DEF MintInv, ChainTypes
<1> QED
  BY <1>1 DEF Elsewhere, MintRobot, RegisterDID, Transfer

LEMMA StepsStep ==
  ASSUME MintInv, MintInv', StepsInv, [Next]_vars
  PROVE  StepsInv'
<1>1. ASSUME UNCHANGED <<flow, steps, displayed>>,
             \A t \in Token : didKey[t] # NoKey => didKey'[t] = didKey[t]
      PROVE  StepsInv'
  BY <1>1, ShownLater DEF StepsInv, UnderWay
<1>2. CASE Elsewhere
  <2>1. UNCHANGED <<flow, steps, displayed>>
    BY <1>2 DEF Elsewhere
  <2> QED BY <1>1, <1>2, <2>1, ElsewhereGrows
<1>3. CASE \/ \E a \in Account : SwitchAccount(a)
           \/ \E k \in Key \cup {NoKey} : EnterRobotWallet(k)
           \/ UNCHANGED vars
  BY <1>1, <1>3 DEF SwitchAccount, EnterRobotWallet, vars, chain
<1>4. CASE ClearProgress
  BY <1>4, MintAssumption DEF ClearProgress, StepsInv
<1>5. ASSUME NEW f \in Flow, Begin(f)
      PROVE  StepsInv'
  BY <1>5, BeginShown
<1>6. ASSUME NEW f \in Flow, Continue(f)
      PROVE  StepsInv'
  <2>1. /\ UnderWay(f) /\ displayed' = displayed
        /\ flow'[f].at \notin {"idle", "account"}
        /\ \A g \in Flow : g # f => flow'[g] = flow[g]
    BY <1>6, ContinueFrame
  <2>2. \A g \in Flow : flow'[g].at \in {"idle", "account"} => flow'[g].token = NoToken
    BY <2>1 DEF StepsInv
  <2>3. ASSUME displayed \in Flow
        PROVE  /\ \A g \in Flow : g # displayed' => ~ UnderWay(g)'
               /\ Shown(flow'[displayed'], steps', didKey')
    <3>1. displayed = f
      BY <2>1, <2>3 DEF StepsInv
    <3>2. \A g \in Flow : g # f => ~ UnderWay(g)'
      BY <2>1, <2>3, <3>1 DEF StepsInv, UnderWay
    <3>3. Shown(flow[f], steps, didKey)
      BY <2>3, <3>1 DEF StepsInv
    <3>4. Shown(flow'[f], steps', didKey')
      BY <1>6, <3>3, ContinueShown
    <3> QED BY <2>1, <3>1, <3>2, <3>4
  <2> QED BY <2>1, <2>2, <2>3 DEF StepsInv
<1> QED
  BY <1>2, <1>3, <1>4, <1>5, <1>6 DEF Next

LEMMA StepsFromInv ==
  ASSUME MintInv, PageTypes, StepsInv
  PROVE  StepsFollowFlow
<1> SUFFICES ASSUME displayed # NoFlow
             PROVE  LET f == flow[displayed] IN
                    /\ \A s, e \in Step : steps[s] # "pending" /\ e < s => steps[e] = "done"
                    /\ steps[mintNft] = "pending" => f.token = NoToken
                    /\ steps[mintNft] = "done" => f.token # NoToken
                    /\ steps[registerDid] = "done" => didKey[f.token] = f.key
                    /\ UnderWay(displayed) => \A s \in Step : steps[s] # "error"
                    /\ f.at = "failed" => \A s \in Step : steps[s] # "active"
  BY DEF StepsFollowFlow
<1> DEFINE r == flow[displayed]
<1>1. displayed \in Flow /\ Shown(r, steps, didKey) /\ r \in Click
  BY DEF StepsInv, PageTypes, MintInv, ClicksSound
<1>2. PICK n \in 0 .. 6, mark \in {"pending", "active", "error"} :
        /\ steps = Stage(n, mark)
        /\ r.at # "failed" => mark # "error"
        /\ r.at = "failed" => mark # "active"
  <2>1. CASE r.at = "failed"
    BY <1>1, <2>1 DEF Shown
  <2>2. CASE r.at # "failed"
    <3>1. steps = Stage(DoneAt(r.at), MarkAt(r.at))
      BY <1>1, <2>2 DEF Shown
    <3>2. r.at \in {"account", "mint", "mintReceipt", "owner", "activeDid", "unusedKey",
                   "signature", "onChainDid", "register", "registerReceipt", "record", "list", "done"}
      BY <1>1, <2>2 DEF Click, Shown
    <3>3. DoneAt(r.at) \in 0 .. 6 /\ MarkAt(r.at) \in {"pending", "active"}
      BY <3>2 DEF DoneAt, MarkAt
    <3> QED BY <2>2, <3>1, <3>3
  <2> QED BY <2>1, <2>2
<1>3. \A s \in 1 .. 6 : steps[s] = IF s <= n THEN "done" ELSE IF s = n + 1 THEN mark ELSE "pending"
  BY <1>2, StageSteps
<1>4. \A s, e \in 1 .. 6 : steps[s] # "pending" /\ e < s => steps[e] = "done"
  <2>1. ASSUME NEW s \in 1 .. 6, NEW e \in 1 .. 6, steps[s] # "pending", e < s
        PROVE  steps[e] = "done"
    <3>1. s <= n + 1
      BY <1>3, <2>1
    <3>2. e <= n
      BY <2>1, <3>1
    <3> QED BY <1>3, <3>2
  <2> QED BY <2>1
<1>5. /\ r.at # "failed" => \A s \in 1 .. 6 : steps[s] # "error"
      /\ r.at = "failed" => \A s \in 1 .. 6 : steps[s] # "active"
  BY <1>2, <1>3
<1>6. Step = 1 .. 6
  BY DEF Step, connectOwner, registerDid
<1>7. /\ steps[mintNft] = "pending" => r.token = NoToken
      /\ steps[mintNft] = "done" => r.token # NoToken
      /\ steps[registerDid] = "done" => didKey[r.token] = r.key
  BY <1>1 DEF Shown
<1>8. UnderWay(displayed) => r.at # "failed"
  BY DEF UnderWay
<1> QED
  BY <1>4, <1>5, <1>6, <1>7, <1>8

(* The list of steps tells how far the only click that writes it has come:      *)
(* what it calls minted or registered is on-chain, and a failure marks the step *)
(* it happened at, whatever else is clicked, registered and transferred.        *)
THEOREM StepsAlwaysFollow == Spec => []StepsFollowFlow
<1>1. Init => PageTypes
  BY DEF Init, AllPending, Message, PageTypes
<1>2. MintInv /\ PageTypes /\ [Next]_vars => PageTypes'
  BY PageStep
<1>3. MintInv /\ MintInv' /\ StepsInv /\ [Next]_vars => StepsInv'
  BY StepsStep
<1> QED
  BY <1>1, <1>2, <1>3, StepsInit, StepsFromInv, MintInvAlways, PTL DEF Spec
==============================================================================
