-------------------------- MODULE RobotDIDRegistry --------------------------
(***************************************************************************)
(* contracts/RobotDIDRegistry.sol: the registry of robot DIDs.             *)
(*                                                                         *)
(* A transaction is atomic: one action is one external call that does not  *)
(* revert; `sender' is msg.sender and `now' is block.timestamp.  Several   *)
(* transactions may carry the same timestamp (one block), so `now' moves   *)
(* only in NextBlock.                                                      *)
(*                                                                         *)
(* Representation.  robotDidForToken is injective for a given chain and    *)
(* NFT contract, so a DID is named by its token.  A mapping to bool, or a  *)
(* bool field of a record, is the set of keys on which it is true.  A      *)
(* permission bitmask is the set of its bits.  Public keys as strings and  *)
(* the consumption record's copy of the subject are stored and never read  *)
(* by the contract; they are left out, with the check that the string is   *)
(* not empty.                                                              *)
(*                                                                         *)
(* The two contracts the registry calls appear as the answers they give:   *)
(* nftOwner (RobotIdentityNFT.ownerOf) and trustedIssuer (the pairs that   *)
(* CredentialIssuerRegistry answers isIssuerActive /\ isAuthorizedIssuer   *)
(* for).  They change in steps of their own, at any time.                  *)
(***************************************************************************)
EXTENDS Naturals, SequencesExt

CONSTANTS
  Token,            \* ERC-721 token ids, and so the robot DIDs
  Account,          \* addresses that own robots, control them, issue credentials
  RobotKey,         \* addresses given as robot keys; may overlap Account
  ZeroAddress,
  Hash,             \* credential hashes
  ZeroHash,         \* bytes32(0); a member of Hash when a run wants to try it
  CredentialType,
  MetadataURI,
  Grant,            \* permission masks that callers pass to addController
  MaxTime,          \* bound: the last block timestamp
  MaxSuspensions,   \* bound: suspension intervals per DID
  MaxControllers,   \* bound: entries of a controllerList
  MaxUses           \* bound: largest maxUses passed to anchorCredential

Address == Account \cup RobotKey \cup {ZeroAddress}
Sender  == (Account \cup RobotKey) \ {ZeroAddress}

(* The three bits the contract names, and any other bit of the uint256. *)
Permission == {"KEY_ROTATION", "CREDENTIAL_REVOCATION", "ASSERTION", "OTHER_BIT"}

ASSUME BoundsAssumption ==
  MaxTime \in Nat /\ MaxSuspensions \in Nat /\ MaxControllers \in Nat /\ MaxUses \in Nat

ASSUME GrantAssumption == Grant \subseteq SUBSET Permission

AllPermissions == {"KEY_ROTATION", "CREDENTIAL_REVOCATION", "ASSERTION"}

(* What the two-argument overload of addController grants. *)
DefaultPermissions == {"KEY_ROTATION", "CREDENTIAL_REVOCATION"}

UNLIMITED == 0
LIMITED   == 1
(* The uint8 a caller passes: the two modes and one value that is neither. *)
ModeInput == 0 .. 2

VARIABLES
  now,                      \* block.timestamp
  nftOwner,                 \* RobotIdentityNFT: owner per token, ZeroAddress if not minted
  trustedIssuer,            \* CredentialIssuerRegistry: trusted <<publisher, type>> pairs
  exists,                   \* registered DIDs
  active,                   \* DIDRecord.active
  suspended,                \* DIDRecord.suspended
  records,                  \* the other fields of DIDRecord
  activeDIDByTokenId,       \* tokens with a non-empty entry
  usedRobotKeyAddresses,
  keyHistoryByDid,
  suspensionHistoryByDid,
  controllerPermissions,
  controllerList,
  credentialAnchors,
  consumptionRecords,
  revokedCredentialHashes

environment == <<now, nftOwner, trustedIssuer>>
lifecycle   == <<exists, active, suspended, records, activeDIDByTokenId>>
keys        == <<usedRobotKeyAddresses, keyHistoryByDid>>
controllers == <<controllerPermissions, controllerList>>
credentials == <<credentialAnchors, consumptionRecords, revokedCredentialHashes>>

vars == <<environment, lifecycle, keys, suspensionHistoryByDid, controllers, credentials>>

------------------------------------------------------------------------------
(* Types *)

DIDRecord == [metadataURI : MetadataURI \cup {""}, suspendedAt : Nat,
              createdAt : Nat, updatedAt : Nat]

KeyHistoryEntry    == [keyAddress : Address, validFrom : Nat, validUntil : Nat]
SuspensionInterval == [startedAt : Nat, endedAt : Nat]

NoAnchor == [exists |-> FALSE]
CredentialAnchor == [exists : {TRUE}, subjectDid : Token, publisher : Address,
                     credentialType : CredentialType, publishedAt : Nat]

ConsumptionRecord == [configured : BOOLEAN, mode : {UNLIMITED, LIMITED},
                      maxUses : Nat, useCount : Nat]

NoRecord      == [metadataURI |-> "", suspendedAt |-> 0, createdAt |-> 0, updatedAt |-> 0]
NoConsumption == [configured |-> FALSE, mode |-> 0, maxUses |-> 0, useCount |-> 0]

TypeOK ==
  /\ now \in Nat \ {0}
  /\ nftOwner \in [Token -> Address]
  /\ trustedIssuer \subseteq (Address \X CredentialType)
  /\ exists \subseteq Token
  /\ active \subseteq Token
  /\ suspended \subseteq Token
  /\ records \in [Token -> DIDRecord]
  /\ activeDIDByTokenId \subseteq Token
  /\ usedRobotKeyAddresses \subseteq Address
  /\ keyHistoryByDid \in [Token -> Seq(KeyHistoryEntry)]
  /\ suspensionHistoryByDid \in [Token -> Seq(SuspensionInterval)]
  /\ controllerPermissions \in [Token -> [Address -> SUBSET Permission]]
  /\ controllerList \in [Token -> Seq(Address)]
  /\ credentialAnchors \in [Hash -> CredentialAnchor \cup {NoAnchor}]
  /\ consumptionRecords \in [Hash -> ConsumptionRecord]
  /\ revokedCredentialHashes \subseteq Hash

------------------------------------------------------------------------------
(* Views *)

(* The management owner is whoever holds the NFT now.  ownerOf reverts for  *)
(* a token that is not minted; no sender is ZeroAddress, so the comparison  *)
(* fails as well.                                                           *)
ManagementOwner(d) == nftOwner[d]

OnlyOwner(sender, d) == d \in exists /\ ManagementOwner(d) = sender

OnlyOwnerOrController(sender, d) ==
  d \in exists /\ (ManagementOwner(d) = sender \/ controllerPermissions[d][sender] # {})

OnlyOwnerOrControllerWithPermission(sender, d, permission) ==
  /\ d \in exists
  /\ ManagementOwner(d) = sender \/ permission \in controllerPermissions[d][sender]

IsRevoked(d) == d \in exists /\ d \notin active

(* Slips a change of the code could make, kept to show that the properties  *)
(* below notice them: an inclusive end, and an exclusive start.             *)
IntervalCoversEnd(interval, t) ==
  t >= interval.startedAt /\ (interval.endedAt = 0 \/ t <= interval.endedAt)
IntervalCoversAfterStart(interval, t) ==
  t > interval.startedAt /\ (interval.endedAt = 0 \/ t < interval.endedAt)

(* t falls in the half-open suspension interval. *)
IntervalCovers(interval, t) ==
  t >= interval.startedAt /\ (interval.endedAt = 0 \/ t < interval.endedAt)

IsIssuanceAllowedAt(d, t) ==
  /\ d \in exists /\ d \in active
  /\ \A i \in DOMAIN suspensionHistoryByDid[d] :
        ~ IntervalCovers(suspensionHistoryByDid[d][i], t)

(* Slip: the end of the period is not looked at. *)
EntryCoversFromStart(entry, t) == t >= entry.validFrom

(* t falls in the closed validity period of the key. *)
EntryCovers(entry, t) ==
  t >= entry.validFrom /\ ~ (entry.validUntil # 0 /\ t > entry.validUntil)

IsRobotKeyAuthorizedAt(d, k, t) ==
  /\ d \in exists /\ d \in active
  /\ \E i \in DOMAIN keyHistoryByDid[d] :
        keyHistoryByDid[d][i].keyAddress = k /\ EntryCovers(keyHistoryByDid[d][i], t)

GetControllerPermissions(d, a) ==
  IF d \notin exists THEN {}
  ELSE IF ManagementOwner(d) = a THEN AllPermissions
  ELSE controllerPermissions[d][a]

Permitted(d) == {a \in Address : controllerPermissions[d][a] # {}}

(* The loop over controllerList: collected[i] is what of its first i entries  *)
(* still has a permission.                                                  *)
Collected(list, permitted) ==
  LET collected[i \in 0 .. Len(list)] ==
        IF i = 0 THEN <<>>
        ELSE IF list[i] \in permitted THEN Append(collected[i - 1], list[i])
        ELSE collected[i - 1]
  IN collected[Len(list)]

(* The owner, then every list entry whose address still has a permission. *)
GetControllers(d) ==
  <<ManagementOwner(d)>> \o Collected(controllerList[d], Permitted(d))

(* Slip: one use too many. *)
IsConsumptionAvailableOffByOne(h) ==
  LET record == consumptionRecords[h] IN
    ~ record.configured \/ record.mode = UNLIMITED \/ record.useCount <= record.maxUses

IsConsumptionAvailable(h) ==
  LET record == consumptionRecords[h] IN
    ~ record.configured \/ record.mode = UNLIMITED \/ record.useCount < record.maxUses

CanAnchor(d, publisher, credentialType) ==
  \/ ManagementOwner(d) = publisher
  \/ IsRobotKeyAuthorizedAt(d, publisher, now)
  \/ "ASSERTION" \in controllerPermissions[d][publisher]
  \/ <<publisher, credentialType>> \in trustedIssuer

------------------------------------------------------------------------------
(* Internal helpers on the histories *)

(* Slips: the first interval is closed, or the open one is forgotten. *)
CloseFirstSuspensionInterval(history, endedAt) ==
  IF history # <<>> /\ Last(history).endedAt = 0
  THEN [history EXCEPT ![1].endedAt = endedAt]
  ELSE history
ForgetOpenSuspensionInterval(history, endedAt) ==
  IF history # <<>> /\ Last(history).endedAt = 0 THEN Front(history) ELSE history

CloseOpenSuspensionInterval(history, endedAt) ==
  IF history # <<>> /\ Last(history).endedAt = 0
  THEN [history EXCEPT ![Len(history)].endedAt = endedAt]
  ELSE history

(* Slip: the entry ends a second early. *)
CloseKeyHistoryEntryEarly(history, timestamp) ==
  IF Last(history).validUntil = 0
  THEN [history EXCEPT ![Len(history)].validUntil = timestamp - 1]
  ELSE history

CloseCurrentKeyHistoryEntry(history, timestamp) ==
  IF Last(history).validUntil = 0
  THEN [history EXCEPT ![Len(history)].validUntil = timestamp]
  ELSE history

(* Slip: only the keys in use are excluded, not those rotated out. *)
KeyNotCurrent(k) ==
  k # ZeroAddress /\ \A d \in exists : Last(keyHistoryByDid[d]).keyAddress # k

(* The requirements on a robot key, at registration and at rotation. *)
KeyUsable(k) == k # ZeroAddress /\ k \notin usedRobotKeyAddresses

OpenEntry(k) == [keyAddress |-> k, validFrom |-> now, validUntil |-> 0]

------------------------------------------------------------------------------
Init ==
  /\ now = 1
  /\ nftOwner = [d \in Token |-> ZeroAddress]
  /\ trustedIssuer = {}
  /\ exists = {} /\ active = {} /\ suspended = {}
  /\ records = [d \in Token |-> NoRecord]
  /\ activeDIDByTokenId = {}
  /\ usedRobotKeyAddresses = {}
  /\ keyHistoryByDid = [d \in Token |-> <<>>]
  /\ suspensionHistoryByDid = [d \in Token |-> <<>>]
  /\ controllerPermissions = [d \in Token |-> [a \in Address |-> {}]]
  /\ controllerList = [d \in Token |-> <<>>]
  /\ credentialAnchors = [h \in Hash |-> NoAnchor]
  /\ consumptionRecords = [h \in Hash |-> NoConsumption]
  /\ revokedCredentialHashes = {}

------------------------------------------------------------------------------
(* The environment: blocks, the NFT contract, the issuer registry *)

NextBlock ==
  /\ now < MaxTime
  /\ now' = now + 1
  /\ UNCHANGED <<nftOwner, trustedIssuer, lifecycle, keys, suspensionHistoryByDid,
                 controllers, credentials>>

(* RobotIdentityNFT.mintRobot, as the registry sees it. *)
MintRobot(token, to) ==
  /\ nftOwner[token] = ZeroAddress /\ to # ZeroAddress
  /\ nftOwner' = [nftOwner EXCEPT ![token] = to]
  /\ UNCHANGED <<now, trustedIssuer, lifecycle, keys, suspensionHistoryByDid,
                 controllers, credentials>>

(* An ERC-721 transfer: the registry is not told. *)
TransferRobot(token, to) ==
  /\ nftOwner[token] # ZeroAddress /\ to # ZeroAddress
  /\ nftOwner' = [nftOwner EXCEPT ![token] = to]
  /\ UNCHANGED <<now, trustedIssuer, lifecycle, keys, suspensionHistoryByDid,
                 controllers, credentials>>

(* CredentialIssuerRegistry changes whom it vouches for: one call there may *)
(* change the answer for several types, or for none.                        *)
ChangeTrust(trusted) ==
  /\ trustedIssuer' = trusted
  /\ UNCHANGED <<now, nftOwner, lifecycle, keys, suspensionHistoryByDid,
                 controllers, credentials>>

------------------------------------------------------------------------------
(* DID lifecycle *)

(* A signature is what was signed, and by whom; verified against another   *)
(* message it recovers to an address that is not the robot's.              *)
ChallengeSignature == [did : Token, robotKeyAddress : RobotKey, signer : RobotKey]

VerifyRegisterChallenge(d, k, signature) ==
  signature = [did |-> d, robotKeyAddress |-> k, signer |-> k]

RegisterDID(sender, d, k, uri, signature) ==
  /\ KeyUsable(k)
  /\ nftOwner[d] = sender
  /\ d \notin activeDIDByTokenId
  /\ d \notin exists
  /\ VerifyRegisterChallenge(d, k, signature)
  /\ records' = [records EXCEPT ![d] =
       [metadataURI |-> uri, suspendedAt |-> 0, createdAt |-> now, updatedAt |-> now]]
  /\ active' = active \cup {d}
  /\ suspended' = suspended \ {d}
  /\ exists' = exists \cup {d}
  /\ activeDIDByTokenId' = activeDIDByTokenId \cup {d}
  /\ usedRobotKeyAddresses' = usedRobotKeyAddresses \cup {k}
  /\ keyHistoryByDid' = [keyHistoryByDid EXCEPT ![d] = Append(@, OpenEntry(k))]
  /\ UNCHANGED <<environment, suspensionHistoryByDid, controllers, credentials>>

UpdatePublicKey(sender, d, k) ==
  /\ OnlyOwnerOrControllerWithPermission(sender, d, "KEY_ROTATION")
  /\ d \in active
  /\ d \notin suspended
  /\ KeyUsable(k)
  /\ keyHistoryByDid[d] # <<>>                \* "Robot key history missing"
  /\ records' = [records EXCEPT ![d].updatedAt = now]
  /\ usedRobotKeyAddresses' = usedRobotKeyAddresses \cup {k}
  /\ keyHistoryByDid' = [keyHistoryByDid EXCEPT ![d] =
       Append(CloseCurrentKeyHistoryEntry(@, now), OpenEntry(k))]
  /\ UNCHANGED <<environment, exists, active, suspended, activeDIDByTokenId,
                 suspensionHistoryByDid, controllers, credentials>>

UpdateMetadataURI(sender, d, uri) ==
  /\ OnlyOwnerOrController(sender, d)
  /\ d \in active
  /\ records' = [records EXCEPT ![d].metadataURI = uri, ![d].updatedAt = now]
  /\ UNCHANGED <<environment, exists, active, suspended, activeDIDByTokenId, keys,
                 suspensionHistoryByDid, controllers, credentials>>

SuspendDID(sender, d) ==
  /\ OnlyOwner(sender, d)
  /\ d \in active
  /\ d \notin suspended
  /\ Len(suspensionHistoryByDid[d]) < MaxSuspensions
  /\ suspended' = suspended \cup {d}
  /\ records' = [records EXCEPT ![d].suspendedAt = now, ![d].updatedAt = now]
  /\ suspensionHistoryByDid' = [suspensionHistoryByDid EXCEPT ![d] =
       Append(@, [startedAt |-> now, endedAt |-> 0])]
  /\ UNCHANGED <<environment, exists, active, activeDIDByTokenId, keys, controllers,
                 credentials>>

UnsuspendDID(sender, d) ==
  /\ OnlyOwner(sender, d)
  /\ d \in active
  /\ d \in suspended
  /\ suspensionHistoryByDid' = [suspensionHistoryByDid EXCEPT ![d] =
       CloseOpenSuspensionInterval(@, now)]
  /\ suspended' = suspended \ {d}
  /\ records' = [records EXCEPT ![d].suspendedAt = 0, ![d].updatedAt = now]
  /\ UNCHANGED <<environment, exists, active, activeDIDByTokenId, keys, controllers,
                 credentials>>

(* Slip: revocation resets the suspension and leaves its interval open. *)
RevokeDIDIntervalOpen(sender, d) ==
  /\ OnlyOwner(sender, d)
  /\ d \in active
  /\ active' = active \ {d}
  /\ suspended' = suspended \ {d}
  /\ records' = [records EXCEPT ![d].suspendedAt = 0, ![d].updatedAt = now]
  /\ keyHistoryByDid' = [keyHistoryByDid EXCEPT ![d] = CloseCurrentKeyHistoryEntry(@, now)]
  /\ activeDIDByTokenId' = activeDIDByTokenId \ {d}
  /\ UNCHANGED <<environment, exists, suspensionHistoryByDid, usedRobotKeyAddresses,
                 controllers, credentials>>

RevokeDID(sender, d) ==
  /\ OnlyOwner(sender, d)
  /\ d \in active
  /\ keyHistoryByDid[d] # <<>>                \* "Robot key history missing"
  /\ suspensionHistoryByDid' =
       IF d \in suspended
       THEN [suspensionHistoryByDid EXCEPT ![d] = CloseOpenSuspensionInterval(@, now)]
       ELSE suspensionHistoryByDid
  /\ active' = active \ {d}
  /\ suspended' = suspended \ {d}
  /\ records' = [records EXCEPT ![d].suspendedAt = 0, ![d].updatedAt = now]
  /\ keyHistoryByDid' = [keyHistoryByDid EXCEPT ![d] = CloseCurrentKeyHistoryEntry(@, now)]
  /\ activeDIDByTokenId' = activeDIDByTokenId \ {d}
  /\ UNCHANGED <<environment, exists, usedRobotKeyAddresses, controllers, credentials>>

------------------------------------------------------------------------------
(* Controllers *)

AddController(sender, d, c, permissions) ==
  /\ OnlyOwner(sender, d)
  /\ d \in active
  /\ c # ZeroAddress
  /\ c # ManagementOwner(d)
  /\ controllerPermissions[d][c] = {}
  /\ permissions # {}
  /\ Len(controllerList[d]) < MaxControllers
  /\ controllerPermissions' = [controllerPermissions EXCEPT ![d][c] = permissions]
  /\ controllerList' = [controllerList EXCEPT ![d] = Append(@, c)]
  /\ UNCHANGED <<environment, lifecycle, keys, suspensionHistoryByDid, credentials>>

(* Slip: permissions are updated for an address that is not a controller. *)
UpdateAnyPermissions(sender, d, c, permissions) ==
  /\ OnlyOwner(sender, d)
  /\ d \in active
  /\ permissions # {}
  /\ controllerPermissions' = [controllerPermissions EXCEPT ![d][c] = permissions]
  /\ UNCHANGED <<environment, lifecycle, keys, suspensionHistoryByDid, controllerList,
                 credentials>>

UpdateControllerPermissions(sender, d, c, permissions) ==
  /\ OnlyOwner(sender, d)
  /\ d \in active
  /\ controllerPermissions[d][c] # {}
  /\ permissions # {}
  /\ controllerPermissions' = [controllerPermissions EXCEPT ![d][c] = permissions]
  /\ UNCHANGED <<environment, lifecycle, keys, suspensionHistoryByDid, controllerList,
                 credentials>>

(* Slip: a controller of a revoked DID can still be removed. *)
RemoveControllerAnyTime(sender, d, c) ==
  /\ OnlyOwner(sender, d)
  /\ controllerPermissions[d][c] # {}
  /\ controllerPermissions' = [controllerPermissions EXCEPT ![d][c] = {}]
  /\ UNCHANGED <<environment, lifecycle, keys, suspensionHistoryByDid, controllerList,
                 credentials>>

RemoveController(sender, d, c) ==
  /\ OnlyOwner(sender, d)
  /\ d \in active
  /\ controllerPermissions[d][c] # {}
  /\ controllerPermissions' = [controllerPermissions EXCEPT ![d][c] = {}]
  /\ UNCHANGED <<environment, lifecycle, keys, suspensionHistoryByDid, controllerList,
                 credentials>>

------------------------------------------------------------------------------
(* Credentials *)

(* Whoever may revoke for some active DID may revoke any hash: the hash is *)
(* not tied to the DID named in the call.                                  *)
RevokeCredential(sender, d, h) ==
  /\ OnlyOwnerOrControllerWithPermission(sender, d, "CREDENTIAL_REVOCATION")
  /\ d \in active
  /\ revokedCredentialHashes' = revokedCredentialHashes \cup {h}
  /\ UNCHANGED <<environment, lifecycle, keys, suspensionHistoryByDid, controllers,
                 credentialAnchors, consumptionRecords>>

(* Slip: an anchored hash can be anchored again. *)
HashNotZero(h) == h # ZeroHash

HashAnchorable(h) == h # ZeroHash /\ ~ credentialAnchors[h].exists

(* Slip: any uint8 is taken for a mode. *)
LimitPositive(mode, maxUses) == mode # LIMITED \/ maxUses >= 1

PolicyValid(mode, maxUses) ==
  mode \in {UNLIMITED, LIMITED} /\ (mode # LIMITED \/ maxUses >= 1)

(* An anchor may be published while the DID is suspended. *)
AnchorCredential(sender, d, h, credentialType, mode, maxUses) ==
  /\ d \in exists
  /\ d \in active
  /\ HashAnchorable(h)
  /\ CanAnchor(d, sender, credentialType)
  /\ PolicyValid(mode, maxUses)
  /\ credentialAnchors' = [credentialAnchors EXCEPT ![h] =
       [exists |-> TRUE, subjectDid |-> d, publisher |-> sender,
        credentialType |-> credentialType, publishedAt |-> now]]
  /\ consumptionRecords' = [consumptionRecords EXCEPT ![h] =
       [configured |-> TRUE, mode |-> mode, maxUses |-> maxUses, useCount |-> 0]]
  /\ UNCHANGED <<environment, lifecycle, keys, suspensionHistoryByDid, controllers,
                 revokedCredentialHashes>>

(* Anyone may consume, whatever became of the DID or of the credential. *)
ConsumeCredential(h) ==
  /\ consumptionRecords[h].configured
  /\ IsConsumptionAvailable(h)
  /\ consumptionRecords' = IF consumptionRecords[h].mode = UNLIMITED
                           THEN consumptionRecords
                           ELSE [consumptionRecords EXCEPT ![h].useCount = @ + 1]
  /\ UNCHANGED <<environment, lifecycle, keys, suspensionHistoryByDid, controllers,
                 credentialAnchors, revokedCredentialHashes>>

------------------------------------------------------------------------------
EnvironmentStep ==
  \/ NextBlock
  \/ \E token \in Token, to \in Account : MintRobot(token, to) \/ TransferRobot(token, to)
  \/ \E trusted \in SUBSET (Account \X CredentialType) : ChangeTrust(trusted)

LifecycleStep(sender, d) ==
  \/ \E k \in RobotKey, uri \in MetadataURI, signature \in ChallengeSignature :
        RegisterDID(sender, d, k, uri, signature)
  \/ \E k \in RobotKey : UpdatePublicKey(sender, d, k)
  \/ \E uri \in MetadataURI : UpdateMetadataURI(sender, d, uri)
  \/ SuspendDID(sender, d)
  \/ UnsuspendDID(sender, d)
  \/ RevokeDID(sender, d)

ControllerStep(sender, d, c) ==
  \/ \E permissions \in Grant \cup {DefaultPermissions} : AddController(sender, d, c, permissions)
  \/ \E permissions \in Grant : UpdateControllerPermissions(sender, d, c, permissions)
  \/ RemoveController(sender, d, c)

CredentialStep(sender, d, h) ==
  \/ RevokeCredential(sender, d, h)
  \/ \E type \in CredentialType, mode \in ModeInput, maxUses \in 0 .. MaxUses :
        AnchorCredential(sender, d, h, type, mode, maxUses)

Next ==
  \/ EnvironmentStep
  \/ \E sender \in Sender, d \in Token :
        \/ LifecycleStep(sender, d)
        \/ \E c \in Account \cup {ZeroAddress} : ControllerStep(sender, d, c)
        \/ \E h \in Hash : CredentialStep(sender, d, h)
  \/ \E h \in Hash : ConsumeCredential(h)

Spec == Init /\ [][Next]_vars

------------------------------------------------------------------------------
(* Safety *)

(* A list of key entries without gap or overlap, of a DID created at        *)
(* `since': each ends in the second in which the next one starts, and the   *)
(* last one is open iff `open'.                                             *)
KeysChained(h, since, open, time) ==
  /\ h # <<>> /\ h[1].validFrom = since
  /\ Last(h).validUntil = 0 <=> open
  /\ \A i \in DOMAIN h : h[i].validFrom \in 1 .. time /\ h[i].validUntil \in 0 .. time
  /\ \A i \in 1 .. Len(h) - 1 :
        h[i].validUntil = h[i + 1].validFrom /\ h[i].validFrom <= h[i].validUntil
  /\ ~ open => Last(h).validFrom <= Last(h).validUntil

(* The key history of a DID covers its life from registration to revocation *)
(* without gap or overlap; only a DID that is active has an open entry.     *)
(* (registerDID, updatePublicKey, revokeDID, _closeCurrentKeyHistoryEntry)  *)
KeyHistoryChained ==
  \A d \in Token :
    IF d \in exists
    THEN KeysChained(keyHistoryByDid[d], records[d].createdAt, d \in active, now)
    ELSE keyHistoryByDid[d] = <<>>

(* A robot key address names one robot for ever: it stands in one entry of *)
(* one DID's history, and the used-key index holds exactly those keys.     *)
(* (usedRobotKeyAddresses in registerDID and updatePublicKey)              *)
RobotKeysUnique ==
  /\ \A d, e \in Token : \A i \in DOMAIN keyHistoryByDid[d], j \in DOMAIN keyHistoryByDid[e] :
        keyHistoryByDid[d][i].keyAddress = keyHistoryByDid[e][j].keyAddress => d = e /\ i = j
  /\ usedRobotKeyAddresses =
        UNION {{keyHistoryByDid[d][i].keyAddress : i \in DOMAIN keyHistoryByDid[d]} : d \in Token}

(* A list of disjoint suspension intervals in order, since the DID was      *)
(* created, of which only the last may be open.                             *)
IntervalsOrdered(h, since, time) ==
  /\ \A i \in DOMAIN h : h[i].startedAt \in since .. time /\ h[i].endedAt \in 0 .. time
  /\ \A i \in DOMAIN h : h[i].endedAt # 0 => h[i].startedAt <= h[i].endedAt
  /\ \A i \in 1 .. Len(h) - 1 : h[i].endedAt # 0 /\ h[i].endedAt <= h[i + 1].startedAt

(* The suspension history of a DID is such a list, and its last interval is *)
(* open exactly while the DID is suspended, since suspendedAt.              *)
(* (suspendDID, unsuspendDID, revokeDID, _closeOpenSuspensionInterval)      *)
SuspensionHistoryOrdered ==
  \A d \in Token : LET h == suspensionHistoryByDid[d] IN
    /\ h # <<>> => d \in exists
    /\ d \in suspended <=> h # <<>> /\ Last(h).endedAt = 0
    /\ IntervalsOrdered(h, records[d].createdAt, now)
    /\ records[d].suspendedAt = IF d \in suspended THEN Last(h).startedAt ELSE 0

(* The flags, the per-token index and the clock agree. *)
FlagsConsistent ==
  \A d \in Token : LET record == records[d] IN
    /\ d \in suspended => d \in active
    /\ d \in active => d \in exists
    /\ d \in activeDIDByTokenId <=> d \in active
    /\ record.suspendedAt <= record.updatedAt
    /\ d \in exists => 1 <= record.createdAt /\ record.createdAt <= record.updatedAt
    /\ record.updatedAt <= now

(* An interval is open exactly while the DID is suspended, a key entry       *)
(* exactly while it is active; revocation, the last change, closed it.       *)
HistoriesAgree(d) ==
  LET lastKey == Last(keyHistoryByDid[d])
      h == suspensionHistoryByDid[d]
  IN
  /\ d \in suspended <=> h # <<>> /\ Last(h).endedAt = 0
  /\ d \in suspended => Last(h).startedAt = records[d].suspendedAt
  /\ d \in active <=> lastKey.validUntil = 0
  /\ d \notin active => lastKey.validUntil = records[d].updatedAt

(* The flags, the per-token index, the clock and the two histories agree:  *)
(* only an active DID is suspended, the token index holds the active DIDs, *)
(* no timestamp of a record lies in the future, and the open suspension    *)
(* interval and the open key entry are there exactly when the flags say    *)
(* so; a revoked DID, suspended or not, is left with neither.              *)
(* (registerDID, suspendDID, revokeDID, activeDIDByTokenId)                *)
LifecycleFlagsAgree == FlagsConsistent /\ \A d \in exists : HistoriesAgree(d)

(* The interval list and the suspended flag never disagree about the        *)
(* present: a credential stamped with the current second is acceptable iff  *)
(* the DID is active and not suspended.  (isIssuanceAllowedAt, whose        *)
(* intervals are half-open, against the flag that suspendDID and            *)
(* unsuspendDID set)                                                        *)
IssuanceNowFollowsFlag ==
  \A d \in Token : IsIssuanceAllowedAt(d, now) <=> d \in active \ suspended

(* At every second since registration some key may sign for an active DID, *)
(* and two keys may only in a second in which the key was rotated.         *)
(* (_isRobotKeyAuthorizedAt, whose periods are closed at both ends)        *)
SignerUnambiguous ==
  \A d \in active : \A t \in records[d].createdAt .. now :
    /\ \E k \in RobotKey : IsRobotKeyAuthorizedAt(d, k, t)
    /\ \A k, l \in RobotKey :
          k # l /\ IsRobotKeyAuthorizedAt(d, k, t) /\ IsRobotKeyAuthorizedAt(d, l, t)
            => \E i \in 2 .. Len(keyHistoryByDid[d]) : keyHistoryByDid[d][i].validFrom = t

(* getControllers shows the owner and exactly the addresses that hold a     *)
(* permission, after any sequence of additions, updates and removals, and   *)
(* although removeController leaves its entry in the list.                  *)
(* (addController, updateControllerPermissions, removeController)           *)
ControllersShownExactly ==
  \A d \in exists : ToSet(GetControllers(d)) =
      {ManagementOwner(d)} \cup Permitted(d)

(* An anchor was published while its subject was registered and active, and *)
(* a consumption record exists exactly for the anchored hashes.             *)
(* (anchorCredential against registerDID and revokeDID)                     *)
AnchorsWithinLifetime ==
  \A h \in Hash :
    /\ consumptionRecords[h].configured <=> credentialAnchors[h].exists
    /\ credentialAnchors[h].exists =>
         LET d == credentialAnchors[h].subjectDid IN
           /\ h # ZeroHash /\ d \in exists
           /\ credentialAnchors[h].publishedAt \in
                records[d].createdAt .. (IF d \in active THEN now ELSE Last(keyHistoryByDid[d]).validUntil)

(* A limited credential has been used at most maxUses times and an          *)
(* unlimited one is not counted.  (anchorCredential, consumeCredential)     *)
UsesWithinLimit ==
  \A h \in Hash : LET record == consumptionRecords[h] IN
    /\ record.mode = LIMITED => record.useCount <= record.maxUses /\ record.maxUses >= 1
    /\ record.mode = UNLIMITED => record.useCount = 0

------------------------------------------------------------------------------
(* What a step may never do *)

(* What the registry answers about a second that is over does not change as *)
(* long as the DID is not revoked: no suspension, rotation or other call of *)
(* today re-decides whether a credential of yesterday was issued by an      *)
(* authorized key, outside a suspension.                                    *)
(* (isIssuanceAllowedAt and isRobotKeyAuthorizedAt over all the operations) *)
PastAnswersStable ==
  [][\A d \in exists : d \in active' =>
       \A t \in 1 .. now - 1 :
         /\ IsIssuanceAllowedAt(d, t)' <=> IsIssuanceAllowedAt(d, t)
         /\ \A k \in RobotKey :
               IsRobotKeyAuthorizedAt(d, k, t)' <=> IsRobotKeyAuthorizedAt(d, k, t)]_vars

(* Revocation is final: a revoked DID stays revoked, nothing of its record, *)
(* keys, suspensions or controllers changes any more, and no new anchor     *)
(* names it.  (revokeDID, which keeps exists, against every other call)     *)
RevocationFinal ==
  [][\A d \in exists \ active :
       /\ d \in (exists \ active)'
       /\ d \notin activeDIDByTokenId'
       /\ UNCHANGED <<records[d], keyHistoryByDid[d], suspensionHistoryByDid[d],
                      controllerPermissions[d], controllerList[d]>>
       /\ \A h \in Hash : credentialAnchors'[h].exists /\ credentialAnchors'[h].subjectDid = d
                            => credentialAnchors'[h] = credentialAnchors[h]]_vars

(* What is published stays: an anchor is never overwritten, its consumption *)
(* policy is fixed and its count never goes down, a revoked credential      *)
(* stays revoked and a used key stays used.                                 *)
(* (anchorCredential, consumeCredential, revokeCredential)                  *)
PublishedStaysPublished ==
  [][/\ revokedCredentialHashes \subseteq revokedCredentialHashes'
     /\ usedRobotKeyAddresses \subseteq usedRobotKeyAddresses'
     /\ \A h \in Hash : credentialAnchors[h].exists =>
          /\ credentialAnchors'[h] = credentialAnchors[h]
          /\ consumptionRecords'[h].mode = consumptionRecords[h].mode
          /\ consumptionRecords'[h].maxUses = consumptionRecords[h].maxUses
          /\ consumptionRecords'[h].useCount - consumptionRecords[h].useCount \in 0 .. 1]_vars

------------------------------------------------------------------------------
(* A claim of the documentation that the contract does not keep *)

(* summary.md: credentials issued during a suspend window remain permanently *)
(* invalid after unsuspend.  Said of issuance in the current second while    *)
(* the DID is suspended; intervals end before the second of the unsuspend.   *)
RefusalWhileSuspendedIsPermanent ==
  [][\A d \in suspended : ~ IsIssuanceAllowedAt(d, now)']_vars

------------------------------------------------------------------------------
(* The timeline the registry implements *)

Status(d) == CASE d \notin exists            -> "none"
               [] d \in suspended            -> "suspended"
               [] d \in active \ suspended   -> "active"
               [] OTHER                      -> "revoked"

(* The seconds that are over and that some suspension interval covers. *)
BlockedSeconds(d) ==
  {t \in 1 .. now - 1 : \E i \in DOMAIN suspensionHistoryByDid[d] :
                           IntervalCovers(suspensionHistoryByDid[d][i], t)}

(* The keys, with the seconds up to now that their entries cover. *)
SigningSeconds(d) ==
  {s \in Address \X (1 .. now) : \E i \in DOMAIN keyHistoryByDid[d] :
      keyHistoryByDid[d][i].keyAddress = s[1] /\ EntryCovers(keyHistoryByDid[d][i], s[2])}

CurrentKey(d) == IF d \in exists THEN Last(keyHistoryByDid[d]).keyAddress ELSE ZeroAddress

Timeline == INSTANCE DIDTimeline WITH
  DID     <- Token,
  Key     <- Address \ {ZeroAddress},
  NoKey   <- ZeroAddress,
  status  <- [d \in Token |-> Status(d)],
  current <- [d \in Token |-> CurrentKey(d)],
  blocked <- [d \in Token |-> BlockedSeconds(d)],
  signers <- [d \in Token |-> SigningSeconds(d)]

(* The contract's intervals implement the abstract timeline: a past second  *)
(* is blocked iff the DID was suspended when that second ended, and a key   *)
(* signs for a second iff it was the robot key at some moment of it.        *)
ImplementsTimeline == Timeline!Spec
==============================================================================
