----------------------- MODULE RobotDIDRegistry_proofs -----------------------
(* Theorems about RobotDIDRegistry, for every value of its constants. *)
EXTENDS RobotDIDRegistry, FiniteSetTheorems, SequenceTheorems, TLAPS

LEMMA AppendEntry ==
  ASSUME NEW S, NEW s \in Seq(S), NEW e \in S
  PROVE  /\ Append(s, e) \in Seq(S)
         /\ Len(Append(s, e)) = Len(s) + 1
         /\ \A i \in 1 .. Len(s) : Append(s, e)[i] = s[i]
         /\ Append(s, e)[Len(s) + 1] = e
  OBVIOUS

LEMMA AppendLast ==
  ASSUME NEW S, NEW s \in Seq(S), NEW e \in S
  PROVE  Append(s, e) # <<>> /\ Last(Append(s, e)) = e
  BY AppendEntry DEF Last

LEMMA CloseKeyEntryShape ==
  ASSUME NEW h \in Seq(KeyHistoryEntry), h # <<>>, NEW ts \in Nat,
         NEW c, c = CloseCurrentKeyHistoryEntry(h, ts)
  PROVE  /\ c \in Seq(KeyHistoryEntry)
         /\ Len(c) = Len(h)
         /\ \A i \in 1 .. Len(h) - 1 : c[i] = h[i]
         /\ c[Len(h)] = IF h[Len(h)].validUntil = 0
                        THEN [h[Len(h)] EXCEPT !.validUntil = ts] ELSE h[Len(h)]
<1> DEFINE n == Len(h)
           e == [h[n] EXCEPT !.validUntil = ts]
<1>1. n \in 1 .. n /\ n \in Nat
  BY EmptySeq
<1>2. h[n] \in KeyHistoryEntry
  BY <1>1, ElementOfSeq
<1>3. e \in KeyHistoryEntry
  BY <1>2 DEF KeyHistoryEntry
<1>4. c = IF h[n].validUntil = 0 THEN [h EXCEPT ![n] = e] ELSE h
  BY DEF CloseCurrentKeyHistoryEntry, Last
<1>5. /\ [h EXCEPT ![n] = e] \in Seq(KeyHistoryEntry)
      /\ Len([h EXCEPT ![n] = e]) = n
      /\ \A j \in 1 .. n : [h EXCEPT ![n] = e][j] = IF j = n THEN e ELSE h[j]
  <2> HIDE DEF e
  <2> QED BY <1>1, <1>3, ExceptSeq
<1> QED
  BY <1>1, <1>4, <1>5

LEMMA CloseIntervalShape ==
  ASSUME NEW h \in Seq(SuspensionInterval), h # <<>>, NEW ts \in Nat,
         NEW c, c = CloseOpenSuspensionInterval(h, ts)
  PROVE  /\ c \in Seq(SuspensionInterval)
         /\ Len(c) = Len(h)
         /\ \A i \in 1 .. Len(h) - 1 : c[i] = h[i]
         /\ c[Len(h)] = IF h[Len(h)].endedAt = 0
                        THEN [h[Len(h)] EXCEPT !.endedAt = ts] ELSE h[Len(h)]
<1> DEFINE n == Len(h)
           e == [h[n] EXCEPT !.endedAt = ts]
<1>1. n \in 1 .. n /\ n \in Nat
  BY EmptySeq
<1>2. h[n] \in SuspensionInterval
  BY <1>1, ElementOfSeq
<1>3. e \in SuspensionInterval
  BY <1>2 DEF SuspensionInterval
<1>4. c = IF h[n].endedAt = 0 THEN [h EXCEPT ![n] = e] ELSE h
  BY DEF CloseOpenSuspensionInterval, Last
<1>5. /\ [h EXCEPT ![n] = e] \in Seq(SuspensionInterval)
      /\ Len([h EXCEPT ![n] = e]) = n
      /\ \A j \in 1 .. n : [h EXCEPT ![n] = e][j] = IF j = n THEN e ELSE h[j]
  <2> HIDE DEF e
  <2> QED BY <1>1, <1>3, ExceptSeq
<1> QED
  BY <1>1, <1>4, <1>5

LEMMA CloseIntervalType ==
  ASSUME NEW h \in Seq(SuspensionInterval), NEW ts \in Nat
  PROVE  CloseOpenSuspensionInterval(h, ts) \in Seq(SuspensionInterval)
<1>1. CASE h = <<>>
  BY <1>1 DEF CloseOpenSuspensionInterval
<1>2. CASE h # <<>>
  BY <1>2, CloseIntervalShape
<1> QED BY <1>1, <1>2

------------------------------------------------------------------------------
LEMMA TypeInit == Init => TypeOK
<1>1. NoRecord \in DIDRecord
  BY DEF NoRecord, DIDRecord
<1>2. NoConsumption \in ConsumptionRecord
  BY DEF NoConsumption, ConsumptionRecord, UNLIMITED, LIMITED
<1>3. ZeroAddress \in Address
  BY DEF Address
<1>4. \A S : <<>> \in Seq(S)
  OBVIOUS
<1> QED BY <1>1, <1>2, <1>3, <1>4 DEF Init, TypeOK

LEMMA OneMoreUse ==
  ASSUME NEW record \in ConsumptionRecord
  PROVE  [record EXCEPT !.useCount = record.useCount + 1] \in ConsumptionRecord
  BY DEF ConsumptionRecord

LEMMA TypeStep ==
  ASSUME TypeOK, [Next]_vars
  PROVE  TypeOK'
<1> USE DEF TypeOK, environment, lifecycle, keys, controllers, credentials
<1>1. CASE NextBlock
  BY <1>1 DEF NextBlock
<1>2. ASSUME NEW token \in Token, NEW to \in Account,
             MintRobot(token, to) \/ TransferRobot(token, to)
      PROVE  TypeOK'
  BY <1>2 DEF MintRobot, TransferRobot, Address
<1>3. ASSUME NEW trusted \in SUBSET (Account \X CredentialType), ChangeTrust(trusted)
      PROVE  TypeOK'
  <2>1. Account \X CredentialType \subseteq Address \X CredentialType
    BY DEF Address
  <2> QED BY <1>3, <2>1 DEF ChangeTrust
<1>4. ASSUME NEW sender \in Sender, NEW d \in Token, NEW k \in RobotKey,
             NEW uri \in MetadataURI, NEW signature, RegisterDID(sender, d, k, uri, signature)
      PROVE  TypeOK'
  <2>1. OpenEntry(k) \in KeyHistoryEntry
    BY DEF OpenEntry, KeyHistoryEntry, Address
  <2>2. keyHistoryByDid' \in [Token -> Seq(KeyHistoryEntry)]
    BY <1>4, <2>1, AppendEntry DEF RegisterDID
  <2>3. records' \in [Token -> DIDRecord]
    BY <1>4 DEF RegisterDID, DIDRecord
  <2> QED BY <1>4, <2>2, <2>3 DEF RegisterDID, Address
<1>5. ASSUME NEW sender \in Sender, NEW d \in Token, NEW k \in RobotKey,
             UpdatePublicKey(sender, d, k)
      PROVE  TypeOK'
  <2> DEFINE closed == CloseCurrentKeyHistoryEntry(keyHistoryByDid[d], now)
  <2>1. OpenEntry(k) \in KeyHistoryEntry
    BY DEF OpenEntry, KeyHistoryEntry, Address
  <2>2. closed \in Seq(KeyHistoryEntry)
    BY <1>5, CloseKeyEntryShape DEF UpdatePublicKey
  <2>3. keyHistoryByDid' \in [Token -> Seq(KeyHistoryEntry)]
    BY <1>5, <2>1, <2>2, AppendEntry DEF UpdatePublicKey
  <2>4. records' \in [Token -> DIDRecord]
    BY <1>5 DEF UpdatePublicKey, DIDRecord
  <2> QED BY <1>5, <2>3, <2>4 DEF UpdatePublicKey, Address
<1>6. ASSUME NEW sender \in Sender, NEW d \in Token, NEW uri \in MetadataURI,
             UpdateMetadataURI(sender, d, uri)
      PROVE  TypeOK'
  <2>1. records' \in [Token -> DIDRecord]
    BY <1>6 DEF UpdateMetadataURI, DIDRecord
  <2> QED BY <1>6, <2>1 DEF UpdateMetadataURI
<1>7. ASSUME NEW sender \in Sender, NEW d \in Token, SuspendDID(sender, d)
      PROVE  TypeOK'
  <2>1. [startedAt |-> now, endedAt |-> 0] \in SuspensionInterval
    BY DEF SuspensionInterval
  <2>2. suspensionHistoryByDid' \in [Token -> Seq(SuspensionInterval)]
    BY <1>7, <2>1, AppendEntry DEF SuspendDID
  <2>3. records' \in [Token -> DIDRecord]
    BY <1>7 DEF SuspendDID, DIDRecord
  <2> QED BY <1>7, <2>2, <2>3 DEF SuspendDID
<1>8. ASSUME NEW sender \in Sender, NEW d \in Token, UnsuspendDID(sender, d)
      PROVE  TypeOK'
  <2>1. CloseOpenSuspensionInterval(suspensionHistoryByDid[d], now) \in Seq(SuspensionInterval)
    BY CloseIntervalType
  <2>2. records' \in [Token -> DIDRecord]
    BY <1>8 DEF UnsuspendDID, DIDRecord
  <2> QED BY <1>8, <2>1, <2>2 DEF UnsuspendDID
<1>9. ASSUME NEW sender \in Sender, NEW d \in Token, RevokeDID(sender, d)
      PROVE  TypeOK'
  <2>1. CloseOpenSuspensionInterval(suspensionHistoryByDid[d], now) \in Seq(SuspensionInterval)
    BY CloseIntervalType
  <2>2. CloseCurrentKeyHistoryEntry(keyHistoryByDid[d], now) \in Seq(KeyHistoryEntry)
    BY <1>9, CloseKeyEntryShape DEF RevokeDID
  <2>3. records' \in [Token -> DIDRecord]
    BY <1>9, ZenonT(30) DEF RevokeDID, DIDRecord
  <2> QED BY <1>9, <2>1, <2>2, <2>3 DEF RevokeDID
<1>10. ASSUME NEW sender \in Sender, NEW d \in Token, NEW c \in Account \cup {ZeroAddress},
              ControllerStep(sender, d, c)
       PROVE  TypeOK'
  <2>1. c \in Address /\ DefaultPermissions \in SUBSET Permission
    BY DEF Address, DefaultPermissions, Permission
  <2>2. ASSUME NEW permissions \in SUBSET Permission, AddController(sender, d, c, permissions)
        PROVE  TypeOK'
    <3>1. controllerList' \in [Token -> Seq(Address)]
      BY <2>1, <2>2, AppendEntry DEF AddController
    <3> QED BY <2>1, <2>2, <3>1 DEF AddController
  <2>3. ASSUME NEW permissions \in SUBSET Permission,
               UpdateControllerPermissions(sender, d, c, permissions)
        PROVE  TypeOK'
    BY <2>1, <2>3 DEF UpdateControllerPermissions
  <2>4. ASSUME RemoveController(sender, d, c)
        PROVE  TypeOK'
    BY <2>1, <2>4 DEF RemoveController
  <2> QED BY <1>10, <2>1, <2>2, <2>3, <2>4, GrantAssumption DEF ControllerStep
<1>11. ASSUME NEW sender \in Sender, NEW d \in Token, NEW h \in Hash,
              CredentialStep(sender, d, h)
       PROVE  TypeOK'
  <2>1. ASSUME RevokeCredential(sender, d, h)
        PROVE  TypeOK'
    BY <2>1 DEF RevokeCredential
  <2>2. ASSUME NEW type \in CredentialType, NEW mode \in ModeInput, NEW maxUses \in 0 .. MaxUses,
               AnchorCredential(sender, d, h, type, mode, maxUses)
        PROVE  TypeOK'
    <3>1. [exists |-> TRUE, subjectDid |-> d, publisher |-> sender,
           credentialType |-> type, publishedAt |-> now] \in CredentialAnchor
      BY DEF CredentialAnchor, Sender, Address
    <3>2. [configured |-> TRUE, mode |-> mode, maxUses |-> maxUses, useCount |-> 0]
            \in ConsumptionRecord
      BY <2>2, BoundsAssumption DEF AnchorCredential, PolicyValid, ConsumptionRecord
    <3> QED BY <2>2, <3>1, <3>2 DEF AnchorCredential
  <2> QED BY <1>11, <2>1, <2>2 DEF CredentialStep
<1>12. ASSUME NEW h \in Hash, ConsumeCredential(h)
       PROVE  TypeOK'
  <2> DEFINE record == consumptionRecords[h]
             used   == [record EXCEPT !.useCount = record.useCount + 1]
  <2>1. record \in ConsumptionRecord
    OBVIOUS
  <2>2. used \in ConsumptionRecord
    BY <2>1, OneMoreUse
  <2>3. consumptionRecords' = IF record.mode = UNLIMITED THEN consumptionRecords
                              ELSE [consumptionRecords EXCEPT ![h] = used]
    BY <1>12 DEF ConsumeCredential
  <2>4. consumptionRecords' \in [Hash -> ConsumptionRecord]
    <3> HIDE DEF record, used
    <3> QED BY <2>1, <2>2, <2>3
  <2>5. UNCHANGED <<environment, lifecycle, keys, suspensionHistoryByDid, controllers,
                    credentialAnchors, revokedCredentialHashes>>
    BY <1>12 DEF ConsumeCredential
  <2> QED BY <2>4, <2>5
<1>13. CASE UNCHANGED vars
  BY <1>13 DEF vars
<1> QED
  BY <1>1, <1>2, <1>3, <1>4, <1>5, <1>6, <1>7, <1>8, <1>9, <1>10, <1>11, <1>12, <1>13
  DEF Next, EnvironmentStep, LifecycleStep

(* Type correctness: every call leaves the storage of the contract well     *)
(* typed, whatever the callers, keys, hashes and bounds.                    *)
THEOREM TypeCorrect == Spec => []TypeOK
  BY TypeInit, TypeStep, PTL DEF Spec

------------------------------------------------------------------------------
(* The steps that touch neither the clock nor a DID's record and histories  *)
(* are all alike for the invariants about those.                            *)
Quiet == UNCHANGED <<now, lifecycle, keys, suspensionHistoryByDid>>

LEMMA StepKinds ==
  ASSUME [Next]_vars
  PROVE  \/ Quiet
         \/ NextBlock
         \/ \E sender \in Sender, d \in Token : LifecycleStep(sender, d)
<1> USE DEF Quiet
<1>1. CASE UNCHANGED vars
  BY <1>1 DEF vars, environment
<1>2. CASE EnvironmentStep
  BY <1>2 DEF EnvironmentStep, MintRobot, TransferRobot, ChangeTrust
<1>3. ASSUME NEW sender \in Sender, NEW d \in Token, NEW c \in Account \cup {ZeroAddress},
             ControllerStep(sender, d, c)
      PROVE  Quiet
  BY <1>3 DEF ControllerStep, AddController, UpdateControllerPermissions, RemoveController,
              environment
<1>4. ASSUME NEW sender \in Sender, NEW d \in Token, NEW h \in Hash, CredentialStep(sender, d, h)
      PROVE  Quiet
  BY <1>4 DEF CredentialStep, RevokeCredential, AnchorCredential, environment
<1>5. ASSUME NEW h \in Hash, ConsumeCredential(h)
      PROVE  Quiet
  BY <1>5 DEF ConsumeCredential, environment
<1> QED
  BY <1>1, <1>2, <1>3, <1>4, <1>5 DEF Next

------------------------------------------------------------------------------
(* What each lifecycle call does to the DID it names; the others keep their *)
(* record and histories.                                                    *)
Elsewhere(d) ==
  /\ now' = now
  /\ \A e \in Token : e # d => /\ records'[e] = records[e]
                               /\ keyHistoryByDid'[e] = keyHistoryByDid[e]
                               /\ suspensionHistoryByDid'[e] = suspensionHistoryByDid[e]

Stamps(d, createdAt, updatedAt, suspendedAt) ==
  /\ records'[d].createdAt = createdAt
  /\ records'[d].updatedAt = updatedAt
  /\ records'[d].suspendedAt = suspendedAt

LEMMA RegisterEffect ==
  ASSUME TypeOK, NEW sender, NEW d \in Token, NEW k \in RobotKey, NEW uri, NEW signature,
         RegisterDID(sender, d, k, uri, signature)
  PROVE  /\ Elsewhere(d)
         /\ Stamps(d, now, now, 0)
         /\ d \notin exists /\ exists' = exists \cup {d}
         /\ active' = active \cup {d} /\ activeDIDByTokenId' = activeDIDByTokenId \cup {d}
         /\ suspended' = suspended \ {d}
         /\ keyHistoryByDid'[d] = Append(keyHistoryByDid[d], OpenEntry(k))
         /\ suspensionHistoryByDid'[d] = suspensionHistoryByDid[d]
         /\ KeyUsable(k) /\ usedRobotKeyAddresses' = usedRobotKeyAddresses \cup {k}
  BY DEF RegisterDID, TypeOK, Elsewhere, Stamps, environment

LEMMA RotateEffect ==
  ASSUME TypeOK, NEW sender, NEW d \in Token, NEW k \in RobotKey, UpdatePublicKey(sender, d, k)
  PROVE  /\ Elsewhere(d)
         /\ Stamps(d, records[d].createdAt, now, records[d].suspendedAt)
         /\ d \in exists /\ d \in active /\ d \notin suspended
         /\ UNCHANGED <<exists, active, suspended, activeDIDByTokenId>>
         /\ keyHistoryByDid[d] # <<>>
         /\ keyHistoryByDid'[d] =
              Append(CloseCurrentKeyHistoryEntry(keyHistoryByDid[d], now), OpenEntry(k))
         /\ suspensionHistoryByDid'[d] = suspensionHistoryByDid[d]
         /\ KeyUsable(k) /\ usedRobotKeyAddresses' = usedRobotKeyAddresses \cup {k}
<1>1. records' = [records EXCEPT ![d] = [records[d] EXCEPT !.updatedAt = now]]
  BY DEF UpdatePublicKey
<1>2. records[d] \in DIDRecord
  BY DEF TypeOK
<1>3. Stamps(d, records[d].createdAt, now, records[d].suspendedAt)
  BY <1>1, <1>2 DEF Stamps, TypeOK, DIDRecord
<1> QED
  BY <1>1, <1>3 DEF UpdatePublicKey, OnlyOwnerOrControllerWithPermission, TypeOK, Elsewhere,
                    environment

LEMMA MetadataEffect ==
  ASSUME TypeOK, NEW sender, NEW d \in Token, NEW uri, UpdateMetadataURI(sender, d, uri)
  PROVE  /\ Elsewhere(d)
         /\ Stamps(d, records[d].createdAt, now, records[d].suspendedAt)
         /\ d \in exists /\ d \in active
         /\ UNCHANGED <<exists, active, suspended, activeDIDByTokenId, keyHistoryByDid,
                        suspensionHistoryByDid, usedRobotKeyAddresses>>
<1>1. records' = [records EXCEPT ![d] = [records[d] EXCEPT !.metadataURI = uri,
                                                           !.updatedAt = now]]
  BY DEF UpdateMetadataURI
<1>2. records[d] \in DIDRecord
  BY DEF TypeOK
<1>3. Stamps(d, records[d].createdAt, now, records[d].suspendedAt)
  BY <1>1, <1>2 DEF Stamps, TypeOK, DIDRecord
<1> QED
  BY <1>1, <1>3 DEF UpdateMetadataURI, OnlyOwnerOrController, TypeOK, Elsewhere, environment, keys

LEMMA SuspendEffect ==
  ASSUME TypeOK, NEW sender, NEW d \in Token, SuspendDID(sender, d)
  PROVE  /\ Elsewhere(d)
         /\ Stamps(d, records[d].createdAt, now, now)
         /\ d \in exists /\ d \in active /\ d \notin suspended
         /\ suspended' = suspended \cup {d}
         /\ UNCHANGED <<exists, active, activeDIDByTokenId, keyHistoryByDid, usedRobotKeyAddresses>>
         /\ suspensionHistoryByDid'[d] =
              Append(suspensionHistoryByDid[d], [startedAt |-> now, endedAt |-> 0])
<1>1. records' = [records EXCEPT ![d] = [records[d] EXCEPT !.suspendedAt = now,
                                                           !.updatedAt = now]]
  BY DEF SuspendDID
<1>2. records[d] \in DIDRecord
  BY DEF TypeOK
<1>3. Stamps(d, records[d].createdAt, now, now)
  BY <1>1, <1>2 DEF Stamps, TypeOK, DIDRecord
<1> QED
  BY <1>1, <1>3 DEF SuspendDID, OnlyOwner, TypeOK, Elsewhere, environment, keys

LEMMA UnsuspendEffect ==
  ASSUME TypeOK, NEW sender, NEW d \in Token, UnsuspendDID(sender, d)
  PROVE  /\ Elsewhere(d)
         /\ Stamps(d, records[d].createdAt, now, 0)
         /\ d \in exists /\ d \in active /\ d \in suspended
         /\ suspended' = suspended \ {d}
         /\ UNCHANGED <<exists, active, activeDIDByTokenId, keyHistoryByDid, usedRobotKeyAddresses>>
         /\ suspensionHistoryByDid'[d] =
              CloseOpenSuspensionInterval(suspensionHistoryByDid[d], now)
<1>1. records' = [records EXCEPT ![d] = [records[d] EXCEPT !.suspendedAt = 0,
                                                           !.updatedAt = now]]
  BY DEF UnsuspendDID
<1>2. records[d] \in DIDRecord
  BY DEF TypeOK
<1>3. Stamps(d, records[d].createdAt, now, 0)
  BY <1>1, <1>2 DEF Stamps, TypeOK, DIDRecord
<1> QED
  BY <1>1, <1>3 DEF UnsuspendDID, OnlyOwner, TypeOK, Elsewhere, environment, keys

LEMMA RevokeEffect ==
  ASSUME TypeOK, NEW sender, NEW d \in Token, RevokeDID(sender, d)
  PROVE  /\ Elsewhere(d)
         /\ Stamps(d, records[d].createdAt, now, 0)
         /\ d \in exists /\ d \in active
         /\ active' = active \ {d} /\ suspended' = suspended \ {d}
         /\ activeDIDByTokenId' = activeDIDByTokenId \ {d}
         /\ UNCHANGED <<exists, usedRobotKeyAddresses>>
         /\ keyHistoryByDid[d] # <<>>
         /\ keyHistoryByDid'[d] = CloseCurrentKeyHistoryEntry(keyHistoryByDid[d], now)
         /\ suspensionHistoryByDid'[d] =
              IF d \in suspended THEN CloseOpenSuspensionInterval(suspensionHistoryByDid[d], now)
              ELSE suspensionHistoryByDid[d]
<1>1. records' = [records EXCEPT ![d] = [records[d] EXCEPT !.suspendedAt = 0,
                                                           !.updatedAt = now]]
  BY DEF RevokeDID
<1>2. records[d] \in DIDRecord
  BY DEF TypeOK
<1>3. Stamps(d, records[d].createdAt, now, 0)
  BY <1>1, <1>2 DEF Stamps, TypeOK, DIDRecord
<1> QED
  BY <1>1, <1>3 DEF RevokeDID, OnlyOwner, TypeOK, Elsewhere, environment

------------------------------------------------------------------------------
(* The registry's flags, its per-token index and its timestamps agree in    *)
(* every state: in particular a revoked DID is never left suspended.        *)
LEMMA RecordTimes ==
  ASSUME TypeOK, NEW d \in Token
  PROVE  /\ now \in Nat /\ now >= 1
         /\ records[d].createdAt \in Nat
         /\ records[d].updatedAt \in Nat
         /\ records[d].suspendedAt \in Nat
<1>1. records[d] \in DIDRecord
  BY DEF TypeOK
<1>2. now \in Nat /\ now >= 1
  BY DEF TypeOK
<1>3. records[d].createdAt \in Nat /\ records[d].updatedAt \in Nat
  BY <1>1 DEF DIDRecord
<1>4. records[d].suspendedAt \in Nat
  BY <1>1 DEF DIDRecord
<1> QED
  BY <1>2, <1>3, <1>4

LEMMA FlagsInit == Init => FlagsConsistent
<1>1. ASSUME Init, NEW d \in Token
      PROVE  /\ records[d].suspendedAt = 0 /\ records[d].updatedAt = 0
             /\ now = 1
  BY <1>1 DEF Init, NoRecord
<1>2. Init => suspended = {} /\ active = {} /\ exists = {} /\ activeDIDByTokenId = {}
  BY DEF Init
<1> QED
  BY <1>1, <1>2 DEF FlagsConsistent

LEMMA FlagsStep ==
  ASSUME TypeOK, FlagsConsistent, [Next]_vars
  PROVE  FlagsConsistent'
<1>1. CASE Quiet
  BY <1>1 DEF Quiet, lifecycle, FlagsConsistent
<1>2. CASE NextBlock
  BY <1>2, RecordTimes DEF NextBlock, lifecycle, FlagsConsistent
<1>3. ASSUME NEW sender \in Sender, NEW d \in Token, LifecycleStep(sender, d)
      PROVE  FlagsConsistent'
  <2> USE RecordTimes DEF Elsewhere, Stamps, FlagsConsistent
  <2>1. ASSUME NEW k \in RobotKey, NEW uri \in MetadataURI, NEW signature,
               RegisterDID(sender, d, k, uri, signature)
        PROVE  FlagsConsistent'
    <3>1. /\ Elsewhere(d) /\ Stamps(d, now, now, 0)
          /\ exists' = exists \cup {d} /\ active' = active \cup {d}
          /\ activeDIDByTokenId' = activeDIDByTokenId \cup {d} /\ suspended' = suspended \ {d}
      BY <2>1, RegisterEffect
    <3> QED BY <3>1
  <2>2. ASSUME NEW k \in RobotKey, UpdatePublicKey(sender, d, k)
        PROVE  FlagsConsistent'
    <3>1. /\ Elsewhere(d) /\ Stamps(d, records[d].createdAt, now, records[d].suspendedAt)
          /\ UNCHANGED <<exists, active, suspended, activeDIDByTokenId>>
      BY <2>2, RotateEffect
    <3> QED BY <3>1
  <2>3. ASSUME NEW uri \in MetadataURI, UpdateMetadataURI(sender, d, uri)
        PROVE  FlagsConsistent'
    BY <2>3, MetadataEffect
  <2>4. CASE SuspendDID(sender, d)
    BY <2>4, SuspendEffect
  <2>5. CASE UnsuspendDID(sender, d)
    BY <2>5, UnsuspendEffect
  <2>6. CASE RevokeDID(sender, d)
    BY <2>6, RevokeEffect
  <2> QED BY <1>3, <2>1, <2>2, <2>3, <2>4, <2>5, <2>6 DEF LifecycleStep
<1> QED
  BY <1>1, <1>2, <1>3, StepKinds

LEMMA FlagsAlwaysConsistent == Spec => []FlagsConsistent
<1>1. TypeOK /\ FlagsConsistent /\ [Next]_vars => FlagsConsistent'
  BY FlagsStep
<1> QED
  BY <1>1, FlagsInit, TypeCorrect, PTL DEF Spec

------------------------------------------------------------------------------
(* Key entries stay chained as the list grows. *)
LEMMA KeysFirst ==
  ASSUME NEW t \in Nat, t >= 1, NEW e \in KeyHistoryEntry, e.validFrom = t, e.validUntil = 0
  PROVE  KeysChained(Append(<<>>, e), t, TRUE, t)
<1>1. Append(<<>>, e) = <<e>>
  OBVIOUS
<1> QED
  BY <1>1 DEF KeysChained, Last

LEMMA KeysLater ==
  ASSUME NEW h \in Seq(KeyHistoryEntry), NEW since, NEW open \in BOOLEAN, NEW t \in Nat,
         KeysChained(h, since, open, t)
  PROVE  KeysChained(h, since, open, t + 1)
  BY DEF KeysChained

LEMMA KeysClosed ==
  ASSUME NEW h \in Seq(KeyHistoryEntry), NEW since, NEW t \in Nat, t >= 1,
         KeysChained(h, since, TRUE, t), NEW c, c = CloseCurrentKeyHistoryEntry(h, t)
  PROVE  KeysChained(c, since, FALSE, t)
<1> DEFINE n == Len(h)
<1>1. n \in Nat /\ n >= 1 /\ h # <<>> /\ h[n].validUntil = 0 /\ h[n] \in KeyHistoryEntry
  BY ElementOfSeq, EmptySeq DEF KeysChained, Last
<1>a. /\ c \in Seq(KeyHistoryEntry) /\ Len(c) = n
      /\ \A i \in 1 .. n - 1 : c[i] = h[i]
      /\ c[n] = [h[n] EXCEPT !.validUntil = t]
  BY <1>1, CloseKeyEntryShape
<1>b. c[n].validUntil = t /\ c[n].validFrom = h[n].validFrom
  BY <1>1, <1>a DEF KeyHistoryEntry
<1>2. /\ Len(c) = n /\ DOMAIN c = 1 .. n /\ DOMAIN h = 1 .. n /\ c # <<>>
      /\ \A i \in 1 .. n - 1 : c[i] = h[i]
      /\ c[n].validUntil = t /\ c[n].validFrom = h[n].validFrom
  BY <1>1, <1>a, <1>b
<1>3. \A i \in 1 .. n : c[i].validFrom = h[i].validFrom
  BY <1>1, <1>2
<1>4. \A i \in 1 .. n : h[i].validFrom \in 1 .. t /\ h[i].validUntil \in 0 .. t
  BY <1>2 DEF KeysChained
<1>5. Last(c) = c[n] /\ h[1].validFrom = since
  BY <1>2 DEF Last, KeysChained
<1>6. \A i \in 1 .. n - 1 : h[i].validUntil = h[i + 1].validFrom /\ h[i].validFrom <= h[i].validUntil
  BY DEF KeysChained
<1>7. \A i \in 1 .. n - 1 : c[i].validUntil = c[i + 1].validFrom /\ c[i].validFrom <= c[i].validUntil
  BY <1>1, <1>2, <1>3, <1>6
<1>8. \A i \in 1 .. n : c[i].validFrom \in 1 .. t /\ c[i].validUntil \in 0 .. t
  BY <1>1, <1>2, <1>3, <1>4
<1>9. c[1].validFrom = since /\ c[n].validFrom <= c[n].validUntil
  BY <1>1, <1>2, <1>3, <1>5, <1>8
<1> QED
  BY <1>1, <1>2, <1>5, <1>7, <1>8, <1>9 DEF KeysChained

LEMMA ClosedLast ==
  ASSUME NEW h \in Seq(KeyHistoryEntry), h # <<>>, NEW since, NEW t \in Nat,
         KeysChained(h, since, TRUE, t)
  PROVE  Last(CloseCurrentKeyHistoryEntry(h, t)).validUntil = t
<1> DEFINE n == Len(h)
           c == CloseCurrentKeyHistoryEntry(h, t)
<1>1. n \in Nat /\ n >= 1 /\ h[n].validUntil = 0 /\ h[n] \in KeyHistoryEntry
  BY ElementOfSeq, EmptySeq DEF KeysChained, Last
<1>2. Len(c) = n /\ c[n] = [h[n] EXCEPT !.validUntil = t]
  BY <1>1, CloseKeyEntryShape
<1>3. Last(c) = c[n]
  <2> HIDE DEF c
  <2> QED BY <1>2 DEF Last
<1> HIDE DEF c
<1>4. c[n].validUntil = t
  BY <1>1, <1>2 DEF KeyHistoryEntry
<1> QED BY <1>3, <1>4 DEF c

LEMMA KeysExtended ==
  ASSUME NEW h \in Seq(KeyHistoryEntry), NEW since, NEW t \in Nat, t >= 1,
         KeysChained(h, since, FALSE, t), Last(h).validUntil = t,
         NEW e \in KeyHistoryEntry, e.validFrom = t, e.validUntil = 0,
         NEW c, c = Append(h, e)
  PROVE  KeysChained(c, since, TRUE, t)
<1> DEFINE n == Len(h)
<1>1. n \in Nat /\ n >= 1 /\ h # <<>>
  BY EmptySeq DEF KeysChained
<1>2. /\ Len(c) = n + 1 /\ DOMAIN c = 1 .. n + 1 /\ DOMAIN h = 1 .. n /\ c # <<>>
      /\ \A i \in 1 .. n : c[i] = h[i]
      /\ c[n + 1] = e
  BY <1>1, AppendEntry
<1>3. /\ \A i \in 1 .. n : h[i].validFrom \in 1 .. t /\ h[i].validUntil \in 0 .. t
      /\ \A i \in 1 .. n - 1 : h[i].validUntil = h[i + 1].validFrom
                               /\ h[i].validFrom <= h[i].validUntil
      /\ h[n].validUntil = t /\ h[n].validFrom <= h[n].validUntil
      /\ h[1].validFrom = since
  BY <1>2 DEF KeysChained, Last
<1>4. \A i \in 1 .. n + 1 : c[i].validFrom \in 1 .. t /\ c[i].validUntil \in 0 .. t
  BY <1>1, <1>2, <1>3
<1>5. \A i \in 1 .. n : c[i].validUntil = c[i + 1].validFrom /\ c[i].validFrom <= c[i].validUntil
  <2> SUFFICES ASSUME NEW i \in 1 .. n
               PROVE  c[i].validUntil = c[i + 1].validFrom /\ c[i].validFrom <= c[i].validUntil
    OBVIOUS
  <2>1. CASE i = n
    BY <1>1, <1>2, <1>3, <2>1
  <2>2. CASE i # n
    <3>1. i \in 1 .. n - 1 /\ i + 1 \in 1 .. n
      BY <1>1, <2>2
    <3> QED BY <1>2, <1>3, <3>1
  <2> QED BY <2>1, <2>2
<1>6. Last(c) = e /\ c[1].validFrom = since
  BY <1>1, <1>2, <1>3 DEF Last
<1> QED
  BY <1>1, <1>2, <1>4, <1>5, <1>6 DEF KeysChained

LEMMA OpenEntryType ==
  ASSUME TypeOK, NEW k \in RobotKey
  PROVE  /\ OpenEntry(k) \in KeyHistoryEntry
         /\ OpenEntry(k).validFrom = now /\ OpenEntry(k).validUntil = 0
         /\ OpenEntry(k).keyAddress = k
  BY DEF TypeOK, OpenEntry, KeyHistoryEntry, Address

LEMMA KeysInit == Init => KeyHistoryChained
  BY DEF Init, KeyHistoryChained

LEMMA KeysStep ==
  ASSUME TypeOK, KeyHistoryChained, [Next]_vars
  PROVE  KeyHistoryChained'
<1> DEFINE Chained(e) == IF e \in exists
                         THEN KeysChained(keyHistoryByDid[e], records[e].createdAt, e \in active, now)
                         ELSE keyHistoryByDid[e] = <<>>
<1> SUFFICES ASSUME NEW e \in Token
             PROVE  Chained(e)'
  BY DEF KeyHistoryChained
<1>1. Chained(e) /\ now \in Nat /\ now >= 1 /\ keyHistoryByDid[e] \in Seq(KeyHistoryEntry)
  BY DEF KeyHistoryChained, TypeOK
<1>2. ASSUME now' = now, keyHistoryByDid'[e] = keyHistoryByDid[e],
             records'[e].createdAt = records[e].createdAt,
             e \in exists' <=> e \in exists, (e \in active') = (e \in active)
      PROVE  Chained(e)'
  BY <1>1, <1>2
<1>3. CASE Quiet
  BY <1>2, <1>3 DEF Quiet, lifecycle, keys
<1>4. CASE NextBlock
  <2>1. /\ now' = now + 1 /\ keyHistoryByDid' = keyHistoryByDid
        /\ records' = records /\ exists' = exists /\ active' = active
    BY <1>4 DEF NextBlock, lifecycle, keys
  <2>2. (e \in active) \in BOOLEAN
    OBVIOUS
  <2>3. CASE e \in exists
    BY <1>1, <2>1, <2>2, <2>3, KeysLater
  <2>4. CASE e \notin exists
    BY <1>1, <2>1, <2>4
  <2> QED BY <2>3, <2>4
<1>5. ASSUME NEW sender \in Sender, NEW d \in Token, LifecycleStep(sender, d)
      PROVE  Chained(e)'
  <2>1. ASSUME NEW k \in RobotKey, NEW uri \in MetadataURI, NEW signature,
               RegisterDID(sender, d, k, uri, signature)
        PROVE  Chained(e)'
    <3>1. CASE e # d
      <4>1. /\ now' = now /\ keyHistoryByDid'[e] = keyHistoryByDid[e]
            /\ records'[e].createdAt = records[e].createdAt
        BY <2>1, <3>1, RegisterEffect, ZenonT(30) DEF Elsewhere
      <4>2. exists' = exists \cup {d} /\ active' = active \cup {d}
        BY <2>1, RegisterEffect
      <4>3. (e \in exists' <=> e \in exists) /\ (e \in active' <=> e \in active)
        BY <3>1, <4>2
      <4> QED BY <1>2, <4>1, <4>3
    <3>2. CASE e = d
      <4>1. /\ d \notin exists /\ e \in exists' /\ e \in active' /\ now' = now
            /\ records'[e].createdAt = now
            /\ keyHistoryByDid'[e] = Append(keyHistoryByDid[e], OpenEntry(k))
        BY <2>1, <3>2, RegisterEffect DEF Elsewhere, Stamps
      <4>2. KeysChained(Append(<<>>, OpenEntry(k)), now, TRUE, now)
        BY <1>1, OpenEntryType, KeysFirst
      <4>3. keyHistoryByDid'[e] = Append(<<>>, OpenEntry(k)) /\ (e \in active') = TRUE
        BY <1>1, <3>2, <4>1
      <4> QED BY <4>1, <4>2, <4>3
    <3> QED BY <3>1, <3>2
  <2>2. ASSUME NEW k \in RobotKey, UpdatePublicKey(sender, d, k)
        PROVE  Chained(e)'
    <3>1. CASE e # d
      BY <1>2, <2>2, <3>1, RotateEffect DEF Elsewhere
    <3>2. CASE e = d
      <4> DEFINE closed == CloseCurrentKeyHistoryEntry(keyHistoryByDid[e], now)
      <4>1. /\ e \in exists /\ e \in exists' /\ e \in active /\ e \in active' /\ now' = now
            /\ records'[e].createdAt = records[e].createdAt
            /\ keyHistoryByDid[e] # <<>>
            /\ keyHistoryByDid'[e] = Append(closed, OpenEntry(k))
        <5>1. /\ Elsewhere(d) /\ Stamps(d, records[d].createdAt, now, records[d].suspendedAt)
              /\ d \in exists /\ d \in active /\ UNCHANGED <<exists, active>>
              /\ keyHistoryByDid[d] # <<>>
              /\ keyHistoryByDid'[d] =
                   Append(CloseCurrentKeyHistoryEntry(keyHistoryByDid[d], now), OpenEntry(k))
          BY <2>2, RotateEffect
        <5>2. now' = now /\ records'[d].createdAt = records[d].createdAt
          BY <5>1 DEF Elsewhere, Stamps
        <5> QED BY <3>2, <5>1, <5>2
      <4>2. (e \in active) = TRUE /\ (e \in active') = TRUE
        BY <4>1
      <4>3. KeysChained(keyHistoryByDid[e], records[e].createdAt, TRUE, now)
        BY <1>1, <4>1, <4>2
      <4>4. /\ closed \in Seq(KeyHistoryEntry)
            /\ KeysChained(closed, records[e].createdAt, FALSE, now)
        BY <1>1, <4>1, <4>3, KeysClosed, CloseKeyEntryShape
      <4>5. Last(closed).validUntil = now
        BY <1>1, <4>1, <4>3, ClosedLast
      <4>6. KeysChained(Append(closed, OpenEntry(k)), records[e].createdAt, TRUE, now)
        <5> HIDE DEF closed
        <5> QED BY <1>1, <4>4, <4>5, OpenEntryType, KeysExtended
      <4> QED BY <4>1, <4>2, <4>6
    <3> QED BY <3>1, <3>2
  <2>3. ASSUME NEW uri \in MetadataURI, UpdateMetadataURI(sender, d, uri)
        PROVE  Chained(e)'
    BY <1>2, <2>3, MetadataEffect DEF Elsewhere, Stamps
  <2>4. CASE SuspendDID(sender, d)
    BY <1>2, <2>4, SuspendEffect DEF Elsewhere, Stamps
  <2>5. CASE UnsuspendDID(sender, d)
    BY <1>2, <2>5, UnsuspendEffect DEF Elsewhere, Stamps
  <2>6. CASE RevokeDID(sender, d)
    <3>1. CASE e # d
      BY <1>2, <2>6, <3>1, RevokeEffect DEF Elsewhere
    <3>2. CASE e = d
      <4> DEFINE closed == CloseCurrentKeyHistoryEntry(keyHistoryByDid[e], now)
      <4>1. /\ e \in exists /\ e \in exists' /\ e \in active /\ e \notin active' /\ now' = now
            /\ records'[e].createdAt = records[e].createdAt
            /\ keyHistoryByDid'[e] = closed
        BY <2>6, <3>2, RevokeEffect DEF Elsewhere, Stamps
      <4>2. (e \in active) = TRUE /\ (e \in active') = FALSE
        BY <4>1
      <4>3. KeysChained(keyHistoryByDid[e], records[e].createdAt, TRUE, now)
        BY <1>1, <4>1, <4>2
      <4>4. KeysChained(closed, records[e].createdAt, FALSE, now)
        BY <1>1, <4>3, KeysClosed
      <4> QED BY <4>1, <4>2, <4>4
    <3> QED BY <3>1, <3>2
  <2> QED BY <1>5, <2>1, <2>2, <2>3, <2>4, <2>5, <2>6 DEF LifecycleStep
<1> QED
  BY <1>3, <1>4, <1>5, StepKinds

(* The validity periods of a DID's keys cover its life without gap or       *)
(* overlap, after any sequence of rotations, suspensions and revocations.   *)
THEOREM KeysChainedAlways == Spec => []KeyHistoryChained
<1>1. TypeOK /\ KeyHistoryChained /\ [Next]_vars => KeyHistoryChained'
  BY KeysStep
<1> QED
  BY <1>1, KeysInit, TypeCorrect, PTL DEF Spec

------------------------------------------------------------------------------
(* Suspension intervals stay ordered and disjoint as the list grows. *)
LEMMA IntervalsLater ==
  ASSUME NEW h \in Seq(SuspensionInterval), NEW since \in Nat, NEW t \in Nat,
         IntervalsOrdered(h, since, t)
  PROVE  IntervalsOrdered(h, since, t + 1)
  BY DEF IntervalsOrdered

LEMMA IntervalsClosed ==
  ASSUME NEW h \in Seq(SuspensionInterval), h # <<>>, NEW since \in Nat, NEW t \in Nat, t >= 1,
         IntervalsOrdered(h, since, t), Last(h).endedAt = 0,
         NEW c, c = CloseOpenSuspensionInterval(h, t)
  PROVE  /\ IntervalsOrdered(c, since, t)
         /\ c # <<>> /\ Last(c).endedAt = t
<1> DEFINE n == Len(h)
<1>1. n \in Nat /\ n >= 1 /\ h[n].endedAt = 0 /\ h[n] \in SuspensionInterval
  BY ElementOfSeq, EmptySeq DEF Last
<1>2. /\ c \in Seq(SuspensionInterval) /\ Len(c) = n
      /\ \A i \in 1 .. n - 1 : c[i] = h[i]
      /\ c[n] = [h[n] EXCEPT !.endedAt = t]
  BY <1>1, CloseIntervalShape
<1>3. c[n].endedAt = t /\ c[n].startedAt = h[n].startedAt
  BY <1>1, <1>2 DEF SuspensionInterval
<1>4. DOMAIN c = 1 .. n /\ DOMAIN h = 1 .. n /\ c # <<>> /\ Last(c) = c[n]
  BY <1>1, <1>2 DEF Last
<1>5. /\ \A i \in 1 .. n : h[i].startedAt \in since .. t /\ h[i].endedAt \in 0 .. t
      /\ \A i \in 1 .. n : h[i].endedAt # 0 => h[i].startedAt <= h[i].endedAt
      /\ \A i \in 1 .. n - 1 : h[i].endedAt # 0 /\ h[i].endedAt <= h[i + 1].startedAt
  BY <1>4 DEF IntervalsOrdered
<1>6. \A i \in 1 .. n : i # n => i \in 1 .. n - 1
  BY <1>1
<1>7. \A i \in 1 .. n : i # n => c[i] = h[i]
  BY <1>2, <1>6
<1>8. \A i \in 1 .. n : c[i].startedAt = h[i].startedAt
  BY <1>3, <1>7
<1>9. \A i \in 1 .. n : c[i].startedAt \in since .. t /\ c[i].endedAt \in 0 .. t
  BY <1>1, <1>3, <1>5, <1>7, <1>8
<1>10. \A i \in 1 .. n : c[i].endedAt # 0 => c[i].startedAt <= c[i].endedAt
  BY <1>1, <1>3, <1>5, <1>7, <1>8
<1>11. ASSUME NEW i \in 1 .. n - 1
       PROVE  c[i].endedAt # 0 /\ c[i].endedAt <= c[i + 1].startedAt
  <2>1. i \in 1 .. n /\ i # n /\ i + 1 \in 1 .. n
    BY <1>1
  <2>2. c[i] = h[i] /\ c[i + 1].startedAt = h[i + 1].startedAt
    BY <1>7, <1>8, <2>1
  <2> QED BY <1>5, <2>2
<1> QED
  BY <1>1, <1>3, <1>4, <1>9, <1>10, <1>11 DEF IntervalsOrdered

LEMMA IntervalsExtended ==
  ASSUME NEW h \in Seq(SuspensionInterval), NEW since \in Nat, NEW t \in Nat, since <= t,
         IntervalsOrdered(h, since, t), h # <<>> => Last(h).endedAt # 0,
         NEW e \in SuspensionInterval, e.startedAt = t, e.endedAt = 0,
         NEW c, c = Append(h, e)
  PROVE  IntervalsOrdered(c, since, t)
<1> DEFINE n == Len(h)
<1>1. n \in Nat
  OBVIOUS
<1>2. /\ c \in Seq(SuspensionInterval) /\ Len(c) = n + 1
      /\ \A i \in 1 .. n : c[i] = h[i]
      /\ c[n + 1] = e
  BY <1>1, AppendEntry
<1>3. DOMAIN c = 1 .. n + 1 /\ DOMAIN h = 1 .. n /\ c # <<>> /\ Last(c) = e
  BY <1>1, <1>2 DEF Last
<1>4. /\ \A i \in 1 .. n : h[i].startedAt \in since .. t /\ h[i].endedAt \in 0 .. t
      /\ \A i \in 1 .. n : h[i].endedAt # 0 => h[i].startedAt <= h[i].endedAt
      /\ \A i \in 1 .. n - 1 : h[i].endedAt # 0 /\ h[i].endedAt <= h[i + 1].startedAt
  BY <1>3 DEF IntervalsOrdered
<1>5. n >= 1 => h[n].endedAt # 0
  BY <1>1, EmptySeq DEF Last
<1>6. \A i \in 1 .. n + 1 : c[i].startedAt \in since .. t /\ c[i].endedAt \in 0 .. t
  BY <1>1, <1>2, <1>4
<1>7. \A i \in 1 .. n + 1 : c[i].endedAt # 0 => c[i].startedAt <= c[i].endedAt
  BY <1>1, <1>2, <1>4
<1>8. \A i \in 1 .. n : c[i].endedAt # 0 /\ c[i].endedAt <= c[i + 1].startedAt
  <2> SUFFICES ASSUME NEW i \in 1 .. n
               PROVE  c[i].endedAt # 0 /\ c[i].endedAt <= c[i + 1].startedAt
    OBVIOUS
  <2>1. CASE i = n
    BY <1>1, <1>2, <1>4, <1>5, <2>1
  <2>2. CASE i # n
    <3>1. i \in 1 .. n - 1 /\ i + 1 \in 1 .. n
      BY <1>1, <2>2
    <3> QED BY <1>2, <1>4, <3>1
  <2> QED BY <2>1, <2>2
<1> QED
  BY <1>1, <1>2, <1>3, <1>6, <1>7, <1>8 DEF IntervalsOrdered

LEMMA SuspensionsInit == Init => SuspensionHistoryOrdered
<1>1. ASSUME Init, NEW d \in Token
      PROVE  /\ suspensionHistoryByDid[d] = <<>> /\ d \notin suspended
             /\ records[d].suspendedAt = 0
  BY <1>1 DEF Init, NoRecord
<1> QED
  BY <1>1 DEF SuspensionHistoryOrdered, IntervalsOrdered

LEMMA SuspensionsStep ==
  ASSUME TypeOK, FlagsConsistent, SuspensionHistoryOrdered, [Next]_vars
  PROVE  SuspensionHistoryOrdered'
<1> DEFINE H(e) == suspensionHistoryByDid[e]
           Open(e) == H(e) # <<>> /\ Last(H(e)).endedAt = 0
           Ordered(e) == /\ H(e) # <<>> => e \in exists
                         /\ e \in suspended <=> Open(e)
                         /\ IntervalsOrdered(H(e), records[e].createdAt, now)
                         /\ records[e].suspendedAt =
                              IF e \in suspended THEN Last(H(e)).startedAt ELSE 0
<1> SUFFICES ASSUME NEW e \in Token
             PROVE  Ordered(e)'
  BY DEF SuspensionHistoryOrdered
<1>1. Ordered(e)
  BY DEF SuspensionHistoryOrdered
<1>2. /\ now \in Nat /\ now >= 1 /\ records[e].createdAt \in Nat
      /\ suspensionHistoryByDid[e] \in Seq(SuspensionInterval)
  BY RecordTimes DEF TypeOK
<1>3. /\ e \in suspended => e \in exists
      /\ e \in exists => records[e].createdAt <= now
  BY RecordTimes DEF FlagsConsistent
<1>4. ASSUME now' = now, suspensionHistoryByDid'[e] = suspensionHistoryByDid[e],
             records'[e].createdAt = records[e].createdAt,
             records'[e].suspendedAt = records[e].suspendedAt,
             e \in exists' <=> e \in exists, e \in suspended' <=> e \in suspended
      PROVE  Ordered(e)'
  BY <1>1, <1>4
<1>5. CASE Quiet
  BY <1>4, <1>5 DEF Quiet, lifecycle
<1>6. CASE NextBlock
  <2>1. /\ now' = now + 1 /\ suspensionHistoryByDid' = suspensionHistoryByDid
        /\ records' = records /\ exists' = exists /\ suspended' = suspended
    BY <1>6 DEF NextBlock, lifecycle
  <2>2. IntervalsOrdered(H(e), records[e].createdAt, now + 1)
    BY <1>1, <1>2, IntervalsLater
  <2> QED BY <1>1, <2>1, <2>2
<1>7. ASSUME NEW sender \in Sender, NEW d \in Token, LifecycleStep(sender, d)
      PROVE  Ordered(e)'
  <2>1. ASSUME NEW k \in RobotKey, NEW uri \in MetadataURI, NEW signature,
               RegisterDID(sender, d, k, uri, signature)
        PROVE  Ordered(e)'
    <3>1. exists' = exists \cup {d} /\ suspended' = suspended \ {d} /\ Elsewhere(d)
      BY <2>1, RegisterEffect
    <3>2. CASE e # d
      BY <1>4, <3>1, <3>2 DEF Elsewhere
    <3>3. CASE e = d
      <4>1. /\ d \notin exists /\ now' = now /\ Stamps(d, now, now, 0)
            /\ suspensionHistoryByDid'[d] = suspensionHistoryByDid[d]
        BY <2>1, RegisterEffect DEF Elsewhere
      <4>2. suspensionHistoryByDid'[e] = <<>> /\ e \notin suspended'
        BY <1>1, <3>1, <3>3, <4>1
      <4>3. records'[e].suspendedAt = 0
        BY <3>3, <4>1 DEF Stamps
      <4>4. IntervalsOrdered(<<>>, (records[e].createdAt)', now')
        BY DEF IntervalsOrdered
      <4> QED BY <4>2, <4>3, <4>4
    <3> QED BY <3>2, <3>3
  <2>2. ASSUME NEW k \in RobotKey, UpdatePublicKey(sender, d, k)
        PROVE  Ordered(e)'
    BY <1>4, <2>2, RotateEffect DEF Elsewhere, Stamps
  <2>3. ASSUME NEW uri \in MetadataURI, UpdateMetadataURI(sender, d, uri)
        PROVE  Ordered(e)'
    BY <1>4, <2>3, MetadataEffect DEF Elsewhere, Stamps
  <2>4. CASE SuspendDID(sender, d)
    <3>1. exists' = exists /\ suspended' = suspended \cup {d} /\ Elsewhere(d)
      BY <2>4, SuspendEffect
    <3>2. CASE e # d
      BY <1>4, <3>1, <3>2 DEF Elsewhere
    <3>3. CASE e = d
      <4>1. /\ d \in exists /\ d \notin suspended /\ now' = now
            /\ Stamps(d, records[d].createdAt, now, now)
            /\ suspensionHistoryByDid'[d] =
                 Append(suspensionHistoryByDid[d], [startedAt |-> now, endedAt |-> 0])
        BY <2>4, SuspendEffect DEF Elsewhere
      <4>2. /\ records[e].createdAt <= now
            /\ H(e) # <<>> => Last(H(e)).endedAt # 0
        BY <1>1, <1>3, <3>3, <4>1
      <4> DEFINE interval == [startedAt |-> now, endedAt |-> 0]
                 c == Append(H(e), interval)
      <4>a. /\ IntervalsOrdered(c, records[e].createdAt, now)
            /\ c # <<>> /\ Last(c).endedAt = 0 /\ Last(c).startedAt = now
        <5>1. interval \in SuspensionInterval /\ interval.startedAt = now /\ interval.endedAt = 0
          BY <1>2 DEF SuspensionInterval
        <5>2. /\ IntervalsOrdered(H(e), records[e].createdAt, now)
              /\ H(e) # <<>> => Last(H(e)).endedAt # 0
          BY <1>1, <4>2
        <5> HIDE DEF interval, H, Open, Ordered
        <5>3. H(e) \in Seq(SuspensionInterval)
          BY <1>2 DEF H
        <5>4. IntervalsOrdered(c, records[e].createdAt, now)
          BY <1>2, <4>2, <5>1, <5>2, <5>3, IntervalsExtended
        <5>5. c # <<>> /\ Last(c) = interval
          BY <5>1, <5>3, AppendLast
        <5> QED BY <5>1, <5>4, <5>5
      <4>b. H(e)' = c
        BY <3>3, <4>1
      <4>3. /\ IntervalsOrdered(H(e)', records[e].createdAt, now)
            /\ H(e)' # <<>> /\ Last(H(e)').endedAt = 0 /\ Last(H(e)').startedAt = now
        BY <4>a, <4>b
      <4>4. e \in exists' /\ e \in suspended'
        BY <3>1, <3>3, <4>1
      <4>5. records'[e].createdAt = records[e].createdAt /\ records'[e].suspendedAt = now
        BY <3>3, <4>1 DEF Stamps
      <4> QED BY <4>1, <4>3, <4>4, <4>5
    <3> QED BY <3>2, <3>3
  <2>5. ASSUME d \in suspended, Elsewhere(d), Stamps(d, records[d].createdAt, now, 0),
               suspended' = suspended \ {d}, exists' = exists,
               suspensionHistoryByDid'[d] = CloseOpenSuspensionInterval(suspensionHistoryByDid[d], now)
        PROVE  Ordered(e)'
    <3>1. CASE e # d
      BY <1>4, <2>5, <3>1 DEF Elsewhere
    <3>2. CASE e = d
      <4>1. Open(e) /\ e \in exists /\ now' = now
        BY <1>1, <1>3, <2>5, <3>2 DEF Elsewhere
      <4>2. /\ IntervalsOrdered(H(e)', records[e].createdAt, now)
            /\ H(e)' # <<>> /\ Last(H(e)').endedAt = now
        BY <1>1, <1>2, <2>5, <3>2, <4>1, IntervalsClosed
      <4>3. e \in exists' /\ e \notin suspended'
        BY <2>5, <3>2, <4>1
      <4>4. records'[e].createdAt = records[e].createdAt /\ records'[e].suspendedAt = 0
        BY <2>5, <3>2 DEF Stamps
      <4> QED BY <1>2, <4>1, <4>2, <4>3, <4>4
    <3> QED BY <3>1, <3>2
  <2>6. CASE UnsuspendDID(sender, d)
    BY <2>5, <2>6, UnsuspendEffect
  <2>7. CASE RevokeDID(sender, d)
    <3>1. CASE d \in suspended
      BY <2>5, <2>7, <3>1, RevokeEffect
    <3>2. CASE d \notin suspended
      <4>1. /\ exists' = exists /\ suspended' = suspended \ {d} /\ Elsewhere(d)
            /\ Stamps(d, records[d].createdAt, now, 0)
            /\ suspensionHistoryByDid'[d] = suspensionHistoryByDid[d]
        BY <2>7, <3>2, RevokeEffect
      <4>2. records[d].suspendedAt = 0
        BY <3>2 DEF SuspensionHistoryOrdered
      <4> QED BY <1>4, <3>2, <4>1, <4>2 DEF Elsewhere, Stamps
    <3> QED BY <3>1, <3>2
  <2> QED BY <1>7, <2>1, <2>2, <2>3, <2>4, <2>6, <2>7 DEF LifecycleStep
<1> QED
  BY <1>5, <1>6, <1>7, StepKinds

(* The suspension history stays a list of disjoint intervals, and the flag  *)
(* suspended says whether its last one is open.                             *)
THEOREM SuspensionsOrdered == Spec => []SuspensionHistoryOrdered
<1>1. TypeOK /\ FlagsConsistent /\ SuspensionHistoryOrdered /\ [Next]_vars
        => SuspensionHistoryOrdered'
  BY SuspensionsStep
<1> QED
  BY <1>1, SuspensionsInit, TypeCorrect, FlagsAlwaysConsistent, PTL DEF Spec

------------------------------------------------------------------------------
(* The flags against the two histories.  When a DID is revoked its last key  *)
(* entry is closed, and nothing is written of it any more.                   *)
ClosedWhenRevoked ==
  \A d \in exists \ active : Last(keyHistoryByDid[d]).validUntil = records[d].updatedAt

LEMMA RevokedClosed ==
  ASSUME TypeOK, KeyHistoryChained, NEW sender, NEW d \in Token, RevokeDID(sender, d)
  PROVE  Last(keyHistoryByDid'[d]).validUntil = records'[d].updatedAt
<1>1. /\ d \in exists /\ d \in active /\ keyHistoryByDid[d] # <<>>
      /\ keyHistoryByDid'[d] = CloseCurrentKeyHistoryEntry(keyHistoryByDid[d], now)
      /\ records'[d].updatedAt = now
  BY RevokeEffect DEF Stamps
<1>2. keyHistoryByDid[d] \in Seq(KeyHistoryEntry) /\ now \in Nat
  BY DEF TypeOK
<1>3. (d \in active) = TRUE
  BY <1>1
<1>4. KeysChained(keyHistoryByDid[d], records[d].createdAt, TRUE, now)
  BY <1>1, <1>3 DEF KeyHistoryChained
<1> QED
  BY <1>1, <1>2, <1>4, ClosedLast

LEMMA ClosedStep ==
  ASSUME TypeOK, KeyHistoryChained, FlagsConsistent, ClosedWhenRevoked, [Next]_vars
  PROVE  ClosedWhenRevoked'
<1>1. CASE Quiet
  BY <1>1 DEF Quiet, lifecycle, keys, ClosedWhenRevoked
<1>2. CASE NextBlock
  BY <1>2 DEF NextBlock, lifecycle, keys, ClosedWhenRevoked
<1>3. ASSUME NEW sender \in Sender, NEW d \in Token, LifecycleStep(sender, d),
             NEW e \in exists' \ active'
      PROVE  Last(keyHistoryByDid'[e]).validUntil = records'[e].updatedAt
  <2>1. e \in Token
    BY <1>3, TypeStep DEF TypeOK
  <2>2. ASSUME e # d, Elsewhere(d), e \in exists, e \notin active
        PROVE  Last(keyHistoryByDid'[e]).validUntil = records'[e].updatedAt
    BY <2>1, <2>2 DEF Elsewhere, ClosedWhenRevoked
  <2>3. CASE RevokeDID(sender, d)
    BY <1>3, <2>2, <2>3, RevokeEffect, RevokedClosed
  <2>4. CASE SuspendDID(sender, d)
    BY <1>3, <2>2, <2>4, SuspendEffect
  <2>5. CASE UnsuspendDID(sender, d)
    BY <1>3, <2>2, <2>5, UnsuspendEffect
  <2>6. ASSUME NEW k \in RobotKey, NEW uri \in MetadataURI, NEW signature,
               RegisterDID(sender, d, k, uri, signature)
        PROVE  Last(keyHistoryByDid'[e]).validUntil = records'[e].updatedAt
    <3>1. Elsewhere(d) /\ exists' = exists \cup {d} /\ active' = active \cup {d}
      BY <2>6, RegisterEffect
    <3> QED BY <1>3, <2>2, <3>1
  <2>7. ASSUME NEW k \in RobotKey, UpdatePublicKey(sender, d, k)
        PROVE  Last(keyHistoryByDid'[e]).validUntil = records'[e].updatedAt
    BY <1>3, <2>2, <2>7, RotateEffect
  <2>8. ASSUME NEW uri \in MetadataURI, UpdateMetadataURI(sender, d, uri)
        PROVE  Last(keyHistoryByDid'[e]).validUntil = records'[e].updatedAt
    BY <1>3, <2>2, <2>8, MetadataEffect
  <2> QED BY <1>3, <2>3, <2>4, <2>5, <2>6, <2>7, <2>8 DEF LifecycleStep
<1> QED
  BY <1>1, <1>2, <1>3, StepKinds DEF ClosedWhenRevoked

LEMMA FlagsTellHistories ==
  ASSUME FlagsConsistent, KeyHistoryChained, SuspensionHistoryOrdered, ClosedWhenRevoked, TypeOK
  PROVE  LifecycleFlagsAgree
<1> SUFFICES ASSUME NEW d \in exists
             PROVE  HistoriesAgree(d)
  BY DEF LifecycleFlagsAgree
<1>1. d \in Token
  BY DEF TypeOK
<1>2. Last(keyHistoryByDid[d]).validUntil = 0 <=> d \in active
  BY <1>1 DEF KeyHistoryChained, KeysChained
<1>3. d \notin active => Last(keyHistoryByDid[d]).validUntil = records[d].updatedAt
  BY DEF ClosedWhenRevoked
<1>4. LET h == suspensionHistoryByDid[d] IN
      /\ d \in suspended <=> h # <<>> /\ Last(h).endedAt = 0
      /\ d \in suspended => Last(h).startedAt = records[d].suspendedAt
  BY <1>1 DEF SuspensionHistoryOrdered
<1> QED
  BY <1>2, <1>3, <1>4 DEF HistoriesAgree

(* active, suspended, suspendedAt and the two histories of a DID never tell  *)
(* different stories: no sequence of lifecycle calls leaves an interval or a *)
(* key entry open that the flags call closed, or the reverse.                *)
THEOREM FlagsAgree == Spec => []LifecycleFlagsAgree
<1>1. Init => ClosedWhenRevoked
  BY DEF Init, ClosedWhenRevoked
<1>2. TypeOK /\ KeyHistoryChained /\ FlagsConsistent /\ ClosedWhenRevoked /\ [Next]_vars
        => ClosedWhenRevoked'
  BY ClosedStep
<1>3. FlagsConsistent /\ KeyHistoryChained /\ SuspensionHistoryOrdered /\ ClosedWhenRevoked
        /\ TypeOK => LifecycleFlagsAgree
  BY FlagsTellHistories
<1> QED
  BY <1>1, <1>2, <1>3, TypeCorrect, KeysChainedAlways, SuspensionsOrdered,
     FlagsAlwaysConsistent, PTL DEF Spec

------------------------------------------------------------------------------
Blocks(h, t) == \E i \in DOMAIN h : IntervalCovers(h[i], t)

(* The interval list answers for the current second what the flag says. *)
LEMMA BlocksNow ==
  ASSUME TypeOK, SuspensionHistoryOrdered, NEW d \in Token
  PROVE  Blocks(suspensionHistoryByDid[d], now) <=> d \in suspended
<1> DEFINE h == suspensionHistoryByDid[d]
           n == Len(h)
<1>1. h \in Seq(SuspensionInterval) /\ now \in Nat /\ records[d].createdAt \in Nat
  BY RecordTimes DEF TypeOK
<1>2. n \in Nat /\ DOMAIN h = 1 .. n /\ \A i \in 1 .. n : h[i] \in SuspensionInterval
  BY <1>1, ElementOfSeq
<1>3. \A i \in 1 .. n : h[i].startedAt \in Nat /\ h[i].endedAt \in Nat
  BY <1>2 DEF SuspensionInterval
<1>4. /\ \A i \in 1 .. n : h[i].startedAt <= now /\ h[i].endedAt <= now
      /\ \A i \in 1 .. n - 1 : h[i].endedAt # 0
      /\ d \in suspended <=> h # <<>> /\ Last(h).endedAt = 0
  <2>1. IntervalsOrdered(h, records[d].createdAt, now)
    BY DEF SuspensionHistoryOrdered
  <2>2. d \in suspended <=> h # <<>> /\ Last(h).endedAt = 0
    BY DEF SuspensionHistoryOrdered
  <2>3. \A i \in 1 .. n : h[i].startedAt <= now /\ h[i].endedAt <= now
    BY <1>1, <1>2, <1>3, <2>1 DEF IntervalsOrdered
  <2>4. \A i \in 1 .. n - 1 : h[i].endedAt # 0
    BY <2>1 DEF IntervalsOrdered
  <2> QED BY <2>2, <2>3, <2>4
<1>5. CASE d \in suspended
  <2>1. n \in 1 .. n /\ h[n].endedAt = 0
    BY <1>1, <1>2, <1>4, <1>5, EmptySeq DEF Last
  <2>2. IntervalCovers(h[n], now)
    BY <1>3, <1>4, <2>1 DEF IntervalCovers
  <2> QED BY <1>2, <1>5, <2>1, <2>2 DEF Blocks
<1>6. CASE d \notin suspended
  <2>1. \A i \in 1 .. n : h[i].endedAt # 0
    <3>1. n >= 1 => h[n].endedAt # 0
      BY <1>1, <1>4, <1>6, EmptySeq DEF Last
    <3>2. \A i \in 1 .. n : i = n \/ i \in 1 .. n - 1
      BY <1>2
    <3> QED BY <1>2, <1>4, <3>1, <3>2
  <2>2. \A i \in 1 .. n : ~ IntervalCovers(h[i], now)
    BY <1>1, <1>3, <1>4, <2>1 DEF IntervalCovers
  <2> QED BY <1>2, <1>6, <2>2 DEF Blocks
<1> QED
  BY <1>5, <1>6

LEMMA IssuanceNow ==
  ASSUME TypeOK, FlagsConsistent, SuspensionHistoryOrdered, NEW d \in Token
  PROVE  IsIssuanceAllowedAt(d, now) <=> d \in active \ suspended
  BY BlocksNow DEF IsIssuanceAllowedAt, Blocks, FlagsConsistent

(* A credential stamped with the current second is acceptable iff the DID   *)
(* is active and not suspended: the half-open intervals that the verifiers  *)
(* are answered from never disagree with the flag the contract shows.       *)
THEOREM IssuanceFollowsFlag == Spec => []IssuanceNowFollowsFlag
<1>1. TypeOK /\ FlagsConsistent /\ SuspensionHistoryOrdered => IssuanceNowFollowsFlag
  BY IssuanceNow DEF IssuanceNowFollowsFlag
<1> QED
  BY <1>1, TypeCorrect, FlagsAlwaysConsistent, SuspensionsOrdered, PTL

------------------------------------------------------------------------------
(* What a list of intervals or of key entries says of a second that is over *)
(* is not changed by closing its last element now, nor by appending one     *)
(* that starts now.                                                         *)
Signs(h, k, t) == \E i \in DOMAIN h : h[i].keyAddress = k /\ EntryCovers(h[i], t)

LEMMA BelowLast == \A n \in Nat : \A i \in 1 .. n : i \in 1 .. n - 1 \/ i = n
  OBVIOUS

LEMMA BlocksAppend ==
  ASSUME NEW h \in Seq(SuspensionInterval), NEW e \in SuspensionInterval,
         NEW t \in Nat, t < e.startedAt
  PROVE  Blocks(Append(h, e), t) <=> Blocks(h, t)
<1> DEFINE n == Len(h)
           c == Append(h, e)
<1>1. /\ n \in Nat /\ DOMAIN h = 1 .. n /\ DOMAIN c = 1 .. n + 1
      /\ \A i \in 1 .. n : c[i] = h[i]
      /\ c[n + 1] = e
  BY AppendEntry
<1>2. ~ IntervalCovers(e, t)
  BY DEF IntervalCovers, SuspensionInterval
<1> HIDE DEF c
<1>3. \A i \in 1 .. n + 1 : i \in 1 .. n \/ i = n + 1
  BY <1>1
<1>4. \A i \in 1 .. n : i \in 1 .. n + 1
  BY <1>1
<1> QED
  BY <1>1, <1>2, <1>3, <1>4 DEF Blocks, c

LEMMA BlocksClose ==
  ASSUME NEW h \in Seq(SuspensionInterval), NEW ts \in Nat, NEW t \in Nat, t < ts
  PROVE  Blocks(CloseOpenSuspensionInterval(h, ts), t) <=> Blocks(h, t)
<1> DEFINE n == Len(h)
           c == CloseOpenSuspensionInterval(h, ts)
<1>1. CASE h = <<>>
  BY <1>1 DEF CloseOpenSuspensionInterval
<1>2. CASE h # <<>>
  <2>1. n \in Nat /\ n >= 1 /\ h[n] \in SuspensionInterval /\ DOMAIN h = 1 .. n
    BY <1>2, EmptySeq, ElementOfSeq
  <2>2. /\ c \in Seq(SuspensionInterval) /\ Len(c) = n
        /\ \A i \in 1 .. n - 1 : c[i] = h[i]
        /\ c[n] = IF h[n].endedAt = 0 THEN [h[n] EXCEPT !.endedAt = ts] ELSE h[n]
    BY <1>2, CloseIntervalShape
  <2>3. IntervalCovers(c[n], t) <=> IntervalCovers(h[n], t)
    BY <2>1, <2>2 DEF IntervalCovers, SuspensionInterval
  <2> HIDE DEF c
  <2>4. DOMAIN c = 1 .. n
    BY <2>2
  <2>5. \A i \in 1 .. n : i \in 1 .. n - 1 \/ i = n
    BY <2>1, BelowLast
  <2>6. \A i \in 1 .. n : IntervalCovers(c[i], t) <=> IntervalCovers(h[i], t)
    BY <2>2, <2>3, <2>5
  <2> QED BY <2>1, <2>4, <2>6 DEF Blocks, c
<1> QED
  BY <1>1, <1>2

LEMMA SignsAppend ==
  ASSUME NEW h \in Seq(KeyHistoryEntry), NEW e \in KeyHistoryEntry, NEW k,
         NEW t \in Nat, t < e.validFrom
  PROVE  Signs(Append(h, e), k, t) <=> Signs(h, k, t)
<1> DEFINE n == Len(h)
           c == Append(h, e)
<1>1. /\ n \in Nat /\ DOMAIN h = 1 .. n /\ DOMAIN c = 1 .. n + 1
      /\ \A i \in 1 .. n : c[i] = h[i]
      /\ c[n + 1] = e
  BY AppendEntry
<1>2. ~ EntryCovers(e, t)
  BY DEF EntryCovers, KeyHistoryEntry
<1> HIDE DEF c
<1>3. \A i \in 1 .. n + 1 : i \in 1 .. n \/ i = n + 1
  BY <1>1
<1>4. \A i \in 1 .. n : i \in 1 .. n + 1
  BY <1>1
<1> QED
  BY <1>1, <1>2, <1>3, <1>4 DEF Signs, c

LEMMA SignsClose ==
  ASSUME NEW h \in Seq(KeyHistoryEntry), h # <<>>, NEW k,
         NEW ts \in Nat, NEW t \in Nat, t <= ts
  PROVE  Signs(CloseCurrentKeyHistoryEntry(h, ts), k, t) <=> Signs(h, k, t)
<1> DEFINE n == Len(h)
           c == CloseCurrentKeyHistoryEntry(h, ts)
<1>1. n \in Nat /\ n >= 1 /\ h[n] \in KeyHistoryEntry /\ DOMAIN h = 1 .. n
  BY EmptySeq, ElementOfSeq
<1>2. /\ c \in Seq(KeyHistoryEntry) /\ Len(c) = n
      /\ \A i \in 1 .. n - 1 : c[i] = h[i]
      /\ c[n] = IF h[n].validUntil = 0 THEN [h[n] EXCEPT !.validUntil = ts] ELSE h[n]
  BY CloseKeyEntryShape
<1>3. /\ EntryCovers(c[n], t) <=> EntryCovers(h[n], t)
      /\ c[n].keyAddress = h[n].keyAddress
  BY <1>1, <1>2 DEF EntryCovers, KeyHistoryEntry
<1> HIDE DEF c
<1>4. DOMAIN c = 1 .. n
  BY <1>2
<1>5. \A i \in 1 .. n : i \in 1 .. n - 1 \/ i = n
  BY <1>1, BelowLast
<1>6. \A i \in 1 .. n : /\ EntryCovers(c[i], t) <=> EntryCovers(h[i], t)
                        /\ c[i].keyAddress = h[i].keyAddress
  BY <1>2, <1>3, <1>5
<1> QED
  BY <1>1, <1>4, <1>6 DEF Signs, c

(* One step keeps what the lists of a registered DID say of a second that   *)
(* is over, and does not make a DID active that was registered before.      *)
LEMMA ListsStable ==
  ASSUME TypeOK, [Next]_vars, NEW d \in Token, d \in exists, NEW t \in Nat, t < now, NEW k
  PROVE  /\ d \in exists'
         /\ d \in active' => d \in active
         /\ Blocks(suspensionHistoryByDid[d], t)' <=> Blocks(suspensionHistoryByDid[d], t)
         /\ Signs(keyHistoryByDid[d], k, t)' <=> Signs(keyHistoryByDid[d], k, t)
<1> DEFINE Stable == /\ d \in exists'
                     /\ d \in active' => d \in active
                     /\ Blocks(suspensionHistoryByDid'[d], t) <=> Blocks(suspensionHistoryByDid[d], t)
                     /\ Signs(keyHistoryByDid'[d], k, t) <=> Signs(keyHistoryByDid[d], k, t)
<1>1. /\ suspensionHistoryByDid[d] \in Seq(SuspensionInterval)
      /\ keyHistoryByDid[d] \in Seq(KeyHistoryEntry) /\ now \in Nat
  BY DEF TypeOK
<1>2. ASSUME d \in exists', d \in active' => d \in active,
             suspensionHistoryByDid'[d] = suspensionHistoryByDid[d],
             keyHistoryByDid'[d] = keyHistoryByDid[d]
      PROVE  Stable
  BY <1>2
<1>3. CASE Quiet
  BY <1>2, <1>3 DEF Quiet, lifecycle, keys
<1>4. CASE NextBlock
  BY <1>2, <1>4 DEF NextBlock, lifecycle, keys
<1>5. ASSUME NEW sender \in Sender, NEW e \in Token, LifecycleStep(sender, e)
      PROVE  Stable
  <2>1. ASSUME NEW l \in RobotKey, NEW uri \in MetadataURI, NEW signature,
               RegisterDID(sender, e, l, uri, signature)
        PROVE  Stable
    <3>1. /\ e \notin exists /\ exists' = exists \cup {e} /\ active' = active \cup {e}
          /\ Elsewhere(e)
      BY <2>1, RegisterEffect
    <3> QED BY <1>2, <3>1 DEF Elsewhere
  <2>2. ASSUME NEW l \in RobotKey, UpdatePublicKey(sender, e, l)
        PROVE  Stable
    <3>1. CASE e # d
      BY <1>2, <2>2, <3>1, RotateEffect DEF Elsewhere
    <3>2. CASE e = d
      <4> DEFINE h == keyHistoryByDid[d]
                 closed == CloseCurrentKeyHistoryEntry(h, now)
      <4>1. /\ d \in exists' /\ d \in active /\ h # <<>>
            /\ keyHistoryByDid'[d] = Append(closed, OpenEntry(l))
            /\ suspensionHistoryByDid'[d] = suspensionHistoryByDid[d]
        BY <2>2, <3>2, RotateEffect
      <4>2. closed \in Seq(KeyHistoryEntry)
        BY <1>1, <4>1, CloseKeyEntryShape
      <4>3. Signs(closed, k, t) <=> Signs(h, k, t)
        BY <1>1, <4>1, SignsClose
      <4>4. Signs(Append(closed, OpenEntry(l)), k, t) <=> Signs(closed, k, t)
        <5> HIDE DEF closed
        <5> QED BY <4>2, OpenEntryType, SignsAppend
      <4> QED BY <4>1, <4>3, <4>4
    <3> QED BY <3>1, <3>2
  <2>3. ASSUME NEW uri \in MetadataURI, UpdateMetadataURI(sender, e, uri)
        PROVE  Stable
    BY <1>2, <2>3, MetadataEffect
  <2>4. CASE SuspendDID(sender, e)
    <3>1. CASE e # d
      BY <1>2, <2>4, <3>1, SuspendEffect DEF Elsewhere
    <3>2. CASE e = d
      <4> DEFINE interval == [startedAt |-> now, endedAt |-> 0]
      <4>1. /\ d \in exists' /\ d \in active
            /\ suspensionHistoryByDid'[d] = Append(suspensionHistoryByDid[d], interval)
            /\ keyHistoryByDid'[d] = keyHistoryByDid[d]
        BY <2>4, <3>2, SuspendEffect
      <4>2. interval \in SuspensionInterval /\ t < interval.startedAt
        BY <1>1 DEF SuspensionInterval
      <4> HIDE DEF interval
      <4>3. Blocks(Append(suspensionHistoryByDid[d], interval), t)
              <=> Blocks(suspensionHistoryByDid[d], t)
        BY <1>1, <4>2, BlocksAppend
      <4> QED BY <4>1, <4>3
    <3> QED BY <3>1, <3>2
  <2>5. CASE UnsuspendDID(sender, e)
    <3>1. CASE e # d
      BY <1>2, <2>5, <3>1, UnsuspendEffect DEF Elsewhere
    <3>2. CASE e = d
      <4>1. /\ d \in exists' /\ d \in active
            /\ suspensionHistoryByDid'[d] =
                 CloseOpenSuspensionInterval(suspensionHistoryByDid[d], now)
            /\ keyHistoryByDid'[d] = keyHistoryByDid[d]
        BY <2>5, <3>2, UnsuspendEffect
      <4> QED BY <1>1, <4>1, BlocksClose
    <3> QED BY <3>1, <3>2
  <2>6. CASE RevokeDID(sender, e)
    <3>1. CASE e # d
      BY <1>2, <2>6, <3>1, RevokeEffect DEF Elsewhere
    <3>2. CASE e = d
      <4>1. /\ d \in exists' /\ d \in active /\ keyHistoryByDid[d] # <<>>
            /\ suspensionHistoryByDid'[d] =
                 IF d \in suspended THEN CloseOpenSuspensionInterval(suspensionHistoryByDid[d], now)
                 ELSE suspensionHistoryByDid[d]
            /\ keyHistoryByDid'[d] = CloseCurrentKeyHistoryEntry(keyHistoryByDid[d], now)
        BY <2>6, <3>2, RevokeEffect
      <4>2. Blocks(suspensionHistoryByDid'[d], t) <=> Blocks(suspensionHistoryByDid[d], t)
        BY <1>1, <4>1, BlocksClose
      <4>3. Signs(keyHistoryByDid'[d], k, t) <=> Signs(keyHistoryByDid[d], k, t)
        BY <1>1, <4>1, SignsClose
      <4> QED BY <4>1, <4>2, <4>3
    <3> QED BY <3>1, <3>2
  <2> QED BY <1>5, <2>1, <2>2, <2>3, <2>4, <2>5, <2>6 DEF LifecycleStep
<1>6. Stable
  BY <1>3, <1>4, <1>5, StepKinds
<1> QED
  BY <1>6

(* As long as a DID is not revoked, no call changes what the registry       *)
(* answers about a second that is over: who could sign, and whether a       *)
(* credential issued then counts.                                           *)
THEOREM PastIsStable == Spec => PastAnswersStable
<1> DEFINE Answers == \A d \in exists : d \in active' =>
             \A t \in 1 .. now - 1 :
               /\ IsIssuanceAllowedAt(d, t)' <=> IsIssuanceAllowedAt(d, t)
               /\ \A k \in RobotKey :
                     IsRobotKeyAuthorizedAt(d, k, t)' <=> IsRobotKeyAuthorizedAt(d, k, t)
<1>1. ASSUME TypeOK, [Next]_vars
      PROVE  Answers
  <2>1. SUFFICES ASSUME NEW d \in exists, d \in active', NEW t \in 1 .. now - 1
                 PROVE  /\ IsIssuanceAllowedAt(d, t)' <=> IsIssuanceAllowedAt(d, t)
                        /\ \A k \in RobotKey :
                              IsRobotKeyAuthorizedAt(d, k, t)' <=> IsRobotKeyAuthorizedAt(d, k, t)
    OBVIOUS
  <2>2. d \in Token /\ t \in Nat /\ t < now
    BY <1>1 DEF TypeOK
  <2>3. ASSUME NEW k
        PROVE  /\ d \in exists' /\ d \in active
               /\ Blocks(suspensionHistoryByDid[d], t)' <=> Blocks(suspensionHistoryByDid[d], t)
               /\ Signs(keyHistoryByDid[d], k, t)' <=> Signs(keyHistoryByDid[d], k, t)
    BY <1>1, <2>1, <2>2, ListsStable
  <2>4. IsIssuanceAllowedAt(d, t)' <=> IsIssuanceAllowedAt(d, t)
    BY <2>1, <2>3 DEF IsIssuanceAllowedAt, Blocks
  <2>5. ASSUME NEW k \in RobotKey
        PROVE  IsRobotKeyAuthorizedAt(d, k, t)' <=> IsRobotKeyAuthorizedAt(d, k, t)
    BY <2>1, <2>3 DEF IsRobotKeyAuthorizedAt, Signs
  <2> QED BY <2>4, <2>5
<1>2. TypeOK /\ [Next]_vars => [Answers]_vars
  BY <1>1
<1> QED
  BY <1>2, TypeCorrect, PTL DEF Spec, PastAnswersStable
(* Induction over the naturals, for a set T in the place of a predicate: if n  *)
(* were missing, adding one would map T's part of 0 .. n into the same part    *)
(* without 0, which has one element less.                                      *)
LEMMA NatInductionSet ==
  ASSUME NEW T, 0 \in T, \A n \in Nat : n \in T => n + 1 \in T
  PROVE  Nat \subseteq T
<1> SUFFICES ASSUME NEW n \in Nat, n \notin T
             PROVE  FALSE
  OBVIOUS
<1> DEFINE A == (0 .. n) \cap T
           B == A \ {0}
           f == [i \in A |-> i + 1]
<1>1. IsFiniteSet(A)
  <2>1. IsFiniteSet(0 .. n)
    BY FS_Interval
  <2> QED BY <2>1, FS_Subset
<1>2. IsFiniteSet(B) /\ Cardinality(B) = Cardinality(A) - 1
  <2>1. 0 \in A
    OBVIOUS
  <2> HIDE DEF A
  <2> QED BY <1>1, <2>1, FS_RemoveElement
<1>3. f \in [A -> B]
  OBVIOUS
<1>4. \A i, j \in A : f[i] = f[j] => i = j
  OBVIOUS
<1>5. Cardinality(A) \in Nat
  BY <1>1, FS_CardinalityType
<1> HIDE DEF A, B, f
<1> QED BY <1>1, <1>2, <1>3, <1>4, <1>5, FS_PigeonHole

------------------------------------------------------------------------------
(* Controllers shown *)

LEMMA ToSetAppend ==
  ASSUME NEW S, NEW s \in Seq(S), NEW e \in S
  PROVE  ToSet(Append(s, e)) = ToSet(s) \cup {e}
<1>1. Len(s) \in Nat /\ DOMAIN s = 1 .. Len(s)
  OBVIOUS
<1>2. DOMAIN Append(s, e) = 1 .. Len(s) + 1
  OBVIOUS
<1>3. 1 .. Len(s) + 1 = (1 .. Len(s)) \cup {Len(s) + 1}
  BY <1>1
<1> QED BY <1>1, <1>2, <1>3, AppendEntry DEF ToSet

(* What the loop of getControllers has collected after i entries. *)
Loop(list, permitted, n, g) ==
  g = [i \in 0 .. n |->
         IF i = 0 THEN <<>>
         ELSE IF list[i] \in permitted THEN Append(g[i - 1], list[i])
         ELSE g[i - 1]]

LEMMA LoopRuns ==
  ASSUME NEW list, NEW permitted, NEW n \in Nat
  PROVE  \E g : Loop(list, permitted, n, g)
<1> DEFINE Runs == {m \in Nat : \E g : Loop(list, permitted, m, g)}
<1>1. 0 \in Runs
  <2>1. Loop(list, permitted, 0, [i \in 0 .. 0 |-> <<>>])
    BY DEF Loop
  <2> QED BY <2>1
<1>2. \A m \in Nat : m \in Runs => m + 1 \in Runs
  <2> SUFFICES ASSUME NEW m \in Nat, NEW g, Loop(list, permitted, m, g)
               PROVE  \E h : Loop(list, permitted, m + 1, h)
    OBVIOUS
  <2> DEFINE h == [i \in 0 .. m + 1 |->
                     IF i = m + 1
                     THEN IF list[i] \in permitted THEN Append(g[m], list[i]) ELSE g[m]
                     ELSE g[i]]
             next(i, f) == IF i = 0 THEN <<>>
                           ELSE IF list[i] \in permitted THEN Append(f[i - 1], list[i])
                           ELSE f[i - 1]
  <2>1. \A i \in 0 .. m : h[i] = g[i]
    OBVIOUS
  <2>2. \A i \in 0 .. m : g[i] = next(i, g)
    BY DEF Loop
  <2>3. \A i \in 0 .. m + 1 : h[i] = next(i, h)
    <3> SUFFICES ASSUME NEW i \in 0 .. m + 1 PROVE h[i] = next(i, h)
      OBVIOUS
    <3>1. CASE i = 0
      BY <3>1, <2>1, <2>2
    <3>2. CASE i \in 1 .. m
      <4>1. i - 1 \in 0 .. m /\ i \in 0 .. m /\ i # 0
        BY <3>2
      <4>2. h[i - 1] = g[i - 1] /\ h[i] = g[i]
        BY <4>1, <2>1
      <4> QED BY <4>1, <4>2, <2>2
    <3>3. CASE i = m + 1
      <4>1. i # 0 /\ i - 1 = m /\ m \in 0 .. m
        BY <3>3
      <4>2. h[i - 1] = g[m]
        BY <4>1, <2>1
      <4> QED BY <3>3, <4>1, <4>2
    <3> QED BY <3>1, <3>2, <3>3
  <2>4. h = [i \in 0 .. m + 1 |-> h[i]]
    OBVIOUS
  <2> HIDE DEF h
  <2>5. Loop(list, permitted, m + 1, h)
    BY <2>3, <2>4 DEF Loop
  <2> QED BY <2>5
<1> HIDE DEF Runs
<1>3. n \in Runs
  BY <1>1, <1>2, NatInductionSet
<1> QED BY <1>3 DEF Runs

LEMMA CollectedByLoop ==
  ASSUME NEW list, NEW permitted, Len(list) \in Nat
  PROVE  \E g : Loop(list, permitted, Len(list), g) /\ Collected(list, permitted) = g[Len(list)]
<1> DEFINE g == CHOOSE f : Loop(list, permitted, Len(list), f)
<1>1. Loop(list, permitted, Len(list), g)
  BY LoopRuns
<1>2. Collected(list, permitted) = g[Len(list)]
  BY DEF Collected, Loop
<1> QED BY <1>1, <1>2

(* The loop collects the list's entries that have a permission, and nothing    *)
(* else.                                                                       *)
LEMMA CollectedExactly ==
  ASSUME NEW S, NEW list \in Seq(S), NEW permitted
  PROVE  /\ Collected(list, permitted) \in Seq(S)
         /\ ToSet(Collected(list, permitted)) = ToSet(list) \cap permitted
<1>1. PICK g : Loop(list, permitted, Len(list), g) /\ Collected(list, permitted) = g[Len(list)]
  BY CollectedByLoop
<1>2. Len(list) \in Nat
  OBVIOUS
<1>3. \A i \in 0 .. Len(list) :
        g[i] = IF i = 0 THEN <<>>
               ELSE IF list[i] \in permitted THEN Append(g[i - 1], list[i])
               ELSE g[i - 1]
  BY <1>1 DEF Loop
<1> DEFINE Good(n) == /\ g[n] \in Seq(S)
                      /\ ToSet(g[n]) = {list[i] : i \in 1 .. n} \cap permitted
           Right == {n \in Nat : n <= Len(list) => Good(n)}
<1>4. 0 \in Right
  <2>1. g[0] = <<>>
    BY <1>2, <1>3
  <2>2. <<>> \in Seq(S) /\ ToSet(<<>>) = {}
    BY DEF ToSet
  <2>3. 1 .. 0 = {}
    OBVIOUS
  <2> QED BY <2>1, <2>2, <2>3
<1>5. \A n \in Nat : n \in Right => n + 1 \in Right
  <2> SUFFICES ASSUME NEW n \in Nat, Good(n), n + 1 <= Len(list)
               PROVE  Good(n + 1)
    <3> HIDE DEF Good
    <3> QED BY <1>2
  <2>1. Good(n)
    OBVIOUS
  <2>2. list[n + 1] \in S
    BY <1>2
  <2>3. g[n + 1] = IF list[n + 1] \in permitted THEN Append(g[n], list[n + 1]) ELSE g[n]
    <3>1. n + 1 \in 0 .. Len(list) /\ n + 1 # 0 /\ (n + 1) - 1 = n
      BY <1>2
    <3> QED BY <1>3, <3>1
  <2>4. {list[i] : i \in 1 .. n + 1} = {list[i] : i \in 1 .. n} \cup {list[n + 1]}
    <3>1. 1 .. n + 1 = (1 .. n) \cup {n + 1}
      OBVIOUS
    <3> QED BY <3>1
  <2>5. CASE list[n + 1] \in permitted
    <3>1. /\ Append(g[n], list[n + 1]) \in Seq(S)
          /\ ToSet(Append(g[n], list[n + 1])) = ToSet(g[n]) \cup {list[n + 1]}
      BY <2>1, <2>2, AppendEntry, ToSetAppend
    <3> QED BY <2>1, <2>3, <2>4, <2>5, <3>1
  <2>6. CASE list[n + 1] \notin permitted
    BY <2>1, <2>3, <2>4, <2>6
  <2> QED BY <2>5, <2>6
<1> HIDE DEF Right
<1>6. Len(list) \in Right
  BY <1>2, <1>4, <1>5, NatInductionSet
<1>7. /\ g[Len(list)] \in Seq(S)
      /\ ToSet(g[Len(list)]) = {list[i] : i \in 1 .. Len(list)} \cap permitted
  BY <1>2, <1>6 DEF Right
<1>8. ToSet(list) = {list[i] : i \in 1 .. Len(list)}
  BY DEF ToSet
<1> QED BY <1>1, <1>7, <1>8

------------------------------------------------------------------------------
(* Who has a permission is in the list: removal leaves the entry.              *)
PermittedAreListed == \A d \in Token : Permitted(d) \subseteq ToSet(controllerList[d])

LEMMA ListedInit == Init => PermittedAreListed
  BY DEF Init, PermittedAreListed, Permitted

LEMMA ListedKept ==
  ASSUME PermittedAreListed, UNCHANGED controllers
  PROVE  PermittedAreListed'
  BY DEF PermittedAreListed, Permitted, ToSet, controllers

LEMMA ListedByController ==
  ASSUME TypeOK, PermittedAreListed,
         NEW sender, NEW d \in Token, NEW c \in Account \cup {ZeroAddress},
         ControllerStep(sender, d, c)
  PROVE  PermittedAreListed'
<1> SUFFICES ASSUME NEW e \in Token
             PROVE  Permitted(e)' \subseteq ToSet(controllerList[e])'
  BY DEF PermittedAreListed
<1>1. Permitted(e) \subseteq ToSet(controllerList[e])
  BY DEF PermittedAreListed
<1>2. /\ controllerPermissions \in [Token -> [Address -> SUBSET Permission]]
      /\ controllerList \in [Token -> Seq(Address)]
      /\ c \in Address
  BY DEF TypeOK, Address
<1>3. ASSUME NEW granted,
             controllerPermissions' = [controllerPermissions EXCEPT ![d][c] = granted]
      PROVE  Permitted(e)' \subseteq Permitted(e) \cup (IF e = d THEN {c} ELSE {})
  BY <1>2, <1>3 DEF Permitted
<1>4. ASSUME NEW permissions, AddController(sender, d, c, permissions)
      PROVE  Permitted(e)' \subseteq ToSet(controllerList[e])'
  <2>1. controllerList' = [controllerList EXCEPT ![d] = Append(@, c)]
    BY <1>4 DEF AddController
  <2>2. Permitted(e)' \subseteq Permitted(e) \cup (IF e = d THEN {c} ELSE {})
    BY <1>3, <1>4 DEF AddController
  <2>3. CASE e = d
    <3>1. controllerList'[e] = Append(controllerList[e], c)
      BY <1>2, <2>1, <2>3
    <3>2. ToSet(Append(controllerList[e], c)) = ToSet(controllerList[e]) \cup {c}
      BY <1>2, ToSetAppend
    <3>3. ToSet(controllerList'[e]) = ToSet(controllerList[e]) \cup {c}
      BY <3>1, <3>2
    <3> QED BY <1>1, <2>2, <2>3, <3>3 DEF ToSet
  <2>4. CASE e # d
    BY <1>1, <1>2, <2>1, <2>2, <2>4 DEF ToSet
  <2> QED BY <2>3, <2>4
<1>5. ASSUME NEW permissions, UpdateControllerPermissions(sender, d, c, permissions)
      PROVE  Permitted(e)' \subseteq ToSet(controllerList[e])'
  <2>1. Permitted(e)' \subseteq Permitted(e) \cup (IF e = d THEN {c} ELSE {})
    BY <1>3, <1>5 DEF UpdateControllerPermissions
  <2>2. e = d => c \in Permitted(e)
    BY <1>2, <1>5 DEF UpdateControllerPermissions, Permitted
  <2>3. controllerList' = controllerList
    BY <1>5 DEF UpdateControllerPermissions
  <2> QED BY <1>1, <2>1, <2>2, <2>3 DEF ToSet
<1>6. CASE RemoveController(sender, d, c)
  <2>1. Permitted(e)' \subseteq Permitted(e) \cup (IF e = d THEN {c} ELSE {})
    BY <1>3, <1>6 DEF RemoveController
  <2>2. e = d => c \in Permitted(e)
    BY <1>2, <1>6 DEF RemoveController, Permitted
  <2>3. controllerList' = controllerList
    BY <1>6 DEF RemoveController
  <2> QED BY <1>1, <2>1, <2>2, <2>3 DEF ToSet
<1> QED BY <1>4, <1>5, <1>6 DEF ControllerStep

LEMMA ListedStep ==
  ASSUME TypeOK, PermittedAreListed, [Next]_vars
  PROVE  PermittedAreListed'
<1>1. CASE UNCHANGED vars
  BY <1>1, ListedKept DEF vars
<1>2. CASE EnvironmentStep
  <2>1. UNCHANGED controllers
    BY <1>2 DEF EnvironmentStep, NextBlock, MintRobot, TransferRobot, ChangeTrust
  <2> QED BY <2>1, ListedKept
<1>3. ASSUME NEW sender \in Sender, NEW d \in Token, LifecycleStep(sender, d)
      PROVE  PermittedAreListed'
  <2>1. UNCHANGED controllers
    BY <1>3 DEF LifecycleStep, RegisterDID, UpdatePublicKey, UpdateMetadataURI, SuspendDID,
                UnsuspendDID, RevokeDID
  <2> QED BY <2>1, ListedKept
<1>4. ASSUME NEW sender \in Sender, NEW d \in Token, NEW c \in Account \cup {ZeroAddress},
             ControllerStep(sender, d, c)
      PROVE  PermittedAreListed'
  BY <1>4, ListedByController
<1>5. ASSUME NEW sender \in Sender, NEW d \in Token, NEW h \in Hash, CredentialStep(sender, d, h)
      PROVE  PermittedAreListed'
  <2>1. UNCHANGED controllers
    BY <1>5 DEF CredentialStep, RevokeCredential, AnchorCredential
  <2> QED BY <2>1, ListedKept
<1>6. ASSUME NEW h \in Hash, ConsumeCredential(h)
      PROVE  PermittedAreListed'
  <2>1. UNCHANGED controllers
    BY <1>6 DEF ConsumeCredential
  <2> QED BY <2>1, ListedKept
<1> QED BY <1>1, <1>2, <1>3, <1>4, <1>5, <1>6 DEF Next

LEMMA ShownFromList ==
  ASSUME TypeOK, PermittedAreListed
  PROVE  ControllersShownExactly
<1> SUFFICES ASSUME NEW d \in exists
             PROVE  ToSet(GetControllers(d)) = {ManagementOwner(d)} \cup Permitted(d)
  BY DEF ControllersShownExactly
<1> DEFINE shown == Collected(controllerList[d], Permitted(d))
           owner == ManagementOwner(d)
<1>1. d \in Token /\ controllerList[d] \in Seq(Address)
  BY DEF TypeOK
<1>2. shown \in Seq(Address) /\ ToSet(shown) = ToSet(controllerList[d]) \cap Permitted(d)
  BY <1>1, CollectedExactly
<1>3. ToSet(shown) = Permitted(d)
  BY <1>1, <1>2 DEF PermittedAreListed
<1> HIDE DEF shown, owner
<1>4. ToSet(<<owner>> \o shown) = {owner} \cup ToSet(shown)
  <2> DEFINE all == <<owner>> \o shown
  <2>1. Len(shown) \in Nat /\ DOMAIN shown = 1 .. Len(shown)
    BY <1>2
  <2>2. /\ DOMAIN all = 1 .. Len(shown) + 1
        /\ all[1] = owner
        /\ \A i \in 1 .. Len(shown) : all[i + 1] = shown[i]
    BY <1>2
  <2> HIDE DEF all
  <2>3. \A j \in 2 .. Len(shown) + 1 : j - 1 \in 1 .. Len(shown) /\ (j - 1) + 1 = j
    BY <2>1
  <2>4. ToSet(all) \subseteq {owner} \cup ToSet(shown)
    <3> SUFFICES ASSUME NEW j \in 1 .. Len(shown) + 1
                 PROVE  all[j] \in {owner} \cup ToSet(shown)
      BY <2>2 DEF ToSet
    <3>1. CASE j = 1
      BY <2>2, <3>1
    <3>2. CASE j # 1
      <4>1. j \in 2 .. Len(shown) + 1
        BY <2>1, <3>2
      <4>2. j - 1 \in 1 .. Len(shown) /\ all[j] = shown[j - 1]
        BY <2>2, <2>3, <4>1
      <4> QED BY <2>1, <4>2 DEF ToSet
    <3> QED BY <3>1, <3>2
  <2>5. owner \in ToSet(all)
    <3>1. 1 \in DOMAIN all
      BY <2>1, <2>2
    <3> QED BY <2>2, <3>1 DEF ToSet
  <2>6. ToSet(shown) \subseteq ToSet(all)
    <3> SUFFICES ASSUME NEW i \in 1 .. Len(shown)
                 PROVE  shown[i] \in ToSet(all)
      BY <2>1 DEF ToSet
    <3>1. i + 1 \in DOMAIN all /\ all[i + 1] = shown[i]
      BY <2>1, <2>2
    <3> QED BY <3>1 DEF ToSet
  <2> QED BY <2>4, <2>5, <2>6 DEF all
<1> QED BY <1>3, <1>4 DEF GetControllers, shown, owner

(* What getControllers shows are the owner and the addresses that hold a       *)
(* permission, after any sequence of additions, updates, removals and          *)
(* transfers, for lists of any length.                                         *)
THEOREM ControllersAlwaysShown == Spec => []ControllersShownExactly
<1>1. TypeOK /\ PermittedAreListed /\ [Next]_vars => PermittedAreListed'
  BY ListedStep
<1>2. TypeOK /\ PermittedAreListed => ControllersShownExactly
  BY ShownFromList
<1> QED BY <1>1, <1>2, ListedInit, TypeCorrect, PTL DEF Spec

==============================================================================
