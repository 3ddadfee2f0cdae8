------------------------ MODULE RegistryRecords_proofs ------------------------
(* More theorems about RobotDIDRegistry: its credentials, its robot keys,   *)
(* what revocation freezes, and the two abstract specifications that the    *)
(* registry implements.                                                     *)
EXTENDS RobotDIDRegistry_proofs, RegistryFacts

(* The credentials change in three calls only. *)
LEMMA CredentialKinds ==
  ASSUME [Next]_vars
  PROVE  \/ UNCHANGED credentials
         \/ \E sender \in Sender, d \in Token, h \in Hash : RevokeCredential(sender, d, h)
         \/ \E sender \in Sender, d \in Token, h \in Hash, type \in CredentialType,
               mode \in ModeInput, maxUses \in 0 .. MaxUses :
                 AnchorCredential(sender, d, h, type, mode, maxUses)
         \/ \E h \in Hash : ConsumeCredential(h)
<1>1. CASE UNCHANGED vars
  BY <1>1 DEF vars
<1>2. CASE EnvironmentStep
  BY <1>2 DEF EnvironmentStep, NextBlock, MintRobot, TransferRobot, ChangeTrust
<1>3. ASSUME NEW sender \in Sender, NEW d \in Token, LifecycleStep(sender, d)
      PROVE  UNCHANGED credentials
  BY <1>3 DEF LifecycleStep, RegisterDID, UpdatePublicKey, UpdateMetadataURI, SuspendDID,
              UnsuspendDID, RevokeDID
<1>4. ASSUME NEW sender \in Sender, NEW d \in Token, NEW c \in Account \cup {ZeroAddress},
             ControllerStep(sender, d, c)
      PROVE  UNCHANGED credentials
  BY <1>4 DEF ControllerStep, AddController, UpdateControllerPermissions, RemoveController
<1> QED
  BY <1>1, <1>2, <1>3, <1>4 DEF Next, CredentialStep

LEMMA AnchorEffect ==
  ASSUME TypeOK, NEW sender \in Sender, NEW d \in Token, NEW h \in Hash,
         NEW type \in CredentialType, NEW mode \in ModeInput, NEW maxUses \in 0 .. MaxUses,
         AnchorCredential(sender, d, h, type, mode, maxUses)
  PROVE  /\ d \in exists /\ d \in active /\ h # ZeroHash /\ ~ credentialAnchors[h].exists
         /\ mode = LIMITED => maxUses >= 1
         /\ credentialAnchors'[h].exists /\ credentialAnchors'[h].subjectDid = d
         /\ credentialAnchors'[h].publishedAt = now
         /\ consumptionRecords'[h].configured
         /\ consumptionRecords'[h].mode = mode
         /\ consumptionRecords'[h].maxUses = maxUses
         /\ consumptionRecords'[h].useCount = 0
         /\ \A g \in Hash : g # h => /\ credentialAnchors'[g] = credentialAnchors[g]
                                     /\ consumptionRecords'[g] = consumptionRecords[g]
         /\ UNCHANGED <<now, lifecycle, keys, suspensionHistoryByDid, controllers,
                        revokedCredentialHashes>>
  BY DEF AnchorCredential, HashAnchorable, PolicyValid, TypeOK, environment

LEMMA ConsumeEffect ==
  ASSUME TypeOK, NEW h \in Hash, ConsumeCredential(h)
  PROVE  /\ \A g \in Hash : g # h => consumptionRecords'[g] = consumptionRecords[g]
         /\ consumptionRecords'[h].configured = consumptionRecords[h].configured
         /\ consumptionRecords'[h].mode = consumptionRecords[h].mode
         /\ consumptionRecords'[h].maxUses = consumptionRecords[h].maxUses
         /\ \/ /\ consumptionRecords[h].mode = UNLIMITED
               /\ consumptionRecords'[h].useCount = consumptionRecords[h].useCount
            \/ /\ consumptionRecords[h].mode = LIMITED
               /\ consumptionRecords[h].useCount < consumptionRecords[h].maxUses
               /\ consumptionRecords'[h].useCount = consumptionRecords[h].useCount + 1
         /\ UNCHANGED <<now, lifecycle, keys, suspensionHistoryByDid, controllers,
                        credentialAnchors, revokedCredentialHashes>>
<1> DEFINE record == consumptionRecords[h]
           used   == [record EXCEPT !.useCount = record.useCount + 1]
<1>1. record \in ConsumptionRecord /\ consumptionRecords \in [Hash -> ConsumptionRecord]
  BY DEF TypeOK
<1>2. /\ used.configured = record.configured /\ used.mode = record.mode
      /\ used.maxUses = record.maxUses /\ used.useCount = record.useCount + 1
  BY <1>1 DEF ConsumptionRecord
<1>3. /\ record.configured
      /\ record.mode = UNLIMITED \/ record.useCount < record.maxUses
      /\ consumptionRecords' = IF record.mode = UNLIMITED THEN consumptionRecords
                              ELSE [consumptionRecords EXCEPT ![h] = used]
  BY DEF ConsumeCredential, IsConsumptionAvailable
<1>4. record.mode = UNLIMITED \/ record.mode = LIMITED
  BY <1>1 DEF ConsumptionRecord
<1>5. UNCHANGED <<now, lifecycle, keys, suspensionHistoryByDid, controllers,
                  credentialAnchors, revokedCredentialHashes>>
  BY DEF ConsumeCredential, environment
<1> HIDE DEF used
<1>6. record.mode # UNLIMITED => consumptionRecords'[h] = used
  BY <1>1, <1>3
<1>7. \A g \in Hash : g # h => consumptionRecords'[g] = consumptionRecords[g]
  BY <1>1, <1>3
<1>8. CASE record.mode = UNLIMITED
  BY <1>3, <1>5, <1>7, <1>8
<1>9. CASE record.mode # UNLIMITED
  BY <1>2, <1>3, <1>4, <1>5, <1>6, <1>7, <1>9
<1> QED BY <1>8, <1>9

------------------------------------------------------------------------------
LEMMA UsesInit == Init => UsesWithinLimit
<1>1. ASSUME Init, NEW h \in Hash
      PROVE  consumptionRecords[h].mode = 0 /\ consumptionRecords[h].useCount = 0
  BY <1>1 DEF Init, NoConsumption
<1> QED BY <1>1 DEF UsesWithinLimit, LIMITED, UNLIMITED

LEMMA UsesStep ==
  ASSUME TypeOK, UsesWithinLimit, [Next]_vars
  PROVE  UsesWithinLimit'
<1>1. CASE UNCHANGED credentials
  BY <1>1 DEF credentials, UsesWithinLimit
<1>2. ASSUME NEW sender \in Sender, NEW d \in Token, NEW h \in Hash,
             RevokeCredential(sender, d, h)
      PROVE  UsesWithinLimit'
  BY <1>2 DEF RevokeCredential, UsesWithinLimit
<1>3. ASSUME NEW sender \in Sender, NEW d \in Token, NEW h \in Hash, NEW type \in CredentialType,
             NEW mode \in ModeInput, NEW maxUses \in 0 .. MaxUses,
             AnchorCredential(sender, d, h, type, mode, maxUses)
      PROVE  UsesWithinLimit'
  <2>1. /\ mode = LIMITED => maxUses >= 1
        /\ consumptionRecords'[h].mode = mode
        /\ consumptionRecords'[h].maxUses = maxUses
        /\ consumptionRecords'[h].useCount = 0
        /\ \A g \in Hash : g # h => consumptionRecords'[g] = consumptionRecords[g]
    BY <1>3, AnchorEffect
  <2> QED BY <2>1, BoundsAssumption DEF UsesWithinLimit
<1>4. ASSUME NEW h \in Hash, ConsumeCredential(h)
      PROVE  UsesWithinLimit'
  <2>1. /\ \A g \in Hash : g # h => consumptionRecords'[g] = consumptionRecords[g]
        /\ consumptionRecords'[h].mode = consumptionRecords[h].mode
        /\ consumptionRecords'[h].maxUses = consumptionRecords[h].maxUses
        /\ \/ /\ consumptionRecords[h].mode = UNLIMITED
              /\ consumptionRecords'[h].useCount = consumptionRecords[h].useCount
           \/ /\ consumptionRecords[h].mode = LIMITED
              /\ consumptionRecords[h].useCount < consumptionRecords[h].maxUses
              /\ consumptionRecords'[h].useCount = consumptionRecords[h].useCount + 1
    BY <1>4, ConsumeEffect
  <2>2. consumptionRecords[h].useCount \in Nat /\ consumptionRecords[h].maxUses \in Nat
    BY DEF TypeOK, ConsumptionRecord
  <2> QED BY <2>1, <2>2 DEF UsesWithinLimit, LIMITED, UNLIMITED
<1> QED
  BY <1>1, <1>2, <1>3, <1>4, CredentialKinds

(* A limited credential is never used more often than it allows, however    *)
(* many verifiers consume it and in whatever order.                         *)
THEOREM UsesNeverExceedLimit == Spec => []UsesWithinLimit
<1>1. TypeOK /\ UsesWithinLimit /\ [Next]_vars => UsesWithinLimit'
  BY UsesStep
<1> QED BY <1>1, UsesInit, TypeCorrect, PTL DEF Spec

------------------------------------------------------------------------------
LEMMA LifecycleKeepsUsedKeys ==
  ASSUME TypeOK, [Next]_vars
  PROVE  usedRobotKeyAddresses \subseteq usedRobotKeyAddresses'
<1>1. CASE Quiet
  BY <1>1 DEF Quiet, keys
<1>2. CASE NextBlock
  BY <1>2 DEF NextBlock, keys
<1>3. ASSUME NEW sender \in Sender, NEW d \in Token, LifecycleStep(sender, d)
      PROVE  usedRobotKeyAddresses \subseteq usedRobotKeyAddresses'
  BY <1>3, RegisterEffect, RotateEffect, MetadataEffect, SuspendEffect, UnsuspendEffect,
     RevokeEffect DEF LifecycleStep
<1> QED BY <1>1, <1>2, <1>3, StepKinds

(* Nobody takes back what was published: an anchor, its policy, the uses    *)
(* already made of it, a revocation, and a key's being used.                *)
THEOREM NothingUnpublished == Spec => PublishedStaysPublished
<1> DEFINE Kept(h) == credentialAnchors[h].exists =>
             /\ credentialAnchors'[h] = credentialAnchors[h]
             /\ consumptionRecords'[h].mode = consumptionRecords[h].mode
             /\ consumptionRecords'[h].maxUses = consumptionRecords[h].maxUses
             /\ consumptionRecords'[h].useCount - consumptionRecords[h].useCount \in 0 .. 1
           Stays == /\ revokedCredentialHashes \subseteq revokedCredentialHashes'
                    /\ \A h \in Hash : Kept(h)
<1>1. ASSUME TypeOK, [Next]_vars
      PROVE  Stays
  <2> USE <1>1
  <2>1. \A h \in Hash : consumptionRecords[h].useCount \in Nat
    BY DEF TypeOK, ConsumptionRecord
  <2>2. ASSUME NEW h \in Hash, credentialAnchors'[h] = credentialAnchors[h],
               consumptionRecords'[h] = consumptionRecords[h]
        PROVE  Kept(h)
    BY <2>1, <2>2
  <2>3. CASE UNCHANGED credentials
    BY <2>2, <2>3 DEF credentials
  <2>4. ASSUME NEW sender \in Sender, NEW d \in Token, NEW h \in Hash,
               RevokeCredential(sender, d, h)
        PROVE  Stays
    BY <2>2, <2>4 DEF RevokeCredential
  <2>5. ASSUME NEW sender \in Sender, NEW d \in Token, NEW h \in Hash,
               NEW type \in CredentialType, NEW mode \in ModeInput, NEW maxUses \in 0 .. MaxUses,
               AnchorCredential(sender, d, h, type, mode, maxUses)
        PROVE  Stays
    <3>1. /\ ~ credentialAnchors[h].exists
          /\ revokedCredentialHashes' = revokedCredentialHashes
          /\ \A g \in Hash : g # h => /\ credentialAnchors'[g] = credentialAnchors[g]
                                      /\ consumptionRecords'[g] = consumptionRecords[g]
      BY <2>5, AnchorEffect
    <3>2. Kept(h)
      BY <3>1
    <3>3. \A g \in Hash : g # h => Kept(g)
      BY <2>2, <3>1
    <3> QED BY <3>1, <3>2, <3>3
  <2>6. ASSUME NEW h \in Hash, ConsumeCredential(h)
        PROVE  Stays
    <3>1. /\ UNCHANGED <<credentialAnchors, revokedCredentialHashes>>
          /\ \A g \in Hash : g # h => consumptionRecords'[g] = consumptionRecords[g]
          /\ consumptionRecords'[h].mode = consumptionRecords[h].mode
          /\ consumptionRecords'[h].maxUses = consumptionRecords[h].maxUses
          /\ \/ consumptionRecords'[h].useCount = consumptionRecords[h].useCount
             \/ consumptionRecords'[h].useCount = consumptionRecords[h].useCount + 1
      BY <2>6, ConsumeEffect
    <3>2. Kept(h)
      BY <2>1, <3>1
    <3>3. \A g \in Hash : g # h => Kept(g)
      BY <2>2, <3>1
    <3> QED BY <3>1, <3>2, <3>3
  <2> QED BY <2>3, <2>4, <2>5, <2>6, CredentialKinds
<1>2. TypeOK /\ [Next]_vars =>
        [usedRobotKeyAddresses \subseteq usedRobotKeyAddresses' /\ Stays]_vars
  BY <1>1, LifecycleKeepsUsedKeys
<1> QED BY <1>2, TypeCorrect, PTL DEF Spec, PublishedStaysPublished

------------------------------------------------------------------------------
(* When the history of a DID ends: now while it is active, and with its     *)
(* last key entry when it is revoked.                                       *)
EndOfLife(d) == IF d \in active THEN now ELSE Last(keyHistoryByDid[d]).validUntil

LEMMA ClockStep ==
  ASSUME TypeOK, [Next]_vars
  PROVE  now' = now \/ (NextBlock /\ now' = now + 1)
<1>1. CASE Quiet
  BY <1>1 DEF Quiet
<1>2. CASE NextBlock
  BY <1>2 DEF NextBlock
<1>3. ASSUME NEW sender \in Sender, NEW d \in Token, LifecycleStep(sender, d)
      PROVE  now' = now
  BY <1>3 DEF LifecycleStep, RegisterDID, UpdatePublicKey, UpdateMetadataURI, SuspendDID,
              UnsuspendDID, RevokeDID, environment
<1> QED BY <1>1, <1>2, <1>3, StepKinds

LifeGrows(d) ==
  /\ d \in exists'
  /\ records'[d].createdAt = records[d].createdAt
  /\ EndOfLife(d)' = EndOfLife(d) \/ (d \in active /\ EndOfLife(d)' \in {now, now'})

(* One step never moves the beginning of a registered DID's life, and its   *)
(* end only forward.                                                        *)
LEMMA LifetimeGrows ==
  ASSUME TypeOK, KeyHistoryChained, [Next]_vars, NEW d \in Token, d \in exists
  PROVE  /\ d \in exists' /\ records'[d].createdAt = records[d].createdAt
         /\ EndOfLife(d) \in Nat /\ EndOfLife(d)' \in Nat /\ EndOfLife(d) <= EndOfLife(d)'
<1>1. d \in Token /\ now \in Nat
  BY DEF TypeOK
<1>2. ASSUME now' = now, d \in exists', d \in active' <=> d \in active,
             records'[d].createdAt = records[d].createdAt,
             d \notin active => keyHistoryByDid'[d] = keyHistoryByDid[d]
      PROVE  LifeGrows(d)
  BY <1>2 DEF EndOfLife, LifeGrows
<1>3. ASSUME Quiet
      PROVE  LifeGrows(d)
  <2>1. UNCHANGED <<now, exists, active, records, keyHistoryByDid>>
    BY <1>3 DEF Quiet, lifecycle, keys
  <2> QED BY <1>2, <2>1
<1>4. ASSUME NextBlock
      PROVE  LifeGrows(d)
  <2>1. UNCHANGED <<exists, active, records, keyHistoryByDid>>
    BY <1>4 DEF NextBlock, lifecycle, keys
  <2> QED BY <2>1 DEF EndOfLife, LifeGrows
<1>5. ASSUME NEW sender \in Sender, NEW e \in Token, LifecycleStep(sender, e)
      PROVE  LifeGrows(d)
  <2>1. ASSUME NEW k \in RobotKey, NEW uri \in MetadataURI, NEW signature,
               RegisterDID(sender, e, k, uri, signature)
        PROVE  LifeGrows(d)
    <3>1. /\ e \notin exists /\ exists' = exists \cup {e} /\ active' = active \cup {e}
          /\ Elsewhere(e)
      BY <2>1, RegisterEffect
    <3> QED BY <1>1, <1>2, <3>1 DEF Elsewhere
  <2>2. ASSUME NEW k \in RobotKey, UpdatePublicKey(sender, e, k)
        PROVE  LifeGrows(d)
    <3>1. /\ Elsewhere(e) /\ Stamps(e, records[e].createdAt, now, records[e].suspendedAt)
          /\ e \in active /\ exists' = exists /\ active' = active
      BY <2>2, RotateEffect
    <3> QED BY <1>1, <1>2, <3>1 DEF Elsewhere, Stamps
  <2>3. ASSUME NEW uri \in MetadataURI, UpdateMetadataURI(sender, e, uri)
        PROVE  LifeGrows(d)
    <3>1. /\ Elsewhere(e) /\ Stamps(e, records[e].createdAt, now, records[e].suspendedAt)
          /\ e \in active /\ exists' = exists /\ active' = active
      BY <2>3, MetadataEffect
    <3> QED BY <1>1, <1>2, <3>1 DEF Elsewhere, Stamps
  <2>4. CASE SuspendDID(sender, e)
    <3>1. /\ Elsewhere(e) /\ Stamps(e, records[e].createdAt, now, now)
          /\ e \in active /\ exists' = exists /\ active' = active
      BY <2>4, SuspendEffect
    <3> QED BY <1>1, <1>2, <3>1 DEF Elsewhere, Stamps
  <2>5. CASE UnsuspendDID(sender, e)
    <3>1. /\ Elsewhere(e) /\ Stamps(e, records[e].createdAt, now, 0)
          /\ e \in active /\ exists' = exists /\ active' = active
      BY <2>5, UnsuspendEffect
    <3> QED BY <1>1, <1>2, <3>1 DEF Elsewhere, Stamps
  <2>6. CASE RevokeDID(sender, e)
    <3>1. /\ Elsewhere(e) /\ Stamps(e, records[e].createdAt, now, 0)
          /\ e \in active /\ exists' = exists /\ active' = active \ {e}
          /\ keyHistoryByDid[e] # <<>>
          /\ keyHistoryByDid'[e] = CloseCurrentKeyHistoryEntry(keyHistoryByDid[e], now)
      BY <2>6, RevokeEffect
    <3>2. CASE e # d
      BY <1>1, <1>2, <3>1, <3>2 DEF Elsewhere
    <3>3. CASE e = d
      <4> DEFINE h == keyHistoryByDid[d]
      <4>1. h \in Seq(KeyHistoryEntry) /\ h # <<>>
        BY <1>1, <3>1, <3>3 DEF TypeOK
      <4>2. KeysChained(h, records[d].createdAt, TRUE, now)
        <5>1. KeysChained(h, records[d].createdAt, d \in active, now)
          BY <1>1 DEF KeyHistoryChained
        <5>2. (d \in active) = TRUE
          BY <3>1, <3>3
        <5> QED BY <5>1, <5>2
      <4>3. Last(CloseCurrentKeyHistoryEntry(h, now)).validUntil = now
        BY <1>1, <4>1, <4>2, ClosedLast
      <4> QED BY <3>1, <3>3, <4>3 DEF EndOfLife, Stamps, LifeGrows
    <3> QED BY <3>2, <3>3
  <2> QED BY <1>5, <2>1, <2>2, <2>3, <2>4, <2>5, <2>6 DEF LifecycleStep
<1>6. LifeGrows(d)
  BY <1>3, <1>4, <1>5, StepKinds
<1>7. now' \in Nat /\ now <= now'
  BY <1>1, ClockStep
<1>8. /\ EndOfLife(d) \in Nat
      /\ d \in active => EndOfLife(d) = now
  <2>1. CASE d \in active
    BY <1>1, <2>1 DEF EndOfLife
  <2>2. CASE d \notin active
    <3> DEFINE h == keyHistoryByDid[d]
    <3>1. h \in Seq(KeyHistoryEntry) /\ h # <<>>
      BY <1>1 DEF TypeOK, KeyHistoryChained, KeysChained
    <3>2. Last(h) \in KeyHistoryEntry
      BY <3>1, EmptySeq, ElementOfSeq DEF Last
    <3> QED BY <2>2, <3>2 DEF EndOfLife, KeyHistoryEntry
  <2> QED BY <2>1, <2>2
<1> QED BY <1>1, <1>6, <1>7, <1>8 DEF LifeGrows

LEMMA AnchorsInit == Init => AnchorsWithinLifetime
<1>1. ASSUME Init, NEW h \in Hash
      PROVE  ~ credentialAnchors[h].exists /\ ~ consumptionRecords[h].configured
  BY <1>1 DEF Init, NoConsumption, NoAnchor
<1> QED BY <1>1 DEF AnchorsWithinLifetime

(* What the invariant says of one hash. *)
Anchored(h) == LET d == credentialAnchors[h].subjectDid IN
  /\ h # ZeroHash /\ d \in exists
  /\ credentialAnchors[h].publishedAt \in records[d].createdAt .. EndOfLife(d)

LEMMA AnchorsOneByOne ==
  AnchorsWithinLifetime <=>
    \A h \in Hash : /\ consumptionRecords[h].configured <=> credentialAnchors[h].exists
                    /\ credentialAnchors[h].exists => Anchored(h)
  BY DEF AnchorsWithinLifetime, Anchored, EndOfLife

LEMMA AnchoredStays ==
  ASSUME TypeOK, KeyHistoryChained, [Next]_vars, NEW h \in Hash,
         credentialAnchors[h].exists, Anchored(h), credentialAnchors'[h] = credentialAnchors[h]
  PROVE  Anchored(h)'
<1> DEFINE d == credentialAnchors[h].subjectDid
<1>1. credentialAnchors[h] \in CredentialAnchor
  BY DEF TypeOK, NoAnchor
<1>2. d \in Token /\ credentialAnchors[h].publishedAt \in Nat
  BY <1>1 DEF CredentialAnchor
<1>3. d \in exists
  BY DEF Anchored
<1>4. /\ d \in exists' /\ records'[d].createdAt = records[d].createdAt
      /\ EndOfLife(d) \in Nat /\ EndOfLife(d)' \in Nat /\ EndOfLife(d) <= EndOfLife(d)'
  BY <1>2, <1>3, LifetimeGrows
<1>5. records[d].createdAt \in Nat
  BY <1>2, RecordTimes
<1> QED BY <1>2, <1>4, <1>5 DEF Anchored

LEMMA AnchorsStep ==
  ASSUME TypeOK, FlagsConsistent, KeyHistoryChained, AnchorsWithinLifetime, [Next]_vars
  PROVE  AnchorsWithinLifetime'
<1> DEFINE Fine(h) == /\ consumptionRecords'[h].configured <=> credentialAnchors'[h].exists
                      /\ credentialAnchors'[h].exists => Anchored(h)'
<1>1. ASSUME NEW h \in Hash, credentialAnchors'[h] = credentialAnchors[h],
             consumptionRecords'[h].configured = consumptionRecords[h].configured
      PROVE  Fine(h)
  BY <1>1, AnchorsOneByOne, AnchoredStays
<1>2. ASSUME UNCHANGED credentials
      PROVE  \A h \in Hash : Fine(h)
  <2>1. UNCHANGED <<credentialAnchors, consumptionRecords>>
    BY <1>2 DEF credentials
  <2> QED BY <1>1, <2>1
<1>3. ASSUME NEW sender \in Sender, NEW d \in Token, NEW h \in Hash,
             RevokeCredential(sender, d, h)
      PROVE  \A g \in Hash : Fine(g)
  <2>1. UNCHANGED <<credentialAnchors, consumptionRecords>>
    BY <1>3 DEF RevokeCredential
  <2> QED BY <1>1, <2>1
<1>4. ASSUME NEW sender \in Sender, NEW d \in Token, NEW h \in Hash, NEW type \in CredentialType,
             NEW mode \in ModeInput, NEW maxUses \in 0 .. MaxUses,
             AnchorCredential(sender, d, h, type, mode, maxUses)
      PROVE  \A g \in Hash : Fine(g)
  <2>1. /\ d \in exists /\ d \in active /\ h # ZeroHash
        /\ credentialAnchors'[h].exists /\ credentialAnchors'[h].subjectDid = d
        /\ credentialAnchors'[h].publishedAt = now
        /\ consumptionRecords'[h].configured
        /\ \A g \in Hash : g # h => /\ credentialAnchors'[g] = credentialAnchors[g]
                                    /\ consumptionRecords'[g] = consumptionRecords[g]
        /\ UNCHANGED <<now, lifecycle, keys>>
    BY <1>4, AnchorEffect
  <2>2. UNCHANGED <<now, exists, active, records, keyHistoryByDid>>
    BY <2>1 DEF lifecycle, keys
  <2>3. now \in Nat /\ records[d].createdAt \in Nat /\ records[d].createdAt <= now
    BY <2>1, RecordTimes DEF FlagsConsistent
  <2>4. Anchored(h)'
    BY <2>1, <2>2, <2>3 DEF Anchored, EndOfLife
  <2>5. \A g \in Hash : g # h => Fine(g)
    BY <1>1, <2>1
  <2> QED BY <2>1, <2>4, <2>5
<1>5. ASSUME NEW h \in Hash, ConsumeCredential(h)
      PROVE  \A g \in Hash : Fine(g)
  <2>1. /\ credentialAnchors' = credentialAnchors
        /\ \A g \in Hash : g # h => consumptionRecords'[g] = consumptionRecords[g]
        /\ consumptionRecords'[h].configured = consumptionRecords[h].configured
    BY <1>5, ConsumeEffect
  <2> QED BY <1>1, <2>1
<1>6. \A h \in Hash : Fine(h)
  BY <1>2, <1>3, <1>4, <1>5, CredentialKinds
<1>7. AnchorsWithinLifetime' <=> \A h \in Hash : Fine(h)
  BY DEF AnchorsWithinLifetime, Anchored, EndOfLife
<1> QED BY <1>6, <1>7

(* Every anchor was published between the registration of its subject and   *)
(* the subject's revocation, and only anchored hashes can be consumed.      *)
THEOREM AnchorsAlwaysWithinLifetime == Spec => []AnchorsWithinLifetime
<1>1. TypeOK /\ FlagsConsistent /\ KeyHistoryChained /\ AnchorsWithinLifetime /\ [Next]_vars
        => AnchorsWithinLifetime'
  BY AnchorsStep
<1> QED BY <1>1, AnchorsInit, TypeCorrect, FlagsAlwaysConsistent, KeysChainedAlways, PTL DEF Spec

------------------------------------------------------------------------------
LEMMA RevokedFrozen ==
  ASSUME TypeOK, FlagsConsistent, [Next]_vars, NEW d \in Token, d \in exists, d \notin active
  PROVE  /\ d \in exists' /\ d \notin active'
         /\ d \notin activeDIDByTokenId'
         /\ UNCHANGED <<records[d], keyHistoryByDid[d], suspensionHistoryByDid[d]>>
<1> DEFINE Frozen == /\ d \in exists' /\ d \notin active'
                     /\ d \notin activeDIDByTokenId'
                     /\ records'[d] = records[d]
                     /\ keyHistoryByDid'[d] = keyHistoryByDid[d]
                     /\ suspensionHistoryByDid'[d] = suspensionHistoryByDid[d]
<1>1. d \notin activeDIDByTokenId
  BY DEF FlagsConsistent
<1>2. ASSUME Quiet
      PROVE  Frozen
  BY <1>1, <1>2 DEF Quiet, lifecycle, keys
<1>3. ASSUME NextBlock
      PROVE  Frozen
  BY <1>1, <1>3 DEF NextBlock, lifecycle, keys
<1>4. ASSUME NEW sender \in Sender, NEW e \in Token, LifecycleStep(sender, e)
      PROVE  Frozen
  <2> USE <1>1 DEF Elsewhere
  <2>1. ASSUME NEW k \in RobotKey, NEW uri \in MetadataURI, NEW signature,
               RegisterDID(sender, e, k, uri, signature)
        PROVE  Frozen
    BY <2>1, RegisterEffect
  <2>2. ASSUME NEW k \in RobotKey, UpdatePublicKey(sender, e, k)
        PROVE  Frozen
    BY <2>2, RotateEffect
  <2>3. ASSUME NEW uri \in MetadataURI, UpdateMetadataURI(sender, e, uri)
        PROVE  Frozen
    BY <2>3, MetadataEffect
  <2>4. CASE SuspendDID(sender, e)
    BY <2>4, SuspendEffect
  <2>5. CASE UnsuspendDID(sender, e)
    BY <2>5, UnsuspendEffect
  <2>6. CASE RevokeDID(sender, e)
    BY <2>6, RevokeEffect
  <2> QED BY <1>4, <2>1, <2>2, <2>3, <2>4, <2>5, <2>6 DEF LifecycleStep
<1> QED
  BY <1>2, <1>3, <1>4, StepKinds

LEMMA ControllersFrozen ==
  ASSUME TypeOK, [Next]_vars, NEW d \in Token, d \notin active
  PROVE  UNCHANGED <<controllerPermissions[d], controllerList[d]>>
<1>1. ASSUME UNCHANGED controllers
      PROVE  UNCHANGED <<controllerPermissions[d], controllerList[d]>>
  BY <1>1 DEF controllers
<1>2. CASE UNCHANGED vars
  BY <1>1, <1>2 DEF vars
<1>3. CASE EnvironmentStep
  BY <1>1, <1>3 DEF EnvironmentStep, NextBlock, MintRobot, TransferRobot, ChangeTrust
<1>4. ASSUME NEW sender \in Sender, NEW e \in Token, LifecycleStep(sender, e)
      PROVE  UNCHANGED controllers
  BY <1>4 DEF LifecycleStep, RegisterDID, UpdatePublicKey, UpdateMetadataURI, SuspendDID,
              UnsuspendDID, RevokeDID
<1>5. ASSUME NEW sender \in Sender, NEW e \in Token, NEW c \in Account \cup {ZeroAddress},
             ControllerStep(sender, e, c)
      PROVE  UNCHANGED <<controllerPermissions[d], controllerList[d]>>
  <2>1. /\ e # d
        /\ \E granted : controllerPermissions' = [controllerPermissions EXCEPT ![e] = granted]
        /\ \/ controllerList' = controllerList
           \/ \E listed : controllerList' = [controllerList EXCEPT ![e] = listed]
    BY <1>5 DEF ControllerStep, AddController, UpdateControllerPermissions, RemoveController
  <2> QED BY <2>1 DEF TypeOK
<1>6. ASSUME NEW sender \in Sender, NEW e \in Token, NEW h \in Hash, CredentialStep(sender, e, h)
      PROVE  UNCHANGED controllers
  BY <1>6 DEF CredentialStep, RevokeCredential, AnchorCredential
<1>7. ASSUME NEW h \in Hash, ConsumeCredential(h)
      PROVE  UNCHANGED controllers
  BY <1>7 DEF ConsumeCredential
<1> QED
  BY <1>1, <1>2, <1>3, <1>4, <1>5, <1>6, <1>7 DEF Next

LEMMA NoNewAnchor ==
  ASSUME TypeOK, [Next]_vars, NEW d \in Token, d \notin active, NEW h \in Hash,
         credentialAnchors'[h].exists, credentialAnchors'[h].subjectDid = d
  PROVE  credentialAnchors'[h] = credentialAnchors[h]
<1>1. CASE UNCHANGED credentials
  BY <1>1 DEF credentials
<1>2. ASSUME NEW sender \in Sender, NEW e \in Token, NEW g \in Hash,
             RevokeCredential(sender, e, g)
      PROVE  credentialAnchors'[h] = credentialAnchors[h]
  BY <1>2 DEF RevokeCredential
<1>3. ASSUME NEW sender \in Sender, NEW e \in Token, NEW g \in Hash, NEW type \in CredentialType,
             NEW mode \in ModeInput, NEW maxUses \in 0 .. MaxUses,
             AnchorCredential(sender, e, g, type, mode, maxUses)
      PROVE  credentialAnchors'[h] = credentialAnchors[h]
  BY <1>3, AnchorEffect
<1>4. ASSUME NEW g \in Hash, ConsumeCredential(g)
      PROVE  credentialAnchors'[h] = credentialAnchors[h]
  BY <1>4, ConsumeEffect
<1> QED BY <1>1, <1>2, <1>3, <1>4, CredentialKinds

(* Revocation is for ever: no call of anybody brings a revoked DID back,    *)
(* changes a thing about it, or hangs a new credential on it.               *)
THEOREM RevocationIsFinal == Spec => RevocationFinal
<1> DEFINE Final == \A d \in exists \ active :
       /\ d \in (exists \ active)'
       /\ d \notin activeDIDByTokenId'
       /\ UNCHANGED <<records[d], keyHistoryByDid[d], suspensionHistoryByDid[d],
                      controllerPermissions[d], controllerList[d]>>
       /\ \A h \in Hash : credentialAnchors'[h].exists /\ credentialAnchors'[h].subjectDid = d
                            => credentialAnchors'[h] = credentialAnchors[h]
<1>1. ASSUME TypeOK, FlagsConsistent, [Next]_vars
      PROVE  Final
  <2>1. SUFFICES ASSUME NEW d \in exists \ active
                 PROVE  /\ d \in (exists \ active)'
                        /\ d \notin activeDIDByTokenId'
                        /\ UNCHANGED <<records[d], keyHistoryByDid[d], suspensionHistoryByDid[d],
                                       controllerPermissions[d], controllerList[d]>>
                        /\ \A h \in Hash :
                              credentialAnchors'[h].exists /\ credentialAnchors'[h].subjectDid = d
                                => credentialAnchors'[h] = credentialAnchors[h]
    OBVIOUS
  <2>2. d \in Token /\ d \in exists /\ d \notin active
    BY <1>1, <2>1 DEF TypeOK
  <2>3. /\ d \in exists' /\ d \notin active'
        /\ d \notin activeDIDByTokenId'
        /\ UNCHANGED <<records[d], keyHistoryByDid[d], suspensionHistoryByDid[d]>>
    BY <1>1, <2>2, RevokedFrozen
  <2>4. UNCHANGED <<controllerPermissions[d], controllerList[d]>>
    BY <1>1, <2>2, ControllersFrozen
  <2>5. \A h \in Hash : credentialAnchors'[h].exists /\ credentialAnchors'[h].subjectDid = d
                           => credentialAnchors'[h] = credentialAnchors[h]
    BY <1>1, <2>2, NoNewAnchor
  <2> QED BY <2>3, <2>4, <2>5
<1>2. TypeOK /\ FlagsConsistent /\ [Next]_vars => [Final]_vars
  BY <1>1
<1> QED BY <1>2, TypeCorrect, FlagsAlwaysConsistent, PTL DEF Spec, RevocationFinal

------------------------------------------------------------------------------
(* A history that names the same keys as before, or one more. *)
SameKeys(h, c) ==
  Len(c) = Len(h) /\ DOMAIN c = DOMAIN h /\ \A i \in DOMAIN h : c[i].keyAddress = h[i].keyAddress

OneMoreKey(h, c, k) ==
  /\ DOMAIN h = 1 .. Len(h) /\ DOMAIN c = 1 .. Len(h) + 1 /\ Len(h) \in Nat
  /\ \A i \in 1 .. Len(h) : c[i].keyAddress = h[i].keyAddress
  /\ c[Len(h) + 1].keyAddress = k

LEMMA ClosedSameKeys ==
  ASSUME NEW h \in Seq(KeyHistoryEntry), h # <<>>, NEW ts \in Nat
  PROVE  SameKeys(h, CloseCurrentKeyHistoryEntry(h, ts))
<1> DEFINE n == Len(h)
           c == CloseCurrentKeyHistoryEntry(h, ts)
<1>1. n \in Nat /\ n >= 1 /\ h[n] \in KeyHistoryEntry /\ DOMAIN h = 1 .. n
  BY EmptySeq, ElementOfSeq
<1>2. /\ c \in Seq(KeyHistoryEntry) /\ Len(c) = n
      /\ \A i \in 1 .. n - 1 : c[i] = h[i]
      /\ c[n] = IF h[n].validUntil = 0 THEN [h[n] EXCEPT !.validUntil = ts] ELSE h[n]
  BY CloseKeyEntryShape
<1>3. c[n].keyAddress = h[n].keyAddress
  BY <1>1, <1>2 DEF KeyHistoryEntry
<1> HIDE DEF c
<1>4. DOMAIN c = 1 .. n
  BY <1>2
<1>5. \A i \in 1 .. n : c[i].keyAddress = h[i].keyAddress
  BY <1>1, <1>2, <1>3, BelowLast
<1> QED
  BY <1>1, <1>4, <1>5 DEF SameKeys, c

LEMMA AppendedOneMoreKey ==
  ASSUME NEW h \in Seq(KeyHistoryEntry), NEW g \in Seq(KeyHistoryEntry), SameKeys(h, g),
         NEW e \in KeyHistoryEntry
  PROVE  OneMoreKey(h, Append(g, e), e.keyAddress)
<1> DEFINE n == Len(g)
           c == Append(g, e)
<1>1. /\ n \in Nat /\ DOMAIN g = 1 .. n /\ DOMAIN c = 1 .. n + 1
      /\ \A i \in 1 .. n : c[i] = g[i]
      /\ c[n + 1] = e
  BY AppendEntry
<1>2. DOMAIN h = 1 .. Len(h) /\ Len(h) \in Nat /\ DOMAIN h = 1 .. n
  BY <1>1 DEF SameKeys
<1>3. Len(h) = n
  BY DEF SameKeys
<1> HIDE DEF c
<1>4. \A i \in 1 .. n : c[i].keyAddress = h[i].keyAddress
  BY <1>1, <1>2 DEF SameKeys
<1> QED BY <1>1, <1>2, <1>3, <1>4 DEF OneMoreKey, c

(* What a step does to the key history of one DID. *)
Kept(d)    == keyHistoryByDid'[d] = keyHistoryByDid[d]
Born(d, k) == d \notin exists /\ keyHistoryByDid'[d] = Append(keyHistoryByDid[d], OpenEntry(k))
Rotated(d, k) ==
  /\ d \in exists /\ d \in active /\ keyHistoryByDid[d] # <<>>
  /\ keyHistoryByDid'[d] =
       Append(CloseCurrentKeyHistoryEntry(keyHistoryByDid[d], now), OpenEntry(k))
Ended(d) ==
  /\ d \in exists /\ d \in active /\ keyHistoryByDid[d] # <<>>
  /\ keyHistoryByDid'[d] = CloseCurrentKeyHistoryEntry(keyHistoryByDid[d], now)

LEMMA HistoryKinds ==
  ASSUME TypeOK, [Next]_vars
  PROVE  \/ /\ UNCHANGED usedRobotKeyAddresses
            /\ \A d \in Token : Kept(d)
         \/ /\ now' = now /\ UNCHANGED usedRobotKeyAddresses
            /\ \E d \in Token : Ended(d) /\ \A e \in Token : e # d => Kept(e)
         \/ /\ now' = now
            /\ \E d \in Token, k \in RobotKey :
                 /\ KeyUsable(k) /\ usedRobotKeyAddresses' = usedRobotKeyAddresses \cup {k}
                 /\ Born(d, k) \/ Rotated(d, k)
                 /\ \A e \in Token : e # d => Kept(e)
<1> DEFINE Quietly == UNCHANGED usedRobotKeyAddresses /\ \A d \in Token : Kept(d)
           Ending  == /\ now' = now /\ UNCHANGED usedRobotKeyAddresses
                      /\ \E d \in Token : Ended(d) /\ \A e \in Token : e # d => Kept(e)
           Adding  == /\ now' = now
                      /\ \E d \in Token, k \in RobotKey :
                           /\ KeyUsable(k)
                           /\ usedRobotKeyAddresses' = usedRobotKeyAddresses \cup {k}
                           /\ Born(d, k) \/ Rotated(d, k)
                           /\ \A e \in Token : e # d => Kept(e)
<1>1. ASSUME Quiet \/ NextBlock
      PROVE  Quietly
  BY <1>1 DEF Quiet, NextBlock, keys, Kept
<1>2. ASSUME NEW sender \in Sender, NEW d \in Token, NEW k \in RobotKey, NEW uri, NEW signature,
             RegisterDID(sender, d, k, uri, signature)
      PROVE  Adding
  BY <1>2, RegisterEffect DEF Elsewhere, Born, Kept
<1>3. ASSUME NEW sender \in Sender, NEW d \in Token, NEW k \in RobotKey,
             UpdatePublicKey(sender, d, k)
      PROVE  Adding
  BY <1>3, RotateEffect DEF Elsewhere, Rotated, Kept
<1>4. ASSUME NEW sender \in Sender, NEW d \in Token,
             \/ \E uri \in MetadataURI : UpdateMetadataURI(sender, d, uri)
             \/ SuspendDID(sender, d)
             \/ UnsuspendDID(sender, d)
      PROVE  Quietly
  BY <1>4, MetadataEffect, SuspendEffect, UnsuspendEffect DEF Kept
<1>5. ASSUME NEW sender \in Sender, NEW d \in Token, RevokeDID(sender, d)
      PROVE  Ending
  BY <1>5, RevokeEffect DEF Elsewhere, Ended, Kept
<1>6. ASSUME NEW sender \in Sender, NEW d \in Token, LifecycleStep(sender, d)
      PROVE  Quietly \/ Ending \/ Adding
  <2> HIDE DEF Quietly, Ending, Adding
  <2> QED BY <1>2, <1>3, <1>4, <1>5, <1>6 DEF LifecycleStep
<1>7. Quietly \/ Ending \/ Adding
  <2> HIDE DEF Quietly, Ending, Adding
  <2> QED BY <1>1, <1>6, StepKinds
<1> QED BY <1>7

(* How a step changes the keys that the histories name: not at all, or by a *)
(* key at the end of one history that no history named before.              *)
LEMMA KeySteps ==
  ASSUME TypeOK, [Next]_vars
  PROVE  \/ /\ UNCHANGED usedRobotKeyAddresses
            /\ \A d \in Token : SameKeys(keyHistoryByDid[d], keyHistoryByDid'[d])
         \/ \E d \in Token, k \in RobotKey :
              /\ k \notin usedRobotKeyAddresses
              /\ usedRobotKeyAddresses' = usedRobotKeyAddresses \cup {k}
              /\ OneMoreKey(keyHistoryByDid[d], keyHistoryByDid'[d], k)
              /\ \A e \in Token : e # d => SameKeys(keyHistoryByDid[e], keyHistoryByDid'[e])
<1>1. /\ now \in Nat
      /\ \A d \in Token : keyHistoryByDid[d] \in Seq(KeyHistoryEntry)
  BY DEF TypeOK
<1>2. ASSUME NEW d \in Token, Kept(d)
      PROVE  SameKeys(keyHistoryByDid[d], keyHistoryByDid'[d])
  BY <1>2 DEF SameKeys, Kept
<1>3. ASSUME NEW d \in Token, Ended(d)
      PROVE  SameKeys(keyHistoryByDid[d], keyHistoryByDid'[d])
  BY <1>1, <1>3, ClosedSameKeys DEF Ended
<1>4. ASSUME NEW d \in Token, NEW k \in RobotKey, Born(d, k) \/ Rotated(d, k)
      PROVE  OneMoreKey(keyHistoryByDid[d], keyHistoryByDid'[d], k)
  <2> DEFINE h == keyHistoryByDid[d]
             c == CloseCurrentKeyHistoryEntry(h, now)
  <2>1. h \in Seq(KeyHistoryEntry) /\ SameKeys(h, h)
    BY <1>1 DEF SameKeys
  <2>2. OpenEntry(k) \in KeyHistoryEntry /\ OpenEntry(k).keyAddress = k
    BY OpenEntryType DEF OpenEntry
  <2>3. CASE Born(d, k)
    BY <2>1, <2>2, <2>3, AppendedOneMoreKey DEF Born
  <2>4. CASE Rotated(d, k)
    <3>1. h # <<>> /\ keyHistoryByDid'[d] = Append(c, OpenEntry(k))
      BY <2>4 DEF Rotated
    <3>2. c \in Seq(KeyHistoryEntry) /\ SameKeys(h, c)
      BY <1>1, <2>1, <3>1, ClosedSameKeys, CloseKeyEntryShape
    <3> HIDE DEF c, h
    <3>3. OneMoreKey(h, Append(c, OpenEntry(k)), OpenEntry(k).keyAddress)
      BY <2>1, <2>2, <3>2, AppendedOneMoreKey
    <3> QED BY <2>2, <3>1, <3>3 DEF h
  <2> QED BY <1>4, <2>3, <2>4
<1> QED
  BY <1>2, <1>3, <1>4, HistoryKinds DEF KeyUsable

(* The two halves of the invariant, without the sets. *)
NamedOnce == \A d, e \in Token : \A i \in DOMAIN keyHistoryByDid[d], j \in DOMAIN keyHistoryByDid[e] :
  keyHistoryByDid[d][i].keyAddress = keyHistoryByDid[e][j].keyAddress => d = e /\ i = j

Names(d, k) == \E i \in DOMAIN keyHistoryByDid[d] : keyHistoryByDid[d][i].keyAddress = k

NamedAreUsed == \A k : k \in usedRobotKeyAddresses <=> \E d \in Token : Names(d, k)

OfRobots == usedRobotKeyAddresses \subseteq RobotKey

LEMMA UniqueByHalves == RobotKeysUnique <=> NamedOnce /\ NamedAreUsed
  BY DEF RobotKeysUnique, NamedOnce, NamedAreUsed, Names

LEMMA UniqueInit == Init => NamedOnce /\ NamedAreUsed /\ OfRobots
<1>1. Init => /\ \A d \in Token : keyHistoryByDid[d] = <<>>
              /\ usedRobotKeyAddresses = {}
  BY DEF Init
<1>2. DOMAIN <<>> = {}
  OBVIOUS
<1> QED BY <1>1, <1>2 DEF NamedOnce, NamedAreUsed, Names, OfRobots

LEMMA UniqueStep ==
  ASSUME TypeOK, NamedOnce, NamedAreUsed, OfRobots, [Next]_vars
  PROVE  NamedOnce' /\ NamedAreUsed' /\ OfRobots'
<1>1. ASSUME UNCHANGED usedRobotKeyAddresses,
             \A d \in Token : SameKeys(keyHistoryByDid[d], keyHistoryByDid'[d])
      PROVE  NamedOnce' /\ NamedAreUsed'
  BY <1>1 DEF SameKeys, NamedOnce, NamedAreUsed, Names
<1>2. ASSUME NEW d \in Token, NEW k \in RobotKey, k \notin usedRobotKeyAddresses,
             usedRobotKeyAddresses' = usedRobotKeyAddresses \cup {k},
             OneMoreKey(keyHistoryByDid[d], keyHistoryByDid'[d], k),
             \A e \in Token : e # d => SameKeys(keyHistoryByDid[e], keyHistoryByDid'[e])
      PROVE  NamedOnce' /\ NamedAreUsed'
  <2> DEFINE n == Len(keyHistoryByDid[d])
  <2>1. /\ n \in Nat /\ DOMAIN keyHistoryByDid[d] = 1 .. n
        /\ DOMAIN keyHistoryByDid'[d] = 1 .. n + 1
        /\ \A i \in 1 .. n : keyHistoryByDid'[d][i].keyAddress = keyHistoryByDid[d][i].keyAddress
        /\ keyHistoryByDid'[d][n + 1].keyAddress = k
    BY <1>2 DEF OneMoreKey
  <2> HIDE DEF n
  <2>2. \A i \in 1 .. n + 1 : i \in 1 .. n \/ i = n + 1
    BY <2>1
  <2>3. \A i \in 1 .. n : i \in 1 .. n + 1
    BY <2>1
  <2>4. n + 1 \in 1 .. n + 1
    BY <2>1
  <2>5. \A e \in Token : e # d =>
          /\ DOMAIN keyHistoryByDid'[e] = DOMAIN keyHistoryByDid[e]
          /\ \A i \in DOMAIN keyHistoryByDid[e] :
                keyHistoryByDid'[e][i].keyAddress = keyHistoryByDid[e][i].keyAddress
    BY <1>2 DEF SameKeys
  <2>6. ASSUME NEW e \in Token, NEW i \in DOMAIN keyHistoryByDid'[e]
        PROVE  \/ i \in DOMAIN keyHistoryByDid[e] /\
                  keyHistoryByDid'[e][i].keyAddress = keyHistoryByDid[e][i].keyAddress
               \/ e = d /\ i = n + 1 /\ keyHistoryByDid'[e][i].keyAddress = k
    BY <2>1, <2>2, <2>5
  <2>7. ASSUME NEW e \in Token, NEW i \in DOMAIN keyHistoryByDid[e]
        PROVE  /\ i \in DOMAIN keyHistoryByDid'[e]
               /\ keyHistoryByDid'[e][i].keyAddress = keyHistoryByDid[e][i].keyAddress
               /\ keyHistoryByDid[e][i].keyAddress # k
    BY <1>2, <2>1, <2>3, <2>5 DEF NamedAreUsed, Names
  <2>8. NamedOnce'
    BY <2>6, <2>7 DEF NamedOnce
  <2>9. \A l : (\E e \in Token : Names(e, l)') <=> l = k \/ \E e \in Token : Names(e, l)
    BY <2>1, <2>4, <2>6, <2>7 DEF Names
  <2> QED BY <1>2, <2>8, <2>9 DEF NamedAreUsed
<1> QED
  BY <1>1, <1>2, KeySteps DEF OfRobots

LEMMA NamedAlways ==
  Spec => [](NamedOnce /\ NamedAreUsed /\ OfRobots)
<1>1. TypeOK /\ NamedOnce /\ NamedAreUsed /\ OfRobots /\ [Next]_vars
        => NamedOnce' /\ NamedAreUsed' /\ OfRobots'
  BY UniqueStep
<1> QED BY <1>1, UniqueInit, TypeCorrect, PTL DEF Spec

(* A robot key address never comes to stand for two robots, nor twice for   *)
(* one: whatever was rotated out or revoked, it is not accepted again.      *)
THEOREM RobotKeysAlwaysUnique == Spec => []RobotKeysUnique
  BY NamedAlways, UniqueByHalves, PTL

------------------------------------------------------------------------------
(* No second is left out by the key entries of an active DID, and two of    *)
(* them share at most the second in which the earlier one ends.             *)
Apart(h) == \A i, j \in DOMAIN h : i < j => /\ h[i].validUntil # 0
                                          /\ h[i].validUntil <= h[j].validFrom

Covers(h, since, time) == \A t \in since .. time : \E i \in DOMAIN h : EntryCovers(h[i], t)

EntriesApart == \A d \in Token : Apart(keyHistoryByDid[d])

EntriesCover == \A d \in active : Covers(keyHistoryByDid[d], records[d].createdAt, now)

LEMMA ApartClosed ==
  ASSUME NEW h \in Seq(KeyHistoryEntry), h # <<>>, NEW ts \in Nat, Apart(h)
  PROVE  Apart(CloseCurrentKeyHistoryEntry(h, ts))
<1> DEFINE n == Len(h)
           c == CloseCurrentKeyHistoryEntry(h, ts)
<1>1. n \in Nat /\ n >= 1 /\ h[n] \in KeyHistoryEntry /\ DOMAIN h = 1 .. n
  BY EmptySeq, ElementOfSeq
<1>2. /\ c \in Seq(KeyHistoryEntry) /\ Len(c) = n
      /\ \A i \in 1 .. n - 1 : c[i] = h[i]
      /\ c[n] = IF h[n].validUntil = 0 THEN [h[n] EXCEPT !.validUntil = ts] ELSE h[n]
  BY CloseKeyEntryShape
<1>3. c[n].validFrom = h[n].validFrom
  BY <1>1, <1>2 DEF KeyHistoryEntry
<1> HIDE DEF c, n
<1>4. DOMAIN c = 1 .. n
  BY <1>2
<1>5. \A j \in 1 .. n : c[j].validFrom = h[j].validFrom
  BY <1>1, <1>2, <1>3, BelowLast
<1>6. \A i, j \in 1 .. n : i < j => i \in 1 .. n - 1
  BY <1>1
<1>7. ASSUME NEW i \in 1 .. n, NEW j \in 1 .. n, i < j
      PROVE  c[i].validUntil # 0 /\ c[i].validUntil <= c[j].validFrom
  <2>1. c[i] = h[i] /\ c[j].validFrom = h[j].validFrom
    BY <1>2, <1>5, <1>6, <1>7
  <2>2. h[i].validUntil # 0 /\ h[i].validUntil <= h[j].validFrom
    BY <1>1, <1>7 DEF Apart
  <2> QED BY <2>1, <2>2
<1> QED
  BY <1>4, <1>7 DEF Apart, c

LEMMA ApartExtended ==
  ASSUME NEW h \in Seq(KeyHistoryEntry), Apart(h), NEW e \in KeyHistoryEntry,
         \A i \in DOMAIN h : h[i].validUntil # 0 /\ h[i].validUntil <= e.validFrom
  PROVE  Apart(Append(h, e))
<1> DEFINE n == Len(h)
           c == Append(h, e)
<1>1. /\ n \in Nat /\ DOMAIN h = 1 .. n /\ DOMAIN c = 1 .. n + 1
      /\ \A i \in 1 .. n : c[i] = h[i]
      /\ c[n + 1] = e
  BY AppendEntry
<1> HIDE DEF c, n
<1>2. ASSUME NEW i \in 1 .. n + 1, NEW j \in 1 .. n + 1, i < j
      PROVE  c[i].validUntil # 0 /\ c[i].validUntil <= c[j].validFrom
  <2>1. i \in 1 .. n /\ (j \in 1 .. n \/ j = n + 1)
    BY <1>1, <1>2
  <2>2. c[i] = h[i]
    BY <1>1, <2>1
  <2>3. CASE j \in 1 .. n
    <3>1. h[i].validUntil # 0 /\ h[i].validUntil <= h[j].validFrom
      BY <1>1, <1>2, <2>1, <2>3 DEF Apart
    <3> QED BY <1>1, <2>2, <2>3, <3>1
  <2>4. CASE j = n + 1
    BY <1>1, <2>1, <2>2, <2>4
  <2> QED BY <2>1, <2>3, <2>4
<1> QED
  BY <1>1, <1>2 DEF Apart, c

(* Once the open entry is closed now, every entry has ended by now. *)
LEMMA ClosedAllEnded ==
  ASSUME NEW h \in Seq(KeyHistoryEntry), h # <<>>, NEW since, NEW t \in Nat, t >= 1,
         KeysChained(h, since, TRUE, t)
  PROVE  \A i \in DOMAIN CloseCurrentKeyHistoryEntry(h, t) :
           LET c == CloseCurrentKeyHistoryEntry(h, t) IN
             c[i].validUntil # 0 /\ c[i].validUntil <= t
<1> DEFINE n == Len(h)
           c == CloseCurrentKeyHistoryEntry(h, t)
<1>1. n \in Nat /\ n >= 1 /\ DOMAIN h = 1 .. n
  BY EmptySeq
<1>2. /\ c \in Seq(KeyHistoryEntry) /\ Len(c) = n
      /\ \A i \in 1 .. n - 1 : c[i] = h[i]
  BY CloseKeyEntryShape
<1>3. Last(c).validUntil = t
  BY ClosedLast
<1>4. ASSUME NEW i \in 1 .. n - 1
      PROVE  h[i].validUntil # 0 /\ h[i].validUntil <= t
  <2>1. h[i].validUntil = h[i + 1].validFrom
    BY <1>4 DEF KeysChained
  <2>2. i + 1 \in DOMAIN h
    BY <1>1
  <2>3. h[i + 1].validFrom \in 1 .. t
    BY <2>2 DEF KeysChained
  <2> QED BY <2>1, <2>3
<1> HIDE DEF c, n
<1>5. DOMAIN c = 1 .. n /\ c[n].validUntil = t
  BY <1>2, <1>3 DEF Last
<1>6. \A i \in 1 .. n : c[i].validUntil # 0 /\ c[i].validUntil <= t
  BY <1>1, <1>2, <1>4, <1>5, BelowLast
<1> QED
  BY <1>5, <1>6 DEF c

LEMMA ApartStep ==
  ASSUME TypeOK, KeyHistoryChained, EntriesApart, [Next]_vars
  PROVE  EntriesApart'
<1>1. /\ now \in Nat /\ now >= 1
      /\ \A d \in Token : keyHistoryByDid[d] \in Seq(KeyHistoryEntry)
  BY DEF TypeOK
<1>2. ASSUME NEW d \in Token, Kept(d)
      PROVE  Apart(keyHistoryByDid'[d])
  BY <1>2 DEF EntriesApart, Kept
<1>3. ASSUME NEW d \in Token, Ended(d)
      PROVE  Apart(keyHistoryByDid'[d])
  BY <1>1, <1>3, ApartClosed DEF EntriesApart, Ended
<1>4. ASSUME NEW d \in Token, NEW k \in RobotKey, Born(d, k)
      PROVE  Apart(keyHistoryByDid'[d])
  <2>1. keyHistoryByDid[d] = <<>> /\ keyHistoryByDid'[d] = Append(<<>>, OpenEntry(k))
    BY <1>4 DEF Born, KeyHistoryChained
  <2>2. DOMAIN Append(<<>>, OpenEntry(k)) = {1}
    OBVIOUS
  <2> QED BY <2>1, <2>2 DEF Apart
<1>5. ASSUME NEW d \in Token, NEW k \in RobotKey, Rotated(d, k)
      PROVE  Apart(keyHistoryByDid'[d])
  <2> DEFINE h == keyHistoryByDid[d]
             c == CloseCurrentKeyHistoryEntry(h, now)
  <2>1. /\ h \in Seq(KeyHistoryEntry) /\ h # <<>> /\ Apart(h)
        /\ keyHistoryByDid'[d] = Append(c, OpenEntry(k))
    BY <1>1, <1>5 DEF EntriesApart, Rotated
  <2>2. KeysChained(h, records[d].createdAt, TRUE, now)
    <3>1. KeysChained(h, records[d].createdAt, d \in active, now)
      BY <1>5 DEF KeyHistoryChained, Rotated
    <3>2. (d \in active) = TRUE
      BY <1>5 DEF Rotated
    <3> QED BY <3>1, <3>2
  <2>3. Apart(c) /\ c \in Seq(KeyHistoryEntry)
    BY <1>1, <2>1, ApartClosed, CloseKeyEntryShape
  <2>4. \A i \in DOMAIN c : c[i].validUntil # 0 /\ c[i].validUntil <= now
    BY <1>1, <2>1, <2>2, ClosedAllEnded
  <2>5. OpenEntry(k) \in KeyHistoryEntry /\ OpenEntry(k).validFrom = now
    BY OpenEntryType
  <2> HIDE DEF c, h
  <2>6. Apart(Append(c, OpenEntry(k)))
    BY <2>3, <2>4, <2>5, ApartExtended
  <2> QED BY <2>1, <2>6
<1> QED
  BY <1>2, <1>3, <1>4, <1>5, HistoryKinds DEF EntriesApart

(* A DID that was not registered before the step is registered now. *)
LEMMA Newborn ==
  ASSUME TypeOK, FlagsConsistent, [Next]_vars, NEW d \in Token, d \in active', d \notin exists
  PROVE  now' = now /\ records'[d].createdAt = now
<1> DEFINE New == now' = now /\ records'[d].createdAt = now
<1>1. d \notin active
  BY DEF FlagsConsistent
<1>2. ASSUME Quiet \/ NextBlock
      PROVE  FALSE
  BY <1>1, <1>2 DEF Quiet, NextBlock, lifecycle
<1>3. ASSUME NEW sender \in Sender, NEW e \in Token, NEW k \in RobotKey, NEW uri \in MetadataURI,
             NEW signature, RegisterDID(sender, e, k, uri, signature)
      PROVE  New
  <2>1. /\ active' = active \cup {e} /\ now' = now
        /\ records'[e].createdAt = now
    BY <1>3, RegisterEffect DEF Elsewhere, Stamps
  <2>2. d = e
    BY <1>1, <2>1
  <2> QED BY <2>1, <2>2
<1>4. ASSUME NEW sender \in Sender, NEW e \in Token,
             \/ \E k \in RobotKey : UpdatePublicKey(sender, e, k)
             \/ \E uri \in MetadataURI : UpdateMetadataURI(sender, e, uri)
             \/ SuspendDID(sender, e)
             \/ UnsuspendDID(sender, e)
             \/ RevokeDID(sender, e)
      PROVE  FALSE
  <2>1. active' \subseteq active
    BY <1>4, RotateEffect, MetadataEffect, SuspendEffect, UnsuspendEffect, RevokeEffect
  <2> QED BY <1>1, <2>1
<1> QED
  BY <1>2, <1>3, <1>4, StepKinds DEF LifecycleStep

LEMMA CoverStep ==
  ASSUME TypeOK, TypeOK', FlagsConsistent, FlagsConsistent', KeyHistoryChained,
         KeyHistoryChained', EntriesCover, [Next]_vars
  PROVE  EntriesCover'
<1>1. SUFFICES ASSUME NEW d \in active', NEW t \in records'[d].createdAt .. now'
               PROVE  \E i \in DOMAIN keyHistoryByDid'[d] : EntryCovers(keyHistoryByDid'[d][i], t)
  BY DEF EntriesCover, Covers
<1>2. /\ d \in Token /\ d \in exists'
      /\ now \in Nat /\ now' \in Nat /\ now' >= 1
      /\ keyHistoryByDid[d] \in Seq(KeyHistoryEntry)
      /\ keyHistoryByDid'[d] \in Seq(KeyHistoryEntry)
      /\ records'[d] \in DIDRecord
  BY <1>1 DEF TypeOK, FlagsConsistent
<1>3. t \in Nat /\ t <= now' /\ records'[d].createdAt \in Nat /\ records'[d].createdAt <= t
  <2>1. records'[d].createdAt \in Nat
    BY <1>2 DEF DIDRecord
  <2> QED BY <1>1, <1>2, <2>1
<1>4. CASE t = now'
  <2> DEFINE c == keyHistoryByDid'[d]
             n == Len(c)
  <2>1. KeysChained(c, records'[d].createdAt, d \in active', now')
    BY <1>2 DEF KeyHistoryChained
  <2>2. /\ c # <<>> /\ Last(c).validUntil = 0
        /\ \A i \in DOMAIN c : c[i].validFrom \in 1 .. now'
    BY <1>1, <2>1 DEF KeysChained
  <2>3. n \in DOMAIN c
    BY <1>2, <2>2, EmptySeq
  <2>4. EntryCovers(c[n], t)
    BY <1>2, <1>4, <2>2, <2>3 DEF EntryCovers, Last
  <2> QED BY <2>3, <2>4
<1>5. CASE t # now'
  <2>1. d \in exists
    BY <1>2, <1>3, <1>5, Newborn, <1>1
  <2>2. records'[d].createdAt = records[d].createdAt
    BY <1>2, <2>1, LifetimeGrows
  <2>3. now' = now \/ now' = now + 1
    BY ClockStep
  <2>4. t \in records[d].createdAt .. now
    BY <1>2, <1>3, <1>5, <2>2, <2>3
  <2>5. CASE t < now
    <3>1. \A k : /\ d \in active
                 /\ Signs(keyHistoryByDid[d], k, t)' <=> Signs(keyHistoryByDid[d], k, t)
      BY <1>1, <1>2, <1>3, <2>1, <2>5, ListsStable
    <3>2. \E i \in DOMAIN keyHistoryByDid[d] : EntryCovers(keyHistoryByDid[d][i], t)
      BY <2>4, <3>1 DEF EntriesCover, Covers
    <3>3. \E k : Signs(keyHistoryByDid[d], k, t)
      BY <3>2 DEF Signs
    <3> QED BY <3>1, <3>3 DEF Signs
  <2>6. CASE ~ (t < now)
    <3>1. t = now /\ now' # now
      BY <1>2, <1>3, <1>5, <2>3, <2>4, <2>6
    <3>2. Kept(d)
      BY <1>2, <3>1, HistoryKinds
    <3>3. d \in active
      BY <1>1, <3>1, ClockStep DEF NextBlock, lifecycle
    <3>4. \E i \in DOMAIN keyHistoryByDid[d] : EntryCovers(keyHistoryByDid[d][i], t)
      BY <2>4, <3>3 DEF EntriesCover, Covers
    <3> QED BY <3>2, <3>4 DEF Kept
  <2> QED BY <2>5, <2>6
<1> QED
  BY <1>4, <1>5

LEMMA CoverInit == Init => EntriesApart /\ EntriesCover
<1>1. Init => active = {} /\ \A d \in Token : keyHistoryByDid[d] = <<>>
  BY DEF Init
<1>2. DOMAIN <<>> = {}
  OBVIOUS
<1> QED BY <1>1, <1>2 DEF EntriesApart, EntriesCover, Apart

LEMMA CoverAlways == Spec => [](EntriesApart /\ EntriesCover)
<1>1. /\ TypeOK /\ TypeOK' /\ FlagsConsistent /\ FlagsConsistent'
      /\ KeyHistoryChained /\ KeyHistoryChained' /\ EntriesApart /\ EntriesCover /\ [Next]_vars
    => EntriesApart' /\ EntriesCover'
  BY ApartStep, CoverStep
<1> QED
  BY <1>1, CoverInit, TypeCorrect, FlagsAlwaysConsistent, KeysChainedAlways, PTL DEF Spec

LEMMA SignersFromEntries ==
  ASSUME TypeOK, FlagsConsistent, NamedAreUsed, OfRobots, EntriesApart, EntriesCover
  PROVE  SignerUnambiguous
<1>1. SUFFICES ASSUME NEW d \in active, NEW t \in records[d].createdAt .. now
               PROVE  /\ \E k \in RobotKey : IsRobotKeyAuthorizedAt(d, k, t)
                      /\ \A k, l \in RobotKey :
                           k # l /\ IsRobotKeyAuthorizedAt(d, k, t) /\ IsRobotKeyAuthorizedAt(d, l, t)
                             => \E i \in 2 .. Len(keyHistoryByDid[d]) : keyHistoryByDid[d][i].validFrom = t
  BY DEF SignerUnambiguous
<1> DEFINE h == keyHistoryByDid[d]
           n == Len(h)
<1>2. /\ d \in Token /\ d \in exists /\ h \in Seq(KeyHistoryEntry) /\ now \in Nat
      /\ records[d] \in DIDRecord
  BY <1>1 DEF TypeOK, FlagsConsistent
<1>3. t \in Nat
  <2>1. records[d].createdAt \in Nat
    BY <1>2, RecordTimes
  <2> QED BY <1>1, <1>2, <2>1
<1>4. n \in Nat /\ DOMAIN h = 1 .. n /\ \A i \in 1 .. n : h[i] \in KeyHistoryEntry
  BY <1>2, ElementOfSeq
<1>5. \A i \in 1 .. n : h[i].validFrom \in Nat /\ h[i].validUntil \in Nat
  BY <1>4 DEF KeyHistoryEntry
<1>6. \A i \in 1 .. n : h[i].keyAddress \in RobotKey
  BY <1>2, <1>4 DEF NamedAreUsed, Names, OfRobots
<1>7. \E k \in RobotKey : IsRobotKeyAuthorizedAt(d, k, t)
  <2>1. PICK i \in 1 .. n : EntryCovers(h[i], t)
    BY <1>1, <1>4 DEF EntriesCover, Covers
  <2>2. IsRobotKeyAuthorizedAt(d, h[i].keyAddress, t)
    BY <1>1, <1>2, <1>4, <2>1 DEF IsRobotKeyAuthorizedAt
  <2> QED BY <1>6, <2>1, <2>2
<1>8. ASSUME NEW i \in 1 .. n, NEW j \in 1 .. n, i < j, EntryCovers(h[i], t), EntryCovers(h[j], t)
      PROVE  j \in 2 .. n /\ h[j].validFrom = t
  <2>1. h[i].validUntil # 0 /\ h[i].validUntil <= h[j].validFrom
    BY <1>2, <1>4, <1>8 DEF EntriesApart, Apart
  <2>2. t <= h[i].validUntil /\ h[j].validFrom <= t
    BY <1>3, <1>5, <1>8, <2>1 DEF EntryCovers
  <2>3. h[j].validFrom = t
    BY <1>3, <1>5, <2>1, <2>2
  <2> QED BY <1>4, <1>8, <2>3
<1>9. ASSUME NEW k \in RobotKey, NEW l \in RobotKey, k # l, IsRobotKeyAuthorizedAt(d, k, t),
             IsRobotKeyAuthorizedAt(d, l, t)
      PROVE  \E i \in 2 .. n : h[i].validFrom = t
  <2>1. PICK i \in 1 .. n : h[i].keyAddress = k /\ EntryCovers(h[i], t)
    BY <1>4, <1>9 DEF IsRobotKeyAuthorizedAt
  <2>2. PICK j \in 1 .. n : h[j].keyAddress = l /\ EntryCovers(h[j], t)
    BY <1>4, <1>9 DEF IsRobotKeyAuthorizedAt
  <2>3. i # j
    BY <1>9, <2>1, <2>2
  <2>4. i < j \/ j < i
    BY <1>4, <2>3
  <2> QED BY <1>8, <2>1, <2>2, <2>4
<1> QED
  BY <1>7, <1>9

(* At every second of an active DID's life some robot key may sign, and two *)
(* may only in a second in which the key was rotated.                       *)
THEOREM SignerAlwaysUnambiguous == Spec => []SignerUnambiguous
  BY NamedAlways, CoverAlways, SignersFromEntries, TypeCorrect, FlagsAlwaysConsistent, PTL

------------------------------------------------------------------------------
(* The timeline, told by the lists: what each DID's part of it is, and how  *)
(* it stays the same.                                                       *)
Told(d) == <<Status(d), CurrentKey(d), BlockedSeconds(d), SigningSeconds(d)>>

LEMMA SecondsTold ==
  ASSUME NEW d \in Token
  PROVE  /\ BlockedSeconds(d) = {t \in 1 .. now - 1 : Blocks(suspensionHistoryByDid[d], t)}
         /\ SigningSeconds(d) =
              {s \in Address \X (1 .. now) : Signs(keyHistoryByDid[d], s[1], s[2])}
  BY DEF BlockedSeconds, SigningSeconds, Blocks, Signs

LEMMA SecondsToldNext ==
  ASSUME NEW d \in Token
  PROVE  /\ BlockedSeconds(d)' = {t \in 1 .. now' - 1 : Blocks(suspensionHistoryByDid'[d], t)}
         /\ SigningSeconds(d)' =
              {s \in Address \X (1 .. now') : Signs(keyHistoryByDid'[d], s[1], s[2])}
  BY DEF BlockedSeconds, SigningSeconds, Blocks, Signs

LEMMA BlockedKept ==
  ASSUME NEW d \in Token, now' = now, now \in Nat,
         \A t \in Nat : t < now =>
           (Blocks(suspensionHistoryByDid'[d], t) <=> Blocks(suspensionHistoryByDid[d], t))
  PROVE  BlockedSeconds(d)' = BlockedSeconds(d)
<1>1. \A t \in 1 .. now - 1 : t \in Nat /\ t < now
  OBVIOUS
<1> QED BY <1>1, SecondsTold, SecondsToldNext

LEMMA SigningKept ==
  ASSUME NEW d \in Token, now' = now, now \in Nat,
         \A k, t : t \in Nat /\ t <= now =>
           (Signs(keyHistoryByDid'[d], k, t) <=> Signs(keyHistoryByDid[d], k, t))
  PROVE  SigningSeconds(d)' = SigningSeconds(d)
<1>1. \A s \in Address \X (1 .. now) : s[2] \in Nat /\ s[2] <= now
  OBVIOUS
<1> QED BY ZenonT(40), <1>1, SecondsTold, SecondsToldNext

LEMMA ToldKept ==
  ASSUME NEW d \in Token, now' = now,
         d \in exists' <=> d \in exists, d \in active' <=> d \in active,
         d \in suspended' <=> d \in suspended,
         keyHistoryByDid'[d] = keyHistoryByDid[d],
         suspensionHistoryByDid'[d] = suspensionHistoryByDid[d]
  PROVE  UNCHANGED Told(d)
<1>1. Status(d)' = Status(d)
  BY DEF Status
<1>2. CurrentKey(d)' = CurrentKey(d)
  BY DEF CurrentKey
<1>3. BlockedSeconds(d)' = BlockedSeconds(d) /\ SigningSeconds(d)' = SigningSeconds(d)
  BY SecondsTold, SecondsToldNext
<1> QED BY <1>1, <1>2, <1>3 DEF Told

(* The steps of the timeline, in the registry's words. *)
Lives == Timeline!Next \/ UNCHANGED Timeline!timelineVars

LEMMA LivesByMove ==
  ASSUME NEW d \in Token, now' = now, \A e \in Token : e # d => UNCHANGED Told(e),
         NEW from, NEW to, Status(d) \in from, Status(d)' = to,
         UNCHANGED <<CurrentKey(d), BlockedSeconds(d), SigningSeconds(d)>>
  PROVE  Timeline!Move(d, from, to)
<1>1. \A e \in Token : e # d => Status(e)' = Status(e)
  BY DEF Told
<1>2. \A e \in Token : UNCHANGED <<CurrentKey(e), BlockedSeconds(e), SigningSeconds(e)>>
  BY DEF Told
<1> QED BY <1>1, <1>2 DEF Timeline!Move

LEMMA LivesByKey ==
  ASSUME NEW d \in Token, NEW k \in RobotKey, now' = now,
         \A e \in Token : e # d => UNCHANGED Told(e),
         \A e \in Token, t \in 0 .. now : <<k, t>> \notin SigningSeconds(e),
         CurrentKey(d)' = k, BlockedSeconds(d)' = BlockedSeconds(d),
         SigningSeconds(d)' = SigningSeconds(d) \cup {<<k, now>>}
  PROVE  /\ Timeline!TakeKey(d, k)
         /\ [e \in Token |-> BlockedSeconds(e)]' = [e \in Token |-> BlockedSeconds(e)]
<1>1. \A e \in Token : e # d => UNCHANGED <<CurrentKey(e), SigningSeconds(e)>>
  BY DEF Told
<1>2. \A e \in Token : UNCHANGED BlockedSeconds(e)
  BY DEF Told
<1> QED BY <1>1, <1>2 DEF Timeline!TakeKey, Timeline!NeverUsed

LEMMA LivesUnmoved ==
  ASSUME now' = now, \A e \in Token : UNCHANGED Told(e)
  PROVE  Lives
<1>1. \A e \in Token : UNCHANGED <<Status(e), CurrentKey(e), BlockedSeconds(e), SigningSeconds(e)>>
  BY DEF Told
<1> QED BY <1>1 DEF Lives, Timeline!timelineVars

------------------------------------------------------------------------------
(* Among the seconds up to now, a key entry that opens now adds only now. *)
LEMMA SignsOpened ==
  ASSUME TypeOK, NEW h \in Seq(KeyHistoryEntry), NEW k \in RobotKey, NEW l,
         NEW t \in Nat, t <= now
  PROVE  Signs(Append(h, OpenEntry(k)), l, t) <=> Signs(h, l, t) \/ (l = k /\ t = now)
<1> DEFINE n == Len(h)
           e == OpenEntry(k)
           c == Append(h, e)
<1>1. /\ e \in KeyHistoryEntry /\ e.validFrom = now /\ e.validUntil = 0 /\ e.keyAddress = k
      /\ now \in Nat
  BY OpenEntryType DEF TypeOK
<1> HIDE DEF e
<1>2. /\ n \in Nat /\ DOMAIN h = 1 .. n /\ DOMAIN c = 1 .. n + 1
      /\ \A i \in 1 .. n : c[i] = h[i]
      /\ c[n + 1] = e
  BY <1>1, AppendEntry
<1>3. EntryCovers(e, t) <=> t = now
  BY <1>1 DEF EntryCovers
<1> HIDE DEF c
<1>4. \A i \in 1 .. n + 1 : i \in 1 .. n \/ i = n + 1
  BY <1>2
<1>5. n + 1 \in 1 .. n + 1 /\ \A i \in 1 .. n : i \in 1 .. n + 1
  BY <1>2
<1> QED BY <1>1, <1>2, <1>3, <1>4, <1>5 DEF Signs, c, e

(* The second after now is covered by the open key entry alone. *)
LEMMA SignsNext ==
  ASSUME TypeOK, KeyHistoryChained, NEW d \in Token, d \in exists, NEW k
  PROVE  Signs(keyHistoryByDid[d], k, now + 1) <=> d \in active /\ k = CurrentKey(d)
<1> DEFINE h == keyHistoryByDid[d]
           n == Len(h)
<1>1. h \in Seq(KeyHistoryEntry) /\ now \in Nat /\ h # <<>>
  BY DEF TypeOK, KeyHistoryChained, KeysChained
<1>2. n \in Nat /\ n >= 1 /\ DOMAIN h = 1 .. n /\ \A i \in 1 .. n : h[i] \in KeyHistoryEntry
  BY <1>1, EmptySeq, ElementOfSeq
<1>3. KeysChained(h, records[d].createdAt, d \in active, now)
  BY DEF KeyHistoryChained
<1>4. \A i \in 1 .. n : /\ h[i].validFrom \in Nat /\ h[i].validUntil \in Nat
                        /\ h[i].validFrom <= now /\ h[i].validUntil <= now
  <2>1. \A i \in 1 .. n : h[i].validFrom \in 1 .. now /\ h[i].validUntil \in 0 .. now
    BY <1>2, <1>3 DEF KeysChained
  <2> QED BY <1>1, <2>1
<1>5. \A i \in 1 .. n : EntryCovers(h[i], now + 1) <=> h[i].validUntil = 0
  BY <1>1, <1>4 DEF EntryCovers
<1>6. \A i \in 1 .. n - 1 : h[i].validUntil # 0
  <2> SUFFICES ASSUME NEW i \in 1 .. n - 1 PROVE h[i].validUntil # 0
    OBVIOUS
  <2>1. i \in DOMAIN h /\ i + 1 \in DOMAIN h
    BY <1>2
  <2>2. h[i].validUntil = h[i + 1].validFrom /\ h[i + 1].validFrom \in 1 .. now
    BY <1>3, <2>1 DEF KeysChained
  <2> QED BY <1>1, <2>2
<1>7. /\ h[n].validUntil = 0 <=> d \in active
      /\ CurrentKey(d) = h[n].keyAddress
  BY <1>3 DEF KeysChained, CurrentKey, Last
<1>8. n \in 1 .. n
  BY <1>2
<1> QED
  BY <1>2, <1>5, <1>6, <1>7, <1>8, BelowLast DEF Signs

------------------------------------------------------------------------------
LEMMA BlockLives ==
  ASSUME TypeOK, KeyHistoryChained, SuspensionHistoryOrdered, FlagsConsistent, NextBlock
  PROVE  Lives
<1>1. /\ now \in Nat /\ now >= 1 /\ now' = now + 1
      /\ UNCHANGED <<exists, active, suspended, keyHistoryByDid, suspensionHistoryByDid>>
  BY DEF NextBlock, TypeOK, lifecycle, keys
<1>2. ASSUME NEW d \in Token
      PROVE  Status(d)' = Status(d) /\ CurrentKey(d)' = CurrentKey(d)
  BY <1>1 DEF Status, CurrentKey
<1>3. ASSUME NEW d \in Token
      PROVE  BlockedSeconds(d)' =
               BlockedSeconds(d) \cup (IF Status(d) = "suspended" THEN {now} ELSE {})
  <2>1. Blocks(suspensionHistoryByDid[d], now) <=> d \in suspended
    BY BlocksNow
  <2>2. Status(d) = "suspended" <=> d \in suspended
    <3>1. d \in suspended => d \in exists
      BY DEF FlagsConsistent
    <3> QED BY <3>1 DEF Status
  <2>3. \A t : t \in 1 .. now' - 1 <=> t \in 1 .. now - 1 \/ t = now
    BY <1>1
  <2> QED BY <1>1, <2>1, <2>2, <2>3, SecondsTold, SecondsToldNext
<1>4. ASSUME NEW d \in Token
      PROVE  SigningSeconds(d)' =
               SigningSeconds(d) \cup (IF Timeline!Live(d) THEN {<<CurrentKey(d), now + 1>>} ELSE {})
  <2> DEFINE h == keyHistoryByDid[d]
  <2>1. Timeline!Live(d) <=> d \in active
    BY DEF Timeline!Live, Status, FlagsConsistent
  <2>2. ASSUME NEW k
        PROVE  Signs(h, k, now + 1) <=> d \in active /\ k = CurrentKey(d)
    <3>1. CASE d \in exists
      BY <3>1, SignsNext
    <3>2. CASE d \notin exists
      <4>1. h = <<>> /\ DOMAIN <<>> = {}
        BY <3>2 DEF KeyHistoryChained
      <4> QED BY <3>2, <4>1 DEF Signs, FlagsConsistent
    <3> QED BY <3>1, <3>2
  <2>3. d \in active => CurrentKey(d) \in Address
    <3>1. d \in active => d \in exists
      BY DEF FlagsConsistent
    <3>2. d \in exists => h # <<>> /\ h \in Seq(KeyHistoryEntry)
      BY DEF KeyHistoryChained, KeysChained, TypeOK
    <3>3. d \in exists => h[Len(h)] \in KeyHistoryEntry
      BY <3>2, EmptySeq, ElementOfSeq
    <3> QED BY <3>1, <3>3 DEF CurrentKey, Last, KeyHistoryEntry
  <2>4. \A t : t \in 1 .. now' <=> t \in 1 .. now \/ t = now + 1
    BY <1>1
  <2> HIDE DEF h
  <2>5. SigningSeconds(d)' = {s \in Address \X (1 .. now') : Signs(h, s[1], s[2])}
    BY <1>1, SecondsToldNext DEF h
  <2>6. SigningSeconds(d) = {s \in Address \X (1 .. now) : Signs(h, s[1], s[2])}
    BY SecondsTold DEF h
  <2>7. \A s : s \in Address \X (1 .. now') <=>
                 s \in Address \X (1 .. now) \/ (s \in Address \X {now + 1})
    BY <2>4
  <2>8. \A s \in Address \X {now + 1} :
           Signs(h, s[1], s[2]) <=> d \in active /\ s = <<CurrentKey(d), now + 1>>
    BY <2>2
  <2> QED BY <2>1, <2>3, <2>5, <2>6, <2>7, <2>8
<1>5. Timeline!EndSecond
  BY <1>1, <1>2, <1>3, <1>4 DEF Timeline!EndSecond, Timeline!Live
<1> QED BY <1>5 DEF Lives, Timeline!Next

(* A usable key signs for nothing so far. *)
LEMMA UsableSignsNothing ==
  ASSUME NamedAreUsed, NEW k, KeyUsable(k), NEW e \in Token, NEW t
  PROVE  <<k, t>> \notin SigningSeconds(e)
<1>1. ~ Names(e, k)
  BY DEF NamedAreUsed, KeyUsable
<1> QED BY <1>1 DEF SigningSeconds, Names

(* One more key, from now on. *)
LEMMA SigningAdded ==
  ASSUME TypeOK, NEW d \in Token, NEW k \in RobotKey, now' = now,
         \A l, t : t \in Nat /\ t <= now =>
            (Signs(keyHistoryByDid'[d], l, t)
               <=> Signs(keyHistoryByDid[d], l, t) \/ (l = k /\ t = now))
  PROVE  SigningSeconds(d)' = SigningSeconds(d) \cup {<<k, now>>}
<1> DEFINE Pairs == Address \X (1 .. now)
<1>1. \A s \in Pairs : /\ s[2] \in Nat /\ s[2] <= now
                       /\ s = <<k, now>> <=> s[1] = k /\ s[2] = now
  BY DEF TypeOK
<1>2. <<k, now>> \in Pairs
  BY DEF TypeOK, Address
<1> HIDE DEF Pairs
<1>3. \A s \in Pairs : Signs(keyHistoryByDid'[d], s[1], s[2])
                         <=> Signs(keyHistoryByDid[d], s[1], s[2]) \/ s = <<k, now>>
  BY <1>1
<1>4. /\ SigningSeconds(d)' = {s \in Pairs : Signs(keyHistoryByDid'[d], s[1], s[2])}
      /\ SigningSeconds(d) = {s \in Pairs : Signs(keyHistoryByDid[d], s[1], s[2])}
  BY SecondsTold, SecondsToldNext DEF Pairs
<1> QED BY <1>2, <1>3, <1>4

LEMMA OthersTold ==
  ASSUME NEW d \in Token, Elsewhere(d),
         \A e \in Token : e # d => /\ e \in exists' <=> e \in exists
                                   /\ e \in active' <=> e \in active
                                   /\ e \in suspended' <=> e \in suspended
  PROVE  \A e \in Token : e # d => UNCHANGED Told(e)
  BY ToldKept DEF Elsewhere

LEMMA RegistrationLives ==
  ASSUME TypeOK, KeyHistoryChained, FlagsConsistent, NamedAreUsed,
         NEW sender, NEW d \in Token, NEW k \in RobotKey, NEW uri, NEW signature,
         RegisterDID(sender, d, k, uri, signature)
  PROVE  Lives
<1>1. /\ Elsewhere(d) /\ now' = now /\ now \in Nat
      /\ d \notin exists /\ exists' = exists \cup {d}
      /\ active' = active \cup {d} /\ suspended' = suspended \ {d}
      /\ keyHistoryByDid'[d] = Append(keyHistoryByDid[d], OpenEntry(k))
      /\ suspensionHistoryByDid'[d] = suspensionHistoryByDid[d]
      /\ KeyUsable(k)
  BY ZenonT(40), RegisterEffect DEF Elsewhere, TypeOK
<1>2. Status(d) = "none" /\ Status(d)' = "active"
  <2>1. d \in exists' /\ d \in active' /\ d \notin suspended'
    BY <1>1
  <2>2. Status(d)' = "active"
    BY <2>1 DEF Status
  <2>3. d \notin exists /\ d \notin active /\ d \notin suspended
    BY <1>1 DEF FlagsConsistent
  <2>4. Status(d) = "none"
    BY <2>3 DEF Status
  <2> QED BY <2>2, <2>4
<1>3. keyHistoryByDid[d] \in Seq(KeyHistoryEntry)
  BY DEF TypeOK
<1>4. CurrentKey(d)' = k
  <2>1. Last(keyHistoryByDid'[d]).keyAddress = k
    BY <1>1, <1>3, OpenEntryType, AppendLast
  <2> QED BY <1>1, <2>1 DEF CurrentKey
<1>5. SigningSeconds(d)' = SigningSeconds(d) \cup {<<k, now>>}
  <2> DEFINE h == keyHistoryByDid[d]
  <2>1. \A l, t : t \in Nat /\ t <= now =>
          (Signs(Append(h, OpenEntry(k)), l, t) <=> Signs(h, l, t) \/ (l = k /\ t = now))
    BY <1>3, SignsOpened
  <2>2. \A l, t : t \in Nat /\ t <= now =>
          (Signs(keyHistoryByDid'[d], l, t)
             <=> Signs(keyHistoryByDid[d], l, t) \/ (l = k /\ t = now))
    BY <1>1, <2>1
  <2> QED BY <1>1, <2>2, SigningAdded
<1>6. BlockedSeconds(d)' = BlockedSeconds(d)
  BY <1>1, BlockedKept
<1>7. \A e \in Token : e # d => UNCHANGED Told(e)
  BY <1>1, OthersTold
<1>8. \A e \in Token, t \in 0 .. now : <<k, t>> \notin SigningSeconds(e)
  BY <1>1, UsableSignsNothing
<1>9. /\ Timeline!TakeKey(d, k)
      /\ [e \in Token |-> BlockedSeconds(e)]' = [e \in Token |-> BlockedSeconds(e)]
  BY <1>1, <1>4, <1>5, <1>6, <1>7, <1>8, LivesByKey
<1>10. [e \in Token |-> Status(e)]' = [[e \in Token |-> Status(e)] EXCEPT ![d] = "active"]
  BY <1>2, <1>7 DEF Told
<1>11. Timeline!Register(d, k)
  BY <1>1, <1>2, <1>9, <1>10 DEF Timeline!Register
<1>12. k \in Address \ {ZeroAddress}
  BY <1>1 DEF KeyUsable, Address
<1> QED BY <1>11, <1>12 DEF Lives, Timeline!Next

LEMMA RotationLives ==
  ASSUME TypeOK, KeyHistoryChained, FlagsConsistent, NamedAreUsed,
         NEW sender, NEW d \in Token, NEW k \in RobotKey, UpdatePublicKey(sender, d, k)
  PROVE  Lives
<1> DEFINE h == keyHistoryByDid[d]
           c == CloseCurrentKeyHistoryEntry(h, now)
<1>1. /\ Elsewhere(d) /\ now' = now /\ now \in Nat
      /\ d \in exists /\ d \in active /\ d \notin suspended
      /\ UNCHANGED <<exists, active, suspended>>
      /\ h # <<>> /\ keyHistoryByDid'[d] = Append(c, OpenEntry(k))
      /\ suspensionHistoryByDid'[d] = suspensionHistoryByDid[d]
      /\ KeyUsable(k)
  BY ZenonT(40), RotateEffect DEF Elsewhere, TypeOK
<1>2. Status(d) = "active" /\ Status(d)' = "active"
  BY <1>1 DEF Status
<1>3. h \in Seq(KeyHistoryEntry) /\ c \in Seq(KeyHistoryEntry)
  <2>1. h \in Seq(KeyHistoryEntry)
    BY DEF TypeOK
  <2> QED BY <1>1, <2>1, CloseKeyEntryShape
<1>4. \A l, t : t \in Nat /\ t <= now => (Signs(c, l, t) <=> Signs(h, l, t))
  BY <1>1, <1>3, SignsClose
<1> HIDE DEF c
<1>5. CurrentKey(d)' = k
  <2>1. Last(keyHistoryByDid'[d]).keyAddress = k
    BY <1>1, <1>3, OpenEntryType, AppendLast
  <2> QED BY <1>1, <2>1 DEF CurrentKey
<1>6. SigningSeconds(d)' = SigningSeconds(d) \cup {<<k, now>>}
  <2>1. \A l, t : t \in Nat /\ t <= now =>
          (Signs(Append(c, OpenEntry(k)), l, t) <=> Signs(c, l, t) \/ (l = k /\ t = now))
    BY <1>3, SignsOpened
  <2>2. \A l, t : t \in Nat /\ t <= now =>
          (Signs(keyHistoryByDid'[d], l, t)
             <=> Signs(keyHistoryByDid[d], l, t) \/ (l = k /\ t = now))
    BY <1>1, <1>4, <2>1
  <2> QED BY <1>1, <2>2, SigningAdded
<1>7. BlockedSeconds(d)' = BlockedSeconds(d)
  BY <1>1, BlockedKept
<1>8. \A e \in Token : e # d => UNCHANGED Told(e)
  BY <1>1, OthersTold
<1>9. \A e \in Token, t \in 0 .. now : <<k, t>> \notin SigningSeconds(e)
  BY <1>1, UsableSignsNothing
<1>10. /\ Timeline!TakeKey(d, k)
       /\ [e \in Token |-> BlockedSeconds(e)]' = [e \in Token |-> BlockedSeconds(e)]
  BY <1>1, <1>5, <1>6, <1>7, <1>8, <1>9, LivesByKey
<1>11. [e \in Token |-> Status(e)]' = [e \in Token |-> Status(e)]
  BY <1>2, <1>8 DEF Told
<1>12. Timeline!Rotate(d, k)
  BY <1>1, <1>2, <1>10, <1>11 DEF Timeline!Rotate
<1>13. k \in Address \ {ZeroAddress}
  BY <1>1 DEF KeyUsable, Address
<1> QED BY <1>12, <1>13 DEF Lives, Timeline!Next

LEMMA SuspensionLives ==
  ASSUME TypeOK, NEW sender, NEW d \in Token, SuspendDID(sender, d)
  PROVE  Lives
<1> DEFINE interval == [startedAt |-> now, endedAt |-> 0]
<1>1. /\ Elsewhere(d) /\ now' = now /\ now \in Nat
      /\ d \in exists /\ d \in active /\ d \notin suspended
      /\ suspended' = suspended \cup {d} /\ UNCHANGED <<exists, active, keyHistoryByDid>>
      /\ suspensionHistoryByDid'[d] = Append(suspensionHistoryByDid[d], interval)
  BY SuspendEffect DEF Elsewhere, TypeOK
<1>2. Status(d) = "active" /\ Status(d)' = "suspended"
  BY <1>1 DEF Status
<1>3. /\ suspensionHistoryByDid[d] \in Seq(SuspensionInterval)
      /\ interval \in SuspensionInterval /\ interval.startedAt = now
  BY <1>1 DEF TypeOK, SuspensionInterval
<1> HIDE DEF interval
<1>4. BlockedSeconds(d)' = BlockedSeconds(d)
  BY <1>1, <1>3, BlocksAppend, BlockedKept
<1>5. SigningSeconds(d)' = SigningSeconds(d) /\ CurrentKey(d)' = CurrentKey(d)
  BY <1>1, SigningKept DEF CurrentKey
<1>6. \A e \in Token : e # d => UNCHANGED Told(e)
  BY <1>1, OthersTold
<1>7. Timeline!Move(d, {"active"}, "suspended")
  BY <1>1, <1>2, <1>4, <1>5, <1>6, LivesByMove
<1> QED BY <1>7 DEF Lives, Timeline!Next, Timeline!Suspend

LEMMA ReinstatementLives ==
  ASSUME TypeOK, NEW sender, NEW d \in Token, UnsuspendDID(sender, d)
  PROVE  Lives
<1>1. /\ Elsewhere(d) /\ now' = now /\ now \in Nat
      /\ d \in exists /\ d \in active /\ d \in suspended
      /\ suspended' = suspended \ {d} /\ UNCHANGED <<exists, active, keyHistoryByDid>>
      /\ suspensionHistoryByDid'[d] = CloseOpenSuspensionInterval(suspensionHistoryByDid[d], now)
  BY UnsuspendEffect DEF Elsewhere, TypeOK
<1>2. Status(d) = "suspended" /\ Status(d)' = "active"
  BY <1>1 DEF Status
<1>3. suspensionHistoryByDid[d] \in Seq(SuspensionInterval)
  BY DEF TypeOK
<1>4. BlockedSeconds(d)' = BlockedSeconds(d)
  BY <1>1, <1>3, BlocksClose, BlockedKept
<1>5. SigningSeconds(d)' = SigningSeconds(d) /\ CurrentKey(d)' = CurrentKey(d)
  BY <1>1, SigningKept DEF CurrentKey
<1>6. \A e \in Token : e # d => UNCHANGED Told(e)
  BY <1>1, OthersTold
<1>7. Timeline!Move(d, {"suspended"}, "active")
  BY <1>1, <1>2, <1>4, <1>5, <1>6, LivesByMove
<1> QED BY <1>7 DEF Lives, Timeline!Next, Timeline!Unsuspend

LEMMA RevocationLives ==
  ASSUME TypeOK, FlagsConsistent, NEW sender, NEW d \in Token, RevokeDID(sender, d)
  PROVE  Lives
<1> DEFINE h == keyHistoryByDid[d]
           c == CloseCurrentKeyHistoryEntry(h, now)
<1>1. /\ Elsewhere(d) /\ now' = now /\ now \in Nat
      /\ d \in exists /\ d \in active /\ exists' = exists
      /\ active' = active \ {d} /\ suspended' = suspended \ {d}
      /\ h # <<>> /\ keyHistoryByDid'[d] = c
      /\ suspensionHistoryByDid'[d] =
           IF d \in suspended THEN CloseOpenSuspensionInterval(suspensionHistoryByDid[d], now)
           ELSE suspensionHistoryByDid[d]
  BY RevokeEffect DEF Elsewhere, TypeOK
<1>2. Status(d) \in {"active", "suspended"} /\ Status(d)' = "revoked"
  BY <1>1 DEF Status
<1>3. /\ suspensionHistoryByDid[d] \in Seq(SuspensionInterval)
      /\ h \in Seq(KeyHistoryEntry)
  BY DEF TypeOK
<1>4. BlockedSeconds(d)' = BlockedSeconds(d)
  BY <1>1, <1>3, BlocksClose, BlockedKept
<1>5. SigningSeconds(d)' = SigningSeconds(d)
  BY <1>1, <1>3, SignsClose, SigningKept
<1>6. CurrentKey(d)' = CurrentKey(d)
  <2>1. /\ Len(c) = Len(h) /\ h[Len(h)] \in KeyHistoryEntry
        /\ c[Len(h)] = IF h[Len(h)].validUntil = 0
                       THEN [h[Len(h)] EXCEPT !.validUntil = now] ELSE h[Len(h)]
    BY <1>1, <1>3, EmptySeq, ElementOfSeq, CloseKeyEntryShape
  <2>2. Last(c).keyAddress = Last(h).keyAddress
    BY <2>1 DEF Last, KeyHistoryEntry
  <2> QED BY <1>1, <2>2 DEF CurrentKey
<1>7. \A e \in Token : e # d => UNCHANGED Told(e)
  BY <1>1, OthersTold
<1>8. Timeline!Move(d, {"active", "suspended"}, "revoked")
  BY <1>1, <1>2, <1>4, <1>5, <1>6, <1>7, LivesByMove
<1> QED BY <1>8 DEF Lives, Timeline!Next, Timeline!Revoke

LEMMA EveryStepLives ==
  ASSUME TypeOK, KeyHistoryChained, SuspensionHistoryOrdered, FlagsConsistent, NamedAreUsed,
         [Next]_vars
  PROVE  Lives
<1>1. CASE Quiet
  BY <1>1, ToldKept, LivesUnmoved DEF Quiet, lifecycle, keys
<1>2. ASSUME NEW sender \in Sender, NEW d \in Token, NEW uri \in MetadataURI,
             UpdateMetadataURI(sender, d, uri)
      PROVE  Lives
  <2>1. /\ now' = now
        /\ UNCHANGED <<exists, active, suspended, keyHistoryByDid, suspensionHistoryByDid>>
    BY <1>2, MetadataEffect DEF Elsewhere
  <2> QED BY <2>1, ToldKept, LivesUnmoved
<1> QED
  BY <1>1, <1>2, StepKinds, BlockLives, RegistrationLives, RotationLives, SuspensionLives,
     ReinstatementLives, RevocationLives DEF LifecycleStep

LEMMA TimelineInitially == Init => Timeline!Init
<1> SUFFICES ASSUME Init PROVE Timeline!Init
  OBVIOUS
<1>1. /\ now = 1 /\ exists = {} /\ active = {} /\ suspended = {}
      /\ \A d \in Token : keyHistoryByDid[d] = <<>> /\ suspensionHistoryByDid[d] = <<>>
  BY DEF Init
<1>2. DOMAIN <<>> = {}
  OBVIOUS
<1>3. \A d \in Token : /\ Status(d) = "none" /\ CurrentKey(d) = ZeroAddress
                       /\ BlockedSeconds(d) = {} /\ SigningSeconds(d) = {}
  <2>1. \A d \in Token : Status(d) = "none" /\ CurrentKey(d) = ZeroAddress
    <3> SUFFICES ASSUME NEW d \in Token
                 PROVE  Status(d) = "none" /\ CurrentKey(d) = ZeroAddress
      OBVIOUS
    <3>1. d \notin exists /\ d \notin active /\ d \notin suspended
      BY <1>1
    <3>2. Status(d) = "none"
      BY <3>1 DEF Status
    <3> QED BY <3>1, <3>2 DEF CurrentKey
  <2>2. \A d \in Token : BlockedSeconds(d) = {}
    BY <1>1, <1>2 DEF BlockedSeconds
  <2>3. \A d \in Token : SigningSeconds(d) = {}
    BY <1>1, <1>2 DEF SigningSeconds
  <2> QED BY <2>1, <2>2, <2>3
<1> QED BY <1>1, <1>3 DEF Timeline!Init

(* The interval lists of the contract implement the timeline that remembers *)
(* every second: its answers about any second are those of somebody who was *)
(* there, whatever was called in it and in whatever order.                  *)
THEOREM RegistryKeepsTimeline == Spec => ImplementsTimeline
<1>1. TypeOK /\ KeyHistoryChained /\ SuspensionHistoryOrdered /\ FlagsConsistent
        /\ NamedOnce /\ NamedAreUsed /\ OfRobots /\ [Next]_vars
        => [Timeline!Next]_(Timeline!timelineVars)
  BY EveryStepLives DEF Lives
<1> QED
  BY <1>1, TimelineInitially, TypeCorrect, KeysChainedAlways, SuspensionsOrdered, FlagsAlwaysConsistent,
     NamedAlways, PTL DEF Spec, ImplementsTimeline, Timeline!Spec

------------------------------------------------------------------------------
(* What the registry answers about the credential's subject and second, and *)
(* about its hash.                                                          *)
Allowed   == IsIssuanceAllowedAt(Subject, IssuedAt)
Signed    == IsRobotKeyAuthorizedAt(Subject, Signer, IssuedAt)
Delegated == "ASSERTION" \in GetControllerPermissions(Subject, Issuer)
Trusted   == <<Issuer, Type>> \in trustedIssuer
Withdrawn == CredHash \in revokedCredentialHashes

Over == now > IssuedAt

aboutSubject == <<SubjectStatus, Allowed, Signed>>
aboutHash    == <<Withdrawn, AnchorTiming, consumptionRecords[CredHash]>>

LEMMA Answered ==
  /\ Allowed \in BOOLEAN /\ Signed \in BOOLEAN /\ Delegated \in BOOLEAN
  /\ Trusted \in BOOLEAN /\ Withdrawn \in BOOLEAN /\ Over \in BOOLEAN
BY DEF Allowed, Signed, Delegated, Trusted, Withdrawn, Over, IsIssuanceAllowedAt,
  IsRobotKeyAuthorizedAt

LEMMA SubjectKept ==
  ASSUME Subject \in exists' <=> Subject \in exists,
         Subject \in active' <=> Subject \in active,
         keyHistoryByDid'[Subject] = keyHistoryByDid[Subject],
         suspensionHistoryByDid'[Subject] = suspensionHistoryByDid[Subject]
  PROVE  UNCHANGED aboutSubject
<1>1. SubjectStatus' = SubjectStatus
  BY DEF SubjectStatus, IsRevoked
<1>2. Allowed' <=> Allowed
  BY DEF Allowed, IsIssuanceAllowedAt
<1>3. Signed' <=> Signed
  BY DEF Signed, IsRobotKeyAuthorizedAt
<1>4. Allowed' \in BOOLEAN /\ Signed' \in BOOLEAN
  BY DEF Allowed, Signed, IsIssuanceAllowedAt, IsRobotKeyAuthorizedAt
<1> QED BY <1>1, <1>2, <1>3, <1>4, Answered DEF aboutSubject

LEMMA DelegationKept ==
  ASSUME Subject \in exists' <=> Subject \in exists,
         nftOwner'[Subject] = nftOwner[Subject],
         controllerPermissions'[Subject] = controllerPermissions[Subject]
  PROVE  UNCHANGED Delegated
BY DEF Delegated, GetControllerPermissions, ManagementOwner

LEMMA HashKept ==
  ASSUME UNCHANGED credentials
  PROVE  UNCHANGED aboutHash
BY DEF credentials, aboutHash, Withdrawn, AnchorTiming

LEMMA Unmoved ==
  ASSUME UNCHANGED <<Over, aboutSubject, Delegated, Trusted, aboutHash>>
  PROVE  UNCHANGED Facts!factVars
BY DEF Facts!factVars, Facts!authority, Over, aboutSubject, aboutHash, Delegated, Trusted, Allowed, Signed, Withdrawn

LEMMA FactsKept ==
  ASSUME UNCHANGED vars
  PROVE  UNCHANGED Facts!factVars
<1>1. UNCHANGED <<now, exists, active, nftOwner, trustedIssuer, controllerPermissions,
                  keyHistoryByDid, suspensionHistoryByDid, credentials>>
  BY DEF vars, environment, lifecycle, keys, controllers
<1>2. UNCHANGED <<Over, aboutSubject, Delegated, Trusted, aboutHash>>
  BY <1>1, SubjectKept, DelegationKept, HashKept DEF Over, Trusted
<1> QED BY <1>2, Unmoved

LEMMA FactsInitially == Init => Facts!FactsInit
<1> SUFFICES ASSUME Init PROVE Facts!FactsInit
  OBVIOUS
<1> USE CredentialAssumption
<1>1. now = 1 /\ exists = {} /\ trustedIssuer = {} /\ revokedCredentialHashes = {}
  BY DEF Init
<1>2. ~ Over
  BY <1>1 DEF Over
<1>3. SubjectStatus = "none"
  BY <1>1 DEF SubjectStatus
<1>4. Allowed = FALSE /\ Signed = FALSE /\ Delegated = FALSE
  BY <1>1 DEF Allowed, Signed, Delegated, IsIssuanceAllowedAt, IsRobotKeyAuthorizedAt,
    GetControllerPermissions
<1>5. Trusted \in BOOLEAN /\ Withdrawn = FALSE
  BY <1>1 DEF Trusted, Withdrawn
<1>6. AnchorTiming = "none"
  BY DEF Init, NoAnchor, AnchorTiming
<1>7. consumptionRecords[CredHash] = Facts!NoConsumption
  BY DEF Init, NoConsumption, Facts!NoConsumption
<1> QED
  BY <1>2, <1>3, <1>4, <1>5, <1>6, <1>7 DEF Facts!FactsInit, Over, Allowed, Signed, Delegated,
     Trusted, Withdrawn

------------------------------------------------------------------------------
Moves == Facts!FactsNext \/ UNCHANGED Facts!factVars

(* The steps of the abstract contract, in the registry's words. *)
LEMMA MovesBySecond ==
  ASSUME Over', UNCHANGED <<aboutSubject, Delegated, Trusted, aboutHash>>
  PROVE  Moves
<1>1. Facts!SecondEnds
  BY DEF Facts!SecondEnds, Facts!authority, Over, aboutSubject, aboutHash, Delegated, Trusted,
         Allowed, Signed, Withdrawn
<1> QED BY <1>1 DEF Moves, Facts!FactsNext

LEMMA MovesByAuthority ==
  ASSUME UNCHANGED <<Over, aboutSubject, aboutHash>>,
         SubjectStatus = "none" => ~ Delegated'
  PROVE  Moves
<1>1. Delegated' \in BOOLEAN /\ Trusted' \in BOOLEAN
  BY DEF Delegated, Trusted
<1>2. Facts!ChangeAuthority
  BY <1>1 DEF Facts!ChangeAuthority, Over, aboutSubject, aboutHash, Delegated, Trusted,
         Allowed, Signed, Withdrawn
<1> QED BY <1>2 DEF Moves, Facts!FactsNext

LEMMA MovesByRegistration ==
  ASSUME UNCHANGED <<Over, Trusted, aboutHash>>,
         SubjectStatus = "none", SubjectStatus' = "active", Allowed' = TRUE, Over => ~ Signed'
  PROVE  Moves
<1>1. Signed' \in BOOLEAN /\ Delegated' \in BOOLEAN
  BY DEF Signed, IsRobotKeyAuthorizedAt, Delegated
<1>2. Facts!Register
  BY <1>1 DEF Facts!Register, Over, aboutHash, Delegated, Trusted, Allowed, Signed, Withdrawn
<1> QED BY <1>2 DEF Moves, Facts!FactsNext

LEMMA MovesByAdministration ==
  ASSUME UNCHANGED <<Over, SubjectStatus, Delegated, Trusted, aboutHash>>,
         SubjectStatus = "active", ~ Over
  PROVE  Moves
<1>1. Signed' \in BOOLEAN /\ Allowed' \in BOOLEAN
  BY DEF Signed, Allowed, IsRobotKeyAuthorizedAt, IsIssuanceAllowedAt
<1>2. Facts!Administer
  BY <1>1 DEF Facts!Administer, Facts!authority, Over, aboutHash, Delegated, Trusted, Allowed,
              Signed, Withdrawn
<1> QED BY <1>2 DEF Moves, Facts!FactsNext

LEMMA MovesByRevocation ==
  ASSUME UNCHANGED <<Over, Delegated, Trusted, aboutHash>>,
         SubjectStatus = "active", SubjectStatus' = "revoked",
         Allowed' = FALSE, Signed' = FALSE
  PROVE  Moves
<1>1. Facts!RevokeSubject
  BY DEF Facts!RevokeSubject, Facts!authority, Over, aboutHash, Delegated, Trusted, Allowed,
         Signed, Withdrawn
<1> QED BY <1>1 DEF Moves, Facts!FactsNext

------------------------------------------------------------------------------
LEMMA BlockMoves ==
  ASSUME TypeOK, NextBlock
  PROVE  Moves
<1>1. UNCHANGED <<aboutSubject, Delegated, aboutHash, Trusted>>
  <2>1. UNCHANGED <<exists, active, keyHistoryByDid, suspensionHistoryByDid, nftOwner,
                    controllerPermissions, credentials, trustedIssuer>>
    BY DEF NextBlock, lifecycle, keys, controllers
  <2> QED BY <2>1, SubjectKept, DelegationKept, HashKept DEF Trusted
<1>2. Over => Over'
  BY CredentialAssumption DEF Over, NextBlock, TypeOK
<1>3. CASE Over'
  BY <1>1, <1>3, MovesBySecond
<1>4. CASE ~ Over'
  <2>1. UNCHANGED Over
    BY <1>2, <1>4, Answered DEF Over
  <2> QED BY <1>1, <2>1, Unmoved DEF Moves
<1> QED BY <1>3, <1>4

LEMMA AuthorityMoves ==
  ASSUME TypeOK,
         UNCHANGED <<now, exists, active, keyHistoryByDid, suspensionHistoryByDid, credentials>>
  PROVE  Moves
<1>1. UNCHANGED <<Over, aboutSubject, aboutHash>>
  BY SubjectKept, HashKept DEF Over
<1>2. SubjectStatus = "none" => ~ Delegated'
  BY DEF SubjectStatus, IsRevoked, Delegated, GetControllerPermissions
<1> QED BY <1>1, <1>2, MovesByAuthority

(* A lifecycle call for another robot changes nothing that is asked. *)
LEMMA OthersMoveNothing ==
  ASSUME TypeOK, NEW d \in Token, d # Subject, Elsewhere(d),
         Subject \in exists' <=> Subject \in exists, Subject \in active' <=> Subject \in active,
         UNCHANGED <<nftOwner, trustedIssuer, controllerPermissions, credentials>>
  PROVE  Moves
<1>1. UNCHANGED <<aboutSubject, Delegated, aboutHash>>
  BY CredentialAssumption, SubjectKept, DelegationKept, HashKept DEF Elsewhere
<1>2. UNCHANGED <<Over, Trusted>>
  BY DEF Over, Trusted, Elsewhere
<1> QED BY <1>1, <1>2, Unmoved DEF Moves

LEMMA RegistrationMoves ==
  ASSUME TypeOK, KeyHistoryChained, SuspensionHistoryOrdered,
         NEW sender \in Sender, NEW d \in Token, NEW k \in RobotKey, NEW uri \in MetadataURI,
         NEW signature \in ChallengeSignature, RegisterDID(sender, d, k, uri, signature)
  PROVE  Moves
<1> USE CredentialAssumption
<1>1. /\ Elsewhere(d) /\ d \notin exists /\ exists' = exists \cup {d}
      /\ active' = active \cup {d}
      /\ keyHistoryByDid'[d] = Append(keyHistoryByDid[d], OpenEntry(k))
      /\ suspensionHistoryByDid'[d] = suspensionHistoryByDid[d]
  BY RegisterEffect
<1>2. UNCHANGED <<now, nftOwner, trustedIssuer, controllerPermissions, credentials>>
  BY DEF RegisterDID, environment, controllers
<1>3. CASE d # Subject
  BY <1>1, <1>2, <1>3, OthersMoveNothing
<1>4. CASE d = Subject
  <2>1. keyHistoryByDid[d] = <<>> /\ suspensionHistoryByDid[d] = <<>>
    BY <1>1 DEF KeyHistoryChained, SuspensionHistoryOrdered
  <2>2. SubjectStatus = "none" /\ SubjectStatus' = "active"
    BY <1>1, <1>4 DEF SubjectStatus, IsRevoked
  <2>3. Allowed' = TRUE
    BY <1>1, <1>4, <2>1 DEF Allowed, IsIssuanceAllowedAt
  <2>4. Over => ~ Signed'
    <3> SUFFICES ASSUME Over PROVE ~ Signed'
      OBVIOUS
    <3>1. /\ now \in Nat /\ OpenEntry(k) \in KeyHistoryEntry /\ OpenEntry(k).validFrom = now
      BY OpenEntryType DEF TypeOK, OpenEntry
    <3>2. ~ EntryCovers(OpenEntry(k), IssuedAt)
      BY <3>1 DEF EntryCovers, Over
    <3>3. keyHistoryByDid'[Subject] = <<OpenEntry(k)>>
      BY <1>1, <1>4, <2>1, <3>1
    <3>4. DOMAIN keyHistoryByDid'[Subject] = {1} /\ keyHistoryByDid'[Subject][1] = OpenEntry(k)
      BY <3>3
    <3> QED BY <3>2, <3>4 DEF Signed, IsRobotKeyAuthorizedAt
  <2>5. UNCHANGED <<Over, Trusted, aboutHash>>
    BY <1>2, HashKept DEF Over, Trusted
  <2> QED BY <2>2, <2>3, <2>4, <2>5, MovesByRegistration
<1> QED BY <1>3, <1>4

(* Rotation, suspension and reinstatement: of a second that is over they    *)
(* change no answer.                                                        *)
LEMMA AdministrationMoves ==
  ASSUME TypeOK, [Next]_vars, NEW d \in Token, Elsewhere(d), d \in exists, d \in active,
         UNCHANGED <<exists, active, nftOwner, trustedIssuer, controllerPermissions, credentials>>
  PROVE  Moves
<1> USE CredentialAssumption
<1>1. CASE d # Subject
  BY <1>1, OthersMoveNothing
<1>2. CASE d = Subject
  <2>1. SubjectStatus = "active" /\ SubjectStatus' = "active"
    BY <1>2 DEF SubjectStatus, IsRevoked
  <2>2. UNCHANGED <<Over, Trusted, Delegated, aboutHash>>
    BY HashKept, DelegationKept DEF Over, Trusted, Elsewhere
  <2>3. CASE ~ Over
    BY <2>1, <2>2, <2>3, MovesByAdministration
  <2>4. CASE Over
    <3>1. IssuedAt \in Nat /\ IssuedAt < now
      BY <2>4 DEF Over, TypeOK
    <3>2. /\ Blocks(suspensionHistoryByDid[d], IssuedAt)' <=> Blocks(suspensionHistoryByDid[d], IssuedAt)
          /\ Signs(keyHistoryByDid[d], Signer, IssuedAt)' <=> Signs(keyHistoryByDid[d], Signer, IssuedAt)
      BY <3>1, ListsStable
    <3>3. Allowed' <=> Allowed
      BY <1>2, <3>2 DEF Allowed, IsIssuanceAllowedAt, Blocks
    <3>4. Signed' <=> Signed
      BY <1>2, <3>2 DEF Signed, IsRobotKeyAuthorizedAt, Signs
    <3>5. Allowed' \in BOOLEAN /\ Signed' \in BOOLEAN
      BY DEF Allowed, Signed, IsIssuanceAllowedAt, IsRobotKeyAuthorizedAt
    <3>6. UNCHANGED aboutSubject
      BY <2>1, <3>3, <3>4, <3>5, Answered DEF aboutSubject
    <3> QED BY <2>2, <3>6, Unmoved DEF Moves
  <2> QED BY <2>3, <2>4
<1> QED BY <1>1, <1>2

LEMMA RevocationMoves ==
  ASSUME TypeOK, FlagsConsistent, NEW sender \in Sender, NEW d \in Token, RevokeDID(sender, d)
  PROVE  Moves
<1> USE CredentialAssumption
<1>1. /\ Elsewhere(d) /\ d \in exists /\ d \in active /\ exists' = exists /\ active' = active \ {d}
  BY RevokeEffect
<1>2. UNCHANGED <<now, nftOwner, trustedIssuer, controllerPermissions, credentials>>
  BY DEF RevokeDID, environment, controllers
<1>3. CASE d # Subject
  BY <1>1, <1>2, <1>3, OthersMoveNothing
<1>4. CASE d = Subject
  <2>1. SubjectStatus = "active" /\ SubjectStatus' = "revoked"
    BY <1>1, <1>4 DEF SubjectStatus, IsRevoked
  <2>2. Allowed' = FALSE /\ Signed' = FALSE
    BY <1>1, <1>4 DEF Allowed, Signed, IsIssuanceAllowedAt, IsRobotKeyAuthorizedAt
  <2>3. UNCHANGED <<Over, Trusted, Delegated, aboutHash>>
    BY <1>1, <1>2, HashKept, DelegationKept DEF Over, Trusted
  <2> QED BY <2>1, <2>2, <2>3, MovesByRevocation
<1> QED BY <1>3, <1>4

LEMMA LifecycleMoves ==
  ASSUME TypeOK, KeyHistoryChained, SuspensionHistoryOrdered, FlagsConsistent, [Next]_vars,
         NEW sender \in Sender, NEW d \in Token, LifecycleStep(sender, d)
  PROVE  Moves
<1>1. ASSUME NEW k \in RobotKey, UpdatePublicKey(sender, d, k)
      PROVE  Moves
  <2>1. UNCHANGED <<nftOwner, trustedIssuer, controllerPermissions, credentials>>
    BY <1>1 DEF UpdatePublicKey, environment, controllers
  <2>2. Elsewhere(d) /\ d \in exists /\ d \in active /\ UNCHANGED <<exists, active>>
    BY <1>1, RotateEffect
  <2> QED BY <2>1, <2>2, AdministrationMoves
<1>2. ASSUME NEW uri \in MetadataURI, UpdateMetadataURI(sender, d, uri)
      PROVE  Moves
  <2>1. UNCHANGED <<nftOwner, trustedIssuer, controllerPermissions, credentials>>
    BY <1>2 DEF UpdateMetadataURI, environment, controllers
  <2>2. Elsewhere(d) /\ d \in exists /\ d \in active /\ UNCHANGED <<exists, active>>
    BY <1>2, MetadataEffect
  <2> QED BY <2>1, <2>2, AdministrationMoves
<1>3. CASE SuspendDID(sender, d)
  <2>1. UNCHANGED <<nftOwner, trustedIssuer, controllerPermissions, credentials>>
    BY <1>3 DEF SuspendDID, environment, controllers
  <2>2. Elsewhere(d) /\ d \in exists /\ d \in active /\ UNCHANGED <<exists, active>>
    BY <1>3, SuspendEffect
  <2> QED BY <2>1, <2>2, AdministrationMoves
<1>4. CASE UnsuspendDID(sender, d)
  <2>1. UNCHANGED <<nftOwner, trustedIssuer, controllerPermissions, credentials>>
    BY <1>4 DEF UnsuspendDID, environment, controllers
  <2>2. Elsewhere(d) /\ d \in exists /\ d \in active /\ UNCHANGED <<exists, active>>
    BY <1>4, UnsuspendEffect
  <2> QED BY <2>1, <2>2, AdministrationMoves
<1> QED
  BY <1>1, <1>2, <1>3, <1>4, RegistrationMoves, RevocationMoves DEF LifecycleStep

------------------------------------------------------------------------------
LEMMA RevocationIsWithdrawal ==
  ASSUME TypeOK, NEW sender \in Sender, NEW d \in Token, RevokeCredential(sender, d, CredHash)
  PROVE  Facts!RevokeCredential
<1> USE CredentialAssumption
<1>1. UNCHANGED <<now, exists, active, nftOwner, trustedIssuer, controllerPermissions,
                  keyHistoryByDid, suspensionHistoryByDid, credentialAnchors, consumptionRecords>>
  BY DEF RevokeCredential, environment, lifecycle, keys, controllers
<1>2. UNCHANGED <<Over, aboutSubject, Delegated, Trusted, AnchorTiming,
                  consumptionRecords[CredHash]>>
  BY <1>1, SubjectKept, DelegationKept DEF Over, Trusted, AnchorTiming
<1>3. Withdrawn' = TRUE
  BY DEF RevokeCredential, Withdrawn
<1> QED
  BY <1>2, <1>3 DEF Facts!RevokeCredential, Facts!authority, Over, aboutSubject, Delegated,
                    Trusted, Allowed, Signed, Withdrawn

LEMMA CredentialRevocationMoves ==
  ASSUME TypeOK, NEW sender \in Sender, NEW d \in Token, NEW h \in Hash,
         RevokeCredential(sender, d, h)
  PROVE  Moves
<1> USE CredentialAssumption
<1>1. UNCHANGED <<now, exists, active, nftOwner, trustedIssuer, controllerPermissions,
                  keyHistoryByDid, suspensionHistoryByDid, credentialAnchors, consumptionRecords>>
  BY DEF RevokeCredential, environment, lifecycle, keys, controllers
<1>2. CASE h # CredHash
  <2>1. UNCHANGED <<Over, aboutSubject, Delegated, Trusted, AnchorTiming,
                    consumptionRecords[CredHash]>>
    BY <1>1, SubjectKept, DelegationKept DEF Over, Trusted, AnchorTiming
  <2>2. UNCHANGED Withdrawn
    BY <1>2 DEF RevokeCredential, Withdrawn
  <2> QED BY <2>1, <2>2, Unmoved DEF aboutHash, Moves
<1>3. CASE h = CredHash
  BY <1>3, RevocationIsWithdrawal DEF Moves, Facts!FactsNext
<1> QED BY <1>2, <1>3

LEMMA AnchoringMoves ==
  ASSUME TypeOK, NEW sender \in Sender, NEW d \in Token, NEW h \in Hash,
         NEW type \in CredentialType, NEW mode \in ModeInput, NEW maxUses \in 0 .. MaxUses,
         AnchorCredential(sender, d, h, type, mode, maxUses)
  PROVE  Moves
<1> USE CredentialAssumption
<1>1. UNCHANGED <<now, exists, active, nftOwner, trustedIssuer, controllerPermissions,
                  keyHistoryByDid, suspensionHistoryByDid, revokedCredentialHashes>>
  BY DEF AnchorCredential, environment, lifecycle, keys, controllers
<1>2. UNCHANGED <<Over, aboutSubject, Delegated, Trusted, Withdrawn>>
  BY <1>1, SubjectKept, DelegationKept DEF Over, Trusted, Withdrawn
<1>3. CASE h # CredHash
  <2>1. /\ credentialAnchors'[CredHash] = credentialAnchors[CredHash]
        /\ consumptionRecords'[CredHash] = consumptionRecords[CredHash]
    BY <1>3, AnchorEffect
  <2>2. UNCHANGED aboutHash
    BY <1>2, <2>1 DEF aboutHash, AnchorTiming
  <2> QED BY <1>2, <2>2, Unmoved DEF Moves
<1>4. CASE h = CredHash
  <2>1. /\ ~ credentialAnchors[CredHash].exists /\ credentialAnchors'[CredHash].exists
        /\ mode = LIMITED => maxUses >= 1
    BY <1>4, AnchorEffect
  <2>2. /\ mode \in {UNLIMITED, LIMITED}
        /\ consumptionRecords'[CredHash] =
             [configured |-> TRUE, mode |-> mode, maxUses |-> maxUses, useCount |-> 0]
    BY <1>4 DEF AnchorCredential, PolicyValid, TypeOK
  <2>3. AnchorTiming = "none" /\ AnchorTiming' \in {"timely", "untimely"}
    BY <2>1 DEF AnchorTiming
  <2>4. Facts!UNLIMITED = UNLIMITED /\ Facts!LIMITED = LIMITED
    BY DEF Facts!UNLIMITED, Facts!LIMITED, UNLIMITED, LIMITED
  <2>5. Facts!Anchor
    BY <1>2, <2>1, <2>2, <2>3, <2>4
       DEF Facts!Anchor, Facts!authority, Over, aboutSubject, Delegated, Trusted, Allowed,
           Signed, Withdrawn
  <2> QED BY <2>5 DEF Moves, Facts!FactsNext
<1> QED BY <1>3, <1>4

LEMMA ConsumptionIsUse ==
  ASSUME TypeOK, ConsumeCredential(CredHash)
  PROVE  Facts!Consume
<1> USE CredentialAssumption
<1>1. UNCHANGED <<now, exists, active, nftOwner, trustedIssuer, controllerPermissions,
                  keyHistoryByDid, suspensionHistoryByDid, credentialAnchors,
                  revokedCredentialHashes>>
  BY DEF ConsumeCredential, environment, lifecycle, keys, controllers
<1>2. UNCHANGED <<Over, aboutSubject, Delegated, Trusted, Withdrawn, AnchorTiming>>
  BY <1>1, SubjectKept, DelegationKept DEF Over, Trusted, Withdrawn, AnchorTiming
<1> DEFINE record == consumptionRecords[CredHash]
           used   == [record EXCEPT !.useCount = record.useCount + 1]
<1>3. Facts!UNLIMITED = UNLIMITED
  BY DEF Facts!UNLIMITED, UNLIMITED
<1>4. record.configured /\ Facts!Available
  BY <1>3 DEF ConsumeCredential, IsConsumptionAvailable, Facts!Available
<1>5. consumptionRecords' = IF record.mode = UNLIMITED THEN consumptionRecords
                            ELSE [consumptionRecords EXCEPT ![CredHash] = used]
  BY DEF ConsumeCredential
<1>6. consumptionRecords'[CredHash] = IF record.mode = UNLIMITED THEN record ELSE used
  BY <1>5 DEF TypeOK
<1> QED
  BY <1>2, <1>3, <1>4, <1>6
     DEF Facts!Consume, Facts!authority, Over, aboutSubject, Delegated, Trusted, Allowed,
         Signed, Withdrawn

LEMMA ConsumptionMoves ==
  ASSUME TypeOK, NEW h \in Hash, ConsumeCredential(h)
  PROVE  Moves
<1> USE CredentialAssumption
<1>1. CASE h # CredHash
  <2>1. UNCHANGED <<now, exists, active, nftOwner, trustedIssuer, controllerPermissions,
                    keyHistoryByDid, suspensionHistoryByDid, credentialAnchors,
                    revokedCredentialHashes>>
    BY DEF ConsumeCredential, environment, lifecycle, keys, controllers
  <2>2. UNCHANGED <<Over, aboutSubject, Delegated, Trusted, Withdrawn, AnchorTiming>>
    BY <2>1, SubjectKept, DelegationKept DEF Over, Trusted, Withdrawn, AnchorTiming
  <2>3. consumptionRecords'[CredHash] = consumptionRecords[CredHash]
    BY <1>1, ConsumeEffect
  <2> QED BY <2>2, <2>3, Unmoved DEF aboutHash, Moves
<1>2. CASE h = CredHash
  BY <1>2, ConsumptionIsUse DEF Moves, Facts!FactsNext
<1> QED BY <1>1, <1>2

------------------------------------------------------------------------------
LEMMA EveryStepMoves ==
  ASSUME TypeOK, KeyHistoryChained, SuspensionHistoryOrdered, FlagsConsistent, [Next]_vars
  PROVE  Moves
<1>1. CASE UNCHANGED vars
  BY <1>1, AuthorityMoves DEF vars, environment, lifecycle, keys
<1>2. CASE EnvironmentStep
  <2>1. CASE NextBlock
    BY <2>1, BlockMoves
  <2>2. CASE ~ NextBlock
    <3>1. UNCHANGED <<now, exists, active, keyHistoryByDid, suspensionHistoryByDid, credentials>>
      BY <1>2, <2>2 DEF EnvironmentStep, MintRobot, TransferRobot, ChangeTrust, lifecycle, keys
    <3> QED BY <3>1, AuthorityMoves
  <2> QED BY <2>1, <2>2
<1>3. ASSUME NEW sender \in Sender, NEW d \in Token, NEW c \in Account \cup {ZeroAddress},
             ControllerStep(sender, d, c)
      PROVE  Moves
  <2>1. UNCHANGED <<now, exists, active, keyHistoryByDid, suspensionHistoryByDid, credentials>>
    BY <1>3 DEF ControllerStep, AddController, UpdateControllerPermissions, RemoveController,
                environment, lifecycle, keys
  <2> QED BY <2>1, AuthorityMoves
<1>4. ASSUME NEW sender \in Sender, NEW d \in Token, NEW h \in Hash, CredentialStep(sender, d, h)
      PROVE  Moves
  BY <1>4, CredentialRevocationMoves, AnchoringMoves DEF CredentialStep
<1> QED
  BY <1>1, <1>2, <1>3, <1>4, LifecycleMoves, ConsumptionMoves DEF Next

(* The registry implements CredentialFacts, the contract on which every     *)
(* theorem about verification rests: for any credential, robots and bounds. *)
THEOREM RegistryKeepsFacts == Spec => ImplementsFacts
<1>1. TypeOK /\ KeyHistoryChained /\ SuspensionHistoryOrdered /\ FlagsConsistent /\ [Next]_vars
        => [Facts!FactsNext]_Facts!factVars
  BY EveryStepMoves DEF Moves
<1> QED
  BY <1>1, FactsInitially, TypeCorrect, KeysChainedAlways, SuspensionsOrdered, FlagsAlwaysConsistent, PTL
     DEF Spec, ImplementsFacts, Facts!FactsSpec
==============================================================================
