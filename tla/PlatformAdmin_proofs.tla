------------------------- MODULE PlatformAdmin_proofs -------------------------
(* What a handler did lasts until somebody does the opposite, and what it     *)
(* reports agrees with it: argued for one task's record and one change of the *)
(* contracts at a time.                                                      *)
EXTENDS PlatformAdmin, SequenceTheorems, TLAPS

------------------------------------------------------------------------------
(* Tokens and their metadata, through any nesting of mints inside the          *)
(* receivers' callbacks, transfers in them and refusals.                       *)
Call == [token : Token, to : Account, caller : Account, uri : URI, saved : NftState]

(* In state s, with the first k calls of cs under way, mints are kept apart.   *)
Kept(s, cs, k) ==
  \A token \in Token :
    /\ token < s.nextTokenId <=> s.robotOwner[token] # Nobody
    /\ token < s.nextTokenId <=> s.askedURI[token] # NoURI
    /\ \A j \in 1 .. k : cs[j].token = token =>
         /\ token < s.nextTokenId
         /\ s.robotMetadataURIs[token] = NoURI
         /\ s.askedURI[token] = cs[j].uri
    /\ (\A j \in 1 .. k : cs[j].token # token) => s.robotMetadataURIs[token] = s.askedURI[token]

(* They are now, and will be whichever of the calls is undone.                 *)
NftInv ==
  /\ NftTypeOK
  /\ Kept(Saved, calls, Len(calls))
  /\ \A i \in 1 .. Len(calls) :
       /\ Kept(calls[i].saved, calls, i - 1)
       /\ calls[i].token = calls[i].saved.nextTokenId

(* The steps of the contract. *)
NftNext ==
  \/ \E caller, to \in Account, uri \in URI : MintRobot(caller, to, uri)
  \/ FinishMint \/ RevertMint
  \/ \E token \in Token, to \in Account : TransferToken(token, to)
  \/ \E caller, account \in Account, role \in NftRole :
       GrantNftRole(caller, role, account) \/ RevokeNftRole(caller, role, account)

LEMMA KeptSame ==
  ASSUME NEW s, NEW cs, NEW ds, NEW k \in Nat, \A j \in 1 .. k : ds[j] = cs[j], Kept(s, cs, k)
  PROVE  Kept(s, ds, k)
  BY DEF Kept

LEMMA NftInitInv == NftInit => NftInv
<1> SUFFICES ASSUME NftInit PROVE NftInv
  OBVIOUS
<1> USE DEF NftInit
<1>1. nextTokenId \in 1 .. MaxTokens + 1
  BY NftAssumption
<1>2. Saved \in NftState
  BY <1>1, DeployerAssumption DEF Saved, NftState, Owners, Metadata
<1>3. Kept(Saved, calls, Len(calls))
  BY NftAssumption DEF Kept, Saved, Token
<1> QED
  BY <1>2, <1>3 DEF NftInv, NftTypeOK

LEMMA SavedTypes ==
  ASSUME NftTypeOK
  PROVE  /\ nextTokenId \in 1 .. MaxTokens + 1 /\ robotOwner \in Owners
         /\ robotMetadataURIs \in Metadata /\ askedURI \in Metadata
         /\ nftRoles \subseteq NftRole \X Account
  BY DEF NftTypeOK, Saved, NftState

LEMMA Returning ==
  ASSUME NftTypeOK, ~ Settled, Return
  PROVE  /\ calls' \in Seq(Call) /\ Len(calls') = Len(calls) - 1 /\ Len(calls) \in Nat \ {0}
         /\ \A i \in 1 .. Len(calls') : calls'[i] = calls[i]
         /\ Top = calls[Len(calls)] /\ Top \in Call
<1>1. calls \in Seq(Call) /\ calls # <<>>
  BY DEF NftTypeOK, Call, Settled
<1>2. Len(calls) \in Nat \ {0}
  BY <1>1, EmptySeq
<1> DEFINE m == Len(calls) - 1
           front == SubSeq(calls, 1, m)
<1>3. /\ front \in Seq(Call) /\ Len(front) = m
      /\ \A i \in 1 .. m : front[i] = calls[i]
  <2>1. m \in 0 .. Len(calls)
    BY <1>2
  <2> HIDE DEF m
  <2> QED
    BY <1>1, <2>1, SubSeqRestrict
<1>4. calls[Len(calls)] \in Call
  BY <1>1, <1>2
<1> QED
  BY <1>2, <1>3, <1>4 DEF Return, Top

LEMMA MintKeeps ==
  ASSUME NftInv, NEW caller \in Account, NEW to \in Account, NEW uri \in URI,
         MintRobot(caller, to, uri)
  PROVE  NftInv'
<1> DEFINE call == [token |-> nextTokenId, to |-> to, caller |-> caller, uri |-> uri, saved |-> Saved]
           n == Len(calls)
<1>1. /\ nextTokenId \in 1 .. MaxTokens + 1 /\ robotOwner \in Owners
      /\ robotMetadataURIs \in Metadata /\ askedURI \in Metadata
      /\ nftRoles \subseteq NftRole \X Account /\ NftTypeOK
  BY SavedTypes DEF NftInv
<1>2. nextTokenId \in Token /\ nextTokenId' = nextTokenId + 1
  BY <1>1, NftAssumption DEF MintRobot, Token
<1>3. call \in Call
  BY <1>1, <1>2 DEF Call, NftTypeOK
<1>4. calls \in Seq(Call) /\ calls' = Append(calls, call) /\ n \in Nat
  BY <1>1 DEF MintRobot, NftTypeOK, Call
<1>5. /\ calls' \in Seq(Call) /\ Len(calls') = n + 1 /\ calls'[n + 1] = call
      /\ \A i \in 1 .. n : calls'[i] = calls[i]
  BY <1>3, <1>4
<1>6. NftTypeOK'
  <2>1. nextTokenId' \in 1 .. MaxTokens + 1
    BY <1>1, <1>2, NftAssumption DEF Token
  <2>2. robotOwner' \in Owners /\ askedURI' \in Metadata
    BY <1>1 DEF MintRobot, Owners, Metadata
  <2>3. Saved' \in NftState
    BY <1>1, <2>1, <2>2 DEF MintRobot, Saved, NftState
  <2> QED
    BY <1>5, <2>3 DEF NftTypeOK, Call
<1>7. Kept(Saved, calls', n)
  <2>1. Kept(Saved, calls, n)
    BY DEF NftInv
  <2>2. n \in Nat /\ \A j \in 1 .. n : calls'[j] = calls[j]
    BY <1>4, <1>5
  <2> HIDE DEF n
  <2> QED
    BY <2>1, <2>2, KeptSame
<1>8. Kept(Saved', calls', n + 1)
  <2> SUFFICES ASSUME NEW token \in Token
               PROVE  /\ token < nextTokenId' <=> robotOwner'[token] # Nobody
                      /\ token < nextTokenId' <=> askedURI'[token] # NoURI
                      /\ \A j \in 1 .. n + 1 : calls'[j].token = token =>
                           /\ token < nextTokenId'
                           /\ robotMetadataURIs'[token] = NoURI
                           /\ askedURI'[token] = calls'[j].uri
                      /\ (\A j \in 1 .. n + 1 : calls'[j].token # token)
                           => robotMetadataURIs'[token] = askedURI'[token]
    BY DEF Kept, Saved
  <2>1. /\ token < nextTokenId <=> robotOwner[token] # Nobody
        /\ token < nextTokenId <=> askedURI[token] # NoURI
        /\ \A j \in 1 .. n : calls'[j].token = token =>
             /\ token < nextTokenId
             /\ robotMetadataURIs[token] = NoURI
             /\ askedURI[token] = calls'[j].uri
        /\ (\A j \in 1 .. n : calls'[j].token # token) => robotMetadataURIs[token] = askedURI[token]
    BY <1>7 DEF Kept, Saved
  <2>2. robotMetadataURIs' = robotMetadataURIs
    BY DEF MintRobot
  <2>3. CASE token = nextTokenId
    <3>1. robotOwner'[token] = to /\ askedURI'[token] = uri
      BY <1>1, <2>3 DEF MintRobot, Owners, Metadata
    <3>2. robotMetadataURIs[token] = NoURI /\ \A j \in 1 .. n : calls'[j].token # token
      BY <1>1, <2>1, <2>3
    <3> QED
      BY <1>1, <1>2, <1>4, <1>5, <2>2, <2>3, <3>1, <3>2, NftAssumption
  <2>4. CASE token # nextTokenId
    <3>1. robotOwner'[token] = robotOwner[token] /\ askedURI'[token] = askedURI[token]
      BY <1>1, <2>4 DEF MintRobot, Owners, Metadata
    <3>2. token < nextTokenId' <=> token < nextTokenId
      BY <1>1, <1>2, <2>4 DEF Token
    <3>3. calls'[n + 1].token # token
      BY <1>5, <2>4
    <3> QED
      BY <1>4, <2>1, <2>2, <3>1, <3>2, <3>3
  <2> QED
    BY <2>3, <2>4
<1>9. ASSUME NEW i \in 1 .. n + 1
      PROVE  Kept(calls'[i].saved, calls', i - 1) /\ calls'[i].token = calls'[i].saved.nextTokenId
  <2>1. CASE i = n + 1
    <3>1. calls'[i].saved = Saved /\ calls'[i].token = nextTokenId /\ i - 1 = n
      BY <1>4, <1>5, <2>1
    <3> QED
      BY <1>7, <3>1 DEF Saved
  <2>2. CASE i \in 1 .. n
    <3>1. calls'[i] = calls[i] /\ i - 1 \in Nat /\ \A j \in 1 .. i - 1 : calls'[j] = calls[j]
      BY <1>4, <1>5, <2>2
    <3> QED
      BY <2>2, <3>1, KeptSame DEF NftInv
  <2> QED
    BY <1>4, <2>1, <2>2
<1> QED
  BY <1>5, <1>6, <1>8, <1>9 DEF NftInv

(* The open calls have different tokens, each older than those inside it.      *)
LEMMA TokensDiffer ==
  ASSUME NftInv, NEW k \in 1 .. Len(calls), NEW j \in 1 .. k - 1
  PROVE  calls[j].token < calls[k].token
<1>1. calls \in Seq(Call) /\ Len(calls) \in Nat
  BY DEF NftInv, NftTypeOK, Call
<1>2. calls[j] \in Call
  BY <1>1
<1>3. calls[j].token \in Token
  BY <1>2 DEF Call
<1> QED
  BY <1>3 DEF NftInv, Kept

LEMMA ReturnKeeps ==
  ASSUME NftInv, ~ Settled, Return
  PROVE  \A i \in 1 .. Len(calls') :
           Kept(calls'[i].saved, calls', i - 1) /\ calls'[i].token = calls'[i].saved.nextTokenId
<1> SUFFICES ASSUME NEW i \in 1 .. Len(calls')
             PROVE  Kept(calls'[i].saved, calls', i - 1) /\ calls'[i].token = calls'[i].saved.nextTokenId
  OBVIOUS
<1>1. /\ Len(calls') = Len(calls) - 1 /\ Len(calls) \in Nat \ {0}
      /\ \A j \in 1 .. Len(calls') : calls'[j] = calls[j]
  BY Returning DEF NftInv
<1>2. i \in 1 .. Len(calls) /\ i - 1 \in Nat /\ \A j \in 1 .. i - 1 : calls'[j] = calls[j]
  BY <1>1
<1> QED
  BY <1>1, <1>2, KeptSame DEF NftInv

LEMMA FinishKeeps == ASSUME NftInv, FinishMint PROVE NftInv'
<1> DEFINE n == Len(calls)
<1>1. /\ nextTokenId \in 1 .. MaxTokens + 1 /\ robotOwner \in Owners
      /\ robotMetadataURIs \in Metadata /\ askedURI \in Metadata
      /\ nftRoles \subseteq NftRole \X Account /\ NftTypeOK
  BY SavedTypes DEF NftInv
<1>2. /\ calls' \in Seq(Call) /\ Len(calls') = n - 1 /\ n \in Nat \ {0}
      /\ \A i \in 1 .. n - 1 : calls'[i] = calls[i]
      /\ Top = calls[n] /\ Top \in Call
  BY <1>1, Returning DEF FinishMint
<1>3. NftTypeOK'
  <2>1. robotMetadataURIs' \in Metadata
    BY <1>1, <1>2 DEF FinishMint, Metadata, Call
  <2>2. Saved' \in NftState
    BY <1>1, <2>1 DEF FinishMint, Saved, NftState
  <2> QED
    BY <1>2, <2>2 DEF NftTypeOK, Call
<1>4. Kept(Saved', calls', n - 1)
  <2> SUFFICES ASSUME NEW token \in Token
               PROVE  /\ token < nextTokenId <=> robotOwner[token] # Nobody
                      /\ token < nextTokenId <=> askedURI[token] # NoURI
                      /\ \A j \in 1 .. n - 1 : calls'[j].token = token =>
                           /\ token < nextTokenId
                           /\ robotMetadataURIs'[token] = NoURI
                           /\ askedURI[token] = calls'[j].uri
                      /\ (\A j \in 1 .. n - 1 : calls'[j].token # token)
                           => robotMetadataURIs'[token] = askedURI[token]
    BY DEF Kept, Saved, FinishMint
  <2>1. /\ token < nextTokenId <=> robotOwner[token] # Nobody
        /\ token < nextTokenId <=> askedURI[token] # NoURI
        /\ \A j \in 1 .. n : calls[j].token = token =>
             /\ token < nextTokenId
             /\ robotMetadataURIs[token] = NoURI
             /\ askedURI[token] = calls[j].uri
        /\ (\A j \in 1 .. n : calls[j].token # token) => robotMetadataURIs[token] = askedURI[token]
    BY DEF NftInv, Kept, Saved
  <2>2. CASE token = calls[n].token
    <3>1. robotMetadataURIs'[token] = calls[n].uri /\ askedURI[token] = calls[n].uri
      BY <1>1, <1>2, <2>1, <2>2 DEF FinishMint, Metadata
    <3>2. \A j \in 1 .. n - 1 : calls[j].token < calls[n].token
      BY <1>2, TokensDiffer
    <3>3. \A j \in 1 .. n - 1 : calls'[j].token # token
      BY <1>2, <2>2, <3>2 DEF Token
    <3> QED
      BY <2>1, <3>1, <3>3
  <2>3. CASE token # calls[n].token
    <3>1. robotMetadataURIs'[token] = robotMetadataURIs[token]
      BY <1>1, <1>2, <2>3 DEF FinishMint, Metadata
    <3> QED
      BY <1>2, <2>1, <2>3, <3>1
  <2> QED
    BY <2>2, <2>3
<1>5. \A i \in 1 .. Len(calls') :
        Kept(calls'[i].saved, calls', i - 1) /\ calls'[i].token = calls'[i].saved.nextTokenId
  BY ReturnKeeps DEF FinishMint
<1> QED
  BY <1>2, <1>3, <1>4, <1>5 DEF NftInv

LEMMA RevertKeeps == ASSUME NftInv, RevertMint PROVE NftInv'
<1> DEFINE n == Len(calls)
<1>1. /\ calls' \in Seq(Call) /\ Len(calls') = n - 1 /\ n \in Nat \ {0}
      /\ \A i \in 1 .. n - 1 : calls'[i] = calls[i]
      /\ Top = calls[n] /\ Top \in Call
  BY Returning DEF RevertMint, NftInv
<1>2. Saved' = calls[n].saved /\ calls[n].saved \in NftState
  BY <1>1 DEF RevertMint, Saved, Call, NftState
<1>3. NftTypeOK'
  BY <1>1, <1>2 DEF NftTypeOK, Call
<1>4. Kept(Saved', calls', n - 1)
  <2>1. Kept(calls[n].saved, calls, n - 1)
    BY <1>1 DEF NftInv
  <2> QED
    BY <1>1, <1>2, <2>1, KeptSame
<1>5. \A i \in 1 .. Len(calls') :
        Kept(calls'[i].saved, calls', i - 1) /\ calls'[i].token = calls'[i].saved.nextTokenId
  BY ReturnKeeps DEF RevertMint
<1> QED
  BY <1>1, <1>3, <1>4, <1>5 DEF NftInv

LEMMA NftStep == NftInv /\ NftNext => NftInv'
<1> SUFFICES ASSUME NftInv, NftNext PROVE NftInv'
  OBVIOUS
<1>1. /\ nextTokenId \in 1 .. MaxTokens + 1 /\ robotOwner \in Owners
      /\ robotMetadataURIs \in Metadata /\ askedURI \in Metadata
      /\ nftRoles \subseteq NftRole \X Account
  BY SavedTypes DEF NftInv
<1>2. ASSUME NEW token \in Token, NEW to \in Account, TransferToken(token, to) PROVE NftInv'
  <2>1. robotOwner' \in Owners
    BY <1>1, <1>2 DEF TransferToken, Owners
  <2>2. Saved' \in NftState /\ calls' = calls
    BY <1>1, <1>2, <2>1 DEF TransferToken, Saved, NftState
  <2>3. Kept(Saved', calls, Len(calls))
    <3>1. /\ Saved'.nextTokenId = Saved.nextTokenId /\ Saved'.askedURI = Saved.askedURI
          /\ Saved'.robotMetadataURIs = Saved.robotMetadataURIs
      BY <1>2 DEF TransferToken, Saved
    <3>2. \A x \in Token : Saved'.robotOwner[x] # Nobody <=> Saved.robotOwner[x] # Nobody
      <4> SUFFICES ASSUME NEW x \in Token
                   PROVE robotOwner'[x] # Nobody <=> robotOwner[x] # Nobody
        BY DEF Saved
      <4>1. CASE x = token
        <5>1. robotOwner'[x] = to /\ x < nextTokenId
          BY <1>1, <1>2, <4>1 DEF TransferToken, Owners, Minted
        <5>2. robotOwner[x] # Nobody
          BY <5>1 DEF NftInv, Kept, Saved
        <5> QED
          BY <5>1, <5>2, NftAssumption
      <4>2. CASE x # token
        BY <1>1, <1>2, <4>2 DEF TransferToken, Owners
      <4> QED
        BY <4>1, <4>2
    <3>3. Kept(Saved, calls, Len(calls))
      BY DEF NftInv
    <3> HIDE DEF Saved
    <3> QED
      BY <3>1, <3>2, <3>3 DEF Kept
  <2> QED
    BY <2>2, <2>3 DEF NftInv, NftTypeOK
<1>3. ASSUME nftRoles' \subseteq NftRole \X Account,
             UNCHANGED <<nextTokenId, robotOwner, robotMetadataURIs, calls, askedURI>>
      PROVE  NftInv'
  <2>1. Saved' \in NftState
    BY <1>1, <1>3 DEF Saved, NftState
  <2>2. Kept(Saved', calls, Len(calls))
    BY <1>3 DEF NftInv, Kept, Saved
  <2> QED
    BY <1>3, <2>1, <2>2 DEF NftInv, NftTypeOK
<1>4. ASSUME NEW caller \in Account, NEW account \in Account, NEW role \in NftRole,
             GrantNftRole(caller, role, account) \/ RevokeNftRole(caller, role, account)
      PROVE  NftInv'
  BY <1>1, <1>3, <1>4 DEF GrantNftRole, RevokeNftRole, GrantsRole, RevokesRole
<1> QED
  BY <1>2, <1>4, MintKeeps, FinishKeeps, RevertKeeps DEF NftNext

LEMMA NftKept == NftInv => MintsKeptApart
<1> SUFFICES ASSUME NftInv, NEW token \in Token
             PROVE  /\ token \in Minted <=> robotOwner[token] # Nobody
                    /\ token \in UnderMint => token \in Minted /\ robotMetadataURIs[token] = NoURI
                    /\ token \notin UnderMint => robotMetadataURIs[token] = askedURI[token]
                    /\ token \in Minted <=> askedURI[token] # NoURI
  BY DEF MintsKeptApart
<1>1. DOMAIN calls = 1 .. Len(calls)
  BY DEF NftInv, NftTypeOK
<1>2. token \in UnderMint <=> \E j \in 1 .. Len(calls) : calls[j].token = token
  BY <1>1 DEF UnderMint
<1>3. token \in Minted <=> token < nextTokenId
  BY DEF Minted
<1> QED
  BY <1>2, <1>3 DEF NftInv, Kept, Saved

------------------------------------------------------------------------------
(* What a task's own transaction may set. *)
Settable == ({"active", MINTER} \cup IssuerRole) \X Account \X BOOLEAN

Sending == {"grantIssuer", "registerIssuer", "revokeIssuer", "grantAdmin", "grantMinter", "revokeMinter"}

LEMMA Roles ==
  /\ IssuerCredentialType =
       {"Maintenance", "Manufacturing", "Ownership", "SafetyInspection", "OperationLicense"}
  /\ IssuerRole = {"DEFAULT_ADMIN_ROLE", "MAINTAINER_ROLE", "MANUFACTURER_ROLE", "OWNER_ISSUER_ROLE",
                   "SAFETY_INSPECTOR_ROLE", "OPERATION_LICENSE_ISSUER_ROLE"}
  /\ \A type \in IssuerCredentialType : RoleForCredentialType[type] \in IssuerRole
<1>1. IssuerCredentialType =
       {"Maintenance", "Manufacturing", "Ownership", "SafetyInspection", "OperationLicense"}
  BY DEF IssuerCredentialType, RoleForCredentialType
<1>2. TypeRole = {"MAINTAINER_ROLE", "MANUFACTURER_ROLE", "OWNER_ISSUER_ROLE",
                  "SAFETY_INSPECTOR_ROLE", "OPERATION_LICENSE_ISSUER_ROLE"}
  BY <1>1 DEF TypeRole, RoleForCredentialType
<1> QED
  BY <1>1, <1>2 DEF IssuerRole, TypeRole, ADMIN

------------------------------------------------------------------------------
(* A task's record by itself.                                                *)

(* The loop over the types ticked. *)
Looping(r) ==
  r.op = "grantIssuer" =>
    /\ r.step \notin {"idle", "ask", "again"}
    /\ r.step \in {"wallet", "admin", "send"} => r.mined = r.listed /\ r.listed < Len(r.types)
    /\ r.step = "receipt" => r.mined = r.listed + 1
    /\ r.step = "done" => r.mined = r.listed /\ r.listed = Len(r.types)
    /\ r.listed <= r.mined /\ r.mined <= Len(r.types) /\ r.mined <= r.listed + 1

(* What the answer about a minter says. *)
Answered(r) ==
  r.answer => /\ r.step = "done"
              /\ \A account \in Account : Effect(MINTER, account, FALSE) \notin Standing(r)

(* The answers of a row. *)
Rows(r) ==
  /\ r.op # "checkIssuer" => r.asked = {} /\ r.shown = {}
  /\ \A account \in Account :
       /\ <<account, PROFILE>> \in r.asked => r.asked = {<<account, PROFILE>>} /\ r.shown = {}
       /\ \A type \in IssuerCredentialType :
            <<account, PROFILE, FALSE>> \in r.shown /\ <<account, type, TRUE>> \in r.shown
              => account \in r.registered

Good(r) ==
  /\ r \in TaskState
  /\ r.mined > 0 => r.op \in Sending
  /\ Looping(r) /\ Answered(r) /\ Rows(r)

LEMMA EffectsSettable ==
  ASSUME NEW r \in TaskState, r.op \in Sending, Looping(r),
         NEW n \in Nat, 1 <= n, r.op = "grantIssuer" => n <= Len(r.types)
  PROVE  TxEffect(r, n) \in Settable
<1>1. r.account \in Account /\ r.types \in Seq(IssuerCredentialType)
  BY DEF TaskState
<1>2. CASE r.op = "grantIssuer"
  <2>1. n \in 1 .. Len(r.types)
    BY <1>1, <1>2
  <2>2. r.types[n] \in IssuerCredentialType
    BY <1>1, <2>1
  <2>3. RoleForCredentialType[r.types[n]] \in IssuerRole
    BY <2>2, Roles
  <2> QED
    BY <1>1, <1>2, <2>3 DEF TxEffect, Effect, Settable
<1>3. CASE r.op # "grantIssuer"
  BY <1>1, <1>3 DEF TxEffect, Effect, Settable, Sending, IssuerRole
<1> QED
  BY <1>2, <1>3

LEMMA GoodEffects ==
  ASSUME NEW r, Good(r)
  PROVE  Effects(r) \subseteq Settable
<1> SUFFICES ASSUME NEW n \in 1 .. r.mined PROVE TxEffect(r, n) \in Settable
  BY DEF Effects
<1>1. r \in TaskState /\ r.mined \in Nat /\ Looping(r) /\ n \in Nat /\ 1 <= n /\ r.mined > 0
  BY DEF Good, TaskState
<1>2. r.op \in Sending
  BY <1>1 DEF Good
<1>3. r.op = "grantIssuer" => n <= Len(r.types)
  BY <1>1 DEF Looping, TaskState
<1> QED
  BY <1>1, <1>2, <1>3, EffectsSettable

(* The effects are those of the transactions mined. *)
LEMMA SameEffects ==
  ASSUME NEW r, NEW s, s.op = r.op, s.types = r.types, s.account = r.account, s.mined = r.mined
  PROVE  Effects(s) = Effects(r)
BY DEF Effects, TxEffect

LEMMA MoreEffects ==
  ASSUME NEW r \in TaskState, NEW s, s.op = r.op, s.types = r.types, s.account = r.account,
         s.mined = r.mined + 1
  PROVE  Effects(s) = Effects(r) \cup {TxEffect(r, r.mined + 1)}
<1>1. r.mined \in Nat
  BY DEF TaskState
<1>2. \A n : TxEffect(s, n) = TxEffect(r, n)
  BY DEF TxEffect
<1>3. 1 .. s.mined = (1 .. r.mined) \cup {r.mined + 1}
  BY <1>1
<1> QED
  BY <1>2, <1>3 DEF Effects

LEMMA SeesFields ==
  ASSUME NEW r \in TaskState, NEW effect \in What \X Account \X BOOLEAN
  PROVE  LET s == Sees(r, effect) IN
         /\ s \in TaskState
         /\ s.op = r.op /\ s.step = r.step /\ s.account = r.account /\ s.types = r.types
         /\ s.signer = r.signer /\ s.mined = r.mined /\ s.listed = r.listed
         /\ s.asked = r.asked /\ s.shown = r.shown /\ s.answer = r.answer
         /\ s.overridden = r.overridden
              \cup ({Effect(effect[1], effect[2], ~ effect[3])} \cap Effects(r))
         /\ r.registered \subseteq s.registered
         /\ r.op = "checkIssuer" /\ UnderWay(r) /\ effect[1] = "active" /\ effect[3]
              => effect[2] \in s.registered
<1> DEFINE over == r.overridden \cup ({Effect(effect[1], effect[2], ~ effect[3])} \cap Effects(r))
           reg == IF r.op = "checkIssuer" /\ UnderWay(r) /\ effect[1] = "active" /\ effect[3]
                  THEN r.registered \cup {effect[2]} ELSE r.registered
<1>1. Effect(effect[1], effect[2], ~ effect[3]) \in What \X Account \X BOOLEAN
  BY DEF Effect
<1>2. over \in SUBSET (What \X Account \X BOOLEAN)
  BY <1>1 DEF TaskState
<1>3. reg \in SUBSET Account
  BY DEF TaskState
<1>4. Sees(r, effect) = [r EXCEPT !.overridden = over, !.registered = reg]
  BY DEF Sees
<1>5. /\ r.registered \subseteq reg
      /\ r.op = "checkIssuer" /\ UnderWay(r) /\ effect[1] = "active" /\ effect[3]
              => effect[2] \in reg
  OBVIOUS
<1> HIDE DEF over, reg
<1>6. LET s == [r EXCEPT !.overridden = over, !.registered = reg] IN
         /\ s \in TaskState
         /\ s.op = r.op /\ s.step = r.step /\ s.account = r.account /\ s.types = r.types
         /\ s.signer = r.signer /\ s.mined = r.mined /\ s.listed = r.listed
         /\ s.asked = r.asked /\ s.shown = r.shown /\ s.answer = r.answer
         /\ s.overridden = over /\ s.registered = reg
  BY <1>2, <1>3 DEF TaskState
<1> QED
  BY <1>4, <1>5, <1>6 DEF over

LEMMA SeesGood ==
  ASSUME NEW r, Good(r), NEW effect \in What \X Account \X BOOLEAN
  PROVE  /\ Good(Sees(r, effect))
         /\ Effects(Sees(r, effect)) = Effects(r)
         /\ \A e \in Standing(Sees(r, effect)) :
              e \in Standing(r) /\ e # Effect(effect[1], effect[2], ~ effect[3])
<1> DEFINE s == Sees(r, effect)
           opposite == Effect(effect[1], effect[2], ~ effect[3])
<1>0. r \in TaskState
  BY DEF Good
<1>1. /\ s \in TaskState
      /\ s.op = r.op /\ s.step = r.step /\ s.account = r.account /\ s.types = r.types
      /\ s.mined = r.mined /\ s.listed = r.listed
      /\ s.asked = r.asked /\ s.shown = r.shown /\ s.answer = r.answer
      /\ s.overridden = r.overridden \cup ({opposite} \cap Effects(r))
      /\ r.registered \subseteq s.registered
  BY <1>0, SeesFields
<1> HIDE DEF s, opposite
<1>2. Effects(s) = Effects(r)
  BY <1>1, SameEffects
<1>3. \A e \in Standing(s) : e \in Standing(r) /\ e # opposite
  BY <1>1, <1>2 DEF Standing
<1>4. Looping(s) /\ (s.mined > 0 => s.op \in Sending)
  BY <1>1 DEF Good, Looping
<1>5. Answered(s)
  BY <1>1, <1>3 DEF Good, Answered
<1>6. Rows(s)
  BY <1>1 DEF Good, Rows
<1> QED
  BY <1>1, <1>2, <1>3, <1>4, <1>5, <1>6 DEF Good, s, opposite

(* The record after its own transaction. *)
LEMMA MinedGood ==
  ASSUME NEW r, Good(r), r.step = "send", r.op \in Sending
  PROVE  /\ Good(Sent(r)) /\ OwnEffect(r) \in Settable
         /\ Sent(r).shown = r.shown
         /\ \A e \in Standing(Sent(r)) : e \in Standing(r) \/ e = OwnEffect(r)
         /\ \A e \in Standing(Sent(r)) \cap Effects(r) :
              e # Effect(OwnEffect(r)[1], OwnEffect(r)[2], ~ OwnEffect(r)[3])
<1> DEFINE n == r.mined + 1
           x == TxEffect(r, n)
           s == Sent(r)
           opposite == Effect(x[1], x[2], ~ x[3])
<1>1. /\ r \in TaskState /\ Looping(r) /\ Answered(r) /\ Rows(r)
      /\ r.mined \in Nat /\ r.listed \in Nat /\ Len(r.types) \in Nat
  BY DEF Good, TaskState
<1>2. n \in Nat /\ 1 <= n /\ (r.op = "grantIssuer" => n <= Len(r.types))
  BY <1>1 DEF Looping
<1>3. x \in Settable
  <2> HIDE DEF n
  <2> QED
    BY <1>1, <1>2, EffectsSettable
<1>4. x \in What \X Account \X BOOLEAN
  <2> HIDE DEF x
  <2> QED
    BY <1>3 DEF Settable, What
<1> DEFINE seen == Sees(r, x)
<1> HIDE DEF x
<1>5. /\ seen \in TaskState
      /\ seen.op = r.op /\ seen.account = r.account /\ seen.types = r.types
      /\ seen.listed = r.listed /\ seen.answer = r.answer
      /\ seen.asked = r.asked /\ seen.shown = r.shown
      /\ seen.overridden = r.overridden \cup ({opposite} \cap Effects(r))
      /\ r.registered \subseteq seen.registered
  BY <1>1, <1>4, SeesFields
<1>6. s = [seen EXCEPT !.mined = n, !.step = "receipt"] /\ x = OwnEffect(r)
  BY DEF Sent, OwnEffect, x
<1> HIDE DEF seen, n, opposite, s
<1>7. /\ s \in TaskState /\ s.mined = n /\ s.step = "receipt"
      /\ s.op = r.op /\ s.account = r.account /\ s.types = r.types
      /\ s.listed = r.listed /\ s.answer = r.answer
      /\ s.asked = r.asked /\ s.shown = r.shown
      /\ s.overridden = seen.overridden /\ s.registered = seen.registered
  BY <1>2, <1>5, <1>6 DEF TaskState, Step
<1>8. Effects(s) = Effects(r) \cup {x}
  <2>1. s.mined = r.mined + 1
    BY <1>7 DEF n
  <2>2. Effects(s) = Effects(r) \cup {TxEffect(r, r.mined + 1)}
    BY <1>1, <1>7, <2>1, MoreEffects
  <2> QED
    BY <2>2 DEF x, n
<1>9. \A e \in Standing(s) : e \in Standing(r) \/ e = x
  BY <1>5, <1>7, <1>8 DEF Standing
<1>10. \A e \in Standing(s) \cap Effects(r) : e # opposite
  BY <1>5, <1>7 DEF Standing
<1>11. Looping(s)
  BY <1>1, <1>2, <1>7 DEF Looping, n
<1>12. Answered(s) /\ Rows(s)
  BY <1>1, <1>5, <1>7 DEF Answered, Rows
<1>13. Good(s)
  BY <1>7, <1>11, <1>12 DEF Good
<1> QED
  BY <1>3, <1>6, <1>7, <1>9, <1>10, <1>13 DEF opposite, s

------------------------------------------------------------------------------
(* The record and the contracts: who is active, who has the issuers' roles,   *)
(* and the roles of robots, now and whichever mint is undone.                 *)
Agrees(e, active, roles, minting) ==
  /\ e[1] = "active" => (active[e[2]] <=> e[3])
  /\ e[1] \in IssuerRole => (<<e[1], e[2]>> \in roles <=> e[3])
  /\ e[1] = MINTER => \A members \in minting : <<MINTER, e[2]>> \in members <=> e[3]

Fits(r, active, roles, minting) ==
  /\ \A e \in Standing(r) : Agrees(e, active, roles, minting)
  /\ \A account \in Account :
       <<account, PROFILE, FALSE>> \in r.shown /\ UnderWay(r) /\ account \notin r.registered
         => ~ active[account]

(* One transaction sets x. *)
ActiveSet(x, active, after) ==
  \A account \in Account :
    after[account] <=> IF x[1] = "active" /\ x[2] = account THEN x[3] ELSE active[account]

RoleSet(x, role, members, after) ==
  \A account \in Account :
    <<role, account>> \in after
      <=> IF x[1] = role /\ x[2] = account THEN x[3] ELSE <<role, account>> \in members

Change(x, active, roles, minting, active2, roles2, minting2) ==
  /\ ActiveSet(x, active, active2)
  /\ \A role \in IssuerRole : RoleSet(x, role, roles, roles2)
  /\ \A after \in minting2 :
       after \in minting \/ \E members \in minting : RoleSet(x, MINTER, members, after)

LEMMA StillAgrees ==
  ASSUME NEW A, NEW I, NEW N, NEW A2, NEW I2, NEW N2,
         NEW x \in What \X Account \X BOOLEAN, NEW e \in Settable,
         e # Effect(x[1], x[2], ~ x[3]), Agrees(e, A, I, N), Change(x, A, I, N, A2, I2, N2)
  PROVE  Agrees(e, A2, I2, N2)
<1>1. /\ e = <<e[1], e[2], e[3]>> /\ e[2] \in Account /\ e[3] \in BOOLEAN
      /\ x[2] \in Account /\ x[3] \in BOOLEAN
  BY DEF Settable
<1>2. e[1] = x[1] /\ e[2] = x[2] => e[3] = x[3]
  BY <1>1 DEF Effect
<1>3. ASSUME e[1] = "active" PROVE A2[e[2]] <=> e[3]
  BY <1>1, <1>2, <1>3 DEF Agrees, Change, ActiveSet
<1>4. ASSUME e[1] \in IssuerRole PROVE <<e[1], e[2]>> \in I2 <=> e[3]
  BY <1>1, <1>2, <1>4 DEF Agrees, Change, RoleSet
<1>5. ASSUME e[1] = MINTER, NEW after \in N2 PROVE <<MINTER, e[2]>> \in after <=> e[3]
  <2>1. CASE after \in N
    BY <1>5, <2>1 DEF Agrees
  <2>2. ASSUME NEW members \in N, RoleSet(x, MINTER, members, after)
        PROVE  <<MINTER, e[2]>> \in after <=> e[3]
    BY <1>1, <1>2, <1>5, <2>2 DEF Agrees, RoleSet
  <2> QED
    BY <2>1, <2>2 DEF Change
<1> QED
  BY <1>3, <1>4, <1>5 DEF Agrees

LEMMA NowAgrees ==
  ASSUME NEW A, NEW I, NEW N, NEW A2, NEW I2, NEW N2, NEW x \in Settable,
         Change(x, A, I, N, A2, I2, N2),
         x[1] = MINTER => \A after \in N2 : \E members \in N : RoleSet(x, MINTER, members, after)
  PROVE  Agrees(x, A2, I2, N2)
<1>1. x[2] \in Account /\ x[3] \in BOOLEAN
  BY DEF Settable
<1>2. ASSUME x[1] = "active" PROVE A2[x[2]] <=> x[3]
  BY <1>1, <1>2 DEF Change, ActiveSet
<1>3. ASSUME x[1] \in IssuerRole PROVE <<x[1], x[2]>> \in I2 <=> x[3]
  BY <1>1, <1>3 DEF Change, RoleSet
<1>4. ASSUME x[1] = MINTER, NEW after \in N2 PROVE <<MINTER, x[2]>> \in after <=> x[3]
  BY <1>1, <1>4 DEF RoleSet
<1> QED
  BY <1>2, <1>3, <1>4 DEF Agrees

LEMMA SeesFits ==
  ASSUME NEW A, NEW I, NEW N, NEW A2, NEW I2, NEW N2, NEW r, Good(r), Fits(r, A, I, N),
         NEW x \in What \X Account \X BOOLEAN, Change(x, A, I, N, A2, I2, N2)
  PROVE  Fits(Sees(r, x), A2, I2, N2)
<1> DEFINE s == Sees(r, x)
<1>1. r \in TaskState /\ Rows(r) /\ Effects(r) \subseteq Settable
  BY GoodEffects DEF Good
<1>2. ASSUME NEW e \in Standing(s) PROVE Agrees(e, A2, I2, N2)
  <2>1. e \in Standing(r) /\ e # Effect(x[1], x[2], ~ x[3])
    BY <1>2, SeesGood
  <2>2. e \in Settable /\ Agrees(e, A, I, N)
    BY <1>1, <2>1 DEF Standing, Fits
  <2> QED
    BY <2>1, <2>2, StillAgrees
<1>3. ASSUME NEW account \in Account, <<account, PROFILE, FALSE>> \in s.shown, UnderWay(s),
             account \notin s.registered
      PROVE  ~ A2[account]
  <2>1. /\ s.op = r.op /\ s.step = r.step /\ s.shown = r.shown
        /\ r.registered \subseteq s.registered
        /\ r.op = "checkIssuer" /\ UnderWay(r) /\ x[1] = "active" /\ x[3] => x[2] \in s.registered
    BY <1>1, SeesFields
  <2> HIDE DEF s
  <2>2. UnderWay(r) /\ r.op = "checkIssuer"
    BY <1>1, <1>3, <2>1 DEF UnderWay, Rows
  <2>3. ~ A[account]
    BY <1>3, <2>1, <2>2 DEF Fits
  <2>4. ~ (x[1] = "active" /\ x[2] = account /\ x[3])
    BY <1>3, <2>1, <2>2
  <2> QED
    BY <2>3, <2>4 DEF Change, ActiveSet
<1> QED
  BY <1>2, <1>3 DEF Fits

LEMMA MinedFits ==
  ASSUME NEW A, NEW I, NEW N, NEW A2, NEW I2, NEW N2, NEW r, Good(r), Fits(r, A, I, N),
         r.op \in Sending, NEW x \in Settable, Change(x, A, I, N, A2, I2, N2),
         x[1] = MINTER => \A after \in N2 : \E members \in N : RoleSet(x, MINTER, members, after),
         NEW s, s.shown = r.shown,
         \A e \in Standing(s) : e \in Standing(r) \/ e = x,
         \A e \in Standing(s) \cap Effects(r) : e # Effect(x[1], x[2], ~ x[3])
  PROVE  Fits(s, A2, I2, N2)
<1>2. Rows(r) /\ Effects(r) \subseteq Settable
  BY GoodEffects DEF Good
<1>4. x \in What \X Account \X BOOLEAN
  BY DEF Settable, What
<1>5. ASSUME NEW e \in Standing(s) PROVE Agrees(e, A2, I2, N2)
  <2>1. CASE e = x
    BY <2>1, NowAgrees
  <2>2. CASE e \in Standing(r)
    <3>1. e \in Effects(r) /\ e \in Settable /\ Agrees(e, A, I, N)
      BY <1>2, <2>2 DEF Standing, Fits
    <3>2. e # Effect(x[1], x[2], ~ x[3])
      BY <3>1
    <3> QED
      BY <1>4, <3>1, <3>2, StillAgrees
  <2> QED
    BY <2>1, <2>2
<1>6. s.shown = {}
  BY <1>2 DEF Rows, Sending
<1> QED
  BY <1>5, <1>6 DEF Fits

------------------------------------------------------------------------------
(* Steps of one task that change no contract.                                *)

(* What has been mined, asked and answered stays. *)
SameSoFar(r, s) ==
  /\ s.op = r.op /\ s.types = r.types /\ s.account = r.account /\ s.mined = r.mined
  /\ s.asked = r.asked /\ s.shown = r.shown
  /\ s.overridden = r.overridden /\ s.registered = r.registered

LEMMA GoesOn ==
  ASSUME NEW A, NEW I, NEW N, NEW r, Good(r), Fits(r, A, I, N), UnderWay(r),
         NEW s \in TaskState, SameSoFar(r, s), Looping(s), Answered(s)
  PROVE  Good(s) /\ Fits(s, A, I, N)
<1>1. Effects(s) = Effects(r)
  BY SameEffects DEF SameSoFar
<1>2. Standing(s) = Standing(r)
  BY <1>1 DEF Standing, SameSoFar
<1>3. Good(s)
  BY DEF Good, SameSoFar, Rows
<1>4. Fits(s, A, I, N)
  BY <1>2 DEF Fits, SameSoFar
<1> QED
  BY <1>3, <1>4

LEMMA Began ==
  ASSUME NEW A, NEW I, NEW N, NEW op \in Op, NEW account \in Account, NEW types \in Selection,
         NEW step \in Step, op = "grantIssuer" => step = "wallet",
         NEW asked \in SUBSET (Account \X Item), op # "checkIssuer" => asked = {},
         \A a \in Account : <<a, PROFILE>> \in asked => asked = {<<a, PROFILE>>},
         NEW s, s = Fresh(op, step, account, types, asked)
  PROVE  Good(s) /\ Fits(s, A, I, N)
<1>1. types \in Seq(IssuerCredentialType) /\ Len(types) \in Nat /\ 0 < Len(types)
  BY SelectionAssumption, EmptySeq
<1>2. s \in TaskState
  BY <1>1, DeployerAssumption DEF TaskState, Fresh
<1>3. /\ s.op = op /\ s.step = step /\ s.account = account /\ s.types = types
      /\ s.mined = 0 /\ s.listed = 0 /\ s.asked = asked /\ s.shown = {} /\ ~ s.answer
      /\ s.overridden = {}
  BY DEF Fresh
<1>4. Standing(s) = {}
  BY <1>3 DEF Standing, Effects
<1>5. Looping(s) /\ Answered(s) /\ Rows(s)
  <2>1. Looping(s)
    BY <1>1, <1>3 DEF Looping
  <2>2. Answered(s)
    BY <1>3 DEF Answered
  <2>3. Rows(s)
    BY <1>3 DEF Rows
  <2> QED
    BY <2>1, <2>2, <2>3
<1>6. Good(s)
  BY <1>2, <1>3, <1>5 DEF Good
<1> QED
  BY <1>3, <1>4, <1>6 DEF Fits

(* An answer about a minter. *)
LEMMA AnsweredGood ==
  ASSUME NEW A, NEW I, NEW N, NEW members \in N, NEW r, Good(r), Fits(r, A, I, N), UnderWay(r),
         NEW has \in BOOLEAN, r.op # "grantIssuer",
         r.op = "revokeMinter" /\ has => HasRole(members, MINTER, r.account),
         NEW s, s = [r EXCEPT !.answer = has, !.step = "done"]
  PROVE  Good(s) /\ Fits(s, A, I, N)
<1>1. /\ r \in TaskState /\ (r.mined > 0 => r.op \in Sending) /\ Effects(r) \subseteq Settable
      /\ r.mined \in Nat
  BY GoodEffects DEF Good, TaskState
<1>2. s \in TaskState /\ SameSoFar(r, s) /\ s.answer = has /\ s.step = "done"
  BY <1>1 DEF TaskState, Step, SameSoFar
<1>3. Effects(s) = Effects(r)
  BY <1>2, SameEffects DEF SameSoFar
<1>4. Standing(s) = Standing(r)
  BY <1>2, <1>3 DEF Standing, SameSoFar
<1>5. Answered(s)
  <2> SUFFICES ASSUME has, NEW account \in Account, Effect(MINTER, account, FALSE) \in Standing(r)
               PROVE  FALSE
    BY <1>2, <1>4 DEF Answered
  <2> DEFINE e == Effect(MINTER, account, FALSE)
  <2>1. e \in Effects(r) /\ e[1] = MINTER /\ e[2] = account /\ e[3] = FALSE
    BY DEF Standing, Effect
  <2>2. PICK n \in 1 .. r.mined : e = TxEffect(r, n)
    BY <2>1 DEF Effects
  <2>3. r.op \in Sending
    BY <1>1, <2>2
  <2>4. r.op = "revokeMinter" /\ account = r.account
    BY <2>1, <2>2, <2>3 DEF TxEffect, Sending, Effect, MINTER, ADMIN
  <2>5. ~ (<<MINTER, account>> \in members)
    BY <2>1 DEF Fits, Agrees
  <2> QED
    BY <2>4, <2>5 DEF HasRole
<1>6. Looping(s)
  BY <1>2 DEF Looping, SameSoFar
<1> QED
  BY <1>2, <1>5, <1>6, GoesOn

LEMMA RowFields ==
  ASSUME NEW r \in TaskState, NEW open \in SUBSET (Account \X Item), NEW step \in Step,
         NEW shown \in SUBSET (Account \X Item \X BOOLEAN),
         NEW s, s = [r EXCEPT !.asked = open, !.shown = shown, !.step = step]
  PROVE  /\ s \in TaskState /\ s.asked = open /\ s.shown = shown /\ s.step = step
         /\ s.op = r.op /\ s.types = r.types /\ s.account = r.account /\ s.mined = r.mined
         /\ s.overridden = r.overridden /\ s.registered = r.registered /\ s.answer = r.answer
BY DEF TaskState

(* A row's answer. *)
RowStep(r, who, item, yes, s) ==
  /\ <<who, item>> \in r.asked
  /\ \A question \in s.asked :
       \/ question \in r.asked /\ question # <<who, item>>
       \/ item = PROFILE /\ question \in {who} \X IssuerCredentialType
  /\ s.shown = r.shown \cup {<<who, item, yes>>}
  /\ s.op = r.op /\ s.types = r.types /\ s.account = r.account /\ s.mined = r.mined
  /\ s.overridden = r.overridden /\ s.registered = r.registered /\ s.answer = r.answer

LEMMA RowGood ==
  ASSUME NEW A, NEW I, NEW N, NEW r, Good(r), Fits(r, A, I, N), r.step = "ask",
         NEW who \in Account, NEW item \in Item, NEW yes \in BOOLEAN, yes => A[who],
         item = PROFILE => (yes <=> A[who]),
         NEW s \in TaskState, RowStep(r, who, item, yes, s)
  PROVE  Good(s) /\ Fits(s, A, I, N)
<1>1. /\ r \in TaskState /\ Rows(r) /\ r.asked \subseteq Account \X Item
      /\ r.shown \subseteq Account \X Item \X BOOLEAN
  BY DEF Good, TaskState
<1>2. /\ <<who, item>> \in r.asked /\ s.shown = r.shown \cup {<<who, item, yes>>}
      /\ s.op = r.op /\ s.types = r.types /\ s.account = r.account /\ s.mined = r.mined
      /\ s.overridden = r.overridden /\ s.registered = r.registered /\ s.answer = r.answer
  BY DEF RowStep
<1>5. r.op = "checkIssuer"
  BY <1>1, <1>2 DEF Rows
<1>7. PROFILE \notin IssuerCredentialType
  BY Roles DEF PROFILE
<1>8. \A account \in Account : <<account, PROFILE>> \notin s.asked
  BY <1>1, <1>2, <1>7 DEF Rows, RowStep
<1>10. Effects(s) = Effects(r)
  BY <1>2, SameEffects
<1>11. Standing(s) = Standing(r)
  BY <1>2, <1>10 DEF Standing
<1>12. ~ s.answer /\ Looping(s) /\ (s.mined > 0 => s.op \in Sending)
  BY <1>2, <1>5 DEF Good, Answered, Looping
<1>13. ASSUME NEW account \in Account, <<account, PROFILE, FALSE>> \in s.shown,
              account \notin r.registered
       PROVE  ~ A[account]
  <2>1. CASE <<account, PROFILE, FALSE>> \in r.shown
    BY <1>13, <2>1 DEF Fits, UnderWay
  <2>2. CASE <<account, PROFILE, FALSE>> = <<who, item, yes>>
    BY <2>2
  <2> QED
    BY <1>2, <1>13, <2>1, <2>2
<1>14. ASSUME NEW account \in Account, NEW type \in IssuerCredentialType,
              <<account, PROFILE, FALSE>> \in s.shown, <<account, type, TRUE>> \in s.shown,
              account \notin r.registered
       PROVE  FALSE
  <2>1. CASE <<account, type, TRUE>> \in r.shown
    <3>1. <<account, PROFILE, FALSE>> \notin r.shown
      BY <1>1, <1>14, <2>1 DEF Rows
    <3>2. <<account, PROFILE>> = <<who, item>>
      BY <1>2, <1>14, <3>1
    <3> QED
      BY <1>1, <1>2, <2>1, <3>2 DEF Rows
  <2>2. CASE <<account, type, TRUE>> = <<who, item, yes>>
    BY <1>13, <1>14, <2>2
  <2> QED
    BY <1>2, <1>14, <2>1, <2>2
<1>15. Rows(s)
  BY <1>5, <1>8, <1>2, <1>14 DEF Rows
<1>16. Good(s)
  BY <1>2, <1>12, <1>15 DEF Good, Answered
<1>17. Fits(s, A, I, N)
  BY <1>2, <1>11, <1>13 DEF Fits
<1> QED
  BY <1>16, <1>17

------------------------------------------------------------------------------
(* The specification.                                                        *)

(* The roles of robots, now and whichever mint is undone. *)
Minting == {nftRoles} \cup {calls[i].saved.nftRoles : i \in 1 .. Len(calls)}

AdminInv ==
  /\ IssuerTypeOK /\ NftInv
  /\ task \in [Task -> TaskState] /\ elsewhere \in 0 .. MaxElsewhere
  /\ \A t \in Task : Good(task[t]) /\ Fits(task[t], issuerActive, issuerRoles, Minting)

LEMMA AdminInitInv == Init => AdminInv
<1> SUFFICES ASSUME Init PROVE AdminInv
  OBVIOUS
<1>1. NftInv
  BY NftInitInv DEF Init
<1>2. IssuerTypeOK
  BY DeployerAssumption DEF Init, IssuerInit, IssuerTypeOK
<1>3. Idle \in TaskState
  BY DeployerAssumption DEF Idle, Fresh, TaskState, Step
<1>4. /\ Idle.op = "none" /\ Idle.step = "idle" /\ Idle.mined = 0 /\ Idle.shown = {} /\ Idle.asked = {}
      /\ Idle.overridden = {} /\ ~ Idle.answer
  BY DEF Idle, Fresh
<1>5. Standing(Idle) = {}
  BY <1>4 DEF Standing, Effects
<1>6. Looping(Idle) /\ Answered(Idle) /\ Rows(Idle)
  BY <1>4 DEF Looping, Answered, Rows
<1>7. Good(Idle)
  BY <1>3, <1>4, <1>6 DEF Good
<1>8. Fits(Idle, issuerActive, issuerRoles, Minting)
  BY <1>4, <1>5 DEF Fits
<1>9. elsewhere \in 0 .. MaxElsewhere
  BY SelectionAssumption DEF Init
<1> QED
  BY <1>1, <1>2, <1>3, <1>7, <1>8, <1>9 DEF Init, AdminInv

LEMMA Locally ==
  ASSUME AdminInv, NEW t \in Task, NEW s, Good(s), Fits(s, issuerActive, issuerRoles, Minting),
         task' = [task EXCEPT ![t] = s], OnlyTasks
  PROVE  AdminInv'
<1>1. UNCHANGED <<issuerVars, nftVars, elsewhere>>
  BY DEF OnlyTasks
<1>2. IssuerTypeOK' /\ issuerActive' = issuerActive /\ issuerRoles' = issuerRoles
  BY <1>1 DEF AdminInv, IssuerTypeOK, issuerVars
<1>3. NftInv' /\ Minting' = Minting
  BY <1>1 DEF AdminInv, NftInv, NftTypeOK, Saved, Minting, nftVars
<1>4. task' \in [Task -> TaskState]
  BY DEF AdminInv, Good
<1>5. ASSUME NEW u \in Task
      PROVE  Good(task'[u]) /\ Fits(task'[u], issuerActive, issuerRoles, Minting)
  <2>1. task'[u] = IF u = t THEN s ELSE task[u]
    BY DEF AdminInv
  <2> QED
    BY <2>1 DEF AdminInv
<1> QED
  BY <1>1, <1>2, <1>3, <1>4, <1>5 DEF AdminInv

(* A task under way goes to another step, and at most learns who signs or     *)
(* that a transaction was mined.                                             *)
LEMMA StepKeeps ==
  ASSUME AdminInv, NEW t \in Task, UnderWay(task[t]), OnlyTasks,
         NEW signer \in Account, NEW listed \in Nat, NEW step \in Step,
         task' = [task EXCEPT ![t] =
                    [task[t] EXCEPT !.signer = signer, !.listed = listed, !.step = step]],
         task[t].op = "grantIssuer" =>
           /\ step \notin {"idle", "ask", "again"}
           /\ step \in {"wallet", "admin", "send"}
                => task[t].mined = listed /\ listed < Len(task[t].types)
           /\ step = "receipt" => task[t].mined = listed + 1
           /\ step = "done" => task[t].mined = listed /\ listed = Len(task[t].types)
           /\ listed <= task[t].mined /\ task[t].mined <= listed + 1
  PROVE  AdminInv'
<1> DEFINE r == task[t]
           s == [task[t] EXCEPT !.signer = signer, !.listed = listed, !.step = step]
<1>1. /\ r \in TaskState /\ Good(r) /\ Fits(r, issuerActive, issuerRoles, Minting) /\ UnderWay(r)
      /\ Looping(r) /\ Answered(r)
  BY DEF AdminInv, Good
<1>2. s \in TaskState /\ SameSoFar(r, s) /\ s.listed = listed /\ s.step = step /\ s.answer = r.answer
  <2>1. s = [r EXCEPT !.signer = signer, !.listed = listed, !.step = step]
    OBVIOUS
  <2> HIDE DEF r, s
  <2> QED
    BY <1>1, <2>1 DEF TaskState, SameSoFar
<1>3. Looping(s)
  BY <1>1, <1>2 DEF Looping, SameSoFar
<1>4. Answered(s)
  BY <1>1, <1>2 DEF Answered, UnderWay
<1>5. Good(s) /\ Fits(s, issuerActive, issuerRoles, Minting)
  <2> HIDE DEF r, s
  <2> QED
    BY <1>1, <1>2, <1>3, <1>4, GoesOn
<1>6. task' = [task EXCEPT ![t] = s]
  OBVIOUS
<1> HIDE DEF r, s
<1> QED
  BY <1>5, <1>6, Locally

LEMMA TaskTypes ==
  ASSUME AdminInv, NEW t \in Task
  PROVE  /\ task[t] \in TaskState /\ Good(task[t])
         /\ Fits(task[t], issuerActive, issuerRoles, Minting)
         /\ Looping(task[t]) /\ Answered(task[t]) /\ Rows(task[t])
         /\ task[t].signer \in Account /\ task[t].account \in Account
         /\ task[t].listed \in Nat /\ task[t].mined \in Nat /\ task[t].step \in Step
         /\ task[t].types \in Seq(IssuerCredentialType)
         /\ task[t].asked \subseteq Account \X Item
         /\ task[t].shown \subseteq Account \X Item \X BOOLEAN
BY DEF AdminInv, Good, TaskState

LEMMA BeginKeeps ==
  ASSUME AdminInv, NEW t \in Task, Begin(t)
  PROVE  AdminInv'
<1>1. PICK op \in Op, account \in Account, types \in Selection :
        task' = [task EXCEPT ![t] =
          Fresh(op, IF op \in {"checkIssuer", "checkAdmin"} THEN "ask" ELSE "wallet",
                account, types, IF op = "checkIssuer" THEN {<<account, PROFILE>>} ELSE {})]
  BY DEF Begin
<1> DEFINE step == IF op \in {"checkIssuer", "checkAdmin"} THEN "ask" ELSE "wallet"
           asked == IF op = "checkIssuer" THEN {<<account, PROFILE>>} ELSE {}
           s == Fresh(op, step, account, types, asked)
<1>2. task' = [task EXCEPT ![t] = s]
  BY <1>1
<1>3. step \in Step /\ (op = "grantIssuer" => step = "wallet")
  BY DEF Step
<1>4. /\ asked \in SUBSET (Account \X Item) /\ (op # "checkIssuer" => asked = {})
      /\ \A a \in Account : <<a, PROFILE>> \in asked => asked = {<<a, PROFILE>>}
  BY DEF Item
<1>5. Good(s) /\ Fits(s, issuerActive, issuerRoles, Minting)
  <2> HIDE DEF step, asked
  <2> QED
    BY <1>3, <1>4, Began
<1>6. OnlyTasks
  BY DEF Begin
<1> HIDE DEF s
<1> QED
  BY <1>2, <1>5, <1>6, Locally

LEMMA ConnectWalletKeeps ==
  ASSUME AdminInv, NEW t \in Task, ConnectWallet(t)
  PROVE  AdminInv'
<1> DEFINE step == CASE task[t].op \in IssuerOp    -> "admin"
                     [] task[t].op = "grantMinter" -> "send"
                     [] OTHER                      -> "ask"
<1>1. PICK signer \in Account :
        task' = [task EXCEPT ![t].signer = signer, ![t].step = step]
  BY DEF ConnectWallet
<1>2. step \in Step /\ (task[t].op = "grantIssuer" => step = "admin")
  BY DEF Step, IssuerOp
<1> HIDE DEF step
<1>3. task' = [task EXCEPT ![t] =
        [task[t] EXCEPT !.signer = signer, !.listed = task[t].listed, !.step = step]]
  BY <1>1, TaskTypes DEF AdminInv, TaskState
<1>4. UnderWay(task[t]) /\ OnlyTasks /\ task[t].step = "wallet"
  BY DEF ConnectWallet, UnderWay
<1>5. task[t].op = "grantIssuer" => task[t].mined = task[t].listed /\ task[t].listed < Len(task[t].types)
  BY <1>4, TaskTypes DEF Looping
<1>6. task[t].op = "grantIssuer" =>
           /\ step \notin {"idle", "ask", "again"}
           /\ step \in {"wallet", "admin", "send"}
                => task[t].mined = task[t].listed /\ task[t].listed < Len(task[t].types)
           /\ step = "receipt" => task[t].mined = task[t].listed + 1
           /\ step = "done" => task[t].mined = task[t].listed /\ task[t].listed = Len(task[t].types)
           /\ task[t].listed <= task[t].mined /\ task[t].mined <= task[t].listed + 1
  BY <1>2, <1>5, TaskTypes
<1> QED
  BY <1>2, <1>3, <1>4, <1>6, TaskTypes, StepKeeps

(* A task whose step alone changes. *)
LEMMA GoesKeeps ==
  ASSUME AdminInv, NEW t \in Task, UnderWay(task[t]), OnlyTasks, NEW step \in {"send", "failed"},
         step = "send" /\ task[t].op = "grantIssuer" => task[t].step = "admin", Goes(t, step)
  PROVE  AdminInv'
<1>1. task' = [task EXCEPT ![t] =
        [task[t] EXCEPT !.signer = task[t].signer, !.listed = task[t].listed, !.step = step]]
  BY TaskTypes DEF Goes, AdminInv, TaskState
<1>2. task[t].op = "grantIssuer" =>
        /\ step = "send" => task[t].mined = task[t].listed /\ task[t].listed < Len(task[t].types)
        /\ task[t].listed <= task[t].mined /\ task[t].mined <= task[t].listed + 1
  BY TaskTypes DEF Looping
<1>3. step \in Step
  BY DEF Step
<1> QED
  BY <1>1, <1>2, <1>3, TaskTypes, StepKeeps

LEMMA AssertKeeps ==
  ASSUME AdminInv, NEW t \in Task, AssertIssuerRegistryAdmin(t)
  PROVE  AdminInv'
<1>1. UnderWay(task[t]) /\ OnlyTasks /\ task[t].step = "admin"
  BY DEF AssertIssuerRegistryAdmin, At, UnderWay
<1>2. CASE Goes(t, "send")
  BY <1>1, <1>2, GoesKeeps
<1>3. CASE Goes(t, "failed")
  BY <1>1, <1>3, GoesKeeps
<1> QED
  BY <1>2, <1>3 DEF AssertIssuerRegistryAdmin

LEMMA FailKeeps ==
  ASSUME AdminInv, NEW t \in Task, Fail(t)
  PROVE  AdminInv'
BY GoesKeeps DEF Fail

LEMMA ReceiptKeeps ==
  ASSUME AdminInv, NEW t \in Task, Receipt(t)
  PROVE  AdminInv'
<1> DEFINE listed == task[t].listed + 1
<1>1. PICK step \in {"send", "again", "done"} :
         /\ step = "send" <=> task[t].op = "grantIssuer" /\ listed < Len(task[t].types)
         /\ step = "again" => task[t].op = "revokeMinter"
         /\ task' = [task EXCEPT ![t].listed = listed, ![t].step = step]
  BY DEF Receipt
<1>2. UnderWay(task[t]) /\ OnlyTasks /\ task[t].step = "receipt"
  BY DEF Receipt, UnderWay
<1>3. listed \in Nat /\ step \in Step
  BY TaskTypes DEF Step
<1>4. task[t].op = "grantIssuer" =>
        /\ task[t].mined = listed /\ step # "again" /\ listed <= Len(task[t].types)
        /\ step = "send" => listed < Len(task[t].types)
        /\ step = "done" => listed = Len(task[t].types)
  BY <1>1, <1>2, TaskTypes DEF Looping
<1>5. task' = [task EXCEPT ![t] =
        [task[t] EXCEPT !.signer = task[t].signer, !.listed = listed, !.step = step]]
  BY <1>1, TaskTypes DEF AdminInv, TaskState
<1> HIDE DEF listed
<1>6. task[t].op = "grantIssuer" =>
           /\ step \notin {"idle", "ask", "again"}
           /\ step \in {"wallet", "admin", "send"}
                => task[t].mined = listed /\ listed < Len(task[t].types)
           /\ step = "receipt" => task[t].mined = listed + 1
           /\ step = "done" => task[t].mined = listed /\ listed = Len(task[t].types)
           /\ listed <= task[t].mined /\ task[t].mined <= listed + 1
  BY <1>1, <1>3, <1>4, TaskTypes
<1> QED
  BY <1>2, <1>3, <1>5, <1>6, TaskTypes, StepKeeps

LEMMA AskRoleKeeps ==
  ASSUME AdminInv, NEW t \in Task, AskRole(t)
  PROVE  AdminInv'
<1> DEFINE r == task[t]
           has == CASE r.op = "checkAdmin" -> HasRole(issuerRoles, ADMIN, r.account)
                    [] OTHER               -> HasRole(nftRoles, MINTER, r.account)
<1>1. UnderWay(r) /\ OnlyTasks /\ r.op # "grantIssuer"
  BY TaskTypes DEF AskRole, At, UnderWay, Looping
<1>a. has \in BOOLEAN
  <2>1. CASE r.op = "checkAdmin"
    BY <2>1 DEF HasRole
  <2>2. CASE r.op # "checkAdmin"
    BY <2>2 DEF HasRole
  <2> QED
    BY <2>1, <2>2
<1>b. r.op = "revokeMinter" /\ has => HasRole(nftRoles, MINTER, r.account)
  OBVIOUS
<1>2. \/ Goes(t, "send") \/ Goes(t, "failed")
      \/ task' = [task EXCEPT ![t] = [r EXCEPT !.answer = has, !.step = "done"]]
  BY TaskTypes DEF AskRole, AdminInv, TaskState
<1> HIDE DEF has
<1>3. CASE Goes(t, "send")
  BY <1>1, <1>3, GoesKeeps
<1>4. CASE Goes(t, "failed")
  BY <1>1, <1>4, GoesKeeps
<1>5. CASE task' = [task EXCEPT ![t] = [r EXCEPT !.answer = has, !.step = "done"]]
  <2> DEFINE s == [r EXCEPT !.answer = has, !.step = "done"]
  <2>1. Good(r) /\ Fits(r, issuerActive, issuerRoles, Minting)
    BY TaskTypes
  <2>2. nftRoles \in Minting
    BY DEF Minting
  <2>3. Good(s) /\ Fits(s, issuerActive, issuerRoles, Minting)
    <3> HIDE DEF r
    <3> QED
      BY <1>1, <1>a, <1>b, <2>1, <2>2, AnsweredGood
  <2>4. task' = [task EXCEPT ![t] = s]
    BY <1>5
  <2> HIDE DEF s
  <2> QED
    BY <1>1, <2>3, <2>4, Locally
<1> QED
  BY <1>2, <1>3, <1>4, <1>5

LEMMA AskIssuerKeeps ==
  ASSUME AdminInv, NEW t \in Task, AskIssuer(t)
  PROVE  AdminInv'
<1> DEFINE r == task[t]
           types == {r.types[i] : i \in DOMAIN r.types}
           Yes(q) == IF q[2] = PROFILE THEN issuerActive[q[1]] ELSE IsAuthorizedIssuer(q[2], q[1])
           Open(q) == (r.asked \ {q}) \cup (IF q[2] = PROFILE THEN {q[1]} \X types ELSE {})
           Shown(q) == r.shown \cup {<<q[1], q[2], Yes(q)>>}
           Then(q) == IF Open(q) = {} THEN "done" ELSE "ask"
<1>1. PICK question \in r.asked :
        task' = [task EXCEPT ![t].asked = Open(question), ![t].shown = Shown(question),
                             ![t].step = Then(question)]
  BY TaskTypes DEF AskIssuer, AdminInv, TaskState
<1> DEFINE yes == Yes(question)
           open == Open(question)
           shown == Shown(question)
           step == Then(question)
           s == [r EXCEPT !.asked = open, !.shown = shown, !.step = step]
<1>2. /\ r \in TaskState /\ Good(r) /\ Fits(r, issuerActive, issuerRoles, Minting)
      /\ r.step = "ask" /\ OnlyTasks /\ question \in Account \X Item
      /\ r.types \in Seq(IssuerCredentialType)
      /\ r.asked \subseteq Account \X Item /\ r.shown \subseteq Account \X Item \X BOOLEAN
  BY TaskTypes DEF AskIssuer, At
<1>3. types \subseteq IssuerCredentialType /\ step \in Step
  BY <1>2 DEF Step
<1>4. yes \in BOOLEAN /\ (yes => issuerActive[question[1]])
      /\ (question[2] = PROFILE => (yes <=> issuerActive[question[1]]))
  <2>1. issuerActive \in [Account -> BOOLEAN]
    BY DEF AdminInv, IssuerTypeOK
  <2> QED
    BY <1>2, <2>1 DEF IsAuthorizedIssuer, HasRole
<1> HIDE DEF types
<1>5. \A q \in open :
        \/ q \in r.asked /\ q # question
        \/ question[2] = PROFILE /\ q \in {question[1]} \X IssuerCredentialType
  BY <1>3
<1>6. open \in SUBSET (Account \X Item)
  BY <1>2, <1>3 DEF Item
<1>7. shown \in SUBSET (Account \X Item \X BOOLEAN)
  BY <1>2, <1>4
<1>8. task' = [task EXCEPT ![t] = s]
  BY <1>1, TaskTypes DEF AdminInv, TaskState
<1>9. shown = r.shown \cup {<<question[1], question[2], yes>>} /\ question \in r.asked
  OBVIOUS
<1> HIDE DEF yes, open, shown, step, Yes, Open, Shown, Then, r
<1>10. /\ s \in TaskState /\ s.asked = open /\ s.shown = shown
       /\ s.op = r.op /\ s.types = r.types /\ s.account = r.account /\ s.mined = r.mined
       /\ s.overridden = r.overridden /\ s.registered = r.registered /\ s.answer = r.answer
  BY <1>2, <1>3, <1>6, <1>7 DEF TaskState
<1> HIDE DEF s
<1>11. question[1] \in Account /\ question[2] \in Item /\ question = <<question[1], question[2]>>
  BY <1>2
<1>12. RowStep(r, question[1], question[2], yes, s)
  BY <1>5, <1>9, <1>10, <1>11 DEF RowStep
<1>13. Good(s) /\ Fits(s, issuerActive, issuerRoles, Minting)
  BY <1>2, <1>4, <1>10, <1>11, <1>12, RowGood
<1> QED
  BY <1>2, <1>8, <1>13, Locally

------------------------------------------------------------------------------
(* Steps that change the contracts.                                          *)

Changes(x) ==
  Change(x, issuerActive, issuerRoles, Minting, issuerActive', issuerRoles', Minting')

(* A transaction to the registry of issuers. *)
LEMMA IssuerChange ==
  ASSUME IssuerTypeOK, UNCHANGED nftVars, NEW caller \in Account, NEW account \in Account
  PROVE  /\ RegisterIssuer(caller, account) =>
              IssuerTypeOK' /\ Changes(Effect("active", account, TRUE))
         /\ RevokeIssuer(caller, account) =>
              IssuerTypeOK' /\ Changes(Effect("active", account, FALSE))
         /\ \A role \in IssuerRole :
              /\ GrantIssuerRole(caller, role, account) =>
                   IssuerTypeOK' /\ Changes(Effect(role, account, TRUE))
              /\ RevokeIssuerRole(caller, role, account) =>
                   IssuerTypeOK' /\ Changes(Effect(role, account, FALSE))
<1>1. /\ issuerActive \in [Account -> BOOLEAN] /\ issuerRoles \subseteq IssuerRole \X Account
      /\ "active" \notin IssuerRole
  BY Roles DEF IssuerTypeOK
<1>2. Minting' = Minting
  BY DEF nftVars, Minting
<1>3. ASSUME NEW x, ActiveSet(x, issuerActive, issuerActive'),
             \A role \in IssuerRole : RoleSet(x, role, issuerRoles, issuerRoles')
      PROVE  Changes(x)
  BY <1>2, <1>3 DEF Changes, Change
<1>4. ASSUME NEW holds \in BOOLEAN, issuerActive' = [issuerActive EXCEPT ![account] = holds],
             UNCHANGED issuerRoles
      PROVE  IssuerTypeOK' /\ Changes(Effect("active", account, holds))
  <2> DEFINE x == Effect("active", account, holds)
  <2>1. x[1] = "active" /\ x[2] = account /\ x[3] = holds
    BY DEF Effect
  <2> HIDE DEF x
  <2>2. ActiveSet(x, issuerActive, issuerActive')
    BY <1>1, <1>4, <2>1 DEF ActiveSet
  <2>3. \A role \in IssuerRole : RoleSet(x, role, issuerRoles, issuerRoles')
    BY <1>1, <1>4, <2>1 DEF RoleSet
  <2>4. IssuerTypeOK'
    BY <1>1, <1>4 DEF IssuerTypeOK
  <2> QED
    BY <1>3, <2>2, <2>3, <2>4 DEF x
<1>5. ASSUME NEW role \in IssuerRole, NEW holds \in BOOLEAN, UNCHANGED issuerActive,
             issuerRoles' = IF holds THEN issuerRoles \cup {<<role, account>>}
                            ELSE issuerRoles \ {<<role, account>>}
      PROVE  IssuerTypeOK' /\ Changes(Effect(role, account, holds))
  <2> DEFINE x == Effect(role, account, holds)
  <2>1. x[1] = role /\ x[2] = account /\ x[3] = holds
    BY DEF Effect
  <2> HIDE DEF x
  <2>2. ActiveSet(x, issuerActive, issuerActive')
    BY <1>1, <1>5, <2>1 DEF ActiveSet
  <2>3. \A other \in IssuerRole : RoleSet(x, other, issuerRoles, issuerRoles')
    BY <1>5, <2>1 DEF RoleSet
  <2>4. IssuerTypeOK'
    BY <1>1, <1>5 DEF IssuerTypeOK
  <2> QED
    BY <1>3, <2>2, <2>3, <2>4 DEF x
<1>6. RegisterIssuer(caller, account) =>
              IssuerTypeOK' /\ Changes(Effect("active", account, TRUE))
  BY <1>4 DEF RegisterIssuer
<1>7. RevokeIssuer(caller, account) =>
              IssuerTypeOK' /\ Changes(Effect("active", account, FALSE))
  BY <1>4 DEF RevokeIssuer
<1>8. ASSUME NEW role \in IssuerRole
      PROVE  /\ GrantIssuerRole(caller, role, account) =>
                   IssuerTypeOK' /\ Changes(Effect(role, account, TRUE))
             /\ RevokeIssuerRole(caller, role, account) =>
                   IssuerTypeOK' /\ Changes(Effect(role, account, FALSE))
  BY <1>5 DEF GrantIssuerRole, RevokeIssuerRole, GrantsRole, RevokesRole
<1> QED
  BY <1>6, <1>7, <1>8

(* A transaction to the contract of robots. *)
LEMMA NftChange ==
  ASSUME IssuerTypeOK, UNCHANGED issuerVars, UNCHANGED calls,
         NEW role \in NftRole, NEW account \in Account, NEW holds \in BOOLEAN,
         nftRoles' = IF holds THEN nftRoles \cup {<<role, account>>}
                     ELSE nftRoles \ {<<role, account>>}
  PROVE  /\ IssuerTypeOK' /\ Changes(NftEffect(role, account, holds))
         /\ Settled => \A after \in Minting' : \E members \in Minting :
                         RoleSet(NftEffect(role, account, holds), MINTER, members, after)
<1> DEFINE x == NftEffect(role, account, holds)
<1>1. /\ x[2] = account /\ x[3] = holds /\ x[1] \in {"NFT_ADMIN", MINTER}
      /\ x[1] = MINTER <=> role = MINTER
  BY DEF NftEffect, Effect, NftRole, MINTER, ADMIN
<1>2. x[1] # "active" /\ x[1] \notin IssuerRole
  BY <1>1, Roles DEF MINTER
<1> HIDE DEF x
<1>3. ActiveSet(x, issuerActive, issuerActive')
  BY <1>2 DEF issuerVars, ActiveSet
<1>4. \A other \in IssuerRole : RoleSet(x, other, issuerRoles, issuerRoles')
  BY <1>2 DEF issuerVars, RoleSet
<1>5. RoleSet(x, MINTER, nftRoles, nftRoles')
  BY <1>1 DEF RoleSet
<1>6. Minting' = {nftRoles'} \cup {calls[i].saved.nftRoles : i \in 1 .. Len(calls)}
  BY DEF Minting
<1>7. \A after \in Minting' : after \in Minting \/ \E members \in Minting : RoleSet(x, MINTER, members, after)
  <2> SUFFICES ASSUME NEW after \in Minting'
               PROVE  after \in Minting \/ \E members \in Minting : RoleSet(x, MINTER, members, after)
    OBVIOUS
  <2>1. CASE after = nftRoles'
    <3>1. nftRoles \in Minting
      BY DEF Minting
    <3> QED
      BY <1>5, <2>1, <3>1
  <2>2. CASE after # nftRoles'
    BY <1>6, <2>2 DEF Minting
  <2> QED
    BY <2>1, <2>2
<1>8. ASSUME Settled, NEW after \in Minting'
      PROVE  \E members \in Minting : RoleSet(x, MINTER, members, after)
  <2>1. after = nftRoles'
    BY <1>6, <1>8 DEF Settled
  <2> QED
    BY <1>5, <2>1 DEF Minting
<1>9. IssuerTypeOK'
  BY DEF IssuerTypeOK, issuerVars
<1> QED
  BY <1>3, <1>4, <1>7, <1>8, <1>9 DEF x, Changes, Change

LEMMA NftUnchanged == NftInv /\ UNCHANGED nftVars => NftInv'
BY DEF NftInv, NftTypeOK, Saved, nftVars

LEMMA AllSee ==
  ASSUME AdminInv, NEW x \in What \X Account \X BOOLEAN, Changes(x), IssuerTypeOK', NftInv',
         ElsewhereSets(x)
  PROVE  AdminInv'
<1>1. elsewhere' \in 0 .. MaxElsewhere /\ task' = [t \in Task |-> Sees(task[t], x)]
  BY SelectionAssumption DEF AdminInv, ElsewhereSets
<1>2. Change(x, issuerActive, issuerRoles, Minting, issuerActive', issuerRoles', Minting')
  BY DEF Changes
<1>3. ASSUME NEW t \in Task
      PROVE  /\ Good(Sees(task[t], x))
             /\ Fits(Sees(task[t], x), issuerActive', issuerRoles', Minting')
  <2>1. Good(task[t]) /\ Fits(task[t], issuerActive, issuerRoles, Minting)
    BY DEF AdminInv
  <2> QED
    BY <1>2, <2>1, SeesGood, SeesFits
<1>4. ASSUME NEW t \in Task
      PROVE  Good(task'[t]) /\ Fits(task'[t], issuerActive', issuerRoles', Minting')
  BY <1>1, <1>3
<1>5. task' \in [Task -> TaskState]
  BY <1>1, <1>3 DEF Good
<1> QED
  BY <1>1, <1>4, <1>5 DEF AdminInv

LEMMA TakenKeeps ==
  ASSUME AdminInv, TakenFromIssuer
  PROVE  AdminInv'
<1>1. PICK caller \in Account, account \in Account, role \in IssuerRole :
         /\ RevokeIssuerRole(caller, role, account)
         /\ ElsewhereSets(Effect(role, account, FALSE))
         /\ UNCHANGED nftVars
  BY DEF TakenFromIssuer
<1>2. IssuerTypeOK' /\ Changes(Effect(role, account, FALSE))
  BY <1>1, IssuerChange DEF AdminInv
<1>3. Effect(role, account, FALSE) \in What \X Account \X BOOLEAN
  BY DEF Effect, What
<1>4. NftInv'
  BY <1>1, NftUnchanged DEF AdminInv
<1> QED
  BY <1>1, <1>2, <1>3, <1>4, AllSee

LEMMA NftRoleKeeps ==
  ASSUME AdminInv, NftRoleChanged
  PROVE  AdminInv'
<1>1. PICK caller \in Account, account \in Account, role \in NftRole :
         /\ \/ /\ GrantNftRole(caller, role, account)
               /\ ElsewhereSets(NftEffect(role, account, TRUE))
            \/ /\ RevokeNftRole(caller, role, account)
               /\ ElsewhereSets(NftEffect(role, account, FALSE))
         /\ UNCHANGED issuerVars
  BY DEF NftRoleChanged
<1>2. NftInv' /\ UNCHANGED calls
  <2>1. NftNext
    BY <1>1 DEF NftNext
  <2> QED
    BY <1>1, <2>1, NftStep DEF AdminInv, GrantNftRole, RevokeNftRole
<1>3. ASSUME NEW holds \in BOOLEAN,
             nftRoles' = IF holds THEN nftRoles \cup {<<role, account>>}
                         ELSE nftRoles \ {<<role, account>>},
             ElsewhereSets(NftEffect(role, account, holds))
      PROVE  AdminInv'
  <2>1. IssuerTypeOK' /\ Changes(NftEffect(role, account, holds))
    BY <1>1, <1>2, <1>3, NftChange DEF AdminInv
  <2>2. NftEffect(role, account, holds) \in What \X Account \X BOOLEAN
    BY DEF NftEffect, Effect, What, NftRole
  <2> QED
    BY <1>2, <1>3, <2>1, <2>2, AllSee
<1>4. CASE GrantNftRole(caller, role, account) /\ ElsewhereSets(NftEffect(role, account, TRUE))
  <2>1. nftRoles' = nftRoles \cup {<<role, account>>}
    BY <1>4 DEF GrantNftRole, GrantsRole
  <2> QED
    BY <1>3, <1>4, <2>1
<1>5. CASE RevokeNftRole(caller, role, account) /\ ElsewhereSets(NftEffect(role, account, FALSE))
  <2>1. nftRoles' = nftRoles \ {<<role, account>>}
    BY <1>5 DEF RevokeNftRole, RevokesRole
  <2> QED
    BY <1>3, <1>5, <2>1
<1> QED
  BY <1>1, <1>4, <1>5

LEMMA MineKeeps ==
  ASSUME AdminInv, NEW t \in Task, Mine(t)
  PROVE  AdminInv'
<1> DEFINE r == task[t]
           n == r.mined + 1
           x == OwnEffect(r)
<1>1. /\ Settled /\ r.step = "send" /\ elsewhere' = elsewhere
      /\ r \in TaskState /\ Good(r) /\ Looping(r) /\ Fits(r, issuerActive, issuerRoles, Minting)
      /\ r.signer \in Account /\ r.account \in Account /\ r.mined \in Nat
      /\ r.types \in Seq(IssuerCredentialType)
      /\ IssuerTypeOK /\ NftInv
      /\ task' = [u \in Task |->
           IF u = t THEN Sent(task[t]) ELSE Sees(task[u], x)]
  BY TaskTypes DEF Mine, Mined, At, AdminInv
<1>2. /\ r.op \in Sending /\ IssuerTypeOK' /\ NftInv' /\ Changes(x)
      /\ x[1] = MINTER => \A after \in Minting' : \E members \in Minting : RoleSet(x, MINTER, members, after)
  <2>1. CASE r.op = "grantIssuer" /\ UNCHANGED nftVars
             /\ GrantIssuerRole(r.signer, RoleForCredentialType[r.types[n]], r.account)
    <3>1. n \in 1 .. Len(r.types)
      BY <1>1, <2>1 DEF Looping
    <3>2. r.types[n] \in IssuerCredentialType
      BY <1>1, <3>1
    <3>3. RoleForCredentialType[r.types[n]] \in IssuerRole
      BY <3>2, Roles
    <3>4. x = Effect(RoleForCredentialType[r.types[n]], r.account, TRUE)
      BY <2>1 DEF OwnEffect, TxEffect
    <3>5. x[1] \in IssuerRole
      BY <3>3, <3>4 DEF Effect
    <3> HIDE DEF x, n, r
    <3> QED
      BY <1>1, <2>1, <3>3, <3>4, <3>5, IssuerChange, NftUnchanged, Roles DEF Sending, MINTER
  <2>2. CASE r.op = "registerIssuer" /\ UNCHANGED nftVars /\ RegisterIssuer(r.signer, r.account)
    <3>1. x = Effect("active", r.account, TRUE) /\ x[1] # MINTER
      BY <2>2 DEF OwnEffect, TxEffect, Effect, MINTER
    <3> HIDE DEF x, n, r
    <3> QED
      BY <1>1, <2>2, <3>1, IssuerChange, NftUnchanged DEF Sending
  <2>3. CASE r.op = "revokeIssuer" /\ UNCHANGED nftVars /\ RevokeIssuer(r.signer, r.account)
    <3>1. x = Effect("active", r.account, FALSE) /\ x[1] # MINTER
      BY <2>3 DEF OwnEffect, TxEffect, Effect, MINTER
    <3> HIDE DEF x, n, r
    <3> QED
      BY <1>1, <2>3, <3>1, IssuerChange, NftUnchanged DEF Sending
  <2>4. CASE r.op = "grantAdmin" /\ UNCHANGED nftVars /\ GrantIssuerRole(r.signer, ADMIN, r.account)
    <3>1. x = Effect(ADMIN, r.account, TRUE) /\ x[1] # MINTER /\ ADMIN \in IssuerRole
      BY <2>4 DEF OwnEffect, TxEffect, Effect, MINTER, ADMIN, IssuerRole
    <3> HIDE DEF x, n, r
    <3> QED
      BY <1>1, <2>4, <3>1, IssuerChange, NftUnchanged DEF Sending
  <2>5. ASSUME NEW holds \in BOOLEAN, x = Effect(MINTER, r.account, holds), UNCHANGED issuerVars,
               GrantNftRole(r.signer, MINTER, r.account) \/ RevokeNftRole(r.signer, MINTER, r.account),
               nftRoles' = IF holds THEN nftRoles \cup {<<MINTER, r.account>>}
                           ELSE nftRoles \ {<<MINTER, r.account>>}
        PROVE  /\ IssuerTypeOK' /\ NftInv' /\ Changes(x)
               /\ \A after \in Minting' : \E members \in Minting : RoleSet(x, MINTER, members, after)
    <3>1. MINTER \in NftRole /\ x = NftEffect(MINTER, r.account, holds)
      BY <2>5 DEF NftRole, NftEffect, MINTER, ADMIN
    <3>2. NftNext /\ UNCHANGED calls
      BY <1>1, <2>5, <3>1 DEF NftNext, GrantNftRole, RevokeNftRole
    <3> HIDE DEF x, n, r
    <3>3. NftInv'
      BY <1>1, <3>2, NftStep
    <3> QED
      BY <1>1, <2>5, <3>1, <3>2, <3>3, NftChange
  <2>6. CASE r.op = "grantMinter" /\ UNCHANGED issuerVars /\ GrantNftRole(r.signer, MINTER, r.account)
    <3>1. x = Effect(MINTER, r.account, TRUE) /\ nftRoles' = nftRoles \cup {<<MINTER, r.account>>}
      BY <2>6 DEF OwnEffect, TxEffect, GrantNftRole, GrantsRole
    <3> HIDE DEF x, n
    <3> QED
      BY <2>5, <2>6, <3>1 DEF Sending
  <2>7. CASE r.op = "revokeMinter" /\ UNCHANGED issuerVars /\ RevokeNftRole(r.signer, MINTER, r.account)
    <3>1. x = Effect(MINTER, r.account, FALSE) /\ nftRoles' = nftRoles \ {<<MINTER, r.account>>}
      BY <2>7 DEF OwnEffect, TxEffect, RevokeNftRole, RevokesRole
    <3> HIDE DEF x, n
    <3> QED
      BY <2>5, <2>7, <3>1 DEF Sending
  <2> QED
    BY <2>1, <2>2, <2>3, <2>4, <2>6, <2>7 DEF Mine
<1>3. x \in Settable
  BY <1>1, <1>2, MinedGood
<1>4. x \in What \X Account \X BOOLEAN
  BY <1>3 DEF Settable, What
<1>5. Change(x, issuerActive, issuerRoles, Minting, issuerActive', issuerRoles', Minting')
  BY <1>2 DEF Changes
<1>6. Good(Sent(r)) /\ Fits(Sent(r), issuerActive', issuerRoles', Minting')
  <2>1. /\ Good(Sent(r)) /\ Sent(r).shown = r.shown
        /\ \A e \in Standing(Sent(r)) : e \in Standing(r) \/ e = x
        /\ \A e \in Standing(Sent(r)) \cap Effects(r) : e # Effect(x[1], x[2], ~ x[3])
    BY <1>1, <1>2, MinedGood
  <2> HIDE DEF x, r
  <2>2. Fits(Sent(r), issuerActive', issuerRoles', Minting')
    BY <1>1, <1>2, <1>3, <1>5, <2>1, MinedFits
  <2> QED
    BY <2>1, <2>2
<1> HIDE DEF x
<1>7. ASSUME NEW u \in Task
      PROVE  Good(task'[u]) /\ Fits(task'[u], issuerActive', issuerRoles', Minting')
  <2>1. CASE u = t
    BY <1>1, <1>6, <2>1
  <2>2. CASE u # t
    <3>1. Good(task[u]) /\ Fits(task[u], issuerActive, issuerRoles, Minting)
      BY DEF AdminInv
    <3>2. task'[u] = Sees(task[u], x)
      BY <1>1, <2>2
    <3> QED
      BY <1>4, <1>5, <3>1, <3>2, SeesGood, SeesFits
  <2> QED
    BY <2>1, <2>2
<1>8. task' \in [Task -> TaskState]
  BY <1>1, <1>7 DEF Good
<1>9. elsewhere' \in 0 .. MaxElsewhere
  BY <1>1 DEF AdminInv
<1> QED
  BY <1>2, <1>7, <1>8, <1>9 DEF AdminInv

LEMMA FewerMinting ==
  ASSUME NEW A, NEW I, NEW N, NEW N2 \in SUBSET N, NEW r, Fits(r, A, I, N)
  PROVE  Fits(r, A, I, N2)
BY DEF Fits, Agrees

LEMMA RobotsKeep ==
  ASSUME AdminInv, RobotsMove
  PROVE  AdminInv'
<1>1. UNCHANGED <<issuerVars, task, elsewhere>> /\ NftInv /\ NftTypeOK
  BY DEF RobotsMove, AdminInv, NftInv
<1>2. NftInv'
  <2>1. NftNext
    BY DEF RobotsMove, NftNext
  <2> QED
    BY <1>1, <2>1, NftStep
<1>3. Minting' \subseteq Minting
  <2>1. CASE \E caller, to \in Account, uri \in URI : MintRobot(caller, to, uri)
    <3>1. PICK caller \in Account, to \in Account, uri \in URI : MintRobot(caller, to, uri)
      BY <2>1
    <3> DEFINE call == [token |-> nextTokenId, to |-> to, caller |-> caller, uri |-> uri,
                        saved |-> Saved]
               n == Len(calls)
    <3>2. calls \in Seq(Call) /\ calls' = Append(calls, call) /\ nftRoles' = nftRoles
      BY <1>1, <3>1 DEF MintRobot, NftTypeOK, Call
    <3>3. call.saved.nftRoles = nftRoles
      BY DEF Saved
    <3> HIDE DEF call
    <3>4. /\ Len(calls') = n + 1 /\ calls'[n + 1] = call /\ n \in Nat
          /\ \A i \in 1 .. n : calls'[i] = calls[i]
      BY <3>2
    <3> HIDE DEF n
    <3>5. ASSUME NEW i \in 1 .. n + 1 PROVE calls'[i].saved.nftRoles \in Minting
      <4>1. CASE i = n + 1
        BY <3>3, <3>4, <4>1 DEF Minting
      <4>2. CASE i \in 1 .. n
        BY <3>4, <4>2 DEF Minting, n
      <4> QED
        BY <3>4, <4>1, <4>2
    <3> QED
      BY <3>2, <3>4, <3>5 DEF Minting
  <2>2. CASE FinishMint \/ RevertMint
    <3>1. ~ Settled /\ Return
      BY <2>2 DEF FinishMint, RevertMint
    <3>2. /\ Len(calls') = Len(calls) - 1 /\ Len(calls) \in Nat \ {0} /\ Top = calls[Len(calls)]
          /\ \A i \in 1 .. Len(calls') : calls'[i] = calls[i]
      BY <1>1, <3>1, Returning
    <3>3. \A i \in 1 .. Len(calls') : calls'[i].saved.nftRoles \in Minting
      BY <3>2 DEF Minting
    <3>4. nftRoles' \in Minting
      BY <2>2, <3>2 DEF FinishMint, RevertMint, Minting
    <3> QED
      BY <3>3, <3>4 DEF Minting
  <2>3. CASE \E token \in Token, to \in Account : TransferToken(token, to)
    BY <2>3 DEF TransferToken, Minting
  <2> QED
    BY <2>1, <2>2, <2>3 DEF RobotsMove
<1>4. ASSUME NEW t \in Task
      PROVE  Good(task[t]) /\ Fits(task[t], issuerActive, issuerRoles, Minting')
  BY <1>3, FewerMinting DEF AdminInv
<1> QED
  BY <1>1, <1>2, <1>4 DEF AdminInv, IssuerTypeOK, issuerVars

LEMMA AdminStep == AdminInv /\ [Next]_vars => AdminInv'
<1> SUFFICES ASSUME AdminInv, [Next]_vars PROVE AdminInv'
  OBVIOUS
<1>1. CASE UNCHANGED vars
  <2>1. NftInv' /\ Minting' = Minting
    BY <1>1, NftUnchanged DEF AdminInv, Minting, nftVars, vars
  <2> QED
    BY <1>1, <2>1 DEF AdminInv, vars, IssuerTypeOK, issuerVars
<1>2. ASSUME NEW t \in Task,
             \/ Begin(t) \/ ConnectWallet(t) \/ AssertIssuerRegistryAdmin(t)
             \/ AskRole(t) \/ AskIssuer(t)
             \/ Mine(t) \/ Receipt(t) \/ Fail(t)
      PROVE  AdminInv'
  BY <1>2, BeginKeeps, ConnectWalletKeeps, AssertKeeps, AskRoleKeeps, AskIssuerKeeps,
     MineKeeps, ReceiptKeeps, FailKeeps
<1> QED
  BY <1>1, <1>2, TakenKeeps, NftRoleKeeps, RobotsKeep DEF Next

------------------------------------------------------------------------------
LEMMA AdminFacts == AdminInv => TypeOK /\ ReportsStand /\ GrantLoop /\ RowsAgree
<1> SUFFICES ASSUME AdminInv PROVE TypeOK /\ ReportsStand /\ GrantLoop /\ RowsAgree
  OBVIOUS
<1>1. TypeOK
  BY DEF AdminInv, NftInv, TypeOK
<1>2. GrantLoop
  <2> SUFFICES ASSUME NEW t \in Task, task[t].op = "grantIssuer"
               PROVE  /\ task[t].step = "done" => task[t].listed = Len(task[t].types)
                      /\ task[t].listed <= task[t].mined /\ task[t].mined <= Len(task[t].types)
                      /\ task[t].mined - task[t].listed \in {0, 1}
    BY DEF GrantLoop
  <2> QED
    BY TaskTypes DEF Looping
<1>3. RowsAgree
  <2> SUFFICES ASSUME NEW t \in Task, NEW account \in Account, NEW type \in IssuerCredentialType,
                      {<<account, PROFILE, FALSE>>, <<account, type, TRUE>>} \subseteq task[t].shown
               PROVE  account \in task[t].registered
    BY DEF RowsAgree
  <2> QED
    BY TaskTypes DEF Rows
<1>4. ASSUME NEW t \in Task, NEW e \in Standing(task[t])
      PROVE  Holds(e) /\ e \in Settable
  <2>1. e \in Settable /\ Agrees(e, issuerActive, issuerRoles, Minting)
    BY <1>4, TaskTypes, GoodEffects DEF Fits, Standing
  <2>2. nftRoles \in Minting
    BY DEF Minting
  <2> QED
    BY <2>1, <2>2 DEF Agrees, Holds, HasRole
<1>5. ASSUME NEW t \in Task, NEW u \in Task, NEW type \in IssuerCredentialType, NEW account \in Account,
             Effect("active", account, TRUE) \in Standing(task[t]),
             Effect(RoleForCredentialType[type], account, TRUE) \in Standing(task[u])
      PROVE  IsAuthorizedIssuer(type, account)
  <2> DEFINE active == Effect("active", account, TRUE)
             granted == Effect(RoleForCredentialType[type], account, TRUE)
  <2>1. Holds(active) /\ Holds(granted)
    BY <1>4, <1>5
  <2>2. RoleForCredentialType[type] \in IssuerRole
    BY Roles
  <2>3. issuerActive[account]
    BY <2>1 DEF Holds, Effect
  <2>4. HasRole(issuerRoles, RoleForCredentialType[type], account)
    BY <2>1, <2>2 DEF Holds, Effect
  <2> QED
    BY <2>3, <2>4 DEF IsAuthorizedIssuer
<1>6. ReportsStand
  BY <1>4, <1>5 DEF ReportsStand
<1> QED
  BY <1>1, <1>2, <1>3, <1>6

LEMMA RevokedMintsNot ==
  ASSUME AdminInv, [Next]_vars, NEW t \in Task, NEW account \in Account,
         Effect(MINTER, account, FALSE) \in Standing(task[t])
  PROVE  /\ Len(calls') > Len(calls) => calls'[Len(calls')].caller # account
         /\ task[t].step = "done" => ~ task[t].answer
<1>1. task[t].step = "done" => ~ task[t].answer
  BY TaskTypes DEF Answered
<1>2. ~ HasRole(nftRoles, MINTER, account)
  <2>1. Agrees(Effect(MINTER, account, FALSE), issuerActive, issuerRoles, Minting)
    BY TaskTypes DEF Fits
  <2>2. nftRoles \in Minting
    BY DEF Minting
  <2> QED
    BY <2>1, <2>2 DEF Agrees, Effect, HasRole
<1>3. calls \in Seq(Call)
  BY DEF AdminInv, NftInv, NftTypeOK, Call
<1>4. ASSUME Len(calls') > Len(calls)
      PROVE  \E caller, to \in Account, uri \in URI : MintRobot(caller, to, uri)
  <2>1. calls' # calls
    BY <1>3, <1>4
  <2>2. CASE Return /\ ~ Settled
    <3>1. NftTypeOK
      BY DEF AdminInv, NftInv
    <3> QED
      BY <1>4, <2>2, <3>1, Returning
  <2>3. CASE RobotsMove
    BY <2>1, <2>2, <2>3 DEF RobotsMove, FinishMint, RevertMint, TransferToken
  <2>4. CASE TakenFromIssuer \/ NftRoleChanged \/ UNCHANGED vars
    BY <2>1, <2>4 DEF TakenFromIssuer, NftRoleChanged, GrantNftRole, RevokeNftRole, nftVars, vars
  <2>5. ASSUME NEW u \in Task, Begin(u) \/ ConnectWallet(u) \/ AssertIssuerRegistryAdmin(u)
                 \/ AskRole(u) \/ AskIssuer(u) \/ Receipt(u) \/ Fail(u)
        PROVE  FALSE
    BY <2>1, <2>5 DEF Begin, ConnectWallet, AssertIssuerRegistryAdmin, AskRole, AskIssuer, Receipt,
       Fail, OnlyTasks, nftVars
  <2>6. ASSUME NEW u \in Task, Mine(u) PROVE FALSE
    BY <2>1, <2>6 DEF Mine, GrantNftRole, RevokeNftRole, nftVars
  <2> QED
    BY <2>3, <2>4, <2>5, <2>6 DEF Next
<1>5. ASSUME NEW caller \in Account, NEW to \in Account, NEW uri \in URI, MintRobot(caller, to, uri)
      PROVE  calls'[Len(calls')].caller # account
  <2> DEFINE call == [token |-> nextTokenId, to |-> to, caller |-> caller, uri |-> uri, saved |-> Saved]
  <2>1. calls' = Append(calls, call) /\ HasRole(nftRoles, MINTER, caller)
    BY <1>5 DEF MintRobot
  <2>2. call.caller = caller
    OBVIOUS
  <2> HIDE DEF call
  <2>3. calls'[Len(calls')] = call
    BY <1>3, <2>1
  <2> QED
    BY <1>2, <2>1, <2>2, <2>3
<1> QED
  BY <1>1, <1>4, <1>5

------------------------------------------------------------------------------
LEMMA AdminAlways == Spec => []AdminInv
BY AdminInitInv, AdminStep, PTL DEF Spec

(* Everything a task's record says of the registry of issuers and of the      *)
(* contract of robots is typed, and so are both.                             *)
THEOREM AdminTypes == Spec => []TypeOK
BY AdminAlways, AdminFacts, PTL

(* What a handler did on-chain lasts until somebody does the opposite to the  *)
(* same account, and registered and granted makes authorised.                *)
THEOREM ReportsAlwaysStand == Spec => []ReportsStand
BY AdminAlways, AdminFacts, PTL

(* A grant's report lists every type ticked; a failed one did a beginning of  *)
(* them.                                                                     *)
THEOREM GrantsLoopInOrder == Spec => []GrantLoop
BY AdminAlways, AdminFacts, PTL

(* A row that shows an inactive issuer with a type was overtaken by a         *)
(* registration.                                                             *)
THEOREM RowsAlwaysAgree == Spec => []RowsAgree
BY AdminAlways, AdminFacts, PTL

(* Each token has the metadata its own mint was asked for, through every      *)
(* nesting of mints in the receivers' callbacks.                             *)
THEOREM MintsAlwaysKeptApart == Spec => []MintsKeptApart
<1>1. AdminInv => MintsKeptApart
  BY NftKept DEF AdminInv
<1> QED
  BY <1>1, AdminAlways, PTL

(* A revoked minter mints nothing, and the report does not say it may.        *)
THEOREM MintersStayRevoked == Spec => MinterRevoked
<1>1. AdminInv /\ [Next]_vars =>
       [\A t \in Task, account \in Account :
          Effect(MINTER, account, FALSE) \in Standing(task[t]) =>
            /\ Len(calls') > Len(calls) => calls'[Len(calls')].caller # account
            /\ task[t].step = "done" => ~ task[t].answer]_vars
  BY RevokedMintsNot
<1> QED
  BY <1>1, AdminAlways, PTL DEF Spec, MinterRevoked
==============================================================================
