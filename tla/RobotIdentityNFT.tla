--------------------------- MODULE RobotIdentityNFT ---------------------------
(***************************************************************************)
(* contracts/RobotIdentityNFT.sol: robots as tokens, given out by minters.  *)
(* mintRobot counts the token, hands it over with _safeMint, which calls    *)
(* the receiver if that is a contract, and only then writes the token's     *)
(* metadata.  The receiver may do anything meanwhile that its roles allow,  *)
(* mint again included; if it refuses the token in the end, all that was    *)
(* done since the mint began is undone.                                     *)
(***************************************************************************)
EXTENDS AccessControl, Naturals, Sequences

CONSTANTS URI,         \* metadata of robots, other than none
          MaxTokens    \* bound: robots minted

VARIABLES
  nextTokenId,
  robotOwner,          \* ERC721: the owner of each token given out
  robotMetadataURIs,   \* NoURI until it is written
  nftRoles,            \* the roles of AccessControl
  calls,               \* the mints whose receiver has control, outermost first
  askedURI             \* auxiliary: the metadata each mint was asked for

nftVars == <<nextTokenId, robotOwner, robotMetadataURIs, nftRoles, calls, askedURI>>

Nobody == "nobody"
NoURI  == "empty"

ASSUME NftAssumption == MaxTokens \in Nat /\ NoURI \notin URI /\ Nobody \notin Account

MINTER == "MINTER_ROLE"
NftRole == {ADMIN, MINTER}

Token  == 1 .. MaxTokens
Minted == {token \in Token : token < nextTokenId}

NftInit ==
  /\ nextTokenId = 1
  /\ robotOwner = [token \in Token |-> Nobody]
  /\ robotMetadataURIs = [token \in Token |-> NoURI]
  /\ nftRoles = NftRole \X {Deployer}
  /\ calls = <<>>
  /\ askedURI = [token \in Token |-> NoURI]

------------------------------------------------------------------------------
(* Between transactions nothing is half done. *)
Settled == calls = <<>>

Saved == [nextTokenId |-> nextTokenId, robotOwner |-> robotOwner,
          robotMetadataURIs |-> robotMetadataURIs, nftRoles |-> nftRoles,
          askedURI |-> askedURI]

(* A slip: minters were checked when the page asked for it. *)
MintRobotByAnyone(caller, to, uri) ==
  /\ nextTokenId <= MaxTokens
  /\ nextTokenId' = nextTokenId + 1
  /\ robotOwner' = [robotOwner EXCEPT ![nextTokenId] = to]
  /\ askedURI' = [askedURI EXCEPT ![nextTokenId] = uri]
  /\ calls' = Append(calls, [token |-> nextTokenId, to |-> to, caller |-> caller, uri |-> uri,
                             saved |-> Saved])
  /\ UNCHANGED <<robotMetadataURIs, nftRoles>>

(* A transaction, or in a callback the receiver or whom it calls. *)
MintRobot(caller, to, uri) ==
  /\ HasRole(nftRoles, MINTER, caller)
  /\ nextTokenId <= MaxTokens
  /\ nextTokenId' = nextTokenId + 1
  /\ robotOwner' = [robotOwner EXCEPT ![nextTokenId] = to]
  /\ askedURI' = [askedURI EXCEPT ![nextTokenId] = uri]
  /\ calls' = Append(calls, [token |-> nextTokenId, to |-> to, caller |-> caller, uri |-> uri,
                             saved |-> Saved])
  /\ UNCHANGED <<robotMetadataURIs, nftRoles>>

Top == calls[Len(calls)]
Return == calls' = SubSeq(calls, 1, Len(calls) - 1)

(* A slip: the metadata goes to the token counted last. *)
FinishMintOfLatest ==
  /\ ~ Settled
  /\ robotMetadataURIs' = [robotMetadataURIs EXCEPT ![nextTokenId - 1] = Top.uri]
  /\ Return
  /\ UNCHANGED <<nextTokenId, robotOwner, nftRoles, askedURI>>

(* The receiver accepts. *)
FinishMint ==
  /\ ~ Settled
  /\ robotMetadataURIs' = [robotMetadataURIs EXCEPT ![Top.token] = Top.uri]
  /\ Return
  /\ UNCHANGED <<nextTokenId, robotOwner, nftRoles, askedURI>>

(* The receiver refuses. *)
RevertMint ==
  /\ ~ Settled
  /\ nextTokenId' = Top.saved.nextTokenId
  /\ robotOwner' = Top.saved.robotOwner
  /\ robotMetadataURIs' = Top.saved.robotMetadataURIs
  /\ nftRoles' = Top.saved.nftRoles
  /\ askedURI' = Top.saved.askedURI
  /\ Return

TransferToken(token, to) ==
  /\ token \in Minted
  /\ robotOwner' = [robotOwner EXCEPT ![token] = to]
  /\ UNCHANGED <<nextTokenId, robotMetadataURIs, nftRoles, calls, askedURI>>

GrantNftRole(caller, role, account) ==
  /\ GrantsRole(nftRoles, nftRoles', caller, role, account)
  /\ UNCHANGED <<nextTokenId, robotOwner, robotMetadataURIs, calls, askedURI>>

RevokeNftRole(caller, role, account) ==
  /\ RevokesRole(nftRoles, nftRoles', caller, role, account)
  /\ UNCHANGED <<nextTokenId, robotOwner, robotMetadataURIs, calls, askedURI>>

------------------------------------------------------------------------------
Owners   == [Token -> Account \cup {Nobody}]
Metadata == [Token -> URI \cup {NoURI}]

NftState == [nextTokenId : 1 .. MaxTokens + 1, robotOwner : Owners, robotMetadataURIs : Metadata,
             nftRoles : SUBSET (NftRole \X Account), askedURI : Metadata]

NftTypeOK ==
  /\ Saved \in NftState
  /\ calls \in Seq([token : Token, to : Account, caller : Account, uri : URI, saved : NftState])

UnderMint == {calls[i].token : i \in DOMAIN calls}

(* Tokens are numbered without gap and owned by somebody, and each has the    *)
(* metadata its own mint was asked for, unless that mint is still under way:  *)
(* also when receivers mint, transfer or refuse inside the callback           *)
(* (mintRobot writes the metadata after _safeMint).                           *)
MintsKeptApart ==
  \A token \in Token :
    /\ token \in Minted <=> robotOwner[token] # Nobody
    /\ token \in UnderMint => token \in Minted /\ robotMetadataURIs[token] = NoURI
    /\ token \notin UnderMint => robotMetadataURIs[token] = askedURI[token]
    /\ token \in Minted <=> askedURI[token] # NoURI
==============================================================================
