--------------------------- MODULE CredentialNft ---------------------------
(***************************************************************************)
(* credential_nft_v4.aleo composed with the agreements, names and licenses *)
(* it checks at a mint, and at no later time.  The hashes of scope and     *)
(* document are abstracted to the credential's id: no check reads them.    *)
(***************************************************************************)
EXTENDS EmployerAgreement

CONSTANTS
    Credential,     \* credential ids
    NoIssuer        \* an unset entry of credential_issuer

ASSUME CredentialAssumption == NoIssuer \notin Wallet

VARIABLES
    credential_status,          \* [Credential -> CredentialStatus]; set with the anchor height
    credential_revoked_height,  \* credentials with a nonzero one
    credential_issuer,          \* [Credential -> Wallet or NoIssuer]
    nfts                        \* CredentialNFT records not consumed yet

credentialVars == <<credential_status, credential_revoked_height, credential_issuer, nfts>>
allVars == <<vars, credentialVars>>

CredentialStatus == {"absent", "active", "revoked"}

CredentialNFT == [credential_id : Credential, copy : {"employer", "worker"},
                  issuer_addr : Wallet, worker_addr : Wallet]

\* The wallet that can consume a copy.
OwnerOf(nft) == IF nft.copy = "employer" THEN nft.issuer_addr ELSE nft.worker_addr

CredentialInit ==
    /\ Init
    /\ credential_status = [id \in Credential |-> "absent"]
    /\ credential_revoked_height = {}
    /\ credential_issuer = [id \in Credential |-> NoIssuer]
    /\ nfts = {}

----------------------------------------------------------------------------
\* Fault: owning both names is taken for being party to the agreement.
Authorized_ByNames(caller, a, c) == assert_agreement_active(a)

Authorized(caller, a, c) == assert_employer_authorized(caller, a, c)

\* Fault: an id may be minted again once its credential is revoked.
Unminted_NotActive(id) == credential_status[id] # "active"

Unminted(id) == credential_status[id] = "absent"

mint_credential_nft(caller, a, c, worker, id) ==
    /\ AssertVerified(caller)
    /\ AssertIsOwner(c.employer_name_hash, caller)
    /\ AssertIsOwner(c.worker_name_hash, worker)
    /\ Authorized(caller, a, c)
    /\ Unminted(id)
    /\ credential_status' = [credential_status EXCEPT ![id] = "active"]
    /\ credential_revoked_height' = credential_revoked_height \ {id}
    /\ credential_issuer' = [credential_issuer EXCEPT ![id] = caller]
    /\ nfts' = nfts \cup [credential_id : {id}, copy : {"employer", "worker"},
                          issuer_addr : {caller}, worker_addr : {worker}]
    /\ UNCHANGED vars

\* Both revocations find the credential active and write the same two entries.
Revoke(id) ==
    /\ credential_status[id] = "active"
    /\ credential_status' = [credential_status EXCEPT ![id] = "revoked"]
    /\ credential_revoked_height' = credential_revoked_height \cup {id}
    /\ UNCHANGED <<vars, credential_issuer>>

\* Fault: the issuer has to show the copy it was minted.
revoke_by_issuer_WithCopy(caller, id) ==
    /\ \E nft \in nfts : nft.credential_id = id /\ OwnerOf(nft) = caller
    /\ caller = credential_issuer[id]
    /\ Revoke(id)
    /\ UNCHANGED nfts

revoke_by_issuer(caller, id) ==
    /\ caller = credential_issuer[id]
    /\ Revoke(id)
    /\ UNCHANGED nfts

Consume(caller, nft) ==
    /\ OwnerOf(nft) = caller
    /\ nfts' = nfts \ {nft}

\* Either copy revokes, and is consumed.
revoke_by_owner(caller, nft) == Consume(caller, nft) /\ Revoke(nft.credential_id)

burn_view(caller, nft) ==
    /\ Consume(caller, nft)
    /\ UNCHANGED <<vars, credential_status, credential_revoked_height, credential_issuer>>

CredentialStep(caller) ==
    \/ \E a \in Agreement, c \in Commitment, worker \in Wallet, id \in Credential :
          mint_credential_nft(caller, a, c, worker, id)
    \/ \E id \in Credential : revoke_by_issuer(caller, id)
    \/ \E nft \in nfts : revoke_by_owner(caller, nft) \/ burn_view(caller, nft)

CredentialNext ==
    \/ Next /\ UNCHANGED credentialVars
    \/ \E caller \in Wallet : CredentialStep(caller)

CredentialSpec == CredentialInit /\ [][CredentialNext]_allVars

----------------------------------------------------------------------------
\* The four mappings and the records keep their types.
CredentialTypeOK ==
    /\ credential_status \in [Credential -> CredentialStatus]
    /\ credential_revoked_height \subseteq Credential
    /\ credential_issuer \in [Credential -> Wallet \cup {NoIssuer}]
    /\ nfts \subseteq CredentialNFT

\* Copies in wallets, status, height and issuer tell one story, whichever of
\* issuer, employer copy and worker copy ended the credential and whichever
\* copies were burnt: all copies of an id are of one issuer and one worker, and
\* a revoked height says revoked (four handlers write these entries).
CopiesMatchStatus ==
    /\ \A x, y \in nfts : x.credential_id = y.credential_id => x.worker_addr = y.worker_addr
    /\ \A x \in nfts : credential_issuer[x.credential_id] = x.issuer_addr
    /\ \A id \in Credential :
          /\ credential_status[id] = "revoked" <=> id \in credential_revoked_height
          /\ credential_status[id] # "absent" <=> credential_issuer[id] \in Wallet

\* Every credential is minted under one accepted agreement that runs at the time:
\* its issuer is one of the three parties of that agreement and owns the employer
\* name in it by then, and whom it is issued to owns the worker name in it.  More
\* the mint cannot tell, for it sees the current owners of two names and knowledge
\* of a key: names change hands, so that the issuer need not be the employer, nor
\* the target the worker, that signed.
IssuedUnderAgreement ==
    [][\A nft \in nfts' \ nfts : \E o \in spent :
          /\ assert_agreement_active(o.agreement_id)
          /\ nft.issuer_addr \in {o.employer_address, o.worker_address, DAO_ADDRESS}
          /\ AssertIsOwner(o.employer_name_hash, nft.issuer_addr)
          /\ AssertIsOwner(o.worker_name_hash, nft.worker_addr)]_allVars

\* Nobody is bound to what it can no longer end: the parties of an agreement can
\* always close it (PartiesCanClose), and an active credential, which outlives
\* license, names and agreement and whose copies may both be burnt, can be
\* revoked by its issuer all the same.
NobodyIsLockedIn ==
    /\ PartiesCanClose
    /\ \A id \in Credential : credential_status[id] = "active" =>
          ENABLED revoke_by_issuer(credential_issuer[id], id)
=============================================================================
