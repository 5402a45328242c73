------------------------------ MODULE AuditNft ------------------------------
(***************************************************************************)
(* audit_nft: authorizations minted over events anchored in the audit log, *)
(* revoked by their owner, expired by anybody, and the attestations an     *)
(* auditor binds to them.  Anybody may anchor any event and mint over any  *)
(* anchored events, and whoever calls supplies the epoch.                  *)
(***************************************************************************)
EXTENDS Naturals

CONSTANTS
    AuthId, Attestation,
    MaxU32               \* largest epoch a u32 holds

None == "none"

ASSUME AuditNftAssumption ==
    MaxU32 \in Nat /\ None \notin AuthId

VARIABLES
    audit_event_height,  \* events anchored in payroll_audit_log
    auth_status,         \* 0 where auth_anchor_height is 0
    auth_expires_epoch,
    auth_revoked_height, \* authorizations with a nonzero one
    attestation_auth_id, \* None where attestation_anchor_height is 0
    nfts                 \* records not consumed yet

auditVars == <<auth_status, auth_expires_epoch, auth_revoked_height,
               attestation_auth_id, nfts>>

Absent == 0
STATUS_ACTIVE == 1
STATUS_REVOKED == 2
STATUS_EXPIRED == 3

AuditInit ==
    /\ audit_event_height = {}
    /\ auth_status = [id \in AuthId |-> Absent]
    /\ auth_expires_epoch = [id \in AuthId |-> 0]
    /\ auth_revoked_height = {}
    /\ attestation_auth_id = [t \in Attestation |-> None]
    /\ nfts = {}

anchor_event(h) ==
    /\ h \notin audit_event_height
    /\ audit_event_height' = audit_event_height \cup {h}
    /\ UNCHANGED auditVars

\* The inputs the mint accepts; the sum overflows where it exceeds a u32.
MintInputs(a) ==
    /\ a.schema_v # 0 /\ a.policy_v # 0
    /\ a.issued_epoch # 0 /\ a.access_duration_epochs # 0
    /\ a.issued_epoch + a.access_duration_epochs <= MaxU32
    /\ a.expires_epoch = a.issued_epoch + a.access_duration_epochs

ConsentsAnchored(a, authorization_event_hash) ==
    {a.employer_consent_hash, a.worker_consent_hash, authorization_event_hash}
        \subseteq audit_event_height

\* Fault: an id may be minted again once its authorization has ended.
Unminted_NotActive(id) == auth_status[id] # STATUS_ACTIVE

Unminted(id) == auth_status[id] = Absent

\* The combined event is looked up and left out of the record here, like the policy
\* document.
mint_authorization_nft(caller, id, a, authorization_event_hash) ==
    /\ MintInputs(a) /\ ConsentsAnchored(a, authorization_event_hash)
    /\ Unminted(id)
    /\ auth_status' = [auth_status EXCEPT ![id] = STATUS_ACTIVE]
    /\ auth_expires_epoch' = [auth_expires_epoch EXCEPT ![id] = a.expires_epoch]
    /\ auth_revoked_height' = auth_revoked_height \ {id}
    /\ nfts' = nfts \cup {[auth_id |-> id, args |-> a, owner |-> caller]}
    /\ UNCHANGED <<audit_event_height, attestation_auth_id>>

\* The record is consumed.
revoke_authorization_nft(caller, nft) ==
    /\ nft.owner = caller
    /\ auth_status[nft.auth_id] = STATUS_ACTIVE
    /\ auth_status' = [auth_status EXCEPT ![nft.auth_id] = STATUS_REVOKED]
    /\ auth_revoked_height' = auth_revoked_height \cup {nft.auth_id}
    /\ nfts' = nfts \ {nft}
    /\ UNCHANGED <<audit_event_height, auth_expires_epoch, attestation_auth_id>>

PastExpiry(id, current_epoch) ==
    auth_expires_epoch[id] # 0 /\ current_epoch > auth_expires_epoch[id]

mark_authorization_expired(id, current_epoch) ==
    /\ auth_status[id] = STATUS_ACTIVE
    /\ PastExpiry(id, current_epoch)
    /\ auth_status' = [auth_status EXCEPT ![id] = STATUS_EXPIRED]
    /\ UNCHANGED <<audit_event_height, auth_expires_epoch, auth_revoked_height,
                   attestation_auth_id, nfts>>

\* Fault: only the expiry is looked at.
assert_authorization_active_ExpiryOnly(id, current_epoch) ==
    auth_expires_epoch[id] # 0 /\ current_epoch <= auth_expires_epoch[id]

assert_authorization_active(id, current_epoch) ==
    /\ auth_status[id] = STATUS_ACTIVE
    /\ auth_expires_epoch[id] # 0 /\ current_epoch <= auth_expires_epoch[id]

anchor_audit_attestation(id, t, current_epoch) ==
    /\ assert_authorization_active(id, current_epoch)
    /\ attestation_auth_id[t] = None
    /\ attestation_auth_id' = [attestation_auth_id EXCEPT ![t] = id]
    /\ UNCHANGED <<audit_event_height, auth_status, auth_expires_epoch,
                   auth_revoked_height, nfts>>
=============================================================================
