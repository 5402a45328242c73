--------------------------- MODULE AuditWorkflow ---------------------------
(***************************************************************************)
(* An audit request from the portal to the chain: the portal derives what  *)
(* the employer and the worker consent to, each anchors its consent, the   *)
(* portal anchors the combined event, and the auditor mints.  The programs *)
(* they call are open to anybody: others anchor and mint beside them, with *)
(* arguments of their own.  A hash is the tuple of what was hashed.        *)
(***************************************************************************)
EXTENDS AuditNft, FiniteSets

CONSTANTS
    RequestId, Auditor,
    Scopes,              \* scopes auditors ask for, valid or not
    Versions,            \* schema and policy versions of requests
    OtherEvent,          \* an event that is no consent
    MaxWorkflows         \* bound on the requests built

ConsentRole == {"employer", "worker"}

ASSUME AuditAssumption ==
    /\ \A s \in Scopes : {s.data_categories, s.period_start_epoch, s.period_end_epoch,
                          s.access_duration_epochs} \subseteq 0 .. MaxU32
    /\ MaxWorkflows \in Nat

VARIABLES
    workflows,           \* requests planned by the portal
    consents,            \* <<role, terms>> a party agreed to and anchored itself
    minted               \* every record ever minted

vars == <<audit_event_height, auditVars, workflows, consents, minted>>

Init ==
    /\ AuditInit
    /\ workflows = {} /\ consents = {} /\ minted = {}

---------------------------------------------------------------------------
(* What the portal derives.                                                *)

\* Fault: the encoder does not look at the width.
FitsU32_NotChecked(n) == TRUE

\* tlvU32 throws on anything wider.
FitsU32(n) == n <= MaxU32

\* Fault: both parties sign the same bytes.
consentRoleToU8_Same(role) == 1

consentRoleToU8(role) == IF role = "employer" THEN 1 ELSE 2

ValidScope(s) ==
    /\ s.data_categories # 0
    /\ s.access_duration_epochs # 0
    /\ s.period_end_epoch >= s.period_start_epoch

\* Employer, worker and purpose are constant beside these.
encodeAuditScope(s) ==
    <<s.data_categories, s.period_start_epoch, s.period_end_epoch,
      s.access_duration_epochs>>

\* A request expires when its scope says, counted from the epoch it was issued at.
Requests ==
    {[request_id |-> r, auditor |-> a, scope |-> s, issued_epoch |-> e,
      expires_epoch |-> e + s.access_duration_epochs, versions |-> v] :
        r \in RequestId, a \in Auditor, s \in Scopes, e \in 0 .. MaxU32, v \in Versions}

\* What a party is asked to consent to.
Terms(w) ==
    [request_id |-> w.request_id, scope_hash |-> encodeAuditScope(w.scope),
     auditor |-> w.auditor, access_duration_epochs |-> w.scope.access_duration_epochs,
     expires_epoch |-> w.expires_epoch]

\* Fault: the consent leaves out until when it holds.
ConsentHash_NoExpiry(t, role) ==
    <<t.request_id, t.scope_hash, t.auditor, t.access_duration_epochs, consentRoleToU8(role)>>

ConsentHash(t, role) ==
    <<t.request_id, t.scope_hash, t.auditor, t.access_duration_epochs, t.expires_epoch,
      consentRoleToU8(role)>>

EventHash(t) == <<ConsentHash(t, "employer"), ConsentHash(t, "worker"), t.request_id>>

ValidRequest(w) ==
    /\ ValidScope(w.scope)
    /\ w.issued_epoch # 0
    /\ FitsU32(w.expires_epoch)

\* mint_inputs beside the id, which is the caller's, and the combined event.
MintArgs(w) ==
    [request_id |-> w.request_id,
     scope_hash |-> encodeAuditScope(w.scope),
     employer_consent_hash |-> ConsentHash(Terms(w), "employer"),
     worker_consent_hash |-> ConsentHash(Terms(w), "worker"),
     issued_epoch |-> w.issued_epoch,
     expires_epoch |-> w.expires_epoch,
     access_duration_epochs |-> w.scope.access_duration_epochs,
     schema_v |-> w.versions.schema_v, policy_v |-> w.versions.policy_v]

\* Whoever mints may fill in the terms of any request, planned or not.
Mintable == {w \in Requests : MintInputs(MintArgs(w))}

---------------------------------------------------------------------------
(* The request.                                                            *)

\* A request may be planned again, with another scope or for another epoch.
buildAuditWorkflow(w) ==
    /\ Cardinality(workflows) < MaxWorkflows
    /\ ValidRequest(w)
    /\ workflows' = workflows \cup {w}
    /\ UNCHANGED <<audit_event_height, auditVars, consents, minted>>

\* Phases 1 and 2: a party agrees to the terms and anchors its consent.
AnchorConsent(w, role) ==
    /\ anchor_event(ConsentHash(Terms(w), role))
    /\ consents' = consents \cup {<<role, Terms(w)>>}
    /\ UNCHANGED <<workflows, minted>>

\* Phase 3: the portal has seen both consents on the chain.
AnchorCombined(w) ==
    /\ \A role \in ConsentRole : ConsentHash(Terms(w), role) \in audit_event_height
    /\ anchor_event(EventHash(Terms(w)))
    /\ UNCHANGED <<workflows, consents, minted>>

\* Somebody else anchors: an event of its own, or a hash of the request that it saw.
AnchorOther(h) == anchor_event(h) /\ UNCHANGED <<workflows, consents, minted>>

\* Phase 4, with the inputs of a request or any others: the program looks up the
\* hashes and compares them with nothing.
Mint(caller, id, w, employer_consent, worker_consent, event) ==
    /\ mint_authorization_nft(caller, id,
           [MintArgs(w) EXCEPT !.employer_consent_hash = employer_consent,
                               !.worker_consent_hash = worker_consent], event)
    /\ minted' = minted \cup (nfts' \ nfts)
    /\ UNCHANGED <<workflows, consents>>

Revoke(nft) ==
    /\ revoke_authorization_nft(nft.owner, nft)
    /\ UNCHANGED <<workflows, consents, minted>>

\* Expiries and attestations come from anybody, at any time and with any epoch: a
\* call that lands late, or twice, is one of these.
Expire(id, current_epoch) ==
    /\ mark_authorization_expired(id, current_epoch)
    /\ UNCHANGED <<workflows, consents, minted>>

Attest(id, t, current_epoch) ==
    /\ anchor_audit_attestation(id, t, current_epoch)
    /\ UNCHANGED <<workflows, consents, minted>>

Next ==
    \/ \E w \in Requests : buildAuditWorkflow(w)
    \/ \E w \in workflows :
          \/ \E role \in ConsentRole :
                AnchorConsent(w, role) \/ AnchorOther(ConsentHash(Terms(w), role))
          \/ AnchorCombined(w) \/ AnchorOther(EventHash(Terms(w)))
    \/ AnchorOther(OtherEvent)
    \/ \E caller \in Auditor, id \in AuthId, w \in Mintable,
          e, x, v \in audit_event_height : Mint(caller, id, w, e, x, v)
    \/ \E nft \in nfts : Revoke(nft)
    \/ \E id \in AuthId, epoch \in 0 .. MaxU32 :
          Expire(id, epoch) \/ \E t \in Attestation : Attest(id, t, epoch)

Spec == Init /\ [][Next]_vars

---------------------------------------------------------------------------
(* Properties.                                                             *)

\* What a record grants, to its owner.
Granted(n) ==
    [request_id |-> n.args.request_id, scope_hash |-> n.args.scope_hash, auditor |-> n.owner,
     access_duration_epochs |-> n.args.access_duration_epochs,
     expires_epoch |-> n.args.expires_epoch]

ConsentIn(n, role) ==
    IF role = "employer" THEN n.args.employer_consent_hash ELSE n.args.worker_consent_hash

\* A consent cannot be turned to other terms: where the hash in a record is the
\* one its own terms give for a role, and one of the parties anchored that hash,
\* the party of that role consented to exactly these terms, also when the
\* request was planned again with another scope or epoch between the consents.
ConsentsBindTerms ==
    \A n \in minted, role \in ConsentRole :
        LET h == ConsentHash(Granted(n), role) IN
        /\ ConsentIn(n, role) = h
        /\ \E c \in consents : ConsentHash(c[2], c[1]) = h
        => <<role, Granted(n)>> \in consents

\* What the comments of the mint say of its two look-ups: "Verify employer
\* consented to this exact scope + duration", and the worker.
BothConsented ==
    \A n \in minted, role \in ConsentRole : <<role, Granted(n)>> \in consents

\* A request the portal accepts is one the program accepts, if its versions are not
\* zero: consents are not collected for a mint that must revert.
PlannedRequestsMint ==
    \A w \in workflows :
        w.versions.schema_v # 0 /\ w.versions.policy_v # 0 => MintInputs(MintArgs(w))

\* The public mappings tell the life of the record: one record for each
\* authorization, in its owner's hands until it is revoked, expiring when the
\* record says.
RecordsMatchMappings ==
    /\ \A id \in AuthId :
          /\ auth_status[id] # Absent <=> \E n \in minted : n.auth_id = id
          /\ auth_status[id] = STATUS_REVOKED <=> id \in auth_revoked_height
    /\ \A n \in minted :
          /\ auth_expires_epoch[n.auth_id] = n.args.expires_epoch
          /\ n \in nfts <=> auth_status[n.auth_id] # STATUS_REVOKED
    /\ \A m, n \in minted : m.auth_id = n.auth_id => m = n

\* An authorization that ended stays as it ended and takes no attestation
\* that was still on its way, and no attestation is bound twice.
EndedForGood ==
    [][/\ \A id \in AuthId :
              auth_status[id] \in {STATUS_REVOKED, STATUS_EXPIRED} =>
                  auth_status'[id] = auth_status[id]
       /\ \A t \in Attestation : attestation_auth_id'[t] # attestation_auth_id[t] =>
              /\ attestation_auth_id[t] = None
              /\ auth_status[attestation_auth_id'[t]] = STATUS_ACTIVE]_vars
=============================================================================
