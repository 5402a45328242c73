---------------------------- MODULE PortalProofs ----------------------------
(***************************************************************************)
(* Theorems about the portal on its way to the chain: the audit requests   *)
(* of AuditWorkflow, the commands of CliAdapter and the payroll runs of    *)
(* PayrollRuns.  The three share no state and are proved about one after   *)
(* the other.                                                              *)
(***************************************************************************)
EXTENDS AuditWorkflow, CliAdapter, PayrollRuns, FoldTheorems

----------------------------------------------------------------------------
(***************************************************************************)
(* AuditWorkflow, for any number of requests, parties, callers and         *)
(* authorizations, and any width of an epoch.                              *)
(***************************************************************************)
AuditTyped ==
    /\ auth_status \in [AuthId -> {Absent, STATUS_ACTIVE, STATUS_REVOKED, STATUS_EXPIRED}]
    /\ auth_expires_epoch = [id \in AuthId |-> auth_expires_epoch[id]]
    /\ auth_revoked_height \subseteq AuthId
    /\ attestation_auth_id \in [Attestation -> AuthId \cup {None}]
    /\ \A n \in minted : n.auth_id \in AuthId
    /\ nfts \subseteq minted

\* A request was accepted, and expires when its scope says.
RequestsValid ==
    \A w \in workflows :
        /\ ValidRequest(w)
        /\ w.expires_epoch = w.issued_epoch + w.scope.access_duration_epochs

\* A party consents in its role and to the terms of a request.
ConsentsToTerms ==
    \A c \in consents : \E role \in ConsentRole, w \in Requests : c = <<role, Terms(w)>>

\* The inductive invariant.
WInv ==
    /\ AuditTyped /\ workflows \subseteq Requests /\ RequestsValid /\ ConsentsToTerms
    /\ RecordsMatchMappings

LEMMA InitWInv == Init => WInv
<1> SUFFICES ASSUME Init PROVE WInv
  OBVIOUS
<1> USE AuditNftAssumption DEF Init, AuditInit
<1>1. AuditTyped
  BY DEF AuditTyped
<1>2. workflows \subseteq Requests /\ RequestsValid /\ ConsentsToTerms
  BY DEF RequestsValid, ConsentsToTerms
<1>3. RecordsMatchMappings
  BY DEF RecordsMatchMappings, Absent, STATUS_REVOKED
<1> QED
  BY <1>1, <1>2, <1>3 DEF WInv

\* A consent binds its role and all its terms.
LEMMA ConsentBinds ==
    ASSUME NEW s, NEW t, NEW r \in ConsentRole, NEW q \in ConsentRole,
           ConsentHash(s, r) = ConsentHash(t, q)
    PROVE  /\ r = q
           /\ s.request_id = t.request_id /\ s.scope_hash = t.scope_hash
           /\ s.auditor = t.auditor /\ s.expires_epoch = t.expires_epoch
           /\ s.access_duration_epochs = t.access_duration_epochs
BY DEF ConsentHash, ConsentRole, consentRoleToU8

\* Planning: what is accepted is valid.
LEMMA BuildStep ==
    ASSUME WInv, NEW w \in Requests, buildAuditWorkflow(w)
    PROVE  WInv'
<1> USE DEF buildAuditWorkflow
<1>1. w.expires_epoch = w.issued_epoch + w.scope.access_duration_epochs
  BY DEF Requests
<1>2. AuditTyped' /\ RecordsMatchMappings' /\ ConsentsToTerms'
  BY DEF WInv, AuditTyped, RecordsMatchMappings, ConsentsToTerms, auditVars
<1>3. workflows' \subseteq Requests /\ RequestsValid'
  BY <1>1 DEF WInv, RequestsValid
<1> QED
  BY <1>2, <1>3 DEF WInv

\* Whoever anchors, only a party's own anchoring is a consent.
LEMMA AnchorStep ==
    ASSUME WInv, UNCHANGED <<auditVars, workflows, minted>>,
           \/ UNCHANGED consents
           \/ \E w \in workflows, role \in ConsentRole :
                 consents' = consents \cup {<<role, Terms(w)>>}
    PROVE  WInv'
<1>1. AuditTyped' /\ RecordsMatchMappings' /\ RequestsValid' /\ workflows' \subseteq Requests
  BY DEF WInv, AuditTyped, RecordsMatchMappings, RequestsValid, auditVars
<1>2. ConsentsToTerms'
  BY DEF WInv, ConsentsToTerms
<1> QED
  BY <1>1, <1>2 DEF WInv

\* A mint makes one record of an id that had none.
LEMMA MintStep ==
    ASSUME WInv, NEW caller, NEW id \in AuthId, NEW w, NEW e, NEW x, NEW v,
           Mint(caller, id, w, e, x, v)
    PROVE  WInv'
<1> DEFINE a == [MintArgs(w) EXCEPT !.employer_consent_hash = e, !.worker_consent_hash = x]
           n == [auth_id |-> id, args |-> a, owner |-> caller]
<1>0. /\ auth_status[id] = Absent
      /\ auth_status' = [auth_status EXCEPT ![id] = STATUS_ACTIVE]
      /\ auth_expires_epoch' = [auth_expires_epoch EXCEPT ![id] = a.expires_epoch]
      /\ auth_revoked_height' = auth_revoked_height \ {id}
      /\ nfts' = nfts \cup {n}
      /\ minted' = minted \cup (nfts' \ nfts)
      /\ UNCHANGED <<attestation_auth_id, workflows, consents>>
  BY DEF Mint, mint_authorization_nft, Unminted
<1>1. n.auth_id = id /\ n.args = a
  OBVIOUS
<1> HIDE DEF a, n
<1>3. \A m \in minted : m.auth_id # id
  BY <1>0 DEF WInv, RecordsMatchMappings
<1>4. n \notin nfts /\ n \notin minted /\ minted' = minted \cup {n}
  BY <1>0, <1>1, <1>3 DEF WInv, AuditTyped
<1>5. AuditTyped'
  <2>1. (auth_status \in [AuthId -> {Absent, STATUS_ACTIVE, STATUS_REVOKED, STATUS_EXPIRED}])'
    BY <1>0 DEF WInv, AuditTyped
  <2>2. (auth_expires_epoch = [i \in AuthId |-> auth_expires_epoch[i]])'
    BY <1>0 DEF WInv, AuditTyped
  <2>3. (\A m \in minted : m.auth_id \in AuthId)' /\ nfts' \subseteq minted'
    BY <1>0, <1>1, <1>4 DEF WInv, AuditTyped
  <2> QED
    BY <1>0, <2>1, <2>2, <2>3 DEF WInv, AuditTyped
<1>6. workflows' \subseteq Requests /\ RequestsValid' /\ ConsentsToTerms'
  BY <1>0 DEF WInv, RequestsValid, ConsentsToTerms
<1>8. RecordsMatchMappings'
  <2> USE <1>0, <1>1, <1>4 DEF WInv, AuditTyped, RecordsMatchMappings
  <2>1. ASSUME NEW i \in AuthId
        PROVE  /\ auth_status'[i] # Absent <=> \E m \in minted' : m.auth_id = i
               /\ auth_status'[i] = STATUS_REVOKED <=> i \in auth_revoked_height'
    BY DEF Absent, STATUS_ACTIVE, STATUS_REVOKED
  <2>2. ASSUME NEW m \in minted
        PROVE  /\ auth_expires_epoch'[m.auth_id] = m.args.expires_epoch
               /\ m \in nfts' <=> auth_status'[m.auth_id] # STATUS_REVOKED
    BY <1>3, <2>2
  <2>3. /\ auth_expires_epoch'[n.auth_id] = n.args.expires_epoch
        /\ n \in nfts' <=> auth_status'[n.auth_id] # STATUS_REVOKED
    BY DEF STATUS_ACTIVE, STATUS_REVOKED
  <2>4. \A l, m \in minted' : l.auth_id = m.auth_id => l = m
    BY <1>3
  <2> QED
    BY <2>1, <2>2, <2>3, <2>4
<1> QED
  BY <1>5, <1>6, <1>8 DEF WInv

\* Revoking consumes the one record of its authorization.
LEMMA RevokeStep ==
    ASSUME WInv, NEW nft \in nfts, Revoke(nft)
    PROVE  WInv'
<1> USE DEF Revoke, revoke_authorization_nft
<1>0. nft \in minted /\ nft.auth_id \in AuthId
  BY DEF WInv, AuditTyped
<1>1. AuditTyped'
  BY <1>0 DEF WInv, AuditTyped
<1>2. workflows' \subseteq Requests /\ RequestsValid' /\ ConsentsToTerms'
  BY DEF WInv, RequestsValid, ConsentsToTerms
<1>3. RecordsMatchMappings'
  <2> USE <1>0 DEF WInv, AuditTyped, RecordsMatchMappings
  <2>1. ASSUME NEW i \in AuthId
        PROVE  /\ auth_status'[i] # Absent <=> \E m \in minted' : m.auth_id = i
               /\ auth_status'[i] = STATUS_REVOKED <=> i \in auth_revoked_height'
    BY DEF Absent, STATUS_ACTIVE, STATUS_REVOKED
  <2>2. ASSUME NEW m \in minted
        PROVE  /\ auth_expires_epoch'[m.auth_id] = m.args.expires_epoch
               /\ m \in nfts' <=> auth_status'[m.auth_id] # STATUS_REVOKED
    BY <2>2
  <2> QED
    BY <2>1, <2>2
<1> QED
  BY <1>1, <1>2, <1>3 DEF WInv

\* An expiry changes the status of an authorization that was active.
LEMMA ExpireStep ==
    ASSUME WInv, NEW id \in AuthId, NEW epoch, Expire(id, epoch)
    PROVE  WInv'
<1> USE DEF Expire, mark_authorization_expired
<1>1. AuditTyped'
  BY DEF WInv, AuditTyped
<1>2. workflows' \subseteq Requests /\ RequestsValid' /\ ConsentsToTerms'
  BY DEF WInv, RequestsValid, ConsentsToTerms
<1>3. RecordsMatchMappings'
  <2> USE DEF WInv, AuditTyped, RecordsMatchMappings
  <2>1. \A i \in AuthId : (auth_status'[i] = Absent <=> auth_status[i] = Absent)
                          /\ (auth_status'[i] = STATUS_REVOKED <=> auth_status[i] = STATUS_REVOKED)
    BY DEF Absent, STATUS_ACTIVE, STATUS_REVOKED, STATUS_EXPIRED
  <2> QED
    BY <2>1
<1> QED
  BY <1>1, <1>2, <1>3 DEF WInv

\* An attestation changes no record.
LEMMA AttestStep ==
    ASSUME WInv, attestation_auth_id' \in [Attestation -> AuthId \cup {None}],
           UNCHANGED <<auth_status, auth_expires_epoch, auth_revoked_height, nfts,
                       workflows, consents, minted>>
    PROVE  WInv'
<1>1. AuditTyped'
  BY DEF WInv, AuditTyped
<1>2. workflows' \subseteq Requests /\ RequestsValid' /\ ConsentsToTerms' /\ RecordsMatchMappings'
  BY DEF WInv, RequestsValid, ConsentsToTerms, RecordsMatchMappings
<1> QED
  BY <1>1, <1>2 DEF WInv

LEMMA NextWInv == WInv /\ [Next]_vars => WInv'
<1> SUFFICES ASSUME WInv, [Next]_vars PROVE WInv'
  OBVIOUS
<1>1. CASE \E w \in Requests : buildAuditWorkflow(w)
  BY <1>1, BuildStep
<1>2. CASE \E w \in workflows, role \in ConsentRole : AnchorConsent(w, role)
  BY <1>2, AnchorStep DEF AnchorConsent, anchor_event
<1>3. CASE \E w \in workflows : AnchorCombined(w)
  BY <1>3, AnchorStep DEF AnchorCombined, anchor_event
<1>4. CASE \E h : AnchorOther(h)
  BY <1>4, AnchorStep DEF AnchorOther, anchor_event
<1>5. CASE \E caller \in Auditor, id \in AuthId, w \in Mintable,
              e, x, v \in audit_event_height : Mint(caller, id, w, e, x, v)
  BY <1>5, MintStep
<1>6. CASE \E nft \in nfts : Revoke(nft)
  BY <1>6, RevokeStep
<1>7. CASE \E id \in AuthId, epoch \in 0 .. MaxU32 : Expire(id, epoch)
  BY <1>7, ExpireStep
<1>8. CASE \E id \in AuthId, epoch \in 0 .. MaxU32, t \in Attestation : Attest(id, t, epoch)
  <2> PICK id \in AuthId, epoch \in 0 .. MaxU32, t \in Attestation : Attest(id, t, epoch)
    BY <1>8
  <2> USE DEF Attest, anchor_audit_attestation
  <2>1. attestation_auth_id' \in [Attestation -> AuthId \cup {None}]
    BY DEF WInv, AuditTyped
  <2> QED
    BY <2>1, AttestStep
<1>9. CASE UNCHANGED vars
  BY <1>9, AnchorStep DEF vars
<1> QED
  BY <1>1, <1>2, <1>3, <1>4, <1>5, <1>6, <1>7, <1>8, <1>9 DEF Next

THEOREM AuditInvariance == Spec => []WInv
<1> QED
  BY InitWInv, NextWInv, PTL DEF Spec

\* A consent anchored by a party cannot be turned to other terms or to the other role:
\* whoever mints, and with whatever arguments, a record that shows it as the consent to
\* its own terms grants what that party consented to.
THEOREM ConsentsHold == Spec => []ConsentsBindTerms
<1>1. WInv => ConsentsBindTerms
  <2> SUFFICES ASSUME WInv, NEW n \in minted, NEW role \in ConsentRole, NEW c \in consents,
                      ConsentHash(c[2], c[1]) = ConsentHash(Granted(n), role)
               PROVE  <<role, Granted(n)>> \in consents
    BY DEF ConsentsBindTerms
  <2>1. PICK q \in ConsentRole, w \in Requests : c = <<q, Terms(w)>>
    BY DEF WInv, ConsentsToTerms
  <2>2. ConsentHash(Terms(w), q) = ConsentHash(Granted(n), role)
    BY <2>1
  <2>3. q = role /\ Terms(w) = Granted(n)
    BY <2>2, ConsentBinds DEF Terms, Granted
  <2> QED
    BY <2>1, <2>3
<1> QED
  BY <1>1, AuditInvariance, PTL

\* audit_nft accepts the mint of every request with nonzero versions: the portal
\* refused all others it would not accept, those that expire beyond u32 among them.
THEOREM PlannedMint == Spec => []PlannedRequestsMint
<1>1. WInv => PlannedRequestsMint
  <2> SUFFICES ASSUME WInv, NEW w \in workflows,
                      w.versions.schema_v # 0, w.versions.policy_v # 0
               PROVE  MintInputs(MintArgs(w))
    BY DEF PlannedRequestsMint
  <2>1. /\ ValidRequest(w)
        /\ w.expires_epoch = w.issued_epoch + w.scope.access_duration_epochs
    BY DEF WInv, RequestsValid
  <2> QED
    BY <2>1 DEF MintInputs, MintArgs, ValidRequest, ValidScope, FitsU32
<1> QED
  BY <1>1, AuditInvariance, PTL

\* The mappings of audit_nft tell the life of every record.
THEOREM RecordsTold == Spec => []RecordsMatchMappings
<1>1. WInv => RecordsMatchMappings
  BY DEF WInv
<1> QED
  BY <1>1, AuditInvariance, PTL

\* Whatever lands late, and with whatever epoch, an ended authorization stays ended and
\* takes no attestation.
THEOREM EndsStay == Spec => EndedForGood
<1>1. ASSUME WInv, [Next]_vars
      PROVE  [/\ \A id \in AuthId :
                    auth_status[id] \in {STATUS_REVOKED, STATUS_EXPIRED} =>
                        auth_status'[id] = auth_status[id]
              /\ \A t \in Attestation : attestation_auth_id'[t] # attestation_auth_id[t] =>
                    /\ attestation_auth_id[t] = None
                    /\ auth_status[attestation_auth_id'[t]] = STATUS_ACTIVE]_vars
  <2> USE <1>1 DEF STATUS_ACTIVE, STATUS_REVOKED, STATUS_EXPIRED, Absent
  <2>0. /\ auth_status \in [AuthId -> {Absent, STATUS_ACTIVE, STATUS_REVOKED, STATUS_EXPIRED}]
        /\ attestation_auth_id \in [Attestation -> AuthId \cup {None}]
        /\ \A n \in nfts : n.auth_id \in AuthId
    BY DEF WInv, AuditTyped
  <2>1. ASSUME NEW id \in AuthId, auth_status[id] \in {STATUS_REVOKED, STATUS_EXPIRED}
        PROVE  auth_status'[id] = auth_status[id]
    <3>1. CASE \E i \in AuthId : \E caller, w, e, x, v : Mint(caller, i, w, e, x, v)
      BY <2>0, <2>1, <3>1 DEF Mint, mint_authorization_nft, Unminted
    <3>2. CASE \E nft \in nfts : Revoke(nft)
      BY <2>0, <2>1, <3>2 DEF Revoke, revoke_authorization_nft
    <3>3. CASE \E i \in AuthId : \E epoch : Expire(i, epoch)
      BY <2>0, <2>1, <3>3 DEF Expire, mark_authorization_expired
    <3>4. CASE UNCHANGED auth_status
      BY <3>4
    <3> QED
      BY <3>1, <3>2, <3>3, <3>4 DEF Next, vars, auditVars, buildAuditWorkflow,
         AnchorConsent, AnchorCombined, AnchorOther, anchor_event, Attest,
         anchor_audit_attestation
  <2>2. ASSUME NEW t \in Attestation, attestation_auth_id'[t] # attestation_auth_id[t]
        PROVE  /\ attestation_auth_id[t] = None
               /\ auth_status[attestation_auth_id'[t]] = STATUS_ACTIVE
    BY <2>0, <2>2 DEF Next, vars, auditVars, buildAuditWorkflow, AnchorConsent,
       AnchorCombined, AnchorOther, anchor_event, Mint, mint_authorization_nft, Revoke,
       revoke_authorization_nft, Expire, Attest, mark_authorization_expired,
       anchor_audit_attestation, assert_authorization_active
  <2> QED
    BY <2>1, <2>2
<1> QED
  BY <1>1, AuditInvariance, PTL DEF Spec, EndedForGood

----------------------------------------------------------------------------
(***************************************************************************)
(* CliAdapter, for plans of any length, any retry policy and any number of *)
(* runs.                                                                   *)
(***************************************************************************)
Transactions == Nat \X Nat \X Nat
Trace == [step : Nat, status : {"planned", "executed"}, attempts : Nat]

AdapterTyped ==
    /\ mode \in Mode /\ max_attempts \in Nat /\ plan \in Seq(Step)
    /\ run \in Nat /\ index \in Nat /\ attempt \in Nat
    /\ pc \in {"ready", "running", "sleeping", "returned", "threw"}
    /\ traces \in Seq(Trace)
    /\ sent \subseteq Transactions
    /\ acked \subseteq sent /\ mempool \subseteq sent /\ landed \subseteq sent

\* Where the adapter is: every step before this one has its trace, and a step
\* that was not tried yet has no attempt.
Position ==
    /\ Len(traces) = index - 1 /\ index <= Len(plan) + 1
    /\ pc \in {"ready", "returned"} => attempt = 0
    /\ pc = "returned" => index = Len(plan) + 1
    /\ pc \in {"running", "sleeping"} => index <= Len(plan) /\ mode = "execute"

\* Nothing was sent ahead of where the adapter is.
SentSoFar ==
    \A tx \in sent :
        /\ tx[3] # 0 /\ tx[1] <= run
        /\ tx[1] = run => tx[2] <= index
        /\ tx[1] = run /\ tx[2] = index => tx[3] <= attempt

\* An acknowledgement moves the adapter on.
AckedBefore == \A tx \in acked : tx[1] = run => tx[2] < index

\* What the traces say was acknowledged.
TracesTrue ==
    \A i \in 1 .. Len(traces) :
        /\ traces[i].step = i
        /\ mode = "execute" =>
              /\ traces[i].status = "executed"
              /\ <<run, i, traces[i].attempts>> \in acked

\* An error is about the step the adapter stopped at; without an attempt, it
\* was never sent.
ErrorHere ==
    pc = "threw" =>
        /\ error.step = index
        /\ error.category = "invariant" => attempt = 0

PlanOnlySendsNothing == mode = "plan_only" => sent = {}

\* The inductive invariant.
AInv ==
    /\ AdapterTyped /\ Position /\ SentSoFar /\ AckedBefore
    /\ TracesTrue /\ ErrorHere /\ PlanOnlySendsNothing
    /\ NoResubmissionOnceAcknowledged /\ WrittenOnce

LEMMA InitAInv == AdapterInit => AInv
<1> SUFFICES ASSUME AdapterInit PROVE AInv
  OBVIOUS
<1>1. AdapterTyped
  BY CliAssumption DEF AdapterInit, AdapterTyped, Mode
<1>2. Position /\ TracesTrue /\ ErrorHere
  BY <1>1 DEF AdapterTyped, AdapterInit, Position, TracesTrue, ErrorHere
<1> QED
  BY <1>1, <1>2 DEF AdapterInit, AInv, SentSoFar, AckedBefore, PlanOnlySendsNothing,
     NoResubmissionOnceAcknowledged, WrittenOnce

\* An error leaves everything but itself in place.
LEMMA ThrowKeeps ==
    ASSUME AInv, NEW category, NEW cause, Throw(category, cause),
           UNCHANGED <<acked, chain>>,
           category = "invariant" => attempt = 0
    PROVE  AInv'
<1> USE DEF AInv, Throw, asked, chain
<1>1. AdapterTyped' /\ Position' /\ ErrorHere'
  BY DEF AdapterTyped, Position, ErrorHere
<1>2. SentSoFar' /\ AckedBefore' /\ TracesTrue' /\ PlanOnlySendsNothing'
  BY DEF SentSoFar, AckedBefore, TracesTrue, PlanOnlySendsNothing
<1>3. NoResubmissionOnceAcknowledged' /\ WrittenOnce'
  BY DEF NoResubmissionOnceAcknowledged, WrittenOnce, Writes
<1> QED
  BY <1>1, <1>2, <1>3

\* A step that is planned or executed gets its trace.
LEMMA FinishKeeps ==
    ASSUME AInv, NEW status \in {"planned", "executed"}, Finish(status),
           UNCHANGED chain, index <= Len(plan),
           mode = "plan_only" => acked' = acked,
           mode = "execute" =>
              status = "executed" /\ Current \in sent /\ acked' = acked \cup {Current}
    PROVE  AInv'
<1> DEFINE t == [step |-> index, status |-> status, attempts |-> attempt]
<1> USE DEF AInv, Finish, asked, chain, Current
<1>m. mode = "plan_only" \/ mode = "execute"
  BY DEF AdapterTyped, Mode
<1>t. t \in Trace
  BY DEF AdapterTyped, Trace
<1>1. AdapterTyped'
  <2>1. (acked \subseteq sent)'
    BY <1>m DEF AdapterTyped
  <2> QED
    BY <1>t, <2>1 DEF AdapterTyped
<1>l. /\ Len(traces') = Len(traces) + 1 /\ traces'[Len(traces) + 1] = t
      /\ \A i \in 1 .. Len(traces) : traces'[i] = traces[i]
  BY <1>t DEF AdapterTyped
<1>2. Position'
  BY <1>l DEF AdapterTyped, Position
<1>3. SentSoFar'
  BY DEF SentSoFar, AdapterTyped, Transactions
<1>4. AckedBefore'
  BY <1>m DEF AckedBefore, AdapterTyped, Transactions
<1>5. TracesTrue'
  <2> SUFFICES ASSUME NEW i \in 1 .. Len(traces')
               PROVE  /\ traces'[i].step = i
                      /\ mode' = "execute" =>
                            /\ traces'[i].status = "executed"
                            /\ <<run', i, traces'[i].attempts>> \in acked'
    BY DEF TracesTrue
  <2>1. CASE i = Len(traces) + 1
    <3>1. i = index /\ traces'[i] = t
      BY <2>1, <1>l DEF Position, AdapterTyped
    <3> QED
      BY <3>1
  <2>2. CASE i # Len(traces) + 1
    <3>1. i \in 1 .. Len(traces) /\ traces'[i] = traces[i]
      BY <2>2, <1>l DEF AdapterTyped
    <3> QED
      BY <3>1, <1>m DEF TracesTrue
  <2> QED
    BY <2>1, <2>2
<1>6. ErrorHere' /\ PlanOnlySendsNothing'
  BY DEF ErrorHere, PlanOnlySendsNothing
<1>7. NoResubmissionOnceAcknowledged'
  <2> SUFFICES ASSUME NEW a \in acked', NEW b \in sent', a[1] = b[1], a[2] = b[2]
               PROVE  b[3] <= a[3]
    BY DEF NoResubmissionOnceAcknowledged
  <2>1. CASE a \in acked
    BY <2>1 DEF NoResubmissionOnceAcknowledged
  <2>2. CASE a = Current
    BY <2>2 DEF SentSoFar
  <2> QED
    BY <2>1, <2>2, <1>m
<1>8. WrittenOnce'
  BY DEF WrittenOnce, Writes
<1> QED
  BY <1>1, <1>2, <1>3, <1>4, <1>5, <1>6, <1>7, <1>8

\* A further attempt of a step that is not acknowledged.
LEMMA SubmitKeeps ==
    ASSUME AInv, Submit
    PROVE  AInv'
<1> DEFINE tx == <<run, index, attempt + 1>>
<1> USE DEF AInv, Submit, Starting, asked, chain, NextAttempt
<1>a. index <= Len(plan) /\ mode = "execute" /\ attempt' = attempt + 1 /\ pc' = "running"
  BY DEF Position
<1>b. tx \in Transactions
  BY DEF AdapterTyped, Transactions
<1>c. \/ sent' = sent \cup {tx} /\ mempool' = mempool \cup {tx}
      \/ sent' = sent /\ mempool' = mempool
  BY <1>a
<1>0. index <= Len(plan) /\ mode = "execute" /\ attempt' = attempt + 1 /\ pc' = "running"
      /\ sent \subseteq sent' /\ sent' \subseteq sent \cup {tx}
  BY <1>a, <1>c
<1>1. AdapterTyped'
  <2>1. sent' \subseteq Transactions /\ (mempool \subseteq sent)'
    BY <1>b, <1>c DEF AdapterTyped
  <2>2. (acked \subseteq sent)' /\ (landed \subseteq sent)'
    BY <1>0 DEF AdapterTyped
  <2> QED
    BY <1>0, <2>1, <2>2 DEF AdapterTyped
<1>2. Position'
  BY <1>0 DEF AdapterTyped, Position
<1>3. SentSoFar'
  <2> SUFFICES ASSUME NEW s \in sent'
               PROVE  /\ s[3] # 0 /\ s[1] <= run
                      /\ s[1] = run => s[2] <= index
                      /\ s[1] = run /\ s[2] = index => s[3] <= attempt + 1
    BY <1>0 DEF SentSoFar
  <2>1. CASE s \in sent
    BY <2>1 DEF SentSoFar, AdapterTyped, Transactions
  <2>2. CASE s = tx
    BY <2>2 DEF AdapterTyped
  <2> QED
    BY <2>1, <2>2, <1>0
<1>4. AckedBefore' /\ TracesTrue' /\ ErrorHere' /\ PlanOnlySendsNothing'
  BY <1>0 DEF AckedBefore, TracesTrue, ErrorHere, PlanOnlySendsNothing
<1>5. NoResubmissionOnceAcknowledged'
  <2> SUFFICES ASSUME NEW a \in acked', NEW b \in sent', a[1] = b[1], a[2] = b[2]
               PROVE  b[3] <= a[3]
    BY DEF NoResubmissionOnceAcknowledged
  <2>1. CASE b \in sent
    BY <2>1 DEF NoResubmissionOnceAcknowledged
  <2>2. CASE b = tx
    BY <2>2 DEF AckedBefore, AdapterTyped
  <2> QED
    BY <2>1, <2>2, <1>0
<1>6. WrittenOnce'
  BY DEF WrittenOnce, Writes
<1> QED
  BY <1>1, <1>2, <1>3, <1>4, <1>5, <1>6

\* A new run has sent nothing.
LEMMA RunAgainKeeps ==
    ASSUME AInv, RunAgain
    PROVE  AInv'
<1> USE DEF AInv, RunAgain, asked, chain
<1>1. AdapterTyped' /\ Position' /\ TracesTrue' /\ ErrorHere' /\ PlanOnlySendsNothing'
  BY DEF AdapterTyped, Position, TracesTrue, ErrorHere, PlanOnlySendsNothing
<1>2. SentSoFar' /\ AckedBefore'
  <2>1. \A tx \in sent : tx[1] \in Nat /\ tx[1] <= run
    BY DEF SentSoFar, AdapterTyped, Transactions
  <2>2. \A tx \in sent : tx[1] # run + 1
    BY <2>1 DEF AdapterTyped
  <2> QED
    BY <2>1, <2>2 DEF SentSoFar, AckedBefore, AdapterTyped
<1>3. NoResubmissionOnceAcknowledged' /\ WrittenOnce'
  BY DEF NoResubmissionOnceAcknowledged, WrittenOnce, Writes
<1> QED
  BY <1>1, <1>2, <1>3

\* The chain includes a transaction, or it does not.
LEMMA ChainKeeps ==
    ASSUME AInv, NEW tx \in mempool, Confirm(tx) \/ Discard(tx)
    PROVE  AInv'
<1> USE DEF AInv, Confirm, Discard, asked
<1>1. AdapterTyped' /\ Position' /\ TracesTrue' /\ ErrorHere' /\ PlanOnlySendsNothing'
  BY DEF AdapterTyped, Position, TracesTrue, ErrorHere, PlanOnlySendsNothing
<1>2. SentSoFar' /\ AckedBefore' /\ NoResubmissionOnceAcknowledged'
  BY DEF SentSoFar, AckedBefore, NoResubmissionOnceAcknowledged
<1>3. WrittenOnce'
  BY DEF WrittenOnce, Written, Writes
<1> QED
  BY <1>1, <1>2, <1>3

\* Waiting for another attempt, and returning, change nothing but the place.
LEMMA MoveKeeps ==
    ASSUME AInv,
           UNCHANGED <<asked, run, index, attempt, traces, error, acked, chain>>,
           \/ pc = "running" /\ pc' = "sleeping"
           \/ pc = "ready" /\ index > Len(plan) /\ pc' = "returned"
           \/ pc' = pc
    PROVE  AInv'
<1> USE DEF AInv, asked, chain
<1>1. AdapterTyped'
  BY DEF AdapterTyped
<1>2. Position'
  BY DEF Position, AdapterTyped
<1>3. ErrorHere'
  BY DEF ErrorHere
<1>4. SentSoFar' /\ AckedBefore' /\ TracesTrue' /\ PlanOnlySendsNothing'
  BY DEF SentSoFar, AckedBefore, TracesTrue, PlanOnlySendsNothing
<1>5. NoResubmissionOnceAcknowledged' /\ WrittenOnce'
  BY DEF NoResubmissionOnceAcknowledged, WrittenOnce, Writes
<1> QED
  BY <1>1, <1>2, <1>3, <1>4, <1>5

LEMMA NextAInv == AInv /\ [AdapterNext]_adapterVars => AInv'
<1> SUFFICES ASSUME AInv, [AdapterNext]_adapterVars PROVE AInv'
  OBVIOUS
<1>1. CASE FailEncoding
  BY <1>1, ThrowKeeps DEF FailEncoding
<1>2. CASE PlanStep
  BY <1>2, FinishKeeps DEF PlanStep, Starting
<1>3. CASE FailWithoutAttempt
  BY <1>3, ThrowKeeps DEF FailWithoutAttempt, Starting, AInv, Position
<1>4. CASE Submit
  BY <1>4, SubmitKeeps
<1>5. CASE Succeed
  <2>1. index <= Len(plan) /\ mode = "execute"
    BY <1>5 DEF Succeed, AInv, Position
  <2> QED
    BY <1>5, <2>1, FinishKeeps DEF Succeed
<1>6. CASE Return
  BY <1>6, MoveKeeps DEF Return
<1>7. CASE \E f \in Failure : Retry(f)
  BY <1>7, MoveKeeps DEF Retry
<1>8. CASE \E f \in Failure : GiveUp(f)
  BY <1>8, ThrowKeeps DEF GiveUp
<1>9. CASE RunAgain
  BY <1>9, RunAgainKeeps
<1>10. CASE \E tx \in mempool : Confirm(tx) \/ Discard(tx)
  BY <1>10, ChainKeeps
<1>11. CASE UNCHANGED adapterVars
  BY <1>11, MoveKeeps DEF adapterVars
<1> QED
  BY <1>1, <1>2, <1>3, <1>4, <1>5, <1>6, <1>7, <1>8, <1>9, <1>10, <1>11 DEF AdapterNext, Adapter,
     OwnStep, CommandEnds

\* The invariant holds of every behaviour, fair or not.
THEOREM AdapterInvariance == AdapterSpec => []AInv
<1> QED
  BY InitAInv, NextAInv, PTL DEF AdapterSpec

\* executePlan reports what happened: an error names the first step that was not
\* acknowledged, and a plan that returned was acknowledged throughout.
THEOREM ReportsTrue == AdapterSpec => []ReportsAreTrue
<1>1. AInv => ErrorLocatesProgress
  <2> SUFFICES ASSUME AInv, pc = "threw" PROVE
        /\ mode = "execute" => \A i \in 1 .. error.step - 1 : Acknowledged(i)
        /\ ~Acknowledged(error.step)
        /\ \A tx \in sent : tx[1] = run => tx[2] <= error.step
        /\ error.category = "invariant" => \A tx \in sent : tx[1] # run \/ tx[2] < error.step
    BY DEF ErrorLocatesProgress
  <2> USE DEF AInv
  <2>0. error.step = index
    BY DEF ErrorHere
  <2>1. ASSUME mode = "execute", NEW i \in 1 .. error.step - 1 PROVE Acknowledged(i)
    <3>1. <<run, i, traces[i].attempts>> \in acked
      BY <2>0, <2>1 DEF TracesTrue, Position
    <3> QED
      BY <3>1 DEF Acknowledged
  <2>2. ~Acknowledged(error.step)
    BY <2>0 DEF Acknowledged, AckedBefore, AdapterTyped
  <2>3. \A tx \in sent : tx[1] = run => tx[2] <= error.step
    BY <2>0 DEF SentSoFar
  <2>4. ASSUME error.category = "invariant", NEW tx \in sent, tx[1] = run
        PROVE  tx[2] < error.step
    BY <2>0, <2>4 DEF ErrorHere, SentSoFar, AdapterTyped, Transactions
  <2> QED
    BY <2>1, <2>2, <2>3, <2>4
<1>2. AInv => ReportIsComplete
  BY DEF AInv, ReportIsComplete, PlanOnlySendsNothing, Position, TracesTrue, AdapterTyped
<1> QED
  BY <1>1, <1>2, AdapterInvariance, PTL DEF ReportsAreTrue

\* Retries and reruns do no step twice: an acknowledged step is not sent again in
\* its run, and an identifier is written by one transaction.
THEOREM StepsOnce == AdapterSpec => []StepsLandOnce
<1>1. AInv => StepsLandOnce
  BY DEF AInv, StepsLandOnce
<1> QED
  BY <1>1, AdapterInvariance, PTL

----------------------------------------------------------------------------
(***************************************************************************)
(* PayrollRuns, for any runs, agreements, rows and opening records.        *)
(***************************************************************************)

Disbursement == [agreement_id : Agreement, epoch_id : Nat, net : Nat, run : Run]
Instructions(r) == {[assert |-> g] : g \in Agreements(Workers[r])} \cup {[pay |-> Workers[r]]}
Instruction == UNION {Instructions(r) : r \in Run}

AmountOf == [t \in Record |-> t.amount]
NetOf == [p \in Disbursement |-> p.net]

LedgerTyped ==
    /\ unspent \in SUBSET Record /\ IsFiniteSet(unspent)
    /\ agreement_status \in [Agreement -> {"active", "paused", "ended"}]
    /\ payments \in SUBSET Disbursement /\ IsFiniteSet(payments)

RunsTyped ==
    /\ phase \in [Run -> Phase] /\ fetches \in [Run -> Nat]
    /\ seen \in [Run -> SUBSET Record]
    /\ record \in [Run -> Record \cup {NoRecord}]
    /\ todo \in [Run -> Seq(Instruction)]

\* The next record is like none before, spent or unspent: what a run chose and
\* another spent does not come back.
NextIsNew ==
    /\ \A t \in unspent : t.id < NextId
    /\ \A r \in Run : record[r].id < NextId

\* A run that has not settled has paid nothing.
PaymentsSettle == \A p \in payments : phase[p.run] = "paid"

\* The record of a run with a plan covers all its rows.
ChosenCovers ==
    \A r \in Run : phase[r] \in {"executing", "reverted"} =>
        record[r] \in Record /\ record[r].amount >= totalNetAmount(Workers[r])

\* What is left of a plan: assertions about its own rows, then the settlement.
PlanLeft ==
    \A r \in Run : phase[r] = "executing" =>
        /\ todo[r] \in Seq(Instructions(r)) /\ todo[r] # <<>>
        /\ todo[r][Len(todo[r])] = [pay |-> Workers[r]]

\* Every payment is written, and no other is for its agreement and epoch.
PaidOnce ==
    /\ \A p \in payments : PaidKey(p) \in written
    /\ \A p, q \in payments : PaidKey(p) = PaidKey(q) => p = q

MoneyKept == SumOver(AmountOf, unspent) + SumOver(NetOf, payments) = SumOver(AmountOf, Opening)

\* The inductive invariant.
RInv ==
    /\ LedgerTyped /\ RunsTyped /\ NextIsNew /\ PaymentsSettle /\ ChosenCovers
    /\ PlanLeft /\ PaidOnce /\ MoneyKept /\ InsufficientIsTrue

RowNets(rows) == [k \in 1 .. Len(rows) |-> rows[k].net]

LEMMA RowNetsTyped ==
    ASSUME NEW rows \in Seq(Row)
    PROVE  /\ RowNets(rows) \in [1 .. Len(rows) -> Int]
           /\ \A k \in 1 .. Len(rows) : rows[k].net \in Nat /\ RowNets(rows)[k] = rows[k].net
           /\ DOMAIN rows = 1 .. Len(rows) /\ Len(rows) \in Nat
           /\ IsFiniteSet(1 .. Len(rows))
<1>1. Len(rows) \in Nat /\ DOMAIN rows = 1 .. Len(rows)
  OBVIOUS
<1>2. ASSUME NEW k \in 1 .. Len(rows) PROVE rows[k].net \in Nat
  <2>1. rows[k] \in Row
    OBVIOUS
  <2> QED
    BY <2>1 DEF Row
<1>3. IsFiniteSet(1 .. Len(rows))
  BY <1>1, FS_Interval
<1> QED
  BY <1>1, <1>2, <1>3 DEF RowNets

\* g starts with base and adds sign times the net amount of each row.
RowFold(g, rows, base, sign) ==
    /\ g[{}] = base
    /\ \A s \in SUBSET (1 .. Len(rows)) : s # {} /\ g[s \ {Max(s)}] \in Int =>
          g[s] = g[s \ {Max(s)}] + sign * rows[Max(s)].net

LEMMA RowFoldIsSum ==
    ASSUME NEW rows \in Seq(Row), NEW base \in Int, NEW sign \in {1, -1}, NEW g,
           RowFold(g, rows, base, sign)
    PROVE  \A s \in SUBSET (1 .. Len(rows)) :
              g[s] = base + sign * SumOver(RowNets(rows), s) /\ g[s] \in Int
<1> DEFINE S == 1 .. Len(rows)
           Good(T) == {s \in SUBSET T : /\ g[s] = base + sign * SumOver(RowNets(rows), s)
                                        /\ g[s] \in Int}
<1> SUFFICES ASSUME NEW T \in SUBSET S PROVE T \in Good(T)
  OBVIOUS
<1>0. IsFiniteSet(T) /\ IsFiniteSet(S)
  BY FS_Subset, RowNetsTyped
<1>1. {} \in Good(T)
  <2>1. g[{}] = base
    BY DEF RowFold
  <2>2. SumOver(RowNets(rows), {}) = 0
    BY SumEmpty
  <2> QED
    BY <2>1, <2>2
<1>2. ASSUME NEW s \in SUBSET T, s # {}, \A x \in s : s \ {x} \in Good(T)
      PROVE  s \in Good(T)
  <2> DEFINE x == Max(s)
             rest == SumOver(RowNets(rows), s \ {x})
  <2>1. x \in s /\ x \in S
    BY <1>2, MaxPicks, RowNetsTyped DEF Picks
  <2>2. rows[x].net \in Nat /\ RowNets(rows)[x] = rows[x].net
    BY <2>1, RowNetsTyped
  <2>3. g[s \ {x}] = base + sign * rest /\ g[s \ {x}] \in Int
    BY <1>2, <2>1
  <2>4. g[s] = g[s \ {x}] + sign * rows[x].net
    BY <1>2, <2>1, <2>3 DEF RowFold
  <2>5. SumOver(RowNets(rows), s) = rows[x].net + rest /\ rest \in Int
    <3>1. IsFiniteSet(s) /\ IsFiniteSet(s \ {x})
      BY <1>0, FS_Subset
    <3>2. s \in SUBSET S /\ s \ {x} \in SUBSET S
      OBVIOUS
    <3>3. RowNets(rows) \in [S -> Int]
      BY RowNetsTyped
    <3> HIDE DEF x, S
    <3>4. SumOver(RowNets(rows), s) = RowNets(rows)[x] + rest
      BY <2>1, <3>1, <3>2, <3>3, SumRemove
    <3>5. rest \in Int
      BY <3>1, <3>2, <3>3, SumInt
    <3> QED
      BY <2>2, <3>4, <3>5
  <2> HIDE DEF x, rest
  <2>6. g[s] = base + sign * SumOver(RowNets(rows), s) /\ g[s] \in Int
    <3>1. CASE sign = 1
      BY <3>1, <2>2, <2>3, <2>4, <2>5
    <3>2. CASE sign = -1
      BY <3>2, <2>2, <2>3, <2>4, <2>5
    <3> QED
      BY <3>1, <3>2
  <2> QED
    BY <2>6
<1>3. T \in Good(T)
  <2> HIDE DEF Good
  <2> QED
    BY <1>0, <1>1, <1>2, SubsetInduction
<1> QED
  BY <1>3

\* There is such a fold, with integers for its values.
LEMMA RowFoldExists ==
    ASSUME NEW rows \in Seq(Row), NEW base \in Int, NEW sign \in {1, -1}
    PROVE  \E g \in [SUBSET (1 .. Len(rows)) -> Int] : RowFold(g, rows, base, sign)
<1> DEFINE D == 1 .. Len(rows)
           c == [s \in SUBSET D |-> Max(s)]
           step == [k \in D |-> [v \in Int |-> v + sign * rows[k].net]]
<1>1. Picks(c, D) /\ IsFiniteSet(D)
  BY MaxPicks, RowNetsTyped
<1>2. step \in [D -> [Int -> Int]]
  BY RowNetsTyped
<1>3. PICK g : Folds(g, base, c, step, SUBSET D)
  <2> HIDE DEF c, step, D
  <2> QED
    BY <1>1, FoldsExist
<1>4. \A s \in SUBSET D : g[s] \in Int
  <2> HIDE DEF c, step, D
  <2> QED
    BY <1>1, <1>2, <1>3, FoldsRange
<1>5. RowFold(g, rows, base, sign)
  <2>1. g[{}] = base
    BY <1>3 DEF Folds
  <2>2. ASSUME NEW s \in SUBSET D, s # {}
        PROVE  g[s] = g[s \ {Max(s)}] + sign * rows[Max(s)].net
    <3>1. c[s] = Max(s) /\ Max(s) \in D /\ s \ {Max(s)} \in SUBSET D
      BY <1>1, <2>2 DEF Picks
    <3>2. g[s] = step[c[s]][g[s \ {c[s]}]]
      BY <1>3, <2>2 DEF Folds
    <3> QED
      BY <1>4, <3>1, <3>2
  <2> QED
    BY <2>1, <2>2 DEF RowFold
<1>6. g = [s \in SUBSET D |-> g[s]]
  BY <1>3 DEF Folds
<1> QED
  BY <1>4, <1>5, <1>6

LEMMA RowOfMax ==
    ASSUME NEW rows \in Seq(Row), NEW s \in SUBSET (1 .. Len(rows)), s # {}
    PROVE  /\ Max(s) \in 1 .. Len(rows) /\ rows[Max(s)].net \in Nat
           /\ s \ {Max(s)} \in SUBSET (1 .. Len(rows))
<1>1. Max(s) \in 1 .. Len(rows)
  BY RowNetsTyped, MaxPicks DEF Picks
<1> QED
  BY <1>1, RowNetsTyped

\* The total a run asks for is the sum of its rows.
LEMMA TotalIsSum ==
    ASSUME NEW rows \in Seq(Row)
    PROVE  /\ totalNetAmount(rows) = SumOver(RowNets(rows), 1 .. Len(rows))
           /\ totalNetAmount(rows) \in Nat
<1> DEFINE D == 1 .. Len(rows)
           Is(g) == g = [s \in SUBSET D |-> IF s = {} THEN 0
                            ELSE g[s \ {Max(s)}] + rows[Max(s)].net]
           it == CHOOSE g : Is(g)
<1>0. D = DOMAIN rows /\ 0 \in Int /\ 1 \in {1, -1} /\ D \in SUBSET D
  BY RowNetsTyped
<1>1. Is(it)
  <2>1. PICK g \in [SUBSET D -> Int] : RowFold(g, rows, 0, 1)
    BY <1>0, RowFoldExists
  <2>2. ASSUME NEW s \in SUBSET D
        PROVE  g[s] = IF s = {} THEN 0 ELSE g[s \ {Max(s)}] + rows[Max(s)].net
    <3>1. CASE s = {}
      BY <2>1, <3>1 DEF RowFold
    <3>2. CASE s # {}
      <4>1. g[s \ {Max(s)}] \in Int /\ rows[Max(s)].net \in Nat
        BY <3>2, RowOfMax
      <4>2. g[s] = g[s \ {Max(s)}] + 1 * rows[Max(s)].net
        BY <2>1, <3>2, <4>1 DEF RowFold
      <4>3. g[s] = g[s \ {Max(s)}] + rows[Max(s)].net
        BY <4>1, <4>2
      <4> QED
        BY <3>2, <4>3
    <3> QED
      BY <3>1, <3>2
  <2>3. Is(g)
    BY <2>2
  <2> QED
    BY <2>3
<1>2. RowFold(it, rows, 0, 1)
  <2> HIDE DEF it
  <2>1. it[{}] = 0
    BY <1>1
  <2>2. ASSUME NEW s \in SUBSET D, s # {}, it[s \ {Max(s)}] \in Int
        PROVE  it[s] = it[s \ {Max(s)}] + 1 * rows[Max(s)].net
    <3>1. it[s] = it[s \ {Max(s)}] + rows[Max(s)].net
      BY <1>1, <2>2
    <3>2. rows[Max(s)].net \in Nat
      BY <2>2, RowOfMax
    <3> QED
      BY <2>2, <3>1, <3>2
  <2> QED
    BY <2>1, <2>2 DEF RowFold
<1>3. totalNetAmount(rows) = it[D]
  BY <1>0 DEF totalNetAmount, FoldLeft, MapThenFoldSet
<1>4. SumOver(RowNets(rows), D) \in Nat
  <2>1. \A k \in D : RowNets(rows)[k] >= 0
    BY RowNetsTyped
  <2> QED
    BY <1>0, <2>1, RowNetsTyped, SumNat
<1>5. it[D] = 0 + 1 * SumOver(RowNets(rows), D)
  <2> HIDE DEF it
  <2> QED
    BY <1>0, <1>2, RowFoldIsSum
<1> HIDE DEF it
<1> QED
  BY <1>3, <1>4, <1>5

\* What the transfers leave of a record is its amount without that total.
LEMMA LeftIsRest ==
    ASSUME NEW r \in Run, NEW b, b.amount \in Nat
    PROVE  /\ Left(b, r) = b.amount - totalNetAmount(Workers[r])
           /\ totalNetAmount(Workers[r]) \in Nat /\ Left(b, r) \in Int
<1> DEFINE rows == Workers[r]
           D == 1 .. Len(rows)
           Is(g) == g = [s \in SUBSET D |-> IF s = {} THEN b.amount
                            ELSE g[s \ {Max(s)}] - rows[Max(s)].net]
           it == CHOOSE g : Is(g)
<1>r. rows \in Seq(Row)
  BY RunsAssumption
<1>0. D = DOMAIN rows /\ b.amount \in Int /\ -1 \in {1, -1} /\ D \in SUBSET D
  BY <1>r, RowNetsTyped
<1>1. Is(it)
  <2>1. PICK g \in [SUBSET D -> Int] : RowFold(g, rows, b.amount, -1)
    <3> HIDE DEF rows
    <3> QED
      BY <1>r, <1>0, RowFoldExists
  <2>2. ASSUME NEW s \in SUBSET D
        PROVE  g[s] = IF s = {} THEN b.amount ELSE g[s \ {Max(s)}] - rows[Max(s)].net
    <3>1. CASE s = {}
      BY <2>1, <3>1 DEF RowFold
    <3>2. CASE s # {}
      <4>1. g[s \ {Max(s)}] \in Int /\ rows[Max(s)].net \in Nat
        BY <1>r, <3>2, RowOfMax
      <4>2. g[s] = g[s \ {Max(s)}] + (-1) * rows[Max(s)].net
        BY <2>1, <3>2, <4>1 DEF RowFold
      <4>3. g[s] = g[s \ {Max(s)}] - rows[Max(s)].net
        BY <4>1, <4>2
      <4> QED
        BY <3>2, <4>3
    <3> QED
      BY <3>1, <3>2
  <2>3. Is(g)
    BY <2>2
  <2> QED
    BY <2>3
<1>2. RowFold(it, rows, b.amount, -1)
  <2> HIDE DEF it, rows
  <2>1. it[{}] = b.amount
    BY <1>1
  <2>2. ASSUME NEW s \in SUBSET D, s # {}, it[s \ {Max(s)}] \in Int
        PROVE  it[s] = it[s \ {Max(s)}] + (-1) * rows[Max(s)].net
    <3>1. it[s] = it[s \ {Max(s)}] - rows[Max(s)].net
      BY <1>1, <2>2
    <3>2. rows[Max(s)].net \in Nat
      BY <1>r, <2>2, RowOfMax
    <3> QED
      BY <2>2, <3>1, <3>2
  <2> QED
    BY <2>1, <2>2 DEF RowFold
<1>3. Left(b, r) = it[D]
  BY <1>0 DEF Left, FoldLeft, MapThenFoldSet
<1>4. it[D] = b.amount + (-1) * SumOver(RowNets(rows), D)
  <2> HIDE DEF it, rows
  <2> QED
    BY <1>r, <1>0, <1>2, RowFoldIsSum
<1>5. totalNetAmount(rows) = SumOver(RowNets(rows), D) /\ totalNetAmount(rows) \in Nat
  <2> HIDE DEF rows
  <2> QED
    BY <1>r, TotalIsSum
<1> HIDE DEF it
<1> QED
  BY <1>3, <1>4, <1>5

LEMMA HeldSum ==
    ASSUME NEW ts \in SUBSET Record
    PROVE  Held(ts) = SumOver(AmountOf, ts)
<1> DEFINE pick(s) == CHOOSE t \in s : TRUE
           byField(iter) == iter = [s \in SUBSET ts |->
               IF s = {} THEN 0 ELSE pick(s).amount + iter[s \ {pick(s)}]]
           byFunction(iter) == iter = [s \in SUBSET ts |->
               IF s = {} THEN 0 ELSE AmountOf[pick(s)] + iter[s \ {pick(s)}]]
<1>1. \A s \in SUBSET ts : s # {} => AmountOf[pick(s)] = pick(s).amount
  BY DEF AmountOf
<1>2. \A iter : byField(iter) <=> byFunction(iter)
  <2> SUFFICES ASSUME NEW iter PROVE byField(iter) <=> byFunction(iter)
    OBVIOUS
  <2> QED
    BY <1>1
<1>3. (CHOOSE iter : byField(iter)) = (CHOOSE iter : byFunction(iter))
  <2> HIDE DEF byField, byFunction
  <2> QED
    BY <1>2
<1>4. SumOver(AmountOf, ts) = (CHOOSE iter : byFunction(iter))[ts]
  BY DEF SumOver, MapThenSumSet, MapThenFoldSet
<1>5. Held(ts) = (CHOOSE iter : byField(iter))[ts]
  BY DEF Held, MapThenSumSet, MapThenFoldSet
<1> QED
  BY <1>3, <1>4, <1>5

LEMMA PaidSum ==
    ASSUME NEW ts \in SUBSET Disbursement
    PROVE  Paid(ts) = SumOver(NetOf, ts)
<1> DEFINE pick(s) == CHOOSE t \in s : TRUE
           byField(iter) == iter = [s \in SUBSET ts |->
               IF s = {} THEN 0 ELSE pick(s).net + iter[s \ {pick(s)}]]
           byFunction(iter) == iter = [s \in SUBSET ts |->
               IF s = {} THEN 0 ELSE NetOf[pick(s)] + iter[s \ {pick(s)}]]
<1>1. \A s \in SUBSET ts : s # {} => NetOf[pick(s)] = pick(s).net
  BY DEF NetOf
<1>2. \A iter : byField(iter) <=> byFunction(iter)
  <2> SUFFICES ASSUME NEW iter PROVE byField(iter) <=> byFunction(iter)
    OBVIOUS
  <2> QED
    BY <1>1
<1>3. (CHOOSE iter : byField(iter)) = (CHOOSE iter : byFunction(iter))
  <2> HIDE DEF byField, byFunction
  <2> QED
    BY <1>2
<1>4. SumOver(NetOf, ts) = (CHOOSE iter : byFunction(iter))[ts]
  BY DEF SumOver, MapThenSumSet, MapThenFoldSet
<1>5. Paid(ts) = (CHOOSE iter : byField(iter))[ts]
  BY DEF Paid, MapThenSumSet, MapThenFoldSet
<1> QED
  BY <1>3, <1>4, <1>5

\* What a settlement of payable rows adds: a disbursement for each, of their total.
DisbursementsOf(r) ==
    {[agreement_id |-> Workers[r][k].agreement_id, epoch_id |-> Workers[r][k].epoch_id,
      net |-> Workers[r][k].net, run |-> r] : k \in DOMAIN Workers[r]}

LEMMA RowsPaid ==
    ASSUME NEW r \in Run, Payable(Workers[r])
    PROVE  /\ DisbursementsOf(r) \in SUBSET Disbursement /\ IsFiniteSet(DisbursementsOf(r))
           /\ DisbursementsOf(r) # {}
           /\ \A p \in DisbursementsOf(r) : p.run = r /\ PaidKey(p) \in EntriesOf(Workers[r])
           /\ \A p, q \in DisbursementsOf(r) : PaidKey(p) = PaidKey(q) => p = q
           /\ SumOver(NetOf, DisbursementsOf(r)) = totalNetAmount(Workers[r])
<1> DEFINE rows == Workers[r]
           D == 1 .. Len(rows)
           pays == [k \in D |-> [agreement_id |-> rows[k].agreement_id,
                                 epoch_id |-> rows[k].epoch_id,
                                 net |-> rows[k].net, run |-> r]]
           new == DisbursementsOf(r)
<1>r. rows \in Seq(Row) /\ rows # <<>>
  <2>1. rows \in Seq(Row) /\ Len(rows) \in 1 .. 2
    BY RunsAssumption
  <2>2. Len(<<>>) = 0
    OBVIOUS
  <2> QED
    BY <2>1, <2>2
<1>0. D = DOMAIN rows /\ IsFiniteSet(D) /\ Cardinality(D) = Len(rows) /\ D # {}
  <2> HIDE DEF rows
  <2>1. Len(rows) \in Nat /\ Len(rows) # 0
    BY <1>r
  <2> QED
    <3>1. IsFiniteSet(D) /\ Cardinality(D) = IF 1 > Len(rows) THEN 0 ELSE Len(rows) - 1 + 1
      BY <2>1, FS_Interval
    <3>2. D = DOMAIN rows /\ 1 \in D
      BY <1>r, <2>1
    <3> QED
      BY <2>1, <3>1, <3>2
<1>1. \A k \in D : rows[k] \in Row
  BY <1>r
<1>2. \A a, b \in D : PaidKey(rows[a]) = PaidKey(rows[b]) => a = b
  BY <1>0 DEF Payable, Entries
<1>3. new \in SUBSET Disbursement
  BY <1>0, <1>1 DEF DisbursementsOf, Disbursement, Row
<1>4. /\ \A k \in D : pays[k] \in new
      /\ \A p \in new : \E k \in D : p = pays[k]
  BY <1>0 DEF DisbursementsOf
<1>k. \A k \in D : PaidKey(pays[k]) = PaidKey(rows[k])
  BY DEF PaidKey
<1>5. \A a, b \in D : PaidKey(pays[a]) = PaidKey(pays[b]) => a = b
  <2> HIDE DEF pays, rows
  <2> QED
    BY <1>2, <1>k
<1>6. pays \in Bijection(D, new)
  <2>1. pays \in [D -> new]
    BY <1>4
  <2>2. \A a, b \in D : pays[a] = pays[b] => a = b
    BY <1>5
  <2> HIDE DEF pays, new, D
  <2> QED
    BY <1>4, <2>1, <2>2 DEF Bijection, Injection, Surjection, IsInjective
<1>7. IsFiniteSet(new)
  <2> HIDE DEF pays, new, D
  <2> QED
    BY <1>0, <1>6, FS_Surjection DEF Bijection
<1>8. SumOver(NetOf, new) = SumOver(RowNets(rows), D)
  <2> DEFINE nets == RowNets(rows)
  <2>1. NetOf \in [Disbursement -> Int]
    BY DEF NetOf, Disbursement
  <2>2. nets \in [D -> Int]
    <3> HIDE DEF rows
    <3> QED
      BY <1>r, RowNetsTyped
  <2>3. \A k \in D : NetOf[pays[k]] = nets[k]
    <3> SUFFICES ASSUME NEW k \in D PROVE NetOf[pays[k]] = nets[k]
      OBVIOUS
    <3>1. pays[k] \in Disbursement
      BY <1>3, <1>4
    <3> QED
      BY <3>1 DEF NetOf, RowNets
  <2>4. SumOver(NetOf, new) = SumOver(nets, D)
    <3> HIDE DEF pays, new, D, rows, nets
    <3>1. IsFiniteSet(D)
      BY <1>0
    <3>2. \A k \in D : NetOf[pays[k]] = nets[k]
      BY <2>3
    <3> QED
      BY <3>1, <1>3, <1>6, <2>1, <2>2, <3>2, SumRenamed
  <2> QED
    BY <2>4
<1>9. totalNetAmount(rows) = SumOver(RowNets(rows), D)
  <2> HIDE DEF rows
  <2> QED
    BY <1>r, TotalIsSum
<1>10. ASSUME NEW p \in new PROVE p.run = r /\ PaidKey(p) \in EntriesOf(rows)
  <2>1. PICK k \in D : p = pays[k]
    BY <1>4
  <2>2. p.run = r
    BY <2>1
  <2>3. PaidKey(rows[k]) \in Entries(rows[k])
    BY DEF Entries
  <2> HIDE DEF pays, rows
  <2>4. PaidKey(p) \in EntriesOf(rows)
    BY <1>0, <1>k, <2>1, <2>3 DEF EntriesOf
  <2> QED
    BY <2>2, <2>4
<1>11. ASSUME NEW p \in new, NEW q \in new, PaidKey(p) = PaidKey(q) PROVE p = q
  <2>1. PICK a \in D, b \in D : p = pays[a] /\ q = pays[b]
    BY <1>4
  <2>2. a = b
    BY <1>5, <1>11, <2>1
  <2> QED
    BY <2>1, <2>2
<1>12. new # {}
  BY <1>0, <1>4
<1> QED
  BY <1>3, <1>7, <1>8, <1>9, <1>10, <1>11, <1>12

----------------------------------------------------------------------------
\* A step that touches one run leaves the phases of the others.
LEMMA GoesOnly ==
    ASSUME RunsTyped, NEW r \in Run, NEW to \in Phase, Goes(r, to)
    PROVE  /\ phase' \in [Run -> Phase] /\ phase'[r] = to
           /\ \A q \in Run : q # r => phase'[q] = phase[q]
BY DEF RunsTyped, Goes

LEMMA AmountsTyped ==
    /\ AmountOf \in [Record -> Int] /\ NetOf \in [Disbursement -> Int]
    /\ \A t \in Record : AmountOf[t] = t.amount /\ t.amount \in Nat /\ t.id \in Nat
BY DEF AmountOf, NetOf, Record, Disbursement

\* The ids given out so far.
Payers(ps) == {p.run : p \in ps}

LEMMA PayersFinite ==
    ASSUME NEW ps, IsFiniteSet(ps)
    PROVE  IsFiniteSet(Payers(ps)) /\ Cardinality(Payers(ps)) \in Nat
<1> DEFINE of == [p \in ps |-> p.run]
<1>1. of \in Surjection(ps, Payers(ps))
  BY DEF Surjection, Payers
<1>2. IsFiniteSet(Payers(ps))
  <2> HIDE DEF of
  <2> QED
    BY <1>1, FS_Surjection
<1> QED
  BY <1>2, FS_CardinalityType

LEMMA NextIdTyped ==
    ASSUME LedgerTyped
    PROVE  NextId = 1 + Cardinality(Opening) + Cardinality(Payers(payments)) /\ NextId \in Nat
<1>1. Cardinality(Opening) \in Nat /\ Cardinality(Payers(payments)) \in Nat
  BY PayersFinite, FS_CardinalityType, RunsAssumption DEF LedgerTyped
<1> QED
  BY <1>1 DEF NextId, Payers

LEMMA InitRInv == RunsInit => RInv
<1> SUFFICES ASSUME RunsInit PROVE RInv
  OBVIOUS
<1> USE DEF RunsInit
<1>1. LedgerTyped
  BY RunsAssumption, FS_EmptySet DEF LedgerTyped
<1>2. RunsTyped
  <2>1. <<>> \in Seq(Instruction)
    OBVIOUS
  <2>2. "waiting" \in Phase
    BY DEF Phase
  <2> QED
    BY <2>1, <2>2 DEF RunsTyped
<1>3. NextIsNew
  <2>1. NextId = 1 + Cardinality(Opening) /\ Cardinality(Opening) \in Nat
    <3>1. Payers(payments) = {}
      BY DEF Payers
    <3>2. Cardinality(Opening) \in Nat
      BY RunsAssumption, FS_CardinalityType
    <3>3. Cardinality(Payers(payments)) = 0
      BY <3>1, FS_EmptySet
    <3>4. NextId = 1 + Cardinality(Opening) + Cardinality(Payers(payments))
      BY <1>1, NextIdTyped
    <3> QED
      BY <3>2, <3>3, <3>4
  <2>2. \A t \in Opening : t.id \in Nat /\ t.id <= Cardinality(Opening)
    BY RunsAssumption DEF Record
  <2> QED
    BY <2>1, <2>2 DEF NextIsNew, NoRecord
<1>4. PaymentsSettle /\ ChosenCovers /\ PlanLeft /\ PaidOnce
  BY DEF PaymentsSettle, ChosenCovers, PlanLeft, PaidOnce
<1>5. MoneyKept
  <2>1. SumOver(AmountOf, Opening) \in Int
    BY RunsAssumption, AmountsTyped, SumInt
  <2>2. SumOver(NetOf, {}) = 0
    BY SumEmpty
  <2> QED
    BY <2>1, <2>2 DEF MoneyKept
<1>6. InsufficientIsTrue
  BY DEF InsufficientIsTrue
<1> QED
  BY <1>1, <1>2, <1>3, <1>4, <1>5, <1>6 DEF RInv

\* What a step that leaves the ledger alone cannot disturb.
LEMMA LedgerKeeps ==
    ASSUME LedgerTyped, PaidOnce, MoneyKept, UNCHANGED ledger
    PROVE  LedgerTyped' /\ PaidOnce' /\ MoneyKept' /\ NextId' = NextId
BY DEF ledger, LedgerTyped, PaidOnce, MoneyKept, NextId, SumOver, MapThenSumSet, MapThenFoldSet

\* A fetch that begins, is answered, fails or is aborted only moves its run.
LEMMA FetchMoveKeeps ==
    ASSUME RInv, NEW r \in Run, NEW to \in {"reading", "api_error", "parse_error", "no_records"},
           phase[r] \in {"waiting", "reading"}, Goes(r, to),
           UNCHANGED <<ledger, record, todo>>,
           fetches' = fetches, seen' \in [Run -> SUBSET Record],
           \A q \in Run : q # r => seen'[q] = seen[q]
    PROVE  RInv'
<1> USE DEF RInv
<1>0. /\ phase' \in [Run -> Phase] /\ phase'[r] = to
      /\ \A q \in Run : q # r => phase'[q] = phase[q]
  <2>1. to \in Phase
    BY DEF Phase, FetchError
  <2> QED
    BY <2>1, GoesOnly
<1>1. LedgerTyped' /\ PaidOnce' /\ MoneyKept' /\ NextId' = NextId
  BY LedgerKeeps
<1>2. RunsTyped'
  BY <1>0 DEF RunsTyped
<1>3. NextIsNew'
  BY <1>1 DEF NextIsNew, ledger
<1>4. PaymentsSettle'
  BY <1>0 DEF PaymentsSettle, ledger, LedgerTyped, Disbursement
<1>5. ChosenCovers' /\ PlanLeft'
  BY <1>0 DEF ChosenCovers, PlanLeft
<1>6. InsufficientIsTrue'
  BY <1>0 DEF InsufficientIsTrue
<1> QED
  BY <1>1, <1>2, <1>3, <1>4, <1>5, <1>6

\* Every plan asserts its own rows, if it asserts, and ends with the settlement.
LEMMA PlanMade ==
    ASSUME NEW r \in Run
    PROVE  /\ PlanOf(r) \in Seq(Instructions(r)) /\ PlanOf(r) # <<>>
           /\ PlanOf(r)[Len(PlanOf(r))] = [pay |-> Workers[r]]
<1> DEFINE rows == Workers[r]
           last == [pay |-> rows]
           first == IF Prechecks[r]
                    THEN [k \in DOMAIN rows |-> [assert |-> rows[k].agreement_id]] ELSE <<>>
<1>1. rows \in Seq(Row) /\ Len(rows) \in Nat /\ DOMAIN rows = 1 .. Len(rows)
  BY RunsAssumption
<1>2. last \in Instructions(r)
  BY DEF Instructions
<1>3. first \in Seq(Instructions(r))
  <2>1. CASE Prechecks[r]
    <3>1. \A k \in 1 .. Len(rows) : [assert |-> rows[k].agreement_id] \in Instructions(r)
      BY <1>1 DEF Instructions, Agreements
    <3>2. first = [k \in 1 .. Len(rows) |-> [assert |-> rows[k].agreement_id]]
      BY <1>1, <2>1
    <3> QED
      BY <1>1, <3>1, <3>2
  <2>2. CASE ~Prechecks[r]
    BY <2>2
  <2> QED
    BY <2>1, <2>2
<1>4. PlanOf(r) = first \o <<last>>
  BY DEF PlanOf
<1> HIDE DEF first, last
<1>5. <<last>> \in Seq(Instructions(r)) /\ Len(<<last>>) = 1 /\ <<last>>[1] = last
  BY <1>2
<1>6. /\ first \o <<last>> \in Seq(Instructions(r))
      /\ Len(first \o <<last>>) = Len(first) + 1 /\ Len(first) \in Nat
      /\ (first \o <<last>>)[Len(first) + 1] = last
  BY <1>3, <1>5
<1>7. first \o <<last>> # <<>>
  BY <1>6
<1> QED
  BY <1>4, <1>6, <1>7 DEF last

LEMMA InstructionsOfRun == \A r \in Run : Seq(Instructions(r)) \subseteq Seq(Instruction)
<1> SUFFICES ASSUME NEW r \in Run, NEW s \in Seq(Instructions(r))
             PROVE  s \in Seq(Instruction)
  OBVIOUS
<1>1. Instructions(r) \subseteq Instruction
  BY DEF Instruction
<1> QED
  BY <1>1

\* The answer: the run has a record that covers it, or is told why not.
LEMMA AnswerKeeps ==
    ASSUME RInv, NEW r \in Run, Answer(r)
    PROVE  RInv'
<1> USE DEF RInv
<1> DEFINE total == totalNetAmount(Workers[r])
<1>l. UNCHANGED ledger /\ phase[r] = "reading" /\ fetches' = fetches
  BY DEF Answer
<1>1. PICK readable \in SUBSET unspent :
          \/ /\ Goes(r, "no_records") /\ UNCHANGED <<seen, record, todo>>
          \/ /\ Best(readable, total) = {}
             /\ seen' = [seen EXCEPT ![r] = readable]
             /\ Goes(r, "insufficient_balance") /\ UNCHANGED <<record, todo>>
          \/ \E b \in Best(readable, total) :
                /\ record' = [record EXCEPT ![r] = b]
                /\ todo' = [todo EXCEPT ![r] = PlanOf(r)]
                /\ Goes(r, "executing") /\ UNCHANGED seen
  BY DEF Answer
<1>2. readable \in SUBSET Record /\ IsFiniteSet(readable)
  BY FS_Subset DEF LedgerTyped
<1>4. LedgerTyped' /\ PaidOnce' /\ MoneyKept' /\ NextId' = NextId
  BY <1>l, LedgerKeeps
<1>5. CASE Goes(r, "no_records") /\ UNCHANGED <<seen, record, todo>>
  <2>1. seen' \in [Run -> SUBSET Record] /\ \A q \in Run : q # r => seen'[q] = seen[q]
    BY <1>5 DEF RunsTyped
  <2> QED
    BY <1>l, <1>5, <2>1, FetchMoveKeeps
<1>6. CASE /\ Best(readable, total) = {}
           /\ seen' = [seen EXCEPT ![r] = readable]
           /\ Goes(r, "insufficient_balance") /\ UNCHANGED <<record, todo>>
  <2>0. /\ phase' \in [Run -> Phase] /\ phase'[r] = "insufficient_balance"
        /\ \A q \in Run : q # r => phase'[q] = phase[q]
    <3>1. "insufficient_balance" \in Phase
      BY DEF Phase, FetchError
    <3> QED
      BY <1>6, <3>1, GoesOnly
  <2>s. /\ seen' \in [Run -> SUBSET Record] /\ seen'[r] = readable
        /\ \A q \in Run : q # r => seen'[q] = seen[q]
    BY <1>2, <1>6 DEF RunsTyped
  <2>1. RunsTyped'
    BY <1>l, <1>6, <2>0, <2>s DEF RunsTyped
  <2>2. NextIsNew'
    BY <1>l, <1>4, <1>6 DEF NextIsNew, ledger
  <2>3. PaymentsSettle'
    BY <1>l, <2>0 DEF PaymentsSettle, ledger, LedgerTyped, Disbursement
  <2>4. ChosenCovers' /\ PlanLeft'
    BY <1>6, <2>0 DEF ChosenCovers, PlanLeft
  <2>5. \A b \in readable : Left(b, r) < 0
    <3> SUFFICES ASSUME NEW b \in readable PROVE Left(b, r) < 0
      OBVIOUS
    <3>1. PICK top \in readable : \A o \in readable : AmountOf[top] >= AmountOf[o]
      BY <1>2, AmountsTyped, Largest
    <3>2. ~ (top.amount >= total)
      BY <1>2, <1>6, <3>1, AmountsTyped DEF Best
    <3>3. b.amount \in Nat /\ top.amount \in Nat /\ top.amount >= b.amount
      BY <1>2, <3>1, AmountsTyped
    <3>4. Left(b, r) = b.amount - total /\ total \in Nat
      BY <3>3, LeftIsRest
    <3> HIDE DEF total
    <3> QED
      BY <3>2, <3>3, <3>4
  <2>6. InsufficientIsTrue'
    BY <2>0, <2>5, <2>s DEF InsufficientIsTrue
  <2> QED
    BY <1>4, <2>1, <2>2, <2>3, <2>4, <2>6
<1>7. ASSUME NEW b \in Best(readable, total), record' = [record EXCEPT ![r] = b],
             todo' = [todo EXCEPT ![r] = PlanOf(r)], Goes(r, "executing"), seen' = seen
      PROVE  RInv'
  <2>0. /\ phase' \in [Run -> Phase] /\ phase'[r] = "executing"
        /\ \A q \in Run : q # r => phase'[q] = phase[q]
    <3>1. "executing" \in Phase
      BY DEF Phase
    <3> QED
      BY <1>7, <3>1, GoesOnly
  <2>b. b \in unspent /\ b \in Record /\ b.amount >= total
    BY <1>2, <1>7 DEF Best
  <2>p. PlanOf(r) \in Seq(Instruction)
    BY PlanMade, InstructionsOfRun
  <2>r. /\ record'[r] = b /\ \A q \in Run : q # r => record'[q] = record[q]
        /\ todo'[r] = PlanOf(r) /\ \A q \in Run : q # r => todo'[q] = todo[q]
    BY <1>7 DEF RunsTyped
  <2>1. RunsTyped'
    BY <1>l, <1>7, <2>0, <2>b, <2>p DEF RunsTyped
  <2>2. NextIsNew'
    BY <1>l, <1>4, <2>b, <2>r DEF NextIsNew, ledger
  <2>3. PaymentsSettle'
    BY <1>l, <2>0 DEF PaymentsSettle, ledger, LedgerTyped, Disbursement
  <2>4. ChosenCovers'
    BY <2>0, <2>b, <2>r DEF ChosenCovers
  <2>5. PlanLeft'
    BY <2>0, <2>r, PlanMade DEF PlanLeft
  <2>6. InsufficientIsTrue'
    BY <1>7, <2>0 DEF InsufficientIsTrue
  <2> QED
    BY <1>4, <2>1, <2>2, <2>3, <2>4, <2>5, <2>6
<1> QED
  BY <1>1, <1>5, <1>6, <1>7

\* A run that is started again forgets its record and its plan.
LEMMA FetchAgainKeeps ==
    ASSUME RInv, NEW r \in Run, FetchAgain(r)
    PROVE  RInv'
<1> USE DEF RInv
<1>0. /\ phase' \in [Run -> Phase] /\ phase'[r] = "waiting"
      /\ \A q \in Run : q # r => phase'[q] = phase[q]
  <2>1. "waiting" \in Phase
    BY DEF Phase
  <2> QED
    BY <2>1, GoesOnly DEF FetchAgain
<1>l. UNCHANGED ledger
  BY DEF FetchAgain
<1>r. /\ record'[r] = NoRecord /\ \A q \in Run : q # r => record'[q] = record[q]
      /\ \A q \in Run : q # r => todo'[q] = todo[q] /\ seen'[q] = seen[q]
      /\ phase[r] # "paid"
  BY DEF FetchAgain, RunsTyped, FetchError
<1>1. LedgerTyped' /\ PaidOnce' /\ MoneyKept' /\ NextId' = NextId
  BY <1>l, LedgerKeeps
<1>2. RunsTyped'
  <2>1. todo' \in [Run -> Seq(Instruction)]
    <3>1. <<>> \in Seq(Instruction)
      OBVIOUS
    <3> QED
      BY <3>1 DEF RunsTyped, FetchAgain
  <2>2. fetches' \in [Run -> Nat] /\ seen' \in [Run -> SUBSET Record]
    BY DEF RunsTyped, FetchAgain
  <2>3. record' \in [Run -> Record \cup {NoRecord}]
    BY DEF RunsTyped, FetchAgain
  <2> QED
    BY <1>0, <2>1, <2>2, <2>3 DEF RunsTyped
<1>3. NextIsNew'
  <2>1. 0 < NextId
    <3>1. Cardinality(Opening) \in Nat /\ Cardinality(Payers(payments)) \in Nat
      BY PayersFinite, FS_CardinalityType, RunsAssumption DEF LedgerTyped
    <3> QED
      BY <3>1, NextIdTyped
  <2> QED
    BY <1>l, <1>1, <1>r, <2>1 DEF NextIsNew, ledger, NoRecord
<1>4. PaymentsSettle'
  BY <1>l, <1>0, <1>r DEF PaymentsSettle, ledger, LedgerTyped, Disbursement
<1>5. ChosenCovers' /\ PlanLeft'
  BY <1>0, <1>r DEF ChosenCovers, PlanLeft
<1>6. InsufficientIsTrue'
  BY <1>0, <1>r DEF InsufficientIsTrue
<1> QED
  BY <1>1, <1>2, <1>3, <1>4, <1>5, <1>6

\* An assertion finds the agreement active, and the plan goes on, or it has ended.
LEMMA AssertKeeps ==
    ASSUME RInv, NEW r \in Run, AssertActive(r)
    PROVE  RInv'
<1> USE DEF RInv
<1>l. UNCHANGED ledger /\ fetches' = fetches /\ seen' = seen /\ record' = record
  BY DEF AssertActive
<1>1. LedgerTyped' /\ PaidOnce' /\ MoneyKept' /\ NextId' = NextId
  BY <1>l, LedgerKeeps
<1>2. /\ todo[r] \in Seq(Instructions(r)) /\ todo[r] # <<>>
      /\ todo[r][Len(todo[r])] = [pay |-> Workers[r]]
      /\ "assert" \in DOMAIN Head(todo[r]) /\ phase[r] = "executing"
  BY DEF AssertActive, Asserting, NextStep, PlanLeft
<1>4. CASE agreement_status[Head(todo[r]).assert] # "active"
  <2>0. Goes(r, "reverted") /\ todo' = todo
    BY <1>4 DEF AssertActive, NextStep
  <2>1. /\ phase' \in [Run -> Phase] /\ phase'[r] = "reverted"
        /\ \A q \in Run : q # r => phase'[q] = phase[q]
    <3>1. "reverted" \in Phase
      BY DEF Phase
    <3> QED
      BY <2>0, <3>1, GoesOnly
  <2>2. RunsTyped'
    BY <1>l, <2>0, <2>1 DEF RunsTyped
  <2>3. NextIsNew'
    BY <1>l, <1>1 DEF NextIsNew, ledger
  <2>4. PaymentsSettle'
    BY <1>l, <1>2, <2>1 DEF PaymentsSettle, ledger, LedgerTyped, Disbursement
  <2>5. ChosenCovers' /\ PlanLeft'
    BY <1>l, <1>2, <2>0, <2>1 DEF ChosenCovers, PlanLeft
  <2>6. InsufficientIsTrue'
    BY <1>l, <2>1 DEF InsufficientIsTrue
  <2> QED
    BY <1>1, <2>2, <2>3, <2>4, <2>5, <2>6
<1>5. CASE agreement_status[Head(todo[r]).assert] = "active"
  <2>0. phase' = phase /\ todo' = [todo EXCEPT ![r] = Tail(todo[r])]
    BY <1>5 DEF AssertActive, NextStep
  <2>1. /\ Tail(todo[r]) \in Seq(Instructions(r)) /\ Tail(todo[r]) # <<>>
        /\ Tail(todo[r])[Len(Tail(todo[r]))] = [pay |-> Workers[r]]
    <3> DEFINE s == todo[r]
    <3>1. Len(s) # 1
      <4>1. Len(s) = 1 => Head(s) = s[Len(s)]
        BY <1>2
      <4> QED
        BY <1>2, <4>1
    <3>2. s \in Seq(Instructions(r)) /\ Len(s) > 1
      BY <1>2, <3>1
    <3> HIDE DEF s
    <3>3. /\ Tail(s) \in Seq(Instructions(r)) /\ Len(Tail(s)) = Len(s) - 1
          /\ Tail(s)[Len(s) - 1] = s[Len(s)]
      BY <3>2
    <3>4. Tail(s) # <<>>
      <4>1. Len(Tail(s)) # 0 /\ Len(<<>>) = 0
        BY <3>2, <3>3
      <4> QED
        BY <4>1
    <3> QED
      BY <1>2, <3>3, <3>4 DEF s
  <2>r. todo'[r] = Tail(todo[r]) /\ \A q \in Run : q # r => todo'[q] = todo[q]
    BY <2>0 DEF RunsTyped
  <2>2. RunsTyped'
    <3>1. Tail(todo[r]) \in Seq(Instruction)
      BY <2>1, InstructionsOfRun
    <3> QED
      BY <1>l, <2>0, <3>1 DEF RunsTyped
  <2>3. NextIsNew'
    BY <1>l, <1>1 DEF NextIsNew, ledger
  <2>4. PaymentsSettle' /\ ChosenCovers'
    BY <1>l, <2>0 DEF PaymentsSettle, ChosenCovers, ledger
  <2>5. PlanLeft'
    BY <2>0, <2>1, <2>r DEF PlanLeft
  <2>6. InsufficientIsTrue'
    BY <1>l, <2>0 DEF InsufficientIsTrue
  <2> QED
    BY <1>1, <2>2, <2>3, <2>4, <2>5, <2>6
<1> QED
  BY <1>4, <1>5

\* An agreement moves under the runs, or others write: the runs keep what they have.
LEMMA MovesKeeps ==
    ASSUME RInv, NEW g \in Agreement, AgreementMoves(g)
    PROVE  RInv'
<1> USE DEF RInv, AgreementMoves, portalVars
<1>1. LedgerTyped' /\ PaidOnce' /\ MoneyKept'
  BY DEF LedgerTyped, PaidOnce, PaidKey, MoneyKept, SumOver, MapThenSumSet, MapThenFoldSet
<1>2. RunsTyped' /\ NextIsNew' /\ PaymentsSettle' /\ ChosenCovers' /\ PlanLeft'
  BY DEF RunsTyped, NextIsNew, NextId, PaymentsSettle, ChosenCovers, PlanLeft
<1>3. InsufficientIsTrue'
  BY DEF InsufficientIsTrue
<1> QED
  BY <1>1, <1>2, <1>3

LEMMA OthersKeep ==
    ASSUME RInv, NEW entries, OthersWrite(entries)
    PROVE  RInv'
<1> USE DEF RInv, OthersWrite, portalVars
<1>1. LedgerTyped' /\ PaidOnce' /\ MoneyKept'
  BY DEF LedgerTyped, PaidOnce, PaidKey, MoneyKept, SumOver, MapThenSumSet, MapThenFoldSet
<1>2. RunsTyped' /\ NextIsNew' /\ PaymentsSettle' /\ ChosenCovers' /\ PlanLeft'
  BY DEF RunsTyped, NextIsNew, NextId, PaymentsSettle, ChosenCovers, PlanLeft
<1>3. InsufficientIsTrue'
  BY DEF InsufficientIsTrue
<1> QED
  BY <1>1, <1>2, <1>3

\* A settlement spends the record, pays each row and leaves the rest in a new record.
LEMMA SettlementKeeps ==
    ASSUME RInv, NEW r \in Run, ExecutePayroll(r), Settles(r)
    PROVE  RInv'
<1> USE DEF RInv
<1> DEFINE old == record[r]
           new == [id |-> NextId, amount |-> Left(old, r)]
           total == totalNetAmount(Workers[r])
<1>0. /\ phase[r] = "executing" /\ Goes(r, "paid")
      /\ payments' = payments \cup DisbursementsOf(r)
      /\ unspent' = (unspent \ {old}) \cup {new}
      /\ todo' = [todo EXCEPT ![r] = <<>>]
      /\ written' = written \cup EntriesOf(Workers[r])
      /\ agreement_status' = agreement_status
      /\ fetches' = fetches /\ seen' = seen /\ record' = record
      /\ old \in unspent /\ Left(old, r) >= 0 /\ Payable(Workers[r])
      /\ EntriesOf(Workers[r]) \cap written = {}
  BY DEF ExecutePayroll, Paying, Settles, DisbursementsOf
<1>1. /\ phase' \in [Run -> Phase] /\ phase'[r] = "paid"
      /\ \A q \in Run : q # r => phase'[q] = phase[q]
  <2>1. "paid" \in Phase
    BY DEF Phase
  <2> QED
    BY <1>0, <2>1, GoesOnly
<1>2. /\ DisbursementsOf(r) \in SUBSET Disbursement /\ IsFiniteSet(DisbursementsOf(r))
      /\ DisbursementsOf(r) # {}
      /\ \A p \in DisbursementsOf(r) : p.run = r /\ PaidKey(p) \in EntriesOf(Workers[r])
      /\ \A p, q \in DisbursementsOf(r) : PaidKey(p) = PaidKey(q) => p = q
      /\ SumOver(NetOf, DisbursementsOf(r)) = total
  BY <1>0, RowsPaid
<1>3. /\ old \in Record /\ old.amount \in Nat
      /\ Left(old, r) = old.amount - total /\ total \in Nat /\ Left(old, r) \in Nat
  <2>1. old \in Record /\ old.amount \in Nat
    BY <1>0, AmountsTyped DEF LedgerTyped
  <2>2. Left(old, r) = old.amount - total /\ total \in Nat /\ Left(old, r) \in Int
    BY <2>1, LeftIsRest
  <2> QED
    BY <1>0, <2>1, <2>2
<1>n. NextId \in Nat \ {0} /\ new \in Record
  <2>1. Cardinality(Opening) \in Nat /\ Cardinality(Payers(payments)) \in Nat
    BY PayersFinite, FS_CardinalityType, RunsAssumption DEF LedgerTyped
  <2>2. NextId \in Nat \ {0}
    BY <2>1, NextIdTyped
  <2> QED
    BY <1>3, <2>2 DEF Record
<1>a. new \notin unspent /\ new # old
  BY <1>0, <1>n DEF NextIsNew
<1>d. \A p \in payments : p.run # r /\ PaidKey(p) \notin EntriesOf(Workers[r])
  BY <1>0 DEF PaymentsSettle, PaidOnce
<1> HIDE DEF old, new, total
<1>4. LedgerTyped'
  <2>1. unspent' \in SUBSET Record /\ payments' \in SUBSET Disbursement
    BY <1>0, <1>2, <1>n DEF LedgerTyped
  <2>2. IsFiniteSet(unspent') /\ IsFiniteSet(payments')
    <3>1. IsFiniteSet(unspent \ {old})
      BY FS_Subset DEF LedgerTyped
    <3>2. IsFiniteSet((unspent \ {old}) \cup {new})
      BY <3>1, FS_AddElement
    <3>3. IsFiniteSet(payments \cup DisbursementsOf(r))
      BY <1>2, FS_Union DEF LedgerTyped
    <3> QED
      BY <1>0, <3>2, <3>3
  <2> QED
    BY <1>0, <2>1, <2>2 DEF LedgerTyped
<1>5. RunsTyped'
  <2>1. <<>> \in Seq(Instruction)
    OBVIOUS
  <2> QED
    BY <1>0, <1>1, <2>1 DEF RunsTyped
<1>6. NextId' = NextId + 1
  <2>1. Payers(payments') = Payers(payments) \cup {r} /\ r \notin Payers(payments)
    BY <1>0, <1>2, <1>d DEF Payers
  <2>2. Cardinality(Payers(payments')) = Cardinality(Payers(payments)) + 1
        /\ Cardinality(Payers(payments)) \in Nat
    BY <2>1, PayersFinite, FS_AddElement DEF LedgerTyped
  <2>3. /\ NextId' = 1 + Cardinality(Opening) + Cardinality(Payers(payments'))
        /\ NextId = 1 + Cardinality(Opening) + Cardinality(Payers(payments))
    BY <1>4, NextIdTyped DEF NextId, Payers
  <2>4. Cardinality(Opening) \in Nat
    BY RunsAssumption, FS_CardinalityType
  <2> QED
    BY <2>2, <2>3, <2>4
<1>7. NextIsNew'
  <2>1. \A t \in unspent' : t.id < NextId + 1
    <3>1. new.id = NextId
      BY DEF new
    <3>2. \A t \in unspent : t.id \in Nat /\ t.id < NextId
      BY AmountsTyped DEF LedgerTyped, NextIsNew
    <3> QED
      BY <1>0, <1>n, <3>1, <3>2
  <2>2. \A q \in Run : record[q].id < NextId + 1
    <3>1. \A q \in Run : record[q].id \in Nat /\ record[q].id < NextId
      BY AmountsTyped DEF RunsTyped, NextIsNew, NoRecord
    <3> QED
      BY <1>n, <3>1
  <2> QED
    BY <1>0, <1>6, <2>1, <2>2 DEF NextIsNew
<1>8. PaymentsSettle'
  <2> SUFFICES ASSUME NEW p \in payments' PROVE phase'[p.run] = "paid"
    BY DEF PaymentsSettle
  <2>1. p.run \in Run
    BY <1>4 DEF LedgerTyped, Disbursement
  <2> QED
    BY <1>0, <1>1, <1>2, <2>1 DEF PaymentsSettle
<1>9. ChosenCovers' /\ PlanLeft'
  <2>1. \A q \in Run : q # r => todo'[q] = todo[q]
    BY <1>0 DEF RunsTyped
  <2> QED
    BY <1>0, <1>1, <2>1 DEF ChosenCovers, PlanLeft
<1>10. PaidOnce'
  <2>1. ASSUME NEW p \in payments' PROVE PaidKey(p) \in written'
    BY <1>0, <1>2 DEF PaidOnce
  <2>2. ASSUME NEW p \in payments', NEW q \in payments', PaidKey(p) = PaidKey(q)
        PROVE  p = q
    BY <1>0, <1>2, <1>d, <2>2 DEF PaidOnce
  <2> QED
    BY <2>1, <2>2 DEF PaidOnce, PaidKey
<1>11. MoneyKept'
  <2>1. /\ SumOver(AmountOf, unspent \ {old}) \in Int
        /\ SumOver(AmountOf, unspent) = AmountOf[old] + SumOver(AmountOf, unspent \ {old})
    <3>1. unspent \in SUBSET Record /\ IsFiniteSet(unspent) /\ old \in unspent
      BY <1>0 DEF LedgerTyped
    <3>2. unspent \ {old} \in SUBSET Record /\ IsFiniteSet(unspent \ {old})
      BY <3>1, FS_Subset
    <3> QED
      BY <3>1, <3>2, AmountsTyped, SumRemove, SumInt
  <2>2. SumOver(AmountOf, unspent') = AmountOf[new] + SumOver(AmountOf, unspent \ {old})
    <3>1. unspent \ {old} \in SUBSET Record /\ IsFiniteSet(unspent \ {old})
          /\ new \notin unspent \ {old}
      BY <1>a, FS_Subset DEF LedgerTyped
    <3> DEFINE rest == unspent \ {old}
    <3>2. SumOver(AmountOf, rest \cup {new}) = AmountOf[new] + SumOver(AmountOf, rest)
      <4> HIDE DEF rest
      <4>1. new \in Record /\ AmountOf \in [Record -> Int]
        BY <1>n, AmountsTyped
      <4>2. rest \in SUBSET Record /\ IsFiniteSet(rest) /\ new \notin rest
        BY <3>1 DEF rest
      <4> QED
        BY <4>1, <4>2, SumAdd
    <3> QED
      BY <1>0, <3>2
  <2>3. /\ SumOver(NetOf, payments') = SumOver(NetOf, payments) + total
        /\ SumOver(NetOf, payments) \in Int
    <3>1. payments \in SUBSET Disbursement /\ IsFiniteSet(payments)
      BY DEF LedgerTyped
    <3>2. payments \cap DisbursementsOf(r) = {}
      BY <1>2, <1>d
    <3>3. SumOver(NetOf, payments \cup DisbursementsOf(r))
             = SumOver(NetOf, payments) + SumOver(NetOf, DisbursementsOf(r))
      BY <1>2, <3>1, <3>2, AmountsTyped, SumUnion
    <3>4. SumOver(NetOf, payments) \in Int
      BY <3>1, AmountsTyped, SumInt
    <3> QED
      BY <1>0, <1>2, <3>3, <3>4
  <2>4. AmountOf[old] = old.amount /\ AmountOf[new] = old.amount - total
    BY <1>3, <1>n, AmountsTyped DEF new
  <2>5. SumOver(AmountOf, unspent') + SumOver(NetOf, payments')
           = SumOver(AmountOf, unspent) + SumOver(NetOf, payments)
    BY <1>3, <2>1, <2>2, <2>3, <2>4
  <2>6. SumOver(AmountOf, unspent') + SumOver(NetOf, payments') = SumOver(AmountOf, Opening)
    BY <2>5 DEF MoneyKept
  <2> QED
    BY <2>6 DEF MoneyKept, SumOver, MapThenSumSet, MapThenFoldSet
<1>12. InsufficientIsTrue'
  BY <1>0, <1>1 DEF InsufficientIsTrue
<1> QED
  BY <1>4, <1>5, <1>7, <1>8, <1>9, <1>10, <1>11, <1>12

\* A settlement that reverts leaves the chain as it was.
LEMMA RevertKeeps ==
    ASSUME RInv, NEW r \in Run, ExecutePayroll(r), ~Settles(r)
    PROVE  RInv'
<1> USE DEF RInv
<1>0. /\ phase[r] = "executing" /\ Goes(r, "reverted") /\ UNCHANGED ledger
      /\ todo' = [todo EXCEPT ![r] = <<>>]
      /\ fetches' = fetches /\ seen' = seen /\ record' = record
  BY DEF ExecutePayroll, Paying, ledger
<1>1. /\ phase' \in [Run -> Phase] /\ phase'[r] = "reverted"
      /\ \A q \in Run : q # r => phase'[q] = phase[q]
  <2>1. "reverted" \in Phase
    BY DEF Phase
  <2> QED
    BY <1>0, <2>1, GoesOnly
<1>2. LedgerTyped' /\ PaidOnce' /\ MoneyKept' /\ NextId' = NextId
  BY <1>0, LedgerKeeps
<1>3. RunsTyped'
  <2>1. <<>> \in Seq(Instruction)
    OBVIOUS
  <2> QED
    BY <1>0, <1>1, <2>1 DEF RunsTyped
<1>4. NextIsNew'
  BY <1>0, <1>2 DEF NextIsNew, ledger
<1>5. PaymentsSettle'
  BY <1>0, <1>1 DEF PaymentsSettle, ledger, LedgerTyped, Disbursement
<1>6. ChosenCovers' /\ PlanLeft'
  <2>1. \A q \in Run : q # r => todo'[q] = todo[q]
    BY <1>0 DEF RunsTyped
  <2> QED
    BY <1>0, <1>1, <2>1 DEF ChosenCovers, PlanLeft
<1>7. InsufficientIsTrue'
  BY <1>0, <1>1 DEF InsufficientIsTrue
<1> QED
  BY <1>2, <1>3, <1>4, <1>5, <1>6, <1>7

LEMMA NextRInv == RInv /\ [RunsNext]_runsVars => RInv'
<1> SUFFICES ASSUME RInv, [RunsNext]_runsVars PROVE RInv'
  OBVIOUS
<1>1. ASSUME NEW r \in Run, FetchFails(r) \/ Respond(r) \/ Misread(r)
      PROVE  RInv'
  <2>1. seen' = seen /\ seen \in [Run -> SUBSET Record] /\ UNCHANGED <<ledger, record, todo>>
        /\ fetches' = fetches /\ phase[r] \in {"waiting", "reading"}
    BY <1>1 DEF FetchFails, Respond, Misread, RInv, RunsTyped
  <2>2. \E to \in {"reading", "api_error", "parse_error", "no_records"} : Goes(r, to)
    BY <1>1 DEF FetchFails, Respond, Misread
  <2> QED
    BY <2>1, <2>2, FetchMoveKeeps
<1>2. ASSUME NEW r \in Run, Answer(r) PROVE RInv'
  BY <1>2, AnswerKeeps
<1>3. ASSUME NEW r \in Run, AssertActive(r) PROVE RInv'
  BY <1>3, AssertKeeps
<1>4. ASSUME NEW r \in Run, ExecutePayroll(r) PROVE RInv'
  BY <1>4, SettlementKeeps, RevertKeeps
<1>5. ASSUME NEW r \in Run, FetchAgain(r) PROVE RInv'
  BY <1>5, FetchAgainKeeps
<1>6. ASSUME NEW g \in Agreement, AgreementMoves(g) PROVE RInv'
  BY <1>6, MovesKeeps
<1>8. ASSUME NEW entries, OthersWrite(entries) PROVE RInv'
  BY <1>8, OthersKeep
<1>9. ASSUME NEW row, PayBeside(row) PROVE RInv'
  BY <1>8, <1>9 DEF PayBeside
<1>7. CASE UNCHANGED runsVars
  <2>1. LedgerTyped' /\ PaidOnce' /\ MoneyKept'
    BY <1>7, LedgerKeeps DEF runsVars, RInv
  <2>2. RunsTyped' /\ NextIsNew' /\ PaymentsSettle' /\ ChosenCovers' /\ PlanLeft'
    BY <1>7 DEF runsVars, ledger, portalVars, RInv, RunsTyped, NextIsNew, NextId,
       PaymentsSettle, ChosenCovers, PlanLeft
  <2>3. InsufficientIsTrue'
    BY <1>7 DEF runsVars, portalVars, RInv, InsufficientIsTrue
  <2> QED
    BY <2>1, <2>2, <2>3 DEF RInv
<1> QED
  BY <1>1, <1>2, <1>3, <1>4, <1>5, <1>6, <1>7, <1>8, <1>9
     DEF RunsNext, MintReceipts, AnchorEvent

\* The invariant holds of every behaviour.
THEOREM RunsInvariance == RunsSpec => []RInv
<1> QED
  BY InitRInv, NextRInv, PTL DEF RunsSpec

\* Only its own steps revert a run.
LEMMA RevertsItself ==
    ASSUME RInv, NEW r \in Run, RunsNext, Reverts(r)
    PROVE  AssertActive(r) \/ ExecutePayroll(r)
<1>0. RunsTyped /\ phase[r] # "reverted" /\ phase'[r] = "reverted"
  BY DEF Reverts, RInv
<1>1. ASSUME NEW q \in Run, NEW to \in Phase, Goes(q, to) PROVE q = r /\ to = "reverted"
  BY <1>0, <1>1, GoesOnly
<1>2. phase' # phase
  BY <1>0
<1>3. {"reading", "waiting", "executing", "paid", "reverted"} \cup FetchError \subseteq Phase
  BY DEF Phase
<1>4. ASSUME NEW q \in Run, FetchFails(q) \/ Respond(q) \/ Misread(q) PROVE FALSE
  <2>1. \E to \in {"reading", "api_error", "parse_error"} : Goes(q, to)
    BY <1>4 DEF FetchFails, Respond, Misread
  <2> QED
    BY <1>1, <1>3, <2>1 DEF FetchError
<1>5. ASSUME NEW q \in Run, Answer(q) PROVE FALSE
  <2>1. \E to \in {"no_records", "insufficient_balance", "executing"} : Goes(q, to)
    BY <1>5 DEF Answer
  <2> QED
    BY <1>1, <1>3, <2>1 DEF FetchError
<1>6. ASSUME NEW q \in Run, FetchAgain(q) PROVE FALSE
  <2>1. Goes(q, "waiting")
    BY <1>6 DEF FetchAgain
  <2> QED
    BY <1>1, <1>3, <2>1
<1>7. ASSUME NEW q \in Run, AssertActive(q) PROVE q = r
  <2>1. Goes(q, "reverted")
    BY <1>2, <1>7 DEF AssertActive
  <2> QED
    BY <1>1, <1>3, <2>1
<1>8. ASSUME NEW q \in Run, ExecutePayroll(q) PROVE q = r
  <2>1. Goes(q, "paid") \/ Goes(q, "reverted")
    BY <1>8 DEF ExecutePayroll
  <2> QED
    BY <1>1, <1>3, <2>1
<1>9. \A g \in Agreement : ~AgreementMoves(g)
  BY <1>2 DEF AgreementMoves, portalVars
<1>10. \A entries : ~OthersWrite(entries)
  BY <1>2 DEF OthersWrite, portalVars
<1> QED
  BY <1>4, <1>5, <1>6, <1>7, <1>8, <1>9, <1>10
     DEF RunsNext, MintReceipts, AnchorEvent, PayBeside

\* Whatever reverts a run is a cause: the record covers the rows it was chosen for.
LEMMA RevertsCaused ==
    ASSUME RInv, NEW r \in Run, RunsNext, Reverts(r)
    PROVE  Cause(r)
<1>1. CASE AssertActive(r)
  <2>1. /\ phase[r] = "executing" /\ "assert" \in DOMAIN Head(todo[r])
        /\ agreement_status[Head(todo[r]).assert] # "active"
    BY <1>1 DEF AssertActive, Asserting, NextStep, Reverts
  <2>2. Head(todo[r]) \in Instructions(r)
    <3>1. todo[r] \in Seq(Instructions(r)) /\ todo[r] # <<>>
      BY <2>1 DEF RInv, PlanLeft
    <3> QED
      BY <3>1
  <2>3. Head(todo[r]) # [pay |-> Workers[r]]
    BY <2>1
  <2>4. Head(todo[r]).assert \in Agreements(Workers[r])
    BY <2>2, <2>3 DEF Instructions
  <2>5. Agreements(Workers[r]) \subseteq Agreement
    <3>1. Workers[r] \in Seq(Row)
      BY RunsAssumption
    <3>2. \A k \in DOMAIN Workers[r] : Workers[r][k] \in Row
      BY <3>1
    <3> QED
      BY <3>2 DEF Agreements, Row
  <2> QED
    BY <2>1, <2>4, <2>5 DEF Cause, Inactive
<1>2. CASE ExecutePayroll(r)
  <2>1. phase[r] = "executing" /\ ~Settles(r)
    <3>1. ~Goes(r, "paid")
      <4>1. "paid" \in Phase /\ RunsTyped
        BY DEF Phase, RInv
      <4> QED
        BY <4>1, GoesOnly DEF Reverts
    <3> QED
      BY <1>2, <3>1 DEF ExecutePayroll, Paying
  <2>2. Left(record[r], r) >= 0
    <3>1. record[r] \in Record /\ record[r].amount >= totalNetAmount(Workers[r])
      BY <2>1 DEF RInv, ChosenCovers
    <3>2. record[r].amount \in Nat
      BY <3>1, AmountsTyped
    <3>3. /\ Left(record[r], r) = record[r].amount - totalNetAmount(Workers[r])
          /\ totalNetAmount(Workers[r]) \in Nat
      BY <3>2, LeftIsRest
    <3> QED
      BY <3>1, <3>2, <3>3
  <2> QED
    BY <2>1, <2>2 DEF Settles, Cause
<1> QED
  BY <1>1, <1>2, RevertsItself

\* fetchBestUsdcxRecord and the settlement: a run is told that no record suffices
\* only when none that it could read does, and its plan fails for one of the causes,
\* never for want of money.
THEOREM StopsCaused == RunsSpec => StopsHaveCauses
<1>1. RInv => InsufficientIsTrue
  BY DEF RInv
<1>2. RInv /\ [RunsNext]_runsVars => [\A r \in Run : Reverts(r) => Cause(r)]_runsVars
  BY RevertsCaused
<1>3. RunsSpec => [][RunsNext]_runsVars
  BY PTL DEF RunsSpec
<1> QED
  BY <1>1, <1>2, <1>3, RunsInvariance, PTL DEF StopsHaveCauses

\* However runs cross each other and are started again, each agreement is paid once
\* for an epoch, from the records the employer had.
THEOREM RunsPayOnce == RunsSpec => []PaidOnceFromRecords
<1>1. RInv => PaidOnceFromRecords
  <2> SUFFICES ASSUME RInv PROVE PaidOnceFromRecords
    OBVIOUS
  <2>1. /\ Held(unspent) = SumOver(AmountOf, unspent)
        /\ Held(Opening) = SumOver(AmountOf, Opening)
    BY HeldSum, RunsAssumption DEF RInv, LedgerTyped
  <2>2. Paid(payments) = SumOver(NetOf, payments)
    BY PaidSum DEF RInv, LedgerTyped
  <2> QED
    BY <2>1, <2>2 DEF RInv, PaidOnce, MoneyKept, PaidOnceFromRecords
<1> QED
  BY <1>1, RunsInvariance, PTL
=============================================================================
