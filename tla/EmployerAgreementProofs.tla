---------------------- MODULE EmployerAgreementProofs ----------------------
(***************************************************************************)
(* Theorems about EmployerAgreement, for any number of wallets, names,     *)
(* agreements and keys, and about the credentials of CredentialNft.        *)
(***************************************************************************)
EXTENDS CredentialNft, TLAPS

\* An agreement has a status only once it is anchored.
StatusAnchored ==
    \A a \in Agreement : agreement_status[a] # "absent" => agreement_anchor_height[a]

\* A key serves one employer and one worker.
KeyOfOnePair ==
    \A o1, o2 \in offers : o1.parties_key = o2.parties_key =>
        /\ o1.employer_address = o2.employer_address
        /\ o1.worker_address = o2.worker_address

\* The inductive invariant: KeyStaysWithParties follows from its parts.
IInv ==
    /\ TypeOK
    /\ ApprovalsOnlyWhilePaused
    /\ ContractFormed
    /\ CopiesStayUsable
    /\ StatusAnchored
    /\ KeyOfOnePair

----------------------------------------------------------------------------
\* What a status change touches, for every transition after the acceptance.
LifecycleFrame(a) ==
    /\ UNCHANGED <<is_verified, name_owner, agreement_anchor_height,
                   agreement_parties_commitment, offers, spent, finals>>
    /\ agreement_status[a] # "absent"

\* The transitions that follow an acceptance all have one of two shapes: a status
\* change of one agreement that clears its mask, or an approval while paused.
LEMMA LifecycleShape ==
    ASSUME NEW caller \in Wallet, NEW a \in Agreement, NEW c \in Commitment,
           LifecycleStep(caller, a, c)
    PROVE  /\ LifecycleFrame(a)
           /\ \/ \E s \in {"active", "paused", "terminated", "superseded"} :
                    /\ SetStatus(a, s)
                    /\ s \in {"active", "paused"} => agreement_status[a] \in {"active", "paused"}
              \/ \E role \in Role :
                    /\ agreement_status[a] = "paused"
                    /\ resume_approvals' = [resume_approvals EXCEPT ![a] = @ \cup {role}]
                    /\ UNCHANGED agreement_status
BY DEF LifecycleStep, LifecycleFrame, pause_agreement, terminate_agreement, approve_resume,
       resume_agreement, supersede_agreement, Elsewhere, Resumable, Status

\* Init establishes the invariant: nothing is anchored, offered or accepted yet.
LEMMA InitIInv == Init => IInv
BY DEF Init, LicenseInit, OwnershipInit, AgreementInit, IInv, TypeOK, LicenseTypeOK,
       OwnershipTypeOK, Status, Role, ApprovalsOnlyWhilePaused, ContractFormed,
       CopiesStayUsable, StatusAnchored, KeyOfOnePair

\* Licenses and names may change as they like: no conjunct but the types speaks of them.
LEMMA EnvironmentStep == IInv /\ (LicenseStep \/ OwnershipStep) => IInv'
<1> SUFFICES ASSUME IInv, LicenseStep \/ OwnershipStep PROVE IInv'
  OBVIOUS
<1>1. UNCHANGED agreementVars
  BY DEF LicenseStep, OwnershipStep
<1>2. LicenseTypeOK' /\ OwnershipTypeOK'
  BY DEF LicenseStep, OwnershipStep, LicenseNext, SetVerified, OwnershipNext, Claim, GiveUp,
         IInv, TypeOK, LicenseTypeOK, OwnershipTypeOK
<1>3. TypeOK'
  BY <1>1, <1>2 DEF agreementVars, IInv, TypeOK
<1>4. (ApprovalsOnlyWhilePaused /\ CopiesStayUsable /\ StatusAnchored /\ KeyOfOnePair)'
  BY <1>1 DEF agreementVars, IInv, ApprovalsOnlyWhilePaused, CopiesStayUsable,
              StatusAnchored, KeyOfOnePair, CommitmentOf, compute_parties_commitment
<1>5. ContractFormed'
  BY <1>1 DEF agreementVars, IInv, ContractFormed, Copies
<1> QED
  BY <1>3, <1>4, <1>5 DEF IInv

\* An offer keeps the invariant: its id was never offered before, its key never used by
\* another pair.
LEMMA CreateStep ==
    ASSUME IInv, NEW o \in PendingAgreement, create_job_offer(o)
    PROVE  IInv'
<1> DEFINE a == o.agreement_id
<1>1. a \in Agreement /\ CommitmentOf(o) \in Commitment
  BY DEF PendingAgreement, CommitmentOf, compute_parties_commitment, Commitment
<1>2. /\ ~agreement_anchor_height[a]
      /\ agreement_anchor_height' = [agreement_anchor_height EXCEPT ![a] = TRUE]
      /\ agreement_parties_commitment' =
             [agreement_parties_commitment EXCEPT ![a] = CommitmentOf(o)]
      /\ agreement_status' = [agreement_status EXCEPT ![a] = "pending"]
      /\ resume_approvals' = [resume_approvals EXCEPT ![a] = {}]
      /\ offers' = offers \cup {o}
      /\ UNCHANGED <<is_verified, name_owner, spent, finals>>
      /\ MayUseKey(o.parties_key, o.employer_address, o.worker_address)
  BY DEF create_job_offer, Unanchored, SetStatus
<1>3. \A p \in offers : p.agreement_id # a /\ p.agreement_id \in Agreement
  BY <1>2 DEF IInv, CopiesStayUsable, TypeOK, PendingAgreement
<1>4. TypeOK'
  <2>1. (LicenseTypeOK /\ OwnershipTypeOK)'
    BY <1>2 DEF IInv, TypeOK, LicenseTypeOK, OwnershipTypeOK
  <2>2. /\ agreement_anchor_height' \in [Agreement -> BOOLEAN]
        /\ agreement_parties_commitment' \in [Agreement -> Commitment \cup {NoCommitment}]
    BY <1>1, <1>2 DEF IInv, TypeOK
  <2>3. /\ agreement_status' \in [Agreement -> Status]
        /\ resume_approvals' \in [Agreement -> SUBSET Role]
    BY <1>1, <1>2 DEF IInv, TypeOK, Status
  <2>4. /\ offers' \subseteq PendingAgreement
        /\ spent' \subseteq offers'
        /\ finals' \subseteq FinalAgreement
    BY <1>2 DEF IInv, TypeOK
  <2> QED
    BY <2>1, <2>2, <2>3, <2>4 DEF TypeOK
<1>5. ApprovalsOnlyWhilePaused'
  BY <1>1, <1>2 DEF IInv, TypeOK, ApprovalsOnlyWhilePaused
<1>6. ContractFormed'
  <2>1. \A o1, o2 \in offers' : o1.agreement_id = o2.agreement_id => o1 = o2
    BY <1>2, <1>3 DEF IInv, ContractFormed
  <2>2. finals' = UNION {Copies(p) : p \in spent'}
    BY <1>2 DEF IInv, ContractFormed
  <2>3. ASSUME NEW b \in Agreement, agreement_status'[b] \in {"active", "paused"}
        PROVE  \E p \in spent' : p.agreement_id = b
    BY <1>1, <1>2, <2>3 DEF IInv, TypeOK, ContractFormed
  <2>4. ASSUME NEW b \in Agreement, agreement_status'[b] = "pending"
        PROVE  \E p \in offers' \ spent' : p.agreement_id = b
    <3>1. CASE b = a
      <4>1. o \in offers' \ spent'
        BY <1>2, <1>3 DEF IInv, TypeOK
      <4> QED
        BY <3>1, <4>1
    <3>2. CASE b # a
      BY <1>1, <1>2, <2>4, <3>2 DEF IInv, TypeOK, ContractFormed
    <3> QED
      BY <3>1, <3>2
  <2> QED
    BY <2>1, <2>2, <2>3, <2>4 DEF ContractFormed, Copies
<1>7. CopiesStayUsable'
  BY <1>1, <1>2, <1>3
     DEF IInv, TypeOK, CopiesStayUsable, CommitmentOf, compute_parties_commitment
<1>8. StatusAnchored'
  BY <1>1, <1>2 DEF IInv, TypeOK, StatusAnchored
<1>9. KeyOfOnePair'
  BY <1>2 DEF IInv, KeyOfOnePair, MayUseKey
<1> QED
  BY <1>4, <1>5, <1>6, <1>7, <1>8, <1>9 DEF IInv

\* An acceptance keeps the invariant: the offer it consumes is the only one of its id.
LEMMA AcceptStep ==
    ASSUME IInv, NEW caller \in Wallet, NEW o \in offers, accept_job_offer(caller, o)
    PROVE  IInv'
<1> DEFINE a == o.agreement_id
<1>1. o \in PendingAgreement /\ a \in Agreement
  BY DEF IInv, TypeOK, PendingAgreement
<1>2. /\ o \notin spent
      /\ agreement_status[a] = "pending"
      /\ agreement_status' = [agreement_status EXCEPT ![a] = "active"]
      /\ resume_approvals' = [resume_approvals EXCEPT ![a] = {}]
      /\ spent' = spent \cup {o}
      /\ finals' = finals \cup Copies(o)
      /\ UNCHANGED <<is_verified, name_owner, agreement_anchor_height,
                     agreement_parties_commitment, offers>>
  BY DEF accept_job_offer, Offered, SetStatus
<1>3. TypeOK'
  <2>1. (LicenseTypeOK /\ OwnershipTypeOK)'
    BY <1>2 DEF IInv, TypeOK, LicenseTypeOK, OwnershipTypeOK
  <2>2. /\ agreement_status' \in [Agreement -> Status]
        /\ resume_approvals' \in [Agreement -> SUBSET Role]
    BY <1>1, <1>2 DEF IInv, TypeOK, Status
  <2>3. Copies(o) \subseteq FinalAgreement
    BY <1>1, DaoAssumption DEF Copies, FinalAgreement, PendingAgreement
  <2> QED
    BY <1>2, <2>1, <2>2, <2>3 DEF IInv, TypeOK
<1>4. ApprovalsOnlyWhilePaused'
  BY <1>1, <1>2 DEF IInv, TypeOK, ApprovalsOnlyWhilePaused
<1>5. ContractFormed'
  <2>1. \A o1, o2 \in offers' : o1.agreement_id = o2.agreement_id => o1 = o2
    BY <1>2 DEF IInv, ContractFormed
  <2>2. finals' = UNION {Copies(p) : p \in spent'}
    BY <1>2 DEF IInv, ContractFormed
  <2>3. ASSUME NEW b \in Agreement, agreement_status'[b] \in {"active", "paused"}
        PROVE  \E p \in spent' : p.agreement_id = b
    BY <1>1, <1>2, <2>3 DEF IInv, TypeOK, ContractFormed
  <2>4. ASSUME NEW b \in Agreement, agreement_status'[b] = "pending"
        PROVE  \E p \in offers' \ spent' : p.agreement_id = b
    <3>1. b # a /\ agreement_status[b] = "pending"
      BY <1>1, <1>2, <2>4 DEF IInv, TypeOK
    <3>2. PICK p \in offers \ spent : p.agreement_id = b
      BY <3>1 DEF IInv, ContractFormed
    <3> QED
      BY <1>2, <3>1, <3>2
  <2> QED
    BY <2>1, <2>2, <2>3, <2>4 DEF ContractFormed, Copies
<1>6. CopiesStayUsable' /\ KeyOfOnePair'
  BY <1>2 DEF IInv, CopiesStayUsable, KeyOfOnePair, CommitmentOf, compute_parties_commitment
<1>7. StatusAnchored'
  BY <1>1, <1>2 DEF IInv, TypeOK, StatusAnchored
<1> QED
  BY <1>3, <1>4, <1>5, <1>6, <1>7 DEF IInv

\* A pause, an approval, a resumption or an end keeps the invariant.
LEMMA LifecycleStepKeeps ==
    ASSUME IInv, NEW caller \in Wallet, NEW a \in Agreement, NEW c \in Commitment,
           LifecycleStep(caller, a, c)
    PROVE  IInv'
<1>1. LifecycleFrame(a)
  BY LifecycleShape
<1>2. TypeOK' /\ ApprovalsOnlyWhilePaused'
  <2>1. /\ agreement_status' \in [Agreement -> Status]
        /\ resume_approvals' \in [Agreement -> SUBSET Role]
        /\ ApprovalsOnlyWhilePaused'
    BY LifecycleShape DEF IInv, TypeOK, Status, SetStatus, ApprovalsOnlyWhilePaused
  <2> QED
    BY <1>1, <2>1 DEF LifecycleFrame, IInv, TypeOK, LicenseTypeOK, OwnershipTypeOK
<1>3. ContractFormed'
  <2>1. ASSUME NEW b \in Agreement
        PROVE  /\ agreement_status'[b] \in {"active", "paused"} =>
                      agreement_status[b] \in {"active", "paused"}
               /\ agreement_status'[b] = "pending" => agreement_status[b] = "pending"
    BY LifecycleShape DEF IInv, TypeOK, SetStatus
  <2> QED
    BY <1>1, <2>1 DEF LifecycleFrame, IInv, ContractFormed, Copies
<1>4. CopiesStayUsable' /\ KeyOfOnePair'
  BY <1>1 DEF LifecycleFrame, IInv, CopiesStayUsable, KeyOfOnePair, CommitmentOf,
              compute_parties_commitment
<1>5. StatusAnchored'
  BY <1>1, LifecycleShape DEF LifecycleFrame, IInv, TypeOK, StatusAnchored, SetStatus
<1> QED
  BY <1>2, <1>3, <1>4, <1>5 DEF IInv

\* Every step keeps the invariant.
LEMMA NextIInv == IInv /\ [Next]_vars => IInv'
<1> SUFFICES ASSUME IInv, [Next]_vars PROVE IInv'
  OBVIOUS
<1>1. CASE LicenseStep \/ OwnershipStep
  BY <1>1, EnvironmentStep
<1>2. CASE \E o \in PendingAgreement : create_job_offer(o)
  BY <1>2, CreateStep
<1>3. CASE \E caller \in Wallet, o \in offers : accept_job_offer(caller, o)
  BY <1>3, AcceptStep
<1>4. CASE \E caller \in Wallet, a \in Agreement, c \in Commitment : LifecycleStep(caller, a, c)
  BY <1>4, LifecycleStepKeeps
<1>5. CASE UNCHANGED vars
  BY <1>5 DEF vars, agreementVars, IInv, TypeOK, LicenseTypeOK, OwnershipTypeOK,
              ApprovalsOnlyWhilePaused, ContractFormed, Copies, CopiesStayUsable,
              StatusAnchored, KeyOfOnePair, CommitmentOf, compute_parties_commitment
<1> QED
  BY <1>1, <1>2, <1>3, <1>4, <1>5 DEF Next

\* Every reachable state satisfies the inductive invariant.
THEOREM Invariance == Spec => []IInv
BY InitIInv, NextIInv, PTL DEF Spec

----------------------------------------------------------------------------
\* Type correctness of the agreement program with its registries.
THEOREM TypeCorrect == Spec => []TypeOK
<1>1. IInv => TypeOK
  BY DEF IInv
<1> QED
  BY <1>1, Invariance, PTL

\* An approval given in one pause never counts in another.
THEOREM ApprovalsConfined == Spec => []ApprovalsOnlyWhilePaused
<1>1. IInv => ApprovalsOnlyWhilePaused
  BY DEF IInv
<1> QED
  BY <1>1, Invariance, PTL

\* Records and mappings agree on who contracted what.
THEOREM ContractsWellFormed == Spec => []ContractFormed
<1>1. IInv => ContractFormed
  BY DEF IInv
<1> QED
  BY <1>1, Invariance, PTL

\* Every record ever handed out can still reproduce its commitment.
THEOREM CopiesUsable == Spec => []CopiesStayUsable
<1>1. IInv => CopiesStayUsable
  BY DEF IInv
<1> QED
  BY <1>1, Invariance, PTL

\* Whoever holds a key holds it through an offer of the one pair the key serves, or
\* through a copy of one.
LEMMA KeyOfTheParties == IInv => KeyStaysWithParties
<1> SUFFICES ASSUME IInv, NEW o \in offers, NEW x \in Wallet, HoldsKey(x, o.parties_key)
             PROVE  x \in {o.employer_address, o.worker_address, DAO_ADDRESS}
  BY DEF KeyStaysWithParties
<1>1. CASE \E p \in offers : /\ p.parties_key = o.parties_key
                             /\ x \in {p.employer_address, p.worker_address}
  BY <1>1 DEF IInv, KeyOfOnePair
<1>2. CASE \E f \in finals : f.terms.parties_key = o.parties_key /\ f.owner = x
  <2>1. PICK f \in finals : f.terms.parties_key = o.parties_key /\ f.owner = x
    BY <1>2
  <2>2. PICK p \in spent : f \in Copies(p)
    BY <2>1 DEF IInv, ContractFormed
  <2>3. /\ f.terms = p /\ p \in offers
        /\ x \in {p.employer_address, p.worker_address, DAO_ADDRESS}
    BY <2>1, <2>2 DEF Copies, IInv, TypeOK
  <2> QED
    BY <2>1, <2>3 DEF IInv, KeyOfOnePair
<1> QED
  BY <1>1, <1>2 DEF HoldsKey

\* Only the parties ever learn a parties_key, provided an employer keeps each key
\* for one worker (MayUseKey).
THEOREM KeyConfined == Spec => []KeyStaysWithParties
BY KeyOfTheParties, Invariance, PTL

----------------------------------------------------------------------------
\* The status changes of one agreement, and the approvals, that the handlers allow.
StatusStep(a, s) ==
    /\ SetStatus(a, s)
    /\ \/ agreement_status[a] = "absent"  /\ s = "pending"
       \/ agreement_status[a] = "pending" /\ s = "active"
       \/ agreement_status[a] = "active"  /\ s = "paused"
       \/ agreement_status[a] = "paused"  /\ s = "active" /\ resume_approvals[a] = Role
       \/ agreement_status[a] # "absent"  /\ s \in {"terminated", "superseded"}

ApprovalStep(a, role) ==
    /\ agreement_status[a] = "paused"
    /\ resume_approvals' = [resume_approvals EXCEPT ![a] = @ \cup {role}]
    /\ UNCHANGED agreement_status

\* Every step of the program is one of those, or touches no status.
LEMMA StatusSteps ==
    ASSUME IInv, [Next]_vars
    PROVE  \/ UNCHANGED <<agreement_status, resume_approvals>>
           \/ \E a \in Agreement, s \in Status : StatusStep(a, s)
           \/ \E a \in Agreement, role \in Role : ApprovalStep(a, role)
<1>1. CASE LicenseStep \/ OwnershipStep \/ UNCHANGED vars
  BY <1>1 DEF LicenseStep, OwnershipStep, vars, agreementVars
<1>2. ASSUME NEW o \in PendingAgreement, create_job_offer(o)
      PROVE  o.agreement_id \in Agreement /\ StatusStep(o.agreement_id, "pending")
  BY <1>2 DEF StatusStep, create_job_offer, Unanchored, PendingAgreement, IInv, StatusAnchored
<1>3. ASSUME NEW caller \in Wallet, NEW o \in offers, accept_job_offer(caller, o)
      PROVE  o.agreement_id \in Agreement /\ StatusStep(o.agreement_id, "active")
  BY <1>3 DEF StatusStep, accept_job_offer, Offered, PendingAgreement, IInv, TypeOK
<1>4. ASSUME NEW caller \in Wallet, NEW a \in Agreement, NEW c \in Commitment,
             LifecycleStep(caller, a, c)
      PROVE  \/ \E s \in Status : StatusStep(a, s)
             \/ \E role \in Role : ApprovalStep(a, role)
  BY <1>4 DEF StatusStep, ApprovalStep, LifecycleStep, pause_agreement,
              terminate_agreement, approve_resume, resume_agreement, supersede_agreement, Resumable, Status
<1> QED
  BY <1>1, <1>2, <1>3, <1>4 DEF Next, Status

\* Terminated and superseded agreements stay closed.
THEOREM ClosedStaysClosed == Spec => ClosedForGood
<1>1. IInv /\ [Next]_vars => [\A a \in Agreement : Closed(a) => Closed(a)']_vars
  <2> SUFFICES ASSUME IInv, [Next]_vars, NEW a \in Agreement, Closed(a)
               PROVE  Closed(a)'
    OBVIOUS
  <2> QED
    BY StatusSteps DEF StatusStep, ApprovalStep, Closed, IInv, TypeOK, SetStatus
<1> QED
  BY <1>1, Invariance, PTL DEF Spec, ClosedForGood

\* The agreement program implements the lifecycle the paying programs rely on.
THEOREM Implementation == Spec => ImplementsLifecycle
<1>1. Init => Lifecycle!Init
  BY DEF Init, AgreementInit, Lifecycle!Init, PhaseOf
<1>2. IInv /\ [Next]_vars => [Lifecycle!Next]_Lifecycle!vars
  <2> SUFFICES ASSUME IInv, [Next]_vars PROVE [Lifecycle!Next]_Lifecycle!vars
    OBVIOUS
  <2>1. CASE UNCHANGED <<agreement_status, resume_approvals>>
    BY <2>1 DEF Lifecycle!vars
  <2>2. ASSUME NEW a \in Agreement, NEW s \in Status, SetStatus(a, s)
        PROVE  /\ [b \in Agreement |-> PhaseOf(agreement_status[b])]' =
                     [[b \in Agreement |-> PhaseOf(agreement_status[b])]
                         EXCEPT ![a] = PhaseOf(s)]
               /\ resume_approvals' = [resume_approvals EXCEPT ![a] = {}]
    BY <2>2 DEF SetStatus, IInv, TypeOK
  <2>3. CASE \E a \in Agreement, s \in Status : StatusStep(a, s)
    <3>1. PICK a \in Agreement, s \in Status : StatusStep(a, s)
      BY <2>3
    <3>2. agreement_status[a] \in Status
      BY DEF IInv, TypeOK
    <3>3. \/ Lifecycle!Offer(a) \/ Lifecycle!Accept(a) \/ Lifecycle!Pause(a)
          \/ Lifecycle!Resume(a) \/ Lifecycle!Close(a)
      BY <2>2, <3>1, <3>2
         DEF StatusStep, Lifecycle!Offer, Lifecycle!Accept, Lifecycle!Pause, Lifecycle!Resume,
             Lifecycle!Close, Lifecycle!Move, PhaseOf, Status
    <3> QED
      BY <3>3 DEF Lifecycle!Next
  <2>4. CASE \E a \in Agreement, role \in Role : ApprovalStep(a, role)
    BY <2>4 DEF ApprovalStep, Lifecycle!Next, Lifecycle!Consent, PhaseOf
  <2> QED
    BY <2>1, <2>3, <2>4, StatusSteps
<1> QED
  BY <1>1, <1>2, Invariance, PTL DEF Spec, ImplementsLifecycle, Lifecycle!Spec

----------------------------------------------------------------------------
(***************************************************************************)
(* The credentials, on top of the invariant of the agreements they are     *)
(* minted on.                                                              *)
(***************************************************************************)
\* The inductive invariant.  What a mint is worth rests on the agreements' part;
\* CopiesMatchStatus is inductive with the types alone, for a copy names an issuer and
\* an unminted credential has none.
CInv ==
    /\ IInv
    /\ CredentialTypeOK
    /\ CopiesMatchStatus

\* No credential exists at first.
LEMMA InitCInv == CredentialInit => CInv
<1> SUFFICES ASSUME CredentialInit PROVE CInv
  OBVIOUS
<1>1. IInv
  BY InitIInv DEF CredentialInit
<1>2. CredentialTypeOK
  BY DEF CredentialInit, CredentialTypeOK, CredentialStatus
<1>3. CopiesMatchStatus
  BY CredentialAssumption DEF CredentialInit, CopiesMatchStatus
<1> QED
  BY <1>1, <1>2, <1>3 DEF CInv

\* Agreements, names and licenses move on without touching a credential.
LEMMA AgreementStepKeeps == CInv /\ [Next]_vars /\ UNCHANGED credentialVars => CInv'
<1> SUFFICES ASSUME CInv, [Next]_vars, UNCHANGED credentialVars PROVE CInv'
  OBVIOUS
<1>1. IInv'
  BY NextIInv DEF CInv
<1>2. (CredentialTypeOK /\ CopiesMatchStatus)'
  BY DEF credentialVars, CInv, CredentialTypeOK, CopiesMatchStatus
<1> QED
  BY <1>1, <1>2 DEF CInv

\* A transaction of the credential program leaves the agreements alone.
LEMMA CredentialFrame ==
    ASSUME NEW caller \in Wallet, CredentialStep(caller)
    PROVE  UNCHANGED vars
BY DEF CredentialStep, mint_credential_nft, revoke_by_issuer, revoke_by_owner, burn_view, Revoke

\* Whoever is authorized at a mint is a party to the agreement it names: the key and
\* the names it presents are those of the one accepted offer of that agreement.
LEMMA AuthorizedIsParty ==
    ASSUME IInv, NEW caller \in Wallet, NEW a \in Agreement, NEW c \in Commitment,
           Authorized(caller, a, c)
    PROVE  \E o \in spent :
               /\ o.agreement_id = a /\ c = CommitmentOf(o)
               /\ caller \in {o.employer_address, o.worker_address, DAO_ADDRESS}
<1>1. PICK o \in spent : o.agreement_id = a
  BY DEF Authorized, assert_employer_authorized, assert_agreement_active, IInv, ContractFormed
<1>2. o \in offers
  BY DEF IInv, TypeOK
<1>3. c = CommitmentOf(o)
  BY <1>1, <1>2 DEF Authorized, assert_employer_authorized, Presents, CommitmentChecked,
                    IInv, CopiesStayUsable
<1>4. HoldsKey(caller, o.parties_key)
  BY <1>3 DEF Authorized, assert_employer_authorized, Presents, CommitmentOf,
              compute_parties_commitment
<1> QED
  BY <1>1, <1>2, <1>3, <1>4, KeyOfTheParties DEF KeyStaysWithParties

\* A mint gives an id without copies its issuer and its two copies.
LEMMA MintStep ==
    ASSUME CInv, NEW caller \in Wallet, NEW a \in Agreement, NEW c \in Commitment,
           NEW worker \in Wallet, NEW id \in Credential,
           mint_credential_nft(caller, a, c, worker, id)
    PROVE  (CredentialTypeOK /\ CopiesMatchStatus)'
<1> DEFINE Minted == [credential_id : {id}, copy : {"employer", "worker"},
                      issuer_addr : {caller}, worker_addr : {worker}]
<1>1. /\ credential_status' = [credential_status EXCEPT ![id] = "active"]
      /\ credential_revoked_height' = credential_revoked_height \ {id}
      /\ credential_issuer' = [credential_issuer EXCEPT ![id] = caller]
      /\ nfts' = nfts \cup Minted
      /\ credential_status[id] = "absent"
  BY DEF mint_credential_nft, Unminted
<1>2. /\ credential_status \in [Credential -> CredentialStatus]
      /\ credential_revoked_height \subseteq Credential
      /\ credential_issuer \in [Credential -> Wallet \cup {NoIssuer}]
      /\ nfts \subseteq CredentialNFT
  BY DEF CInv, CredentialTypeOK
<1>3. \A x \in Minted : /\ x \in CredentialNFT
                        /\ x.credential_id = id
                        /\ x.issuer_addr = caller
                        /\ x.worker_addr = worker
  BY DEF CredentialNFT
<1>4. \A x \in nfts : x.credential_id \in Credential /\ x.credential_id # id
  BY <1>1, <1>2 DEF CInv, CopiesMatchStatus, CredentialNFT
<1>5. CredentialTypeOK'
  BY <1>1, <1>2, <1>3 DEF CredentialTypeOK, CredentialStatus
<1>6. CopiesMatchStatus'
  <2>1. \A x, y \in nfts' : x.credential_id = y.credential_id => x.worker_addr = y.worker_addr
    BY <1>1, <1>3, <1>4 DEF CInv, CopiesMatchStatus
  <2>2. \A x \in nfts' : credential_issuer'[x.credential_id] = x.issuer_addr
    BY <1>1, <1>2, <1>3, <1>4 DEF CInv, CopiesMatchStatus
  <2>3. \A k \in Credential :
           /\ credential_status'[k] = "revoked" <=> k \in credential_revoked_height'
           /\ credential_status'[k] # "absent" <=> credential_issuer'[k] \in Wallet
    BY <1>1, <1>2 DEF CInv, CopiesMatchStatus
  <2> QED
    BY <2>1, <2>2, <2>3 DEF CopiesMatchStatus
<1> QED
  BY <1>5, <1>6

\* A revocation, with or without a copy, keeps what the mappings say of each other.
LEMMA RevokeStep ==
    ASSUME CInv, NEW id \in Credential, Revoke(id), nfts' \subseteq nfts
    PROVE  (CredentialTypeOK /\ CopiesMatchStatus)'
<1>1. /\ credential_status' = [credential_status EXCEPT ![id] = "revoked"]
      /\ credential_revoked_height' = credential_revoked_height \cup {id}
      /\ UNCHANGED credential_issuer
      /\ credential_status[id] = "active"
  BY DEF Revoke
<1>2. CredentialTypeOK'
  BY <1>1 DEF CInv, CredentialTypeOK, CredentialStatus
<1>3. CopiesMatchStatus'
  BY <1>1 DEF CInv, CopiesMatchStatus, CredentialTypeOK
<1> QED
  BY <1>2, <1>3

\* Every step of the credential program keeps the invariant.
LEMMA CredentialStepKeeps ==
    ASSUME CInv, NEW caller \in Wallet, CredentialStep(caller)
    PROVE  CInv'
<1>0. IInv'
  BY CredentialFrame, NextIInv DEF CInv
<1>1. CASE \E a \in Agreement, c \in Commitment, worker \in Wallet, id \in Credential :
              mint_credential_nft(caller, a, c, worker, id)
  BY <1>1, MintStep, <1>0 DEF CInv
<1>2. CASE \E id \in Credential : revoke_by_issuer(caller, id)
  <2>1. PICK id \in Credential : revoke_by_issuer(caller, id)
    BY <1>2
  <2>2. Revoke(id) /\ nfts' \subseteq nfts
    BY <2>1 DEF revoke_by_issuer
  <2> QED
    BY <2>2, RevokeStep, <1>0 DEF CInv
<1>3. CASE \E nft \in nfts : revoke_by_owner(caller, nft)
  <2>1. PICK nft \in nfts : revoke_by_owner(caller, nft)
    BY <1>3
  <2>2. Revoke(nft.credential_id) /\ nfts' \subseteq nfts
    BY <2>1 DEF revoke_by_owner, Consume
  <2>3. nft.credential_id \in Credential
    BY DEF CInv, CredentialTypeOK, CredentialNFT
  <2> QED
    BY <2>2, <2>3, RevokeStep, <1>0 DEF CInv
<1>4. CASE \E nft \in nfts : burn_view(caller, nft)
  <2>1. /\ nfts' \subseteq nfts
        /\ UNCHANGED <<credential_status, credential_revoked_height, credential_issuer>>
    BY <1>4 DEF burn_view, Consume
  <2>2. (CredentialTypeOK /\ CopiesMatchStatus)'
    BY <2>1 DEF CInv, CredentialTypeOK, CopiesMatchStatus
  <2> QED
    BY <2>2, <1>0 DEF CInv
<1> QED
  BY <1>1, <1>2, <1>3, <1>4 DEF CredentialStep

\* Credentials do not disturb the agreements they are minted on: without them, every
\* behaviour is one of EmployerAgreement, and all its theorems hold of it.
THEOREM AgreementsUndisturbed == CredentialSpec => Spec
<1>1. CredentialInit => Init
  BY DEF CredentialInit
<1>2. [CredentialNext]_allVars => [Next]_vars
  BY CredentialFrame DEF CredentialNext, allVars, vars
<1> QED
  BY <1>1, <1>2, PTL DEF CredentialSpec, Spec

\* Every reachable state of agreements and credentials satisfies the invariant.
THEOREM CredentialInvariance == CredentialSpec => []CInv
<1>1. CInv /\ [CredentialNext]_allVars => CInv'
  <2> SUFFICES ASSUME CInv, [CredentialNext]_allVars PROVE CInv'
    OBVIOUS
  <2>1. CASE Next /\ UNCHANGED credentialVars
    BY <2>1, AgreementStepKeeps
  <2>2. CASE \E caller \in Wallet : CredentialStep(caller)
    BY <2>2, CredentialStepKeeps
  <2>3. CASE UNCHANGED allVars
    BY <2>3, AgreementStepKeeps DEF allVars
  <2> QED
    BY <2>1, <2>2, <2>3 DEF CredentialNext
<1> QED
  BY <1>1, InitCInv, PTL DEF CredentialSpec

\* Type correctness of the agreements and the credentials minted on them.
THEOREM CredentialsTyped == CredentialSpec => [](TypeOK /\ CredentialTypeOK)
<1>1. CInv => TypeOK /\ CredentialTypeOK
  BY DEF CInv, IInv
<1> QED
  BY <1>1, CredentialInvariance, PTL

\* Copies, status, height and issuer tell one story, whoever ended a credential and
\* whichever copies were burnt.
THEOREM CopiesAgree == CredentialSpec => []CopiesMatchStatus
<1>1. CInv => CopiesMatchStatus
  BY DEF CInv
<1> QED
  BY <1>1, CredentialInvariance, PTL

\* Every credential is minted under an agreement that runs at the time, by one of its
\* parties, between the owners that its two names have by then.
THEOREM IssuedUnderAgreements == CredentialSpec => IssuedUnderAgreement
<1> DEFINE Minted ==
       \A nft \in nfts' \ nfts : \E o \in spent :
          /\ assert_agreement_active(o.agreement_id)
          /\ nft.issuer_addr \in {o.employer_address, o.worker_address, DAO_ADDRESS}
          /\ AssertIsOwner(o.employer_name_hash, nft.issuer_addr)
          /\ AssertIsOwner(o.worker_name_hash, nft.worker_addr)
<1>1. CInv /\ [CredentialNext]_allVars => [Minted]_allVars
  <2> SUFFICES ASSUME CInv, CredentialNext, NEW nft \in nfts' \ nfts
               PROVE  \E o \in spent :
                        /\ assert_agreement_active(o.agreement_id)
                        /\ nft.issuer_addr \in
                               {o.employer_address, o.worker_address, DAO_ADDRESS}
                        /\ AssertIsOwner(o.employer_name_hash, nft.issuer_addr)
                        /\ AssertIsOwner(o.worker_name_hash, nft.worker_addr)
    OBVIOUS
  <2>1. PICK caller \in Wallet : CredentialStep(caller)
    BY DEF CredentialNext, credentialVars
  <2>2. PICK a \in Agreement, c \in Commitment, worker \in Wallet, id \in Credential :
                mint_credential_nft(caller, a, c, worker, id)
    BY <2>1 DEF CredentialStep, revoke_by_issuer, revoke_by_owner, burn_view, Consume
  <2>3. nft.issuer_addr = caller /\ nft.worker_addr = worker
    BY <2>2 DEF mint_credential_nft
  <2>4. PICK o \in spent :
                /\ o.agreement_id = a /\ c = CommitmentOf(o)
                /\ caller \in {o.employer_address, o.worker_address, DAO_ADDRESS}
    BY <2>2, AuthorizedIsParty DEF mint_credential_nft, CInv
  <2> QED
    BY <2>2, <2>3, <2>4
       DEF mint_credential_nft, Authorized, assert_employer_authorized, CommitmentOf,
           compute_parties_commitment
<1> HIDE DEF Minted
<1>2. CredentialSpec => [][Minted]_allVars
  BY <1>1, CredentialInvariance, PTL DEF CredentialSpec
<1> QED
  BY <1>2 DEF Minted, IssuedUnderAgreement
=============================================================================
