------------------------- MODULE EmployerAgreement -------------------------
(***************************************************************************)
(* employer_agreement_v4.aleo composed with the two programs it calls: the *)
(* license registry, and the name registry through NameOwnership.          *)
(*                                                                         *)
(* Every action is one whole Aleo transaction: the circuit part (asserts,  *)
(* records consumed and created) and the on-chain final block commit       *)
(* together or not at all.  Licenses and names change between any two      *)
(* transactions.  The terms of a job (dates, frequency, revisions, hashes) *)
(* are abstracted: create_job_offer rejects ill-formed ones before the     *)
(* transaction exists, and nothing reads them afterwards.                  *)
(***************************************************************************)
EXTENDS LicenseRegistry, NameOwnership

CONSTANTS
    Agreement,      \* agreement ids
    PartiesKey,     \* the secrets hashed into a parties commitment
    DAO_ADDRESS,    \* the third party of every agreement
    NoCommitment    \* the sentinel 0field

ASSUME DaoAssumption == DAO_ADDRESS \in Wallet

VARIABLES
    agreement_anchor_height,        \* [Agreement -> BOOLEAN]: is it nonzero?
    agreement_parties_commitment,   \* [Agreement -> Commitment or NoCommitment]
    agreement_status,               \* [Agreement -> Status]
    resume_approvals,               \* [Agreement -> SUBSET Role], the 3-bit mask
    offers,                         \* every PendingAgreement record ever created
    spent,                          \* those of them consumed by an acceptance
    finals                          \* the FinalAgreement records

agreementVars == <<agreement_anchor_height, agreement_parties_commitment,
                   agreement_status, resume_approvals, offers, spent, finals>>
vars == <<is_verified, name_owner, agreementVars>>

----------------------------------------------------------------------------
Role == {"employer", "worker", "dao"}

\* "absent" is the 255u8 that an unset mapping entry is read as.
Status == {"absent", "pending", "active", "paused", "terminated", "superseded"}

\* BHP1024 is collision free, so a commitment is what it commits to.
Commitment == [parties_key : PartiesKey,
               employer_name_hash : Name, worker_name_hash : Name]

PendingAgreement == [agreement_id : Agreement, parties_key : PartiesKey,
                     employer_name_hash : Name, worker_name_hash : Name,
                     employer_address : Wallet, worker_address : Wallet]

FinalAgreement == [terms : PendingAgreement, owner : Wallet]

compute_parties_commitment(k, en, wn) ==
    [parties_key |-> k, employer_name_hash |-> en, worker_name_hash |-> wn]

CommitmentOf(o) == compute_parties_commitment(
    o.parties_key, o.employer_name_hash, o.worker_name_hash)

\* Fault: the copies are minted to whoever owns the names by now.
Copies_ToNameOwner(o) == {[terms |-> o, owner |-> w] :
                             w \in {name_owner[o.employer_name_hash],
                                    name_owner[o.worker_name_hash], DAO_ADDRESS}}

\* The copies of the accepted agreement: employer's, worker's and the DAO's.
Copies(o) == {[terms |-> o, owner |-> w] :
                 w \in {o.employer_address, o.worker_address, DAO_ADDRESS}}

\* A wallet can reproduce a commitment when a record it created or owned
\* carries the key.
HoldsKey(w, k) ==
    \/ \E o \in offers : o.parties_key = k /\ w \in {o.employer_address, o.worker_address}
    \/ \E f \in finals : f.terms.parties_key = k /\ f.owner = w

\* An employer draws a parties_key for one worker, and may use it again in a
\* later agreement with the same worker.
MayUseKey(k, employer, worker) ==
    \A o \in offers : o.parties_key = k =>
        o.employer_address = employer /\ o.worker_address = worker

----------------------------------------------------------------------------
AgreementInit ==
    /\ agreement_anchor_height = [a \in Agreement |-> FALSE]
    /\ agreement_parties_commitment = [a \in Agreement |-> NoCommitment]
    /\ agreement_status = [a \in Agreement |-> "absent"]
    /\ resume_approvals = [a \in Agreement |-> {}]
    /\ offers = {} /\ spent = {} /\ finals = {}

Init == LicenseInit /\ OwnershipInit /\ AgreementInit

\* Fault: the approvals given are left behind.
SetStatus_KeepApprovals(a, s) ==
    /\ agreement_status' = [agreement_status EXCEPT ![a] = s]
    /\ UNCHANGED resume_approvals

\* Fault: the mask gets the sentinel 255u8 of a status, bits of no role included.
SetStatus_SentinelMask(a, s) ==
    /\ agreement_status' = [agreement_status EXCEPT ![a] = s]
    /\ resume_approvals' = [resume_approvals EXCEPT ![a] = Role \cup {"unassigned"}]

\* The status is written together with an empty approval mask.
SetStatus(a, s) ==
    /\ agreement_status' = [agreement_status EXCEPT ![a] = s]
    /\ resume_approvals' = [resume_approvals EXCEPT ![a] = {}]

\* Fault: the existing anchor is not looked at.
Unanchored_NotChecked(a) == TRUE

Unanchored(a) == ~agreement_anchor_height[a]

\* The caller becomes the employer_address of the offer.
create_job_offer(o) ==
    /\ Unanchored(o.agreement_id)
    /\ AssertVerified(o.employer_address)
    /\ AssertIsOwner(o.employer_name_hash, o.employer_address)
    /\ MayUseKey(o.parties_key, o.employer_address, o.worker_address)
    /\ agreement_anchor_height' = [agreement_anchor_height EXCEPT ![o.agreement_id] = TRUE]
    /\ agreement_parties_commitment' =
           [agreement_parties_commitment EXCEPT ![o.agreement_id] = CommitmentOf(o)]
    /\ SetStatus(o.agreement_id, "pending")
    /\ offers' = offers \cup {o}
    /\ UNCHANGED <<is_verified, name_owner, spent, finals>>

\* The checks every later transition makes: the agreement is anchored and the
\* arguments of the caller reproduce its commitment.
CommitmentChecked(a, c) ==
    /\ agreement_anchor_height[a]
    /\ agreement_parties_commitment[a] # NoCommitment
    /\ agreement_parties_commitment[a] = c

\* Fault: an offer closed in the meantime is accepted all the same.
Offered_NotChecked(a) == agreement_status[a] # "active"

Offered(a) == agreement_status[a] = "pending"

accept_job_offer(caller, o) ==
    /\ o \in offers \ spent
    /\ o.worker_address = caller
    /\ AssertIsOwner(o.worker_name_hash, caller)
    /\ Offered(o.agreement_id)
    /\ CommitmentChecked(o.agreement_id, CommitmentOf(o))
    /\ SetStatus(o.agreement_id, "active")
    /\ spent' = spent \cup {o}
    /\ finals' = finals \cup Copies(o)
    /\ UNCHANGED <<is_verified, name_owner, agreement_anchor_height,
                   agreement_parties_commitment, offers>>

----------------------------------------------------------------------------
\* The caller proves knowledge of the agreement's key and names.
Presents(caller, a, c) == CommitmentChecked(a, c) /\ HoldsKey(caller, c.parties_key)

\* The role checks of the role-specific transitions.
ActsAs(role, caller, c) ==
    \/ /\ role = "employer"
       /\ AssertVerified(caller)
       /\ AssertIsOwner(c.employer_name_hash, caller)
    \/ role = "worker" /\ AssertIsOwner(c.worker_name_hash, caller)
    \/ role = "dao" /\ caller = DAO_ADDRESS

Elsewhere == UNCHANGED <<is_verified, name_owner, agreement_anchor_height,
                         agreement_parties_commitment, offers, spent, finals>>

pause_agreement(role, caller, a, c) ==
    /\ Presents(caller, a, c) /\ ActsAs(role, caller, c)
    /\ agreement_status[a] = "active"
    /\ SetStatus(a, "paused")
    /\ Elsewhere

terminate_agreement(role, caller, a, c) ==
    /\ Presents(caller, a, c) /\ ActsAs(role, caller, c)
    /\ agreement_status[a] \in Status \ {"absent", "terminated"}
    /\ SetStatus(a, "terminated")
    /\ Elsewhere

\* Fault: approvals are taken in advance, while the agreement runs.
Resumable_WhileActive(a) == agreement_status[a] \in {"active", "paused"}

Resumable(a) == agreement_status[a] = "paused"

approve_resume(role, caller, a, c) ==
    /\ Presents(caller, a, c) /\ ActsAs(role, caller, c)
    /\ Resumable(a)
    /\ resume_approvals' = [resume_approvals EXCEPT ![a] = @ \cup {role}]
    /\ UNCHANGED agreement_status
    /\ Elsewhere

resume_agreement(caller, a, c) ==
    /\ Presents(caller, a, c)
    /\ Resumable(a)
    /\ resume_approvals[a] = Role
    /\ SetStatus(a, "active")
    /\ Elsewhere

\* Fault: superseding asks for a role, as terminating does.
supersede_agreement_ByRole(caller, a, c) ==
    /\ Presents(caller, a, c) /\ \E role \in Role : ActsAs(role, caller, c)
    /\ agreement_status[a] \in Status \ {"absent", "superseded"}
    /\ SetStatus(a, "superseded")
    /\ Elsewhere

\* No role is asked for: any holder of the key may supersede.
supersede_agreement(caller, a, c) ==
    /\ Presents(caller, a, c)
    /\ agreement_status[a] \in Status \ {"absent", "superseded"}
    /\ SetStatus(a, "superseded")
    /\ Elsewhere

\* Cross-program guards of the programs that pay and certify.
assert_agreement_active(a) == agreement_status[a] = "active"
assert_employer_authorized(caller, a, c) ==
    Presents(caller, a, c) /\ assert_agreement_active(a)

----------------------------------------------------------------------------
LicenseStep == LicenseNext /\ UNCHANGED <<name_owner, agreementVars>>
OwnershipStep == OwnershipNext /\ UNCHANGED <<is_verified, agreementVars>>

LifecycleStep(caller, a, c) ==
    \/ \E role \in Role : \/ pause_agreement(role, caller, a, c)
                          \/ terminate_agreement(role, caller, a, c)
                          \/ approve_resume(role, caller, a, c)
    \/ resume_agreement(caller, a, c)
    \/ supersede_agreement(caller, a, c)

Next ==
    \/ LicenseStep
    \/ OwnershipStep
    \/ \E o \in PendingAgreement : create_job_offer(o)
    \/ \E caller \in Wallet, o \in offers : accept_job_offer(caller, o)
    \/ \E caller \in Wallet, a \in Agreement, c \in Commitment : LifecycleStep(caller, a, c)

Spec == Init /\ [][Next]_vars

----------------------------------------------------------------------------
TypeOK ==
    /\ LicenseTypeOK /\ OwnershipTypeOK
    /\ agreement_anchor_height \in [Agreement -> BOOLEAN]
    /\ agreement_parties_commitment \in [Agreement -> Commitment \cup {NoCommitment}]
    /\ agreement_status \in [Agreement -> Status]
    /\ resume_approvals \in [Agreement -> SUBSET Role]
    /\ offers \subseteq PendingAgreement
    /\ spent \subseteq offers
    /\ finals \subseteq FinalAgreement

\* Approvals exist only between a pause and the end of that pause, so that an
\* approval given in one pause never counts in another (resume_approvals is
\* written by six handlers; approve_resume_* and resume_agreement read it).
ApprovalsOnlyWhilePaused ==
    \A a \in Agreement : resume_approvals[a] # {} => agreement_status[a] = "paused"

\* The private records and the public mappings tell the same story: an id is
\* offered once, exactly one set of copies exists for an accepted offer and
\* none for another, an agreement runs or pauses only on an accepted offer,
\* and a pending one can still be accepted (create_job_offer, accept_job_offer).
ContractFormed ==
    /\ \A o1, o2 \in offers : o1.agreement_id = o2.agreement_id => o1 = o2
    /\ finals = UNION {Copies(o) : o \in spent}
    /\ \A a \in Agreement :
          /\ agreement_status[a] \in {"active", "paused"} =>
                 \E o \in spent : o.agreement_id = a
          /\ agreement_status[a] = "pending" =>
                 \E o \in offers \ spent : o.agreement_id = a

\* Whoever holds a record of an agreement can still reproduce its commitment:
\* the copies never become useless (CommitmentChecked in every handler).
CopiesStayUsable ==
    \A o \in offers :
        /\ agreement_anchor_height[o.agreement_id]
        /\ agreement_parties_commitment[o.agreement_id] = CommitmentOf(o)

\* The parties_key of an agreement is known to its employer, its worker and the
\* DAO alone, however names change hands: the comment above
\* assert_employer_authorized rests on it, and so does supersede_agreement,
\* which asks for no role.
KeyStaysWithParties ==
    \A o \in offers, w \in Wallet :
        HoldsKey(w, o.parties_key) =>
            w \in {o.employer_address, o.worker_address, DAO_ADDRESS}

\* A terminated or superseded agreement never runs, pauses or is offered again
\* (payroll and credentials ask assert_agreement_active at every call).
Closed(a) == agreement_status[a] \in {"terminated", "superseded"}
ClosedForGood == [][\A a \in Agreement : Closed(a) => Closed(a)']_vars

\* An agreement that lost its license or whose names went to others may never
\* collect the approvals it needs; both its parties can close it all the same,
\* whatever its state (supersede_agreement asks for the key alone).
PartiesCanClose ==
    \A o \in offers : ~Closed(o.agreement_id) =>
        \A w \in {o.employer_address, o.worker_address} :
            ENABLED supersede_agreement(w, o.agreement_id, CommitmentOf(o))

\* The agreement keeps the promise of AgreementLifecycle: one offer, one
\* acceptance, and after a pause a resumption only with the consent of all three
\* parties given since that pause.
PhaseOf(s) == IF s \in {"terminated", "superseded"} THEN "closed" ELSE s
Lifecycle == INSTANCE AgreementLifecycle WITH
    Party <- Role,
    phase <- [a \in Agreement |-> PhaseOf(agreement_status[a])],
    consents <- resume_approvals
ImplementsLifecycle == Lifecycle!Spec
=============================================================================
