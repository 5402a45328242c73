---------------------------- MODULE PortalRouter ----------------------------
(***************************************************************************)
(* The routers of the portal: a caller builds a plan, and executing it     *)
(* hands its steps to the adapter, which addresses each one.  What the     *)
(* programs accept is read off the programs.                               *)
(***************************************************************************)
EXTENDS PortalInterface, SequencesExt

CONSTANT MaxSteps        \* bound on the plans composed by hand

ASSUME StepsAssumption == MaxSteps \in Nat

VARIABLES
    planned,             \* kinds of the steps of the plan built last
    calls,               \* what the adapter addressed for it
    thrown               \* the adapter knows no endpoint for a step

routerVars == <<planned, calls, thrown>>

---------------------------------------------------------------------------
(* Transitions of the addressed programs and their inputs, in order.       *)

PayrollNftsTakes ==
    Same({"mint_cycle_nft", "mint_quarter_nft", "mint_ytd_nft", "mint_eoy_nft"},
         <<"nft_id", "agreement_id", "period_start", "period_end", "doc_hash", "root",
           "inputs_hash", "schema_v", "calc_v", "policy_v">>)
    ++ [revoke_nft |-> <<"nft">>, mark_superseded |-> <<"old_nft", "new_nft_id">>,
        assert_nft_exists |-> <<"nft_id">>]

CredentialNftTakes ==
    [mint_credential_nft |-> <<"credential_id", "subject_hash", "issuer_hash",
        "scope_hash", "doc_hash", "root", "schema_v", "policy_v">>,
     revoke_credential_nft |-> <<"nft">>,
     assert_credential_exists |-> <<"credential_id">>,
     assert_scope_anchored |-> <<"scope_hash">>]

AuditNftTakes ==
    [mint_authorization_nft |-> <<"auth_id", "request_id", "scope_hash",
        "authorization_event_hash", "employer_consent_hash", "worker_consent_hash",
        "policy_hash", "issued_epoch", "expires_epoch", "access_duration_epochs",
        "schema_v", "policy_v">>,
     revoke_authorization_nft |-> <<"nft">>,
     mark_authorization_expired |-> <<"auth_id", "current_epoch">>,
     anchor_audit_attestation |-> <<"auth_id", "attestation_hash", "current_epoch">>,
     assert_authorization_exists |-> <<"auth_id">>,
     assert_authorization_active |-> <<"auth_id", "current_epoch">>,
     assert_attestation_anchored |-> <<"attestation_hash">>]

Layer2Takes ==
    [payroll_nfts |-> PayrollNftsTakes, credential_nft |-> CredentialNftTakes,
     audit_nft |-> AuditNftTakes]

AgreementKey == {"agreement_id", "parties_key", "employer_name_hash", "worker_name_hash"}

NameRegistryTakes ==
    [register_worker_name |-> {"name_hash", "fee_amount"}, release_worker_name |-> {},
     register_employer_name |-> {"name_hash", "suffix_code", "count", "fee_amount"},
     request_empl_sellback |-> {"name_hash"},
     fulfill_empl_sellback |-> {"name_hash", "seller", "refund"},
     assert_is_owner |-> {"name_hash", "owner"},
     assert_employer_owner |-> {"name_hash", "owner", "suffix_code"}]

WorkerProfilesTakes ==
    [create_worker_profile |-> {"worker_name_hash"} \cup WorkerFacts \cup NewProfile,
     update_worker_profile |-> NextProfile \cup WorkerFacts,
     assert_profile_anchored |-> {"profile_anchor"},
     assert_worker_exists |-> {"profile_anchor"}]

EmployerProfilesTakes ==
    [create_employer_profile |->
        {"employer_name_hash", "suffix_code"} \cup EmployerFacts \cup NewProfile,
     update_employer_profile |-> NextProfile \cup EmployerFacts,
     assert_profile_anchored |-> {"profile_anchor"},
     assert_employer_exists |-> {"profile_anchor"}]

LicenseTakes ==
    [set_verified |-> {"wallet", "license_hash", "verified"}, assert_verified |-> {"wallet"}]

AgreementTakes ==
    [create_job_offer |-> Offer, accept_job_offer |-> {"offer", "accept_time_hash"}]
    ++ Same({"pause_agreement_employer", "pause_agreement_worker", "pause_agreement_dao",
             "terminate_agreement_employer", "terminate_agreement_worker",
             "terminate_agreement_dao", "approve_resume_employer", "approve_resume_worker",
             "approve_resume_dao", "resume_agreement", "supersede_agreement"}, AgreementKey)
    ++ Same({"assert_agreement_anchored", "assert_agreement_active"}, {"agreement_id"})

ReceiptsTakes ==
    [mint_paystub_receipts |-> Receipt \cup {"receipt_anchor"},
     mint_reversal_receipts |-> Receipt \cup {"reversal_anchor"},
     assert_receipt_anchored |-> {"receipt_anchor"}]

AuditLogTakes == Same({"anchor_event", "assert_event_anchored"}, {"event_hash"})

\* A row is one input, told here by its fields where the step spells them out.
CoreTakes ==
    [execute_payroll |-> Payer \cup BatchRow \cup {"merkle_proofs"},
     execute_payroll_batch_2 |->
        Payer \cup {"worker1", "worker2", "w1_merkle_proofs", "w2_merkle_proofs"}]

Layer1Takes ==
    [pnw_name_registry |-> NameRegistryTakes, pnw_worker_profiles |-> WorkerProfilesTakes,
     employer_profiles |-> EmployerProfilesTakes, employer_license_registry |-> LicenseTakes,
     employer_agreement_v2 |-> AgreementTakes, paystub_receipts |-> ReceiptsTakes,
     payroll_audit_log |-> AuditLogTakes, payroll_core |-> CoreTakes]

---------------------------------------------------------------------------
(* Building and executing plans.                                           *)

RouterInit == planned = <<>> /\ calls = <<>> /\ thrown = FALSE

Build(steps) == planned' = steps /\ calls' = <<>> /\ thrown' = FALSE

PlanLayer1 ==
    \E kind \in {"register_worker_name", "register_employer_name", "create_job_offer",
                 "accept_job_offer", "execute_payroll", "execute_payroll_batch_2",
                 "mint_paystub_receipts", "mint_reversal_receipts"} : Build(<<kind>>)

\* A caller may also write a layer 1 step itself, as the workflows do.
WriteLayer1 == \E kind \in DOMAIN Layer1Steps : Build(<<kind>>)

\* The phases of buildAuditWorkflow, one plan each.
PlanAuditPhase ==
    \E kind \in {"audit_anchor_event", "audit_mint_authorization_nft"} : Build(<<kind>>)

PlanMany == \E steps \in BoundedSeq(DOMAIN Layer2Steps, MaxSteps) : Build(steps)

PlanMintNft ==
    \E kind \in {"mint_cycle_nft", "mint_quarter_nft", "mint_ytd_nft", "mint_eoy_nft"} :
        Build(<<kind>>)

PlanVerifyPayrollNft ==
    Build(<<"assert_payroll_nft_exists", "get_payroll_nft_status",
            "get_payroll_nft_anchor_height">>)

VerifyScope == <<"assert_scope_anchored", "get_scope_anchor_height">>

PlanVerifyCredential ==
    \E scoped \in BOOLEAN :
        Build(<<"assert_credential_exists", "get_credential_status",
                "get_credential_anchor_height">> \o (IF scoped THEN VerifyScope ELSE <<>>))

PlanVerifyAuthorization ==
    Build(<<"assert_authorization_exists", "assert_authorization_active",
            "get_authorization_status", "get_authorization_anchor_height",
            "get_authorization_expiry">>)

Execute1 ==
    /\ planned # <<>> /\ calls = <<>>
    /\ \A i \in DOMAIN planned : planned[i] \notin DOMAIN Layer2Steps
    /\ IF \A i \in DOMAIN planned : planned[i] \in DOMAIN Layer1Steps
       THEN calls' = [i \in DOMAIN planned |-> ResolveLayer1(planned[i])] /\ UNCHANGED thrown
       ELSE thrown' = TRUE /\ UNCHANGED calls
    /\ UNCHANGED planned

Execute2 ==
    /\ planned # <<>> /\ calls = <<>>
    /\ \A i \in DOMAIN planned : planned[i] \in DOMAIN Layer2Steps
    /\ calls' = [i \in DOMAIN planned |-> ResolveLayer2(planned[i])]
    /\ UNCHANGED <<planned, thrown>>

RouterNext ==
    \/ PlanLayer1 \/ WriteLayer1 \/ PlanAuditPhase \/ PlanMany \/ PlanMintNft
    \/ PlanVerifyPayrollNft \/ PlanVerifyCredential \/ PlanVerifyAuthorization
    \/ Execute1 \/ Execute2

RouterSpec == RouterInit /\ [][RouterNext]_routerVars

---------------------------------------------------------------------------
(* Properties.                                                             *)

Called(i, steps) == i \in DOMAIN calls /\ planned[i] \in DOMAIN steps

\* The steps the portal can plan and no program executes: getters, which no
\* program has as transitions; the mint of an authorization, whose command lacks
\* four inputs; the agreement steps, which name transitions the agreement program
\* does not have, or lack the names its commitment binds; the registration of an
\* employer name without its count, the fulfilment of a sellback without seller
\* and refund, and payroll without the proofs of its transfers.
Misfits ==
    Getters \cup Getters1 \cup {"mint_authorization_nft"}
    \cup (DOMAIN AgreementSteps
              \ {"create_job_offer", "accept_job_offer", "assert_agreement_active"})
    \cup {"register_employer_name", "fulfill_empl_sellback", "execute_payroll",
          "execute_payroll_batch_2"}

Inputs(step) == IF step \in DOMAIN Layer2Steps THEN Encoded(step) ELSE Layer1Steps[step]

Fits(step, call) ==
    LET takes == (Layer1Takes ++ Layer2Takes)[call.program]
    IN  call.transition \in DOMAIN takes /\ Inputs(step) = takes[call.transition]

\* Every step is addressed to a program the network is configured with
\* (programs.ts), and a Layer 2 command writes every value its step carries.  Of
\* all steps the misfits and no others miss their transition or its inputs, in
\* order for Layer 2 and by name for Layer 1, whose encoder is not in the source
\* ("the canonical execution mapping", layer1_adapter.ts:43); and only the last
\* phase of an audit, planned as a step of a kind that no table maps, cannot be
\* addressed at all ("Map each CallPlanStep kind", layer1_adapter.ts:42).
OnlyKnownMisfits ==
    /\ \A i \in DOMAIN calls :
          /\ calls[i].program \in Configured[IF planned[i] \in DOMAIN Layer1Steps THEN "layer1"
                                             ELSE "layer2"]
          /\ Called(i, Layer2Steps) => ToSet(Encoded(planned[i])) = Layer2Steps[planned[i]]
          /\ planned[i] \in Misfits <=> ~Fits(planned[i], calls[i])
    /\ thrown => planned = <<"audit_mint_authorization_nft">>
=============================================================================
