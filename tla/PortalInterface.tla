-------------------------- MODULE PortalInterface --------------------------
(***************************************************************************)
(* What the portal says and what the programs take: the steps the routers  *)
(* plan with the values each step carries, the endpoint an adapter sends   *)
(* it to, the inputs the command line encoder writes, and the transitions  *)
(* of the programs addressed.  Values are told apart by name only.         *)
(***************************************************************************)
EXTENDS Naturals, Sequences

\* Tables: one value for several names, and one table joined to another.
f ++ g == [n \in DOMAIN f \cup DOMAIN g |-> IF n \in DOMAIN f THEN f[n] ELSE g[n]]
Same(names, value) == [n \in names |-> value]

---------------------------------------------------------------------------
(* Layer 2 steps.                                                          *)

PayrollNftSteps ==
    Same({"mint_cycle_nft", "mint_quarter_nft", "mint_ytd_nft", "mint_eoy_nft"},
         {"nft_id", "agreement_id", "period_start", "period_end", "doc_hash", "root",
          "inputs_hash", "schema_v", "calc_v", "policy_v"})
    ++ [revoke_payroll_nft |-> {"nft"},
        mark_payroll_nft_superseded |-> {"old_nft", "new_nft_id"}]
    ++ Same({"assert_payroll_nft_exists", "get_payroll_nft_anchor_height",
             "get_payroll_nft_status", "get_payroll_nft_superseded_by"}, {"nft_id"})

CredentialSteps ==
    [mint_credential_nft |-> {"credential_id", "subject_hash", "issuer_hash",
                              "scope_hash", "doc_hash", "root", "schema_v", "policy_v"},
     revoke_credential_nft |-> {"nft"}]
    ++ Same({"assert_credential_exists", "get_credential_anchor_height",
             "get_credential_status", "get_credential_revoked_height"}, {"credential_id"})
    ++ Same({"assert_scope_anchored", "get_scope_anchor_height"}, {"scope_hash"})

AuditSteps ==
    [mint_authorization_nft |-> {"auth_id", "scope_hash", "authorization_event_hash",
        "policy_hash", "issued_epoch", "expires_epoch", "schema_v", "policy_v"},
     revoke_authorization_nft |-> {"nft"},
     anchor_audit_attestation |-> {"auth_id", "attestation_hash", "current_epoch"}]
    ++ Same({"mark_authorization_expired", "assert_authorization_active"},
            {"auth_id", "current_epoch"})
    ++ Same({"assert_authorization_exists", "get_authorization_anchor_height",
             "get_authorization_status", "get_authorization_expiry",
             "get_authorization_revoked_height"}, {"auth_id"})
    ++ Same({"assert_attestation_anchored", "get_attestation_anchor_height",
             "get_attestation_authorization"}, {"attestation_hash"})

Layer2Steps == PayrollNftSteps ++ CredentialSteps ++ AuditSteps

Getters ==
    {"get_payroll_nft_anchor_height", "get_payroll_nft_status",
     "get_payroll_nft_superseded_by", "get_credential_anchor_height",
     "get_credential_status", "get_credential_revoked_height", "get_scope_anchor_height",
     "get_authorization_anchor_height", "get_authorization_status",
     "get_authorization_expiry", "get_authorization_revoked_height",
     "get_attestation_anchor_height", "get_attestation_authorization"}

\* Fault: the end of the period is written before its start.
EncodePayroll_PeriodReversed(kind) ==
    CASE kind = "revoke_payroll_nft" -> <<"nft">>
      [] kind = "mark_payroll_nft_superseded" -> <<"old_nft", "new_nft_id">>
      [] kind \in {"mint_cycle_nft", "mint_quarter_nft", "mint_ytd_nft", "mint_eoy_nft"} ->
            <<"nft_id", "agreement_id", "period_end", "period_start", "doc_hash", "root",
              "inputs_hash", "schema_v", "calc_v", "policy_v">>
      [] OTHER -> <<"nft_id">>

\* The inputs a command is given, in the order its codec writes them.
EncodePayroll(kind) ==
    CASE kind = "revoke_payroll_nft" -> <<"nft">>
      [] kind = "mark_payroll_nft_superseded" -> <<"old_nft", "new_nft_id">>
      [] kind \in {"mint_cycle_nft", "mint_quarter_nft", "mint_ytd_nft", "mint_eoy_nft"} ->
            <<"nft_id", "agreement_id", "period_start", "period_end", "doc_hash", "root",
              "inputs_hash", "schema_v", "calc_v", "policy_v">>
      [] OTHER -> <<"nft_id">>

EncodeCredential(kind) ==
    CASE kind = "mint_credential_nft" ->
            <<"credential_id", "subject_hash", "issuer_hash", "scope_hash", "doc_hash",
              "root", "schema_v", "policy_v">>
      [] kind = "revoke_credential_nft" -> <<"nft">>
      [] kind \in {"assert_scope_anchored", "get_scope_anchor_height"} -> <<"scope_hash">>
      [] OTHER -> <<"credential_id">>

EncodeAudit(kind) ==
    CASE kind = "mint_authorization_nft" ->
            <<"auth_id", "scope_hash", "authorization_event_hash", "policy_hash",
              "issued_epoch", "expires_epoch", "schema_v", "policy_v">>
      [] kind = "revoke_authorization_nft" -> <<"nft">>
      [] kind = "anchor_audit_attestation" ->
            <<"auth_id", "attestation_hash", "current_epoch">>
      [] kind \in {"mark_authorization_expired", "assert_authorization_active"} ->
            <<"auth_id", "current_epoch">>
      [] kind \in {"assert_attestation_anchored", "get_attestation_anchor_height",
                   "get_attestation_authorization"} -> <<"attestation_hash">>
      [] OTHER -> <<"auth_id">>

Encoded(kind) ==
    CASE kind \in DOMAIN PayrollNftSteps -> EncodePayroll(kind)
      [] kind \in DOMAIN CredentialSteps -> EncodeCredential(kind)
      [] OTHER -> EncodeAudit(kind)

Transition2(kind) ==
    CASE kind = "revoke_payroll_nft" -> "revoke_nft"
      [] kind = "mark_payroll_nft_superseded" -> "mark_superseded"
      [] kind = "assert_payroll_nft_exists" -> "assert_nft_exists"
      [] kind = "get_payroll_nft_anchor_height" -> "get_anchor_height"
      [] kind = "get_payroll_nft_status" -> "get_status"
      [] kind = "get_payroll_nft_superseded_by" -> "get_superseded_by"
      [] OTHER -> kind

\* Fault: a payroll NFT is revoked in the credential program.
ResolveLayer2_WrongProgram(kind) ==
    [program |-> IF kind \in DOMAIN PayrollNftSteps \ {"revoke_payroll_nft"} THEN "payroll_nfts"
                 ELSE IF kind \in DOMAIN AuditSteps THEN "audit_nft" ELSE "credential_nft",
     transition |-> Transition2(kind)]

ResolveLayer2(kind) ==
    [program |-> IF kind \in DOMAIN PayrollNftSteps THEN "payroll_nfts"
                 ELSE IF kind \in DOMAIN AuditSteps THEN "audit_nft" ELSE "credential_nft",
     transition |-> Transition2(kind)]

---------------------------------------------------------------------------
(* Layer 1 steps.                                                          *)

NameSteps ==
    [register_worker_name |-> {"name_hash", "fee_amount"},
     release_worker_name |-> {},
     register_employer_name |-> {"name_hash", "suffix_code", "fee_amount"},
     assert_name_owner |-> {"name_hash", "owner"}]
    ++ Same({"request_empl_sellback", "fulfill_empl_sellback"}, {"name_hash"})

WorkerFacts ==
    {"first_name_u128", "middle_name_u128", "last_name_u128", "age", "gender",
     "residency_state_code", "country_code", "state_issue_id_u128", "industry_code",
     "citizenship_flag", "schema_v", "policy_v"}
EmployerFacts ==
    {"legal_name_u128", "registration_id_u128", "registration_state_code",
     "country_code", "formation_year", "entity_type_code", "industry_code",
     "employer_size_code", "operating_region_code", "schema_v", "policy_v"}
NewProfile == {"profile_rev", "profile_anchor"}
NextProfile == {"old_profile", "new_profile_rev", "new_profile_anchor"}

WorkerProfileSteps ==
    [create_worker_profile |-> {"worker_name_hash"} \cup WorkerFacts \cup NewProfile,
     update_worker_profile |-> NextProfile \cup WorkerFacts]
    ++ Same({"assert_worker_profile_anchored", "get_worker_profile_anchor_height"},
            {"profile_anchor"})

EmployerProfileSteps ==
    [create_employer_profile |->
        {"employer_name_hash", "suffix_code"} \cup EmployerFacts \cup NewProfile,
     update_employer_profile |-> NextProfile \cup EmployerFacts]
    ++ Same({"assert_employer_profile_anchor", "get_employer_profile_anchor_height"},
            {"profile_anchor"})

LicenseSteps ==
    [license_set_verified |-> {"wallet", "license_hash", "verified"}]
    ++ Same({"license_assert_verified", "license_get_license_hash"}, {"wallet"})

Offer ==
    {"agreement_id", "parties_key", "employer_name_hash", "worker_name_hash",
     "worker_address", "industry_code", "pay_frequency_code", "start_epoch", "end_epoch",
     "review_epoch", "agreement_rev", "schema_v", "policy_v", "terms_doc_hash",
     "terms_root", "offer_time_hash"}

AgreementSteps ==
    [create_job_offer |-> Offer, accept_job_offer |-> {"offer", "accept_time_hash"}]
    ++ Same({"pause_agreement", "terminate_agreement", "resume_agreement_employer",
             "resume_agreement_worker", "resume_agreement_dao", "finalize_resume",
             "supersede_agreement"}, {"agreement_id", "parties_key"})
    ++ Same({"assert_agreement_active", "get_agreement_anchor_height"}, {"agreement_id"})

Amounts == {"gross_amount", "net_amount", "tax_withheld", "fee_amount"}
Receipt ==
    {"worker_owner", "employer_owner", "worker_name_hash", "employer_name_hash",
     "agreement_id", "epoch_id", "payroll_inputs_hash", "pair_hash", "utc_time_hash"}
    \cup Amounts

ReceiptSteps ==
    [mint_paystub_receipts |-> Receipt \cup {"receipt_anchor"},
     mint_reversal_receipts |-> Receipt \cup {"reversal_anchor"}]
    ++ Same({"assert_receipt_anchored", "get_receipt_anchor_height"}, {"receipt_anchor"})

AuditLogSteps ==
    Same({"audit_anchor_event", "audit_assert_event_anchored", "audit_get_event_height"},
         {"event_hash"})

BatchRow ==
    {"worker_addr", "worker_name_hash", "agreement_id", "epoch_id", "receipt_anchor",
     "receipt_pair_hash", "payroll_inputs_hash", "utc_time_hash", "audit_event_hash",
     "batch_id", "row_hash"} \cup Amounts
Payer == {"employer_usdcx", "employer_addr", "employer_name_hash"}

PayrollSteps ==
    [execute_payroll |-> Payer \cup BatchRow,
     execute_payroll_batch_2 |-> Payer \cup {"worker1", "worker2"}]

Layer1Steps ==
    NameSteps ++ WorkerProfileSteps ++ EmployerProfileSteps ++ LicenseSteps
    ++ AgreementSteps ++ ReceiptSteps ++ AuditLogSteps ++ PayrollSteps

\* Fault: the agreement steps are moved to the new program, the rest is not.
Program1_HalfMigrated(kind) ==
    CASE kind \in DOMAIN NameSteps -> "pnw_name_registry"
      [] kind \in DOMAIN WorkerProfileSteps -> "pnw_worker_profiles"
      [] kind \in DOMAIN EmployerProfileSteps -> "employer_profiles"
      [] kind \in DOMAIN LicenseSteps -> "employer_license_registry"
      [] kind \in DOMAIN AgreementSteps -> "employer_agreement_v4"
      [] kind \in DOMAIN ReceiptSteps -> "paystub_receipts"
      [] kind \in DOMAIN AuditLogSteps -> "payroll_audit_log"
      [] OTHER -> "payroll_core"

Program1(kind) ==
    CASE kind \in DOMAIN NameSteps -> "pnw_name_registry"
      [] kind \in DOMAIN WorkerProfileSteps -> "pnw_worker_profiles"
      [] kind \in DOMAIN EmployerProfileSteps -> "employer_profiles"
      [] kind \in DOMAIN LicenseSteps -> "employer_license_registry"
      [] kind \in DOMAIN AgreementSteps -> "employer_agreement_v2"
      [] kind \in DOMAIN ReceiptSteps -> "paystub_receipts"
      [] kind \in DOMAIN AuditLogSteps -> "payroll_audit_log"
      [] OTHER -> "payroll_core"

Transition1(kind) ==
    CASE kind = "assert_name_owner" -> "assert_is_owner"
      [] kind \in {"assert_worker_profile_anchored", "assert_employer_profile_anchor"} ->
            "assert_profile_anchored"
      [] kind \in {"get_worker_profile_anchor_height", "get_employer_profile_anchor_height",
                   "get_agreement_anchor_height", "get_receipt_anchor_height"} ->
            "get_anchor_height"
      [] kind = "license_set_verified" -> "set_verified"
      [] kind = "license_assert_verified" -> "assert_verified"
      [] kind = "license_get_license_hash" -> "get_license_hash"
      [] kind = "audit_anchor_event" -> "anchor_event"
      [] kind = "audit_assert_event_anchored" -> "assert_event_anchored"
      [] kind = "audit_get_event_height" -> "get_event_height"
      [] OTHER -> kind

Getters1 ==
    {"get_worker_profile_anchor_height", "get_employer_profile_anchor_height",
     "license_get_license_hash", "get_agreement_anchor_height",
     "get_receipt_anchor_height", "audit_get_event_height"}

ResolveLayer1(kind) == [program |-> Program1(kind), transition |-> Transition1(kind)]

---------------------------------------------------------------------------
(* The programs a network is configured with.                              *)

Configured ==
    [layer1 |-> {"pnw_router_v2", "pnw_name_registry", "pnw_worker_profiles",
                 "employer_profiles", "employer_license_registry", "employer_agreement_v2",
                 "payroll_core", "paystub_receipts", "payroll_audit_log"},
     layer2 |-> {"payroll_nfts", "credential_nft", "audit_nft"}]
=============================================================================
