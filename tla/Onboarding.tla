----------------------------- MODULE Onboarding -----------------------------
(***************************************************************************)
(* onboarding_workflow.ts and profile_update_workflow.ts: participants     *)
(* plan an onboarding or a revision, and carry the plans out step by step  *)
(* beside each other, while licenses and names change.  A plan stops at    *)
(* its first step that fails.                                              *)
(***************************************************************************)
EXTENDS Profiles, Sequences

CONSTANTS
    Run,           \* plans made
    NoInput,       \* of a plan that is not made yet
    MaxProfiles    \* bound on the profiles minted

ASSUME OnboardingAssumption == MaxProfiles \in Nat

VARIABLES
    plan,          \* per run, the steps still to be carried out
    made,          \* per run, the steps planned
    input          \* per run, what it was planned from

vars == <<registryVars, is_verified, profileVars, plan, made, input>>

Init ==
    /\ RegistryInit /\ LicenseInit /\ ProfilesInit
    /\ plan = [r \in Run |-> <<>>] /\ made = [r \in Run |-> <<>>]
    /\ input = [r \in Run |-> NoInput]

----------------------------------------------------------------------------
(* Planning.                                                               *)

buildOnboardingWorkflow(kind) ==
    IF kind = "employer" THEN <<"assert_license_verified", "register_name", "create_profile">>
    ELSE <<"register_name", "create_profile">>

\* Fault: the assertion is planned before the update.
buildProfileUpdateWorkflow_AssertFirst(include_anchor_assertion) ==
    IF include_anchor_assertion THEN <<"assert_profile_anchored", "update_profile">>
    ELSE <<"update_profile">>

buildProfileUpdateWorkflow(include_anchor_assertion) ==
    IF include_anchor_assertion THEN <<"update_profile", "assert_profile_anchored">>
    ELSE <<"update_profile">>

Made(r, steps, in) ==
    /\ input[r] = NoInput
    /\ plan' = [plan EXCEPT ![r] = steps]
    /\ made' = [made EXCEPT ![r] = steps]
    /\ input' = [input EXCEPT ![r] = in]
    /\ UNCHANGED <<registryVars, is_verified, profileVars>>

\* The steps of an onboarding are written apart, and the builder does not compare
\* them: each may be for another wallet, name and suffix.  It reports the name of
\* the registration and the anchor of the profile; what a step says beyond that is
\* read by nothing before the step, and is chosen there.
PlanOnboarding(r) ==
    \E kind \in Participant, n \in Name, a \in Anchor :
        Made(r, buildOnboardingWorkflow(kind),
             [kind |-> kind, name_hash |-> n, profile_anchor |-> a])

\* A participant plans from a record it sees, which another plan may consume.
PlanUpdate(r) ==
    \E old \in profiles \ spent, rev \in Rev, a \in Anchor, asserted \in BOOLEAN :
        Made(r, buildProfileUpdateWorkflow(asserted),
             [kind |-> old.kind, old |-> old, rev |-> rev, profile_anchor |-> a])

----------------------------------------------------------------------------
(* Carrying plans out.                                                     *)

Advance(r) == plan' = [plan EXCEPT ![r] = Tail(@)] /\ UNCHANGED <<made, input>>

Current(r, step) == plan[r] # <<>> /\ Head(plan[r]) = step

\* Names are registered through a caller the registry authorizes, with the count on
\* chain, which the step does not carry.
RegisterName(r) ==
    LET in == input[r] IN
    /\ Current(r, "register_name")
    /\ \E w \in Wallet :
          \/ in.kind = "worker" /\ register_worker_name(ADMIN, in.name_hash, w)
          \/ /\ in.kind = "employer"
             /\ \E suffix \in SuffixCode, price \in BasePrice :
                   register_employer_name(ADMIN, in.name_hash, suffix,
                                          employer_name_count[w], price, w)
    /\ Advance(r) /\ UNCHANGED <<is_verified, profileVars>>

AssertLicense(r) ==
    /\ Current(r, "assert_license_verified")
    /\ \E w \in Wallet : AssertVerified(w)
    /\ Advance(r) /\ UNCHANGED <<registryVars, is_verified, profileVars>>

CreateProfile(r) ==
    LET in == input[r] IN
    /\ Current(r, "create_profile")
    /\ Cardinality(profiles) < MaxProfiles
    /\ \E w \in Wallet, n \in Name, suffix \in SuffixCode, rev \in Rev :
           create_profile(in.kind, w, n, suffix, rev, in.profile_anchor)
    /\ Advance(r)

UpdateProfile(r) ==
    LET in == input[r] IN
    /\ Current(r, "update_profile")
    /\ Cardinality(profiles) < MaxProfiles
    /\ update_profile(in.old.owner, in.old, in.rev, in.profile_anchor)
    /\ Advance(r)

AssertAnchored(r) ==
    /\ Current(r, "assert_profile_anchored")
    /\ assert_profile_anchored(input[r].kind, input[r].profile_anchor)
    /\ Advance(r) /\ UNCHANGED <<registryVars, is_verified, profileVars>>

\* A step reverts or is never included, and the plan is given up.
Fail(r) ==
    /\ plan[r] # <<>>
    /\ plan' = [plan EXCEPT ![r] = <<>>]
    /\ made' = [made EXCEPT ![r] = <<>>]
    /\ UNCHANGED <<registryVars, is_verified, profileVars, input>>

Next ==
    \/ \E r \in Run :
          \/ PlanOnboarding(r) \/ PlanUpdate(r)
          \/ RegisterName(r) \/ AssertLicense(r) \/ CreateProfile(r)
          \/ UpdateProfile(r) \/ AssertAnchored(r) \/ Fail(r)
    \/ \E w \in Wallet :
          OwnerStep(w) /\ UNCHANGED <<is_verified, profileVars, plan, made, input>>
    \/ LicenseNext /\ UNCHANGED <<registryVars, profileVars, plan, made, input>>

Spec == Init /\ [][Next]_vars

----------------------------------------------------------------------------
\* The anchor a plan reports is on chain, whatever else happened between its
\* steps: once it is carried out, a profile of that kind and anchor was minted,
\* and an assertion planned after an update finds the anchor.  (Of the name an
\* onboarding reports no more can be said than that it was registered: it need
\* not be the profile's.)
ReportedAnchorsAreOnChain ==
    \A r \in Run :
        LET in == input[r] IN
        /\ made[r] # <<>> /\ plan[r] = <<>> =>
              \E p \in profiles : p.kind = in.kind /\ p.profile_anchor = in.profile_anchor
        /\ Current(r, "assert_profile_anchored") =>
              assert_profile_anchored(in.kind, in.profile_anchor)

\* An employer profile is minted and revised only as the registries are then:
\* a license withdrawn, or a name sold back and bought again with another
\* suffix, after the profile or the plan was made, stops it.
EmployersAreCurrent ==
    [][\A p \in profiles' \ profiles : p.kind = "employer" =>
          /\ is_verified[p.owner]
          /\ name_owner[p.name_hash] = p.owner /\ name_kind[p.name_hash] = KIND_EMPLOYER
          /\ employer_suffix_code[p.name_hash] = p.suffix_code]_vars
=============================================================================
