------------------------------ MODULE Profiles ------------------------------
(***************************************************************************)
(* pnw_worker_profiles_v2.aleo and employer_profiles_v2.aleo over the name *)
(* and license registries: private profile records, revised by consuming   *)
(* one and minting the next, and a public index of their anchors.  The     *)
(* facts in a profile are checked for their form only and left out.        *)
(***************************************************************************)
EXTENDS NameRegistry, LicenseRegistry

CONSTANTS
    Anchor,        \* profile anchors
    Rev            \* revisions tried

ASSUME ProfilesAssumption == Rev \subseteq Nat \ {0}

VARIABLES
    profile_anchor_height,   \* per program and anchor; 0 where unset
    profiles,                \* every profile record ever minted
    spent                    \* those consumed by an update

profileVars == <<profile_anchor_height, profiles, spent>>

Participant == {"worker", "employer"}

\* A record is told from all others by the height it was minted at; `first` is
\* the height its line of revisions began at.
Profile == [kind : Participant, name_hash : Name, suffix_code : 0 .. 40, profile_rev : Rev,
            profile_anchor : Anchor, owner : Wallet, height : Nat \ {0}, first : Nat \ {0}]

ProfilesInit ==
    /\ profile_anchor_height = [kind \in Participant |-> [a \in Anchor |-> 0]]
    /\ profiles = {} /\ spent = {}

----------------------------------------------------------------------------
\* Blocks are counted by the profiles minted.
Height == Cardinality(profiles) + 1

\* Fault: the latest mint of an anchor is indexed.
AnchorOnce_Latest(kind, a) ==
    profile_anchor_height' = [profile_anchor_height EXCEPT ![kind][a] = Height]

\* The first height an anchor was seen at is kept.
AnchorOnce(kind, a) ==
    profile_anchor_height' =
        [profile_anchor_height EXCEPT ![kind][a] = IF @ = 0 THEN Height ELSE @]

\* Fault: the suffix the profile was created with is taken for the current one.
MayProfile_AnySuffix(kind, w, n, suffix) ==
    assert_is_owner(n, w) /\ (kind = "employer" => AssertVerified(w))

\* Whoever writes a profile owns its name; an employer is verified and its name
\* has the suffix of the profile.
MayProfile(kind, w, n, suffix) ==
    IF kind = "employer"
    THEN AssertVerified(w) /\ suffix # 0 /\ assert_employer_owner(n, w, suffix)
    ELSE suffix = 0 /\ assert_is_owner(n, w)

create_profile(kind, w, n, suffix, rev, a) ==
    /\ MayProfile(kind, w, n, suffix)
    /\ AnchorOnce(kind, a)
    /\ profiles' = profiles \cup
           {[kind |-> kind, name_hash |-> n, suffix_code |-> suffix, profile_rev |-> rev,
             profile_anchor |-> a, owner |-> w, height |-> Height, first |-> Height]}
    /\ UNCHANGED <<registryVars, is_verified, spent>>

\* Fault: the old record is shown and not consumed.
Consume_Shown(old) == old \in profiles /\ UNCHANGED spent

Consume(old) == old \in profiles \ spent /\ spent' = spent \cup {old}

\* Name and suffix are those of the old record.
update_profile(w, old, rev, a) ==
    /\ old.owner = w /\ Consume(old)
    /\ rev > old.profile_rev
    /\ MayProfile(old.kind, w, old.name_hash, old.suffix_code)
    /\ AnchorOnce(old.kind, a)
    /\ profiles' = profiles \cup
           {[old EXCEPT !.profile_rev = rev, !.profile_anchor = a, !.height = Height]}
    /\ UNCHANGED <<registryVars, is_verified>>

assert_profile_anchored(kind, a) == profile_anchor_height[kind][a] # 0

----------------------------------------------------------------------------
\* A line of revisions is one line: whatever wallets and plans race to revise
\* it, all records of a line but the last are consumed, revisions rise, and
\* name, suffix and owner never change on the way.
LinesDoNotFork ==
    \A p, q \in profiles : p.first = q.first /\ p # q =>
        /\ [p EXCEPT !.profile_rev = 0, !.profile_anchor = 0, !.height = 0]
             = [q EXCEPT !.profile_rev = 0, !.profile_anchor = 0, !.height = 0]
        /\ p.height < q.height => p.profile_rev < q.profile_rev /\ p \in spent

\* The public index has, for every anchor, the height of the first profile
\* minted with it, be it another participant's or a revision back to earlier
\* facts ("first-seen block height for a given anchor").
HeightsAreFirstMints ==
    \A kind \in Participant, a \in Anchor :
        LET minted == {p.height : p \in {q \in profiles : q.kind = kind /\ q.profile_anchor = a}}
        IN  IF minted = {} THEN profile_anchor_height[kind][a] = 0
            ELSE /\ profile_anchor_height[kind][a] \in minted
                 /\ \A h \in minted : profile_anchor_height[kind][a] <= h

\* Records and index together: no fork, and every indexed height is a first mint.
ProfilesIntact == LinesDoNotFork /\ HeightsAreFirstMints
=============================================================================
