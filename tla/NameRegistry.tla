---------------------------- MODULE NameRegistry ---------------------------
(***************************************************************************)
(* pnw_name_registry_v2.aleo: the soulbound .pnw names, their reverse      *)
(* indexes and the sellback of employer names.  Every mapping is a total   *)
(* function whose default is what get_or_use reads for an absent key.      *)
(***************************************************************************)
EXTENDS Addresses, Integers, FiniteSets

CONSTANTS
    Name,          \* the name hashes
    NoName,        \* the sentinel 0field, which is a name hash like any other
    Program,       \* program addresses that may be the authorized registrar
    ADMIN,         \* the setup address
    SuffixCode,    \* the suffix codes tried by callers
    BasePrice      \* the base prices (micro-USDCx) tried by callers

Caller == Wallet \cup Program \cup {ADMIN}

ASSUME RegistryAssumption ==
    /\ ZERO_ADDR \notin Caller
    /\ IsFiniteSet(Name)
    /\ SuffixCode \subseteq Nat /\ BasePrice \subseteq Nat

VARIABLES
    name_owner,                 \* [Name -> Wallet \cup {ZERO_ADDR}]
    name_kind,                  \* [Name -> Kind]
    employer_suffix_code,       \* [Name -> suffix code, or 0]
    worker_primary_name_of,     \* [Wallet -> Name \cup {NoName}]
    employer_primary_name_of,   \* [Wallet -> Name \cup {NoName}]
    employer_name_count,        \* [Wallet -> 0..MAX_NAMES]
    employer_base_paid,         \* [Name -> Nat]
    sellback_seller,            \* [Name -> Wallet \cup {ZERO_ADDR}]
    sellback_refund_amount,     \* [Name -> Nat]
    authorized_caller           \* the registrar, or ZERO_ADDR before setup

nameVars == <<name_owner, name_kind, employer_suffix_code>>
indexVars == <<worker_primary_name_of, employer_primary_name_of, employer_name_count>>
sellbackVars == <<sellback_seller, sellback_refund_amount>>
registryVars == <<nameVars, indexVars, employer_base_paid, sellbackVars, authorized_caller>>

----------------------------------------------------------------------------
NO_KIND == 0
KIND_WORKER == 1
KIND_EMPLOYER == 2
Kind == {NO_KIND, KIND_WORKER, KIND_EMPLOYER}

MAX_NAMES == 3

is_valid_suffix(code) == code \in 1..40

\* The refund promised for a name bought at base_paid.
RefundOf(base_paid) == (base_paid * 75) \div 100

RegistryInit ==
    /\ name_owner = [n \in Name |-> ZERO_ADDR]
    /\ name_kind = [n \in Name |-> NO_KIND]
    /\ employer_suffix_code = [n \in Name |-> 0]
    /\ worker_primary_name_of = [w \in Wallet |-> NoName]
    /\ employer_primary_name_of = [w \in Wallet |-> NoName]
    /\ employer_name_count = [w \in Wallet |-> 0]
    /\ employer_base_paid = [n \in Name |-> 0]
    /\ sellback_seller = [n \in Name |-> ZERO_ADDR]
    /\ sellback_refund_amount = [n \in Name |-> 0]
    /\ authorized_caller = ZERO_ADDR

----------------------------------------------------------------------------
\* Access control of the gated transitions.
Gated(caller) == caller \in {authorized_caller, ADMIN}

\* Fault: the current owner is not looked at.
Unclaimed_NotChecked(n) == TRUE

Unclaimed(n) == name_owner[n] = ZERO_ADDR

\* Fault: the suffix of the previous registration survives.
SetName_KeepSuffix(n, owner, kind, suffix) ==
    /\ name_owner' = [name_owner EXCEPT ![n] = owner]
    /\ name_kind' = [name_kind EXCEPT ![n] = kind]
    /\ employer_suffix_code' =
           [employer_suffix_code EXCEPT ![n] = IF suffix = 0 THEN @ ELSE suffix]

SetName(n, owner, kind, suffix) ==
    /\ name_owner' = [name_owner EXCEPT ![n] = owner]
    /\ name_kind' = [name_kind EXCEPT ![n] = kind]
    /\ employer_suffix_code' = [employer_suffix_code EXCEPT ![n] = suffix]

set_authorized_caller(caller, registrar) ==
    /\ caller = ADMIN
    /\ authorized_caller' = registrar
    /\ UNCHANGED <<nameVars, indexVars, employer_base_paid, sellbackVars>>

register_worker_name(caller, n, owner) ==
    /\ Gated(caller)
    /\ worker_primary_name_of[owner] = NoName
    /\ Unclaimed(n)
    /\ SetName(n, owner, KIND_WORKER, 0)
    /\ worker_primary_name_of' = [worker_primary_name_of EXCEPT ![owner] = n]
    /\ UNCHANGED <<employer_primary_name_of, employer_name_count, employer_base_paid,
                   sellbackVars, authorized_caller>>

\* Fault: the count supplied by the portal is believed.
CountMatches_Believed(owner, count) == TRUE

\* The count supplied by the portal must be the one on chain.
CountMatches(owner, count) == employer_name_count[owner] = count

register_employer_name(caller, n, suffix, count, base_price, owner) ==
    /\ is_valid_suffix(suffix)
    /\ count < MAX_NAMES
    /\ Gated(caller)
    /\ CountMatches(owner, count)
    /\ Unclaimed(n)
    /\ SetName(n, owner, KIND_EMPLOYER, suffix)
    /\ employer_base_paid' = [employer_base_paid EXCEPT ![n] = base_price]
    /\ employer_name_count' = [employer_name_count EXCEPT ![owner] = @ + 1]
    /\ employer_primary_name_of' =
           [employer_primary_name_of EXCEPT ![owner] = IF @ = NoName THEN n ELSE @]
    /\ UNCHANGED <<worker_primary_name_of, sellbackVars, authorized_caller>>

release_worker_name(caller) ==
    LET n == worker_primary_name_of[caller] IN
    /\ n # NoName
    /\ name_owner[n] = caller
    /\ name_owner' = [name_owner EXCEPT ![n] = ZERO_ADDR]
    /\ name_kind' = [name_kind EXCEPT ![n] = NO_KIND]
    /\ worker_primary_name_of' = [worker_primary_name_of EXCEPT ![caller] = NoName]
    /\ UNCHANGED <<employer_suffix_code, employer_primary_name_of, employer_name_count,
                   employer_base_paid, sellbackVars, authorized_caller>>

\* Fault: any name of the caller passes for an employer name.
OwnsEmployerName_AnyKind(caller, n) == name_owner[n] = caller

OwnsEmployerName(caller, n) == name_owner[n] = caller /\ name_kind[n] = KIND_EMPLOYER

request_empl_sellback(caller, n) ==
    /\ OwnsEmployerName(caller, n)
    /\ employer_name_count[caller] > 0
    /\ SetName(n, ZERO_ADDR, NO_KIND, 0)
    /\ employer_name_count' = [employer_name_count EXCEPT ![caller] = @ - 1]
    /\ sellback_seller' = [sellback_seller EXCEPT ![n] = caller]
    /\ sellback_refund_amount' =
           [sellback_refund_amount EXCEPT ![n] = RefundOf(employer_base_paid[n])]
    /\ UNCHANGED <<worker_primary_name_of, employer_primary_name_of, employer_base_paid,
                   authorized_caller>>

\* Fault: the promise is left standing after it was paid.
ClearSellback_Forgotten(n) == UNCHANGED sellbackVars

ClearSellback(n) ==
    /\ sellback_seller' = [sellback_seller EXCEPT ![n] = ZERO_ADDR]
    /\ sellback_refund_amount' = [sellback_refund_amount EXCEPT ![n] = 0]

fulfill_empl_sellback(caller, n, seller, refund) ==
    /\ Gated(caller)
    /\ sellback_seller[n] = seller
    /\ sellback_refund_amount[n] = refund
    /\ ClearSellback(n)
    /\ UNCHANGED <<nameVars, indexVars, employer_base_paid, authorized_caller>>

set_primary_employer_name(caller, n) ==
    /\ OwnsEmployerName(caller, n)
    /\ employer_primary_name_of' = [employer_primary_name_of EXCEPT ![caller] = n]
    /\ UNCHANGED <<nameVars, worker_primary_name_of, employer_name_count, employer_base_paid,
                   sellbackVars, authorized_caller>>

\* The cross-program guards.
assert_is_owner(n, w) == name_owner[n] = w
assert_employer_owner(n, w, suffix) == name_owner[n] = w /\ employer_suffix_code[n] = suffix

----------------------------------------------------------------------------
OwnerStep(w) ==
    \/ release_worker_name(w)
    \/ \E n \in Name : request_empl_sellback(w, n) \/ set_primary_employer_name(w, n)

GatedStep(caller) ==
    \E n \in Name, w \in Wallet :
        \/ register_worker_name(caller, n, w)
        \/ \E suffix \in SuffixCode, count \in 0..MAX_NAMES, price \in BasePrice :
               register_employer_name(caller, n, suffix, count, price, w)
        \/ fulfill_empl_sellback(caller, n, sellback_seller[n], sellback_refund_amount[n])

RegistryNext ==
    \/ \E caller \in Caller, p \in Program : set_authorized_caller(caller, p)
    \/ \E w \in Wallet : OwnerStep(w)
    \/ \E caller \in Caller : GatedStep(caller)

RegistrySpec == RegistryInit /\ [][RegistryNext]_registryVars

----------------------------------------------------------------------------
RegistryTypeOK ==
    /\ name_owner \in [Name -> Wallet \cup {ZERO_ADDR}]
    /\ name_kind \in [Name -> Kind]
    /\ employer_suffix_code \in [Name -> 0..40]
    /\ worker_primary_name_of \in [Wallet -> Name \cup {NoName}]
    /\ employer_primary_name_of \in [Wallet -> Name \cup {NoName}]
    /\ employer_name_count \in [Wallet -> 0..MAX_NAMES]
    /\ employer_base_paid \in [Name -> Nat]
    /\ sellback_seller \in [Name -> Wallet \cup {ZERO_ADDR}]
    /\ sellback_refund_amount \in [Name -> Nat]
    /\ authorized_caller \in Program \cup {ZERO_ADDR}

\* The three mappings that describe a name agree: a name has a kind exactly while
\* it has an owner, and a suffix exactly while it is an employer name
\* (assert_employer_owner trusts the suffix without looking at the kind).
NameRecordsAgree ==
    \A n \in Name :
        /\ name_kind[n] = NO_KIND <=> name_owner[n] = ZERO_ADDR
        /\ employer_suffix_code[n] # 0 <=> name_kind[n] = KIND_EMPLOYER

\* The reverse index of worker names is exact in both directions for every name but
\* the zero hash, so a wallet has at most one such worker name and can always
\* release it (register_worker_name, release_worker_name).  The zero hash is
\* accepted as a name too, but an index entry of zero reads as no name at all: its
\* owner may take another worker name and can never release it.
WorkerIndexExact ==
    \A n \in Name \ {NoName}, w \in Wallet :
        worker_primary_name_of[w] = n <=> name_owner[n] = w /\ name_kind[n] = KIND_WORKER

\* The count is the number of employer names a wallet really owns, so that the
\* limit of three binds and a sellback never finds the count at zero.
EmployerNames(w) == {n \in Name : name_owner[n] = w /\ name_kind[n] = KIND_EMPLOYER}
EmployerCountExact ==
    \A w \in Wallet : employer_name_count[w] = Cardinality(EmployerNames(w))

\* A promise of a refund names its seller, and only a sold name carries one.
RefundHasSeller ==
    \A n \in Name : sellback_refund_amount[n] # 0 => sellback_seller[n] # ZERO_ADDR

\* A name goes from one wallet to another only by being given up first, and it is
\* given up by a transition its owner signed, never by another wallet, the registrar
\* or ADMIN (release_worker_name and request_empl_sellback are the only ways): what
\* the programs that call assert_is_owner rely on.
Ownership == INSTANCE NameOwnership
ImplementsOwnership ==
    /\ Ownership!OwnershipSpec
    /\ [][\A n \in Name :
             name_owner[n] # ZERO_ADDR /\ name_owner'[n] # name_owner[n] =>
                 name_owner'[n] = ZERO_ADDR /\ OwnerStep(name_owner[n])]_registryVars

\* "Store sellback info for fulfillment" (request_empl_sellback): a stored promise
\* stays until it is fulfilled, that is, no other promise takes its place.
PromiseKeptUntilFulfilled ==
    [][\A n \in Name : sellback_seller[n] # ZERO_ADDR =>
           \/ UNCHANGED <<sellback_seller[n], sellback_refund_amount[n]>>
           \/ sellback_seller'[n] = ZERO_ADDR]_registryVars
=============================================================================
