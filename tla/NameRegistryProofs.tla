------------------------- MODULE NameRegistryProofs ------------------------
(***************************************************************************)
(* Theorems about NameRegistry, for any number of wallets, programs and    *)
(* names.                                                                  *)
(***************************************************************************)
EXTENDS NameRegistry, FiniteSetTheorems, TLAPS

\* The inductive invariant.
IInv ==
    /\ RegistryTypeOK
    /\ NameRecordsAgree
    /\ WorkerIndexExact
    /\ EmployerCountExact
    /\ RefundHasSeller

----------------------------------------------------------------------------
\* The refund promised for a price is an amount.
LEMMA RefundType == ASSUME NEW p \in Nat PROVE RefundOf(p) \in Nat
BY DEF RefundOf

\* The employer names of a wallet are finitely many.
LEMMA EmployerNamesFinite ==
    ASSUME NEW w \in Wallet
    PROVE  IsFiniteSet(EmployerNames(w)) /\ Cardinality(EmployerNames(w)) \in Nat
<1>1. EmployerNames(w) \subseteq Name
  BY DEF EmployerNames
<1> QED
  BY <1>1, RegistryAssumption, FS_Subset, FS_CardinalityType

\* The counts stay exact when no wallet gains or loses an employer name.
LEMMA CountsUnchanged ==
    ASSUME EmployerCountExact, UNCHANGED employer_name_count,
           \A w \in Wallet : EmployerNames(w)' = EmployerNames(w)
    PROVE  EmployerCountExact'
BY DEF EmployerCountExact

----------------------------------------------------------------------------
\* RegistryInit establishes the invariant.
LEMMA InitIInv == RegistryInit => IInv
<1> SUFFICES ASSUME RegistryInit PROVE IInv
  OBVIOUS
<1> USE DEF RegistryInit
<1>1. RegistryTypeOK
  BY DEF RegistryTypeOK, Kind, NO_KIND, MAX_NAMES
<1>2. NameRecordsAgree /\ WorkerIndexExact /\ RefundHasSeller
  BY RegistryAssumption
     DEF NameRecordsAgree, WorkerIndexExact, RefundHasSeller, NO_KIND, KIND_WORKER,
         KIND_EMPLOYER, Caller
<1>3. EmployerCountExact
  <2> SUFFICES ASSUME NEW w \in Wallet PROVE employer_name_count[w] = Cardinality(EmployerNames(w))
    BY DEF EmployerCountExact
  <2>1. EmployerNames(w) = {}
    BY DEF EmployerNames, NO_KIND, KIND_EMPLOYER
  <2> QED
    BY <2>1, FS_EmptySet
<1> QED
  BY <1>1, <1>2, <1>3 DEF IInv

\* A worker registration keeps the invariant: the index entry it fills was empty.
LEMMA RegisterWorkerStep ==
    ASSUME IInv, NEW caller \in Caller, NEW n \in Name, NEW w \in Wallet,
           register_worker_name(caller, n, w)
    PROVE  IInv'
<1> USE DEF IInv, register_worker_name, SetName, Unclaimed
<1>1. RegistryTypeOK'
  BY DEF RegistryTypeOK, Kind, KIND_WORKER, sellbackVars
<1>2. NameRecordsAgree'
  BY RegistryAssumption
     DEF RegistryTypeOK, NameRecordsAgree, NO_KIND, KIND_WORKER, KIND_EMPLOYER, Caller
<1>3. WorkerIndexExact'
  BY RegistryAssumption
     DEF RegistryTypeOK, NameRecordsAgree, WorkerIndexExact, NO_KIND, KIND_WORKER, Caller
<1>4. EmployerCountExact'
  <2>1. ASSUME NEW x \in Wallet PROVE EmployerNames(x)' = EmployerNames(x)
    BY RegistryAssumption
       DEF RegistryTypeOK, EmployerNames, KIND_WORKER, KIND_EMPLOYER, Caller
  <2> QED
    BY <2>1, CountsUnchanged
<1>5. RefundHasSeller'
  BY DEF RefundHasSeller, sellbackVars
<1> QED
  BY <1>1, <1>2, <1>3, <1>4, <1>5

\* An employer registration keeps the invariant: it adds one name and counts one.
LEMMA RegisterEmployerStep ==
    ASSUME IInv, NEW caller \in Caller, NEW n \in Name, NEW w \in Wallet,
           NEW suffix \in SuffixCode, NEW count \in 0..MAX_NAMES, NEW price \in Nat,
           register_employer_name(caller, n, suffix, count, price, w)
    PROVE  IInv'
<1> USE DEF IInv, register_employer_name, SetName, Unclaimed
<1>0. suffix \in 1..40 /\ price \in Nat /\ employer_name_count[w] \in 0..2
  BY RegistryAssumption DEF RegistryTypeOK, is_valid_suffix, CountMatches, MAX_NAMES
<1>1. RegistryTypeOK'
  <2>1. employer_name_count' \in [Wallet -> 0..MAX_NAMES]
    BY <1>0 DEF RegistryTypeOK, MAX_NAMES
  <2>2. employer_primary_name_of' \in [Wallet -> Name \cup {NoName}]
    BY DEF RegistryTypeOK
  <2> QED
    BY <1>0, <2>1, <2>2 DEF RegistryTypeOK, Kind, KIND_EMPLOYER, sellbackVars
<1>2. NameRecordsAgree'
  BY <1>0, RegistryAssumption
     DEF RegistryTypeOK, NameRecordsAgree, NO_KIND, KIND_WORKER, KIND_EMPLOYER, Caller
<1>3. WorkerIndexExact'
  BY RegistryAssumption
     DEF RegistryTypeOK, NameRecordsAgree, WorkerIndexExact, NO_KIND, KIND_WORKER,
         KIND_EMPLOYER, Caller
<1>4. EmployerCountExact'
  <2>1. ASSUME NEW x \in Wallet, x # w PROVE EmployerNames(x)' = EmployerNames(x)
    BY <2>1, RegistryAssumption DEF RegistryTypeOK, EmployerNames, Caller
  <2>2. EmployerNames(w)' = EmployerNames(w) \cup {n} /\ n \notin EmployerNames(w)
    BY RegistryAssumption DEF RegistryTypeOK, EmployerNames, Caller
  <2>3. Cardinality(EmployerNames(w)') = Cardinality(EmployerNames(w)) + 1
    BY <2>2, EmployerNamesFinite, FS_AddElement
  <2> QED
    BY <2>1, <2>3 DEF RegistryTypeOK, EmployerCountExact
<1>5. RefundHasSeller'
  BY DEF RefundHasSeller, sellbackVars
<1> QED
  BY <1>1, <1>2, <1>3, <1>4, <1>5

\* A release keeps the invariant: the index names the one worker name of the caller.
LEMMA ReleaseStep ==
    ASSUME IInv, NEW w \in Wallet, release_worker_name(w)
    PROVE  IInv'
<1> DEFINE n == worker_primary_name_of[w]
<1> USE DEF IInv, release_worker_name
<1>0. n \in Name /\ name_owner[n] = w /\ name_kind[n] = KIND_WORKER
  BY DEF RegistryTypeOK, WorkerIndexExact
<1>1. RegistryTypeOK'
  BY <1>0 DEF RegistryTypeOK, Kind, sellbackVars
<1>2. NameRecordsAgree'
  BY <1>0, RegistryAssumption
     DEF RegistryTypeOK, NameRecordsAgree, NO_KIND, KIND_WORKER, KIND_EMPLOYER, Caller
<1>3. WorkerIndexExact'
  BY <1>0, RegistryAssumption
     DEF RegistryTypeOK, WorkerIndexExact, NO_KIND, KIND_WORKER, Caller
<1>4. EmployerCountExact'
  <2>1. ASSUME NEW x \in Wallet PROVE EmployerNames(x)' = EmployerNames(x)
    BY <1>0, RegistryAssumption
       DEF RegistryTypeOK, EmployerNames, NO_KIND, KIND_WORKER, KIND_EMPLOYER, Caller
  <2> QED
    BY <2>1, CountsUnchanged
<1>5. RefundHasSeller'
  BY DEF RefundHasSeller, sellbackVars
<1> QED
  BY <1>1, <1>2, <1>3, <1>4, <1>5

\* A sellback keeps the invariant: it takes one employer name and uncounts one.
LEMMA RequestSellbackStep ==
    ASSUME IInv, NEW w \in Wallet, NEW n \in Name, request_empl_sellback(w, n)
    PROVE  IInv'
<1> USE DEF IInv, request_empl_sellback, OwnsEmployerName, SetName
<1>1. RegistryTypeOK'
  <2>1. employer_name_count' \in [Wallet -> 0..MAX_NAMES]
    BY DEF RegistryTypeOK, MAX_NAMES
  <2>2. sellback_refund_amount' \in [Name -> Nat]
    BY RefundType DEF RegistryTypeOK
  <2> QED
    BY <2>1, <2>2 DEF RegistryTypeOK, Kind
<1>2. NameRecordsAgree'
  BY RegistryAssumption
     DEF RegistryTypeOK, NameRecordsAgree, NO_KIND, KIND_WORKER, KIND_EMPLOYER, Caller
<1>3. WorkerIndexExact'
  BY RegistryAssumption
     DEF RegistryTypeOK, WorkerIndexExact, NO_KIND, KIND_WORKER, KIND_EMPLOYER, Caller
<1>4. EmployerCountExact'
  <2>1. ASSUME NEW x \in Wallet, x # w PROVE EmployerNames(x)' = EmployerNames(x)
    BY <2>1, RegistryAssumption DEF RegistryTypeOK, EmployerNames, Caller
  <2>2. EmployerNames(w)' = EmployerNames(w) \ {n} /\ n \in EmployerNames(w)
    BY RegistryAssumption DEF RegistryTypeOK, EmployerNames, Caller
  <2>3. Cardinality(EmployerNames(w)') = Cardinality(EmployerNames(w)) - 1
    BY <2>2, EmployerNamesFinite, FS_RemoveElement
  <2> QED
    BY <2>1, <2>3 DEF RegistryTypeOK, EmployerCountExact
<1>5. RefundHasSeller'
  BY RegistryAssumption DEF RegistryTypeOK, RefundHasSeller, Caller
<1> QED
  BY <1>1, <1>2, <1>3, <1>4, <1>5

\* The remaining transitions leave the names themselves alone.
LEMMA NamesUntouchedStep ==
    ASSUME IInv, UNCHANGED <<nameVars, worker_primary_name_of, employer_name_count>>,
           RegistryTypeOK', RefundHasSeller'
    PROVE  IInv'
<1> USE DEF IInv, nameVars
<1>1. NameRecordsAgree' /\ WorkerIndexExact'
  BY DEF NameRecordsAgree, WorkerIndexExact
<1>2. EmployerCountExact'
  BY DEF EmployerCountExact, EmployerNames
<1> QED
  BY <1>1, <1>2

\* Every step keeps the invariant.
LEMMA NextIInv == IInv /\ [RegistryNext]_registryVars => IInv'
<1> SUFFICES ASSUME IInv, [RegistryNext]_registryVars PROVE IInv'
  OBVIOUS
<1>1. ASSUME NEW caller \in Caller, NEW p \in Program, set_authorized_caller(caller, p)
      PROVE  IInv'
  BY <1>1, NamesUntouchedStep
     DEF set_authorized_caller, nameVars, indexVars, sellbackVars, IInv, RegistryTypeOK,
         RefundHasSeller
<1>2. ASSUME NEW w \in Wallet, OwnerStep(w)
      PROVE  IInv'
  <2>1. ASSUME NEW n \in Name, set_primary_employer_name(w, n)
        PROVE  IInv'
    BY <2>1, NamesUntouchedStep
       DEF set_primary_employer_name, nameVars, sellbackVars, IInv, RegistryTypeOK,
           RefundHasSeller
  <2> QED
    BY <1>2, <2>1, ReleaseStep, RequestSellbackStep DEF OwnerStep
<1>3. ASSUME NEW caller \in Caller, GatedStep(caller)
      PROVE  IInv'
  <2>1. ASSUME NEW n \in Name,
               fulfill_empl_sellback(caller, n, sellback_seller[n], sellback_refund_amount[n])
        PROVE  IInv'
    BY <2>1, NamesUntouchedStep
       DEF fulfill_empl_sellback, ClearSellback, nameVars, indexVars, sellbackVars, IInv,
           RegistryTypeOK, RefundHasSeller
  <2>2. \A price \in BasePrice : price \in Nat
    BY RegistryAssumption
  <2> QED
    BY <1>3, <2>1, <2>2, RegisterWorkerStep, RegisterEmployerStep DEF GatedStep
<1>4. CASE UNCHANGED registryVars
  BY <1>4, NamesUntouchedStep
     DEF registryVars, nameVars, indexVars, sellbackVars, IInv, RegistryTypeOK, RefundHasSeller
<1> QED
  BY <1>1, <1>2, <1>3, <1>4 DEF RegistryNext

\* Every reachable state satisfies the inductive invariant.
THEOREM Invariance == RegistrySpec => []IInv
BY InitIInv, NextIInv, PTL DEF RegistrySpec

\* Type correctness; in particular no wallet counts more than three employer names.
THEOREM TypeCorrect == RegistrySpec => []RegistryTypeOK
<1>1. IInv => RegistryTypeOK
  BY DEF IInv
<1> QED
  BY <1>1, Invariance, PTL

\* Owner, kind and suffix of a name always agree.
THEOREM RecordsAgree == RegistrySpec => []NameRecordsAgree
<1>1. IInv => NameRecordsAgree
  BY DEF IInv
<1> QED
  BY <1>1, Invariance, PTL

\* The reverse index of worker names is exact for every name but the zero hash,
\* whether or not the zero hash is among the names registered.
THEOREM WorkerIndexCorrect == RegistrySpec => []WorkerIndexExact
<1>1. IInv => WorkerIndexExact
  BY DEF IInv
<1> QED
  BY <1>1, Invariance, PTL

\* The employer counts are exact.
THEOREM EmployerCountCorrect == RegistrySpec => []EmployerCountExact
<1>1. IInv => EmployerCountExact
  BY DEF IInv
<1> QED
  BY <1>1, Invariance, PTL

\* The registry implements the ownership discipline its callers rely on: names pass
\* through being unclaimed, and a name is given up by a transition of its owner.
THEOREM Implementation == RegistrySpec => ImplementsOwnership
<1>1. RegistryInit => Ownership!OwnershipInit
  BY DEF RegistryInit, Ownership!OwnershipInit
<1>2. IInv /\ [RegistryNext]_registryVars => [Ownership!OwnershipNext]_name_owner
  <2> SUFFICES ASSUME IInv, RegistryNext PROVE [Ownership!OwnershipNext]_name_owner
    BY DEF registryVars, nameVars
  <2> USE DEF Ownership!OwnershipNext, Ownership!Claim, Ownership!GiveUp
  <2>1. ASSUME NEW w \in Wallet, release_worker_name(w)
        PROVE  Ownership!OwnershipNext
    BY <2>1 DEF release_worker_name, IInv, RegistryTypeOK
  <2>2. ASSUME NEW w \in Wallet, NEW n \in Name,
               request_empl_sellback(w, n) \/ set_primary_employer_name(w, n)
        PROVE  [Ownership!OwnershipNext]_name_owner
    BY <2>2 DEF request_empl_sellback, set_primary_employer_name, OwnsEmployerName, SetName,
                nameVars
  <2>3. ASSUME NEW caller \in Caller, GatedStep(caller)
        PROVE  [Ownership!OwnershipNext]_name_owner
    BY <2>3 DEF GatedStep, register_worker_name, register_employer_name, Unclaimed, SetName,
                fulfill_empl_sellback, nameVars
  <2>4. ASSUME NEW caller \in Caller, NEW p \in Program, set_authorized_caller(caller, p)
        PROVE  UNCHANGED name_owner
    BY <2>4 DEF set_authorized_caller, nameVars
  <2> QED
    BY <2>1, <2>2, <2>3, <2>4 DEF RegistryNext, OwnerStep
<1> DEFINE GivenUpByOwner ==
       \A n \in Name : name_owner[n] # ZERO_ADDR /\ name_owner'[n] # name_owner[n] =>
           name_owner'[n] = ZERO_ADDR /\ OwnerStep(name_owner[n])
<1>3. IInv /\ [RegistryNext]_registryVars => [GivenUpByOwner]_registryVars
  <2> SUFFICES ASSUME IInv, RegistryNext, NEW n \in Name,
                      name_owner[n] # ZERO_ADDR, name_owner'[n] # name_owner[n]
               PROVE  name_owner'[n] = ZERO_ADDR /\ OwnerStep(name_owner[n])
    OBVIOUS
  <2>1. name_owner \in [Name -> Wallet \cup {ZERO_ADDR}]
    BY DEF IInv, RegistryTypeOK
  <2>2. ASSUME NEW caller \in Caller, GatedStep(caller) PROVE FALSE
    BY <2>1, <2>2 DEF GatedStep, register_worker_name, register_employer_name, Unclaimed,
                      SetName, fulfill_empl_sellback, nameVars
  <2>3. ASSUME NEW caller \in Caller, NEW p \in Program, set_authorized_caller(caller, p)
        PROVE  FALSE
    BY <2>3 DEF set_authorized_caller, nameVars
  <2>4. PICK w \in Wallet : OwnerStep(w)
    BY <2>2, <2>3 DEF RegistryNext
  <2>5. name_owner[n] = w /\ name_owner'[n] = ZERO_ADDR
    BY <2>1, <2>4 DEF OwnerStep, release_worker_name, request_empl_sellback, OwnsEmployerName,
                      SetName, set_primary_employer_name, nameVars
  <2> QED
    BY <2>4, <2>5
<1> HIDE DEF GivenUpByOwner
<1>4. RegistrySpec => [][GivenUpByOwner]_registryVars
  BY <1>3, Invariance, PTL DEF RegistrySpec
<1> QED
  BY <1>1, <1>2, <1>4, Invariance, PTL
     DEF RegistrySpec, ImplementsOwnership, Ownership!OwnershipSpec, GivenUpByOwner

\* No refund is promised without a seller to pay it to, after any number of
\* sellbacks, sales and fulfilments.
THEOREM RefundsHaveSellers == RegistrySpec => []RefundHasSeller
<1>1. IInv => RefundHasSeller
  BY DEF IInv
<1> QED
  BY <1>1, Invariance, PTL
=============================================================================
