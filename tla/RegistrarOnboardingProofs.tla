--------------------- MODULE RegistrarOnboardingProofs ---------------------
(***************************************************************************)
(* Theorems about the two users of the name registry, each on top of the   *)
(* registry's invariant: NameRegistrar, for any number of wallets and      *)
(* names and any price, and Profiles and Onboarding, for any number of     *)
(* wallets, names, anchors, revisions and plans.                           *)
(***************************************************************************)
EXTENDS NameRegistrar, Onboarding, NameRegistryProofs, FoldTheorems

---------------------------------------------------------------------------
(* The registrar.                                                          *)

\* The registrar tells the registry that a buyer has no employer name yet; the
\* count on the chain must agree, so that it never passes one.
OneCounted == \A w \in Wallet : employer_name_count[w] \in 0 .. 1

\* The inductive invariant.
RInv == IInv /\ OneCounted

LEMMA InitRInv == RegistrarInit => RInv
<1> SUFFICES ASSUME RegistrarInit PROVE RInv
  OBVIOUS
<1>1. IInv
  BY InitIInv DEF RegistrarInit
<1>2. employer_name_count = [w \in Wallet |-> 0]
  BY DEF RegistrarInit, RegistryInit
<1>3. OneCounted
  <2>1. 0 \in 0 .. 1 /\ \A w \in Wallet : employer_name_count[w] = 0
    BY <1>2
  <2> QED
    BY <2>1 DEF OneCounted
<1> QED
  BY <1>1, <1>3 DEF RInv

\* What moves no name between wallets counts none.
LEMMA CountsKept ==
    ASSUME RInv, UNCHANGED employer_name_count
    PROVE  OneCounted'
BY DEF RInv, OneCounted

LEMMA BuyWorkerStep ==
    ASSUME RInv, NEW w \in Wallet, NEW n \in Name, BuyWorkerName(w, n)
    PROVE  RInv'
<1>1. REGISTRAR \in Caller /\ register_worker_name(REGISTRAR, n, w)
  BY RegistrarAssumption DEF BuyWorkerName, Caller
<1>2. IInv'
  BY <1>1, RegisterWorkerStep DEF RInv
<1> QED
  BY <1>1, <1>2, CountsKept DEF RInv, register_worker_name

LEMMA BuyEmployerStep ==
    ASSUME RInv, NEW w \in Wallet, NEW n \in Name, NEW suffix \in SuffixCode,
           BuyEmployerName(w, n, suffix)
    PROVE  RInv'
<1>1. /\ REGISTRAR \in Caller /\ NAME_PRICE \in Nat /\ 0 \in 0..MAX_NAMES
      /\ register_employer_name(REGISTRAR, n, suffix, 0, NAME_PRICE, w)
  BY RegistrarAssumption DEF BuyEmployerName, Caller, MAX_NAMES
<1>2. IInv'
  BY <1>1, RegisterEmployerStep DEF RInv
<1>3. OneCounted'
  BY <1>1 DEF RInv, IInv, RegistryTypeOK, OneCounted, register_employer_name, CountMatches
<1> QED
  BY <1>2, <1>3 DEF RInv

\* The owners' transitions, the setup and a refund are steps of the registry.
LEMMA RegistryStepKeeps ==
    ASSUME RInv, RegistryNext,
           \/ UNCHANGED employer_name_count
           \/ \E w \in Wallet : OwnerStep(w)
    PROVE  RInv'
<1>1. IInv'
  BY NextIInv DEF RInv
<1>2. ASSUME NEW w \in Wallet, OwnerStep(w)
      PROVE  OneCounted'
  BY <1>2 DEF RInv, IInv, RegistryTypeOK, OneCounted, OwnerStep, release_worker_name,
     request_empl_sellback, set_primary_employer_name
<1> QED
  BY <1>1, <1>2, CountsKept DEF RInv

LEMMA RefundStep ==
    ASSUME RInv, NEW caller \in Wallet, SellbackStep(caller)
    PROVE  RInv'
<1> PICK n \in Name, seller \in Wallet :
        FulfillSellback(caller, n, seller, sellback_refund_amount[n])
  BY DEF SellbackStep
<1>1. fulfill_empl_sellback(REGISTRAR, n, sellback_seller[n], sellback_refund_amount[n])
  BY DEF FulfillSellback, fulfill_empl_sellback
<1>2. REGISTRAR \in Caller
  BY RegistrarAssumption DEF Caller
<1>3. RegistryNext
  BY <1>1, <1>2 DEF RegistryNext, GatedStep
<1> QED
  BY <1>1, <1>3, RegistryStepKeeps DEF fulfill_empl_sellback, indexVars

LEMMA NextRInv == RInv /\ [RegistrarNext]_registrarVars => RInv'
<1> SUFFICES ASSUME RInv, [RegistrarNext]_registrarVars PROVE RInv'
  OBVIOUS
<1>1. CASE \E caller \in Caller, p \in Program : set_authorized_caller(caller, p)
  BY <1>1, RegistryStepKeeps DEF RegistryNext, set_authorized_caller, indexVars
<1>2. CASE UNCHANGED registryVars
  <2>1. IInv'
    BY <1>2, NextIInv DEF RInv
  <2> QED
    BY <1>2, <2>1, CountsKept DEF RInv, registryVars, indexVars
<1>3. CASE \E w \in Wallet, n \in Name :
              BuyWorkerName(w, n) \/ \E suffix \in SuffixCode : BuyEmployerName(w, n, suffix)
  BY <1>3, BuyWorkerStep, BuyEmployerStep
<1>4. CASE \E w \in Wallet : SellbackStep(w)
  BY <1>4, RefundStep
<1>5. CASE \E w \in Wallet : OwnerStep(w)
  BY <1>5, RegistryStepKeeps DEF RegistryNext
<1> QED
  BY <1>1, <1>2, <1>3, <1>4, <1>5 DEF RegistrarNext, registrarVars

\* The registry's invariant holds of the sales, at a price that need not be among
\* those the registry was checked with.
THEOREM RegistrarInvariance == RegistrarSpec => []RInv
<1> QED
  BY InitRInv, NextRInv, PTL DEF RegistrarSpec

\* The registrar keeps every wallet to one employer name and to one worker name besides
\* the zero hash, over any number of sales and sellbacks.
THEOREM OneOfEachKind == RegistrarSpec => []OneNameOfEachKind
<1>1. ASSUME RInv, NEW w \in Wallet
      PROVE  Cardinality(EmployerNames(w)) <= 1
  BY <1>1 DEF RInv, OneCounted, IInv, EmployerCountExact
<1>2. ASSUME RInv, NEW w \in Wallet
      PROVE  Cardinality({n \in Name \ {NoName} :
                             name_owner[n] = w /\ name_kind[n] = KIND_WORKER}) <= 1
  <2> DEFINE one == {worker_primary_name_of[w]}
             owned == {n \in Name \ {NoName} : name_owner[n] = w /\ name_kind[n] = KIND_WORKER}
  <2>1. owned \subseteq one
    BY <1>2 DEF RInv, IInv, WorkerIndexExact
  <2>2. IsFiniteSet(one) /\ Cardinality(one) = 1
    BY FS_Singleton
  <2>3. Cardinality(owned) <= Cardinality(one)
    BY <2>1, <2>2, FS_Subset
  <2> QED
    BY <2>2, <2>3
<1>3. RInv => OneNameOfEachKind
  BY <1>1, <1>2 DEF OneNameOfEachKind
<1> QED
  BY <1>3, RegistrarInvariance, PTL

----------------------------------------------------------------------------
(***************************************************************************)
(* The money.                                                              *)
(***************************************************************************)
AccountTypeOK == account \in [Wallet -> Nat]

\* Sums of what an operator yields, as sums over a function.
owed == [n \in Name |-> Owed(n)]

LEMMA OwedSum == MapThenSumSet(Owed, Name) = SumOver(owed, Name)
<1> DEFINE pick(s) == CHOOSE n \in s : TRUE
           byOperator(iter) == iter = [s \in SUBSET Name |->
               IF s = {} THEN 0 ELSE Owed(pick(s)) + iter[s \ {pick(s)}]]
           byFunction(iter) == iter = [s \in SUBSET Name |->
               IF s = {} THEN 0 ELSE owed[pick(s)] + iter[s \ {pick(s)}]]
<1>1. \A s \in SUBSET Name : s # {} => owed[pick(s)] = Owed(pick(s))
  BY DEF owed
<1>2. \A iter : byOperator(iter) <=> byFunction(iter)
  <2> SUFFICES ASSUME NEW iter PROVE byOperator(iter) <=> byFunction(iter)
    OBVIOUS
  <2> QED
    BY <1>1
<1>3. (CHOOSE iter : byOperator(iter)) = (CHOOSE iter : byFunction(iter))
  <2> HIDE DEF byOperator, byFunction
  <2> QED
    BY <1>2
<1>4. SumOver(owed, Name) = (CHOOSE iter : byFunction(iter))[Name]
  BY DEF SumOver, MapThenSumSet, MapThenFoldSet
<1>5. MapThenSumSet(Owed, Name) = (CHOOSE iter : byOperator(iter))[Name]
  BY DEF MapThenSumSet, MapThenFoldSet
<1> QED
  BY <1>3, <1>4, <1>5

\* The same of the next state.
LEMMA SumsNext ==
    /\ MapThenSumSet(Owed, Name)' = SumOver(owed', Name)
    /\ MapThenSumSet(LAMBDA w : account[w], Wallet)' = SumOver(account', Wallet)
<1>1. (MapThenSumSet(Owed, Name) = SumOver(owed, Name))'
  BY OwedSum, PTL
<1>2. SumOver(owed, Name)' = SumOver(owed', Name)
  BY DEF SumOver, MapThenSumSet, MapThenFoldSet
<1>3. MapThenSumSet(LAMBDA w : account[w], Wallet)' = SumOver(account', Wallet)
  BY DEF SumOver, MapThenSumSet, MapThenFoldSet
<1> QED
  BY <1>1, <1>2, <1>3
\* The inductive invariant of the money.
MInv == RInv /\ AccountTypeOK /\ MoneyConserved /\ TreasuryCoversRefunds

\* A refund is a part of the price.
LEMMA RefundBounds == \A p \in Nat : RefundOf(p) \in Nat /\ RefundOf(p) <= p
BY DEF RefundOf

LEMMA OwedType == ASSUME RInv PROVE owed \in [Name -> Nat]
<1> SUFFICES ASSUME NEW n \in Name PROVE Owed(n) \in Nat
  BY DEF owed
<1>1. employer_base_paid[n] \in Nat /\ sellback_refund_amount[n] \in Nat
  BY DEF RInv, IInv, RegistryTypeOK
<1>2. RefundOf(employer_base_paid[n]) \in Nat
  BY <1>1, RefundBounds
<1> QED
  BY <1>1, <1>2 DEF Owed

\* What one wallet loses another gains, or nothing happens when both are the same.
LEMMA TransferMoves ==
    ASSUME AccountTypeOK, NEW from \in Wallet, NEW to \in Wallet, NEW amount \in Nat,
           TransferPublic(from, to, amount)
    PROVE  /\ AccountTypeOK'
           /\ SumOver(account', Wallet) = SumOver(account, Wallet)
           /\ \A w \in Wallet :
                  account'[w] = account[w] + (IF w = to THEN amount ELSE 0)
                                           - (IF w = from THEN amount ELSE 0)
<1> DEFINE debited == [account EXCEPT ![from] = @ - amount]
<1>1. IsFiniteSet(Wallet)
  BY RegistrarAssumption
<1>2. /\ account \in [Wallet -> Nat] /\ account[from] >= amount
      /\ account' = [debited EXCEPT ![to] = @ + amount]
  BY DEF AccountTypeOK, TransferPublic, Transferred
<1>3. /\ debited \in [Wallet -> Int] /\ debited[from] = account[from] - amount
      /\ \A w \in Wallet : w # from => account[w] = debited[w]
  BY <1>2
<1>4. debited[from] >= 0 /\ account' \in [Wallet -> Nat]
  BY <1>2, <1>3
<1>5. /\ account'[to] = debited[to] + amount
      /\ \A w \in Wallet : w # to => debited[w] = account'[w]
  BY <1>2, <1>3
<1> HIDE DEF debited
<1>6. /\ SumOver(debited, Wallet) = SumOver(account, Wallet) - account[from] + debited[from]
      /\ SumOver(account, Wallet) \in Int /\ SumOver(debited, Wallet) \in Int
  <2>1. account \in [Wallet -> Int] /\ debited \in [Wallet -> Int]
    BY <1>2, <1>3
  <2>2. \A w \in Wallet : w # from => account[w] = debited[w]
    BY <1>3
  <2> QED
    BY <1>1, <2>1, <2>2, SumChange
<1>7. SumOver(account', Wallet) = SumOver(debited, Wallet) - debited[to] + account'[to]
  <2>1. debited \in [Wallet -> Int] /\ account' \in [Wallet -> Int]
    BY <1>3, <1>4
  <2>2. \A w \in Wallet : w # to => debited[w] = account'[w]
    BY <1>5
  <2> QED
    BY <1>1, <2>1, <2>2, SumChange
<1>8. SumOver(account', Wallet) = SumOver(account, Wallet)
  BY <1>2, <1>3, <1>5, <1>6, <1>7
<1> QED
  BY <1>2, <1>3, <1>4, <1>5, <1>8 DEF AccountTypeOK

\* The treasury stays covered when what it owes for one name grows by no more than its
\* balance.
LEMMA StaysCovered ==
    ASSUME MInv, RInv', AccountTypeOK', NEW n \in Name,
           \A m \in Name : m # n => owed[m] = owed'[m],
           owed'[n] - owed[n] <= account'[PRESIDING_DAO_TREASURY] - account[PRESIDING_DAO_TREASURY]
    PROVE  TreasuryCoversRefunds'
<1>1. owed \in [Name -> Nat] /\ owed' \in [Name -> Nat] /\ IsFiniteSet(Name)
  <2>1. owed \in [Name -> Nat]
    BY OwedType DEF MInv
  <2>2. (RInv => owed \in [Name -> Nat])'
    BY OwedType, PTL
  <2> QED
    BY <2>1, <2>2, RegistryAssumption
<1>2. /\ SumOver(owed', Name) = SumOver(owed, Name) - owed[n] + owed'[n]
      /\ SumOver(owed, Name) \in Int /\ SumOver(owed', Name) \in Int
  <2> DEFINE next == owed'
  <2>1. owed \in [Name -> Int] /\ next \in [Name -> Int]
    BY <1>1
  <2>2. \A m \in Name : m # n => owed[m] = next[m]
    OBVIOUS
  <2> HIDE DEF next
  <2>3. /\ SumOver(next, Name) = SumOver(owed, Name) - owed[n] + next[n]
        /\ SumOver(owed, Name) \in Int /\ SumOver(next, Name) \in Int
    BY <1>1, <2>1, <2>2, SumChange
  <2> QED
    BY <2>3 DEF next
<1>3. account[PRESIDING_DAO_TREASURY] >= OpeningBalance + SumOver(owed, Name)
  BY OwedSum DEF MInv, TreasuryCoversRefunds
<1>4. /\ OpeningBalance \in Int /\ owed[n] \in Int /\ owed'[n] \in Int
      /\ account[PRESIDING_DAO_TREASURY] \in Int /\ account'[PRESIDING_DAO_TREASURY] \in Int
  BY <1>1, RegistrarAssumption DEF MInv, AccountTypeOK
<1>5. account'[PRESIDING_DAO_TREASURY] >= OpeningBalance + SumOver(owed', Name)
  BY <1>2, <1>3, <1>4
<1> QED
  BY <1>5, SumsNext DEF TreasuryCoversRefunds

\* Money stays when the balances only move.
LEMMA StaysConserved ==
    ASSUME MInv, AccountTypeOK', SumOver(account', Wallet) = SumOver(account, Wallet)
    PROVE  MoneyConserved'
<1>1. \A w \in Wallet : account'[w] >= 0
  BY DEF AccountTypeOK
<1>2. SumOver(account, Wallet) = Cardinality(Wallet) * OpeningBalance
  BY DEF MInv, MoneyConserved, SumOver
<1> QED
  BY <1>1, <1>2, SumsNext DEF MoneyConserved
\* The pieces of a step of the sales.
LEMMA MoneyMoves ==
    ASSUME MInv, RInv', NEW from \in Wallet, NEW to \in Wallet, NEW amount \in Nat,
           TransferPublic(from, to, amount), NEW n \in Name,
           \A m \in Name : m # n => owed[m] = owed'[m],
           owed'[n] - owed[n] <= (IF to = PRESIDING_DAO_TREASURY THEN amount ELSE 0)
                               - (IF from = PRESIDING_DAO_TREASURY THEN amount ELSE 0)
    PROVE  MInv'
<1>1. /\ AccountTypeOK'
      /\ SumOver(account', Wallet) = SumOver(account, Wallet)
      /\ account'[PRESIDING_DAO_TREASURY] = account[PRESIDING_DAO_TREASURY]
             + (IF to = PRESIDING_DAO_TREASURY THEN amount ELSE 0)
             - (IF from = PRESIDING_DAO_TREASURY THEN amount ELSE 0)
  BY TransferMoves, RegistrarAssumption DEF MInv
<1>2. account[PRESIDING_DAO_TREASURY] \in Int /\ account'[PRESIDING_DAO_TREASURY] \in Int
  BY <1>1, RegistrarAssumption DEF MInv, AccountTypeOK
<1>3. owed'[n] - owed[n]
          <= account'[PRESIDING_DAO_TREASURY] - account[PRESIDING_DAO_TREASURY]
  BY <1>1, <1>2
<1> QED
  BY <1>1, <1>3, StaysCovered, StaysConserved DEF MInv

\* A step that moves no money and, of what is owed, lowers at most one name's share.
LEMMA MoneyRests ==
    ASSUME MInv, RInv', UNCHANGED account,
           \/ UNCHANGED owed
           \/ \E n \in Name : /\ \A m \in Name : m # n => owed[m] = owed'[m]
                              /\ owed'[n] <= owed[n]
    PROVE  MInv'
<1>1. AccountTypeOK'
  BY DEF MInv, AccountTypeOK
<1>2. MoneyConserved'
  BY <1>1, StaysConserved
<1>3. TreasuryCoversRefunds'
  <2>1. CASE UNCHANGED owed
    <3>1. SumOver(owed', Name) = SumOver(owed, Name)
      BY <2>1
    <3>2. account[PRESIDING_DAO_TREASURY] >= OpeningBalance + SumOver(owed, Name)
      BY OwedSum DEF MInv, TreasuryCoversRefunds
    <3>3. account'[PRESIDING_DAO_TREASURY] >= OpeningBalance + SumOver(owed', Name)
      BY <3>1, <3>2
    <3> QED
      BY <3>3, SumsNext DEF TreasuryCoversRefunds
  <2>2. ASSUME NEW n \in Name, \A m \in Name : m # n => owed[m] = owed'[m],
               owed'[n] <= owed[n]
        PROVE  TreasuryCoversRefunds'
    <3>1. owed[n] \in Int /\ owed'[n] \in Int
      <4>1. owed \in [Name -> Nat]
        BY OwedType DEF MInv
      <4>2. (RInv => owed \in [Name -> Nat])'
        BY OwedType, PTL
      <4> QED
        BY <4>1, <4>2
    <3>2. account[PRESIDING_DAO_TREASURY] \in Int
      BY RegistrarAssumption DEF MInv, AccountTypeOK
    <3>3. owed'[n] - owed[n]
              <= account'[PRESIDING_DAO_TREASURY] - account[PRESIDING_DAO_TREASURY]
      BY <2>2, <3>1, <3>2
    <3> QED
      BY <1>1, <2>2, <3>3, StaysCovered
  <2> QED
    BY <2>1, <2>2
<1> QED
  BY <1>1, <1>2, <1>3 DEF MInv

\* Nobody is owed for a worker name.
LEMMA BuyWorkerMoney ==
    ASSUME MInv, NEW w \in Wallet, NEW n \in Name, BuyWorkerName(w, n)
    PROVE  MInv'
<1>1. RInv'
  BY BuyWorkerStep DEF MInv
<1>2. TransferPublic(w, PRESIDING_DAO_TREASURY, NAME_PRICE) /\ NAME_PRICE \in Nat
      /\ PRESIDING_DAO_TREASURY \in Wallet
  BY RegistrarAssumption DEF BuyWorkerName, PayPrice
<1>3. name_owner \in [Name -> Wallet \cup {ZERO_ADDR}] /\ name_kind \in [Name -> Kind]
      /\ name_kind[n] = NO_KIND
  BY DEF MInv, RInv, IInv, RegistryTypeOK, NameRecordsAgree, BuyWorkerName,
         register_worker_name, Unclaimed
<1>4. \A m \in Name : owed'[m] = owed[m]
  BY <1>3 DEF owed, Owed, BuyWorkerName, register_worker_name, SetName, sellbackVars,
              NO_KIND, KIND_WORKER, KIND_EMPLOYER
<1>5. owed[n] \in Nat
  BY OwedType DEF MInv
<1>6. owed'[n] - owed[n]
          <= (IF PRESIDING_DAO_TREASURY = PRESIDING_DAO_TREASURY THEN NAME_PRICE ELSE 0)
           - (IF w = PRESIDING_DAO_TREASURY THEN NAME_PRICE ELSE 0)
  BY <1>2, <1>4, <1>5
<1> QED
  BY <1>1, <1>2, <1>4, <1>6, MoneyMoves

\* The price of an employer name covers the refund it may become.
LEMMA BuyEmployerMoney ==
    ASSUME MInv, NEW w \in Wallet, NEW n \in Name, NEW suffix \in SuffixCode,
           BuyEmployerName(w, n, suffix)
    PROVE  MInv'
<1>1. RInv'
  BY BuyEmployerStep DEF MInv
<1>2. TransferPublic(w, PRESIDING_DAO_TREASURY, NAME_PRICE) /\ NAME_PRICE \in Nat
      /\ PRESIDING_DAO_TREASURY \in Wallet
  BY RegistrarAssumption DEF BuyEmployerName, PayPrice
<1>3. /\ name_owner \in [Name -> Wallet \cup {ZERO_ADDR}] /\ name_kind \in [Name -> Kind]
      /\ employer_base_paid \in [Name -> Nat]
      /\ name_kind[n] = NO_KIND
  BY DEF MInv, RInv, IInv, RegistryTypeOK, NameRecordsAgree, BuyEmployerName,
         register_employer_name, Unclaimed
<1>4. \A m \in Name : m # n => owed[m] = owed'[m]
  BY <1>3 DEF owed, Owed, BuyEmployerName, register_employer_name, SetName, sellbackVars
<1>5. owed'[n] = owed[n]
          + (IF w # PRESIDING_DAO_TREASURY THEN RefundOf(NAME_PRICE) ELSE 0)
  <2>1. owed[n] = (IF sellback_seller[n] # PRESIDING_DAO_TREASURY
                   THEN sellback_refund_amount[n] ELSE 0) + 0
    BY <1>3 DEF owed, Owed, NO_KIND, KIND_EMPLOYER
  <2>2. /\ name_owner'[n] = w /\ name_kind'[n] = KIND_EMPLOYER
        /\ employer_base_paid'[n] = NAME_PRICE
        /\ UNCHANGED <<sellback_seller, sellback_refund_amount>>
    BY <1>3 DEF BuyEmployerName, register_employer_name, SetName, sellbackVars
  <2>3. owed'[n] = (IF sellback_seller[n] # PRESIDING_DAO_TREASURY
                    THEN sellback_refund_amount[n] ELSE 0)
                   + (IF w # PRESIDING_DAO_TREASURY THEN RefundOf(NAME_PRICE) ELSE 0)
    BY <2>2 DEF owed, Owed
  <2>4. sellback_refund_amount[n] \in Nat /\ RefundOf(NAME_PRICE) \in Nat
    BY <1>2, RefundBounds DEF MInv, RInv, IInv, RegistryTypeOK
  <2> QED
    BY <2>1, <2>3, <2>4
<1>6. owed'[n] - owed[n]
          <= (IF PRESIDING_DAO_TREASURY = PRESIDING_DAO_TREASURY THEN NAME_PRICE ELSE 0)
           - (IF w = PRESIDING_DAO_TREASURY THEN NAME_PRICE ELSE 0)
  <2>1. owed[n] \in Nat /\ RefundOf(NAME_PRICE) \in Nat /\ RefundOf(NAME_PRICE) <= NAME_PRICE
    BY <1>2, OwedType, RefundBounds DEF MInv
  <2> QED
    BY <1>2, <1>5, <2>1
<1> QED
  BY <1>1, <1>2, <1>4, <1>6, MoneyMoves

\* A refund leaves the treasury with its promise.
LEMMA RefundMoney ==
    ASSUME MInv, NEW caller \in Wallet, SellbackStep(caller)
    PROVE  MInv'
<1> PICK n \in Name, seller \in Wallet :
        FulfillSellback(caller, n, seller, sellback_refund_amount[n])
  BY DEF SellbackStep
<1> DEFINE refund == sellback_refund_amount[n]
<1>1. RInv'
  BY RefundStep DEF MInv
<1>2. /\ TransferPublic(PRESIDING_DAO_TREASURY, seller, refund) /\ sellback_seller[n] = seller
      /\ PRESIDING_DAO_TREASURY \in Wallet
  BY RegistrarAssumption DEF FulfillSellback, fulfill_empl_sellback
<1>3. /\ sellback_seller \in [Name -> Wallet \cup {ZERO_ADDR}]
      /\ sellback_refund_amount \in [Name -> Nat] /\ employer_base_paid \in [Name -> Nat]
      /\ refund \in Nat
  BY DEF MInv, RInv, IInv, RegistryTypeOK
<1>4. \A m \in Name : m # n => owed[m] = owed'[m]
  BY <1>3 DEF owed, Owed, FulfillSellback, fulfill_empl_sellback, ClearSellback, nameVars
<1>5. owed[n] - owed'[n] = (IF seller # PRESIDING_DAO_TREASURY THEN refund ELSE 0)
  <2> DEFINE later == IF /\ name_kind[n] = KIND_EMPLOYER
                         /\ name_owner[n] # PRESIDING_DAO_TREASURY
                      THEN RefundOf(employer_base_paid[n]) ELSE 0
  <2>1. owed[n] = (IF seller # PRESIDING_DAO_TREASURY THEN refund ELSE 0) + later
    BY <1>2 DEF owed, Owed
  <2>2. sellback_refund_amount'[n] = 0
        /\ UNCHANGED <<name_kind, name_owner, employer_base_paid>>
    BY <1>3 DEF FulfillSellback, fulfill_empl_sellback, ClearSellback, nameVars
  <2>3. owed'[n] = 0 + later
    BY <2>2 DEF owed, Owed
  <2>4. later \in Nat
    BY <1>3, RefundBounds
  <2> HIDE DEF later
  <2> QED
    BY <1>3, <2>1, <2>3, <2>4
<1>6. owed'[n] - owed[n]
          <= (IF seller = PRESIDING_DAO_TREASURY THEN refund ELSE 0)
           - (IF PRESIDING_DAO_TREASURY = PRESIDING_DAO_TREASURY THEN refund ELSE 0)
  <2>1. owed[n] \in Nat
    BY OwedType DEF MInv
  <2>2. (RInv => owed \in [Name -> Nat])'
    BY OwedType, PTL
  <2>3. owed'[n] \in Nat
    BY <1>1, <2>2
  <2> QED
    BY <1>3, <1>5, <2>1, <2>3
<1> QED
  BY <1>1, <1>2, <1>3, <1>4, <1>6, MoneyMoves

\* An owner turns what it could claim into a promise, or gives it up.
LEMMA OwnerMoney ==
    ASSUME MInv, NEW w \in Wallet, OwnerStep(w), UNCHANGED account
    PROVE  MInv'
<1>1. RInv'
  BY RegistryStepKeeps DEF RegistryNext, MInv
<1>2. /\ name_owner \in [Name -> Wallet \cup {ZERO_ADDR}] /\ name_kind \in [Name -> Kind]
      /\ employer_base_paid \in [Name -> Nat]
      /\ sellback_seller \in [Name -> Wallet \cup {ZERO_ADDR}]
      /\ sellback_refund_amount \in [Name -> Nat]
  BY DEF MInv, RInv, IInv, RegistryTypeOK
<1>3. \A n \in Name : RefundOf(employer_base_paid[n]) \in Nat
  BY <1>2, RefundBounds
<1>4. CASE release_worker_name(w)
  <2> DEFINE n == worker_primary_name_of[w]
  <2>1. n \in Name /\ name_kind[n] = KIND_WORKER
    BY <1>4 DEF MInv, RInv, IInv, RegistryTypeOK, WorkerIndexExact, release_worker_name
  <2>2. \A m \in Name : owed'[m] = owed[m]
    BY <1>2, <1>4, <2>1 DEF owed, Owed, release_worker_name, sellbackVars,
       NO_KIND, KIND_WORKER, KIND_EMPLOYER
  <2>3. UNCHANGED owed
    BY <2>2 DEF owed
  <2> QED
    BY <1>1, <2>3, MoneyRests
<1>5. ASSUME NEW n \in Name, request_empl_sellback(w, n) PROVE MInv'
  <2>1. \A m \in Name : m # n => owed[m] = owed'[m]
    BY <1>2, <1>5 DEF owed, Owed, request_empl_sellback, SetName
  <2>2. /\ name_kind'[n] = NO_KIND /\ sellback_seller'[n] = w
        /\ sellback_refund_amount'[n] = RefundOf(employer_base_paid[n])
        /\ name_kind[n] = KIND_EMPLOYER /\ name_owner[n] = w
    BY <1>2, <1>5 DEF request_empl_sellback, SetName, OwnsEmployerName
  <2>3. owed'[n] = (IF w # PRESIDING_DAO_TREASURY
                    THEN RefundOf(employer_base_paid[n]) ELSE 0) + 0
    BY <2>2 DEF owed, Owed, NO_KIND, KIND_EMPLOYER
  <2>4. owed[n] = (IF sellback_seller[n] # PRESIDING_DAO_TREASURY
                   THEN sellback_refund_amount[n] ELSE 0)
                  + (IF w # PRESIDING_DAO_TREASURY
                     THEN RefundOf(employer_base_paid[n]) ELSE 0)
    BY <2>2 DEF owed, Owed
  <2>5. owed'[n] <= owed[n]
    BY <1>2, <1>3, <2>3, <2>4
  <2> QED
    BY <1>1, <2>1, <2>5, MoneyRests
<1>6. ASSUME NEW n \in Name, set_primary_employer_name(w, n) PROVE MInv'
  <2>1. UNCHANGED owed
    BY <1>6 DEF owed, Owed, set_primary_employer_name, nameVars, sellbackVars
  <2> QED
    BY <1>1, <2>1, MoneyRests
<1> QED
  BY <1>4, <1>5, <1>6 DEF OwnerStep
\* Nothing is owed at first, and every wallet has its opening balance.
LEMMA InitMInv == RegistrarInit => MInv
<1> SUFFICES ASSUME RegistrarInit PROVE MInv
  OBVIOUS
<1>1. RInv
  BY InitRInv
<1>2. IsFiniteSet(Wallet) /\ OpeningBalance \in Nat /\ IsFiniteSet(Name)
      /\ account = [w \in Wallet |-> OpeningBalance] /\ PRESIDING_DAO_TREASURY \in Wallet
  BY RegistrarAssumption, RegistryAssumption DEF RegistrarInit
<1>3. account \in [Wallet -> Nat] /\ \A w \in Wallet : account[w] = OpeningBalance
  BY <1>2
<1>4. AccountTypeOK
  BY <1>3 DEF AccountTypeOK
<1>5. MoneyConserved
  <2>1. SumOver(account, Wallet) = Cardinality(Wallet) * OpeningBalance
    BY <1>2, <1>3, SumConstant
  <2> QED
    BY <1>2, <1>3, <2>1 DEF MoneyConserved, SumOver
<1>6. TreasuryCoversRefunds
  <2>1. owed \in [Name -> Nat] /\ \A n \in Name : owed[n] = 0
    <3>1. \A n \in Name : sellback_refund_amount[n] = 0 /\ name_kind[n] = NO_KIND
      BY DEF RegistrarInit, RegistryInit
    <3> QED
      BY <3>1 DEF owed, Owed, NO_KIND, KIND_EMPLOYER
  <2>2. SumOver(owed, Name) = Cardinality(Name) * 0
    BY <1>2, <2>1, SumConstant
  <2>3. SumOver(owed, Name) = 0
    BY <1>2, <2>2, FS_CardinalityType
  <2> QED
    BY <1>2, <1>3, <2>3, OwedSum DEF TreasuryCoversRefunds
<1> QED
  BY <1>1, <1>4, <1>5, <1>6 DEF MInv

LEMMA NextMInv == MInv /\ [RegistrarNext]_registrarVars => MInv'
<1> SUFFICES ASSUME MInv, [RegistrarNext]_registrarVars PROVE MInv'
  OBVIOUS
<1>1. RInv'
  BY NextRInv DEF MInv
<1>2. CASE UNCHANGED <<nameVars, employer_base_paid, sellbackVars, account>>
  <2>1. UNCHANGED owed
    BY <1>2 DEF owed, Owed, nameVars, sellbackVars
  <2> QED
    BY <1>1, <1>2, <2>1, MoneyRests
<1>3. CASE \E w \in Wallet, n \in Name :
              BuyWorkerName(w, n) \/ \E suffix \in SuffixCode : BuyEmployerName(w, n, suffix)
  BY <1>3, BuyWorkerMoney, BuyEmployerMoney
<1>4. CASE \E w \in Wallet : SellbackStep(w)
  BY <1>4, RefundMoney
<1>5. CASE \E w \in Wallet : OwnerStep(w) /\ UNCHANGED <<is_verified, account, name_plaintext>>
  BY <1>5, OwnerMoney
<1> QED
  BY <1>2, <1>3, <1>4, <1>5 DEF RegistrarNext, registrarVars, registryVars, set_authorized_caller

LEMMA MoneyInvariance == RegistrarSpec => []MInv
<1> QED
  BY InitMInv, NextMInv, PTL DEF RegistrarSpec

\* Sales and refunds only move money between wallets, for any number of wallets and
\* also when the treasury buys from itself (transfer_public_as_signer).
THEOREM MoneyStays == RegistrarSpec => []MoneyConserved
<1>1. MInv => MoneyConserved
  BY DEF MInv
<1> QED
  BY <1>1, MoneyInvariance, PTL

\* The treasury can always pay the refunds it promised and those it would owe for every
\* employer name now owned, for any price and any number of resales.
THEOREM RefundsCovered == RegistrarSpec => []TreasuryCoversRefunds
<1>1. MInv => TreasuryCoversRefunds
  BY DEF MInv
<1> QED
  BY <1>1, MoneyInvariance, PTL

---------------------------------------------------------------------------
(* Profiles and onboarding.                                                *)

\* A profile as first-mint of its anchor: the indexed height of an anchor is no later
\* than any mint with it, and is one of them once it is set.
MintsOf(kind, a) == {p \in profiles : p.kind = kind /\ p.profile_anchor = a}
FirstMint(kind, a) ==
    /\ \A p \in MintsOf(kind, a) : 0 < profile_anchor_height[kind][a]
                                   /\ profile_anchor_height[kind][a] <= p.height
    /\ \/ profile_anchor_height[kind][a] = 0
       \/ \E p \in MintsOf(kind, a) : p.height = profile_anchor_height[kind][a]

\* Two records of one line of revisions.
SameLine(p, q) ==
    /\ p.kind = q.kind /\ p.name_hash = q.name_hash /\ p.suffix_code = q.suffix_code
    /\ p.owner = q.owner /\ p.first = q.first

\* Heights tell records apart: they count the records minted before.
HeightsCount ==
    /\ IsFiniteSet(profiles)
    /\ \A p \in profiles : p.first <= p.height /\ p.height <= Cardinality(profiles)
    /\ \A p, q \in profiles : p.height = q.height => p = q

\* No fork, in terms of the fields.
Lines ==
    \A p, q \in profiles : p.first = q.first /\ p # q =>
        /\ SameLine(p, q)
        /\ p.height < q.height => p.profile_rev < q.profile_rev /\ p \in spent

ProfilesTyped ==
    /\ profiles \subseteq Profile
    /\ profile_anchor_height \in [Participant -> [Anchor -> Nat]]

\* The part of the inductive invariant that speaks of the records and their index.
ProfilesInv ==
    /\ ProfilesTyped
    /\ HeightsCount
    /\ Lines
    /\ \A kind \in Participant, a \in Anchor : FirstMint(kind, a)

----------------------------------------------------------------------------
(* The invariant and the properties as the runs state them.                *)

\* Without revision, anchor and height, two records are equal exactly when they are of
\* one line.
LEMMA SameLineMeans ==
    ASSUME NEW p \in Profile, NEW q \in Profile
    PROVE  SameLine(p, q) <=>
             [p EXCEPT !.profile_rev = 0, !.profile_anchor = 0, !.height = 0]
               = [q EXCEPT !.profile_rev = 0, !.profile_anchor = 0, !.height = 0]
<1> DEFINE Norm(r) == [r EXCEPT !.profile_rev = 0, !.profile_anchor = 0, !.height = 0]
           Norms == [kind : Participant, name_hash : Name, suffix_code : 0 .. 40,
                     profile_rev : {0}, profile_anchor : {0}, owner : Wallet, height : {0},
                     first : Nat \ {0}]
<1>1. \A r \in Profile :
         /\ Norm(r) \in Norms
         /\ Norm(r).kind = r.kind /\ Norm(r).name_hash = r.name_hash
         /\ Norm(r).suffix_code = r.suffix_code /\ Norm(r).owner = r.owner
         /\ Norm(r).first = r.first
  BY DEF Profile
<1>2. \A m, n \in Norms :
         /\ m.kind = n.kind /\ m.name_hash = n.name_hash /\ m.suffix_code = n.suffix_code
         /\ m.owner = n.owner /\ m.first = n.first
         => m = n
  OBVIOUS
<1> HIDE DEF Norm, Norms
<1>3. Norm(p) = Norm(q) <=> SameLine(p, q)
  BY <1>1, <1>2 DEF SameLine
<1> QED
  BY <1>3 DEF Norm

LEMMA IntactFromInv == ProfilesInv => ProfilesIntact
<1> SUFFICES ASSUME ProfilesInv PROVE ProfilesIntact
  OBVIOUS
<1>1. LinesDoNotFork
  BY SameLineMeans DEF ProfilesInv, ProfilesTyped, Lines, LinesDoNotFork
<1>2. HeightsAreFirstMints
  <2> SUFFICES ASSUME NEW kind \in Participant, NEW a \in Anchor
               PROVE  LET minted == {p.height : p \in MintsOf(kind, a)}
                      IN  IF minted = {} THEN profile_anchor_height[kind][a] = 0
                          ELSE /\ profile_anchor_height[kind][a] \in minted
                               /\ \A h \in minted : profile_anchor_height[kind][a] <= h
    BY DEF HeightsAreFirstMints, MintsOf
  <2>1. FirstMint(kind, a)
    BY DEF ProfilesInv
  <2> QED
    BY <2>1 DEF FirstMint
<1> QED
  BY <1>1, <1>2 DEF ProfilesIntact

\* Whatever was minted has its anchor on chain.
LEMMA MintedIsAnchored ==
    ASSUME ProfilesInv, NEW p \in profiles
    PROVE  assert_profile_anchored(p.kind, p.profile_anchor)
<1>1. p.kind \in Participant /\ p.profile_anchor \in Anchor
  BY DEF ProfilesInv, ProfilesTyped, Profile
<1>2. FirstMint(p.kind, p.profile_anchor) /\ p \in MintsOf(p.kind, p.profile_anchor)
  BY <1>1 DEF ProfilesInv, MintsOf
<1> QED
  BY <1>2 DEF FirstMint, assert_profile_anchored

----------------------------------------------------------------------------
(* Minting.                                                                *)

\* The next height is a number above those of all records.
LEMMA HeightsBelow ==
    ASSUME ProfilesInv
    PROVE  /\ Height \in Nat \ {0} /\ Cardinality(profiles) = Height - 1
           /\ \A p \in profiles :
                 /\ p \in Profile /\ p.height \in Nat \ {0} /\ p.first \in Nat \ {0}
                 /\ p.profile_rev \in Nat
                 /\ p.first <= p.height /\ p.height < Height
<1>1. Cardinality(profiles) \in Nat
  BY FS_CardinalityType DEF ProfilesInv, HeightsCount
<1>2. \A p \in profiles :
         /\ p \in Profile /\ p.height \in Nat \ {0} /\ p.first \in Nat \ {0}
         /\ p.profile_rev \in Nat
  BY ProfilesAssumption DEF ProfilesInv, ProfilesTyped, Profile
<1>3. \A p \in profiles : p.first <= p.height /\ p.height <= Cardinality(profiles)
  BY DEF ProfilesInv, HeightsCount
<1> QED
  BY <1>1, <1>2, <1>3 DEF Height

\* A record minted now is later than all others, and its anchor is indexed once.
LEMMA MintKeepsIndex ==
    ASSUME ProfilesInv, NEW x \in Profile, x.height = Height,
           profiles' = profiles \cup {x}, AnchorOnce(x.kind, x.profile_anchor)
    PROVE  /\ ProfilesTyped'
           /\ \A kind \in Participant, a \in Anchor : FirstMint(kind, a)'
<1>1. /\ Height \in Nat \ {0}
      /\ \A p \in profiles : p.height \in Nat /\ p.height < Height
  BY HeightsBelow
<1>2. x.kind \in Participant /\ x.profile_anchor \in Anchor
  BY DEF Profile
<1>3. profile_anchor_height \in [Participant -> [Anchor -> Nat]]
  BY DEF ProfilesInv, ProfilesTyped
<1>4. ProfilesTyped'
  BY <1>1, <1>2, <1>3 DEF AnchorOnce, ProfilesInv, ProfilesTyped
<1>5. ASSUME NEW kind \in Participant, NEW a \in Anchor
      PROVE  FirstMint(kind, a)'
  <2>1. FirstMint(kind, a)
    BY DEF ProfilesInv
  <2>2. profile_anchor_height[kind][a] \in Nat
    BY <1>3
  <2>3. CASE kind = x.kind /\ a = x.profile_anchor
    <3>1. profile_anchor_height'[kind][a]
            = IF profile_anchor_height[kind][a] = 0 THEN Height
              ELSE profile_anchor_height[kind][a]
      BY <1>2, <1>3, <2>3 DEF AnchorOnce
    <3>2. MintsOf(kind, a)' = MintsOf(kind, a) \cup {x}
      BY <2>3 DEF MintsOf
    <3>3. CASE profile_anchor_height[kind][a] = 0
      <4>1. MintsOf(kind, a) = {}
        BY <2>1, <3>3 DEF FirstMint
      <4> QED
        BY <1>1, <3>1, <3>2, <3>3, <4>1 DEF FirstMint
    <3>4. CASE profile_anchor_height[kind][a] # 0
      <4>1. PICK p \in MintsOf(kind, a) : p.height = profile_anchor_height[kind][a]
        BY <2>1, <3>4 DEF FirstMint
      <4>2. profile_anchor_height[kind][a] < Height
        BY <1>1, <4>1 DEF MintsOf
      <4> QED
        BY <1>1, <2>1, <2>2, <3>1, <3>2, <3>4, <4>1, <4>2 DEF FirstMint
    <3> QED
      BY <3>3, <3>4
  <2>4. CASE ~(kind = x.kind /\ a = x.profile_anchor)
    <3>1. profile_anchor_height'[kind][a] = profile_anchor_height[kind][a]
      BY <1>2, <1>3, <2>4 DEF AnchorOnce
    <3>2. MintsOf(kind, a)' = MintsOf(kind, a)
      BY <2>4 DEF MintsOf
    <3> QED
      BY <2>1, <3>1, <3>2 DEF FirstMint
  <2> QED
    BY <2>3, <2>4
<1> QED
  BY <1>4, <1>5

LEMMA MintKeepsHeights ==
    ASSUME ProfilesInv, NEW x \in Profile, x.height = Height, x.first <= Height,
           profiles' = profiles \cup {x}
    PROVE  HeightsCount'
<1>1. x \notin profiles /\ \A p \in profiles : p.height < Height
  BY HeightsBelow
<1>2. /\ IsFiniteSet(profiles')
      /\ Cardinality(profiles') = Height
  BY <1>1, HeightsBelow, FS_AddElement DEF ProfilesInv, HeightsCount, Height
<1>3. ASSUME NEW p \in profiles' PROVE p.first <= p.height /\ p.height <= Height
  <2>1. CASE p = x
    BY <2>1, HeightsBelow
  <2>2. CASE p \in profiles
    BY <2>2, HeightsBelow
  <2> QED
    BY <2>1, <2>2
<1>4. ASSUME NEW p \in profiles', NEW q \in profiles', p.height = q.height
      PROVE  p = q
  <2>1. CASE p = x \/ q = x
    BY <1>1, <1>4, <2>1, HeightsBelow
  <2>2. CASE p \in profiles /\ q \in profiles
    BY <1>4, <2>2 DEF ProfilesInv, HeightsCount
  <2> QED
    BY <2>1, <2>2
<1> QED
  BY <1>2, <1>3, <1>4 DEF HeightsCount

\* A new profile begins a line.
LEMMA CreateKeeps ==
    ASSUME IInv, ProfilesInv, NEW kind \in Participant, NEW w \in Wallet, NEW n \in Name,
           NEW suffix, NEW rev \in Rev, NEW a \in Anchor,
           create_profile(kind, w, n, suffix, rev, a)
    PROVE  /\ ProfilesInv'
           /\ \E p \in profiles' : /\ p.kind = kind /\ p.owner = w /\ p.name_hash = n
                                   /\ p.profile_anchor = a
<1> DEFINE x == [kind |-> kind, name_hash |-> n, suffix_code |-> suffix, profile_rev |-> rev,
                 profile_anchor |-> a, owner |-> w, height |-> Height, first |-> Height]
<1>1. profiles' = profiles \cup {x} /\ AnchorOnce(kind, a) /\ UNCHANGED spent
  BY DEF create_profile
<1>2. Height \in Nat \ {0} /\ \A p \in profiles : p.first \in Nat /\ p.first < Height
  BY HeightsBelow
<1>3. suffix \in 0 .. 40
  BY DEF create_profile, MayProfile, assert_employer_owner, IInv, RegistryTypeOK, Participant
<1>4. x \in Profile
  BY <1>2, <1>3 DEF Profile
<1>5. HeightsCount'
  <2>1. x.height = Height /\ x.first <= Height
    BY <1>2
  <2> HIDE DEF x
  <2> QED
    BY <1>1, <1>4, <2>1, MintKeepsHeights
<1>6. ProfilesTyped' /\ \A k \in Participant, b \in Anchor : FirstMint(k, b)'
  <2>1. x.height = Height /\ AnchorOnce(x.kind, x.profile_anchor)
    BY <1>1
  <2> HIDE DEF x
  <2> QED
    BY <1>1, <1>4, <2>1, MintKeepsIndex
<1>7. Lines'
  BY <1>1, <1>2 DEF ProfilesInv, Lines, SameLine
<1>8. x \in profiles' /\ x.kind = kind /\ x.owner = w /\ x.name_hash = n /\ x.profile_anchor = a
  BY <1>1
<1>9. ProfilesInv'
  BY <1>5, <1>6, <1>7 DEF ProfilesInv
<1> QED
  BY <1>8, <1>9

\* A revision extends the line of the one record of it that is not consumed.
LEMMA UpdateKeeps ==
    ASSUME ProfilesInv, NEW w \in Wallet, NEW old, NEW rev \in Rev, NEW a \in Anchor,
           update_profile(w, old, rev, a)
    PROVE  /\ ProfilesInv'
           /\ \E p \in profiles' : /\ p.kind = old.kind /\ p.owner = w
                                   /\ p.name_hash = old.name_hash /\ p.profile_anchor = a
<1> DEFINE x == [old EXCEPT !.profile_rev = rev, !.profile_anchor = a, !.height = Height]
<1>1. /\ profiles' = profiles \cup {x} /\ spent' = spent \cup {old}
      /\ AnchorOnce(old.kind, a) /\ old.owner = w /\ rev > old.profile_rev
      /\ old \in profiles /\ old \notin spent
  BY DEF update_profile, Consume
<1>2. /\ Height \in Nat \ {0}
      /\ \A p \in profiles : /\ p \in Profile /\ p.height < Height /\ p.first <= p.height
                             /\ p.height \in Nat /\ p.first \in Nat /\ p.profile_rev \in Nat
  BY HeightsBelow
<1>3. /\ x \in Profile /\ x.height = Height /\ x.first = old.first
      /\ x.kind = old.kind /\ x.profile_anchor = a /\ x.profile_rev = rev
      /\ x.owner = w /\ x.name_hash = old.name_hash
      /\ SameLine(x, old)
  BY <1>1, <1>2 DEF Profile, SameLine
<1> HIDE DEF x
<1>4. HeightsCount'
  <2>1. x.first <= Height
    BY <1>1, <1>2, <1>3
  <2> QED
    BY <1>1, <1>3, <2>1, MintKeepsHeights
<1>5. ProfilesTyped' /\ \A k \in Participant, b \in Anchor : FirstMint(k, b)'
  BY <1>1, <1>3, MintKeepsIndex
<1>6. Lines'
  <2>1. ASSUME NEW q \in profiles, q.first = x.first
        PROVE  /\ SameLine(q, x) /\ SameLine(x, q)
               /\ q.profile_rev < rev /\ q \in spent'
    <3>1. CASE q = old
      BY <1>1, <1>2, <1>3, <3>1, ProfilesAssumption DEF SameLine
    <3>2. CASE q # old
      <4>1. SameLine(q, old) /\ SameLine(x, old)
        BY <1>1, <1>3, <2>1, <3>2 DEF ProfilesInv, Lines
      <4>2. q.height < old.height
        BY <1>1, <1>2, <1>3, <2>1, <3>2 DEF ProfilesInv, Lines, HeightsCount
      <4>3. q.profile_rev < old.profile_rev /\ q \in spent
        BY <1>1, <1>3, <2>1, <3>2, <4>2 DEF ProfilesInv, Lines
      <4> QED
        BY <1>1, <1>2, <4>1, <4>3, ProfilesAssumption DEF SameLine
    <3> QED
      BY <3>1, <3>2
  <2>2. ASSUME NEW p \in profiles', NEW q \in profiles', p.first = q.first, p # q
        PROVE  /\ SameLine(p, q)
               /\ p.height < q.height => p.profile_rev < q.profile_rev /\ p \in spent'
    <3>1. CASE p \in profiles /\ q \in profiles
      BY <1>1, <2>2, <3>1 DEF ProfilesInv, Lines
    <3>2. CASE p = x /\ q \in profiles
      BY <1>2, <1>3, <2>1, <2>2, <3>2
    <3>3. CASE p \in profiles /\ q = x
      BY <1>2, <1>3, <2>1, <2>2, <3>3
    <3> QED
      BY <1>1, <2>2, <3>1, <3>2, <3>3
  <2> QED
    BY <2>2 DEF Lines
<1> QED
  BY <1>1, <1>3, <1>4, <1>5, <1>6 DEF ProfilesInv

----------------------------------------------------------------------------
(* Plans.                                                                  *)

\* What plans are made from.
OnboardingInput == [kind : Participant, name_hash : Name, profile_anchor : Anchor]
UpdateInput == [kind : Participant, old : Profile, rev : Rev, profile_anchor : Anchor]

\* What a plan promises to have minted.
Delivered(in) ==
    \E p \in profiles : p.kind = in.kind /\ p.profile_anchor = in.profile_anchor

\* How far a plan is, by what is left of it.
Onboards(r) ==
    /\ input[r] \in OnboardingInput
    /\ plan[r] \in {<<"assert_license_verified", "register_name", "create_profile">>,
                    <<"register_name", "create_profile">>, <<"create_profile">>}
Updates(r) ==
    /\ input[r] \in UpdateInput
    /\ input[r].old \in profiles
    /\ input[r].kind = input[r].old.kind
    /\ plan[r] \in {<<"update_profile">>, <<"update_profile", "assert_profile_anchored">>}
Reports(r) ==
    /\ Delivered(input[r])
    /\ plan[r] \in {<<"assert_profile_anchored">>, <<>>}
GivenUp(r) == plan[r] = <<>> /\ made[r] = <<>>

RunsInv ==
    /\ plan = [r \in Run |-> plan[r]] /\ made = [r \in Run |-> made[r]]
    /\ input = [r \in Run |-> input[r]]
    /\ \A r \in Run : Onboards(r) \/ Updates(r) \/ Reports(r) \/ GivenUp(r)

\* The inductive invariant of registry, profiles and plans.
OInv == IInv /\ ProfilesInv /\ RunsInv

\* Nothing is minted or planned at first.
LEMMA InitOInv == Init => OInv
<1> SUFFICES ASSUME Init PROVE OInv
  OBVIOUS
<1>1. IInv
  BY InitIInv DEF Init
<1>2. ProfilesInv
  <2>1. IsFiniteSet(profiles)
    BY FS_EmptySet DEF Init, ProfilesInit
  <2> QED
    BY <2>1 DEF Init, ProfilesInit, ProfilesInv, ProfilesTyped, HeightsCount, Lines, FirstMint,
                MintsOf
<1>3. RunsInv
  BY DEF Init, RunsInv, GivenUp
<1> QED
  BY <1>1, <1>2, <1>3 DEF OInv

\* A step that mints nothing keeps the records' part.
LEMMA ProfilesUntouched == ProfilesInv /\ UNCHANGED profileVars => ProfilesInv'
BY DEF profileVars, ProfilesInv, ProfilesTyped, HeightsCount, Lines, SameLine, FirstMint, MintsOf

\* A step of one plan leaves the others where they are; no record is ever lost.
LEMMA OtherRuns ==
    ASSUME RunsInv, NEW r \in Run, profiles \subseteq profiles',
           NEW rest, NEW steps, NEW in,
           plan' = [plan EXCEPT ![r] = rest], made' = [made EXCEPT ![r] = steps],
           input' = [input EXCEPT ![r] = in],
           Onboards(r)' \/ Updates(r)' \/ Reports(r)' \/ GivenUp(r)'
    PROVE  RunsInv'
<1>1. /\ plan' = [q \in Run |-> plan'[q]] /\ made' = [q \in Run |-> made'[q]]
      /\ input' = [q \in Run |-> input'[q]]
  BY DEF RunsInv
<1>2. ASSUME NEW q \in Run, q # r
      PROVE  Onboards(q)' \/ Updates(q)' \/ Reports(q)' \/ GivenUp(q)'
  <2>1. plan'[q] = plan[q] /\ made'[q] = made[q] /\ input'[q] = input[q]
    BY <1>2 DEF RunsInv
  <2>2. CASE Onboards(q)
    BY <2>1, <2>2 DEF Onboards
  <2>3. CASE Updates(q)
    BY <2>1, <2>3 DEF Updates
  <2>4. CASE Reports(q)
    BY <2>1, <2>4 DEF Reports, Delivered
  <2>5. CASE GivenUp(q)
    BY <2>1, <2>5 DEF GivenUp
  <2> QED
    BY <2>2, <2>3, <2>4, <2>5 DEF RunsInv
<1> QED
  BY <1>1, <1>2 DEF RunsInv

\* The first step of a plan of one, two or three steps, and the rest.
LEMMA HeadsAndTails ==
    ASSUME NEW x, NEW y, NEW z
    PROVE  /\ Head(<<x>>) = x /\ Tail(<<x>>) = <<>>
           /\ Head(<<x, y>>) = x /\ Tail(<<x, y>>) = <<y>>
           /\ Head(<<x, y, z>>) = x /\ Tail(<<x, y, z>>) = <<y, z>>
<1>1. Head(<<x>>) = x /\ Head(<<x, y>>) = x /\ Head(<<x, y, z>>) = x
  OBVIOUS
<1>2. Tail(<<x>>) = <<>>
  OBVIOUS
<1>3. Tail(<<x, y>>) = <<y>>
  OBVIOUS
<1>4. Tail(<<x, y, z>>) = <<y, z>>
  OBVIOUS
<1> QED
  BY <1>1, <1>2, <1>3, <1>4

\* What carrying out the current step leaves of a plan.
LEMMA PlanShape ==
    ASSUME RunsInv, NEW r \in Run, NEW step, Current(r, step)
    PROVE  \/ /\ step \in {"assert_license_verified", "register_name"}
              /\ input[r] \in OnboardingInput
              /\ Tail(plan[r]) \in {<<"register_name", "create_profile">>, <<"create_profile">>}
           \/ /\ step = "create_profile"
              /\ input[r] \in OnboardingInput
              /\ Tail(plan[r]) = <<>>
           \/ /\ step = "update_profile"
              /\ Updates(r)
              /\ Tail(plan[r]) \in {<<>>, <<"assert_profile_anchored">>}
           \/ /\ step = "assert_profile_anchored"
              /\ Delivered(input[r])
              /\ Tail(plan[r]) = <<>>
<1>1. plan[r] # <<>> /\ Head(plan[r]) = step
  BY DEF Current
<1>2. CASE Onboards(r)
  <2>1. CASE plan[r] = <<"assert_license_verified", "register_name", "create_profile">>
    <3>1. step = "assert_license_verified" /\ Tail(plan[r]) = <<"register_name", "create_profile">>
      BY <1>1, <2>1, HeadsAndTails
    <3> QED
      BY <1>2, <3>1 DEF Onboards
  <2>2. CASE plan[r] = <<"register_name", "create_profile">>
    <3>1. step = "register_name" /\ Tail(plan[r]) = <<"create_profile">>
      BY <1>1, <2>2, HeadsAndTails
    <3> QED
      BY <1>2, <3>1 DEF Onboards
  <2>3. CASE plan[r] = <<"create_profile">>
    <3>1. step = "create_profile" /\ Tail(plan[r]) = <<>>
      BY <1>1, <2>3, HeadsAndTails
    <3> QED
      BY <1>2, <3>1 DEF Onboards
  <2> QED
    BY <1>2, <2>1, <2>2, <2>3 DEF Onboards
<1>3. CASE Updates(r)
  <2>1. CASE plan[r] = <<"update_profile">>
    <3>1. step = "update_profile" /\ Tail(plan[r]) = <<>>
      BY <1>1, <2>1, HeadsAndTails
    <3> QED
      BY <1>3, <3>1
  <2>2. CASE plan[r] = <<"update_profile", "assert_profile_anchored">>
    <3>1. step = "update_profile" /\ Tail(plan[r]) = <<"assert_profile_anchored">>
      BY <1>1, <2>2, HeadsAndTails
    <3> QED
      BY <1>3, <3>1
  <2> QED
    BY <1>3, <2>1, <2>2 DEF Updates
<1>4. CASE Reports(r)
  <2>1. step = "assert_profile_anchored" /\ Tail(plan[r]) = <<>>
    BY <1>1, <1>4, HeadsAndTails DEF Reports
  <2> QED
    BY <1>4, <2>1 DEF Reports
<1>5. ~GivenUp(r)
  BY <1>1 DEF GivenUp
<1> QED
  BY <1>2, <1>3, <1>4, <1>5 DEF RunsInv

----------------------------------------------------------------------------
(* Every step keeps the invariant.                                         *)

\* Planning.
LEMMA PlanStep ==
    ASSUME OInv, NEW r \in Run, PlanOnboarding(r) \/ PlanUpdate(r)
    PROVE  OInv' /\ UNCHANGED <<registryVars, is_verified, profileVars>>
<1>1. UNCHANGED <<registryVars, is_verified, profileVars>>
  BY DEF PlanOnboarding, PlanUpdate, Made
<1>2. IInv'
  BY <1>1, NextIInv DEF OInv
<1>3. ProfilesInv'
  BY <1>1, ProfilesUntouched DEF OInv
<1>4. CASE PlanOnboarding(r)
  <2>1. PICK kind \in Participant, n \in Name, a \in Anchor :
            Made(r, buildOnboardingWorkflow(kind),
                 [kind |-> kind, name_hash |-> n, profile_anchor |-> a])
    BY <1>4 DEF PlanOnboarding
  <2> DEFINE in == [kind |-> kind, name_hash |-> n, profile_anchor |-> a]
             steps == buildOnboardingWorkflow(kind)
  <2>2. in \in OnboardingInput
    BY DEF OnboardingInput
  <2>3. steps \in {<<"assert_license_verified", "register_name", "create_profile">>,
                   <<"register_name", "create_profile">>}
    BY DEF buildOnboardingWorkflow
  <2>4. /\ plan' = [plan EXCEPT ![r] = steps] /\ made' = [made EXCEPT ![r] = steps]
        /\ input' = [input EXCEPT ![r] = in] /\ profiles' = profiles
    BY <2>1, <1>1 DEF Made, profileVars
  <2> HIDE DEF in, steps
  <2>5. plan'[r] = steps /\ input'[r] = in
    BY <2>4 DEF OInv, RunsInv
  <2>6. Onboards(r)'
    BY <2>2, <2>3, <2>5 DEF Onboards
  <2>7. RunsInv'
    BY <2>4, <2>6, OtherRuns DEF OInv
  <2> QED
    BY <1>1, <1>2, <1>3, <2>7 DEF OInv
<1>5. CASE PlanUpdate(r)
  <2>1. PICK old \in profiles \ spent, rev \in Rev, a \in Anchor, asserted \in BOOLEAN :
            Made(r, buildProfileUpdateWorkflow(asserted),
                 [kind |-> old.kind, old |-> old, rev |-> rev, profile_anchor |-> a])
    BY <1>5 DEF PlanUpdate
  <2> DEFINE in == [kind |-> old.kind, old |-> old, rev |-> rev, profile_anchor |-> a]
             steps == buildProfileUpdateWorkflow(asserted)
  <2>2. /\ in \in UpdateInput /\ in.old \in profiles
        /\ in.kind = in.old.kind
    BY DEF UpdateInput, OInv, ProfilesInv, ProfilesTyped, Profile
  <2>3. steps \in {<<"update_profile">>, <<"update_profile", "assert_profile_anchored">>}
    BY DEF buildProfileUpdateWorkflow
  <2>4. /\ plan' = [plan EXCEPT ![r] = steps] /\ made' = [made EXCEPT ![r] = steps]
        /\ input' = [input EXCEPT ![r] = in] /\ profiles' = profiles
    BY <2>1, <1>1 DEF Made, profileVars
  <2> HIDE DEF in, steps
  <2>5. plan'[r] = steps /\ input'[r] = in
    BY <2>4 DEF OInv, RunsInv
  <2>6. Updates(r)'
    BY <2>2, <2>3, <2>4, <2>5 DEF Updates
  <2>7. RunsInv'
    BY <2>4, <2>6, OtherRuns DEF OInv
  <2> QED
    BY <1>1, <1>2, <1>3, <2>7 DEF OInv
<1> QED
  BY <1>4, <1>5

\* Steps of a plan that mint nothing: the plan advances.
LEMMA AdvanceStep ==
    ASSUME OInv, NEW r \in Run, IInv', UNCHANGED profileVars, Advance(r),
           Current(r, "assert_license_verified") \/ Current(r, "register_name")
             \/ Current(r, "assert_profile_anchored")
    PROVE  OInv'
<1>1. ProfilesInv'
  BY ProfilesUntouched DEF OInv
<1>2. /\ plan' = [plan EXCEPT ![r] = Tail(plan[r])]
      /\ made' = [made EXCEPT ![r] = made[r]] /\ input' = [input EXCEPT ![r] = input[r]]
      /\ profiles' = profiles
  BY DEF Advance, OInv, RunsInv, profileVars
<1>3. plan'[r] = Tail(plan[r]) /\ input'[r] = input[r]
  BY <1>2 DEF OInv, RunsInv
<1>4. CASE Current(r, "assert_license_verified") \/ Current(r, "register_name")
  <2>1. /\ input[r] \in OnboardingInput
        /\ Tail(plan[r]) \in {<<"register_name", "create_profile">>, <<"create_profile">>}
    BY <1>4, PlanShape DEF OInv
  <2>2. Onboards(r)'
    BY <1>3, <2>1 DEF Onboards
  <2> QED
    BY <1>1, <1>2, <2>2, OtherRuns DEF OInv
<1>5. CASE Current(r, "assert_profile_anchored")
  <2>1. Delivered(input[r]) /\ Tail(plan[r]) = <<>>
    BY <1>5, PlanShape DEF OInv
  <2>2. Reports(r)'
    BY <1>2, <1>3, <2>1 DEF Reports, Delivered
  <2> QED
    BY <1>1, <1>2, <2>2, OtherRuns DEF OInv
<1> QED
  BY <1>4, <1>5

\* A registration is one of the registry, made by ADMIN with the count on chain.
LEMMA RegisterStep ==
    ASSUME OInv, NEW r \in Run, RegisterName(r)
    PROVE  OInv' /\ [RegistryNext]_registryVars
<1>1. Current(r, "register_name") /\ Advance(r) /\ UNCHANGED profileVars
  BY DEF RegisterName
<1>2. input[r] \in OnboardingInput
  BY <1>1, PlanShape DEF OInv
<1>3. /\ input[r].name_hash \in Name
      /\ \A w \in Wallet : employer_name_count[w] \in 0 .. MAX_NAMES
      /\ ADMIN \in Caller
  BY <1>2 DEF OnboardingInput, OInv, IInv, RegistryTypeOK, Caller
<1>4. GatedStep(ADMIN)
  BY <1>3 DEF RegisterName, GatedStep
<1>5. RegistryNext
  BY <1>3, <1>4 DEF RegistryNext
<1>6. IInv'
  BY <1>5, NextIInv DEF OInv
<1> QED
  BY <1>1, <1>5, <1>6, AdvanceStep

\* The two steps that mint.
LEMMA MintStep ==
    ASSUME OInv, NEW r \in Run, CreateProfile(r) \/ UpdateProfile(r)
    PROVE  OInv' /\ UNCHANGED <<registryVars, is_verified>>
<1>1. Advance(r) /\ UNCHANGED <<registryVars, is_verified>>
  BY DEF CreateProfile, UpdateProfile, create_profile, update_profile
<1>2. IInv'
  BY <1>1, NextIInv DEF OInv
<1>3. /\ plan' = [plan EXCEPT ![r] = Tail(plan[r])]
      /\ made' = [made EXCEPT ![r] = made[r]] /\ input' = [input EXCEPT ![r] = input[r]]
      /\ plan'[r] = Tail(plan[r]) /\ input'[r] = input[r]
  BY <1>1 DEF Advance, OInv, RunsInv
<1>4. profiles \subseteq profiles'
  BY DEF CreateProfile, UpdateProfile, create_profile, update_profile
<1>5. ProfilesInv' /\ Reports(r)'
  <2>1. CASE CreateProfile(r)
    <3>1. Current(r, "create_profile")
      BY <2>1 DEF CreateProfile
    <3>2. input[r] \in OnboardingInput /\ Tail(plan[r]) = <<>>
      BY <3>1, PlanShape DEF OInv
    <3>3. input[r].kind \in Participant /\ input[r].profile_anchor \in Anchor
      BY <3>2 DEF OnboardingInput
    <3>4. PICK w \in Wallet, n \in Name, suffix \in SuffixCode, rev \in Rev :
             create_profile(input[r].kind, w, n, suffix, rev, input[r].profile_anchor)
      BY <2>1 DEF CreateProfile
    <3>5. /\ ProfilesInv'
          /\ \E p \in profiles' :
                p.kind = input[r].kind /\ p.profile_anchor = input[r].profile_anchor
      BY <3>3, <3>4, CreateKeeps DEF OInv
    <3> QED
      BY <1>3, <3>2, <3>5 DEF Reports, Delivered
  <2>2. CASE UpdateProfile(r)
    <3>1. Current(r, "update_profile")
      BY <2>2 DEF UpdateProfile
    <3>2. Updates(r) /\ Tail(plan[r]) \in {<<>>, <<"assert_profile_anchored">>}
      BY <3>1, PlanShape DEF OInv
    <3>3. /\ input[r].old.owner \in Wallet
          /\ input[r].rev \in Rev /\ input[r].profile_anchor \in Anchor
          /\ input[r].kind = input[r].old.kind
      BY <3>2 DEF Updates, UpdateInput, Profile
    <3>4. update_profile(input[r].old.owner, input[r].old, input[r].rev, input[r].profile_anchor)
      BY <2>2 DEF UpdateProfile
    <3>5. /\ ProfilesInv'
          /\ \E p \in profiles' :
                p.kind = input[r].kind /\ p.profile_anchor = input[r].profile_anchor
      BY <3>3, <3>4, UpdateKeeps DEF OInv
    <3> QED
      BY <1>3, <3>2, <3>5 DEF Reports, Delivered
  <2> QED
    BY <2>1, <2>2
<1>6. RunsInv'
  BY <1>3, <1>4, <1>5, OtherRuns DEF OInv
<1> QED
  BY <1>1, <1>2, <1>5, <1>6 DEF OInv

\* Plans given up, and steps of owners and of the license authority, leave what was
\* minted and what is still planned.
LEMMA FailStep ==
    ASSUME OInv, NEW r \in Run, Fail(r)
    PROVE  OInv' /\ UNCHANGED <<registryVars, is_verified, profileVars>>
<1>1. UNCHANGED <<registryVars, is_verified, profileVars>>
  BY DEF Fail
<1>2. IInv' /\ ProfilesInv'
  BY <1>1, NextIInv, ProfilesUntouched DEF OInv
<1>3. /\ plan' = [plan EXCEPT ![r] = <<>>] /\ made' = [made EXCEPT ![r] = <<>>]
      /\ input' = [input EXCEPT ![r] = input[r]] /\ profiles' = profiles
  BY <1>1 DEF Fail, OInv, RunsInv, profileVars
<1>4. GivenUp(r)'
  BY <1>3 DEF GivenUp, OInv, RunsInv
<1>5. RunsInv'
  BY <1>3, <1>4, OtherRuns DEF OInv
<1> QED
  BY <1>1, <1>2, <1>5 DEF OInv

LEMMA EnvironmentStep ==
    ASSUME OInv, [RegistryNext]_registryVars, UNCHANGED <<profileVars, plan, made, input>>
    PROVE  OInv'
<1>1. IInv' /\ ProfilesInv'
  BY NextIInv, ProfilesUntouched DEF OInv
<1>2. RunsInv'
  BY DEF OInv, RunsInv, profileVars, Onboards, Updates, Reports, Delivered, GivenUp
<1> QED
  BY <1>1, <1>2 DEF OInv

\* Every step keeps the invariant and is one of the registry, or leaves it alone.
LEMMA NextOInv == OInv /\ [Next]_vars => OInv' /\ [RegistryNext]_registryVars
<1> SUFFICES ASSUME OInv, [Next]_vars PROVE OInv' /\ [RegistryNext]_registryVars
  OBVIOUS
<1>1. ASSUME NEW r \in Run, PlanOnboarding(r) \/ PlanUpdate(r) \/ Fail(r)
      PROVE  OInv' /\ [RegistryNext]_registryVars
  BY <1>1, PlanStep, FailStep
<1>2. ASSUME NEW r \in Run, RegisterName(r)
      PROVE  OInv' /\ [RegistryNext]_registryVars
  BY <1>2, RegisterStep
<1>3. ASSUME NEW r \in Run, AssertLicense(r) \/ AssertAnchored(r)
      PROVE  OInv' /\ [RegistryNext]_registryVars
  <2>1. UNCHANGED <<registryVars, profileVars>> /\ Advance(r)
    BY <1>3 DEF AssertLicense, AssertAnchored
  <2>2. Current(r, "assert_license_verified") \/ Current(r, "assert_profile_anchored")
    BY <1>3 DEF AssertLicense, AssertAnchored
  <2>3. IInv'
    BY <2>1, NextIInv DEF OInv
  <2> QED
    BY <2>1, <2>2, <2>3, AdvanceStep
<1>4. ASSUME NEW r \in Run, CreateProfile(r) \/ UpdateProfile(r)
      PROVE  OInv' /\ [RegistryNext]_registryVars
  BY <1>4, MintStep
<1>5. CASE \E w \in Wallet :
              OwnerStep(w) /\ UNCHANGED <<is_verified, profileVars, plan, made, input>>
  <2>1. RegistryNext /\ UNCHANGED <<profileVars, plan, made, input>>
    BY <1>5 DEF RegistryNext
  <2> QED
    BY <2>1, EnvironmentStep
<1>6. CASE LicenseNext /\ UNCHANGED <<registryVars, profileVars, plan, made, input>>
  BY <1>6, EnvironmentStep
<1>7. CASE UNCHANGED vars
  BY <1>7, EnvironmentStep DEF vars
<1> QED
  BY <1>1, <1>2, <1>3, <1>4, <1>5, <1>6, <1>7 DEF Next

\* Every reachable state of registry, profiles and plans satisfies the invariant.
THEOREM OnboardingInvariance == Spec => []OInv
<1>1. OInv /\ [Next]_vars => OInv'
  BY NextOInv
<1> QED
  BY <1>1, InitOInv, PTL DEF Spec

\* What the plans do to names, the name registry does: all its theorems hold beside
\* onboardings and profile updates.
THEOREM RegistryUndisturbed == Spec => RegistrySpec
<1>1. Init => RegistryInit
  BY DEF Init
<1>2. OInv /\ [Next]_vars => [RegistryNext]_registryVars
  BY NextOInv
<1> QED
  BY <1>1, <1>2, OnboardingInvariance, PTL DEF Spec, RegistrySpec

----------------------------------------------------------------------------
\* No line of revisions forks, and every indexed height is the first mint's.
THEOREM ProfilesStayIntact == Spec => []ProfilesIntact
<1>1. OInv => ProfilesIntact
  BY IntactFromInv DEF OInv
<1> QED
  BY <1>1, OnboardingInvariance, PTL

\* A plan carried out has the anchor it reports on chain.
THEOREM ReportsOnChain == Spec => []ReportedAnchorsAreOnChain
<1>1. OInv => ReportedAnchorsAreOnChain
  <2> SUFFICES ASSUME OInv, NEW r \in Run
               PROVE  /\ made[r] # <<>> /\ plan[r] = <<>> => Delivered(input[r])
                      /\ Current(r, "assert_profile_anchored") =>
                            assert_profile_anchored(input[r].kind, input[r].profile_anchor)
    BY DEF ReportedAnchorsAreOnChain, Delivered
  <2>1. made[r] # <<>> /\ plan[r] = <<>> => Delivered(input[r])
    <3>1. (~Onboards(r) /\ ~Updates(r)) \/ plan[r] # <<>>
      BY DEF Onboards, Updates
    <3>2. Reports(r) \/ GivenUp(r) \/ plan[r] # <<>>
      BY <3>1 DEF OInv, RunsInv
    <3> QED
      BY <3>2 DEF Reports, GivenUp
  <2>2. ASSUME Current(r, "assert_profile_anchored")
        PROVE  assert_profile_anchored(input[r].kind, input[r].profile_anchor)
    <3>1. Delivered(input[r])
      BY <2>2, PlanShape DEF OInv
    <3> QED
      BY <3>1, MintedIsAnchored DEF OInv, Delivered
  <2> QED
    BY <2>1, <2>2
<1> QED
  BY <1>1, OnboardingInvariance, PTL

\* An employer profile is minted on a current license, and on a name that is then an
\* employer name of the profile's suffix: that a suffix tells the kind of a name is the
\* registry's invariant (NameRecordsAgree).
THEOREM EmployersStayCurrent == Spec => EmployersAreCurrent
<1> DEFINE CurrentEmployer(p) ==
        /\ is_verified[p.owner]
        /\ name_owner[p.name_hash] = p.owner /\ name_kind[p.name_hash] = KIND_EMPLOYER
        /\ employer_suffix_code[p.name_hash] = p.suffix_code
<1>1. ASSUME OInv, [Next]_vars, NEW p \in profiles' \ profiles, p.kind = "employer"
      PROVE  CurrentEmployer(p)
  <2>1. \E w \in Wallet, n \in Name, suffix \in SuffixCode \cup 0 .. 40, kind \in Participant :
           /\ MayProfile(kind, w, n, suffix)
           /\ p.kind = kind /\ p.owner = w /\ p.name_hash = n /\ p.suffix_code = suffix
    <3>1. PICK r \in Run : CreateProfile(r) \/ UpdateProfile(r)
      BY <1>1 DEF Next, vars, profileVars, PlanOnboarding, PlanUpdate, Made, RegisterName,
                  AssertLicense, AssertAnchored, Fail
    <3>2. CASE CreateProfile(r)
      <4>1. Current(r, "create_profile")
        BY <3>2 DEF CreateProfile
      <4>2. input[r] \in OnboardingInput
        BY <1>1, <4>1, PlanShape DEF OInv
      <4>3. input[r].kind \in Participant
        BY <4>2 DEF OnboardingInput
      <4>4. \E w \in Wallet, n \in Name, suffix \in SuffixCode :
               /\ MayProfile(input[r].kind, w, n, suffix)
               /\ p.kind = input[r].kind /\ p.owner = w
               /\ p.name_hash = n /\ p.suffix_code = suffix
        BY <1>1, <3>2 DEF CreateProfile, create_profile
      <4> QED
        BY <4>3, <4>4
    <3>3. CASE UpdateProfile(r)
      <4> DEFINE old == input[r].old
      <4>1. old \in Profile
        BY <1>1, <3>3, PlanShape DEF UpdateProfile, OInv, ProfilesInv, ProfilesTyped, Updates
      <4>2. /\ old.kind \in Participant /\ old.owner \in Wallet
            /\ old.name_hash \in Name /\ old.suffix_code \in 0 .. 40
        BY <4>1 DEF Profile
      <4>3. /\ MayProfile(old.kind, old.owner, old.name_hash, old.suffix_code)
            /\ p.kind = old.kind /\ p.owner = old.owner
            /\ p.name_hash = old.name_hash /\ p.suffix_code = old.suffix_code
        BY <1>1, <3>3, <4>1 DEF UpdateProfile, update_profile, Profile
      <4> QED
        BY <4>2, <4>3
    <3> QED
      BY <3>1, <3>2, <3>3
  <2>2. /\ p.name_hash \in Name /\ AssertVerified(p.owner) /\ p.suffix_code # 0
        /\ assert_employer_owner(p.name_hash, p.owner, p.suffix_code)
    BY <1>1, <2>1 DEF MayProfile
  <2> QED
    BY <1>1, <2>2 DEF AssertVerified, assert_employer_owner, OInv, IInv, NameRecordsAgree
<1>2. OInv /\ [Next]_vars =>
        [\A p \in profiles' \ profiles : p.kind = "employer" => CurrentEmployer(p)]_vars
  BY <1>1
<1> QED
  BY <1>2, OnboardingInvariance, PTL DEF Spec, EmployersAreCurrent
=============================================================================
