--------------------------- MODULE NameRegistrar ---------------------------
(***************************************************************************)
(* pnw_name_registrar_v5.aleo: names sold for a flat price in USDCx.  A    *)
(* registration is one transaction over three programs (license registry,  *)
(* stablecoin, name registry); their final blocks run in the order of the  *)
(* code and fail together.  The wallets act through this registrar, which  *)
(* the registry has authorized; wallets also use the ungated transitions   *)
(* of the registry.  ADMIN's direct use of the gated ones is left to       *)
(* NameRegistry.                                                           *)
(***************************************************************************)
EXTENDS NameRegistry, LicenseRegistry, UsdcxToken, FiniteSetsExt

CONSTANTS
    PRESIDING_DAO_TREASURY,   \* receives the prices and pays the refunds
    NAME_PRICE,               \* flat price of any name
    REGISTRAR,                \* this program's address
    OpeningBalance            \* what every wallet owns at first

\* An address is an element of a finite field.
ASSUME RegistrarAssumption ==
    /\ IsFiniteSet(Wallet)
    /\ PRESIDING_DAO_TREASURY \in Wallet
    /\ REGISTRAR \in Program
    /\ NAME_PRICE \in Nat /\ OpeningBalance \in Nat

VARIABLE name_plaintext    \* [Name -> BOOLEAN]: is the reverse resolver set?

registrarVars == <<registryVars, is_verified, account, name_plaintext>>

RegistrarInit ==
    /\ RegistryInit /\ LicenseInit
    /\ account = [w \in Wallet |-> OpeningBalance]
    /\ name_plaintext = [n \in Name |-> FALSE]

----------------------------------------------------------------------------
PayPrice(signer) == TransferPublic(signer, PRESIDING_DAO_TREASURY, NAME_PRICE)

SetPlaintext(n) == name_plaintext' = [name_plaintext EXCEPT ![n] = TRUE]

BuyWorkerName(signer, n) ==
    /\ PayPrice(signer)
    /\ register_worker_name(REGISTRAR, n, signer)
    /\ SetPlaintext(n)
    /\ UNCHANGED is_verified

\* The registry is told that this is the wallet's first employer name, and the
\* price a sellback will be computed from.
BuyEmployerName(signer, n, suffix) ==
    /\ is_valid_suffix(suffix)
    /\ AssertVerified(signer)
    /\ PayPrice(signer)
    /\ register_employer_name(REGISTRAR, n, suffix, 0, NAME_PRICE, signer)
    /\ SetPlaintext(n)
    /\ UNCHANGED is_verified

FulfillSellback(caller, n, seller, refund) ==
    /\ caller = PRESIDING_DAO_TREASURY
    /\ TransferPublic(caller, seller, refund)
    /\ fulfill_empl_sellback(REGISTRAR, n, seller, refund)
    /\ UNCHANGED <<is_verified, name_plaintext>>

----------------------------------------------------------------------------
\* The seller of an open sellback, as the treasury reads it off the chain.
SellbackStep(caller) ==
    \E n \in Name, seller \in Wallet :
        FulfillSellback(caller, n, seller, sellback_refund_amount[n])

RegistrarNext ==
    \/ /\ \E caller \in Caller, p \in Program : set_authorized_caller(caller, p)
       /\ UNCHANGED <<is_verified, account, name_plaintext>>
    \/ LicenseNext /\ UNCHANGED <<registryVars, account, name_plaintext>>
    \/ \E w \in Wallet, n \in Name :
          \/ BuyWorkerName(w, n)
          \/ \E suffix \in SuffixCode : BuyEmployerName(w, n, suffix)
    \/ \E w \in Wallet : SellbackStep(w)
    \/ \E w \in Wallet : OwnerStep(w) /\ UNCHANGED <<is_verified, account, name_plaintext>>

RegistrarSpec == RegistrarInit /\ [][RegistrarNext]_registrarVars

----------------------------------------------------------------------------
\* No registration and no refund creates or destroys money, whoever pays whom,
\* the treasury itself included (transfer_public_as_signer).
MoneyConserved ==
    /\ \A w \in Wallet : account[w] >= 0
    /\ MapThenSumSet(LAMBDA w : account[w], Wallet) = Cardinality(Wallet) * OpeningBalance

\* The prices the treasury took in cover every refund it has promised and every
\* refund it would owe if all employer names were sold back now, over any number
\* of sales, resales and sellbacks of the same name.
Owed(n) ==
    (IF sellback_seller[n] # PRESIDING_DAO_TREASURY THEN sellback_refund_amount[n] ELSE 0)
    + IF /\ name_kind[n] = KIND_EMPLOYER
         /\ name_owner[n] # PRESIDING_DAO_TREASURY
      THEN RefundOf(employer_base_paid[n]) ELSE 0
TreasuryCoversRefunds ==
    account[PRESIDING_DAO_TREASURY] >= OpeningBalance + MapThenSumSet(Owed, Name)

\* "Each wallet gets exactly ONE .pnw name", says the header of the registrar; what
\* its checks keep, over any number of sales and sellbacks, is one employer name
\* (the registry itself allows three) and one worker name besides the zero hash,
\* which is sold like any other but reads as no name when the next one is bought.
OneNameOfEachKind ==
    \A w \in Wallet :
        /\ Cardinality(EmployerNames(w)) <= 1
        /\ Cardinality({n \in Name \ {NoName} : name_owner[n] = w /\ name_kind[n] = KIND_WORKER}) <= 1
=============================================================================
