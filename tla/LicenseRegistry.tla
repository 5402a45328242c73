-------------------------- MODULE LicenseRegistry --------------------------
(***************************************************************************)
(* employer_license_registry.aleo: the wallets the DAO authority currently *)
(* vouches for.  license_hash_of is written beside is_verified and never   *)
(* read by any program; it is abstracted away.                             *)
(***************************************************************************)
EXTENDS Addresses

CONSTANT AUTHORITY    \* the address that may verify licenses

ASSUME AuthorityAssumption == AUTHORITY \in Wallet

VARIABLE is_verified    \* [Wallet -> BOOLEAN], FALSE when the key is absent

LicenseTypeOK == is_verified \in [Wallet -> BOOLEAN]

LicenseInit == is_verified = [w \in Wallet |-> FALSE]

\* The authority sets or withdraws the verification of a wallet.
SetVerified(caller, wallet, verified) ==
    /\ caller = AUTHORITY
    /\ is_verified' = [is_verified EXCEPT ![wallet] = verified]

\* The cross-program guard: the calling transaction reverts unless it holds.
AssertVerified(wallet) == is_verified[wallet]

LicenseNext ==
    \E caller, wallet \in Wallet, verified \in BOOLEAN :
        SetVerified(caller, wallet, verified)
=============================================================================
