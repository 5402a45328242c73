-------------------------- MODULE MCCredentialNft --------------------------
(***************************************************************************)
(* A small instance of CredentialNft, and with it of EmployerAgreement.    *)
(***************************************************************************)
EXTENDS CredentialNft, TLC

CONSTANTS e, w, d, n1, n2

\* The two names are only compared.
Symmetry == Permutations(Name)

\* Bound: the DAO is no employer.
DaoUnlicensed == ~is_verified[d]
=============================================================================
