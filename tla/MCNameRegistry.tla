--------------------------- MODULE MCNameRegistry --------------------------
(***************************************************************************)
(* Small instances of NameRegistry for TLC.                                *)
(***************************************************************************)
EXTENDS NameRegistry, TLC

\* Names, wallets and registrars are only compared; the zero hash is one of a kind.
Symmetry == Permutations(Name \ {NoName}) \cup Permutations(Wallet) \cup Permutations(Program)
=============================================================================
