---------------------------- MODULE MCOnboarding ----------------------------
(***************************************************************************)
(* A small instance of Onboarding for TLC.                                 *)
(***************************************************************************)
EXTENDS Onboarding, TLC

CONSTANTS w, v

\* Runs and anchors are only compared.
Symmetry == Permutations(Run) \cup Permutations(Anchor)
=============================================================================
