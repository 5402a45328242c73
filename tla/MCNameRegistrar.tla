--------------------------- MODULE MCNameRegistrar -------------------------
(***************************************************************************)
(* A small instance of NameRegistrar for TLC.                              *)
(***************************************************************************)
EXTENDS NameRegistrar, TLC

CONSTANTS t, v, w, p

Symmetry == Permutations(Name \ {NoName}) \cup Permutations({v, w})

\* Bound: the zero hash is bought as a worker name only, and the treasury has no
\* license; as an employer name it differs from no other.
ZeroForWorkers == name_kind[NoName] # KIND_EMPLOYER /\ ~is_verified[t]
=============================================================================
