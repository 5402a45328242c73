----------------------------- MODULE MerkleTree -----------------------------
(***************************************************************************)
(* Inclusion proofs over a list of leaves that grows, so that a proof may  *)
(* meet a later root.                                                      *)
(***************************************************************************)
EXTENDS Merkle

CONSTANTS
    Line,                \* lines of a report
    MaxLeaves            \* bound on the list

ASSUME MerkleAssumption == MaxLeaves \in Nat

VARIABLES
    leaves,              \* the list of their hashes
    issued               \* the proof issued last: for which list, leaf and with which steps

treeVars == <<leaves, issued>>

---------------------------------------------------------------------------
(* Lists grow, proofs are issued and kept.                                 *)

NoProof == [list |-> <<>>, index |-> 0, proof |-> <<>>]

TreeInit == leaves = <<>> /\ issued = NoProof

Add(line) ==
    /\ Len(leaves) < MaxLeaves
    /\ leaves' = Append(leaves, lineHash(line))
    /\ UNCHANGED issued

Prove(index) ==
    /\ index \in DOMAIN leaves
    /\ issued' = [list |-> leaves, index |-> index, proof |-> merkleProof(leaves, index)]
    /\ UNCHANGED leaves

TreeNext ==
    \/ \E line \in Line : Add(line)
    \/ \E index \in 1 .. MaxLeaves : Prove(index)

---------------------------------------------------------------------------
(* Properties.                                                             *)

LineHash == {lineHash(line) : line \in Line}
Proven == issued.list[issued.index]

\* A proof shows its leaf under the root it was issued for, for every length
\* of list and every position, odd ends included; it shows no other leaf.
ProofsShowTheirLeaf ==
    issued # NoProof =>
        \A leaf \in LineHash :
            verifyMerkleProof(merkleRoot(issued.list), leaf, issued.proof) <=> leaf = Proven

\* A proof kept while the list grew shows nothing but its leaf at its
\* position: where it still verifies, the list still has that leaf there.
KeptProofsStayTrue ==
    issued # NoProof /\ leaves # <<>> =>
        \A leaf \in LineHash :
            verifyMerkleProof(merkleRoot(leaves), leaf, issued.proof)
              => issued.index \in DOMAIN leaves /\ leaf = leaves[issued.index]

\* A proof shows its leaf when it is issued, and nothing else at any time.
ProofsStayTrue == ProofsShowTheirLeaf /\ KeptProofsStayTrue
=============================================================================
