------------------------------- MODULE Merkle -------------------------------
(***************************************************************************)
(* merkle.ts: roots, inclusion proofs and their verification.  A hash is   *)
(* the tuple of what was hashed, its domain first (hash.ts).               *)
(***************************************************************************)
EXTENDS Naturals, Sequences

\* What the caller proves: the source hashes no lines yet, and has a domain for
\* leaves (hash.ts).
lineHash(line) == <<"PNW::LEAF", line>>

merkleParent(left, right) == <<"PNW::MERKLE_NODE", left, right>>

\* One level up; the last node of an odd level is its own sibling.
NextLevel(level) ==
    [i \in 1 .. (Len(level) + 1) \div 2 |->
        merkleParent(level[2 * i - 1],
                     IF 2 * i <= Len(level) THEN level[2 * i] ELSE level[2 * i - 1])]

\* Levels are taken until one node is left; a list has no more levels than leaves.
Levels(ls) ==
    LET level[k \in 0 .. Len(ls)] ==
            IF k = 0 THEN ls
            ELSE IF Len(level[k - 1]) = 1 THEN level[k - 1] ELSE NextLevel(level[k - 1])
    IN  level

merkleRoot(ls) == Levels(ls)[Len(ls)][1]

\* Fault: the last node of an odd level is paired with the one before it.
SiblingOf_Clamped(idx, level) ==
    IF idx % 2 = 0 THEN level[idx - 1]
    ELSE IF idx < Len(level) THEN level[idx + 1] ELSE level[IF idx > 1 THEN idx - 1 ELSE idx]

\* Positions count from 1, so the right nodes are the even ones.
SiblingOf(idx, level) ==
    IF idx % 2 = 0 THEN level[idx - 1]
    ELSE IF idx < Len(level) THEN level[idx + 1] ELSE level[idx]

\* Fault: the side told is the node's own.
SideOf_Own(idx) == IF idx % 2 = 0 THEN "R" ELSE "L"

SideOf(idx) == IF idx % 2 = 0 THEN "L" ELSE "R"

\* One level of the walk from a leaf to the root.
WalkUp(walk) ==
    IF Len(walk.level) = 1 THEN walk
    ELSE [level |-> NextLevel(walk.level), idx |-> (walk.idx + 1) \div 2,
          proof |-> Append(walk.proof, [sibling |-> SiblingOf(walk.idx, walk.level),
                                        side |-> SideOf(walk.idx)])]

Walk(ls, index) ==
    LET walk[k \in 0 .. Len(ls)] ==
            IF k = 0 THEN [level |-> ls, idx |-> index, proof |-> <<>>] ELSE WalkUp(walk[k - 1])
    IN  walk

merkleProof(ls, index) == Walk(ls, index)[Len(ls)].proof

\* What a proof makes of a hash.
Combined(step, hash) ==
    IF step.side = "L" THEN merkleParent(step.sibling, hash) ELSE merkleParent(hash, step.sibling)

Climb(leaf, proof) ==
    LET acc[k \in 0 .. Len(proof)] == IF k = 0 THEN leaf ELSE Combined(proof[k], acc[k - 1])
    IN  acc

verifyMerkleProof(root, leaf, proof) == Climb(leaf, proof)[Len(proof)] = root
=============================================================================
