------------------------- MODULE CommitmentsProofs -------------------------
(***************************************************************************)
(* Theorems about Commitments, for any documents, inputs sets and lines,   *)
(* and lists of any length: Merkle proofs, before and after the list has   *)
(* grown, and what the hashes of documents and inputs sets bind.           *)
(***************************************************************************)
EXTENDS Commitments, FoldTheorems, SequenceTheorems

----------------------------------------------------------------------------
(* Lists, and the levels of a tree.                                        *)

Listed(s) == s \in Seq(ToSet(s))

LEMMA ListedIs ==
    ASSUME NEW n \in Nat, NEW s, s = [i \in 1 .. n |-> s[i]]
    PROVE  Listed(s) /\ Len(s) = n /\ DOMAIN s = 1 .. n
<1>1. DOMAIN s = 1 .. n
  OBVIOUS
<1>2. s \in [1 .. n -> ToSet(s)]
  BY <1>1 DEF ToSet
<1>3. s \in Seq(ToSet(s))
  BY <1>2, SeqDef
<1>4. Len(s) \in Nat /\ DOMAIN s = 1 .. Len(s)
  BY <1>3, LenProperties
<1>5. Len(s) = n
  BY <1>1, <1>4
<1> QED
  BY <1>1, <1>3, <1>5 DEF Listed

\* A level is a list of at least one node.
Level(s) == Listed(s) /\ Len(s) # 0

LEMMA LevelFacts ==
    ASSUME NEW s, Level(s)
    PROVE  /\ Len(s) \in Nat \ {0} /\ DOMAIN s = 1 .. Len(s)
           /\ s = [i \in 1 .. Len(s) |-> s[i]]
<1>1. Len(s) \in Nat /\ s \in [1 .. Len(s) -> ToSet(s)] /\ DOMAIN s = 1 .. Len(s)
  BY LenProperties DEF Level, Listed
<1> QED
  BY <1>1 DEF Level

LEMMA IsLevel ==
    ASSUME NEW n \in Nat \ {0}, NEW s, s = [i \in 1 .. n |-> s[i]]
    PROVE  Level(s) /\ Len(s) = n
BY ListedIs DEF Level

\* Half a level, the odd node rounded up, is shorter and holds each node's parent.
LEMMA Halves ==
    ASSUME NEW n \in Nat \ {0, 1}
    PROVE  /\ (n + 1) \div 2 \in Nat \ {0} /\ (n + 1) \div 2 <= n - 1
           /\ \A i \in 1 .. n : (i + 1) \div 2 \in 1 .. (n + 1) \div 2
           /\ \A i \in 1 .. (n + 1) \div 2 : 2 * i - 1 \in 1 .. n /\ 2 * i \in Nat
OBVIOUS

LEMMA NextLevelIs ==
    ASSUME NEW s, Level(s), Len(s) # 1
    PROVE  /\ Level(NextLevel(s)) /\ Len(NextLevel(s)) = (Len(s) + 1) \div 2
           /\ Len(NextLevel(s)) <= Len(s) - 1
<1> DEFINE m == (Len(s) + 1) \div 2
<1>1. Len(s) \in Nat \ {0, 1}
  BY LevelFacts
<1>2. m \in Nat \ {0} /\ m <= Len(s) - 1
  BY <1>1, Halves
<1>3. NextLevel(s) = [i \in 1 .. m |-> NextLevel(s)[i]]
  BY DEF NextLevel
<1> HIDE DEF m
<1>4. Level(NextLevel(s)) /\ Len(NextLevel(s)) = m
  BY <1>2, <1>3, IsLevel
<1> QED
  BY <1>2, <1>4 DEF m

\* What Levels says of its next entry.
OneUp(level) == IF Len(level) = 1 THEN level ELSE NextLevel(level)

LEMMA LevelsStep ==
    ASSUME NEW ls, Level(ls)
    PROVE  /\ Levels(ls)[0] = ls
           /\ \A k \in 1 .. Len(ls) : Levels(ls)[k] = OneUp(Levels(ls)[k - 1])
<1> DEFINE n == Len(ls)
           Is(f, m) == f = [k \in 0 .. m |-> IF k = 0 THEN ls ELSE OneUp(f[k - 1])]
           Good == {k \in 0 .. n : \E f : Is(f, k)}
<1>0. n \in Nat
  BY LevelFacts
<1>1. 0 \in Good
  <2> DEFINE f == [k \in 0 .. 0 |-> ls]
  <2>1. Is(f, 0)
    OBVIOUS
  <2> HIDE DEF Is, f
  <2> QED
    BY <1>0, <2>1
<1>2. ASSUME NEW k \in 1 .. n, k - 1 \in Good PROVE k \in Good
  <2>1. PICK g : Is(g, k - 1)
    BY <1>2
  <2> DEFINE f == [j \in 0 .. k |-> IF j = k THEN OneUp(g[k - 1]) ELSE g[j]]
  <2>2. \A j \in 0 .. k : f[j] = IF j = 0 THEN ls ELSE OneUp(f[j - 1])
    <3> SUFFICES ASSUME NEW j \in 0 .. k PROVE f[j] = IF j = 0 THEN ls ELSE OneUp(f[j - 1])
      OBVIOUS
    <3>0. n \in Nat /\ k \in Nat
      BY <1>0
    <3>1. CASE j = k
      <4>1. f[j] = OneUp(g[k - 1]) /\ f[k - 1] = g[k - 1] /\ j # 0
        BY <3>0, <3>1
      <4> QED
        BY <3>1, <4>1
    <3>2. CASE j # k
      <4>1. j \in 0 .. k - 1 /\ f[j] = g[j]
        BY <3>0, <3>2
      <4>2. j # 0 => f[j - 1] = g[j - 1]
        BY <3>0, <3>2
      <4>3. g[j] = IF j = 0 THEN ls ELSE OneUp(g[j - 1])
        BY <2>1, <4>1
      <4> QED
        BY <4>1, <4>2, <4>3
    <3> QED
      BY <3>1, <3>2
  <2>3. Is(f, k)
    BY <2>2
  <2> HIDE DEF Is, f
  <2> QED
    BY <2>3
<1>3. n \in Good
  <2> HIDE DEF Good, n
  <2>1. \A k \in 0 .. n : k \in Good
    BY <1>0, <1>1, <1>2, UpTo
  <2> QED
    BY <1>0, <2>1
<1>4. Levels(ls) = CHOOSE f : Is(f, n)
  BY DEF Levels, OneUp
<1>5. Is(Levels(ls), n)
  <2>1. \E f : Is(f, n)
    BY <1>3
  <2> HIDE DEF Is
  <2> QED
    BY <1>4, <2>1
<1> QED
  BY <1>0, <1>5

\* The levels shrink until one node is left.
LEMMA LevelsAre ==
    ASSUME NEW ls, Level(ls)
    PROVE  \A k \in 0 .. Len(ls) :
              /\ Level(Levels(ls)[k])
              /\ Len(Levels(ls)[k]) = 1 \/ Len(Levels(ls)[k]) <= Len(ls) - k
<1> DEFINE n == Len(ls)
           L(k) == Levels(ls)[k]
           Good == {k \in 0 .. n : Level(L(k)) /\ (Len(L(k)) = 1 \/ Len(L(k)) <= n - k)}
<1>0. n \in Nat
  BY LevelFacts
<1>1. 0 \in Good
  BY <1>0, LevelsStep
<1>2. ASSUME NEW k \in 1 .. n, k - 1 \in Good PROVE k \in Good
  <2>1. L(k) = OneUp(L(k - 1)) /\ Level(L(k - 1))
    BY <1>2, LevelsStep
  <2>2. Len(L(k - 1)) = 1 \/ Len(L(k - 1)) <= n - (k - 1)
    BY <1>2
  <2> HIDE DEF L
  <2>3. CASE Len(L(k - 1)) = 1
    BY <2>1, <2>3 DEF OneUp
  <2>4. CASE Len(L(k - 1)) # 1
    <3>1. L(k) = NextLevel(L(k - 1))
      BY <2>1, <2>4 DEF OneUp
    <3>2. Level(L(k)) /\ Len(L(k)) <= Len(L(k - 1)) - 1
      BY <2>1, <2>4, <3>1, NextLevelIs
    <3>3. Len(L(k)) \in Nat /\ Len(L(k - 1)) \in Nat
      BY <2>1, <3>2, LevelFacts
    <3>4. Len(L(k)) <= n - k
      <4> HIDE DEF n
      <4> QED
        BY <1>0, <2>2, <2>4, <3>2, <3>3
    <3> QED
      BY <3>2, <3>4
  <2> QED
    BY <2>3, <2>4
<1> HIDE DEF Good
<1>3. \A k \in 0 .. n : k \in Good
  BY <1>0, <1>1, <1>2, UpTo
<1> QED
  BY <1>3 DEF Good

\* The depth of a tree: the first level of one node.
Deep(ls, d) ==
    /\ d \in 0 .. Len(ls) /\ Len(Levels(ls)[d]) = 1
    /\ \A j \in 0 .. d - 1 : Len(Levels(ls)[j]) # 1

LEMMA DepthExists ==
    ASSUME NEW ls, Level(ls)
    PROVE  \E d : Deep(ls, d)
<1> DEFINE n == Len(ls)
           Many(k) == Len(Levels(ls)[k]) # 1
           Good == {k \in 0 .. n : \A j \in 0 .. k : Many(j)}
<1>0. n \in Nat
  BY LevelFacts
<1> SUFFICES ASSUME \A d : ~ Deep(ls, d) PROVE FALSE
  OBVIOUS
<1>1. 0 \in Good
  <2>1. ~ Deep(ls, 0)
    OBVIOUS
  <2>2. Many(0)
    BY <1>0, <2>1 DEF Deep
  <2> HIDE DEF Many
  <2> QED
    BY <1>0, <2>2
<1>2. ASSUME NEW k \in 1 .. n, k - 1 \in Good PROVE k \in Good
  <2>1. \A j \in 0 .. k - 1 : Many(j)
    BY <1>2
  <2>2. Many(k)
    <3>1. ~ Deep(ls, k)
      OBVIOUS
    <3> QED
      BY <1>0, <2>1, <3>1 DEF Deep
  <2> HIDE DEF Many
  <2> QED
    BY <1>0, <2>1, <2>2
<1>3. \A k \in 0 .. n : k \in Good
  <2> HIDE DEF Good
  <2> QED
    BY <1>0, <1>1, <1>2, UpTo
<1>4. Many(n)
  <2> HIDE DEF Many
  <2> QED
    BY <1>0, <1>3
<1>5. Level(Levels(ls)[n]) /\ Len(Levels(ls)[n]) <= n - n
  BY <1>0, <1>4, LevelsAre
<1>6. Len(Levels(ls)[n]) \in Nat \ {0}
  BY <1>5, LevelFacts
<1> QED
  BY <1>0, <1>5, <1>6

\* Below its depth a tree has a next level; from there on nothing changes.
LEMMA BelowDepth ==
    ASSUME NEW ls, Level(ls), NEW d, Deep(ls, d), NEW k \in 1 .. d
    PROVE  /\ Level(Levels(ls)[k - 1]) /\ Len(Levels(ls)[k - 1]) # 1
           /\ Levels(ls)[k] = NextLevel(Levels(ls)[k - 1])
<1>1. Len(ls) \in Nat /\ d \in 0 .. Len(ls)
  BY LevelFacts DEF Deep
<1>2. k \in 1 .. Len(ls) /\ k - 1 \in 0 .. Len(ls) /\ k - 1 \in 0 .. d - 1
  BY <1>1
<1> QED
  BY <1>2, LevelsAre, LevelsStep DEF Deep, OneUp

LEMMA Settled ==
    ASSUME NEW ls, Level(ls), NEW d, Deep(ls, d)
    PROVE  /\ merkleRoot(ls) = Levels(ls)[d][1]
           /\ \A k \in d .. Len(ls) : Len(Levels(ls)[k]) = 1
<1> DEFINE n == Len(ls)
           Good == {k \in 0 .. n : k >= d => Levels(ls)[k] = Levels(ls)[d]}
<1>1. n \in Nat /\ d \in 0 .. n /\ Len(Levels(ls)[d]) = 1
  BY LevelFacts DEF Deep
<1>2. 0 \in Good
  BY <1>1
<1>3. ASSUME NEW k \in 1 .. n, k - 1 \in Good PROVE k \in Good
  <2>1. k - 1 >= d => Levels(ls)[k - 1] = Levels(ls)[d]
    BY <1>3
  <2>2. Levels(ls)[k] = OneUp(Levels(ls)[k - 1])
    BY LevelsStep
  <2>3. CASE k - 1 >= d
    BY <1>1, <2>1, <2>2, <2>3 DEF OneUp
  <2>4. CASE ~ (k - 1 >= d)
    BY <1>1, <2>4
  <2> QED
    BY <2>3, <2>4
<1>4. \A k \in 0 .. n : k \in Good
  <2> HIDE DEF Good
  <2> QED
    BY <1>1, <1>2, <1>3, UpTo
<1>5. Levels(ls)[n] = Levels(ls)[d]
  BY <1>1, <1>4
<1> QED
  BY <1>1, <1>4, <1>5 DEF merkleRoot

----------------------------------------------------------------------------
(* The walk from a leaf to the root, and the climb of a proof.             *)

Start(ls, index) == [level |-> ls, idx |-> index, proof |-> <<>>]

LEMMA WalkStep ==
    ASSUME NEW ls, Level(ls), NEW index
    PROVE  /\ Walk(ls, index)[0] = Start(ls, index)
           /\ \A k \in 1 .. Len(ls) : Walk(ls, index)[k] = WalkUp(Walk(ls, index)[k - 1])
<1> DEFINE n == Len(ls)
           Is(f, m) == f = [k \in 0 .. m |-> IF k = 0 THEN Start(ls, index)
                                             ELSE WalkUp(f[k - 1])]
           Good == {k \in 0 .. n : \E f : Is(f, k)}
<1>0. n \in Nat
  BY LevelFacts
<1>1. 0 \in Good
  <2> DEFINE f == [k \in 0 .. 0 |-> Start(ls, index)]
  <2>1. Is(f, 0)
    OBVIOUS
  <2> HIDE DEF Is, f
  <2> QED
    BY <1>0, <2>1
<1>2. ASSUME NEW k \in 1 .. n, k - 1 \in Good PROVE k \in Good
  <2>1. PICK g : Is(g, k - 1)
    BY <1>2
  <2> DEFINE f == [j \in 0 .. k |-> IF j = k THEN WalkUp(g[k - 1]) ELSE g[j]]
  <2>2. \A j \in 0 .. k : f[j] = IF j = 0 THEN Start(ls, index) ELSE WalkUp(f[j - 1])
    <3> SUFFICES ASSUME NEW j \in 0 .. k
                 PROVE  f[j] = IF j = 0 THEN Start(ls, index) ELSE WalkUp(f[j - 1])
      OBVIOUS
    <3>0. n \in Nat /\ k \in Nat
      BY <1>0
    <3>1. CASE j = k
      <4>1. f[j] = WalkUp(g[k - 1]) /\ f[k - 1] = g[k - 1] /\ j # 0
        BY <3>0, <3>1
      <4> QED
        BY <3>1, <4>1
    <3>2. CASE j # k
      <4>1. j \in 0 .. k - 1 /\ f[j] = g[j]
        BY <3>0, <3>2
      <4>2. j # 0 => f[j - 1] = g[j - 1]
        BY <3>0, <3>2
      <4>3. g[j] = IF j = 0 THEN Start(ls, index) ELSE WalkUp(g[j - 1])
        BY <2>1, <4>1
      <4> QED
        BY <4>1, <4>2, <4>3
    <3> QED
      BY <3>1, <3>2
  <2>3. Is(f, k)
    BY <2>2
  <2> HIDE DEF Is, f
  <2> QED
    BY <2>3
<1>3. n \in Good
  <2> HIDE DEF Good, n
  <2>1. \A k \in 0 .. n : k \in Good
    BY <1>0, <1>1, <1>2, UpTo
  <2> QED
    BY <1>0, <2>1
<1>4. Walk(ls, index) = CHOOSE f : Is(f, n)
  BY DEF Walk, Start
<1>5. Is(Walk(ls, index), n)
  <2>1. \E f : Is(f, n)
    BY <1>3
  <2> HIDE DEF Is
  <2> QED
    BY <1>4, <2>1
<1> QED
  BY <1>0, <1>5

\* The same for the climb; seq is the proof.
LEMMA ClimbStep ==
    ASSUME NEW leaf, NEW seq, Len(seq) \in Nat
    PROVE  /\ Climb(leaf, seq)[0] = leaf
           /\ \A k \in 1 .. Len(seq) :
                 Climb(leaf, seq)[k] = Combined(seq[k], Climb(leaf, seq)[k - 1])
<1> DEFINE n == Len(seq)
           Is(f, m) == f = [k \in 0 .. m |-> IF k = 0 THEN leaf
                                             ELSE Combined(seq[k], f[k - 1])]
           Good == {k \in 0 .. n : \E f : Is(f, k)}
<1>1. 0 \in Good
  <2> DEFINE f == [k \in 0 .. 0 |-> leaf]
  <2>1. Is(f, 0)
    OBVIOUS
  <2> HIDE DEF Is, f
  <2> QED
    BY <2>1
<1>2. ASSUME NEW k \in 1 .. n, k - 1 \in Good PROVE k \in Good
  <2>1. PICK g : Is(g, k - 1)
    BY <1>2
  <2> DEFINE f == [j \in 0 .. k |-> IF j = k THEN Combined(seq[k], g[k - 1]) ELSE g[j]]
  <2>2. \A j \in 0 .. k : f[j] = IF j = 0 THEN leaf ELSE Combined(seq[j], f[j - 1])
    <3> SUFFICES ASSUME NEW j \in 0 .. k
                 PROVE  f[j] = IF j = 0 THEN leaf ELSE Combined(seq[j], f[j - 1])
      OBVIOUS
    <3>1. CASE j = k
      <4>1. f[j] = Combined(seq[k], g[k - 1]) /\ f[k - 1] = g[k - 1] /\ j # 0
        BY <3>1
      <4> QED
        BY <3>1, <4>1
    <3>2. CASE j # k
      <4>1. j \in 0 .. k - 1 /\ f[j] = g[j]
        BY <3>2
      <4>2. j # 0 => f[j - 1] = g[j - 1]
        BY <3>2
      <4>3. g[j] = IF j = 0 THEN leaf ELSE Combined(seq[j], g[j - 1])
        BY <2>1, <4>1
      <4> QED
        BY <4>1, <4>2, <4>3
    <3> QED
      BY <3>1, <3>2
  <2>3. Is(f, k)
    BY <2>2
  <2> HIDE DEF Is, f
  <2> QED
    BY <2>3
<1>3. n \in Good
  <2> HIDE DEF Good
  <2>1. \A k \in 0 .. n : k \in Good
    BY <1>1, <1>2, UpTo
  <2> QED
    BY <2>1
<1>4. Climb(leaf, seq) = CHOOSE f : Is(f, n)
  BY DEF Climb
<1>5. Is(Climb(leaf, seq), n)
  <2>1. \E f : Is(f, n)
    BY <1>3
  <2> HIDE DEF Is
  <2> QED
    BY <1>4, <2>1
<1> QED
  BY <1>5

\* A list with one element more.
LEMMA AppendIs ==
    ASSUME NEW s, Listed(s), NEW e
    PROVE  /\ Listed(Append(s, e)) /\ Len(Append(s, e)) = Len(s) + 1
           /\ \A j \in 1 .. Len(s) : Append(s, e)[j] = s[j]
           /\ Append(s, e)[Len(s) + 1] = e
<1> DEFINE S == ToSet(s) \cup {e}
           t == Append(s, e)
<1>1. s \in Seq(S) /\ Len(s) \in Nat
  <2>1. ToSet(s) \subseteq S
    OBVIOUS
  <2> HIDE DEF S
  <2> QED
    BY <2>1, SeqMonotonic, LenProperties DEF Listed
<1>2. e \in S
  OBVIOUS
<1> HIDE DEF S
<1>3. /\ t \in Seq(S) /\ Len(t) = Len(s) + 1
      /\ \A j \in 1 .. Len(s) : t[j] = s[j]
      /\ t[Len(s) + 1] = e
  BY <1>1, <1>2, AppendProperties
<1>4. t \in Seq(ToSet(t))
  <2>1. DOMAIN t = 1 .. Len(t) /\ Len(t) \in Nat /\ t \in [1 .. Len(t) -> S]
    BY <1>3, LenProperties
  <2>2. t \in [1 .. Len(t) -> ToSet(t)]
    <3> HIDE DEF t
    <3> QED
      BY <2>1 DEF ToSet
  <2> HIDE DEF t
  <2> QED
    BY <2>1, <2>2, SeqDef
<1> QED
  BY <1>3, <1>4 DEF Listed

\* The step of a proof at one level.
StepOf(walk) == [sibling |-> SiblingOf(walk.idx, walk.level), side |-> SideOf(walk.idx)]

\* Up to the depth the walk is at its level, at a position of it, and has one step of the
\* proof for each level it has left.
WalkAt(ls, index, k) ==
    LET walk == Walk(ls, index) IN
    /\ walk[k].level = Levels(ls)[k] /\ walk[k].idx \in 1 .. Len(Levels(ls)[k])
    /\ Listed(walk[k].proof) /\ Len(walk[k].proof) = k
    /\ \A j \in 1 .. k : walk[k].proof[j] = StepOf(walk[j - 1])

LEMMA WalkIs ==
    ASSUME NEW ls, Level(ls), NEW d, Deep(ls, d), NEW index \in 1 .. Len(ls)
    PROVE  \A k \in 0 .. d : WalkAt(ls, index, k)
<1> DEFINE W(k) == Walk(ls, index)[k]
           L(k) == Levels(ls)[k]
           Good == {k \in 0 .. d : WalkAt(ls, index, k)}
<1>0. d \in Nat /\ Len(ls) \in Nat /\ d <= Len(ls)
  BY LevelFacts DEF Deep
<1>1. 0 \in Good
  <2>1. W(0) = Start(ls, index) /\ L(0) = ls
    BY WalkStep, LevelsStep
  <2>2. W(0).level = ls /\ W(0).idx = index /\ W(0).proof = <<>>
    BY <2>1 DEF Start
  <2>3. Listed(<<>>) /\ Len(<<>>) = 0
    BY EmptySeq DEF Listed
  <2> HIDE DEF W, L
  <2>4. WalkAt(ls, index, 0)
    BY <2>1, <2>2, <2>3 DEF WalkAt, W, L
  <2> QED
    BY <1>0, <2>4
<1>2. ASSUME NEW k \in 1 .. d, k - 1 \in Good PROVE k \in Good
  <2>0. k \in 1 .. Len(ls) /\ k - 1 \in Nat
    BY <1>0
  <2>1. /\ W(k - 1).level = L(k - 1) /\ W(k - 1).idx \in 1 .. Len(L(k - 1))
        /\ Listed(W(k - 1).proof) /\ Len(W(k - 1).proof) = k - 1
        /\ \A j \in 1 .. k - 1 : W(k - 1).proof[j] = StepOf(W(j - 1))
    BY <1>2 DEF WalkAt
  <2>2. Level(L(k - 1)) /\ Len(L(k - 1)) # 1 /\ L(k) = NextLevel(L(k - 1))
    BY BelowDepth
  <2>3. W(k) = WalkUp(W(k - 1))
    BY <2>0, WalkStep
  <2> HIDE DEF W, L
  <2>4. /\ W(k).level = L(k) /\ W(k).idx = (W(k - 1).idx + 1) \div 2
        /\ W(k).proof = Append(W(k - 1).proof, StepOf(W(k - 1)))
    BY <2>1, <2>2, <2>3 DEF WalkUp, StepOf
  <2>5. W(k).idx \in 1 .. Len(L(k))
    <3>1. Len(L(k - 1)) \in Nat \ {0, 1} /\ Len(L(k)) = (Len(L(k - 1)) + 1) \div 2
      BY <2>2, LevelFacts, NextLevelIs
    <3> QED
      BY <2>1, <2>4, <3>1, Halves
  <2>6. /\ Listed(W(k).proof) /\ Len(W(k).proof) = k
        /\ \A j \in 1 .. k - 1 : W(k).proof[j] = W(k - 1).proof[j]
        /\ W(k).proof[k] = StepOf(W(k - 1))
    <3>1. /\ Listed(W(k).proof) /\ Len(W(k).proof) = Len(W(k - 1).proof) + 1
          /\ \A j \in 1 .. Len(W(k - 1).proof) : W(k).proof[j] = W(k - 1).proof[j]
          /\ W(k).proof[Len(W(k - 1).proof) + 1] = StepOf(W(k - 1))
      BY <2>1, <2>4, AppendIs
    <3>2. (k - 1) + 1 = k
      BY <2>0
    <3> QED
      BY <2>1, <3>1, <3>2
  <2>7. \A j \in 1 .. k : W(k).proof[j] = StepOf(W(j - 1))
    <3> SUFFICES ASSUME NEW j \in 1 .. k PROVE W(k).proof[j] = StepOf(W(j - 1))
      OBVIOUS
    <3>1. CASE j = k
      BY <2>6, <3>1
    <3>2. CASE j # k
      <4>1. j \in 1 .. k - 1
        BY <2>0, <3>2
      <4> QED
        BY <2>1, <2>6, <4>1
    <3> QED
      BY <3>1, <3>2
  <2>8. WalkAt(ls, index, k)
    BY <2>4, <2>5, <2>6, <2>7 DEF WalkAt, W, L
  <2> QED
    BY <1>0, <2>8
<1> HIDE DEF Good
<1>3. \A k \in 0 .. d : k \in Good
  BY <1>0, <1>1, <1>2, UpTo
<1> QED
  BY <1>3 DEF Good

\* The position goes up by halves, and the proof is the one the walk has at the depth.
LEMMA WalkGoesUp ==
    ASSUME NEW ls, Level(ls), NEW d, Deep(ls, d), NEW index \in 1 .. Len(ls)
    PROVE  /\ Walk(ls, index)[0].idx = index
           /\ \A k \in 1 .. d : Walk(ls, index)[k].idx = (Walk(ls, index)[k - 1].idx + 1) \div 2
           /\ merkleProof(ls, index) = Walk(ls, index)[d].proof
<1> DEFINE W(k) == Walk(ls, index)[k]
           n == Len(ls)
           Good == {k \in 0 .. n : k >= d => W(k) = W(d)}
<1>0. n \in Nat /\ d \in 0 .. n
  BY LevelFacts DEF Deep
<1>1. W(0).idx = index
  <2>1. W(0) = Start(ls, index)
    BY WalkStep
  <2>2. Start(ls, index).idx = index
    BY DEF Start
  <2> QED
    BY <2>1, <2>2
<1>2. ASSUME NEW k \in 1 .. d PROVE W(k).idx = (W(k - 1).idx + 1) \div 2
  <2>1. k - 1 \in 0 .. d /\ k \in 1 .. n
    BY <1>0
  <2>2. W(k - 1).level = Levels(ls)[k - 1] /\ Len(Levels(ls)[k - 1]) # 1
    BY <2>1, WalkIs, BelowDepth DEF WalkAt
  <2>3. W(k) = WalkUp(W(k - 1))
    BY <2>1, WalkStep
  <2> HIDE DEF W
  <2> QED
    BY <2>2, <2>3 DEF WalkUp
<1>3. 0 \in Good
  BY <1>0
<1>4. ASSUME NEW k \in 1 .. n, k - 1 \in Good PROVE k \in Good
  <2>1. k - 1 >= d => W(k - 1) = W(d)
    BY <1>4
  <2>2. W(k) = WalkUp(W(k - 1))
    BY WalkStep
  <2>3. W(d).level = Levels(ls)[d] /\ Len(Levels(ls)[d]) = 1
    BY <1>0, WalkIs DEF WalkAt, Deep
  <2> HIDE DEF W
  <2>4. CASE k - 1 >= d
    BY <1>0, <2>1, <2>2, <2>3, <2>4 DEF WalkUp
  <2>5. CASE ~ (k - 1 >= d)
    BY <1>0, <2>5
  <2> QED
    BY <2>4, <2>5
<1>5. W(n) = W(d)
  <2>1. \A k \in 0 .. n : k \in Good
    <3> HIDE DEF Good
    <3> QED
      BY <1>0, <1>3, <1>4, UpTo
  <2> HIDE DEF W
  <2> QED
    BY <1>0, <2>1
<1> QED
  BY <1>1, <1>2, <1>5 DEF merkleProof

LEMMA ParentsDiffer ==
    ASSUME NEW a, NEW b, NEW c, NEW e
    PROVE  /\ merkleParent(a, b) = merkleParent(c, e) <=> a = c /\ b = e
           /\ \A line : merkleParent(a, b) # lineHash(line)
BY DEF merkleParent, lineHash

\* One step of a climb reaches the parent of a node from that node, and from no other hash.
LEMMA StepReaches ==
    ASSUME NEW walk, Level(walk.level), Len(walk.level) # 1, walk.idx \in 1 .. Len(walk.level),
           NEW hash
    PROVE  Combined(StepOf(walk), hash) = NextLevel(walk.level)[(walk.idx + 1) \div 2]
              <=> hash = walk.level[walk.idx]
<1> DEFINE s == walk.level
           i == walk.idx
           q == (i + 1) \div 2
           n == Len(s)
<1>1. n \in Nat \ {0, 1} /\ i \in 1 .. n
  BY LevelFacts
<1>2. q \in 1 .. (n + 1) \div 2
  BY <1>1, Halves
<1>3. NextLevel(s)[q] = merkleParent(s[2 * q - 1], IF 2 * q <= n THEN s[2 * q] ELSE s[2 * q - 1])
  BY <1>2 DEF NextLevel
<1>4. Combined(StepOf(walk), hash) =
         IF SideOf(i) = "L" THEN merkleParent(SiblingOf(i, s), hash)
         ELSE merkleParent(hash, SiblingOf(i, s))
  BY DEF Combined, StepOf
<1> HIDE DEF s, i, n
<1>5. CASE i % 2 = 0
  <2>1. 2 * q = i /\ 2 * q - 1 = i - 1 /\ i <= n
    BY <1>1, <1>5
  <2>2. NextLevel(s)[q] = merkleParent(s[i - 1], s[i])
    BY <1>3, <2>1
  <2>3. Combined(StepOf(walk), hash) = merkleParent(s[i - 1], hash)
    BY <1>4, <1>5 DEF SideOf, SiblingOf
  <2> QED
    BY <2>2, <2>3, ParentsDiffer DEF s, i
<1>6. CASE i % 2 # 0
  <2>1. 2 * q = i + 1 /\ 2 * q - 1 = i
    BY <1>1, <1>6
  <2>2. NextLevel(s)[q] = merkleParent(s[i], IF i < n THEN s[i + 1] ELSE s[i])
    <3>1. i + 1 <= n <=> i < n
      BY <1>1
    <3> QED
      BY <1>3, <2>1, <3>1
  <2>3. Combined(StepOf(walk), hash) = merkleParent(hash, IF i < n THEN s[i + 1] ELSE s[i])
    BY <1>4, <1>6 DEF SideOf, SiblingOf, n
  <2> QED
    BY <2>2, <2>3, ParentsDiffer DEF s, i
<1> QED
  BY <1>5, <1>6

\* In a level of another list a step reaches a parent from one of its two nodes, and at
\* the step's own position from the node there.
LEMMA StepReachesElsewhere ==
    ASSUME NEW walk, NEW m, Level(m), Len(m) # 1, NEW q \in 1 .. Len(NextLevel(m)), NEW hash,
           Combined(StepOf(walk), hash) = NextLevel(m)[q]
    PROVE  /\ hash \in ToSet(m)
           /\ walk.idx \in 1 .. Len(m) /\ q = (walk.idx + 1) \div 2 => hash = m[walk.idx]
<1> DEFINE i == walk.idx
           n == Len(m)
           right == IF 2 * q <= n THEN m[2 * q] ELSE m[2 * q - 1]
<1>1. n \in Nat \ {0, 1} /\ Len(NextLevel(m)) = (n + 1) \div 2 /\ DOMAIN m = 1 .. n
  BY LevelFacts, NextLevelIs
<1>2. 2 * q - 1 \in 1 .. n /\ 2 * q \in Nat /\ (2 * q <= n => 2 * q \in 1 .. n)
  BY <1>1, Halves
<1>3. NextLevel(m)[q] = merkleParent(m[2 * q - 1], right)
  BY <1>1 DEF NextLevel
<1>4. Combined(StepOf(walk), hash) =
         IF SideOf(i) = "L" THEN merkleParent(SiblingOf(i, walk.level), hash)
         ELSE merkleParent(hash, SiblingOf(i, walk.level))
  BY DEF Combined, StepOf
<1>5. IF SideOf(i) = "L" THEN hash = right ELSE hash = m[2 * q - 1]
  <2> HIDE DEF right, i
  <2> QED
    BY <1>3, <1>4, ParentsDiffer
<1>6. hash \in ToSet(m)
  <2>1. m[2 * q - 1] \in ToSet(m) /\ right \in ToSet(m)
    BY <1>1, <1>2 DEF ToSet
  <2> HIDE DEF right, i
  <2> QED
    BY <1>5, <2>1
<1>7. ASSUME i \in 1 .. n, q = (i + 1) \div 2 PROVE hash = m[i]
  <2> HIDE DEF i, n
  <2>1. CASE i % 2 = 0
    <3>1. 2 * q = i /\ i <= n
      BY <1>1, <1>7, <2>1
    <3>2. right = m[i]
      BY <3>1
    <3> QED
      BY <1>5, <2>1, <3>2 DEF SideOf
  <2>2. CASE i % 2 # 0
    <3>1. 2 * q - 1 = i
      BY <1>1, <1>7, <2>2
    <3> QED
      BY <1>5, <2>2, <3>1 DEF SideOf
  <2> QED
    BY <2>1, <2>2
<1> QED
  BY <1>6, <1>7

----------------------------------------------------------------------------
(* What a proof shows.                                                     *)

\* Under the root of its own list a proof shows its leaf and no other.
LEMMA ProofShows ==
    ASSUME NEW ls, Level(ls), NEW index \in 1 .. Len(ls), NEW leaf
    PROVE  verifyMerkleProof(merkleRoot(ls), leaf, merkleProof(ls, index)) <=> leaf = ls[index]
<1>1. PICK d : Deep(ls, d)
  BY DepthExists
<1> DEFINE p == merkleProof(ls, index)
           W(k) == Walk(ls, index)[k]
           L(k) == Levels(ls)[k]
           C(k) == Climb(leaf, p)[k]
           Good == {k \in 0 .. d : C(k) = L(k)[W(k).idx] <=> leaf = ls[index]}
<1>2. d \in Nat /\ p = W(d).proof /\ W(0).idx = index
  BY <1>1, LevelFacts, WalkGoesUp DEF Deep
<1>3. Len(p) = d /\ \A j \in 1 .. d : p[j] = StepOf(W(j - 1))
  BY <1>1, <1>2, WalkIs DEF WalkAt
<1>4. C(0) = leaf /\ \A k \in 1 .. d : C(k) = Combined(p[k], C(k - 1))
  <2>1. Len(p) \in Nat
    BY <1>2, <1>3
  <2> HIDE DEF p
  <2>2. C(0) = leaf /\ \A k \in 1 .. Len(p) : C(k) = Combined(p[k], C(k - 1))
    BY <2>1, ClimbStep
  <2> HIDE DEF C
  <2> QED
    BY <1>3, <2>2
<1>5. 0 \in Good
  <2>1. L(0) = ls
    BY LevelsStep
  <2> HIDE DEF W, L, C
  <2> QED
    BY <1>2, <1>4, <2>1
<1>6. ASSUME NEW k \in 1 .. d, k - 1 \in Good PROVE k \in Good
  <2>0. k - 1 \in 0 .. d
    BY <1>2
  <2>1. W(k - 1).level = L(k - 1) /\ W(k - 1).idx \in 1 .. Len(L(k - 1))
    BY <1>1, <2>0, WalkIs DEF WalkAt
  <2>2. Level(L(k - 1)) /\ Len(L(k - 1)) # 1 /\ L(k) = NextLevel(L(k - 1))
    BY <1>1, BelowDepth
  <2>3. W(k).idx = (W(k - 1).idx + 1) \div 2
    BY <1>1, WalkGoesUp
  <2>4. C(k) = Combined(StepOf(W(k - 1)), C(k - 1))
    BY <1>3, <1>4
  <2>5. C(k - 1) = L(k - 1)[W(k - 1).idx] <=> leaf = ls[index]
    BY <1>6
  <2> HIDE DEF W, L, C
  <2>6. C(k) = L(k)[W(k).idx] <=> C(k - 1) = L(k - 1)[W(k - 1).idx]
    BY <2>1, <2>2, <2>3, <2>4, StepReaches
  <2> QED
    BY <2>5, <2>6
<1>7. d \in Good
  <2>1. \A k \in 0 .. d : k \in Good
    <3> HIDE DEF Good
    <3> QED
      BY <1>2, <1>5, <1>6, UpTo
  <2> HIDE DEF Good
  <2> QED
    BY <1>2, <2>1
<1>8. merkleRoot(ls) = L(d)[1] /\ W(d).idx = 1
  <2>0. d \in 0 .. d
    BY <1>2
  <2>1. Len(L(d)) = 1 /\ W(d).idx \in 1 .. Len(L(d))
    BY <1>1, <2>0, WalkIs DEF WalkAt, Deep
  <2>2. merkleRoot(ls) = L(d)[1]
    BY <1>1, Settled
  <2> HIDE DEF W, L
  <2> QED
    BY <2>1, <2>2
<1>9. verifyMerkleProof(merkleRoot(ls), leaf, p) <=> C(d) = merkleRoot(ls)
  BY <1>3 DEF verifyMerkleProof
<1> HIDE DEF W, L, C, p
<1>10. C(d) = L(d)[W(d).idx] <=> leaf = ls[index]
  BY <1>7
<1>11. C(d) = merkleRoot(ls) <=> leaf = ls[index]
  BY <1>8, <1>10
<1> QED
  BY <1>9, <1>11 DEF p

\* A longer list has longer levels, and is no less deep.
LEMMA LongerLevels ==
    ASSUME NEW ls, Level(ls), NEW ms, Level(ms), Len(ls) <= Len(ms)
    PROVE  \A k \in 0 .. Len(ls) : Len(Levels(ls)[k]) <= Len(Levels(ms)[k])
<1> DEFINE n == Len(ls)
           L(k) == Levels(ls)[k]
           M(k) == Levels(ms)[k]
           Good == {k \in 0 .. n : Len(L(k)) <= Len(M(k))}
<1>0. n \in Nat /\ Len(ms) \in Nat /\ n <= Len(ms)
  BY LevelFacts
<1>1. 0 \in Good
  BY <1>0, LevelsStep
<1>2. ASSUME NEW k \in 1 .. n, k - 1 \in Good PROVE k \in Good
  <2>0. k \in 1 .. Len(ms) /\ k - 1 \in 0 .. n /\ k - 1 \in 0 .. Len(ms) /\ k \in 0 .. Len(ms)
    BY <1>0
  <2>1. Len(L(k - 1)) <= Len(M(k - 1))
    BY <1>2
  <2>2. L(k) = OneUp(L(k - 1)) /\ M(k) = OneUp(M(k - 1))
    BY <2>0, LevelsStep
  <2>3. Level(L(k - 1)) /\ Level(M(k - 1)) /\ Level(M(k))
    BY <2>0, LevelsAre
  <2> HIDE DEF L, M
  <2> DEFINE x == Len(L(k - 1))
             y == Len(M(k - 1))
             z == Len(M(k))
  <2>4. x \in Nat /\ x # 0 /\ y \in Nat /\ y # 0 /\ z \in Nat /\ z # 0
    BY <2>3, LevelFacts
  <2>5. CASE x = 1
    <3>1. Len(L(k)) = 1
      BY <2>2, <2>5 DEF OneUp
    <3>2. 1 <= z
      <4> HIDE DEF z
      <4> QED
        BY <2>4
    <3>3. Len(L(k)) <= Len(M(k))
      BY <3>1, <3>2
    <3> QED
      BY <2>0, <3>3
  <2>6. CASE x # 1
    <3>1. y # 1
      <4> HIDE DEF x, y
      <4>1. x <= y
        BY <2>1 DEF x, y
      <4> QED
        BY <2>4, <2>6, <4>1
    <3>2. L(k) = NextLevel(L(k - 1)) /\ M(k) = NextLevel(M(k - 1))
      BY <2>2, <2>6, <3>1 DEF OneUp
    <3>3. Len(L(k)) = (x + 1) \div 2 /\ Len(M(k)) = (y + 1) \div 2
      BY <2>3, <2>6, <3>1, <3>2, NextLevelIs
    <3>4. (x + 1) \div 2 <= (y + 1) \div 2
      <4> HIDE DEF x, y
      <4>1. x <= y
        BY <2>1 DEF x, y
      <4> QED
        BY <2>4, <4>1
    <3> QED
      BY <3>3, <3>4
  <2> QED
    BY <2>5, <2>6
<1> HIDE DEF Good
<1>3. \A k \in 0 .. n : k \in Good
  BY <1>0, <1>1, <1>2, UpTo
<1> QED
  BY <1>3 DEF Good

LEMMA LongerDeeper ==
    ASSUME NEW ls, Level(ls), NEW ms, Level(ms), Len(ls) <= Len(ms),
           NEW d, Deep(ls, d), NEW e, Deep(ms, e)
    PROVE  d <= e
<1> SUFFICES ASSUME ~ (d <= e) PROVE FALSE
  OBVIOUS
<1>1. /\ Len(ls) \in Nat /\ Len(ms) \in Nat
      /\ d \in 0 .. Len(ls) /\ e \in 0 .. Len(ms)
  BY LevelFacts DEF Deep
<1>2. e \in 0 .. Len(ls) /\ e \in 0 .. d - 1
  BY <1>1
<1> DEFINE x == Len(Levels(ls)[e])
           y == Len(Levels(ms)[e])
<1>3. x <= y /\ y = 1
  BY <1>2, LongerLevels DEF Deep
<1>4. x \in Nat /\ x # 0 /\ x # 1
  BY <1>2, LevelsAre, LevelFacts DEF Deep
<1> HIDE DEF x, y
<1> QED
  BY <1>3, <1>4

\* Under the root of a list no shorter, a proof shows the hash of a line at its position
\* only: each step of the climb from the top is at a node, and at the step's own position
\* when the depths agree; and a node above the leaves is no hash of a line.
LEMMA ProofShowsLater ==
    ASSUME NEW ls, Level(ls), NEW index \in 1 .. Len(ls), NEW ms, Level(ms), Len(ls) <= Len(ms),
           NEW line, verifyMerkleProof(merkleRoot(ms), lineHash(line), merkleProof(ls, index))
    PROVE  lineHash(line) = ms[index]
<1>1. PICK d : Deep(ls, d)
  BY DepthExists
<1>2. PICK e : Deep(ms, e)
  BY DepthExists
<1> DEFINE p == merkleProof(ls, index)
           W(k) == Walk(ls, index)[k]
           L(k) == Levels(ls)[k]
           M(k) == Levels(ms)[k]
           C(k) == Climb(lineHash(line), p)[k]
           Good == {j \in 0 .. d : /\ C(d - j) \in ToSet(M(e - j))
                                   /\ d = e => C(d - j) = M(d - j)[W(d - j).idx]}
<1>3. d \in Nat /\ e \in Nat /\ d <= e /\ d <= Len(ls) /\ e <= Len(ms)
  BY <1>1, <1>2, LongerDeeper, LevelFacts DEF Deep
<1>4. Len(p) = d /\ (\A j \in 1 .. d : p[j] = StepOf(W(j - 1))) /\ W(0).idx = index
  <2>1. p = W(d).proof /\ W(0).idx = index
    BY <1>1, WalkGoesUp
  <2>2. d \in 0 .. d
    BY <1>3
  <2>3. Len(W(d).proof) = d /\ \A j \in 1 .. d : W(d).proof[j] = StepOf(W(j - 1))
    BY <1>1, <2>2, WalkIs DEF WalkAt
  <2> HIDE DEF W, p
  <2> QED
    BY <2>1, <2>3
<1>5. C(0) = lineHash(line) /\ \A k \in 1 .. d : C(k) = Combined(p[k], C(k - 1))
  <2>1. Len(p) \in Nat
    BY <1>3, <1>4
  <2> HIDE DEF p
  <2>2. C(0) = lineHash(line) /\ \A k \in 1 .. Len(p) : C(k) = Combined(p[k], C(k - 1))
    BY <2>1, ClimbStep
  <2> HIDE DEF C
  <2> QED
    BY <1>4, <2>2
<1>6. C(d) = M(e)[1] /\ Len(M(e)) = 1 /\ W(d).idx = 1
  <2>1. C(d) = M(e)[1]
    BY <1>2, <1>4, Settled DEF verifyMerkleProof
  <2>2. Len(M(e)) = 1
    BY <1>2 DEF Deep
  <2>0. d \in 0 .. d
    BY <1>3
  <2>3. W(d).idx \in 1 .. Len(L(d)) /\ Len(L(d)) = 1
    BY <1>1, <2>0, WalkIs DEF WalkAt, Deep
  <2> HIDE DEF W, L, M, C
  <2> QED
    BY <2>1, <2>2, <2>3
<1>7. 0 \in Good
  <2>1. Level(M(e))
    BY <1>3, LevelsAre
  <2> HIDE DEF W, M, C
  <2>2. DOMAIN M(e) = 1 .. 1
    BY <1>6, <2>1, LevelFacts
  <2>3. C(d) \in ToSet(M(e))
    BY <1>6, <2>2 DEF ToSet
  <2>4. d - 0 = d /\ e - 0 = e
    BY <1>3
  <2> QED
    BY <1>3, <1>6, <2>3, <2>4
<1>8. ASSUME NEW j \in 1 .. d, j - 1 \in Good PROVE j \in Good
  <2> DEFINE k == d - (j - 1)
             b == e - (j - 1)
  <2>0. /\ k \in 1 .. d /\ b \in 1 .. e /\ k - 1 = d - j /\ b - 1 = e - j
        /\ k - 1 \in 0 .. d /\ (d = e => k = b)
    BY <1>3
  <2>1. C(k) \in ToSet(M(b)) /\ (d = e => C(k) = M(k)[W(k).idx])
    BY <1>8
  <2> HIDE DEF k, b
  <2>2. Level(M(b - 1)) /\ Len(M(b - 1)) # 1 /\ M(b) = NextLevel(M(b - 1))
    BY <1>2, <2>0, BelowDepth
  <2>3. /\ W(k - 1).idx \in 1 .. Len(L(k - 1)) /\ W(k).idx = (W(k - 1).idx + 1) \div 2
        /\ W(k).idx \in 1 .. Len(L(k))
    <3>1. k \in 0 .. d
      BY <2>0
    <3>2. WalkAt(ls, index, k - 1) /\ WalkAt(ls, index, k)
      BY <1>1, <2>0, <3>1, WalkIs
    <3>3. W(k - 1).idx \in 1 .. Len(L(k - 1)) /\ W(k).idx \in 1 .. Len(L(k))
      BY <3>2 DEF WalkAt
    <3>4. \A i \in 1 .. d : W(i).idx = (W(i - 1).idx + 1) \div 2
      BY <1>1, WalkGoesUp
    <3> HIDE DEF W, L
    <3> QED
      BY <2>0, <3>3, <3>4
  <2>4. C(k) = Combined(StepOf(W(k - 1)), C(k - 1))
    BY <1>4, <1>5, <2>0
  <2>5. /\ Len(L(k - 1)) <= Len(M(k - 1)) /\ Len(L(k)) <= Len(M(k))
        /\ Len(L(k - 1)) \in Nat /\ Len(L(k)) \in Nat
    <3>1. k - 1 \in 0 .. Len(ls) /\ k \in 0 .. Len(ls)
      BY <1>3, <2>0
    <3> QED
      BY <3>1, LongerLevels, LevelsAre, LevelFacts
  <2>6. Level(M(b)) /\ Len(M(b - 1)) \in Nat /\ Len(M(b)) \in Nat /\ DOMAIN M(b) = 1 .. Len(M(b))
    <3>1. b \in 0 .. Len(ms)
      BY <1>3, <2>0
    <3>2. Level(M(b))
      BY <3>1, LevelsAre
    <3> HIDE DEF M
    <3> QED
      BY <2>2, <3>2, LevelFacts
  <2> HIDE DEF W, L, M, C
  <2>7. C(k - 1) \in ToSet(M(b - 1))
    <3>1. PICK q \in 1 .. Len(M(b)) : C(k) = M(b)[q]
      BY <2>1, <2>6 DEF ToSet
    <3> QED
      BY <2>2, <2>4, <3>1, StepReachesElsewhere
  <2>8. ASSUME d = e PROVE C(k - 1) = M(k - 1)[W(k - 1).idx]
    <3>1. k = b
      BY <2>0, <2>8
    <3>2. W(k - 1).idx \in 1 .. Len(M(k - 1)) /\ W(k).idx \in 1 .. Len(M(k))
      BY <2>3, <2>5, <2>6, <3>1
    <3>3. Combined(StepOf(W(k - 1)), C(k - 1)) = NextLevel(M(k - 1))[W(k).idx]
      BY <2>1, <2>2, <2>4, <2>8, <3>1
    <3>4. W(k).idx \in 1 .. Len(NextLevel(M(k - 1)))
      BY <2>2, <3>1, <3>2
    <3> QED
      BY <2>2, <2>3, <3>1, <3>2, <3>3, <3>4, StepReachesElsewhere
  <2>9. C(d - j) \in ToSet(M(e - j)) /\ (d = e => C(d - j) = M(d - j)[W(d - j).idx])
    BY <2>0, <2>7, <2>8
  <2> QED
    BY <1>3, <2>9
<1>9. C(0) \in ToSet(M(e - d)) /\ (d = e => C(0) = M(0)[W(0).idx])
  <2>1. \A j \in 0 .. d : j \in Good
    <3> HIDE DEF Good
    <3> QED
      BY <1>3, <1>7, <1>8, UpTo
  <2>2. d \in 0 .. d /\ d - d = 0
    BY <1>3
  <2> HIDE DEF W, M, C
  <2> QED
    BY <2>1, <2>2
<1>10. d = e
  <2> SUFFICES ASSUME d # e PROVE FALSE
    OBVIOUS
  <2>1. e - d \in 1 .. e
    BY <1>3
  <2>2. M(e - d) = NextLevel(M(e - d - 1))
    <3>1. e - d - 1 = (e - d) - 1
      BY <1>3
    <3> QED
      BY <1>2, <2>1, <3>1, BelowDepth
  <2> HIDE DEF M, C
  <2>3. PICK i \in DOMAIN M(e - d) : C(0) = M(e - d)[i]
    BY <1>9 DEF ToSet
  <2>4. \E a, b : C(0) = merkleParent(a, b)
    BY <2>2, <2>3 DEF NextLevel
  <2> QED
    BY <1>5, <2>4, ParentsDiffer
<1>11. M(0) = ms
  BY LevelsStep
<1> HIDE DEF W, M, C
<1> QED
  BY <1>4, <1>5, <1>9, <1>10, <1>11

----------------------------------------------------------------------------
(* The leaves of a document, and the root over them.                       *)

LEMMA ThreeLeaves ==
    ASSUME NEW a, NEW b, NEW c
    PROVE  Level(<<a, b, c>>) /\ Len(<<a, b, c>>) = 3
<1>1. <<a, b, c>> \in Seq(ToSet(<<a, b, c>>)) /\ Len(<<a, b, c>>) = 3
  BY DEF ToSet
<1> QED
  BY <1>1 DEF Level, Listed

LEMMA LeafHashesAre ==
    ASSUME NEW doc
    PROVE  \E a, b, c : LeafHashes(doc) = <<a, b, c>>
<1>1. CASE IsPaystub(doc)
  BY <1>1 DEF LeafHashes, computePaystubLeafHashes
<1>2. CASE ~ IsPaystub(doc)
  BY <1>2 DEF LeafHashes, computeSummaryLeafHashes
<1> QED
  BY <1>1, <1>2

LEMMA PairsOfThree ==
    ASSUME NEW a, NEW b, NEW c
    PROVE  NextPairs(<<a, b, c>>) = <<<<a, b>>, <<c, c>>>>
<1> DEFINE s == <<a, b, c>>
           t == NextPairs(s)
<1>1. Len(s) = 3 /\ s[1] = a /\ s[2] = b /\ s[3] = c
  OBVIOUS
<1> HIDE DEF s
<1>2. (Len(s) + 1) \div 2 = 2
  BY <1>1
<1>3. t = [k \in 1 .. 2 |-> <<s[2 * k - 1], IF 2 * k <= 3 THEN s[2 * k] ELSE s[2 * k - 1]>>]
  BY <1>1, <1>2 DEF NextPairs
<1>4. t[1] = <<a, b>> /\ t[2] = <<c, c>>
  <2>1. t[1] = <<s[2 * 1 - 1], IF 2 * 1 <= 3 THEN s[2 * 1] ELSE s[2 * 1 - 1]>>
    BY <1>3
  <2>2. t[2] = <<s[2 * 2 - 1], IF 2 * 2 <= 3 THEN s[2 * 2] ELSE s[2 * 2 - 1]>>
    BY <1>3
  <2> HIDE DEF t
  <2> QED
    BY <1>1, <2>1, <2>2
<1>5. t = <<t[1], t[2]>>
  <2>1. t = [k \in 1 .. 2 |-> t[k]]
    BY <1>3
  <2> HIDE DEF t
  <2> QED
    BY <2>1
<1> HIDE DEF t
<1> QED
  BY <1>4, <1>5 DEF s, t

\* The root of three leaves: two levels, the third leaf its own sibling.
LEMMA RootOfThree ==
    ASSUME NEW a, NEW b, NEW c
    PROVE  merkleRootFromLeafHashes(<<a, b, c>>) = <<<<a, b>>, <<c, c>>>>
<1> DEFINE s == <<a, b, c>>
           t == <<<<a, b>>, <<c, c>>>>
           Up(level) == IF Len(level) = 1 THEN level ELSE NextPairs(level)
           Is(f) == f = [k \in 0 .. 3 |-> IF k = 0 THEN s ELSE Up(f[k - 1])]
           it == CHOOSE f : Is(f)
           seen == [k \in 0 .. 3 |-> IF k = 0 THEN s ELSE IF k = 1 THEN t ELSE <<t>>]
<1>1. Len(s) = 3 /\ Len(t) = 2 /\ Len(<<t>>) = 1
  OBVIOUS
<1>2. NextPairs(s) = t
  BY PairsOfThree
<1>3. NextPairs(t) = <<t>>
  <2> DEFINE u == NextPairs(t)
  <2>1. (Len(t) + 1) \div 2 = 1
    BY <1>1
  <2>2. u = [k \in 1 .. 1 |-> <<t[2 * k - 1], IF 2 * k <= 2 THEN t[2 * k] ELSE t[2 * k - 1]>>]
    <3> HIDE DEF t
    <3> QED
      BY <1>1, <2>1 DEF NextPairs
  <2>3. u[1] = <<t[1], t[2]>>
    <3>1. u[1] = <<t[2 * 1 - 1], IF 2 * 1 <= 2 THEN t[2 * 1] ELSE t[2 * 1 - 1]>>
      BY <2>2
    <3> HIDE DEF u, t
    <3> QED
      BY <3>1
  <2>4. u[1] = t
    BY <2>3
  <2>5. u = <<u[1]>>
    <3>1. u = [k \in 1 .. 1 |-> u[k]]
      BY <2>2
    <3> HIDE DEF u
    <3> QED
      BY <3>1
  <2> HIDE DEF u, t
  <2> QED
    BY <2>4, <2>5 DEF u
<1> HIDE DEF s, t
<1>4. Up(s) = t /\ Up(t) = <<t>> /\ Up(<<t>>) = <<t>>
  BY <1>1, <1>2, <1>3
<1>5. Is(seen)
  <2> HIDE DEF Up
  <2>1. \A k \in 0 .. 3 : seen[k] = IF k = 0 THEN s ELSE Up(seen[k - 1])
    <3>1. seen[0] = s /\ seen[1] = t /\ seen[2] = <<t>> /\ seen[3] = <<t>>
      OBVIOUS
    <3>2. \A k \in 0 .. 3 : k = 0 \/ k = 1 \/ k = 2 \/ k = 3
      OBVIOUS
    <3> HIDE DEF seen
    <3> QED
      BY <1>4, <3>1, <3>2
  <2> QED
    BY <2>1
<1>6. Is(it)
  <2>1. \E f : Is(f)
    BY <1>5
  <2> HIDE DEF Is
  <2> QED
    BY <2>1
<1>7. merkleRootFromLeafHashes(s) = it[3][1]
  BY <1>1 DEF merkleRootFromLeafHashes
<1> HIDE DEF it, Up
<1>8. it[0] = s /\ it[1] = Up(it[0]) /\ it[2] = Up(it[1]) /\ it[3] = Up(it[2])
  <2>1. \A k \in 0 .. 3 : it[k] = IF k = 0 THEN s ELSE Up(it[k - 1])
    BY <1>6
  <2>2. 0 \in 0 .. 3 /\ 1 \in 0 .. 3 /\ 2 \in 0 .. 3 /\ 3 \in 0 .. 3
    OBVIOUS
  <2>3. 1 - 1 = 0 /\ 2 - 1 = 1 /\ 3 - 1 = 2
    OBVIOUS
  <2> QED
    BY <2>1, <2>2, <2>3
<1>9. it[3] = <<t>>
  BY <1>4, <1>8
<1> QED
  BY <1>7, <1>9 DEF s, t

----------------------------------------------------------------------------
(* The inductive invariant.                                                *)

\* Leaves are hashes of lines; a proof was made from a list no longer than now.
TreeInv ==
    /\ leaves \in Seq(LineHash)
    /\ \/ issued = NoProof
       \/ /\ Level(issued.list) /\ issued.index \in 1 .. Len(issued.list)
          /\ issued.proof = merkleProof(issued.list, issued.index)
          /\ Len(issued.list) <= Len(leaves)

IInv ==
    /\ committed \subseteq Docs /\ sets \subseteq InputsSets
    /\ TreeInv

LEMMA InitIInv == CommitmentsInit => IInv
<1> SUFFICES ASSUME CommitmentsInit PROVE IInv
  OBVIOUS
<1>1. committed = {} /\ sets = {} /\ leaves = <<>> /\ issued = NoProof
  BY DEF CommitmentsInit, TreeInit
<1>2. TreeInv
  BY <1>1, EmptySeq DEF TreeInv
<1> QED
  BY <1>1, <1>2 DEF IInv

LEMMA LeavesAreLevel ==
    ASSUME leaves \in Seq(LineHash), leaves # <<>>
    PROVE  Level(leaves) /\ DOMAIN leaves = 1 .. Len(leaves)
<1>1. Len(leaves) \in Nat \ {0} /\ leaves \in [1 .. Len(leaves) -> LineHash]
  BY LenProperties, EmptySeq
<1>2. leaves = [i \in 1 .. Len(leaves) |-> leaves[i]]
  BY <1>1
<1>3. Level(leaves)
  BY <1>1, <1>2, IsLevel
<1> QED
  BY <1>1, <1>3

LEMMA AddKeeps ==
    ASSUME IInv, NEW line \in Line, Add(line) PROVE TreeInv'
<1>1. leaves' = Append(leaves, lineHash(line)) /\ issued' = issued /\ lineHash(line) \in LineHash
  BY DEF Add, LineHash
<1>2. leaves \in Seq(LineHash)
  BY DEF IInv, TreeInv
<1>3. leaves' \in Seq(LineHash) /\ Len(leaves') = Len(leaves) + 1 /\ Len(leaves) \in Nat
  BY <1>1, <1>2, AppendProperties, LenProperties
<1>4. issued # NoProof => Len(issued.list) <= Len(leaves')
  <2> SUFFICES ASSUME issued # NoProof PROVE Len(issued.list) <= Len(leaves')
    OBVIOUS
  <2>1. Len(issued.list) <= Len(leaves) /\ Len(issued.list) \in Nat
    BY LevelFacts DEF IInv, TreeInv
  <2> QED
    BY <1>3, <2>1
<1> QED
  BY <1>1, <1>3, <1>4 DEF IInv, TreeInv, LineHash

LEMMA ProveKeeps ==
    ASSUME IInv, NEW index, Prove(index) PROVE TreeInv'
<1>1. /\ issued' = [list |-> leaves, index |-> index, proof |-> merkleProof(leaves, index)]
      /\ leaves' = leaves /\ index \in DOMAIN leaves
  BY DEF Prove
<1>2. leaves \in Seq(LineHash)
  BY DEF IInv, TreeInv
<1>3. leaves # <<>>
  BY <1>1
<1>4. Level(leaves) /\ index \in 1 .. Len(leaves) /\ Len(leaves) \in Nat
  BY <1>1, <1>2, <1>3, LeavesAreLevel, LevelFacts
<1>5. /\ issued'.list = leaves /\ issued'.index = index
      /\ issued'.proof = merkleProof(leaves, index)
  BY <1>1
<1> QED
  BY <1>1, <1>2, <1>4, <1>5 DEF TreeInv, LineHash

LEMMA NextIInv == IInv /\ [CommitmentsNext]_commitmentsVars => IInv'
<1> SUFFICES ASSUME IInv, [CommitmentsNext]_commitmentsVars PROVE IInv'
  OBVIOUS
<1>1. ASSUME NEW doc \in Docs, CommitDocument(doc) PROVE IInv'
  BY <1>1 DEF CommitDocument, treeVars, IInv, TreeInv, LineHash
<1>2. ASSUME NEW set \in InputsSets, CommitInputs(set) PROVE IInv'
  BY <1>2 DEF CommitInputs, treeVars, IInv, TreeInv, LineHash
<1>3. ASSUME TreeNext, UNCHANGED <<committed, sets>> PROVE IInv'
  <2>1. TreeInv'
    BY <1>3, AddKeeps, ProveKeeps DEF TreeNext
  <2> QED
    BY <1>3, <2>1 DEF IInv
<1>4. ASSUME UNCHANGED commitmentsVars PROVE IInv'
  BY <1>4 DEF commitmentsVars, treeVars, IInv, TreeInv, LineHash
<1> QED
  BY <1>1, <1>2, <1>3, <1>4 DEF CommitmentsNext

LEMMA Invariance == CommitmentsSpec => []IInv
<1> QED
  BY InitIInv, NextIInv, PTL DEF CommitmentsSpec

----------------------------------------------------------------------------
(* Proofs.                                                                 *)

\* ProofsStayTrue, for lists of any length and any position: merkleProof and
\* verifyMerkleProof agree, odd ends included, and a proof kept while the list grew
\* verifies only for the leaf at its position.
THEOREM ProofsHold == CommitmentsSpec => []ProofsStayTrue
<1>1. IInv => ProofsShowTheirLeaf
  <2> SUFFICES ASSUME IInv, issued # NoProof, NEW leaf \in LineHash
               PROVE  verifyMerkleProof(merkleRoot(issued.list), leaf, issued.proof)
                         <=> leaf = Proven
    BY DEF ProofsShowTheirLeaf
  <2>1. /\ Level(issued.list) /\ issued.index \in 1 .. Len(issued.list)
        /\ issued.proof = merkleProof(issued.list, issued.index)
    BY DEF IInv, TreeInv
  <2> QED
    BY <2>1, ProofShows DEF Proven
<1>2. IInv => KeptProofsStayTrue
  <2> SUFFICES ASSUME IInv, issued # NoProof, leaves # <<>>, NEW leaf \in LineHash,
                      verifyMerkleProof(merkleRoot(leaves), leaf, issued.proof)
               PROVE  issued.index \in DOMAIN leaves /\ leaf = leaves[issued.index]
    BY DEF KeptProofsStayTrue
  <2>1. /\ Level(issued.list) /\ issued.index \in 1 .. Len(issued.list)
        /\ issued.proof = merkleProof(issued.list, issued.index)
        /\ Len(issued.list) <= Len(leaves) /\ leaves \in Seq(LineHash)
    BY DEF IInv, TreeInv
  <2>2. Level(leaves) /\ DOMAIN leaves = 1 .. Len(leaves)
    BY <2>1, LeavesAreLevel
  <2>3. PICK line \in Line : leaf = lineHash(line)
    BY DEF LineHash
  <2>4. leaf = leaves[issued.index]
    BY <2>1, <2>2, <2>3, ProofShowsLater
  <2>5. issued.index \in 1 .. Len(leaves)
    <3>1. Len(issued.list) \in Nat /\ Len(leaves) \in Nat
      BY <2>1, <2>2, LevelFacts
    <3> QED
      BY <2>1, <3>1
  <2> QED
    BY <2>2, <2>4, <2>5
<1> QED
  BY <1>1, <1>2, Invariance, PTL DEF ProofsStayTrue

----------------------------------------------------------------------------
(* Encodings one value after the other.                                    *)

Alike(s, t) == Listed(s) /\ Listed(t) /\ Len(s) = Len(t)

\* Lists of the same lengths one after the other are the same only if each of them is.
LEMMA AlikeConcat ==
    ASSUME NEW s1, NEW t1, Alike(s1, t1), NEW s2, NEW t2, Alike(s2, t2)
    PROVE  /\ Alike(s1 \o s2, t1 \o t2)
           /\ s1 \o s2 = t1 \o t2 => s1 = t1 /\ s2 = t2
<1> DEFINE S == ToSet(s1) \cup ToSet(s2) \cup ToSet(t1) \cup ToSet(t2)
<1>1. s1 \in Seq(S) /\ s2 \in Seq(S) /\ t1 \in Seq(S) /\ t2 \in Seq(S)
  <2>1. /\ ToSet(s1) \subseteq S /\ ToSet(s2) \subseteq S
        /\ ToSet(t1) \subseteq S /\ ToSet(t2) \subseteq S
    OBVIOUS
  <2> HIDE DEF S
  <2> QED
    BY <2>1, SeqMonotonic DEF Alike, Listed
<1> HIDE DEF S
<1>2. /\ Len(s1) \in Nat /\ Len(s2) \in Nat
      /\ Len(s1) = Len(t1) /\ Len(s2) = Len(t2)
  BY <1>1, LenProperties DEF Alike
<1>3. ASSUME NEW u \in Seq(S) PROVE Listed(u)
  <2>1. Len(u) \in Nat /\ u \in [1 .. Len(u) -> S]
    BY LenProperties
  <2>2. u = [i \in 1 .. Len(u) |-> u[i]]
    BY <2>1
  <2> QED
    BY <2>1, <2>2, ListedIs
<1> DEFINE u == s1 \o s2
           v == t1 \o t2
<1>4. /\ u \in Seq(S) /\ Len(u) = Len(s1) + Len(s2)
      /\ \A i \in 1 .. Len(s1) + Len(s2) :
            u[i] = IF i <= Len(s1) THEN s1[i] ELSE s2[i - Len(s1)]
  BY <1>1, ConcatProperties
<1>5. /\ v \in Seq(S) /\ Len(v) = Len(t1) + Len(t2)
      /\ \A i \in 1 .. Len(t1) + Len(t2) :
            v[i] = IF i <= Len(t1) THEN t1[i] ELSE t2[i - Len(t1)]
  BY <1>1, ConcatProperties
<1> HIDE DEF u, v
<1>6. Alike(u, v)
  <2>1. Len(u) = Len(v)
    BY <1>2, <1>4, <1>5
  <2> QED
    BY <1>3, <1>4, <1>5, <2>1 DEF Alike
<1>7. ASSUME u = v PROVE s1 = t1 /\ s2 = t2
  <2>1. \A i \in 1 .. Len(s1) : s1[i] = t1[i]
    <3> SUFFICES ASSUME NEW i \in 1 .. Len(s1) PROVE s1[i] = t1[i]
      OBVIOUS
    <3>1. i \in 1 .. Len(s1) + Len(s2) /\ i <= Len(s1)
      BY <1>2
    <3>2. u[i] = s1[i] /\ v[i] = t1[i]
      BY <1>2, <1>4, <1>5, <3>1
    <3> QED
      BY <1>7, <3>2
  <2>2. \A i \in 1 .. Len(s2) : s2[i] = t2[i]
    <3> SUFFICES ASSUME NEW i \in 1 .. Len(s2) PROVE s2[i] = t2[i]
      OBVIOUS
    <3> DEFINE j == i + Len(s1)
    <3>1. j \in 1 .. Len(s1) + Len(s2) /\ ~ (j <= Len(s1)) /\ j - Len(s1) = i
      BY <1>2
    <3> HIDE DEF j
    <3>2. u[j] = s2[i] /\ v[j] = t2[i]
      BY <1>2, <1>4, <1>5, <3>1
    <3> QED
      BY <1>7, <3>2
  <2>3. s1 = t1
    BY <1>1, <1>2, <2>1, SeqEqual
  <2>4. s2 = t2
    BY <1>1, <1>2, <2>2, SeqEqual
  <2> QED
    BY <2>3, <2>4
<1> QED
  BY <1>6, <1>7 DEF u, v

\* The typed values of two documents are the same only if the values are.
LEMMA TlvIs ==
    ASSUME NEW type, NEW fields, Listed(fields), NEW a, NEW b
    PROVE  /\ Alike(Tlv(type, fields, a), Tlv(type, fields, b))
           /\ Tlv(type, fields, a) = Tlv(type, fields, b) => \A f \in ToSet(fields) : a[f] = b[f]
<1> DEFINE s == Tlv(type, fields, a)
           t == Tlv(type, fields, b)
<1>1. Len(fields) \in Nat /\ DOMAIN fields = 1 .. Len(fields)
  BY LenProperties DEF Listed
<1>2. /\ s = [i \in 1 .. Len(fields) |-> <<type, a[fields[i]]>>]
      /\ t = [i \in 1 .. Len(fields) |-> <<type, b[fields[i]]>>]
  BY <1>1 DEF Tlv
<1>3. Alike(s, t)
  <2>1. s = [i \in 1 .. Len(fields) |-> s[i]] /\ t = [i \in 1 .. Len(fields) |-> t[i]]
    BY <1>2
  <2> HIDE DEF s, t
  <2> QED
    BY <1>1, <2>1, ListedIs DEF Alike
<1>4. ASSUME s = t, NEW f \in ToSet(fields) PROVE a[f] = b[f]
  <2>1. PICK i \in 1 .. Len(fields) : f = fields[i]
    BY <1>1 DEF ToSet
  <2>2. s[i] = <<type, a[f]>> /\ t[i] = <<type, b[f]>>
    BY <1>2, <2>1
  <2>3. <<type, a[f]>> = <<type, b[f]>>
    BY <1>4, <2>2
  <2> QED
    BY <2>3
<1> QED
  BY <1>3, <1>4

LEMMA LiteralsListed ==
    /\ Listed(Versions) /\ Listed(Names) /\ Listed(AmountFields)
    /\ \A f : Listed(<<f>>)
    /\ \A f, g : Listed(<<f, g>>)
<1>1. Listed(Versions) /\ Listed(Names) /\ Listed(AmountFields)
  BY DEF Versions, Names, AmountFields, Listed, ToSet
<1>2. \A f : Listed(<<f>>)
  BY DEF Listed, ToSet
<1>3. \A f, g : Listed(<<f, g>>)
  BY DEF Listed, ToSet
<1> QED
  BY <1>1, <1>2, <1>3

\* The values under the names of one group.
LEMMA GroupIs ==
    /\ ToSet(Versions) = {"schema_v", "calc_v", "policy_v"}
    /\ ToSet(Names) = {"worker_name_hash", "employer_name_hash"}
    /\ ToSet(AmountFields) = {"gross", "net", "tax", "fee"}
    /\ \A f : ToSet(<<f>>) = {f}
    /\ \A f, g : ToSet(<<f, g>>) = {f, g}
<1>1. ToSet(Versions) = {"schema_v", "calc_v", "policy_v"}
  BY DEF Versions, ToSet
<1>2. ToSet(Names) = {"worker_name_hash", "employer_name_hash"}
  BY DEF Names, ToSet
<1>3. ToSet(AmountFields) = {"gross", "net", "tax", "fee"}
  BY DEF AmountFields, ToSet
<1>4. \A f : ToSet(<<f>>) = {f}
  BY DEF ToSet
<1>5. \A f, g : ToSet(<<f, g>>) = {f, g}
  BY DEF ToSet
<1> QED
  BY <1>1, <1>2, <1>3, <1>4, <1>5

----------------------------------------------------------------------------
(* What the hash of a document binds.                                      *)

LEMMA AuditAnchorIs ==
    ASSUME NEW a, NEW b
    PROVE  /\ Alike(AuditAnchor(a), AuditAnchor(b))
           /\ AuditAnchor(a) = AuditAnchor(b) =>
                 /\ (IF a.audit_anchor = Absent THEN ZeroAnchor ELSE a.audit_anchor)
                    = (IF b.audit_anchor = Absent THEN ZeroAnchor ELSE b.audit_anchor)
                 /\ (IF a.audit_anchor_height = Absent THEN 0 ELSE a.audit_anchor_height)
                    = (IF b.audit_anchor_height = Absent THEN 0 ELSE b.audit_anchor_height)
<1> DEFINE x(d) == IF d.audit_anchor = Absent THEN ZeroAnchor ELSE d.audit_anchor
           y(d) == IF d.audit_anchor_height = Absent THEN 0 ELSE d.audit_anchor_height
<1>1. \A d : AuditAnchor(d) = <<<<"bytes32", x(d)>>, <<"u32", y(d)>>>>
  BY DEF AuditAnchor
<1> HIDE DEF x, y
<1>2. \A d : Listed(AuditAnchor(d)) /\ Len(AuditAnchor(d)) = 2
  BY <1>1, LiteralsListed
<1>3. AuditAnchor(a) = AuditAnchor(b) => x(a) = x(b) /\ y(a) = y(b)
  BY <1>1
<1> QED
  BY <1>2, <1>3 DEF Alike, x, y

\* Two documents agree: the optional values filled in.
Agree(a, b, fields) ==
    /\ \A f \in fields \ {"audit_anchor", "audit_anchor_height"} : a[f] = b[f]
    /\ AuditAnchor(a) = AuditAnchor(b)

LEMMA AgreeingFill ==
    ASSUME NEW a \in Docs, NEW b \in Docs, DOMAIN a = DOMAIN b,
           NEW fields \in SUBSET DOMAIN a, Agree(a, b, fields)
    PROVE  \A f \in fields : Filled(a)[f] = Filled(b)[f]
<1> DEFINE F == DOMAIN a
           x(d) == IF d.audit_anchor = Absent THEN ZeroAnchor ELSE d.audit_anchor
           y(d) == IF d.audit_anchor_height = Absent THEN 0 ELSE d.audit_anchor_height
<1>1. "audit_anchor" \in F /\ "audit_anchor_height" \in F
  BY DocsAssumption DEF PaystubFields, SummaryFields, CommonFields
<1>2. a = [f \in F |-> a[f]] /\ b = [f \in F |-> b[f]]
  BY DocsAssumption
<1>3. ASSUME NEW d, d = [f \in F |-> d[f]]
      PROVE  \A f \in F : Filled(d)[f] = IF f = "audit_anchor_height" THEN y(d)
                                         ELSE IF f = "audit_anchor" THEN x(d) ELSE d[f]
  BY <1>1, <1>3 DEF Filled
<1>4. x(a) = x(b) /\ y(a) = y(b)
  BY AuditAnchorIs DEF Agree
<1> SUFFICES ASSUME NEW f \in fields PROVE Filled(a)[f] = Filled(b)[f]
  OBVIOUS
<1>5. /\ Filled(a)[f] = IF f = "audit_anchor_height" THEN y(a)
                        ELSE IF f = "audit_anchor" THEN x(a) ELSE a[f]
      /\ Filled(b)[f] = IF f = "audit_anchor_height" THEN y(b)
                        ELSE IF f = "audit_anchor" THEN x(b) ELSE b[f]
  BY <1>2, <1>3
<1> HIDE DEF x, y
<1> QED
  BY <1>4, <1>5 DEF Agree

LEMMA PaystubBinds ==
    ASSUME NEW a, NEW b, encodePaystubDocument(a) = encodePaystubDocument(b)
    PROVE  Agree(a, b, PaystubFields)
<1> DEFINE p1(d) == tlvU16(Versions, d)
           p2(d) == tlvBytes32(<<"agreement_id">>, d)
           p3(d) == tlvU32(<<"epoch_id">>, d)
           p4(d) == tlvFieldStr(Names, d)
           p5(d) == tlvU8(<<"currency_code">>, d)
           p6(d) == tlvBigintDec(AmountFields, d)
           p7(d) == tlvBytes32(<<"payroll_inputs_hash", "receipt_anchor">>, d)
           p8(d) == tlvU32(<<"receipt_height">>, d)
           p9(d) == AuditAnchor(d)
           p10(d) == tlvBytes32(<<"utc_time_hash">>, d)
<1>1. /\ Alike(p1(a), p1(b)) /\ Alike(p2(a), p2(b)) /\ Alike(p3(a), p3(b))
      /\ Alike(p4(a), p4(b)) /\ Alike(p5(a), p5(b)) /\ Alike(p6(a), p6(b))
      /\ Alike(p7(a), p7(b)) /\ Alike(p8(a), p8(b)) /\ Alike(p9(a), p9(b))
      /\ Alike(p10(a), p10(b))
  BY TlvIs, LiteralsListed, AuditAnchorIs
     DEF tlvU8, tlvU16, tlvU32, tlvBytes32, tlvFieldStr, tlvBigintDec
<1> DEFINE q2(d) == p1(d) \o p2(d)
           q3(d) == q2(d) \o p3(d)
           q4(d) == q3(d) \o p4(d)
           q5(d) == q4(d) \o p5(d)
           q6(d) == q5(d) \o p6(d)
           q7(d) == q6(d) \o p7(d)
           q8(d) == q7(d) \o p8(d)
           q9(d) == q8(d) \o p9(d)
           q10(d) == q9(d) \o p10(d)
<1>2. q10(a) = q10(b)
  <2>1. \A d : encodePaystubDocument(d) = <<"PAYSTUB_DOC", q10(d)>>
    BY DEF encodePaystubDocument, encodeObject
  <2> HIDE DEF q10
  <2> QED
    BY <2>1
<1> HIDE DEF p1, p2, p3, p4, p5, p6, p7, p8, p9, p10, q2, q3, q4, q5, q6, q7, q8, q9, q10
<1>3. /\ Alike(q2(a), q2(b))
      /\ q2(a) = q2(b) => p1(a) = p1(b) /\ p2(a) = p2(b)
  BY <1>1, AlikeConcat DEF q2
<1>4. /\ Alike(q3(a), q3(b))
      /\ q3(a) = q3(b) => q2(a) = q2(b) /\ p3(a) = p3(b)
  BY <1>1, <1>3, AlikeConcat DEF q3
<1>5. /\ Alike(q4(a), q4(b))
      /\ q4(a) = q4(b) => q3(a) = q3(b) /\ p4(a) = p4(b)
  BY <1>1, <1>4, AlikeConcat DEF q4
<1>6. /\ Alike(q5(a), q5(b))
      /\ q5(a) = q5(b) => q4(a) = q4(b) /\ p5(a) = p5(b)
  BY <1>1, <1>5, AlikeConcat DEF q5
<1>7. /\ Alike(q6(a), q6(b))
      /\ q6(a) = q6(b) => q5(a) = q5(b) /\ p6(a) = p6(b)
  BY <1>1, <1>6, AlikeConcat DEF q6
<1>8. /\ Alike(q7(a), q7(b))
      /\ q7(a) = q7(b) => q6(a) = q6(b) /\ p7(a) = p7(b)
  BY <1>1, <1>7, AlikeConcat DEF q7
<1>9. /\ Alike(q8(a), q8(b))
      /\ q8(a) = q8(b) => q7(a) = q7(b) /\ p8(a) = p8(b)
  BY <1>1, <1>8, AlikeConcat DEF q8
<1>10. /\ Alike(q9(a), q9(b))
       /\ q9(a) = q9(b) => q8(a) = q8(b) /\ p9(a) = p9(b)
  BY <1>1, <1>9, AlikeConcat DEF q9
<1>11. q10(a) = q10(b) => q9(a) = q9(b) /\ p10(a) = p10(b)
  BY <1>1, <1>10, AlikeConcat DEF q10
<1>12. /\ p1(a) = p1(b) /\ p2(a) = p2(b) /\ p3(a) = p3(b) /\ p4(a) = p4(b) /\ p5(a) = p5(b)
       /\ p6(a) = p6(b) /\ p7(a) = p7(b) /\ p8(a) = p8(b) /\ p9(a) = p9(b) /\ p10(a) = p10(b)
  BY <1>2, <1>3, <1>4, <1>5, <1>6, <1>7, <1>8, <1>9, <1>10, <1>11
<1>13. /\ \A f \in ToSet(Versions) \cup ToSet(Names) \cup ToSet(AmountFields) : a[f] = b[f]
       /\ \A f \in {"agreement_id", "epoch_id", "currency_code", "payroll_inputs_hash",
                    "receipt_anchor", "receipt_height", "utc_time_hash"} : a[f] = b[f]
  <2>1. /\ \A f \in ToSet(Versions) : a[f] = b[f]
        /\ \A f \in ToSet(Names) : a[f] = b[f]
        /\ \A f \in ToSet(AmountFields) : a[f] = b[f]
    BY <1>12, TlvIs, LiteralsListed DEF p1, p4, p6, tlvU16, tlvFieldStr, tlvBigintDec
  <2>2. /\ \A f \in ToSet(<<"agreement_id">>) : a[f] = b[f]
        /\ \A f \in ToSet(<<"epoch_id">>) : a[f] = b[f]
        /\ \A f \in ToSet(<<"currency_code">>) : a[f] = b[f]
    BY <1>12, TlvIs, LiteralsListed DEF p2, p3, p5, tlvBytes32, tlvU32, tlvU8
  <2>3. \A f \in ToSet(<<"payroll_inputs_hash", "receipt_anchor">>) : a[f] = b[f]
    BY <1>12, TlvIs, LiteralsListed DEF p7, tlvBytes32
  <2>4. \A f \in ToSet(<<"receipt_height">>) : a[f] = b[f]
    BY <1>12, TlvIs, LiteralsListed DEF p8, tlvU32
  <2>5. \A f \in ToSet(<<"utc_time_hash">>) : a[f] = b[f]
    BY <1>12, TlvIs, LiteralsListed DEF p10, tlvBytes32
  <2> QED
    BY <2>1, <2>2, <2>3, <2>4, <2>5, GroupIs
<1> QED
  BY <1>12, <1>13, GroupIs DEF Agree, PaystubFields, CommonFields, p9

LEMMA SummaryBinds ==
    ASSUME NEW a, NEW b, encodePayrollSummaryDocument(a) = encodePayrollSummaryDocument(b)
    PROVE  Agree(a, b, SummaryFields \ {"period_type"})
<1> DEFINE p1(d) == tlvU16(Versions, d)
           p2(d) == tlvU8(<<"summary_type">>, d)
           p3(d) == tlvBytes32(<<"agreement_id">>, d)
           p4(d) == tlvU32(<<"period_start", "period_end">>, d)
           p5(d) == tlvFieldStr(Names, d)
           p6(d) == tlvU8(<<"currency_code">>, d)
           p7(d) == tlvBigintDec(AmountFields, d)
           p8(d) == tlvBytes32(<<"inputs_hash">>, d)
           p9(d) == AuditAnchor(d)
<1>1. /\ Alike(p1(a), p1(b)) /\ Alike(p2(a), p2(b)) /\ Alike(p3(a), p3(b))
      /\ Alike(p4(a), p4(b)) /\ Alike(p5(a), p5(b)) /\ Alike(p6(a), p6(b))
      /\ Alike(p7(a), p7(b)) /\ Alike(p8(a), p8(b)) /\ Alike(p9(a), p9(b))
  BY TlvIs, LiteralsListed, AuditAnchorIs
     DEF tlvU8, tlvU16, tlvU32, tlvBytes32, tlvFieldStr, tlvBigintDec
<1> DEFINE q2(d) == p1(d) \o p2(d)
           q3(d) == q2(d) \o p3(d)
           q4(d) == q3(d) \o p4(d)
           q5(d) == q4(d) \o p5(d)
           q6(d) == q5(d) \o p6(d)
           q7(d) == q6(d) \o p7(d)
           q8(d) == q7(d) \o p8(d)
           q9(d) == q8(d) \o p9(d)
<1>2. q9(a) = q9(b)
  <2>1. \A d : encodePayrollSummaryDocument(d) = <<"SUMMARY_DOC", q9(d)>>
    BY DEF encodePayrollSummaryDocument, encodeObject
  <2> HIDE DEF q9
  <2> QED
    BY <2>1
<1> HIDE DEF p1, p2, p3, p4, p5, p6, p7, p8, p9, q2, q3, q4, q5, q6, q7, q8, q9
<1>3. /\ Alike(q2(a), q2(b))
      /\ q2(a) = q2(b) => p1(a) = p1(b) /\ p2(a) = p2(b)
  BY <1>1, AlikeConcat DEF q2
<1>4. /\ Alike(q3(a), q3(b))
      /\ q3(a) = q3(b) => q2(a) = q2(b) /\ p3(a) = p3(b)
  BY <1>1, <1>3, AlikeConcat DEF q3
<1>5. /\ Alike(q4(a), q4(b))
      /\ q4(a) = q4(b) => q3(a) = q3(b) /\ p4(a) = p4(b)
  BY <1>1, <1>4, AlikeConcat DEF q4
<1>6. /\ Alike(q5(a), q5(b))
      /\ q5(a) = q5(b) => q4(a) = q4(b) /\ p5(a) = p5(b)
  BY <1>1, <1>5, AlikeConcat DEF q5
<1>7. /\ Alike(q6(a), q6(b))
      /\ q6(a) = q6(b) => q5(a) = q5(b) /\ p6(a) = p6(b)
  BY <1>1, <1>6, AlikeConcat DEF q6
<1>8. /\ Alike(q7(a), q7(b))
      /\ q7(a) = q7(b) => q6(a) = q6(b) /\ p7(a) = p7(b)
  BY <1>1, <1>7, AlikeConcat DEF q7
<1>9. /\ Alike(q8(a), q8(b))
      /\ q8(a) = q8(b) => q7(a) = q7(b) /\ p8(a) = p8(b)
  BY <1>1, <1>8, AlikeConcat DEF q8
<1>10. q9(a) = q9(b) => q8(a) = q8(b) /\ p9(a) = p9(b)
  BY <1>1, <1>9, AlikeConcat DEF q9
<1>11. /\ p1(a) = p1(b) /\ p2(a) = p2(b) /\ p3(a) = p3(b) /\ p4(a) = p4(b) /\ p5(a) = p5(b)
       /\ p6(a) = p6(b) /\ p7(a) = p7(b) /\ p8(a) = p8(b) /\ p9(a) = p9(b)
  BY <1>2, <1>3, <1>4, <1>5, <1>6, <1>7, <1>8, <1>9, <1>10
<1>12. /\ \A f \in ToSet(Versions) \cup ToSet(Names) \cup ToSet(AmountFields) : a[f] = b[f]
       /\ \A f \in {"summary_type", "agreement_id", "period_start", "period_end",
                    "currency_code", "inputs_hash"} : a[f] = b[f]
  <2>1. /\ \A f \in ToSet(Versions) : a[f] = b[f]
        /\ \A f \in ToSet(Names) : a[f] = b[f]
        /\ \A f \in ToSet(AmountFields) : a[f] = b[f]
    BY <1>11, TlvIs, LiteralsListed DEF p1, p5, p7, tlvU16, tlvFieldStr, tlvBigintDec
  <2>2. /\ \A f \in ToSet(<<"summary_type">>) : a[f] = b[f]
        /\ \A f \in ToSet(<<"agreement_id">>) : a[f] = b[f]
        /\ \A f \in ToSet(<<"currency_code">>) : a[f] = b[f]
    BY <1>11, TlvIs, LiteralsListed DEF p2, p3, p6, tlvBytes32, tlvU8
  <2>3. /\ \A f \in ToSet(<<"period_start", "period_end">>) : a[f] = b[f]
        /\ \A f \in ToSet(<<"inputs_hash">>) : a[f] = b[f]
    BY <1>11, TlvIs, LiteralsListed DEF p4, p8, tlvBytes32, tlvU32
  <2> QED
    BY <2>1, <2>2, <2>3, GroupIs
<1> QED
  BY <1>11, <1>12, GroupIs DEF Agree, SummaryFields, CommonFields, p9

\* Two documents with one hash are of one kind, and agree in all the hash binds.
LEMMA DocHashBinds ==
    ASSUME NEW a \in Docs, NEW b \in Docs, DocHash(a) = DocHash(b)
    PROVE  /\ DOMAIN a = DOMAIN b
           /\ \A f \in Bound(a) : Filled(a)[f] = Filled(b)[f]
<1>1. /\ \A d : \E x : encodePaystubDocument(d) = <<"PAYSTUB_DOC", x>>
      /\ \A d : \E x : encodePayrollSummaryDocument(d) = <<"SUMMARY_DOC", x>>
  BY DEF encodePaystubDocument, encodePayrollSummaryDocument, encodeObject
<1>2. IsPaystub(a) <=> IsPaystub(b)
  BY <1>1 DEF DocHash
<1>3. DOMAIN a = DOMAIN b /\ Agree(a, b, Bound(a))
  <2>1. \A d \in Docs : DOMAIN d = IF IsPaystub(d) THEN PaystubFields ELSE SummaryFields
    BY DocsAssumption DEF IsPaystub, PaystubFields, SummaryFields, CommonFields
  <2>2. CASE IsPaystub(a)
    <3>1. Agree(a, b, PaystubFields)
      BY <1>2, <2>2, PaystubBinds DEF DocHash
    <3>2. Bound(a) \subseteq PaystubFields
      BY <2>1, <2>2 DEF Bound
    <3> QED
      BY <1>2, <2>1, <2>2, <3>1, <3>2 DEF Agree
  <2>3. CASE ~ IsPaystub(a)
    <3>1. Agree(a, b, SummaryFields \ {"period_type"})
      BY <1>2, <2>3, SummaryBinds DEF DocHash
    <3> QED
      BY <1>2, <2>1, <2>3, <3>1 DEF Bound
  <2> QED
    BY <2>2, <2>3
<1> DEFINE fields == Bound(a)
<1>4. fields \in SUBSET DOMAIN a /\ Agree(a, b, fields)
  BY <1>3 DEF Bound
<1> HIDE DEF fields
<1>5. \A f \in fields : Filled(a)[f] = Filled(b)[f]
  BY <1>3, <1>4, AgreeingFill
<1> QED
  BY <1>3, <1>5 DEF fields

----------------------------------------------------------------------------
(* What the root of a document binds.                                      *)

LEMMA LeafIs ==
    ASSUME NEW tag, NEW label, NEW s, NEW t, Alike(s, t), Leaf(tag, label, s) = Leaf(tag, label, t)
    PROVE  s = t
<1> DEFINE u == <<<<"u8", label>>>>
<1>1. Alike(u, u)
  BY LiteralsListed DEF Alike
<1>2. u \o s = u \o t
  BY DEF Leaf, encodeObject
<1> HIDE DEF u
<1> QED
  BY <1>1, <1>2, AlikeConcat

LEMMA PaystubLeavesBind ==
    ASSUME NEW a, NEW b, computePaystubLeafHashes(a) = computePaystubLeafHashes(b)
    PROVE  Agree(a, b, PaystubFields \ ToSet(Versions))
<1> DEFINE p1(d) == tlvBytes32(<<"agreement_id">>, d)
           p2(d) == tlvU32(<<"epoch_id">>, d)
           p3(d) == tlvFieldStr(Names, d)
           p4(d) == tlvU8(<<"currency_code">>, d)
           p5(d) == tlvBigintDec(AmountFields, d)
           p6(d) == tlvBytes32(<<"payroll_inputs_hash", "receipt_anchor">>, d)
           p7(d) == tlvU32(<<"receipt_height">>, d)
           p8(d) == AuditAnchor(d)
           p9(d) == tlvBytes32(<<"utc_time_hash">>, d)
<1>1. /\ Alike(p1(a), p1(b)) /\ Alike(p2(a), p2(b)) /\ Alike(p3(a), p3(b))
      /\ Alike(p4(a), p4(b)) /\ Alike(p5(a), p5(b)) /\ Alike(p6(a), p6(b))
      /\ Alike(p7(a), p7(b)) /\ Alike(p8(a), p8(b)) /\ Alike(p9(a), p9(b))
  BY TlvIs, LiteralsListed, AuditAnchorIs
     DEF tlvU8, tlvU32, tlvBytes32, tlvFieldStr, tlvBigintDec
<1> DEFINE h(d) == p1(d) \o p2(d)
           figures(d) == p4(d) \o p5(d)
           inputs(d) == p6(d) \o p7(d)
           anchored(d) == inputs(d) \o p8(d)
           origin(d) == anchored(d) \o p9(d)
           one(d) == h(d) \o p3(d)
           two(d) == h(d) \o figures(d)
           three(d) == h(d) \o origin(d)
<1>2. \A d : computePaystubLeafHashes(d) = <<Leaf("LEAF_PAYSTUB", 1, one(d)),
                                              Leaf("LEAF_PAYSTUB", 2, two(d)),
                                              Leaf("LEAF_PAYSTUB", 3, three(d))>>
  BY DEF computePaystubLeafHashes
<1> HIDE DEF p1, p2, p3, p4, p5, p6, p7, p8, p9, h, figures, inputs, anchored, origin,
             one, two, three
<1>3. /\ Leaf("LEAF_PAYSTUB", 1, one(a)) = Leaf("LEAF_PAYSTUB", 1, one(b))
      /\ Leaf("LEAF_PAYSTUB", 2, two(a)) = Leaf("LEAF_PAYSTUB", 2, two(b))
      /\ Leaf("LEAF_PAYSTUB", 3, three(a)) = Leaf("LEAF_PAYSTUB", 3, three(b))
  BY <1>2
<1>4. /\ Alike(h(a), h(b))
      /\ h(a) = h(b) => p1(a) = p1(b) /\ p2(a) = p2(b)
  BY <1>1, AlikeConcat DEF h
<1>5. /\ Alike(figures(a), figures(b))
      /\ figures(a) = figures(b) => p4(a) = p4(b) /\ p5(a) = p5(b)
  BY <1>1, AlikeConcat DEF figures
<1>6. /\ Alike(inputs(a), inputs(b))
      /\ inputs(a) = inputs(b) => p6(a) = p6(b) /\ p7(a) = p7(b)
  BY <1>1, AlikeConcat DEF inputs
<1>7. /\ Alike(anchored(a), anchored(b))
      /\ anchored(a) = anchored(b) => inputs(a) = inputs(b) /\ p8(a) = p8(b)
  BY <1>1, <1>6, AlikeConcat DEF anchored
<1>8. /\ Alike(origin(a), origin(b))
      /\ origin(a) = origin(b) => anchored(a) = anchored(b) /\ p9(a) = p9(b)
  BY <1>1, <1>7, AlikeConcat DEF origin
<1>9. /\ Alike(one(a), one(b))
      /\ one(a) = one(b) => h(a) = h(b) /\ p3(a) = p3(b)
  BY <1>1, <1>4, AlikeConcat DEF one
<1>10. /\ Alike(two(a), two(b))
       /\ two(a) = two(b) => figures(a) = figures(b)
  BY <1>4, <1>5, AlikeConcat DEF two
<1>11. /\ Alike(three(a), three(b))
       /\ three(a) = three(b) => origin(a) = origin(b)
  BY <1>4, <1>8, AlikeConcat DEF three
<1>12. one(a) = one(b) /\ two(a) = two(b) /\ three(a) = three(b)
  BY <1>3, <1>9, <1>10, <1>11, LeafIs
<1>13. /\ p1(a) = p1(b) /\ p2(a) = p2(b) /\ p3(a) = p3(b) /\ p4(a) = p4(b) /\ p5(a) = p5(b)
       /\ p6(a) = p6(b) /\ p7(a) = p7(b) /\ p8(a) = p8(b) /\ p9(a) = p9(b)
  BY <1>4, <1>5, <1>6, <1>7, <1>8, <1>9, <1>10, <1>11, <1>12
<1>14. /\ \A f \in ToSet(Names) \cup ToSet(AmountFields) : a[f] = b[f]
       /\ \A f \in {"agreement_id", "epoch_id", "currency_code", "payroll_inputs_hash",
                    "receipt_anchor", "receipt_height", "utc_time_hash"} : a[f] = b[f]
  <2>1. /\ \A f \in ToSet(Names) : a[f] = b[f]
        /\ \A f \in ToSet(AmountFields) : a[f] = b[f]
    BY <1>13, TlvIs, LiteralsListed DEF p3, p5, tlvFieldStr, tlvBigintDec
  <2>2. /\ \A f \in ToSet(<<"agreement_id">>) : a[f] = b[f]
        /\ \A f \in ToSet(<<"epoch_id">>) : a[f] = b[f]
        /\ \A f \in ToSet(<<"currency_code">>) : a[f] = b[f]
    BY <1>13, TlvIs, LiteralsListed DEF p1, p2, p4, tlvBytes32, tlvU32, tlvU8
  <2>3. \A f \in ToSet(<<"payroll_inputs_hash", "receipt_anchor">>) : a[f] = b[f]
    BY <1>13, TlvIs, LiteralsListed DEF p6, tlvBytes32
  <2>4. \A f \in ToSet(<<"receipt_height">>) : a[f] = b[f]
    BY <1>13, TlvIs, LiteralsListed DEF p7, tlvU32
  <2>5. \A f \in ToSet(<<"utc_time_hash">>) : a[f] = b[f]
    BY <1>13, TlvIs, LiteralsListed DEF p9, tlvBytes32
  <2> QED
    BY <2>1, <2>2, <2>3, <2>4, <2>5, GroupIs
<1> QED
  BY <1>13, <1>14, GroupIs DEF Agree, PaystubFields, CommonFields, p8

LEMMA SummaryLeavesBind ==
    ASSUME NEW a, NEW b, computeSummaryLeafHashes(a) = computeSummaryLeafHashes(b)
    PROVE  Agree(a, b, SummaryFields \ ({"period_type"} \cup ToSet(Versions)))
<1> DEFINE p1(d) == tlvBytes32(<<"agreement_id">>, d)
           p2(d) == tlvU8(<<"summary_type">>, d)
           p3(d) == tlvU32(<<"period_start", "period_end">>, d)
           p4(d) == tlvFieldStr(Names, d)
           p5(d) == tlvU8(<<"currency_code">>, d)
           p6(d) == tlvBigintDec(AmountFields, d)
           p7(d) == tlvBytes32(<<"inputs_hash">>, d)
           p8(d) == AuditAnchor(d)
<1>1. /\ Alike(p1(a), p1(b)) /\ Alike(p2(a), p2(b)) /\ Alike(p3(a), p3(b))
      /\ Alike(p4(a), p4(b)) /\ Alike(p5(a), p5(b)) /\ Alike(p6(a), p6(b))
      /\ Alike(p7(a), p7(b)) /\ Alike(p8(a), p8(b))
  BY TlvIs, LiteralsListed, AuditAnchorIs
     DEF tlvU8, tlvU32, tlvBytes32, tlvFieldStr, tlvBigintDec
<1> DEFINE h(d) == p1(d) \o p2(d)
           who(d) == p3(d) \o p4(d)
           figures(d) == p5(d) \o p6(d)
           origin(d) == p7(d) \o p8(d)
           one(d) == h(d) \o who(d)
           two(d) == h(d) \o figures(d)
           three(d) == h(d) \o origin(d)
<1>2. \A d : computeSummaryLeafHashes(d) = <<Leaf("LEAF_SUMMARY", 1, one(d)),
                                              Leaf("LEAF_SUMMARY", 2, two(d)),
                                              Leaf("LEAF_SUMMARY", 3, three(d))>>
  BY DEF computeSummaryLeafHashes
<1> HIDE DEF p1, p2, p3, p4, p5, p6, p7, p8, h, who, figures, origin, one, two, three
<1>3. /\ Leaf("LEAF_SUMMARY", 1, one(a)) = Leaf("LEAF_SUMMARY", 1, one(b))
      /\ Leaf("LEAF_SUMMARY", 2, two(a)) = Leaf("LEAF_SUMMARY", 2, two(b))
      /\ Leaf("LEAF_SUMMARY", 3, three(a)) = Leaf("LEAF_SUMMARY", 3, three(b))
  BY <1>2
<1>4. /\ Alike(h(a), h(b))
      /\ h(a) = h(b) => p1(a) = p1(b) /\ p2(a) = p2(b)
  BY <1>1, AlikeConcat DEF h
<1>5. /\ Alike(who(a), who(b))
      /\ who(a) = who(b) => p3(a) = p3(b) /\ p4(a) = p4(b)
  BY <1>1, AlikeConcat DEF who
<1>6. /\ Alike(figures(a), figures(b))
      /\ figures(a) = figures(b) => p5(a) = p5(b) /\ p6(a) = p6(b)
  BY <1>1, AlikeConcat DEF figures
<1>7. /\ Alike(origin(a), origin(b))
      /\ origin(a) = origin(b) => p7(a) = p7(b) /\ p8(a) = p8(b)
  BY <1>1, AlikeConcat DEF origin
<1>8. /\ Alike(one(a), one(b))
      /\ one(a) = one(b) => h(a) = h(b) /\ who(a) = who(b)
  BY <1>4, <1>5, AlikeConcat DEF one
<1>9. /\ Alike(two(a), two(b))
      /\ two(a) = two(b) => figures(a) = figures(b)
  BY <1>4, <1>6, AlikeConcat DEF two
<1>10. /\ Alike(three(a), three(b))
       /\ three(a) = three(b) => origin(a) = origin(b)
  BY <1>4, <1>7, AlikeConcat DEF three
<1>11. one(a) = one(b) /\ two(a) = two(b) /\ three(a) = three(b)
  BY <1>3, <1>8, <1>9, <1>10, LeafIs
<1>12. /\ p1(a) = p1(b) /\ p2(a) = p2(b) /\ p3(a) = p3(b) /\ p4(a) = p4(b)
       /\ p5(a) = p5(b) /\ p6(a) = p6(b) /\ p7(a) = p7(b) /\ p8(a) = p8(b)
  BY <1>4, <1>5, <1>6, <1>7, <1>8, <1>9, <1>10, <1>11
<1>13. /\ \A f \in ToSet(Names) \cup ToSet(AmountFields) : a[f] = b[f]
       /\ \A f \in {"summary_type", "agreement_id", "period_start", "period_end",
                    "currency_code", "inputs_hash"} : a[f] = b[f]
  <2>1. /\ \A f \in ToSet(Names) : a[f] = b[f]
        /\ \A f \in ToSet(AmountFields) : a[f] = b[f]
    BY <1>12, TlvIs, LiteralsListed DEF p4, p6, tlvFieldStr, tlvBigintDec
  <2>2. /\ \A f \in ToSet(<<"agreement_id">>) : a[f] = b[f]
        /\ \A f \in ToSet(<<"summary_type">>) : a[f] = b[f]
        /\ \A f \in ToSet(<<"currency_code">>) : a[f] = b[f]
    BY <1>12, TlvIs, LiteralsListed DEF p1, p2, p5, tlvBytes32, tlvU8
  <2>3. /\ \A f \in ToSet(<<"period_start", "period_end">>) : a[f] = b[f]
        /\ \A f \in ToSet(<<"inputs_hash">>) : a[f] = b[f]
    BY <1>12, TlvIs, LiteralsListed DEF p3, p7, tlvBytes32, tlvU32
  <2> QED
    BY <2>1, <2>2, <2>3, GroupIs
<1> QED
  BY <1>12, <1>13, GroupIs DEF Agree, SummaryFields, CommonFields, p8

\* A root shows its three leaves, and a leaf its kind of document.
LEMMA RootBinds ==
    ASSUME NEW a \in Docs, NEW b \in Docs,
           merkleRootFromLeafHashes(LeafHashes(a)) = merkleRootFromLeafHashes(LeafHashes(b))
    PROVE  /\ DOMAIN a = DOMAIN b
           /\ \A f \in Bound(a) \ ToSet(Versions) : Filled(a)[f] = Filled(b)[f]
<1>1. LeafHashes(a) = LeafHashes(b)
  <2>1. PICK a1, a2, a3 : LeafHashes(a) = <<a1, a2, a3>>
    BY LeafHashesAre
  <2>2. PICK b1, b2, b3 : LeafHashes(b) = <<b1, b2, b3>>
    BY LeafHashesAre
  <2>3. /\ merkleRootFromLeafHashes(LeafHashes(a)) = <<<<a1, a2>>, <<a3, a3>>>>
        /\ merkleRootFromLeafHashes(LeafHashes(b)) = <<<<b1, b2>>, <<b3, b3>>>>
    BY <2>1, <2>2, RootOfThree
  <2>4. <<<<a1, a2>>, <<a3, a3>>>> = <<<<b1, b2>>, <<b3, b3>>>>
    BY <2>3
  <2>5. a1 = b1 /\ a2 = b2 /\ a3 = b3
    BY <2>4
  <2> QED
    BY <2>1, <2>2, <2>5
<1>2. IsPaystub(a) <=> IsPaystub(b)
  <2>1. /\ \A d : \E x : computePaystubLeafHashes(d)[1] = <<"LEAF_PAYSTUB", x>>
        /\ \A d : \E x : computeSummaryLeafHashes(d)[1] = <<"LEAF_SUMMARY", x>>
    BY DEF computePaystubLeafHashes, computeSummaryLeafHashes, Leaf, encodeObject
  <2> QED
    BY <1>1, <2>1 DEF LeafHashes
<1>3. DOMAIN a = DOMAIN b /\ Agree(a, b, Bound(a) \ ToSet(Versions))
  <2>1. \A d \in Docs : DOMAIN d = IF IsPaystub(d) THEN PaystubFields ELSE SummaryFields
    BY DocsAssumption DEF IsPaystub, PaystubFields, SummaryFields, CommonFields
  <2>2. CASE IsPaystub(a)
    <3>1. Agree(a, b, PaystubFields \ ToSet(Versions))
      BY <1>1, <1>2, <2>2, PaystubLeavesBind DEF LeafHashes
    <3>2. Bound(a) \subseteq PaystubFields
      BY <2>1, <2>2 DEF Bound
    <3> QED
      BY <1>2, <2>1, <2>2, <3>1, <3>2 DEF Agree
  <2>3. CASE ~ IsPaystub(a)
    <3>1. Agree(a, b, SummaryFields \ ({"period_type"} \cup ToSet(Versions)))
      BY <1>1, <1>2, <2>3, SummaryLeavesBind DEF LeafHashes
    <3>2. Bound(a) \ ToSet(Versions) = SummaryFields \ ({"period_type"} \cup ToSet(Versions))
      BY <2>1, <2>3 DEF Bound
    <3> QED
      BY <1>2, <2>1, <2>3, <3>1, <3>2
  <2> QED
    BY <2>2, <2>3
<1> DEFINE fields == Bound(a) \ ToSet(Versions)
<1>4. fields \in SUBSET DOMAIN a /\ Agree(a, b, fields)
  BY <1>3 DEF Bound
<1> HIDE DEF fields
<1>5. \A f \in fields : Filled(a)[f] = Filled(b)[f]
  BY <1>3, <1>4, AgreeingFill
<1> QED
  BY <1>3, <1>5 DEF fields

\* DocumentsAreBound, for all documents and any number of them: an encoding gives back all
\* of its document but a summary's period type, and a root its three leaves and theirs.
THEOREM DocumentsBound == CommitmentsSpec => []DocumentsAreBound
<1>1. IInv => DocumentsAreBound
  <2> SUFFICES ASSUME IInv, NEW a \in committed, NEW b \in committed
               PROVE  /\ DocHash(a) = DocHash(b) =>
                           /\ DOMAIN a = DOMAIN b
                           /\ \A f \in Bound(a) : Filled(a)[f] = Filled(b)[f]
                      /\ merkleRootFromLeafHashes(LeafHashes(a))
                         = merkleRootFromLeafHashes(LeafHashes(b)) =>
                           /\ DOMAIN a = DOMAIN b
                           /\ \A f \in Bound(a) \ ToSet(Versions) : Filled(a)[f] = Filled(b)[f]
    BY DEF DocumentsAreBound, DocHashBindsDocument, RootBindsDocument
  <2>1. a \in Docs /\ b \in Docs
    BY DEF IInv
  <2> QED
    BY <2>1, DocHashBinds, RootBinds
<1> QED
  BY <1>1, Invariance, PTL

----------------------------------------------------------------------------
(* What the hash of an inputs set binds: the sorted items are those of the  *)
(* set in the order of their ranks, whatever order they came in.            *)

\* Receipts as an inputs set lists them: numbered, no two with one anchor.
Receipts(T) ==
    /\ IsFiniteSet(T)
    /\ \A x \in T : x.receipt_anchor \in Nat /\ x.receipt_height \in Nat
    /\ \A x, y \in T : x.receipt_anchor = y.receipt_anchor => x = y

Ahead(T, x) == {y \in T : Earlier(y, x)}
Rank(T, x) == 1 + Cardinality(Ahead(T, x))

LEMMA RankIs ==
    ASSUME NEW T, Receipts(T), NEW x \in T
    PROVE  /\ IsFiniteSet(Ahead(T, x)) /\ Cardinality(Ahead(T, x)) \in Nat
           /\ Rank(T, x) \in 1 .. Cardinality(T)
           /\ Cardinality(T) \in Nat
<1> DEFINE A == Ahead(T, x)
           B == T \ {x}
<1>1. A \in SUBSET B
  BY DEF Ahead, Earlier, Receipts
<1>2. Cardinality(T) \in Nat
  BY FS_CardinalityType DEF Receipts
<1>3. IsFiniteSet(B) /\ Cardinality(B) = Cardinality(T) - 1
  BY FS_RemoveElement DEF Receipts
<1> HIDE DEF A, B
<1>4. IsFiniteSet(A) /\ Cardinality(A) <= Cardinality(B) /\ Cardinality(A) \in Nat
  BY <1>1, <1>3, FS_Subset, FS_CardinalityType
<1>5. Rank(T, x) = 1 + Cardinality(A)
  BY DEF Rank, A
<1>6. Rank(T, x) \in 1 .. Cardinality(T)
  BY <1>2, <1>3, <1>4, <1>5
<1> QED
  BY <1>2, <1>4, <1>6 DEF A

\* No two receipts have one rank: the earlier has fewer ahead of it.
LEMMA RankDiffers ==
    ASSUME NEW T, Receipts(T), NEW x \in T, NEW y \in T, Rank(T, x) = Rank(T, y)
    PROVE  x = y
<1>1. ASSUME NEW u \in T, NEW v \in T, Earlier(u, v) PROVE Rank(T, u) # Rank(T, v)
  <2> DEFINE A == Ahead(T, u)
             B == Ahead(T, v)
  <2>1. A \cup {u} \in SUBSET B /\ u \notin A
    BY <1>1 DEF Ahead, Earlier, Receipts
  <2>2. /\ IsFiniteSet(A) /\ IsFiniteSet(B)
        /\ Cardinality(A) \in Nat /\ Cardinality(B) \in Nat
    BY RankIs
  <2>3. Rank(T, u) = 1 + Cardinality(A) /\ Rank(T, v) = 1 + Cardinality(B)
    BY DEF Rank
  <2> HIDE DEF A, B
  <2>4. Cardinality(A \cup {u}) = Cardinality(A) + 1
    BY <2>1, <2>2, FS_AddElement
  <2>5. Cardinality(A \cup {u}) <= Cardinality(B)
    BY <2>1, <2>2, FS_Subset
  <2> QED
    BY <2>2, <2>3, <2>4, <2>5
<1>2. ~ Earlier(x, y) /\ ~ Earlier(y, x)
  BY <1>1
<1>3. /\ x.receipt_anchor \in Nat /\ x.receipt_height \in Nat
      /\ y.receipt_anchor \in Nat /\ y.receipt_height \in Nat
  BY DEF Receipts
<1>4. x.receipt_anchor = y.receipt_anchor
  BY <1>2, <1>3 DEF Earlier
<1> QED
  BY <1>4 DEF Receipts

\* Items of an inputs set: the receipts of a set, each once.
Items(items) ==
    /\ Listed(items)
    /\ Receipts(ToSet(items))
    /\ \A i, j \in DOMAIN items : items[i] = items[j] => i = j

LEMMA ItemsAre ==
    ASSUME NEW items, Items(items)
    PROVE  /\ Len(items) \in Nat /\ DOMAIN items = 1 .. Len(items)
           /\ ToSet(items) = {items[i] : i \in 1 .. Len(items)}
           /\ Cardinality(ToSet(items)) = Len(items)
<1>1. Len(items) \in Nat /\ DOMAIN items = 1 .. Len(items)
  BY LenProperties DEF Items, Listed
<1> DEFINE N == 1 .. Len(items)
           T == ToSet(items)
<1>2. T = {items[i] : i \in N}
  BY <1>1 DEF ToSet
<1>3. \E f : f \in Bijection(N, T)
  <2> DEFINE f == [i \in N |-> items[i]]
  <2>1. f \in [N -> T]
    BY <1>2
  <2>2. \A i, j \in N : f[i] = f[j] => i = j
    BY <1>1 DEF Items
  <2>3. \A x \in T : \E i \in N : f[i] = x
    BY <1>2
  <2> HIDE DEF f, N, T
  <2>4. f \in Injection(N, T)
    BY <2>1, <2>2 DEF Injection, IsInjective
  <2>5. f \in Surjection(N, T)
    BY <2>1, <2>3 DEF Surjection
  <2> QED
    BY <2>4, <2>5 DEF Bijection
<1>4. IsFiniteSet(N) /\ Cardinality(N) = Len(items)
  <2> DEFINE n == Len(items)
  <2>1. n \in Nat
    BY <1>1
  <2> HIDE DEF n
  <2>2. IsFiniteSet(1 .. n) /\ Cardinality(1 .. n) = n
    BY <2>1, FS_Interval
  <2> QED
    BY <2>2 DEF n
<1> HIDE DEF N, T
<1>5. Cardinality(T) = Cardinality(N)
  BY <1>3, <1>4, FS_Bijection DEF ExistsBijection
<1> QED
  BY <1>1, <1>2, <1>4, <1>5 DEF N, T

\* The place of an item is its rank in the set.
LEMMA PlaceIsRank ==
    ASSUME NEW items, Items(items), NEW i \in DOMAIN items
    PROVE  Place(items, i) = Rank(ToSet(items), items[i])
<1> DEFINE T == ToSet(items)
           N == DOMAIN items
           before == {j \in N : \/ Earlier(items[j], items[i])
                                \/ j < i /\ ~ Earlier(items[i], items[j])}
           A == Ahead(T, items[i])
<1>1. /\ Len(items) \in Nat /\ N = 1 .. Len(items)
      /\ T = {items[j] : j \in N}
  BY ItemsAre
<1>2. /\ \A j \in N : items[j].receipt_anchor \in Nat /\ items[j].receipt_height \in Nat
      /\ \A j \in N : j # i => items[j].receipt_anchor # items[i].receipt_anchor
  BY <1>1 DEF Items, Receipts
<1>3. before = {j \in N : Earlier(items[j], items[i])}
  <2> SUFFICES ASSUME NEW j \in N, j < i, ~ Earlier(items[i], items[j])
               PROVE  Earlier(items[j], items[i])
    OBVIOUS
  <2>1. i \in N /\ i \in Int /\ j \in Int
    BY <1>1
  <2>2. j # i
    BY <2>1
  <2> HIDE DEF N
  <2>3. /\ items[j].receipt_anchor \in Nat /\ items[j].receipt_height \in Nat
        /\ items[i].receipt_anchor \in Nat /\ items[i].receipt_height \in Nat
        /\ items[j].receipt_anchor # items[i].receipt_anchor
    BY <1>2, <2>1, <2>2
  <2> QED
    BY <2>3 DEF Earlier
<1>4. Place(items, i) = 1 + Cardinality(before)
  BY DEF Place
<1>5. \E f : f \in Bijection(before, A)
  <2> DEFINE f == [j \in before |-> items[j]]
  <2>1. f \in [before -> A]
    BY <1>1, <1>3 DEF Ahead
  <2>2. \A j, k \in before : f[j] = f[k] => j = k
    BY DEF Items
  <2>3. \A x \in A : \E j \in before : f[j] = x
    BY <1>1, <1>3 DEF Ahead
  <2> HIDE DEF f, before, A
  <2>4. f \in Injection(before, A)
    BY <2>1, <2>2 DEF Injection, IsInjective
  <2>5. f \in Surjection(before, A)
    BY <2>1, <2>3 DEF Surjection
  <2> QED
    BY <2>4, <2>5 DEF Bijection
<1>6. IsFiniteSet(before)
  <2>1. before \in SUBSET N
    OBVIOUS
  <2>2. IsFiniteSet(N)
    BY <1>1, FS_Interval
  <2> HIDE DEF before, N
  <2> QED
    BY <2>1, <2>2, FS_Subset
<1> HIDE DEF before, A
<1>7. Cardinality(A) = Cardinality(before)
  BY <1>5, <1>6, FS_Bijection DEF ExistsBijection
<1> QED
  BY <1>4, <1>7 DEF Rank, A

\* Every place is taken, so that the sorted items are the set's by rank.
LEMMA SortedIs ==
    ASSUME NEW items, Items(items)
    PROVE  /\ Listed(sortInputs(items)) /\ Len(sortInputs(items)) = Len(items)
           /\ \A k \in 1 .. Len(items) : /\ sortInputs(items)[k] \in ToSet(items)
                                         /\ Rank(ToSet(items), sortInputs(items)[k]) = k
<1> DEFINE T == ToSet(items)
           N == 1 .. Len(items)
           place == [i \in N |-> Place(items, i)]
<1>1. /\ Len(items) \in Nat /\ DOMAIN items = N
      /\ T = {items[i] : i \in N} /\ Cardinality(T) = Len(items)
      /\ Receipts(T)
  BY ItemsAre DEF Items
<1>2. \A i \in N : items[i] \in T /\ Place(items, i) = Rank(T, items[i])
  BY <1>1, PlaceIsRank
<1> HIDE DEF T
<1>3. place \in [N -> N]
  <2> SUFFICES ASSUME NEW i \in N PROVE Place(items, i) \in N
    OBVIOUS
  <2>1. items[i] \in T /\ Place(items, i) = Rank(T, items[i])
    BY <1>2
  <2> QED
    BY <1>1, <2>1, RankIs
<1>4. \A i, j \in N : place[i] = place[j] => i = j
  <2> SUFFICES ASSUME NEW i \in N, NEW j \in N, place[i] = place[j] PROVE i = j
    OBVIOUS
  <2>1. /\ items[i] \in T /\ items[j] \in T
        /\ Rank(T, items[i]) = Rank(T, items[j])
    BY <1>2
  <2>2. items[i] = items[j]
    BY <1>1, <2>1, RankDiffers
  <2> QED
    BY <1>1, <2>2 DEF Items
<1>5. \A k \in N : \E i \in N : Place(items, i) = k
  <2>1. IsFiniteSet(N)
    BY <1>1, FS_Interval
  <2>2. \A k \in N : \E i \in N : place[i] = k
    <3> HIDE DEF place, N
    <3>1. place \in Injection(N, N)
      BY <1>3, <1>4 DEF Injection, IsInjective
    <3>2. place \in Surjection(N, N)
      BY <2>1, <3>1, FS_Injection
    <3> QED
      BY <3>2 DEF Surjection
  <2> QED
    BY <2>2
<1> DEFINE sorted == sortInputs(items)
           at(k) == CHOOSE i \in N : Place(items, i) = k
<1>6. sorted = [k \in N |-> items[at(k)]]
  BY <1>1 DEF sortInputs
<1>7. \A k \in N : at(k) \in N /\ Place(items, at(k)) = k
  BY <1>5
<1> HIDE DEF place, at
<1>8. \A k \in N : sorted[k] \in T /\ Rank(T, sorted[k]) = k
  BY <1>2, <1>6, <1>7
<1>9. sorted = [k \in N |-> sorted[k]]
  BY <1>6
<1> HIDE DEF sorted
<1>10. Listed(sorted) /\ Len(sorted) = Len(items)
  BY <1>1, <1>9, ListedIs
<1> QED
  BY <1>8, <1>10 DEF sorted, T

\* Sorting forgets the order the items came in, and nothing else.
LEMMA SortedOfSet ==
    ASSUME NEW s, Items(s), NEW t, Items(t)
    PROVE  sortInputs(s) = sortInputs(t) <=> ToSet(s) = ToSet(t) /\ Len(s) = Len(t)
<1> DEFINE S == ToSet(s)
           T == ToSet(t)
           m == Len(s)
           n == Len(t)
           u == sortInputs(s)
           v == sortInputs(t)
<1>1. /\ m \in Nat /\ Cardinality(S) = m /\ Receipts(S)
      /\ n \in Nat /\ Cardinality(T) = n /\ Receipts(T)
  BY ItemsAre DEF Items
<1>2. /\ Listed(u) /\ Len(u) = m
      /\ \A k \in 1 .. m : u[k] \in S /\ Rank(S, u[k]) = k
  BY SortedIs
<1>3. /\ Listed(v) /\ Len(v) = n
      /\ \A k \in 1 .. n : v[k] \in T /\ Rank(T, v[k]) = k
  BY SortedIs
<1> HIDE DEF S, T, m, n, u, v
<1>4. ASSUME u = v PROVE S = T /\ m = n
  <2>1. m = n
    BY <1>2, <1>3, <1>4
  <2>2. \A x \in S : x \in T
    <3> SUFFICES ASSUME NEW x \in S PROVE x \in T
      OBVIOUS
    <3> DEFINE k == Rank(S, x)
    <3>1. k \in 1 .. m
      BY <1>1, RankIs
    <3>2. u[k] \in S /\ Rank(S, u[k]) = k
      BY <1>2, <3>1
    <3>3. x = u[k]
      BY <1>1, <3>2, RankDiffers
    <3> HIDE DEF k
    <3> QED
      BY <1>3, <1>4, <2>1, <3>1, <3>3
  <2>3. \A x \in T : x \in S
    <3> SUFFICES ASSUME NEW x \in T PROVE x \in S
      OBVIOUS
    <3> DEFINE k == Rank(T, x)
    <3>1. k \in 1 .. n
      BY <1>1, RankIs
    <3>2. v[k] \in T /\ Rank(T, v[k]) = k
      BY <1>3, <3>1
    <3>3. x = v[k]
      BY <1>1, <3>2, RankDiffers
    <3> HIDE DEF k
    <3> QED
      BY <1>2, <1>4, <2>1, <3>1, <3>3
  <2> QED
    BY <2>1, <2>2, <2>3
<1>5. ASSUME S = T, m = n PROVE u = v
  <2>1. \A k \in 1 .. m : u[k] = v[k]
    <3> SUFFICES ASSUME NEW k \in 1 .. m PROVE u[k] = v[k]
      OBVIOUS
    <3>1. u[k] \in S /\ Rank(S, u[k]) = k
      BY <1>2
    <3>2. v[k] \in S /\ Rank(S, v[k]) = k
      BY <1>3, <1>5
    <3> QED
      BY <1>1, <3>1, <3>2, RankDiffers
  <2>2. /\ u \in Seq(ToSet(u) \cup ToSet(v)) /\ v \in Seq(ToSet(u) \cup ToSet(v))
    <3>1. ToSet(u) \subseteq ToSet(u) \cup ToSet(v) /\ ToSet(v) \subseteq ToSet(u) \cup ToSet(v)
      OBVIOUS
    <3> QED
      BY <1>2, <1>3, <3>1, SeqMonotonic DEF Listed
  <2> DEFINE X == ToSet(u) \cup ToSet(v)
  <2> HIDE DEF X
  <2>3. u \in Seq(X) /\ v \in Seq(X)
    BY <2>2 DEF X
  <2>4. Len(u) = Len(v) /\ \A k \in 1 .. Len(u) : u[k] = v[k]
    BY <1>2, <1>3, <1>5, <2>1
  <2> QED
    BY <2>3, <2>4, SeqEqual
<1> QED
  BY <1>4, <1>5 DEF S, T, m, n, u, v

\* The values of the items, four of each, give the items back.
LEMMA EncodedItems ==
    ASSUME NEW s, Listed(s)
    PROVE  /\ Listed(encodeItems(s)) /\ Len(encodeItems(s)) = 4 * Len(s)
           /\ \A i \in 1 .. Len(s), m \in 1 .. 4 :
                 /\ 4 * (i - 1) + m \in 1 .. 4 * Len(s)
                 /\ encodeItems(s)[4 * (i - 1) + m] = encodeItem(s[i])[m]
<1> DEFINE n == Len(s)
           e == encodeItems(s)
<1>1. n \in Nat /\ 4 * n \in Nat
  BY LenProperties DEF Listed
<1>2. e = [k \in 1 .. 4 * n |-> encodeItem(s[(k + 3) \div 4])[1 + ((k + 3) % 4)]]
  BY DEF encodeItems
<1> HIDE DEF n, e
<1>3. Listed(e) /\ Len(e) = 4 * n
  <2>1. e = [k \in 1 .. 4 * n |-> e[k]]
    BY <1>2
  <2> DEFINE N == 4 * n
  <2>2. N \in Nat /\ e = [k \in 1 .. N |-> e[k]]
    BY <1>1, <2>1
  <2> HIDE DEF N
  <2>3. Listed(e) /\ Len(e) = N
    BY <2>2, ListedIs
  <2> QED
    BY <2>3 DEF N
<1>4. ASSUME NEW i \in 1 .. n, NEW m \in 1 .. 4
      PROVE  /\ 4 * (i - 1) + m \in 1 .. 4 * n
             /\ e[4 * (i - 1) + m] = encodeItem(s[i])[m]
  <2> DEFINE k == 4 * (i - 1) + m
  <2>1. k \in 1 .. 4 * n /\ (k + 3) \div 4 = i /\ 1 + ((k + 3) % 4) = m
    BY <1>1
  <2> HIDE DEF k
  <2>2. e[k] = encodeItem(s[(k + 3) \div 4])[1 + ((k + 3) % 4)]
    BY <1>2, <2>1
  <2>3. e[k] = encodeItem(s[i])[m]
    BY <2>1, <2>2
  <2> QED
    BY <2>1, <2>3 DEF k
<1> QED
  BY <1>3, <1>4 DEF n, e

\* A receipt as an item of an inputs set.
Item(it) == DOMAIN it = ItemFields /\ it = [f \in ItemFields |-> it[f]]

LEMMA ItemsEncoded ==
    ASSUME NEW s, Listed(s), NEW t, Listed(t), Len(s) = Len(t),
           \A i \in 1 .. Len(s) : Item(s[i]) /\ Item(t[i]),
           encodeItems(s) = encodeItems(t)
    PROVE  s = t
<1> DEFINE n == Len(s)
<1>1. ASSUME NEW i \in 1 .. n PROVE s[i] = t[i]
  <2>1. \A m \in 1 .. 4 : encodeItem(s[i])[m] = encodeItem(t[i])[m]
    <3> SUFFICES ASSUME NEW m \in 1 .. 4 PROVE encodeItem(s[i])[m] = encodeItem(t[i])[m]
      OBVIOUS
    <3>1. encodeItems(s)[4 * (i - 1) + m] = encodeItem(s[i])[m]
      BY EncodedItems
    <3>2. encodeItems(t)[4 * (i - 1) + m] = encodeItem(t[i])[m]
      BY EncodedItems
    <3> QED
      BY <3>1, <3>2
  <2> DEFINE x == s[i]
             y == t[i]
  <2>2. Item(x) /\ Item(y)
    OBVIOUS
  <2>3. \A m \in 1 .. 4 : encodeItem(x)[m] = encodeItem(y)[m]
    BY <2>1
  <2> HIDE DEF x, y
  <2>4. /\ encodeItem(x)[1] = encodeItem(y)[1] /\ encodeItem(x)[2] = encodeItem(y)[2]
        /\ encodeItem(x)[3] = encodeItem(y)[3] /\ encodeItem(x)[4] = encodeItem(y)[4]
    BY <2>3
  <2>5. /\ x.receipt_anchor = y.receipt_anchor /\ x.receipt_height = y.receipt_height
        /\ x.payroll_inputs_hash = y.payroll_inputs_hash /\ x.kind = y.kind
    BY <2>4 DEF encodeItem
  <2>6. x = y
    BY <2>2, <2>5 DEF Item, ItemFields
  <2> QED
    BY <2>6 DEF x, y
<1> DEFINE X == ToSet(s) \cup ToSet(t)
<1>2. s \in Seq(X) /\ t \in Seq(X)
  <2>1. ToSet(s) \subseteq X /\ ToSet(t) \subseteq X
    OBVIOUS
  <2> HIDE DEF X
  <2> QED
    BY <2>1, SeqMonotonic DEF Listed
<1> HIDE DEF X
<1>3. Len(s) = Len(t) /\ \A i \in 1 .. Len(s) : s[i] = t[i]
  BY <1>1
<1> QED
  BY <1>2, <1>3, SeqEqual

\* Lists behind lists of one length.
LEMMA HeadAlike ==
    ASSUME NEW s1, NEW t1, Alike(s1, t1), NEW s2, NEW t2, Listed(s2), Listed(t2)
    PROVE  s1 \o s2 = t1 \o t2 => s1 = t1 /\ s2 = t2
<1> DEFINE S == ToSet(s1) \cup ToSet(s2) \cup ToSet(t1) \cup ToSet(t2)
<1>1. s1 \in Seq(S) /\ s2 \in Seq(S) /\ t1 \in Seq(S) /\ t2 \in Seq(S)
  <2>1. /\ ToSet(s1) \subseteq S /\ ToSet(s2) \subseteq S
        /\ ToSet(t1) \subseteq S /\ ToSet(t2) \subseteq S
    OBVIOUS
  <2> HIDE DEF S
  <2> QED
    BY <2>1, SeqMonotonic DEF Alike, Listed
<1> HIDE DEF S
<1>2. /\ Len(s1) \in Nat /\ Len(t1) \in Nat /\ Len(s2) \in Nat /\ Len(t2) \in Nat
      /\ Len(s1) = Len(t1)
  BY <1>1, LenProperties DEF Alike
<1>3. Len(s1 \o s2) = Len(s1) + Len(s2) /\ Len(t1 \o t2) = Len(t1) + Len(t2)
  <2>1. \A x, y \in Seq(S) : Len(x \o y) = Len(x) + Len(y)
    BY ConcatProperties
  <2> QED
    BY <1>1, <2>1
<1>4. ASSUME s1 \o s2 = t1 \o t2 PROVE Len(s2) = Len(t2)
  <2> DEFINE l1 == Len(s1)
             m1 == Len(t1)
             l2 == Len(s2)
             m2 == Len(t2)
  <2>1. l1 + l2 = m1 + m2
    BY <1>3, <1>4
  <2> HIDE DEF l1, m1, l2, m2
  <2>2. l2 = m2
    <3>1. /\ l1 \in Nat /\ m1 \in Nat /\ l2 \in Nat /\ m2 \in Nat
          /\ l1 = m1
      BY <1>2 DEF l1, m1, l2, m2
    <3> QED
      BY <2>1, <3>1
  <2> QED
    BY <2>2 DEF l2, m2
<1>5. Len(s2) = Len(t2) => (s1 \o s2 = t1 \o t2 => s1 = t1 /\ s2 = t2)
  <2> SUFFICES ASSUME Len(s2) = Len(t2)
               PROVE  s1 \o s2 = t1 \o t2 => s1 = t1 /\ s2 = t2
    OBVIOUS
  <2>1. Alike(s2, t2)
    BY DEF Alike
  <2> QED
    BY <2>1, AlikeConcat
<1> QED
  BY <1>4, <1>5

LEMMA SetsAre ==
    ASSUME NEW set \in InputsSets
    PROVE  /\ DOMAIN set = InputsFields
           /\ Items(set.items)
           /\ \A it \in ToSet(set.items) : Item(it)
<1> DEFINE items == set.items
           T == ToSet(items)
<1>1. /\ DOMAIN set = InputsFields /\ items \in Seq(T)
      /\ \A it \in T : Item(it) /\ it.receipt_anchor \in Nat /\ it.receipt_height \in Nat
      /\ \A i, j \in DOMAIN items : items[i].receipt_anchor = items[j].receipt_anchor => i = j
  BY InputsAssumption DEF Item
<1> HIDE DEF items, T
<1>2. Len(items) \in Nat /\ DOMAIN items = 1 .. Len(items)
  BY <1>1, LenProperties
<1>3. T = {items[i] : i \in 1 .. Len(items)}
  BY <1>2 DEF T, ToSet
<1>4. Receipts(T)
  <2>1. \A x, y \in T : x.receipt_anchor = y.receipt_anchor => x = y
    BY <1>1, <1>2, <1>3
  <2>2. IsFiniteSet(T)
    <3> DEFINE N == 1 .. Len(items)
               f == [i \in N |-> items[i]]
    <3>1. IsFiniteSet(N)
      BY <1>2, FS_Interval
    <3>2. f \in Surjection(N, T)
      BY <1>3 DEF Surjection
    <3> HIDE DEF N, f
    <3> QED
      BY <3>1, <3>2, FS_Surjection
  <2> QED
    BY <1>1, <2>1, <2>2 DEF Receipts
<1>5. Items(items)
  BY <1>1, <1>4 DEF Items, Listed, T
<1> QED
  BY <1>1, <1>5 DEF items, T

\* What comes before the items in the encoding of an inputs set.
Heading(set) ==
    tlvU16(Versions, set) \o tlvBytes32(<<"agreement_id">>, set)
    \o tlvU8(<<"period_type">>, set) \o tlvU32(<<"period_start", "period_end">>, set)
    \o tlvU8(<<"currency_code">>, set) \o <<<<"u32", Len(set.items)>>>>

HeaderFields == InputsFields \ {"items"}

LEMMA HeadingBinds ==
    ASSUME NEW a, NEW b
    PROVE  /\ Alike(Heading(a), Heading(b))
           /\ Heading(a) = Heading(b) <=> /\ \A f \in HeaderFields : a[f] = b[f]
                                          /\ Len(a.items) = Len(b.items)
<1> DEFINE p1(d) == tlvU16(Versions, d)
           p2(d) == tlvBytes32(<<"agreement_id">>, d)
           p3(d) == tlvU8(<<"period_type">>, d)
           p4(d) == tlvU32(<<"period_start", "period_end">>, d)
           p5(d) == tlvU8(<<"currency_code">>, d)
           p6(d) == <<<<"u32", Len(d.items)>>>>
<1>1. /\ Alike(p1(a), p1(b)) /\ Alike(p2(a), p2(b)) /\ Alike(p3(a), p3(b))
      /\ Alike(p4(a), p4(b)) /\ Alike(p5(a), p5(b))
  BY TlvIs, LiteralsListed DEF tlvU8, tlvU16, tlvU32, tlvBytes32
<1>2. /\ Alike(p6(a), p6(b))
      /\ p6(a) = p6(b) <=> Len(a.items) = Len(b.items)
  <2> DEFINE count(d) == Len(d.items)
  <2>1. \A d : p6(d) = <<<<"u32", count(d)>>>>
    OBVIOUS
  <2> HIDE DEF p6, count
  <2>2. \A d : Listed(p6(d)) /\ Len(p6(d)) = 1
    BY <2>1, LiteralsListed
  <2>3. p6(a) = p6(b) <=> count(a) = count(b)
    BY <2>1
  <2> QED
    BY <2>2, <2>3 DEF Alike, count
<1> DEFINE q2(d) == p1(d) \o p2(d)
           q3(d) == q2(d) \o p3(d)
           q4(d) == q3(d) \o p4(d)
           q5(d) == q4(d) \o p5(d)
           q6(d) == q5(d) \o p6(d)
<1>3. \A d : Heading(d) = q6(d)
  BY DEF Heading
<1>4. /\ p1(a) = p1(b) <=> \A f \in ToSet(Versions) : a[f] = b[f]
      /\ p2(a) = p2(b) <=> \A f \in ToSet(<<"agreement_id">>) : a[f] = b[f]
      /\ p3(a) = p3(b) <=> \A f \in ToSet(<<"period_type">>) : a[f] = b[f]
      /\ p4(a) = p4(b) <=> \A f \in ToSet(<<"period_start", "period_end">>) : a[f] = b[f]
      /\ p5(a) = p5(b) <=> \A f \in ToSet(<<"currency_code">>) : a[f] = b[f]
  <2>1. ASSUME NEW type, NEW fields, Listed(fields)
        PROVE  Tlv(type, fields, a) = Tlv(type, fields, b) <=>
                  \A f \in ToSet(fields) : a[f] = b[f]
    <3>1. ASSUME \A f \in ToSet(fields) : a[f] = b[f]
          PROVE  Tlv(type, fields, a) = Tlv(type, fields, b)
      BY <3>1 DEF Tlv, ToSet
    <3> QED
      BY <2>1, <3>1, TlvIs
  <2>2. p1(a) = p1(b) <=> \A f \in ToSet(Versions) : a[f] = b[f]
    BY <2>1, LiteralsListed DEF tlvU16
  <2>3. /\ p2(a) = p2(b) <=> \A f \in ToSet(<<"agreement_id">>) : a[f] = b[f]
        /\ p3(a) = p3(b) <=> \A f \in ToSet(<<"period_type">>) : a[f] = b[f]
        /\ p5(a) = p5(b) <=> \A f \in ToSet(<<"currency_code">>) : a[f] = b[f]
    BY <2>1, LiteralsListed DEF tlvU8, tlvBytes32
  <2>4. p4(a) = p4(b) <=> \A f \in ToSet(<<"period_start", "period_end">>) : a[f] = b[f]
    BY <2>1, LiteralsListed DEF tlvU32
  <2> QED
    BY <2>2, <2>3, <2>4
<1> HIDE DEF p1, p2, p3, p4, p5, p6, q2, q3, q4, q5, q6
<1>5. /\ Alike(q2(a), q2(b))
      /\ q2(a) = q2(b) => p1(a) = p1(b) /\ p2(a) = p2(b)
  BY <1>1, AlikeConcat DEF q2
<1>6. /\ Alike(q3(a), q3(b))
      /\ q3(a) = q3(b) => q2(a) = q2(b) /\ p3(a) = p3(b)
  BY <1>1, <1>5, AlikeConcat DEF q3
<1>7. /\ Alike(q4(a), q4(b))
      /\ q4(a) = q4(b) => q3(a) = q3(b) /\ p4(a) = p4(b)
  BY <1>1, <1>6, AlikeConcat DEF q4
<1>8. /\ Alike(q5(a), q5(b))
      /\ q5(a) = q5(b) => q4(a) = q4(b) /\ p5(a) = p5(b)
  BY <1>1, <1>7, AlikeConcat DEF q5
<1>9. /\ Alike(q6(a), q6(b))
      /\ q6(a) = q6(b) => q5(a) = q5(b) /\ p6(a) = p6(b)
  BY <1>2, <1>8, AlikeConcat DEF q6
<1>10. q6(a) = q6(b) <=> /\ p1(a) = p1(b) /\ p2(a) = p2(b) /\ p3(a) = p3(b)
                         /\ p4(a) = p4(b) /\ p5(a) = p5(b) /\ p6(a) = p6(b)
  <2>1. ASSUME /\ p1(a) = p1(b) /\ p2(a) = p2(b) /\ p3(a) = p3(b)
               /\ p4(a) = p4(b) /\ p5(a) = p5(b) /\ p6(a) = p6(b)
        PROVE  q6(a) = q6(b)
    BY <2>1 DEF q2, q3, q4, q5, q6
  <2> QED
    BY <1>5, <1>6, <1>7, <1>8, <1>9, <2>1
<1>11. HeaderFields = ToSet(Versions) \cup ToSet(<<"agreement_id">>)
                      \cup ToSet(<<"period_type">>)
                      \cup ToSet(<<"period_start", "period_end">>)
                      \cup ToSet(<<"currency_code">>)
  BY GroupIs DEF HeaderFields, InputsFields
<1>12. (\A f \in HeaderFields : a[f] = b[f]) <=>
          /\ p1(a) = p1(b) /\ p2(a) = p2(b) /\ p3(a) = p3(b)
          /\ p4(a) = p4(b) /\ p5(a) = p5(b)
  BY <1>4, <1>11
<1> QED
  BY <1>2, <1>3, <1>9, <1>10, <1>12

\* InputsHashIsOfTheSet, for all inputs sets.
THEOREM InputsBound == CommitmentsSpec => []InputsHashIsOfTheSet
<1>1. ASSUME NEW a \in InputsSets, NEW b \in InputsSets
      PROVE  computeInputsHash(a) = computeInputsHash(b) <=>
                /\ Header(a) = Header(b)
                /\ ToSet(a.items) = ToSet(b.items) /\ Len(a.items) = Len(b.items)
  <2> DEFINE s(d) == sortInputs(d.items)
             e(d) == encodeItems(s(d))
             same == \A f \in HeaderFields : a[f] = b[f]
  <2>1. ASSUME NEW d \in {a, b}
        PROVE  /\ DOMAIN d = InputsFields /\ Items(d.items)
               /\ Len(d.items) \in Nat
               /\ Listed(s(d)) /\ Len(s(d)) = Len(d.items)
               /\ \A i \in 1 .. Len(d.items) : Item(s(d)[i])
               /\ computeInputsHash(d) = <<"INPUTS_SET", Heading(d) \o e(d)>>
    <3>1. /\ DOMAIN d = InputsFields /\ Items(d.items)
          /\ \A it \in ToSet(d.items) : Item(it)
      BY SetsAre
    <3>2. Len(d.items) \in Nat
      BY <3>1, ItemsAre
    <3>3. /\ Listed(s(d)) /\ Len(s(d)) = Len(d.items)
          /\ \A i \in 1 .. Len(d.items) : s(d)[i] \in ToSet(d.items)
      BY <3>1, SortedIs
    <3> HIDE DEF s
    <3>4. \A i \in 1 .. Len(d.items) : Item(s(d)[i])
      BY <3>1, <3>3
    <3>5. computeInputsHash(d) = <<"INPUTS_SET", Heading(d) \o e(d)>>
      BY <3>3 DEF computeInputsHash, encodeObject, Heading, s
    <3> QED
      BY <3>1, <3>2, <3>3, <3>4, <3>5
  <2>2. s(a) = s(b) <=> ToSet(a.items) = ToSet(b.items) /\ Len(a.items) = Len(b.items)
    BY <2>1, SortedOfSet
  <2>3. Header(a) = Header(b) <=> same
    BY <2>1 DEF Header, HeaderFields
  <2>4. /\ Alike(Heading(a), Heading(b))
        /\ Heading(a) = Heading(b) <=> same /\ Len(a.items) = Len(b.items)
    BY HeadingBinds
  <2> HIDE DEF s, same
  <2>5. computeInputsHash(a) = computeInputsHash(b) <=> Heading(a) \o e(a) = Heading(b) \o e(b)
    <3> DEFINE x(d) == Heading(d) \o e(d)
    <3>1. /\ computeInputsHash(a) = <<"INPUTS_SET", x(a)>>
          /\ computeInputsHash(b) = <<"INPUTS_SET", x(b)>>
      BY <2>1
    <3> HIDE DEF x
    <3>2. computeInputsHash(a) = computeInputsHash(b) <=> x(a) = x(b)
      BY <3>1
    <3> QED
      BY <3>2 DEF x
  <2>6. Heading(a) \o e(a) = Heading(b) \o e(b) <=> Heading(a) = Heading(b) /\ s(a) = s(b)
    <3>1. Listed(e(a)) /\ Listed(e(b))
      BY <2>1, EncodedItems
    <3>2. ASSUME Heading(a) \o e(a) = Heading(b) \o e(b)
          PROVE  Heading(a) = Heading(b) /\ s(a) = s(b)
      <4>1. Heading(a) = Heading(b) /\ e(a) = e(b)
        BY <2>4, <3>1, <3>2, HeadAlike
      <4>2. Len(s(a)) = Len(s(b))
        BY <2>1, <2>4, <4>1
      <4>3. /\ Listed(s(a)) /\ Listed(s(b))
            /\ \A i \in 1 .. Len(s(a)) : Item(s(a)[i]) /\ Item(s(b)[i])
        BY <2>1, <4>2
      <4>4. s(a) = s(b)
        BY <4>1, <4>2, <4>3, ItemsEncoded
      <4> QED
        BY <4>1, <4>4
    <3> QED
      BY <3>2
  <2> QED
    BY <2>2, <2>3, <2>4, <2>5, <2>6
<1>2. IInv => InputsHashIsOfTheSet
  BY <1>1 DEF IInv, InputsHashIsOfTheSet
<1> QED
  BY <1>2, Invariance, PTL
=============================================================================
