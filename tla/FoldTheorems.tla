---------------------------- MODULE FoldTheorems ----------------------------
(***************************************************************************)
(* Facts about folds, for the ledgers and the reports.  First, sums over   *)
(* finite sets: what MapThenSumSet returns when one element is added or    *)
(* removed, or one amount changes.  It picks the elements in an order of   *)
(* its own; that the order is without effect is SumRemove.  Then folds     *)
(* over sequences: FoldLeft goes through a sequence of values, one per     *)
(* prefix.  Induction is stated over a set Good of subsets or of numbers,  *)
(* which keeps it first order.                                             *)
(***************************************************************************)
EXTENDS Integers, FiniteSetsExt, FiniteSetTheorems, TLAPS

\* The sum of f[x] over the elements of S.
SumOver(f, S) == MapThenSumSet(LAMBDA x : f[x], S)

----------------------------------------------------------------------------
\* Induction over the subsets of a finite set: a set of subsets holds the whole set if
\* it holds the empty one, and every set from which it holds all that lack one element.
LEMMA SubsetInduction ==
    ASSUME NEW S, IsFiniteSet(S), NEW Good, {} \in Good,
           \A s \in SUBSET S : (s # {} /\ \A x \in s : s \ {x} \in Good) => s \in Good
    PROVE  S \in Good
<1> DEFINE Bad == {s \in SUBSET S : s \notin Good}
<1> SUFFICES ASSUME Bad # {} PROVE FALSE
  OBVIOUS
<1>1. Bad \subseteq FiniteSubsetsOf(S)
  BY FS_Subset DEF FiniteSubsetsOf
<1>2. PICK least \in Bad : \A y \in Bad : ~ (<<y, least>> \in StrictSubsetOrdering(S))
  <2> HIDE DEF Bad
  <2> QED
    BY <1>1, WFMin, FS_StrictSubsetOrderingWellFounded
<1>3. \A x \in least : <<least \ {x}, least>> \in StrictSubsetOrdering(S)
  BY DEF StrictSubsetOrdering
<1> QED
  BY <1>2, <1>3

----------------------------------------------------------------------------
\* A fold over the subsets of S that are in T: it takes the elements in the order in
\* which c picks them, and step[x] is what it does with x.
Folds(g, base, c, step, T) ==
    g = [s \in T |-> IF s = {} THEN base ELSE step[c[s]][g[s \ {c[s]}]]]

Picks(c, S) == \A s \in SUBSET S : s # {} => c[s] \in s

Small(S, n) == {s \in SUBSET S : Cardinality(s) <= n}

\* One more step of a fold.
LEMMA FoldsStep ==
    ASSUME NEW S, IsFiniteSet(S), NEW base, NEW c, Picks(c, S), NEW step,
           NEW n \in Nat, NEW g, Folds(g, base, c, step, Small(S, n))
    PROVE  \E h : Folds(h, base, c, step, Small(S, n + 1))
<1> DEFINE h == [s \in Small(S, n + 1) |->
                    IF s = {} THEN base ELSE step[c[s]][g[s \ {c[s]}]]]
<1>1. ASSUME NEW s \in Small(S, n + 1), s # {}
      PROVE  s \ {c[s]} \in Small(S, n)
  <2>1. IsFiniteSet(s) /\ Cardinality(s) \in Nat
    BY FS_Subset, FS_CardinalityType DEF Small
  <2>2. Cardinality(s \ {c[s]}) = Cardinality(s) - 1
    BY <1>1, <2>1, FS_RemoveElement DEF Picks, Small
  <2> QED
    BY <2>1, <2>2 DEF Small
<1>2. \A s \in Small(S, n) : s \in Small(S, n + 1)
  <2> SUFFICES ASSUME NEW s \in Small(S, n) PROVE s \in Small(S, n + 1)
    OBVIOUS
  <2>1. Cardinality(s) \in Nat
    BY FS_Subset, FS_CardinalityType DEF Small
  <2> QED
    BY <2>1 DEF Small
<1>3. \A s \in Small(S, n) : h[s] = g[s]
  BY <1>2 DEF Folds
<1>4. h = [s \in Small(S, n + 1) |->
              IF s = {} THEN base ELSE step[c[s]][h[s \ {c[s]}]]]
  <2> \A s \in Small(S, n + 1) : s # {} => h[s \ {c[s]}] = g[s \ {c[s]}]
    BY <1>1, <1>3
  <2> QED
    OBVIOUS
<1> QED
  BY <1>4 DEF Folds

\* Hence one that covers every subset.
LEMMA FoldsExist ==
    ASSUME NEW S, IsFiniteSet(S), NEW base, NEW c, Picks(c, S), NEW step
    PROVE  \E g : Folds(g, base, c, step, SUBSET S)
<1> DEFINE Good == {s \in SUBSET S :
                        \E g : Folds(g, base, c, step, Small(S, Cardinality(s)))}
<1>1. {} \in Good
  <2> DEFINE z == [s \in Small(S, 0) |-> base]
  <2>1. \A s \in Small(S, 0) : s = {}
    <3> SUFFICES ASSUME NEW s \in Small(S, 0) PROVE s = {}
      OBVIOUS
    <3>1. IsFiniteSet(s) /\ Cardinality(s) \in Nat /\ Cardinality(s) <= 0
      BY FS_Subset, FS_CardinalityType DEF Small
    <3> QED
      BY <3>1, FS_EmptySet
  <2>2. Folds(z, base, c, step, Small(S, 0))
    BY <2>1 DEF Folds
  <2> QED
    BY <2>2, FS_EmptySet
<1>2. ASSUME NEW s \in SUBSET S, s # {}, \A x \in s : s \ {x} \in Good
      PROVE  s \in Good
  <2> DEFINE r == s \ {c[s]}
  <2>1. IsFiniteSet(s) /\ Cardinality(s) \in Nat /\ c[s] \in s
    BY <1>2, FS_Subset, FS_CardinalityType DEF Picks
  <2>2. r \in Good /\ Cardinality(r) \in Nat /\ Cardinality(s) = Cardinality(r) + 1
    <3>2. r \in Good /\ Cardinality(r) = Cardinality(s) - 1
      BY <1>2, <2>1, FS_RemoveElement
    <3>3. IsFiniteSet(r)
      BY <2>1, FS_RemoveElement
    <3>4. Cardinality(r) \in Nat
      BY <3>3, FS_CardinalityType
    <3> HIDE DEF r, Good
    <3> QED
      BY <2>1, <3>2, <3>4
  <2>3. PICK g : Folds(g, base, c, step, Small(S, Cardinality(r)))
    BY <2>2
  <2> HIDE DEF r
  <2>4. \E h : Folds(h, base, c, step, Small(S, Cardinality(s)))
    BY <2>2, <2>3, FoldsStep
  <2> QED
    BY <2>4
<1>3. S \in Good
  <2> HIDE DEF Good
  <2> QED
    BY <1>1, <1>2, SubsetInduction
<1>4. Small(S, Cardinality(S)) = SUBSET S
  BY FS_Subset DEF Small
<1> QED
  BY <1>3, <1>4

\* A fold whose steps stay in V has its values there.
LEMMA FoldsRange ==
    ASSUME NEW S, IsFiniteSet(S), NEW V, NEW base \in V, NEW c, Picks(c, S),
           NEW step \in [S -> [V -> V]], NEW g, Folds(g, base, c, step, SUBSET S)
    PROVE  \A s \in SUBSET S : g[s] \in V
<1> SUFFICES ASSUME NEW T \in SUBSET S PROVE g[T] \in V
  OBVIOUS
<1> DEFINE Good == {s \in SUBSET T : g[s] \in V}
<1>0. IsFiniteSet(T)
  BY FS_Subset
<1>1. {} \in Good
  BY DEF Folds
<1>2. ASSUME NEW s \in SUBSET T, s # {}, \A x \in s : s \ {x} \in Good
      PROVE  s \in Good
  <2>1. c[s] \in s /\ c[s] \in S
    BY <1>2 DEF Picks
  <2>2. g[s] = step[c[s]][g[s \ {c[s]}]]
    BY <1>2 DEF Folds
  <2>3. step[c[s]] \in [V -> V] /\ g[s \ {c[s]}] \in V
    BY <1>2, <2>1
  <2>4. g[s] \in V
    BY <2>2, <2>3
  <2> QED
    BY <2>4
<1>3. T \in Good
  <2> HIDE DEF Good
  <2> QED
    BY <1>0, <1>1, <1>2, SubsetInduction
<1> QED
  BY <1>3

----------------------------------------------------------------------------
Chosen(s) == CHOOSE x \in s : TRUE

LEMMA ChosenIn == ASSUME NEW s, s # {} PROVE Chosen(s) \in s
BY DEF Chosen

\* A running sum over the subsets of S that are in T.
Runs(g, f, T) ==
    g = [s \in T |-> IF s = {} THEN 0 ELSE f[Chosen(s)] + g[s \ {Chosen(s)}]]

\* A running sum is a fold.
LEMMA RunsExist ==
    ASSUME NEW D, NEW f \in [D -> Int], NEW S \in SUBSET D, IsFiniteSet(S)
    PROVE  \E g : Runs(g, f, SUBSET S)
<1> DEFINE c == [s \in SUBSET S |-> Chosen(s)]
           step == [x \in S |-> [v \in Int |-> f[x] + v]]
<1>1. Picks(c, S)
  BY ChosenIn DEF Picks
<1>2. step \in [S -> [Int -> Int]]
  OBVIOUS
<1>3. PICK g : Folds(g, 0, c, step, SUBSET S)
  <2> HIDE DEF c, step
  <2> QED
    BY <1>1, FoldsExist
<1>4. \A s \in SUBSET S : g[s] \in Int
  <2> HIDE DEF c, step
  <2>1. 0 \in Int
    OBVIOUS
  <2> QED
    BY <1>1, <1>2, <1>3, <2>1, FoldsRange, Zenon
<1>5. ASSUME NEW s \in SUBSET S, s # {}
      PROVE  step[c[s]][g[s \ {c[s]}]] = f[Chosen(s)] + g[s \ {Chosen(s)}]
  <2>1. c[s] = Chosen(s) /\ Chosen(s) \in S /\ s \ {Chosen(s)} \in SUBSET S
    BY <1>5, ChosenIn
  <2> QED
    BY <1>4, <2>1
<1> HIDE DEF c, step
<1>6. g = [s \in SUBSET S |-> IF s = {} THEN 0 ELSE step[c[s]][g[s \ {c[s]}]]]
  BY <1>3 DEF Folds
<1> DEFINE sum == [s \in SUBSET S |-> IF s = {} THEN 0 ELSE f[Chosen(s)] + g[s \ {Chosen(s)}]]
<1>7. \A s \in SUBSET S : g[s] = sum[s]
  BY <1>5, <1>6
<1>8. g = sum
  BY <1>6, <1>7
<1> QED
  BY <1>8 DEF Runs

\* What a running sum says of a subset does not depend on what else it covers.
LEMMA RunsAgree ==
    ASSUME NEW S, IsFiniteSet(S), NEW T \in SUBSET S, NEW f, NEW g, NEW h,
           Runs(g, f, SUBSET S), Runs(h, f, SUBSET T)
    PROVE  g[T] = h[T]
<1> DEFINE Good == {s \in SUBSET T : g[s] = h[s]}
<1>0. IsFiniteSet(T)
  BY FS_Subset
<1>1. {} \in Good
  BY DEF Runs
<1>2. ASSUME NEW s \in SUBSET T, s # {}, \A x \in s : s \ {x} \in Good
      PROVE  s \in Good
  <2>1. Chosen(s) \in s
    BY <1>2, ChosenIn
  <2>2. g[s \ {Chosen(s)}] = h[s \ {Chosen(s)}]
    BY <1>2, <2>1
  <2>3. g[s] = f[Chosen(s)] + g[s \ {Chosen(s)}]
    BY <1>2 DEF Runs
  <2>4. h[s] = f[Chosen(s)] + h[s \ {Chosen(s)}]
    BY <1>2 DEF Runs
  <2> QED
    BY <2>2, <2>3, <2>4
<1>3. T \in Good
  <2> HIDE DEF Good
  <2> QED
    BY <1>0, <1>1, <1>2, SubsetInduction
<1> QED
  BY <1>3

\* MapThenSumSet is a running sum.
LEMMA SumRuns ==
    ASSUME NEW D, NEW f \in [D -> Int], NEW S \in SUBSET D, IsFiniteSet(S)
    PROVE  \E g : Runs(g, f, SUBSET S) /\ SumOver(f, S) = g[S]
<1> DEFINE it == CHOOSE iter : Runs(iter, f, SUBSET S)
<1>1. Runs(it, f, SUBSET S)
  BY RunsExist
<1>2. SumOver(f, S) = it[S]
  BY DEF SumOver, MapThenSumSet, MapThenFoldSet, Runs, Chosen
<1> QED
  BY <1>1, <1>2

\* The sum over nothing.
LEMMA SumEmpty == \A f : SumOver(f, {}) = 0
<1> SUFFICES ASSUME NEW f PROVE SumOver(f, {}) = 0
  OBVIOUS
<1> DEFINE it == CHOOSE iter : Runs(iter, f, SUBSET {})
           z == [s \in SUBSET {} |-> 0]
<1>1. Runs(z, f, SUBSET {})
  BY DEF Runs
<1>2. Runs(it, f, SUBSET {})
  BY <1>1
<1>3. SumOver(f, {}) = it[{}]
  BY DEF SumOver, MapThenSumSet, MapThenFoldSet, Runs, Chosen
<1> QED
  BY <1>2, <1>3 DEF Runs

LEMMA SumChosen ==
    ASSUME NEW D, NEW f \in [D -> Int], NEW S \in SUBSET D, IsFiniteSet(S), S # {}
    PROVE  SumOver(f, S) = f[Chosen(S)] + SumOver(f, S \ {Chosen(S)})
<1> DEFINE T == S \ {Chosen(S)}
<1>1. IsFiniteSet(T)
  BY FS_Subset
<1>2. PICK g : Runs(g, f, SUBSET S) /\ SumOver(f, S) = g[S]
  BY SumRuns
<1>3. PICK h : Runs(h, f, SUBSET T) /\ SumOver(f, T) = h[T]
  <2>1. T \in SUBSET D
    OBVIOUS
  <2> HIDE DEF T
  <2> QED
    BY <1>1, <2>1, SumRuns
<1>4. g[T] = h[T]
  <2> HIDE DEF T
  <2>1. T \in SUBSET S
    BY DEF T
  <2> QED
    BY <1>2, <1>3, <2>1, RunsAgree
<1>5. g[S] = f[Chosen(S)] + g[T]
  BY <1>2 DEF Runs
<1> QED
  BY <1>2, <1>3, <1>4, <1>5

----------------------------------------------------------------------------
\* A sum of integers is an integer.
LEMMA SumInt ==
    ASSUME NEW D, NEW f \in [D -> Int], NEW S \in SUBSET D, IsFiniteSet(S)
    PROVE  SumOver(f, S) \in Int
<1> DEFINE Good == {s \in SUBSET S : SumOver(f, s) \in Int}
<1>1. {} \in Good
  BY SumEmpty
<1>2. ASSUME NEW s \in SUBSET S, s # {}, \A x \in s : s \ {x} \in Good
      PROVE  s \in Good
  <2>1. Chosen(s) \in s /\ IsFiniteSet(s)
    BY <1>2, ChosenIn, FS_Subset
  <2>2. SumOver(f, s) = f[Chosen(s)] + SumOver(f, s \ {Chosen(s)})
    BY <1>2, <2>1, SumChosen
  <2> QED
    BY <1>2, <2>1, <2>2
<1>3. S \in Good
  <2> HIDE DEF Good
  <2> QED
    BY <1>1, <1>2, SubsetInduction
<1> QED
  BY <1>3

\* A sum of naturals is a natural.
LEMMA SumNat ==
    ASSUME NEW D, NEW f \in [D -> Int], NEW S \in SUBSET D, IsFiniteSet(S),
           \A x \in S : f[x] >= 0
    PROVE  SumOver(f, S) \in Nat
<1> DEFINE Good == {s \in SUBSET S : SumOver(f, s) \in Nat}
<1>1. {} \in Good
  BY SumEmpty
<1>2. ASSUME NEW s \in SUBSET S, s # {}, \A x \in s : s \ {x} \in Good
      PROVE  s \in Good
  <2>1. Chosen(s) \in s /\ IsFiniteSet(s)
    BY <1>2, ChosenIn, FS_Subset
  <2>2. SumOver(f, s) = f[Chosen(s)] + SumOver(f, s \ {Chosen(s)})
    BY <1>2, <2>1, SumChosen
  <2>3. f[Chosen(s)] \in Nat /\ SumOver(f, s \ {Chosen(s)}) \in Nat
    BY <1>2, <2>1
  <2> QED
    BY <2>2, <2>3
<1>3. S \in Good
  <2> HIDE DEF Good
  <2> QED
    BY <1>1, <1>2, SubsetInduction
<1> QED
  BY <1>3

\* Any element may be taken out first.
LEMMA SumRemove ==
    ASSUME NEW D, NEW f \in [D -> Int], NEW S \in SUBSET D, IsFiniteSet(S), NEW y \in S
    PROVE  SumOver(f, S) = f[y] + SumOver(f, S \ {y})
<1> DEFINE Good == {s \in SUBSET S :
                        \A z \in s : SumOver(f, s) = f[z] + SumOver(f, s \ {z})}
<1>1. {} \in Good
  OBVIOUS
<1>2. ASSUME NEW s \in SUBSET S, s # {}, \A x \in s : s \ {x} \in Good
      PROVE  s \in Good
  <2> SUFFICES ASSUME NEW z \in s PROVE SumOver(f, s) = f[z] + SumOver(f, s \ {z})
    OBVIOUS
  <2> DEFINE c == Chosen(s)
  <2>1. c \in s /\ IsFiniteSet(s)
    BY <1>2, ChosenIn, FS_Subset
  <2>2. SumOver(f, s) = f[c] + SumOver(f, s \ {c})
    BY <1>2, <2>1, SumChosen
  <2> HIDE DEF c
  <2>3. CASE z = c
    BY <2>2, <2>3
  <2>4. CASE z # c
    <3> DEFINE both == s \ {c, z}
    <3>1. (s \ {c}) \ {z} = both /\ (s \ {z}) \ {c} = both
      OBVIOUS
    <3>2. SumOver(f, s \ {c}) = f[z] + SumOver(f, both)
      <4>1. s \ {c} \in Good /\ z \in s \ {c}
        BY <1>2, <2>1, <2>4
      <4> QED
        BY <3>1, <4>1
    <3>3. SumOver(f, s \ {z}) = f[c] + SumOver(f, both)
      <4>1. s \ {z} \in Good /\ c \in s \ {z}
        BY <1>2, <2>1, <2>4
      <4> QED
        BY <3>1, <4>1
    <3>4. f[z] \in Int /\ f[c] \in Int /\ SumOver(f, both) \in Int
      <4>1. both \in SUBSET S /\ IsFiniteSet(both)
        BY FS_Subset
      <4> HIDE DEF both
      <4>2. SumOver(f, both) \in Int
        BY <4>1, SumInt
      <4> QED
        BY <2>1, <4>2
    <3> HIDE DEF both
    <3> QED
      BY <2>2, <3>2, <3>3, <3>4
  <2> QED
    BY <2>3, <2>4
<1>3. S \in Good
  <2> HIDE DEF Good
  <2> QED
    BY <1>1, <1>2, SubsetInduction
<1> QED
  BY <1>3

\* A new element adds its amount.
LEMMA SumAdd ==
    ASSUME NEW D, NEW f \in [D -> Int], NEW S \in SUBSET D, IsFiniteSet(S),
           NEW y \in D, y \notin S
    PROVE  SumOver(f, S \cup {y}) = f[y] + SumOver(f, S)
<1>1. IsFiniteSet(S \cup {y}) /\ (S \cup {y}) \ {y} = S
  BY FS_AddElement
<1> QED
  BY <1>1, SumRemove

\* The sum looks at the amounts of its elements only.
LEMMA SumSame ==
    ASSUME NEW D, NEW f \in [D -> Int], NEW g \in [D -> Int],
           NEW S \in SUBSET D, IsFiniteSet(S), \A x \in S : f[x] = g[x]
    PROVE  SumOver(f, S) = SumOver(g, S)
<1> DEFINE Good == {s \in SUBSET S : SumOver(f, s) = SumOver(g, s)}
<1>1. {} \in Good
  BY SumEmpty
<1>2. ASSUME NEW s \in SUBSET S, s # {}, \A x \in s : s \ {x} \in Good
      PROVE  s \in Good
  <2>1. Chosen(s) \in s /\ IsFiniteSet(s)
    BY <1>2, ChosenIn, FS_Subset
  <2>2. SumOver(f, s) = f[Chosen(s)] + SumOver(f, s \ {Chosen(s)})
    BY <1>2, <2>1, SumChosen
  <2>3. SumOver(g, s) = g[Chosen(s)] + SumOver(g, s \ {Chosen(s)})
    BY <1>2, <2>1, SumChosen
  <2> QED
    BY <1>2, <2>1, <2>2, <2>3
<1>3. S \in Good
  <2> HIDE DEF Good
  <2> QED
    BY <1>1, <1>2, SubsetInduction
<1> QED
  BY <1>3

\* Amounts of zero may be left out.
LEMMA SumPart ==
    ASSUME NEW D, NEW f \in [D -> Int], NEW g \in [D -> Int],
           NEW S \in SUBSET D, IsFiniteSet(S), NEW T \in SUBSET S,
           \A x \in T : f[x] = g[x], \A x \in S \ T : g[x] = 0
    PROVE  SumOver(f, T) = SumOver(g, S)
<1> DEFINE Good == {s \in SUBSET S : SumOver(f, s \cap T) = SumOver(g, s)}
<1>1. {} \in Good
  <2>1. {} \cap T = {}
    OBVIOUS
  <2> QED
    BY <2>1, SumEmpty
<1>2. ASSUME NEW s \in SUBSET S, s # {}, \A x \in s : s \ {x} \in Good
      PROVE  s \in Good
  <2>1. PICK x : x \in s
    BY <1>2
  <2>2. /\ IsFiniteSet(s) /\ s \in SUBSET D /\ IsFiniteSet(s \cap T) /\ s \cap T \in SUBSET D
        /\ IsFiniteSet(s \ {x}) /\ s \ {x} \in SUBSET D
    BY FS_Subset
  <2>3. SumOver(f, (s \ {x}) \cap T) = SumOver(g, s \ {x}) /\ SumOver(g, s \ {x}) \in Int
    <3>1. s \ {x} \in Good
      BY <1>2, <2>1
    <3>2. SumOver(g, s \ {x}) \in Int
      BY <2>2, SumInt
    <3> QED
      BY <3>1, <3>2
  <2>4. SumOver(g, s) = g[x] + SumOver(g, s \ {x})
    BY <2>1, <2>2, SumRemove
  <2>5. CASE x \in T
    <3>1. x \in s \cap T /\ (s \cap T) \ {x} = (s \ {x}) \cap T
      BY <2>1, <2>5
    <3>2. SumOver(f, s \cap T) = f[x] + SumOver(f, (s \cap T) \ {x})
      BY <2>2, <3>1, SumRemove
    <3>3. f[x] = g[x]
      BY <2>5
    <3>4. SumOver(f, s \cap T) = SumOver(g, s)
      BY <2>3, <2>4, <3>1, <3>2, <3>3
    <3> QED
      BY <3>4
  <2>6. CASE x \notin T
    <3>1. (s \ {x}) \cap T = s \cap T /\ g[x] = 0
      BY <2>1, <2>6
    <3>2. SumOver(f, s \cap T) = SumOver(g, s \ {x})
      BY <2>3, <3>1
    <3>3. SumOver(g, s) = SumOver(g, s \ {x})
      BY <2>3, <2>4, <3>1
    <3> QED
      BY <3>2, <3>3
  <2> QED
    BY <2>5, <2>6
<1>3. S \in Good
  <2> HIDE DEF Good
  <2> QED
    BY <1>1, <1>2, SubsetInduction
<1>4. S \cap T = T
  OBVIOUS
<1> QED
  BY <1>3, <1>4

\* The sum over one element, and over two.
LEMMA SumOne ==
    ASSUME NEW D, NEW f \in [D -> Int], NEW x \in D
    PROVE  SumOver(f, {x}) = f[x]
<1>1. {x} \in SUBSET D /\ IsFiniteSet({x}) /\ x \in {x} /\ {x} \ {x} = {}
  BY FS_Singleton
<1>2. SumOver(f, {x}) = f[x] + SumOver(f, {x} \ {x})
  BY <1>1, SumRemove
<1> QED
  BY <1>1, <1>2, SumEmpty

LEMMA SumTwo ==
    ASSUME NEW D, NEW f \in [D -> Int], NEW x \in D, NEW y \in D, x # y
    PROVE  SumOver(f, {x, y}) = f[x] + f[y]
<1>1. {y} \in SUBSET D /\ IsFiniteSet({y}) /\ x \notin {y} /\ {y} \cup {x} = {x, y}
  BY FS_Singleton
<1>2. SumOver(f, {y} \cup {x}) = f[x] + SumOver(f, {y})
  BY <1>1, SumAdd
<1> QED
  BY <1>1, <1>2, SumOne

\* When one amount changes, the sum changes by as much.
LEMMA SumChange ==
    ASSUME NEW S, IsFiniteSet(S), NEW f \in [S -> Int], NEW g \in [S -> Int], NEW y \in S,
           \A x \in S : x # y => f[x] = g[x]
    PROVE  /\ SumOver(g, S) = SumOver(f, S) - f[y] + g[y]
           /\ SumOver(f, S) \in Int /\ SumOver(g, S) \in Int
<1> DEFINE rest == S \ {y}
<1>1. IsFiniteSet(rest) /\ rest \in SUBSET S /\ \A x \in rest : f[x] = g[x]
  BY FS_Subset
<1>2. SumOver(f, S) = f[y] + SumOver(f, rest) /\ SumOver(g, S) = g[y] + SumOver(g, rest)
  BY SumRemove
<1> HIDE DEF rest
<1>3. SumOver(f, rest) = SumOver(g, rest) /\ SumOver(f, rest) \in Int
  BY <1>1, SumSame, SumInt
<1> QED
  BY <1>2, <1>3

\* Equal amounts add up to a multiple.
LEMMA SumConstant ==
    ASSUME NEW S, IsFiniteSet(S), NEW c \in Nat, NEW f \in [S -> Nat], \A x \in S : f[x] = c
    PROVE  SumOver(f, S) = Cardinality(S) * c
<1> DEFINE Good == {s \in SUBSET S : SumOver(f, s) = Cardinality(s) * c}
<1>1. {} \in Good
  BY SumEmpty, FS_EmptySet
<1>2. ASSUME NEW s \in SUBSET S, s # {}, \A x \in s : s \ {x} \in Good
      PROVE  s \in Good
  <2> DEFINE r == s \ {Chosen(s)}
  <2>1. Chosen(s) \in s /\ IsFiniteSet(s) /\ Cardinality(s) \in Nat
    BY <1>2, ChosenIn, FS_Subset, FS_CardinalityType
  <2>2. SumOver(f, s) = c + SumOver(f, r)
    BY <1>2, <2>1, SumChosen
  <2>3. Cardinality(r) = Cardinality(s) - 1 /\ SumOver(f, r) = Cardinality(r) * c
    BY <1>2, <2>1, FS_RemoveElement
  <2> HIDE DEF r
  <2>4. (Cardinality(s) - 1) * c = Cardinality(s) * c - c
    BY <2>1
  <2>5. Cardinality(s) * c \in Int
    BY <2>1
  <2> QED
    BY <2>2, <2>3, <2>4, <2>5
<1>3. S \in Good
  <2> HIDE DEF Good
  <2> QED
    BY <1>1, <1>2, SubsetInduction
<1> QED
  BY <1>3

\* A sum does not depend on the names of what is added up.
LEMMA SumRenamed ==
    ASSUME NEW A, IsFiniteSet(A), NEW D, NEW B \in SUBSET D, NEW h \in Bijection(A, B),
           NEW f \in [D -> Int], NEW g \in [A -> Int], \A a \in A : f[h[a]] = g[a]
    PROVE  SumOver(f, B) = SumOver(g, A)
<1> DEFINE image(s) == {h[a] : a \in s}
           Good == {s \in SUBSET A : SumOver(f, image(s)) = SumOver(g, s)}
<1>0. /\ \A a \in A : h[a] \in B
      /\ \A a, b \in A : h[a] = h[b] => a = b
      /\ \A b \in B : \E a \in A : h[a] = b
  BY DEF Bijection, Injection, Surjection, IsInjective
<1>1. {} \in Good
  <2>1. image({}) = {}
    OBVIOUS
  <2> QED
    BY <2>1, SumEmpty
<1>2. ASSUME NEW s \in SUBSET A, s # {}, \A x \in s : s \ {x} \in Good
      PROVE  s \in Good
  <2>1. PICK x : x \in s
    BY <1>2
  <2>2. SumOver(f, image(s \ {x})) = SumOver(g, s \ {x})
    BY <1>2, <2>1
  <2>3. IsFiniteSet(s) /\ SumOver(g, s) = g[x] + SumOver(g, s \ {x})
    BY <2>1, FS_Subset, SumRemove
  <2>4. /\ image(s) \in SUBSET D /\ h[x] \in image(s)
        /\ image(s) \ {h[x]} = image(s \ {x})
    BY <1>0, <2>1
  <2>5. IsFiniteSet(image(s))
    <3>1. IsFiniteSet(B)
      BY FS_Surjection DEF Bijection
    <3>2. image(s) \in SUBSET B
      BY <1>0
    <3> HIDE DEF image
    <3> QED
      BY <3>1, <3>2, FS_Subset
  <2> HIDE DEF image
  <2>6. SumOver(f, image(s)) = f[h[x]] + SumOver(f, image(s) \ {h[x]})
    BY <2>4, <2>5, SumRemove
  <2>7. SumOver(f, image(s)) = SumOver(g, s)
    BY <2>1, <2>2, <2>3, <2>4, <2>6
  <2> QED
    BY <2>7
<1>3. A \in Good
  <2> HIDE DEF Good
  <2> QED
    BY <1>1, <1>2, SubsetInduction
<1>4. image(A) = B
  BY <1>0
<1> QED
  BY <1>3, <1>4

\* What two sets without a common element add up to.
LEMMA SumUnion ==
    ASSUME NEW D, NEW f \in [D -> Int], NEW S \in SUBSET D, IsFiniteSet(S),
           NEW T \in SUBSET D, IsFiniteSet(T), S \cap T = {}
    PROVE  SumOver(f, S \cup T) = SumOver(f, S) + SumOver(f, T)
<1> DEFINE Good == {s \in SUBSET T : SumOver(f, S \cup s) = SumOver(f, S) + SumOver(f, s)}
<1>0. SumOver(f, S) \in Int
  BY SumInt
<1>1. {} \in Good
  <2>1. S \cup {} = S /\ SumOver(f, {}) = 0
    BY SumEmpty
  <2> QED
    BY <1>0, <2>1
<1>2. ASSUME NEW s \in SUBSET T, s # {}, \A x \in s : s \ {x} \in Good
      PROVE  s \in Good
  <2>1. PICK x : x \in s
    BY <1>2
  <2>2. SumOver(f, S \cup (s \ {x})) = SumOver(f, S) + SumOver(f, s \ {x})
    BY <1>2, <2>1
  <2>3. IsFiniteSet(s) /\ IsFiniteSet(S \cup s)
    BY FS_Subset, FS_Union
  <2>4. SumOver(f, s) = f[x] + SumOver(f, s \ {x})
    BY <2>1, <2>3, SumRemove
  <2>5. SumOver(f, S \cup s) = f[x] + SumOver(f, (S \cup s) \ {x})
    BY <2>1, <2>3, SumRemove
  <2>6. (S \cup s) \ {x} = S \cup (s \ {x})
    BY <2>1
  <2>7. SumOver(f, s \ {x}) \in Int
    BY <2>3, FS_Subset, SumInt
  <2>8. SumOver(f, S \cup s) = f[x] + (SumOver(f, S) + SumOver(f, s \ {x}))
    BY <2>2, <2>5, <2>6
  <2>9. SumOver(f, S \cup s) = SumOver(f, S) + SumOver(f, s)
    <3> f[x] \in Int
      BY <2>1
    <3> QED
      BY <1>0, <2>4, <2>7, <2>8
  <2> QED
    BY <2>9
<1>3. T \in Good
  <2> HIDE DEF Good
  <2> QED
    BY <1>1, <1>2, SubsetInduction
<1> QED
  BY <1>3

\* Among finitely many amounts there is a largest.
LEMMA Largest ==
    ASSUME NEW D, NEW f \in [D -> Int], NEW S \in SUBSET D, IsFiniteSet(S), S # {}
    PROVE  \E b \in S : \A o \in S : f[b] >= f[o]
<1> DEFINE Good == {s \in SUBSET S : s # {} => \E b \in s : \A o \in s : f[b] >= f[o]}
<1>1. {} \in Good
  OBVIOUS
<1>2. ASSUME NEW s \in SUBSET S, s # {}, \A x \in s : s \ {x} \in Good
      PROVE  s \in Good
  <2>1. PICK x : x \in s
    BY <1>2
  <2>2. CASE s = {x}
    BY <2>2
  <2>3. CASE s # {x}
    <3>1. PICK b \in s \ {x} : \A o \in s \ {x} : f[b] >= f[o]
      BY <1>2, <2>1, <2>3
    <3>2. f[b] \in Int /\ f[x] \in Int
      BY <2>1
    <3>3. CASE f[b] >= f[x]
      <4>1. \A o \in s : f[b] >= f[o]
        BY <3>1, <3>3
      <4> QED
        BY <4>1
    <3>4. CASE f[x] >= f[b]
      <4>1. \A o \in s : f[x] >= f[o]
        BY <3>1, <3>2, <3>4
      <4> QED
        BY <2>1, <4>1
    <3> QED
      BY <3>2, <3>3, <3>4
  <2> QED
    BY <2>2, <2>3
<1>3. S \in Good
  <2> HIDE DEF Good
  <2> QED
    BY <1>1, <1>2, SubsetInduction
<1> QED
  BY <1>3

----------------------------------------------------------------------------
(* Folds over sequences, which go by the largest index left.               *)

\* The largest number of a finite set.
LEMMA MaxPicks ==
    ASSUME NEW n \in Nat
    PROVE  Picks([s \in SUBSET (1 .. n) |-> Max(s)], 1 .. n)
<1> SUFFICES ASSUME NEW s \in SUBSET (1 .. n), s # {} PROVE Max(s) \in s
  BY DEF Picks
<1> DEFINE self == [k \in 1 .. n |-> k]
<1>1. self \in [1 .. n -> Int] /\ IsFiniteSet(1 .. n)
  BY FS_Interval
<1>2. IsFiniteSet(s)
  BY <1>1, FS_Subset
<1>3. \E b \in s : \A o \in s : self[b] >= self[o]
  <2> HIDE DEF self
  <2> QED
    BY <1>1, <1>2, Largest
<1>4. \E b \in s : \A o \in s : b >= o
  BY <1>3
<1> QED
  BY <1>4 DEF Max

LEMMA MaxOfPrefix ==
    ASSUME NEW n \in Nat, NEW k \in 1 .. n
    PROVE  /\ 1 .. k \in SUBSET (1 .. n) /\ 1 .. k # {}
           /\ Max(1 .. k) = k /\ (1 .. k) \ {k} = 1 .. (k - 1)
<1>1. k \in 1 .. k /\ \A x \in 1 .. k : k >= x
  OBVIOUS
<1>2. \A x \in 1 .. k : (\A y \in 1 .. k : x >= y) => x = k
  OBVIOUS
<1>3. Max(1 .. k) = k
  BY <1>1, <1>2 DEF Max
<1> QED
  BY <1>1, <1>3

\* Induction up to a number: a set holds 0 .. n if it holds 0 and the successor of each
\* number before n that it holds.
LEMMA UpTo ==
    ASSUME NEW n \in Nat, NEW Good, 0 \in Good, \A k \in 1 .. n : k - 1 \in Good => k \in Good
    PROVE  \A k \in 0 .. n : k \in Good
<1> DEFINE Bad == {k \in 0 .. n : k \notin Good}
           down == [k \in 0 .. n |-> -k]
<1> SUFFICES ASSUME Bad # {} PROVE FALSE
  OBVIOUS
<1>1. down \in [0 .. n -> Int] /\ Bad \in SUBSET (0 .. n)
  OBVIOUS
<1>2. IsFiniteSet(0 .. n)
  BY FS_Interval
<1>3. IsFiniteSet(Bad)
  BY <1>1, <1>2, FS_Subset
<1>4. PICK b \in Bad : \A o \in Bad : down[b] >= down[o]
  <2> HIDE DEF Bad, down
  <2> QED
    BY <1>1, <1>3, Largest
<1>5. b # 0 /\ b \in 1 .. n /\ b - 1 \in 0 .. n
  OBVIOUS
<1>6. b - 1 \notin Bad
  BY <1>4, <1>5
<1> QED
  BY <1>5, <1>6

\* A fold over the indices of a sequence, and the values it goes through.
Walks(g, p, base, step, n) ==
    /\ g[{}] = base
    /\ \A s \in SUBSET (1 .. n) : s # {} =>
          Max(s) \in s /\ g[s] = step[Max(s)][g[s \ {Max(s)}]]
    /\ p[0] = base /\ \A k \in 1 .. n : p[k] = step[k][p[k - 1]]
    /\ p[n] = g[1 .. n]

LEMMA FoldWalks ==
    ASSUME NEW n \in Nat, NEW V, NEW base \in V, NEW step \in [1 .. n -> [V -> V]]
    PROVE  \E g \in [SUBSET (1 .. n) -> V], p \in [0 .. n -> V] : Walks(g, p, base, step, n)
<1> DEFINE D == 1 .. n
           c == [s \in SUBSET D |-> Max(s)]
<1>1. Picks(c, D) /\ IsFiniteSet(D)
  <2>1. Picks(c, D)
    BY MaxPicks
  <2>2. IsFiniteSet(D)
    BY FS_Interval
  <2> QED
    BY <2>1, <2>2
<1>2. PICK g : Folds(g, base, c, step, SUBSET D)
  <2> HIDE DEF c, D
  <2> QED
    BY <1>1, FoldsExist
<1>3. \A s \in SUBSET D : g[s] \in V
  <2>1. step \in [D -> [V -> V]]
    OBVIOUS
  <2> HIDE DEF c, D
  <2> QED
    BY <1>1, <1>2, <2>1, FoldsRange
<1>4. g \in [SUBSET D -> V]
  BY <1>2, <1>3 DEF Folds
<1>5. g[{}] = base
  BY <1>2 DEF Folds
<1>6. \A s \in SUBSET D : s # {} =>
         Max(s) \in s /\ g[s] = step[Max(s)][g[s \ {Max(s)}]]
  BY <1>1, <1>2 DEF Folds, Picks
<1> DEFINE p == [k \in 0 .. n |-> g[1 .. k]]
<1>7. p \in [0 .. n -> V] /\ p[n] = g[1 .. n]
  BY <1>4
<1>8. p[0] = base
  <2>1. 1 .. 0 = {}
    OBVIOUS
  <2> QED
    BY <1>5, <2>1
<1>9. ASSUME NEW k \in 1 .. n PROVE p[k] = step[k][p[k - 1]]
  <2>1. p[k] = g[1 .. k] /\ p[k - 1] = g[1 .. (k - 1)]
    OBVIOUS
  <2>2. /\ 1 .. k \in SUBSET (1 .. n) /\ 1 .. k # {}
        /\ Max(1 .. k) = k /\ (1 .. k) \ {k} = 1 .. (k - 1)
    BY MaxOfPrefix
  <2>3. g[1 .. k] = step[k][g[1 .. (k - 1)]]
    BY <1>6, <2>2
  <2> HIDE DEF p
  <2> QED
    BY <2>1, <2>3
<1> HIDE DEF p
<1>10. Walks(g, p, base, step, n)
  BY <1>5, <1>6, <1>7, <1>8, <1>9 DEF Walks
<1> QED
  BY <1>4, <1>7, <1>10

\* Two folds that take the same steps agree.
LEMMA FoldsAgree ==
    ASSUME NEW n \in Nat, NEW g, NEW h, g[{}] = h[{}],
           \A s \in SUBSET (1 .. n) : s # {} /\ g[s \ {Max(s)}] = h[s \ {Max(s)}] => g[s] = h[s]
    PROVE  g[1 .. n] = h[1 .. n]
<1> DEFINE Good == {s \in SUBSET (1 .. n) : g[s] = h[s]}
<1>1. {} \in Good
  OBVIOUS
<1>2. ASSUME NEW s \in SUBSET (1 .. n), s # {}, \A x \in s : s \ {x} \in Good
      PROVE  s \in Good
  <2>1. Max(s) \in s
    BY <1>2, MaxPicks DEF Picks
  <2> QED
    BY <1>2, <2>1
<1>3. 1 .. n \in Good
  <2>1. IsFiniteSet(1 .. n)
    BY FS_Interval
  <2> HIDE DEF Good
  <2> QED
    BY <1>1, <1>2, <2>1, SubsetInduction
<1> QED
  BY <1>3
=============================================================================
