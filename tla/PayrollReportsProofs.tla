------------------------ MODULE PayrollReportsProofs ------------------------
(***************************************************************************)
(* Theorems about PayrollReports, for any receipts: the index and the sums *)
(* of every batch, in whichever order it came; and about PayrollNfts, for  *)
(* any callers and arguments.  The sort, the index and the sums are folds  *)
(* over sequences: a ...Steps lemma lists the values a fold goes through,  *)
(* and an ...Is lemma says what they have in common.                       *)
(***************************************************************************)
EXTENDS PayrollReports, PayrollNfts, FoldTheorems, SequenceTheorems

----------------------------------------------------------------------------
(* Sorting.                                                                *)

\* What normalizing lets pass.
Event == {r \in Receipts : Normalizable(r)}

LEMMA EventTyped ==
    /\ Event \subseteq DecryptedPaystubReceipt
    /\ \A r \in Event : r.anchor_height \in 0 .. MaxU32 /\ MaxU32 \in Nat
    /\ \A r, q \in Event : r.receipt_anchor = q.receipt_anchor => r = q
BY ReportsAssumption DEF Event, Normalizable, AssertU32

Ordered(s) == \A i, j \in DOMAIN s : i < j => Before(s[i], s[j])

\* The comparison of the index is a strict total order.
LEMMA BeforeOrders ==
    ASSUME NEW x \in Event, NEW y \in Event, NEW z \in Event
    PROVE  /\ x # y => Before(x, y) \/ Before(y, x)
           /\ ~ Before(x, x)
           /\ Before(x, y) /\ Before(y, z) => Before(x, z)
<1> DEFINE Typed(r) == /\ r.agreement_id \in Int /\ r.epoch_id \in Int
                       /\ r.anchor_height \in Int /\ r.receipt_anchor \in Int
<1>1. Typed(x) /\ Typed(y) /\ Typed(z)
  BY EventTyped DEF DecryptedPaystubReceipt
<1>2. x # y => x.receipt_anchor # y.receipt_anchor
  BY EventTyped
<1> QED
  BY <1>1, <1>2 DEF Before

\* t is s with e put in at i.
Placed(t, s, i, e) ==
    /\ t \in Seq(Event) /\ Len(t) = Len(s) + 1
    /\ t[i] = e
    /\ \A j \in 1 .. Len(t) : /\ j < i => t[j] = s[j]
                              /\ j > i => t[j] = s[j - 1]

LEMMA InsertedPlaces ==
    ASSUME NEW s \in Seq(Event), NEW e \in Event
    PROVE  \E i \in 1 .. Len(s) + 1 :
              /\ Placed(Inserted(s, e), s, i, e)
              /\ \A j \in 1 .. Len(s) : j < i => ~ Before(e, s[j])
              /\ i <= Len(s) => Before(e, s[i])
<1> DEFINE n == Len(s)
           after == {i \in DOMAIN s : Before(e, s[i])}
           least == CHOOSE i \in after : \A j \in after : i <= j
<1>0. n \in Nat /\ DOMAIN s = 1 .. n /\ \A j \in 1 .. n : s[j] \in Event
  OBVIOUS
<1>1. CASE after = {}
  <2>1. Inserted(s, e) = Append(s, e)
    BY <1>1 DEF Inserted
  <2>2. Placed(Append(s, e), s, n + 1, e)
    BY <1>0 DEF Placed
  <2> QED
    BY <1>0, <1>1, <2>1, <2>2
<1>2. CASE after # {}
  <2>1. least \in after /\ \A j \in after : least <= j
    <3> DEFINE down == [j \in 1 .. n |-> -j]
    <3>1. IsFiniteSet(after)
      <4>1. IsFiniteSet(1 .. n) /\ after \in SUBSET (1 .. n)
        BY <1>0, FS_Interval
      <4> HIDE DEF after
      <4> QED
        BY <4>1, FS_Subset
    <3>2. \E b \in after : \A o \in after : down[b] >= down[o]
      <4>1. down \in [1 .. n -> Int] /\ after \in SUBSET (1 .. n)
        BY <1>0
      <4> HIDE DEF after, down
      <4> QED
        BY <1>2, <3>1, <4>1, Largest
    <3>3. \E b \in after : \A o \in after : b <= o
      BY <1>0, <3>2
    <3> HIDE DEF after
    <3> QED
      BY <3>3
  <2>2. Inserted(s, e) = SubSeq(s, 1, least - 1) \o <<e>> \o SubSeq(s, least, n)
    BY <1>2 DEF Inserted, InsertAt
  <2> HIDE DEF least
  <2>3. least \in 1 .. n
    BY <1>0, <2>1
  <2>4. Placed(SubSeq(s, 1, least - 1) \o <<e>> \o SubSeq(s, least, n), s, least, e)
    <3> DEFINE l == SubSeq(s, 1, least - 1)
               r == SubSeq(s, least, n)
    <3>1. /\ l \in Seq(Event) /\ Len(l) = least - 1
          /\ \A j \in 1 .. least - 1 : l[j] = s[j]
      BY <1>0, <2>3
    <3>2. /\ r \in Seq(Event) /\ Len(r) = n - least + 1
          /\ \A j \in 1 .. n - least + 1 : r[j] = s[j + least - 1]
      BY <1>0, <2>3
    <3> HIDE DEF l, r
    <3> DEFINE m == l \o <<e>>
    <3>3. /\ m \in Seq(Event) /\ Len(m) = least
          /\ \A j \in 1 .. least - 1 : m[j] = s[j]
          /\ m[least] = e
      BY <2>3, <3>1
    <3> HIDE DEF m
    <3> DEFINE t == m \o r
    <3>4. /\ t \in Seq(Event) /\ Len(t) = n + 1
          /\ \A j \in 1 .. least : t[j] = m[j]
          /\ \A j \in least + 1 .. n + 1 : t[j] = r[j - least]
      <4>1. r \in Seq(Event) /\ m \in Seq(Event)
        BY <3>2, <3>3
      <4>2. /\ t \in Seq(Event) /\ Len(t) = Len(m) + Len(r)
            /\ \A j \in 1 .. Len(m) + Len(r) : t[j] = IF j <= Len(m) THEN m[j] ELSE r[j - Len(m)]
        BY <4>1, ConcatProperties
      <4> HIDE DEF t
      <4> QED
        BY <1>0, <2>3, <3>2, <3>3, <4>2
    <3>5. ASSUME NEW j \in least + 1 .. n + 1 PROVE t[j] = s[j - 1]
      BY <1>0, <2>3, <3>2, <3>4
    <3>6. Placed(t, s, least, e)
      <4> HIDE DEF t
      <4> QED
        BY <1>0, <2>3, <3>3, <3>4, <3>5 DEF Placed
    <3> QED
      BY <3>6 DEF m, t, l, r
  <2>5. \A j \in 1 .. n : j < least => ~ Before(e, s[j])
    BY <1>0, <2>1
  <2> QED
    BY <1>0, <2>1, <2>2, <2>3, <2>4, <2>5
<1> QED
  BY <1>1, <1>2

\* An event not in it yet goes to its place.
LEMMA InsertedKeepsOrder ==
    ASSUME NEW s \in Seq(Event), NEW e \in Event, Ordered(s), e \notin ToSet(s)
    PROVE  /\ Inserted(s, e) \in Seq(Event) /\ Ordered(Inserted(s, e))
           /\ ToSet(Inserted(s, e)) = ToSet(s) \cup {e}
<1> DEFINE t == Inserted(s, e)
           n == Len(s)
<1>1. PICK i \in 1 .. n + 1 :
          /\ Placed(t, s, i, e)
          /\ \A j \in 1 .. n : j < i => ~ Before(e, s[j])
          /\ i <= n => Before(e, s[i])
  BY InsertedPlaces
<1> HIDE DEF t
<1>2. n \in Nat /\ DOMAIN s = 1 .. n /\ \A j \in 1 .. n : s[j] \in Event /\ s[j] # e
  BY DEF ToSet
<1>3. DOMAIN t = 1 .. n + 1
  BY <1>1 DEF Placed
<1>4. \A j \in 1 .. n : /\ j < i => t[j] = s[j] /\ Before(s[j], e)
                        /\ j >= i => t[j + 1] = s[j] /\ Before(e, s[j])
  <2> SUFFICES ASSUME NEW j \in 1 .. n
               PROVE  /\ j < i => t[j] = s[j] /\ Before(s[j], e)
                      /\ j >= i => t[j + 1] = s[j] /\ Before(e, s[j])
    OBVIOUS
  <2>1. CASE j < i
    BY <1>1, <1>2, <2>1, BeforeOrders DEF Placed
  <2>2. CASE j >= i
    <3>1. i \in 1 .. n /\ Before(e, s[i])
      BY <1>1, <1>2, <2>2
    <3>2. j = i \/ Before(s[i], s[j])
      BY <1>2, <2>2, <3>1 DEF Ordered
    <3>3. Before(e, s[j])
      BY <1>2, <3>1, <3>2, BeforeOrders
    <3>4. t[j + 1] = s[j]
      BY <1>1, <1>2, <2>2 DEF Placed
    <3> QED
      BY <1>2, <2>2, <3>3, <3>4
  <2> QED
    BY <1>2, <2>1, <2>2
<1>5. Ordered(t)
  <2> SUFFICES ASSUME NEW j \in 1 .. n + 1, NEW k \in 1 .. n + 1, j < k
               PROVE  Before(t[j], t[k])
    BY <1>3 DEF Ordered
  <2>1. CASE k < i
    BY <1>2, <1>4, <2>1 DEF Ordered
  <2>2. CASE k = i
    BY <1>1, <1>2, <1>4, <2>2 DEF Placed
  <2>3. CASE j = i
    <3>1. k - 1 \in 1 .. n /\ k - 1 >= i /\ k - 1 + 1 = k
      BY <1>2, <2>3
    <3> QED
      BY <1>1, <1>4, <2>3, <3>1 DEF Placed
  <2>4. CASE j < i /\ k > i
    <3>1. k - 1 \in 1 .. n /\ k - 1 >= i /\ k - 1 + 1 = k /\ j \in 1 .. n /\ j < k - 1
      BY <1>2, <2>4
    <3>2. t[j] = s[j] /\ t[k] = s[k - 1]
      BY <1>4, <2>4, <3>1
    <3> QED
      BY <1>2, <3>1, <3>2 DEF Ordered
  <2>5. CASE j > i
    <3>1. /\ k - 1 \in 1 .. n /\ k - 1 >= i /\ k - 1 + 1 = k
          /\ j - 1 \in 1 .. n /\ j - 1 >= i /\ j - 1 + 1 = j /\ j - 1 < k - 1
      BY <1>2, <2>5
    <3>2. t[j] = s[j - 1] /\ t[k] = s[k - 1]
      BY <1>4, <3>1
    <3> QED
      BY <1>2, <3>1, <3>2 DEF Ordered
  <2> QED
    BY <1>1, <1>2, <2>1, <2>2, <2>3, <2>4, <2>5
<1>6. ToSet(t) = ToSet(s) \cup {e}
  <2>1. ASSUME NEW j \in 1 .. n + 1 PROVE t[j] \in ToSet(s) \cup {e}
    <3>1. CASE j < i
      BY <1>2, <1>4, <3>1 DEF ToSet
    <3>2. CASE j = i
      BY <1>1, <3>2 DEF Placed
    <3>3. CASE j > i
      <4>1. j - 1 \in 1 .. n /\ t[j] = s[j - 1]
        BY <1>1, <1>2, <3>3 DEF Placed
      <4> QED
        BY <1>2, <4>1 DEF ToSet
    <3> QED
      BY <3>1, <3>2, <3>3
  <2>2. ASSUME NEW j \in 1 .. n PROVE s[j] \in ToSet(t)
    <3>1. j \in DOMAIN t /\ j + 1 \in DOMAIN t
      BY <1>2, <1>3
    <3>2. s[j] = t[j] \/ s[j] = t[j + 1]
      BY <1>2, <1>4
    <3> QED
      BY <3>1, <3>2 DEF ToSet
  <2>3. e \in ToSet(t)
    BY <1>1, <1>2, <1>3 DEF Placed, ToSet
  <2>4. ToSet(t) \subseteq ToSet(s) \cup {e}
    BY <1>3, <2>1 DEF ToSet
  <2>5. ToSet(s) \subseteq ToSet(t)
    BY <1>2, <2>2 DEF ToSet
  <2> QED
    BY <2>3, <2>4, <2>5
<1> QED
  BY <1>1, <1>5, <1>6 DEF Placed, t

\* The sort inserts one event after another.
LEMMA SortedSteps ==
    ASSUME NEW es \in Seq(Event)
    PROVE  \E p \in [0 .. Len(es) -> Seq(Event)] :
              /\ p[0] = <<>> /\ \A k \in 1 .. Len(es) : p[k] = Inserted(p[k - 1], es[k])
              /\ Sorted(es) = p[Len(es)]
<1> DEFINE n == Len(es)
           V == Seq(Event)
           step == [k \in 1 .. n |-> [v \in V |-> Inserted(v, es[k])]]
           Is(g) == g = [s \in SUBSET (1 .. n) |->
                            IF s = {} THEN <<>> ELSE Inserted(g[s \ {Max(s)}], es[Max(s)])]
           it == CHOOSE g : Is(g)
<1>1. n \in Nat /\ 1 .. n = DOMAIN es /\ <<>> \in V /\ \A k \in 1 .. n : es[k] \in Event
  OBVIOUS
<1>2. step \in [1 .. n -> [V -> V]]
  <2> SUFFICES ASSUME NEW k \in 1 .. n, NEW v \in V PROVE Inserted(v, es[k]) \in V
    OBVIOUS
  <2> QED
    BY <1>1, InsertedPlaces DEF Placed
<1>3. PICK g \in [SUBSET (1 .. n) -> V], p \in [0 .. n -> V] : Walks(g, p, <<>>, step, n)
  <2>1. n \in Nat
    BY <1>1
  <2>2. <<>> \in V
    BY <1>1
  <2> HIDE DEF step, V, n
  <2> QED
    BY <1>2, <2>1, <2>2, FoldWalks
<1>4. \A s \in SUBSET (1 .. n) : s # {} => g[s] = Inserted(g[s \ {Max(s)}], es[Max(s)])
  BY <1>3 DEF Walks
<1>5. g[{}] = <<>> /\ p[n] = g[1 .. n] /\ Is(g)
  BY <1>3, <1>4 DEF Walks
<1>6. Is(it)
  BY <1>5
<1>7. it[1 .. n] = g[1 .. n]
  <2>1. it[{}] = g[{}]
    BY <1>5, <1>6
  <2>2. \A s \in SUBSET (1 .. n) : s # {} /\ it[s \ {Max(s)}] = g[s \ {Max(s)}] => it[s] = g[s]
    BY <1>4, <1>6
  <2> HIDE DEF it, n
  <2> QED
    BY <1>1, <2>1, <2>2, FoldsAgree
<1>8. Sorted(es) = it[1 .. n]
  BY <1>1 DEF Sorted, FoldLeft, MapThenFoldSet
<1>9. ASSUME NEW k \in 1 .. n PROVE p[k] = Inserted(p[k - 1], es[k])
  <2>1. p[k - 1] \in V
    BY <1>1
  <2>2. p[k] = step[k][p[k - 1]]
    BY <1>3 DEF Walks
  <2> QED
    BY <2>1, <2>2
<1>10. p[0] = <<>>
  BY <1>3 DEF Walks
<1> QED
  BY <1>5, <1>7, <1>8, <1>9, <1>10

\* What the first k elements of a sequence are.
Upto(s, k) == {s[i] : i \in 1 .. k}

LEMMA UptoIs ==
    ASSUME NEW S, NEW s \in Seq(S)
    PROVE  /\ Upto(s, 0) = {} /\ Upto(s, Len(s)) = ToSet(s)
           /\ \A k \in 1 .. Len(s) : Upto(s, k) = Upto(s, k - 1) \cup {s[k]}
           /\ \A k \in 0 .. Len(s) : Upto(s, k) \subseteq ToSet(s) /\ Upto(s, k) \subseteq S
           /\ IsInjective(s) => \A k \in 1 .. Len(s) : s[k] \notin Upto(s, k - 1)
<1>1. Len(s) \in Nat /\ DOMAIN s = 1 .. Len(s) /\ \A k \in 1 .. Len(s) : s[k] \in S
  OBVIOUS
<1>2. Upto(s, 0) = {} /\ Upto(s, Len(s)) = ToSet(s)
  BY <1>1 DEF Upto, ToSet
<1>3. ASSUME NEW k \in 1 .. Len(s) PROVE Upto(s, k) = Upto(s, k - 1) \cup {s[k]}
  <2>1. k - 1 \in Nat /\ \A i \in 1 .. k : i \in 1 .. k - 1 \/ i = k
    BY <1>1
  <2> QED
    BY <2>1 DEF Upto
<1>4. ASSUME NEW k \in 0 .. Len(s) PROVE Upto(s, k) \subseteq ToSet(s) /\ Upto(s, k) \subseteq S
  BY <1>1 DEF Upto, ToSet
<1>5. ASSUME IsInjective(s), NEW k \in 1 .. Len(s) PROVE s[k] \notin Upto(s, k - 1)
  <2>1. \A i \in 1 .. k - 1 : i \in DOMAIN s /\ i # k
    BY <1>1
  <2> QED
    BY <1>1, <1>5, <2>1 DEF Upto, IsInjective
<1> QED
  BY <1>2, <1>3, <1>4, <1>5

\* The sort of a batch is the batch in the order of the chain.
LEMMA SortedIs ==
    ASSUME NEW es \in Seq(Event), IsInjective(es)
    PROVE  /\ Sorted(es) \in Seq(Event) /\ Ordered(Sorted(es))
           /\ ToSet(Sorted(es)) = ToSet(es)
<1> DEFINE n == Len(es)
<1>1. PICK p \in [0 .. n -> Seq(Event)] :
          /\ p[0] = <<>> /\ \A k \in 1 .. n : p[k] = Inserted(p[k - 1], es[k])
          /\ Sorted(es) = p[n]
  BY SortedSteps
<1> DEFINE Good == {k \in 0 .. n : Ordered(p[k]) /\ ToSet(p[k]) = Upto(es, k)}
<1>2. n \in Nat /\ \A k \in 1 .. n : es[k] \in Event
  OBVIOUS
<1>3. 0 \in Good
  <2>1. Upto(es, 0) = {}
    BY UptoIs
  <2>2. Ordered(p[0]) /\ ToSet(p[0]) = {}
    BY <1>1 DEF Ordered, ToSet
  <2>3. 0 \in 0 .. n
    BY <1>2
  <2> QED
    BY <2>1, <2>2, <2>3
<1>4. ASSUME NEW k \in 1 .. n, k - 1 \in Good PROVE k \in Good
  <2>1. p[k - 1] \in Seq(Event) /\ Ordered(p[k - 1]) /\ ToSet(p[k - 1]) = Upto(es, k - 1)
    BY <1>1, <1>4
  <2>2. es[k] \notin Upto(es, k - 1) /\ Upto(es, k) = Upto(es, k - 1) \cup {es[k]}
    BY UptoIs
  <2>3. Ordered(p[k]) /\ ToSet(p[k]) = Upto(es, k)
    BY <1>1, <1>2, <2>1, <2>2, InsertedKeepsOrder
  <2> QED
    BY <2>3
<1>5. n \in Good
  <2> HIDE DEF Good, n
  <2>1. \A k \in 0 .. n : k \in Good
    BY <1>2, <1>3, <1>4, UpTo
  <2> QED
    BY <1>2, <2>1
<1> QED
  BY <1>1, <1>2, <1>5, UptoIs

\* What a receipt counts for.
CountedOf(a) == [e \in Event |-> Counted(e, a)]

LEMMA CountedTyped ==
    ASSUME NEW e \in Event, NEW a \in Amounts
    PROVE  Counted(e, a) \in Int
<1>1. e.amount \in [Amounts -> Int] /\ e.is_void \in BOOLEAN
  BY EventTyped DEF DecryptedPaystubReceipt
<1> QED
  BY <1>1 DEF Counted

LEMMA SumOfIs ==
    ASSUME NEW R \in SUBSET Event, NEW a \in Amounts
    PROVE  SumOf(R, a) = SumOver(CountedOf(a), R)
<1> DEFINE pick(s) == CHOOSE e \in s : TRUE
           byField(iter) == iter = [s \in SUBSET R |->
               IF s = {} THEN 0
               ELSE (IF pick(s).is_void THEN 0 ELSE pick(s).amount[a]) + iter[s \ {pick(s)}]]
           byFunction(iter) == iter = [s \in SUBSET R |->
               IF s = {} THEN 0 ELSE CountedOf(a)[pick(s)] + iter[s \ {pick(s)}]]
<1>1. \A s \in SUBSET R : s # {} =>
         CountedOf(a)[pick(s)] = IF pick(s).is_void THEN 0 ELSE pick(s).amount[a]
  <2> SUFFICES ASSUME NEW s \in SUBSET R, s # {}
               PROVE  CountedOf(a)[pick(s)] = Counted(pick(s), a)
    BY DEF Counted
  <2>1. pick(s) \in Event
    OBVIOUS
  <2> HIDE DEF pick
  <2> QED
    BY <2>1 DEF CountedOf
<1>2. \A iter : byField(iter) <=> byFunction(iter)
  <2> SUFFICES ASSUME NEW iter PROVE byField(iter) <=> byFunction(iter)
    OBVIOUS
  <2> QED
    BY <1>1
<1>3. (CHOOSE iter : byField(iter)) = (CHOOSE iter : byFunction(iter))
  <2> HIDE DEF byField, byFunction
  <2> QED
    BY <1>2
<1>4. SumOver(CountedOf(a), R) = (CHOOSE iter : byFunction(iter))[R]
  BY DEF SumOver, MapThenSumSet, MapThenFoldSet
<1>5. SumOf(R, a) = (CHOOSE iter : byField(iter))[R]
  BY DEF SumOf, MapThenSumSet, MapThenFoldSet
<1> QED
  BY <1>3, <1>4, <1>5

LEMMA SumOfAdds ==
    ASSUME NEW R \in SUBSET Event, IsFiniteSet(R), NEW e \in Event, e \notin R, NEW a \in Amounts
    PROVE  /\ SumOf(R \cup {e}, a) = SumOf(R, a) + Counted(e, a)
           /\ SumOf(R, a) \in Int
<1>1. CountedOf(a) \in [Event -> Int] /\ CountedOf(a)[e] = Counted(e, a)
  BY CountedTyped DEF CountedOf
<1>2. SumOver(CountedOf(a), R \cup {e}) = CountedOf(a)[e] + SumOver(CountedOf(a), R)
  <2>1. CountedOf(a) \in [Event -> Int]
    BY <1>1
  <2> QED
    BY <2>1, SumAdd
<1>3. SumOver(CountedOf(a), R) \in Int /\ Counted(e, a) \in Int
  <2>1. CountedOf(a) \in [Event -> Int]
    BY <1>1
  <2> QED
    BY <2>1, SumInt, CountedTyped
<1>4. R \cup {e} \in SUBSET Event
  OBVIOUS
<1> QED
  BY <1>1, <1>2, <1>3, <1>4, SumOfIs

LEMMA SumOfNone == \A a \in Amounts : SumOf({}, a) = 0
BY SumOfIs, SumEmpty

----------------------------------------------------------------------------
(* Indexing.                                                               *)

IndexedAgreementEpoch ==
    [agreement_id : Int, epoch_id : Int, events : Seq(Event), total : [Amounts -> Int],
     min_anchor_height : Int, max_anchor_height : Int]

LEMMA OpenedIs ==
    ASSUME NEW e \in Event
    PROVE  /\ Opened(e) \in IndexedAgreementEpoch /\ KeyOf(Opened(e)) = KeyOf(e)
           /\ Opened(e).events = <<e>>
           /\ \A a \in Amounts : Opened(e).total[a] = Counted(e, a)
           /\ Opened(e).min_anchor_height = e.anchor_height
           /\ Opened(e).max_anchor_height = e.anchor_height
<1>1. \A a \in Amounts : Counted(e, a) \in Int
  BY CountedTyped
<1>2. e.agreement_id \in Int /\ e.epoch_id \in Int /\ e.anchor_height \in Int
  BY EventTyped DEF DecryptedPaystubReceipt
<1> QED
  BY <1>1, <1>2 DEF Opened, KeyOf, IndexedAgreementEpoch

\* What totals and window are.
Aggregate ==
    [total : [Amounts -> Int], min_anchor_height : Int, max_anchor_height : Int]

LEMMA AddedIs ==
    ASSUME NEW x \in Aggregate \cup IndexedAgreementEpoch, NEW e \in Event
    PROVE  /\ x \in Aggregate => Added(x, e) \in Aggregate
           /\ x \in IndexedAgreementEpoch =>
                 /\ Added(x, e) \in IndexedAgreementEpoch
                 /\ Added(x, e).events = x.events /\ KeyOf(Added(x, e)) = KeyOf(x)
           /\ \A a \in Amounts : Added(x, e).total[a] = x.total[a] + Counted(e, a)
           /\ Added(x, e).min_anchor_height = Lesser(x.min_anchor_height, e.anchor_height)
           /\ Added(x, e).max_anchor_height = Greater(x.max_anchor_height, e.anchor_height)
<1>1. \A a \in Amounts : Counted(e, a) \in Int
  BY CountedTyped
<1>2. e.anchor_height \in Int
  BY EventTyped DEF DecryptedPaystubReceipt
<1> DEFINE total == [a \in Amounts |-> x.total[a] + Counted(e, a)]
           least == Lesser(x.min_anchor_height, e.anchor_height)
           greatest == Greater(x.max_anchor_height, e.anchor_height)
<1>3. total \in [Amounts -> Int] /\ least \in Int /\ greatest \in Int
  BY <1>1, <1>2 DEF Aggregate, IndexedAgreementEpoch, Lesser, Greater
<1>4. Added(x, e) = [x EXCEPT !.total = total, !.min_anchor_height = least,
                              !.max_anchor_height = greatest]
  BY DEF Added
<1>5. \A a \in Amounts : total[a] = x.total[a] + Counted(e, a)
  OBVIOUS
<1> HIDE DEF total, least, greatest
<1>6. CASE x \in Aggregate
  BY <1>3, <1>4, <1>5, <1>6 DEF Aggregate, IndexedAgreementEpoch, KeyOf, least, greatest
<1>7. CASE x \in IndexedAgreementEpoch
  BY <1>3, <1>4, <1>5, <1>7 DEF Aggregate, IndexedAgreementEpoch, KeyOf, least, greatest
<1> QED
  BY <1>6, <1>7

LEMMA ExtendedIs ==
    ASSUME NEW b \in IndexedAgreementEpoch, NEW e \in Event
    PROVE  /\ Extended(b, e) \in IndexedAgreementEpoch /\ KeyOf(Extended(b, e)) = KeyOf(b)
           /\ Extended(b, e).events = Append(b.events, e)
           /\ \A a \in Amounts : Extended(b, e).total[a] = b.total[a] + Counted(e, a)
           /\ Extended(b, e).min_anchor_height = Lesser(b.min_anchor_height, e.anchor_height)
           /\ Extended(b, e).max_anchor_height = Greater(b.max_anchor_height, e.anchor_height)
<1> DEFINE x == Added(b, e)
<1>1. /\ x \in IndexedAgreementEpoch /\ x.events = b.events /\ KeyOf(x) = KeyOf(b)
      /\ \A a \in Amounts : x.total[a] = b.total[a] + Counted(e, a)
      /\ x.min_anchor_height = Lesser(b.min_anchor_height, e.anchor_height)
      /\ x.max_anchor_height = Greater(b.max_anchor_height, e.anchor_height)
  BY AddedIs
<1>2. Append(b.events, e) \in Seq(Event)
  BY DEF IndexedAgreementEpoch
<1>3. Extended(b, e) = [x EXCEPT !.events = Append(b.events, e)]
  BY <1>1 DEF Extended
<1> HIDE DEF x
<1> QED
  BY <1>1, <1>2, <1>3 DEF KeyOf, IndexedAgreementEpoch

\* A bucket of the key is extended, or else one is opened.
LEMMA BucketedIs ==
    ASSUME NEW bs \in Seq(IndexedAgreementEpoch), NEW e \in Event
    PROVE  /\ Bucketed(bs, e) \in Seq(IndexedAgreementEpoch)
           /\ \A i \in DOMAIN bs :
                 /\ i \in DOMAIN Bucketed(bs, e)
                 /\ Bucketed(bs, e)[i] = IF KeyOf(bs[i]) = KeyOf(e) THEN Extended(bs[i], e) ELSE bs[i]
           /\ (\E i \in DOMAIN bs : KeyOf(bs[i]) = KeyOf(e)) => DOMAIN Bucketed(bs, e) = DOMAIN bs
           /\ ~ (\E i \in DOMAIN bs : KeyOf(bs[i]) = KeyOf(e)) =>
                 /\ DOMAIN Bucketed(bs, e) = 1 .. Len(bs) + 1
                 /\ Bucketed(bs, e)[Len(bs) + 1] = Opened(e)
<1>0. /\ Len(bs) \in Nat /\ DOMAIN bs = 1 .. Len(bs)
      /\ \A i \in DOMAIN bs : bs[i] \in IndexedAgreementEpoch
  OBVIOUS
<1>1. CASE \E i \in DOMAIN bs : KeyOf(bs[i]) = KeyOf(e)
  <2> DEFINE new(i) == IF KeyOf(bs[i]) = KeyOf(e) THEN Extended(bs[i], e) ELSE bs[i]
             cs == [i \in 1 .. Len(bs) |-> new(i)]
  <2>1. Bucketed(bs, e) = cs
    BY <1>0, <1>1 DEF Bucketed
  <2>2. \A i \in 1 .. Len(bs) : new(i) \in IndexedAgreementEpoch
    BY <1>0, ExtendedIs
  <2> HIDE DEF new
  <2>3. cs \in Seq(IndexedAgreementEpoch)
    BY <1>0, <2>2
  <2> QED
    BY <1>0, <1>1, <2>1, <2>3 DEF new
<1>2. CASE ~ \E i \in DOMAIN bs : KeyOf(bs[i]) = KeyOf(e)
  <2>1. Bucketed(bs, e) = Append(bs, Opened(e)) /\ Opened(e) \in IndexedAgreementEpoch
    BY <1>2, OpenedIs DEF Bucketed
  <2> DEFINE cs == Append(bs, Opened(e))
  <2>2. /\ cs \in Seq(IndexedAgreementEpoch) /\ DOMAIN cs = 1 .. Len(bs) + 1
        /\ cs[Len(bs) + 1] = Opened(e)
        /\ \A i \in 1 .. Len(bs) : cs[i] = bs[i]
    BY <1>0, <2>1
  <2>3. Bucketed(bs, e) = cs
    BY <2>1
  <2> HIDE DEF cs
  <2>4. \A i \in DOMAIN bs : i \in DOMAIN cs /\ cs[i] = bs[i] /\ KeyOf(bs[i]) # KeyOf(e)
    BY <1>0, <1>2, <2>2
  <2> QED
    BY <1>2, <2>2, <2>3, <2>4
<1> QED
  BY <1>1, <1>2

LEMMA WindowOpens ==
    ASSUME NEW e \in Event
    PROVE  WindowOf({e}, e.anchor_height, e.anchor_height)
BY EventTyped DEF WindowOf, Heights, DecryptedPaystubReceipt

LEMMA WindowGrows ==
    ASSUME NEW R \in SUBSET Event, R # {}, NEW least, NEW greatest,
           WindowOf(R, least, greatest), NEW e \in Event
    PROVE  WindowOf(R \cup {e}, Lesser(least, e.anchor_height), Greater(greatest, e.anchor_height))
<1>1. e.anchor_height \in Int /\ \A h \in Heights(R) : h \in Int
  BY EventTyped DEF Heights, DecryptedPaystubReceipt
<1>2. Heights(R \cup {e}) = Heights(R) \cup {e.anchor_height}
  BY DEF Heights
<1>3. /\ least \in Heights(R) /\ greatest \in Heights(R)
      /\ \A h \in Heights(R) : least <= h /\ h <= greatest
  BY DEF WindowOf
<1> DEFINE l == Lesser(least, e.anchor_height)
           g == Greater(greatest, e.anchor_height)
<1>4. l \in Heights(R \cup {e}) /\ g \in Heights(R \cup {e})
  BY <1>2, <1>3 DEF Lesser, Greater
<1>5. \A h \in Heights(R \cup {e}) : l <= h /\ h <= g
  BY <1>1, <1>2, <1>3 DEF Lesser, Greater
<1> QED
  BY <1>4, <1>5 DEF WindowOf

KeyBefore(k, l) == k[1] < l[1] \/ (k[1] = l[1] /\ k[2] < l[2])

\* What the index says of the events E in one bucket, and in all.
BucketOf(b, E) ==
    /\ b.events # <<>> /\ Ordered(b.events)
    /\ ToSet(b.events) = {e \in E : KeyOf(e) = KeyOf(b)}
    /\ \A a \in Amounts : b.total[a] = SumOf(ToSet(b.events), a)
    /\ WindowOf(ToSet(b.events), b.min_anchor_height, b.max_anchor_height)

IndexOf(bs, E) ==
    /\ \A e \in E : \E i \in DOMAIN bs : KeyOf(bs[i]) = KeyOf(e)
    /\ \A i, j \in DOMAIN bs : i < j => KeyBefore(KeyOf(bs[i]), KeyOf(bs[j]))
    /\ \A i \in DOMAIN bs : BucketOf(bs[i], E)

LEMMA BeforeByKey ==
    ASSUME NEW x \in Event, NEW y \in Event, Before(x, y)
    PROVE  /\ KeyOf(x) # KeyOf(y) => KeyBefore(KeyOf(x), KeyOf(y))
           /\ KeyOf(x) = KeyOf(y) =>
                 \/ x.anchor_height < y.anchor_height
                 \/ x.anchor_height = y.anchor_height /\ x.receipt_anchor < y.receipt_anchor
<1> DEFINE Typed(r) == /\ r.agreement_id \in Int /\ r.epoch_id \in Int
                       /\ r.anchor_height \in Int /\ r.receipt_anchor \in Int
<1>1. Typed(x) /\ Typed(y)
  BY EventTyped DEF DecryptedPaystubReceipt
<1> QED
  BY <1>1 DEF Before, KeyOf, KeyBefore

LEMMA OrderedAppend ==
    ASSUME NEW s \in Seq(Event), Ordered(s), NEW e \in Event, \A x \in ToSet(s) : Before(x, e)
    PROVE  /\ Append(s, e) \in Seq(Event) /\ Append(s, e) # <<>> /\ Ordered(Append(s, e))
           /\ ToSet(Append(s, e)) = ToSet(s) \cup {e}
<1> DEFINE t == Append(s, e)
<1>1. /\ t \in Seq(Event) /\ t # <<>> /\ DOMAIN t = 1 .. Len(s) + 1 /\ t[Len(s) + 1] = e
      /\ Len(s) \in Nat /\ DOMAIN s = 1 .. Len(s) /\ \A i \in 1 .. Len(s) : t[i] = s[i]
  OBVIOUS
<1> HIDE DEF t
<1>2. Ordered(t)
  <2> SUFFICES ASSUME NEW i \in 1 .. Len(s) + 1, NEW j \in 1 .. Len(s) + 1, i < j
               PROVE  Before(t[i], t[j])
    BY <1>1 DEF Ordered
  <2>1. i \in DOMAIN s /\ t[i] = s[i] /\ s[i] \in ToSet(s)
    BY <1>1 DEF ToSet
  <2>2. CASE j = Len(s) + 1
    BY <1>1, <2>1, <2>2
  <2>3. CASE j # Len(s) + 1
    BY <1>1, <2>1, <2>3 DEF Ordered
  <2> QED
    BY <2>2, <2>3
<1>3. ToSet(t) = ToSet(s) \cup {e}
  <2>1. \A i \in 1 .. Len(s) + 1 : i \in 1 .. Len(s) \/ i = Len(s) + 1
    BY <1>1
  <2>2. Len(s) + 1 \in DOMAIN t /\ \A i \in DOMAIN s : i \in DOMAIN t
    BY <1>1
  <2> QED
    BY <1>1, <2>1, <2>2 DEF ToSet
<1> QED
  BY <1>1, <1>2, <1>3 DEF t

LEMMA OpenedKeeps ==
    ASSUME NEW E \in SUBSET Event, NEW e \in Event, \A x \in E : KeyOf(x) # KeyOf(e)
    PROVE  BucketOf(Opened(e), E \cup {e})
<1>1. /\ <<e>> # <<>> /\ ToSet(<<e>>) = {e} /\ Ordered(<<e>>)
  BY DEF ToSet, Ordered
<1>2. {x \in E \cup {e} : KeyOf(x) = KeyOf(e)} = {e}
  OBVIOUS
<1>3. \A a \in Amounts : SumOf({e}, a) = Counted(e, a)
  <2> SUFFICES ASSUME NEW a \in Amounts PROVE SumOf({e}, a) = Counted(e, a)
    OBVIOUS
  <2>1. SumOf({} \cup {e}, a) = SumOf({}, a) + Counted(e, a)
    BY SumOfAdds, FS_EmptySet
  <2>2. {} \cup {e} = {e} /\ SumOf({}, a) = 0 /\ Counted(e, a) \in Int
    BY SumOfNone, CountedTyped
  <2> QED
    BY <2>1, <2>2
<1> QED
  BY <1>1, <1>2, <1>3, OpenedIs, WindowOpens DEF BucketOf

LEMMA ExtendedKeeps ==
    ASSUME NEW E \in SUBSET Event, IsFiniteSet(E), NEW e \in Event, e \notin E,
           \A x \in E : Before(x, e),
           NEW b \in IndexedAgreementEpoch, BucketOf(b, E), KeyOf(b) = KeyOf(e)
    PROVE  BucketOf(Extended(b, e), E \cup {e})
<1> DEFINE R == ToSet(b.events)
           x == Extended(b, e)
<1>1. /\ b.events \in Seq(Event) /\ Ordered(b.events) /\ R = {y \in E : KeyOf(y) = KeyOf(b)}
      /\ b.events # <<>>
  BY DEF BucketOf, IndexedAgreementEpoch
<1>2. R \in SUBSET E /\ R # {} /\ e \notin R
  <2>1. 1 \in DOMAIN b.events
    BY <1>1
  <2>2. R # {}
    BY <2>1 DEF ToSet
  <2> QED
    BY <1>1, <2>2
<1>3. R \in SUBSET Event /\ IsFiniteSet(R)
  BY <1>2, FS_Subset
<1>4. /\ x.events # <<>> /\ Ordered(x.events) /\ ToSet(x.events) = R \cup {e}
  BY <1>1, <1>2, OrderedAppend, ExtendedIs
<1>5. R \cup {e} = {y \in E \cup {e} : KeyOf(y) = KeyOf(x)}
  BY <1>1, ExtendedIs
<1>6. ASSUME NEW a \in Amounts PROVE x.total[a] = SumOf(R \cup {e}, a)
  <2>1. b.total[a] = SumOf(R, a)
    BY DEF BucketOf
  <2>2. x.total[a] = b.total[a] + Counted(e, a)
    BY ExtendedIs
  <2>3. SumOf(R \cup {e}, a) = SumOf(R, a) + Counted(e, a)
    BY <1>2, <1>3, SumOfAdds
  <2> QED
    BY <2>1, <2>2, <2>3
<1>7. WindowOf(R \cup {e}, x.min_anchor_height, x.max_anchor_height)
  <2>1. WindowOf(R, b.min_anchor_height, b.max_anchor_height)
    BY DEF BucketOf
  <2>2. WindowOf(R \cup {e}, Lesser(b.min_anchor_height, e.anchor_height),
                 Greater(b.max_anchor_height, e.anchor_height))
    BY <1>2, <1>3, <2>1, WindowGrows
  <2> QED
    BY <2>2, ExtendedIs
<1> HIDE DEF R, x
<1> QED
  BY <1>4, <1>5, <1>6, <1>7 DEF BucketOf, x

\* An event that comes after all in the index goes to its bucket.
LEMMA BucketedKeeps ==
    ASSUME NEW E \in SUBSET Event, IsFiniteSet(E), NEW e \in Event, e \notin E,
           \A x \in E : Before(x, e),
           NEW bs \in Seq(IndexedAgreementEpoch), IndexOf(bs, E)
    PROVE  IndexOf(Bucketed(bs, e), E \cup {e})
<1> DEFINE cs == Bucketed(bs, e)
           n == Len(bs)
<1>0. /\ n \in Nat /\ DOMAIN bs = 1 .. n /\ \A i \in 1 .. n : bs[i] \in IndexedAgreementEpoch
  OBVIOUS
<1>1. \A i \in 1 .. n : BucketOf(bs[i], E)
  BY <1>0 DEF IndexOf
<1>2. /\ \A i \in 1 .. n :
            /\ i \in DOMAIN cs
            /\ cs[i] = IF KeyOf(bs[i]) = KeyOf(e) THEN Extended(bs[i], e) ELSE bs[i]
      /\ (\E i \in 1 .. n : KeyOf(bs[i]) = KeyOf(e)) => DOMAIN cs = 1 .. n
      /\ ~ (\E i \in 1 .. n : KeyOf(bs[i]) = KeyOf(e)) =>
            DOMAIN cs = 1 .. n + 1 /\ cs[n + 1] = Opened(e)
  BY <1>0, BucketedIs
<1> HIDE DEF cs
<1>3. ASSUME NEW i \in 1 .. n
      PROVE  KeyOf(cs[i]) = KeyOf(bs[i]) /\ BucketOf(cs[i], E \cup {e})
  <2>1. CASE KeyOf(bs[i]) = KeyOf(e)
    <3>1. cs[i] = Extended(bs[i], e) /\ bs[i] \in IndexedAgreementEpoch /\ BucketOf(bs[i], E)
      BY <1>0, <1>1, <1>2, <2>1
    <3>2. KeyOf(Extended(bs[i], e)) = KeyOf(bs[i])
      BY <3>1, ExtendedIs
    <3>3. BucketOf(Extended(bs[i], e), E \cup {e})
      BY <2>1, <3>1, ExtendedKeeps
    <3> QED
      BY <3>1, <3>2, <3>3
  <2>2. CASE KeyOf(bs[i]) # KeyOf(e)
    <3>1. cs[i] = bs[i]
      BY <1>2, <2>2
    <3>2. {x \in E \cup {e} : KeyOf(x) = KeyOf(bs[i])} = {x \in E : KeyOf(x) = KeyOf(bs[i])}
      BY <2>2
    <3> QED
      BY <1>1, <3>1, <3>2 DEF BucketOf
  <2> QED
    BY <2>1, <2>2
<1>4. CASE \E i \in 1 .. n : KeyOf(bs[i]) = KeyOf(e)
  <2>1. DOMAIN cs = 1 .. n
    BY <1>2, <1>4
  <2>2. \A x \in E \cup {e} : \E i \in DOMAIN cs : KeyOf(cs[i]) = KeyOf(x)
    BY <1>0, <1>3, <1>4, <2>1 DEF IndexOf
  <2>3. \A i, j \in DOMAIN cs : i < j => KeyBefore(KeyOf(cs[i]), KeyOf(cs[j]))
    BY <1>0, <1>3, <2>1 DEF IndexOf
  <2>4. \A i \in DOMAIN cs : BucketOf(cs[i], E \cup {e})
    BY <1>3, <2>1
  <2> QED
    BY <2>2, <2>3, <2>4 DEF IndexOf, cs
<1>5. CASE ~ \E i \in 1 .. n : KeyOf(bs[i]) = KeyOf(e)
  <2>1. DOMAIN cs = 1 .. n + 1 /\ cs[n + 1] = Opened(e) /\ KeyOf(cs[n + 1]) = KeyOf(e)
    BY <1>2, <1>5, OpenedIs
  <2>2. \A x \in E : KeyOf(x) # KeyOf(e)
    BY <1>0, <1>5 DEF IndexOf
  <2>3. \A x \in E \cup {e} : \E i \in DOMAIN cs : KeyOf(cs[i]) = KeyOf(x)
    <3>1. \A x \in E : \E i \in 1 .. n : KeyOf(cs[i]) = KeyOf(x)
      BY <1>0, <1>3 DEF IndexOf
    <3>2. n + 1 \in DOMAIN cs /\ \A i \in 1 .. n : i \in DOMAIN cs
      BY <1>0, <2>1
    <3> QED
      BY <2>1, <3>1, <3>2
  <2>4. ASSUME NEW i \in 1 .. n PROVE KeyBefore(KeyOf(cs[i]), KeyOf(e))
    <3>1. bs[i].events \in Seq(Event) /\ bs[i].events # <<>>
      BY <1>0, <1>1 DEF BucketOf, IndexedAgreementEpoch
    <3>2. 1 \in DOMAIN bs[i].events
      BY <3>1
    <3> DEFINE x == bs[i].events[1]
    <3>3. x \in E /\ KeyOf(x) = KeyOf(bs[i])
      <4>1. x \in ToSet(bs[i].events)
        BY <3>2 DEF ToSet
      <4>2. ToSet(bs[i].events) = {y \in E : KeyOf(y) = KeyOf(bs[i])}
        BY <1>1 DEF BucketOf
      <4> QED
        BY <4>1, <4>2
    <3> HIDE DEF x
    <3> QED
      BY <1>3, <2>2, <3>3, BeforeByKey
  <2>5. ASSUME NEW i \in DOMAIN cs, NEW j \in DOMAIN cs, i < j
        PROVE  KeyBefore(KeyOf(cs[i]), KeyOf(cs[j]))
    <3>1. i \in 1 .. n /\ (j \in 1 .. n \/ j = n + 1)
      BY <1>0, <2>1, <2>5
    <3>2. CASE j = n + 1
      BY <2>1, <2>4, <3>1, <3>2
    <3>3. CASE j \in 1 .. n
      BY <1>0, <1>3, <2>5, <3>1, <3>3 DEF IndexOf
    <3> QED
      BY <3>1, <3>2, <3>3
  <2>6. ASSUME NEW i \in DOMAIN cs PROVE BucketOf(cs[i], E \cup {e})
    <3>1. CASE i \in 1 .. n
      BY <1>3, <3>1
    <3>2. CASE i = n + 1
      BY <2>1, <2>2, <3>2, OpenedKeeps
    <3> QED
      BY <1>0, <2>1, <3>1, <3>2
  <2> QED
    BY <2>3, <2>5, <2>6 DEF IndexOf, cs
<1> QED
  BY <1>4, <1>5

LEMMA BucketedSteps ==
    ASSUME NEW es \in Seq(Event)
    PROVE  \E p \in [0 .. Len(es) -> Seq(IndexedAgreementEpoch)] :
              /\ p[0] = <<>> /\ \A k \in 1 .. Len(es) : p[k] = Bucketed(p[k - 1], es[k])
              /\ FoldLeft(Bucketed, <<>>, es) = p[Len(es)]
<1> DEFINE n == Len(es)
           V == Seq(IndexedAgreementEpoch)
           step == [k \in 1 .. n |-> [v \in V |-> Bucketed(v, es[k])]]
           Is(g) == g = [s \in SUBSET (1 .. n) |->
                            IF s = {} THEN <<>> ELSE Bucketed(g[s \ {Max(s)}], es[Max(s)])]
           it == CHOOSE g : Is(g)
<1>1. n \in Nat /\ 1 .. n = DOMAIN es /\ <<>> \in V /\ \A k \in 1 .. n : es[k] \in Event
  OBVIOUS
<1>2. step \in [1 .. n -> [V -> V]]
  <2> SUFFICES ASSUME NEW k \in 1 .. n, NEW v \in V PROVE Bucketed(v, es[k]) \in V
    OBVIOUS
  <2> QED
    BY <1>1, BucketedIs
<1>3. PICK g \in [SUBSET (1 .. n) -> V], p \in [0 .. n -> V] : Walks(g, p, <<>>, step, n)
  <2>1. n \in Nat
    BY <1>1
  <2>2. <<>> \in V
    BY <1>1
  <2> HIDE DEF step, V, n
  <2> QED
    BY <1>2, <2>1, <2>2, FoldWalks
<1>4. \A s \in SUBSET (1 .. n) : s # {} => g[s] = Bucketed(g[s \ {Max(s)}], es[Max(s)])
  BY <1>3 DEF Walks
<1>5. g[{}] = <<>> /\ p[0] = <<>> /\ p[n] = g[1 .. n] /\ Is(g)
  BY <1>3, <1>4 DEF Walks
<1>6. Is(it)
  BY <1>5
<1>7. it[1 .. n] = g[1 .. n]
  <2>1. it[{}] = g[{}]
    BY <1>5, <1>6
  <2>2. \A s \in SUBSET (1 .. n) : s # {} /\ it[s \ {Max(s)}] = g[s \ {Max(s)}] => it[s] = g[s]
    BY <1>4, <1>6
  <2> HIDE DEF it, n
  <2> QED
    BY <1>1, <2>1, <2>2, FoldsAgree
<1>8. FoldLeft(Bucketed, <<>>, es) = it[1 .. n]
  BY <1>1 DEF FoldLeft, MapThenFoldSet
<1>9. ASSUME NEW k \in 1 .. n PROVE p[k] = Bucketed(p[k - 1], es[k])
  <2>1. p[k - 1] \in V
    BY <1>1
  <2>2. p[k] = step[k][p[k - 1]]
    BY <1>3 DEF Walks
  <2> QED
    BY <2>1, <2>2
<1> QED
  BY <1>5, <1>7, <1>8, <1>9

LEMMA UptoFinite ==
    ASSUME NEW S, NEW s \in Seq(S)
    PROVE  \A k \in 0 .. Len(s) : IsFiniteSet(Upto(s, k))
<1> DEFINE Good == {k \in 0 .. Len(s) : IsFiniteSet(Upto(s, k))}
<1>1. Len(s) \in Nat
  OBVIOUS
<1>2. 0 \in Good
  <2>1. 0 \in 0 .. Len(s) /\ Upto(s, 0) = {}
    BY <1>1, UptoIs
  <2>2. IsFiniteSet({})
    BY FS_EmptySet
  <2> QED
    BY <2>1, <2>2
<1>3. \A k \in 1 .. Len(s) : k - 1 \in Good => k \in Good
  BY UptoIs, FS_AddElement
<1> HIDE DEF Good
<1>4. \A k \in 0 .. Len(s) : k \in Good
  BY <1>1, <1>2, <1>3, UpTo
<1> QED
  BY <1>4 DEF Good

LEMMA OrderedIsInjective ==
    ASSUME NEW s \in Seq(Event), Ordered(s)
    PROVE  /\ IsInjective(s)
           /\ \A k \in 1 .. Len(s) : \A x \in Upto(s, k - 1) : Before(x, s[k])
<1>1. Len(s) \in Nat /\ DOMAIN s = 1 .. Len(s) /\ \A k \in 1 .. Len(s) : s[k] \in Event
  OBVIOUS
<1>2. IsInjective(s)
  <2> SUFFICES ASSUME NEW i \in 1 .. Len(s), NEW j \in 1 .. Len(s), s[i] = s[j], i # j
               PROVE  FALSE
    BY <1>1 DEF IsInjective
  <2>1. Before(s[i], s[j]) \/ Before(s[j], s[i])
    BY <1>1 DEF Ordered
  <2> QED
    BY <1>1, <2>1, BeforeOrders
<1>3. ASSUME NEW k \in 1 .. Len(s), NEW i \in 1 .. k - 1 PROVE Before(s[i], s[k])
  BY <1>1 DEF Ordered
<1> QED
  BY <1>2, <1>3 DEF Upto

\* The index of a batch is the index of its events.
LEMMA IndexIs ==
    ASSUME NEW es \in Seq(Event), IsInjective(es)
    PROVE  /\ indexByAgreementAndEpoch(es) \in Seq(IndexedAgreementEpoch)
           /\ IndexOf(indexByAgreementAndEpoch(es), ToSet(es))
<1> DEFINE s == Sorted(es)
           n == Len(s)
<1>1. s \in Seq(Event) /\ Ordered(s) /\ ToSet(s) = ToSet(es)
  BY SortedIs
<1>2. indexByAgreementAndEpoch(es) = FoldLeft(Bucketed, <<>>, s)
  BY DEF indexByAgreementAndEpoch
<1> HIDE DEF s
<1>3. n \in Nat /\ \A k \in 1 .. n : s[k] \in Event
  BY <1>1
<1>4. PICK p \in [0 .. n -> Seq(IndexedAgreementEpoch)] :
          /\ p[0] = <<>> /\ \A k \in 1 .. n : p[k] = Bucketed(p[k - 1], s[k])
          /\ FoldLeft(Bucketed, <<>>, s) = p[n]
  BY <1>1, BucketedSteps
<1> DEFINE Good == {k \in 0 .. n : IndexOf(p[k], Upto(s, k))}
<1>5. 0 \in Good
  <2>1. 0 \in 0 .. n /\ Upto(s, 0) = {} /\ DOMAIN p[0] = {}
    BY <1>1, <1>3, <1>4, UptoIs
  <2>2. IndexOf(p[0], Upto(s, 0))
    BY <2>1 DEF IndexOf
  <2> QED
    BY <2>1, <2>2
<1>6. ASSUME NEW k \in 1 .. n, k - 1 \in Good PROVE k \in Good
  <2>0. k - 1 \in 0 .. n /\ k \in 0 .. n
    <3>1. n \in Nat
      BY <1>3
    <3> HIDE DEF n, Good
    <3> QED
      BY <3>1
  <2>1. k - 1 \in 0 .. n /\ k \in 0 .. n /\ p[k - 1] \in Seq(IndexedAgreementEpoch)
    BY <1>4, <2>0
  <2>2. IndexOf(p[k - 1], Upto(s, k - 1))
    BY <1>6
  <2>3. Upto(s, k - 1) \in SUBSET Event /\ IsFiniteSet(Upto(s, k - 1))
    BY <1>1, <2>1, UptoIs, UptoFinite
  <2>4. s[k] \notin Upto(s, k - 1) /\ Upto(s, k) = Upto(s, k - 1) \cup {s[k]}
    BY <1>1, UptoIs, OrderedIsInjective
  <2>5. \A x \in Upto(s, k - 1) : Before(x, s[k])
    BY <1>1, OrderedIsInjective
  <2>6. s[k] \in Event
    BY <1>3
  <2>7. IndexOf(Bucketed(p[k - 1], s[k]), Upto(s, k - 1) \cup {s[k]})
    BY <2>1, <2>2, <2>3, <2>4, <2>5, <2>6, BucketedKeeps
  <2>8. p[k] = Bucketed(p[k - 1], s[k])
    BY <1>4
  <2> QED
    BY <2>1, <2>4, <2>7, <2>8
<1>7. n \in Good
  <2> HIDE DEF Good, n
  <2>1. \A k \in 0 .. n : k \in Good
    BY <1>3, <1>5, <1>6, UpTo
  <2> QED
    BY <1>3, <2>1
<1>8. Upto(s, n) = ToSet(s)
  BY <1>1, UptoIs
<1>9. p[n] \in Seq(IndexedAgreementEpoch)
  BY <1>3, <1>4
<1> QED
  BY <1>1, <1>2, <1>4, <1>7, <1>8, <1>9

----------------------------------------------------------------------------
(* What the caller hands over, and the documents built from it.            *)

Batches == {s \in Seq(Event) : IsInjective(s)}

LEMMA BatchAppend ==
    ASSUME NEW s \in Batches, NEW e \in Event, e \notin ToSet(s)
    PROVE  Append(s, e) \in Batches /\ ToSet(Append(s, e)) = ToSet(s) \cup {e}
<1> DEFINE t == Append(s, e)
<1>1. /\ s \in Seq(Event) /\ IsInjective(s) /\ Len(s) \in Nat /\ DOMAIN s = 1 .. Len(s)
      /\ \A i \in 1 .. Len(s) : s[i] # e
  BY DEF Batches, ToSet
<1>2. /\ t \in Seq(Event) /\ DOMAIN t = 1 .. Len(s) + 1 /\ t[Len(s) + 1] = e
      /\ \A i \in 1 .. Len(s) : t[i] = s[i]
  BY <1>1
<1> HIDE DEF t
<1>3. \A i \in 1 .. Len(s) + 1 : i \in 1 .. Len(s) \/ i = Len(s) + 1
  BY <1>1
<1>4. IsInjective(t)
  BY <1>1, <1>2, <1>3 DEF IsInjective
<1>5. ToSet(t) = ToSet(s) \cup {e}
  <2>1. Len(s) + 1 \in DOMAIN t /\ \A i \in DOMAIN s : i \in DOMAIN t
    BY <1>1, <1>2
  <2> QED
    BY <1>1, <1>2, <1>3, <2>1 DEF ToSet
<1> QED
  BY <1>2, <1>4, <1>5 DEF Batches, t

LEMMA BatchConcat ==
    ASSUME NEW s \in Batches, NEW t \in Batches, ToSet(s) \cap ToSet(t) = {}
    PROVE  s \o t \in Batches /\ ToSet(s \o t) = ToSet(s) \cup ToSet(t)
<1> DEFINE m == Len(s)
           n == Len(t)
           u == s \o t
<1>1. /\ s \in Seq(Event) /\ IsInjective(s) /\ m \in Nat /\ DOMAIN s = 1 .. m
      /\ t \in Seq(Event) /\ IsInjective(t) /\ n \in Nat /\ DOMAIN t = 1 .. n
  BY DEF Batches
<1>2. /\ u \in Seq(Event) /\ Len(u) = m + n
      /\ \A i \in 1 .. m + n : u[i] = IF i <= m THEN s[i] ELSE t[i - m]
  BY <1>1, ConcatProperties
<1> HIDE DEF u, m, n
<1>3. DOMAIN u = 1 .. m + n
  BY <1>1, <1>2
<1>4. ASSUME NEW i \in 1 .. m + n
      PROVE  \/ i \in 1 .. m /\ i \in DOMAIN s /\ u[i] = s[i] /\ u[i] \in ToSet(s)
             \/ i > m /\ i - m \in DOMAIN t /\ u[i] = t[i - m] /\ u[i] \in ToSet(t)
  <2>1. CASE i <= m
    BY <1>1, <1>2, <2>1 DEF ToSet
  <2>2. CASE i > m
    <3>1. i - m \in DOMAIN t /\ i \in 1 .. m + n /\ ~ (i <= m)
      BY <1>1, <2>2
    <3>2. u[i] = t[i - m]
      BY <1>2, <3>1
    <3>3. t[i - m] \in ToSet(t)
      BY <3>1 DEF ToSet
    <3> QED
      BY <2>2, <3>1, <3>2, <3>3
  <2> QED
    BY <1>1, <2>1, <2>2
<1>5. IsInjective(u)
  <2> SUFFICES ASSUME NEW i \in 1 .. m + n, NEW j \in 1 .. m + n, u[i] = u[j]
               PROVE  i = j
    BY <1>3 DEF IsInjective
  <2>1. CASE i \in DOMAIN s /\ j \in DOMAIN s /\ u[i] = s[i] /\ u[j] = s[j]
    BY <1>1, <2>1 DEF IsInjective
  <2>2. CASE i - m \in DOMAIN t /\ j - m \in DOMAIN t /\ u[i] = t[i - m] /\ u[j] = t[j - m]
    <3>1. i - m = j - m
      BY <1>1, <2>2 DEF IsInjective
    <3> QED
      BY <1>1, <3>1
  <2> QED
    BY <1>4, <2>1, <2>2
<1>6. ToSet(u) = ToSet(s) \cup ToSet(t)
  <2>1. ToSet(u) \subseteq ToSet(s) \cup ToSet(t)
    BY <1>3, <1>4 DEF ToSet
  <2>2. ASSUME NEW i \in DOMAIN s PROVE s[i] \in ToSet(u)
    <3>1. i \in DOMAIN u /\ u[i] = s[i]
      BY <1>1, <1>2, <1>3
    <3> QED
      BY <3>1 DEF ToSet
  <2>3. ASSUME NEW i \in DOMAIN t PROVE t[i] \in ToSet(u)
    <3>1. i + m \in DOMAIN u /\ u[i + m] = t[i]
      <4>1. i + m \in 1 .. m + n /\ ~ (i + m <= m) /\ (i + m) - m = i
        BY <1>1
      <4>2. u[i + m] = t[(i + m) - m]
        BY <1>2, <4>1
      <4> QED
        BY <1>3, <4>1, <4>2
    <3> QED
      BY <3>1 DEF ToSet
  <2>4. ToSet(s) \cup ToSet(t) \subseteq ToSet(u)
    BY <2>2, <2>3 DEF ToSet
  <2> QED
    BY <2>1, <2>4
<1> QED
  BY <1>2, <1>5, <1>6 DEF Batches, u

\* One event of the batch after another is taken or left.
LEMMA SelectedSteps ==
    ASSUME NEW xs \in Seq(Event), NEW a
    PROVE  \E p \in [0 .. Len(xs) -> Seq(Event)] :
              /\ p[0] = <<>>
              /\ \A k \in 1 .. Len(xs) :
                    p[k] = IF xs[k].agreement_id = a THEN Append(p[k - 1], xs[k]) ELSE p[k - 1]
              /\ Selected(a, xs) = p[Len(xs)]
<1> DEFINE n == Len(xs)
           V == Seq(Event)
           Taken(es, e) == IF e.agreement_id = a THEN Append(es, e) ELSE es
           step == [k \in 1 .. n |-> [v \in V |-> Taken(v, xs[k])]]
           Is(g) == g = [s \in SUBSET (1 .. n) |->
                            IF s = {} THEN <<>> ELSE Taken(g[s \ {Max(s)}], xs[Max(s)])]
           it == CHOOSE g : Is(g)
<1>1. n \in Nat /\ 1 .. n = DOMAIN xs /\ <<>> \in V /\ \A k \in 1 .. n : xs[k] \in Event
  OBVIOUS
<1>2. step \in [1 .. n -> [V -> V]]
  <2> SUFFICES ASSUME NEW k \in 1 .. n, NEW v \in V PROVE Taken(v, xs[k]) \in V
    OBVIOUS
  <2> QED
    BY <1>1
<1>3. PICK g \in [SUBSET (1 .. n) -> V], p \in [0 .. n -> V] : Walks(g, p, <<>>, step, n)
  <2>1. n \in Nat
    BY <1>1
  <2>2. <<>> \in V
    BY <1>1
  <2> HIDE DEF step, V, n
  <2> QED
    BY <1>2, <2>1, <2>2, FoldWalks
<1>8. Selected(a, xs) = it[1 .. n]
  BY <1>1 DEF Selected, FoldLeft, MapThenFoldSet
<1> HIDE DEF Taken
<1>4. \A s \in SUBSET (1 .. n) : s # {} => g[s] = Taken(g[s \ {Max(s)}], xs[Max(s)])
  BY <1>3 DEF Walks
<1>5. g[{}] = <<>> /\ p[0] = <<>> /\ p[n] = g[1 .. n] /\ Is(g)
  BY <1>3, <1>4 DEF Walks
<1>6. Is(it)
  BY <1>5
<1>7. it[1 .. n] = g[1 .. n]
  <2>1. it[{}] = g[{}]
    BY <1>5, <1>6
  <2>2. \A s \in SUBSET (1 .. n) : s # {} /\ it[s \ {Max(s)}] = g[s \ {Max(s)}] => it[s] = g[s]
    BY <1>4, <1>6
  <2> HIDE DEF it, n
  <2> QED
    BY <1>1, <2>1, <2>2, FoldsAgree
<1>9. ASSUME NEW k \in 1 .. n PROVE p[k] = Taken(p[k - 1], xs[k])
  <2>1. p[k - 1] \in V
    BY <1>1
  <2>2. p[k] = step[k][p[k - 1]]
    BY <1>3 DEF Walks
  <2> QED
    BY <2>1, <2>2
<1> QED
  BY <1>5, <1>7, <1>8, <1>9 DEF Taken

LEMMA SelectedIs ==
    ASSUME NEW xs \in Batches, NEW a
    PROVE  Selected(a, xs) \in Batches
<1> DEFINE n == Len(xs)
<1>0. xs \in Seq(Event) /\ IsInjective(xs)
  BY DEF Batches
<1>1. n \in Nat /\ \A k \in 1 .. n : xs[k] \in Event
  BY <1>0
<1>2. PICK p \in [0 .. n -> Seq(Event)] :
         /\ p[0] = <<>>
         /\ \A k \in 1 .. n :
               p[k] = IF xs[k].agreement_id = a THEN Append(p[k - 1], xs[k]) ELSE p[k - 1]
         /\ Selected(a, xs) = p[n]
  BY <1>0, SelectedSteps
<1> DEFINE Good == {k \in 0 .. n : p[k] \in Batches /\ ToSet(p[k]) \subseteq Upto(xs, k)}
<1>3. 0 \in Good
  <2>1. <<>> \in Batches /\ ToSet(<<>>) = {} /\ 0 \in 0 .. n
    BY <1>1 DEF Batches, IsInjective, ToSet
  <2> QED
    BY <1>2, <2>1
<1>4. ASSUME NEW k \in 1 .. n, k - 1 \in Good PROVE k \in Good
  <2>1. p[k - 1] \in Batches /\ ToSet(p[k - 1]) \subseteq Upto(xs, k - 1)
    BY <1>4
  <2>2. xs[k] \notin Upto(xs, k - 1) /\ Upto(xs, k) = Upto(xs, k - 1) \cup {xs[k]}
    BY <1>0, UptoIs
  <2>3. CASE xs[k].agreement_id = a
    <3>1. p[k] = Append(p[k - 1], xs[k]) /\ xs[k] \in Event /\ xs[k] \notin ToSet(p[k - 1])
      BY <1>1, <1>2, <2>1, <2>2, <2>3
    <3>2. p[k] \in Batches /\ ToSet(p[k]) = ToSet(p[k - 1]) \cup {xs[k]}
      BY <2>1, <3>1, BatchAppend
    <3> QED
      BY <2>1, <2>2, <3>2
  <2>4. CASE xs[k].agreement_id # a
    <3>1. p[k] = p[k - 1]
      BY <1>2, <2>4
    <3> QED
      BY <2>1, <2>2, <3>1
  <2> QED
    BY <2>3, <2>4
<1>5. n \in Good
  <2> HIDE DEF Good, n
  <2>1. \A k \in 0 .. n : k \in Good
    BY <1>1, <1>3, <1>4, UpTo
  <2> QED
    BY <1>1, <2>1
<1> QED
  BY <1>2, <1>5

\* One bucket after another is taken or left.
LEMMA EventsSteps ==
    ASSUME NEW bs \in Seq(IndexedAgreementEpoch), NEW a
    PROVE  \E p \in [0 .. Len(bs) -> Seq(Event)] :
              /\ p[0] = <<>>
              /\ \A k \in 1 .. Len(bs) :
                    p[k] = IF bs[k].agreement_id = a THEN p[k - 1] \o bs[k].events ELSE p[k - 1]
              /\ EventsOf(a, bs) = p[Len(bs)]
<1> DEFINE n == Len(bs)
           V == Seq(Event)
           Taken(es, b) == IF b.agreement_id = a THEN es \o b.events ELSE es
           step == [k \in 1 .. n |-> [v \in V |-> Taken(v, bs[k])]]
           Is(g) == g = [s \in SUBSET (1 .. n) |->
                            IF s = {} THEN <<>> ELSE Taken(g[s \ {Max(s)}], bs[Max(s)])]
           it == CHOOSE g : Is(g)
<1>1. /\ n \in Nat /\ 1 .. n = DOMAIN bs /\ <<>> \in V
      /\ \A k \in 1 .. n : bs[k] \in IndexedAgreementEpoch
  OBVIOUS
<1>2. step \in [1 .. n -> [V -> V]]
  <2> SUFFICES ASSUME NEW k \in 1 .. n, NEW v \in V PROVE Taken(v, bs[k]) \in V
    OBVIOUS
  <2>1. bs[k].events \in Seq(Event)
    BY <1>1 DEF IndexedAgreementEpoch
  <2>2. v \o bs[k].events \in Seq(Event)
    BY <2>1, ConcatProperties
  <2> QED
    BY <2>2
<1>3. PICK g \in [SUBSET (1 .. n) -> V], p \in [0 .. n -> V] : Walks(g, p, <<>>, step, n)
  <2>1. n \in Nat
    BY <1>1
  <2>2. <<>> \in V
    BY <1>1
  <2> HIDE DEF step, V, n
  <2> QED
    BY <1>2, <2>1, <2>2, FoldWalks
<1>4. EventsOf(a, bs) = it[1 .. n]
  BY <1>1 DEF EventsOf, FoldLeft, MapThenFoldSet
<1> HIDE DEF Taken
<1>5. \A s \in SUBSET (1 .. n) : s # {} => g[s] = Taken(g[s \ {Max(s)}], bs[Max(s)])
  BY <1>3 DEF Walks
<1>6. g[{}] = <<>> /\ p[0] = <<>> /\ p[n] = g[1 .. n] /\ Is(g)
  BY <1>3, <1>5 DEF Walks
<1>7. Is(it)
  BY <1>6
<1>8. it[1 .. n] = g[1 .. n]
  <2>1. it[{}] = g[{}]
    BY <1>6, <1>7
  <2>2. \A s \in SUBSET (1 .. n) : s # {} /\ it[s \ {Max(s)}] = g[s \ {Max(s)}] => it[s] = g[s]
    BY <1>5, <1>7
  <2> HIDE DEF it, n
  <2> QED
    BY <1>1, <2>1, <2>2, FoldsAgree
<1>9. ASSUME NEW k \in 1 .. n PROVE p[k] = Taken(p[k - 1], bs[k])
  <2>1. p[k - 1] \in V
    BY <1>1
  <2>2. p[k] = step[k][p[k - 1]]
    BY <1>3 DEF Walks
  <2> QED
    BY <2>1, <2>2
<1> QED
  BY <1>4, <1>6, <1>8, <1>9 DEF Taken

\* Two buckets share no event.
LEMMA EventsOfIs ==
    ASSUME NEW E \in SUBSET Event, NEW bs \in Seq(IndexedAgreementEpoch), IndexOf(bs, E), NEW a
    PROVE  EventsOf(a, bs) \in Batches
<1> DEFINE n == Len(bs)
           Keys(k) == {KeyOf(bs[i]) : i \in 1 .. k}
<1>1. n \in Nat /\ DOMAIN bs = 1 .. n /\ \A k \in 1 .. n : bs[k] \in IndexedAgreementEpoch
  OBVIOUS
<1>2. PICK p \in [0 .. n -> Seq(Event)] :
         /\ p[0] = <<>>
         /\ \A k \in 1 .. n :
               p[k] = IF bs[k].agreement_id = a THEN p[k - 1] \o bs[k].events ELSE p[k - 1]
         /\ EventsOf(a, bs) = p[n]
  BY EventsSteps
<1> DEFINE Good == {k \in 0 .. n : /\ p[k] \in Batches
                                   /\ \A x \in ToSet(p[k]) : KeyOf(x) \in Keys(k)}
<1>3. 0 \in Good
  <2>1. <<>> \in Batches /\ ToSet(<<>>) = {} /\ 0 \in 0 .. n
    BY <1>1 DEF Batches, IsInjective, ToSet
  <2> QED
    BY <1>2, <2>1
<1>4. ASSUME NEW k \in 1 .. n, k - 1 \in Good PROVE k \in Good
  <2> DEFINE new == bs[k].events
  <2>1. p[k - 1] \in Batches /\ \A x \in ToSet(p[k - 1]) : KeyOf(x) \in Keys(k - 1)
    BY <1>4
  <2>2. new \in Seq(Event) /\ Ordered(new) /\ \A x \in ToSet(new) : KeyOf(x) = KeyOf(bs[k])
    <3>1. BucketOf(bs[k], E) /\ bs[k] \in IndexedAgreementEpoch
      BY <1>1 DEF IndexOf
    <3> QED
      BY <3>1 DEF BucketOf, IndexedAgreementEpoch
  <2>3. new \in Batches
    BY <2>2, OrderedIsInjective DEF Batches
  <2>4. ASSUME NEW i \in 1 .. k - 1 PROVE KeyOf(bs[i]) # KeyOf(bs[k])
    <3>1. i \in 1 .. n /\ i < k
      <4>1. n \in Nat
        BY <1>1
      <4> HIDE DEF n, Good, Keys, new
      <4> QED
        BY <4>1
    <3>2. KeyBefore(KeyOf(bs[i]), KeyOf(bs[k]))
      BY <1>1, <3>1 DEF IndexOf
    <3>3. KeyOf(bs[k]) = <<bs[k].agreement_id, bs[k].epoch_id>>
      BY DEF KeyOf
    <3>4. bs[k].agreement_id \in Int /\ bs[k].epoch_id \in Int
      BY <1>1 DEF IndexedAgreementEpoch
    <3>5. ~ KeyBefore(KeyOf(bs[k]), KeyOf(bs[k]))
      BY <3>3, <3>4 DEF KeyBefore
    <3> QED
      BY <3>2, <3>5
  <2>5. k \in 0 .. n /\ k - 1 \in Int /\ k \in 1 .. k /\ \A i \in 1 .. k - 1 : i \in 1 .. k
    <3>1. n \in Nat
      BY <1>1
    <3> HIDE DEF n, Good, Keys, new
    <3> QED
      BY <3>1
  <2>6. KeyOf(bs[k]) \notin Keys(k - 1) /\ KeyOf(bs[k]) \in Keys(k) /\ Keys(k - 1) \subseteq Keys(k)
    BY <2>4, <2>5
  <2> HIDE DEF Keys
  <2>7. CASE bs[k].agreement_id = a
    <3>1. p[k] = p[k - 1] \o new
      BY <1>2, <2>7
    <3>2. ToSet(p[k - 1]) \cap ToSet(new) = {}
      BY <2>1, <2>2, <2>6
    <3> HIDE DEF new
    <3>3. p[k] \in Batches /\ ToSet(p[k]) = ToSet(p[k - 1]) \cup ToSet(new)
      BY <2>1, <2>3, <3>1, <3>2, BatchConcat
    <3>4. \A x \in ToSet(p[k]) : KeyOf(x) \in Keys(k)
      BY <2>1, <2>2, <2>6, <3>3
    <3> QED
      BY <2>5, <3>3, <3>4
  <2>8. CASE bs[k].agreement_id # a
    <3>1. p[k] = p[k - 1]
      BY <1>2, <2>8
    <3> QED
      BY <2>1, <2>5, <2>6, <3>1
  <2> QED
    BY <2>7, <2>8
<1>5. n \in Good
  <2> HIDE DEF Good, n
  <2>1. \A k \in 0 .. n : k \in Good
    BY <1>1, <1>3, <1>4, UpTo
  <2> QED
    BY <1>1, <2>1
<1> QED
  BY <1>2, <1>5

\* Totals and window grow by one event after another.
LEMMA SummedSteps ==
    ASSUME NEW es \in Seq(Event)
    PROVE  \E p \in [0 .. Len(es) -> Aggregate] :
              /\ p[0] = Unsummed /\ \A k \in 1 .. Len(es) : p[k] = Added(p[k - 1], es[k])
              /\ FoldLeft(Added, Unsummed, es) = p[Len(es)]
<1> DEFINE n == Len(es)
           V == Aggregate
           step == [k \in 1 .. n |-> [v \in V |-> Added(v, es[k])]]
           Is(g) == g = [s \in SUBSET (1 .. n) |->
                            IF s = {} THEN Unsummed ELSE Added(g[s \ {Max(s)}], es[Max(s)])]
           it == CHOOSE g : Is(g)
<1>1. n \in Nat /\ 1 .. n = DOMAIN es /\ \A k \in 1 .. n : es[k] \in Event
  OBVIOUS
<1>2. step \in [1 .. n -> [V -> V]]
  <2> SUFFICES ASSUME NEW k \in 1 .. n, NEW v \in V PROVE Added(v, es[k]) \in V
    OBVIOUS
  <2> QED
    BY <1>1, AddedIs
<1>3. PICK g \in [SUBSET (1 .. n) -> V], p \in [0 .. n -> V] : Walks(g, p, Unsummed, step, n)
  <2>1. n \in Nat
    BY <1>1
  <2>2. Unsummed \in V
    BY ReportsAssumption DEF Unsummed, Aggregate
  <2> HIDE DEF step, V, n
  <2> QED
    BY <1>2, <2>1, <2>2, FoldWalks
<1>4. \A s \in SUBSET (1 .. n) : s # {} => g[s] = Added(g[s \ {Max(s)}], es[Max(s)])
  BY <1>3 DEF Walks
<1>5. g[{}] = Unsummed /\ p[0] = Unsummed /\ p[n] = g[1 .. n] /\ Is(g)
  BY <1>3, <1>4 DEF Walks
<1>6. Is(it)
  BY <1>5
<1>7. it[1 .. n] = g[1 .. n]
  <2>1. it[{}] = g[{}]
    BY <1>5, <1>6
  <2>2. \A s \in SUBSET (1 .. n) : s # {} /\ it[s \ {Max(s)}] = g[s \ {Max(s)}] => it[s] = g[s]
    BY <1>4, <1>6
  <2> HIDE DEF it, n
  <2> QED
    BY <1>1, <2>1, <2>2, FoldsAgree
<1>8. FoldLeft(Added, Unsummed, es) = it[1 .. n]
  BY <1>1 DEF FoldLeft, MapThenFoldSet
<1>9. ASSUME NEW k \in 1 .. n PROVE p[k] = Added(p[k - 1], es[k])
  <2>1. p[k - 1] \in V
    BY <1>1
  <2>2. p[k] = step[k][p[k - 1]]
    BY <1>3 DEF Walks
  <2> QED
    BY <2>1, <2>2
<1> QED
  BY <1>5, <1>7, <1>8, <1>9

\* What the totals and window x say of the events R, of which there are n.
Sums(x, R, n) ==
    /\ \A a \in Amounts : x.total[a] = SumOf(R, a)
    /\ IF n = 0 THEN x = Unsummed ELSE WindowOf(R, x.min_anchor_height, x.max_anchor_height)
    /\ Cardinality(R) = n

LEMMA SummedIs ==
    ASSUME NEW es \in Batches
    PROVE  /\ \A a \in Amounts : Summed(es).total[a] = SumOf(ToSet(es), a)
           /\ WindowOf(ToSet(es), Summed(es).min_anchor_height, Summed(es).max_anchor_height)
           /\ Len(es) = Cardinality(ToSet(es))
<1> DEFINE n == Len(es)
           x == FoldLeft(Added, Unsummed, es)
<1>0. es \in Seq(Event) /\ IsInjective(es)
  BY DEF Batches
<1>1. n \in Nat /\ \A k \in 1 .. n : es[k] \in Event
  BY <1>0
<1>2. PICK p \in [0 .. n -> Aggregate] :
         /\ p[0] = Unsummed /\ \A k \in 1 .. n : p[k] = Added(p[k - 1], es[k])
         /\ x = p[n]
  BY <1>0, SummedSteps
<1> DEFINE Good == {k \in 0 .. n : Sums(p[k], Upto(es, k), k)}
<1>3. 0 \in Good
  <2>1. 0 \in 0 .. n /\ Upto(es, 0) = {}
    BY <1>0, <1>1, UptoIs
  <2>2. Cardinality({}) = 0
    BY FS_EmptySet
  <2>3. \A a \in Amounts : p[0].total[a] = SumOf({}, a)
    BY <1>2, SumOfNone DEF Unsummed
  <2>4. Sums(p[0], {}, 0)
    BY <1>2, <2>2, <2>3 DEF Sums
  <2> QED
    BY <2>1, <2>4
<1>4. ASSUME NEW k \in 1 .. n, k - 1 \in Good PROVE k \in Good
  <2> DEFINE R == Upto(es, k - 1)
             e == es[k]
             old == p[k - 1]
             h == e.anchor_height
  <2>0. k \in 0 .. n /\ k - 1 \in 0 .. n /\ k # 0 /\ k - 1 \in Nat /\ (k - 1) + 1 = k
    <3>1. n \in Nat
      BY <1>1
    <3> HIDE DEF n, Good
    <3> QED
      BY <3>1
  <2>1. old \in Aggregate /\ p[k] = Added(old, e) /\ e \in Event
    BY <1>1, <1>2, <2>0
  <2>2. /\ R \in SUBSET Event /\ IsFiniteSet(R) /\ e \notin R
        /\ Upto(es, k) = R \cup {e}
    <3>1. R \subseteq Event
      BY <1>0, <2>0, UptoIs
    <3>2. IsFiniteSet(R)
      BY <1>0, <2>0, UptoFinite
    <3>3. e \notin R /\ Upto(es, k) = R \cup {e}
      BY <1>0, UptoIs
    <3> QED
      BY <3>1, <3>2, <3>3
  <2>3. Sums(old, R, k - 1)
    BY <1>4
  <2>4. /\ \A a \in Amounts : p[k].total[a] = old.total[a] + Counted(e, a)
        /\ p[k].min_anchor_height = Lesser(old.min_anchor_height, h)
        /\ p[k].max_anchor_height = Greater(old.max_anchor_height, h)
    BY <2>1, AddedIs
  <2> HIDE DEF R, e, old, Good, n
  <2>5. ASSUME NEW a \in Amounts PROVE p[k].total[a] = SumOf(R \cup {e}, a)
    <3>1. SumOf(R \cup {e}, a) = SumOf(R, a) + Counted(e, a)
      BY <2>1, <2>2, SumOfAdds
    <3>2. old.total[a] = SumOf(R, a)
      BY <2>3 DEF Sums
    <3> QED
      BY <2>4, <3>1, <3>2
  <2>6. WindowOf(R \cup {e}, p[k].min_anchor_height, p[k].max_anchor_height)
    <3>1. CASE k - 1 = 0
      <4>1. old = Unsummed /\ Cardinality(R) = 0
        BY <2>3, <3>1 DEF Sums
      <4>2. R = {}
        BY <2>2, <4>1, FS_EmptySet
      <4>3. h \in 0 .. MaxU32 /\ MaxU32 \in Nat
        BY <2>1, EventTyped
      <4>4. p[k].min_anchor_height = h /\ p[k].max_anchor_height = h
        BY <2>4, <4>1, <4>3 DEF Unsummed, Lesser, Greater
      <4>5. WindowOf({e}, h, h)
        BY <2>1, WindowOpens
      <4> QED
        BY <4>2, <4>4, <4>5
    <3>2. CASE k - 1 # 0
      <4>1. /\ WindowOf(R, old.min_anchor_height, old.max_anchor_height)
            /\ Cardinality(R) = k - 1
        BY <2>3, <3>2 DEF Sums
      <4>2. R # {}
        BY <3>2, <4>1, FS_EmptySet
      <4>3. WindowOf(R \cup {e}, Lesser(old.min_anchor_height, h), Greater(old.max_anchor_height, h))
        <5>1. e.anchor_height = h
          OBVIOUS
        <5> HIDE DEF h
        <5>2. WindowOf(R, old.min_anchor_height, old.max_anchor_height)
          BY <4>1
        <5>3. WindowOf(R \cup {e}, Lesser(old.min_anchor_height, e.anchor_height),
                       Greater(old.max_anchor_height, e.anchor_height))
          BY <2>1, <2>2, <4>2, <5>2, WindowGrows
        <5> QED
          BY <5>1, <5>3
      <4> QED
        BY <2>4, <4>3
    <3> QED
      BY <3>1, <3>2
  <2>7. Cardinality(R \cup {e}) = k
    <3>1. Cardinality(R) = k - 1
      BY <2>3 DEF Sums
    <3>2. Cardinality(R \cup {e}) = Cardinality(R) + 1
      BY <2>2, FS_AddElement
    <3> QED
      BY <2>0, <3>1, <3>2
  <2>8. Sums(p[k], R \cup {e}, k)
    BY <2>0, <2>5, <2>6, <2>7 DEF Sums
  <2> QED
    BY <2>0, <2>2, <2>8 DEF Good
<1>5. Sums(x, ToSet(es), n)
  <2>1. \A k \in 0 .. n : k \in Good
    <3> HIDE DEF Good, n
    <3> QED
      BY <1>1, <1>3, <1>4, UpTo
  <2>2. n \in Good
    BY <1>1, <2>1
  <2> QED
    BY <1>0, <1>2, <2>2, UptoIs
<1>6. CASE es = <<>>
  <2>1. n = 0 /\ ToSet(es) = {}
    BY <1>6 DEF ToSet
  <2>2. x = Unsummed
    BY <1>5, <2>1 DEF Sums
  <2>3. /\ Summed(es).total = x.total /\ Summed(es).min_anchor_height = 0
        /\ Summed(es).max_anchor_height = 0
    BY <1>6, <2>2 DEF Summed, Unsummed
  <2> HIDE DEF x
  <2> QED
    BY <1>5, <2>1, <2>3 DEF Sums, WindowOf
<1>7. CASE es # <<>>
  <2>1. n # 0 /\ Summed(es) = x
    BY <1>0, <1>7 DEF Summed
  <2> HIDE DEF x, n
  <2> QED
    BY <1>5, <2>1 DEF Sums, n
<1> QED
  BY <1>6, <1>7

----------------------------------------------------------------------------
(* The pipeline.                                                           *)

PaystubOf(e) == [doc |-> buildPaystubCanonicalDoc(e), from |-> <<e>>]
SummaryOf(scope, period_id, g, es) ==
    [doc |-> buildPayrollSummaryCanonicalDoc(scope, period_id, g, es), from |-> es]

\* A document was built from receipts that were normalized, each handed over once.
Built(d) ==
    \/ \E e \in Event : d = PaystubOf(e)
    \/ \E scope \in SummaryScope, period_id \in Periods, es \in Batches :
          \E g : d = SummaryOf(scope, period_id, g, es)

PipelineInv ==
    /\ receipts \in Seq(Receipts) /\ IsInjective(receipts)
    /\ events \in Batches
    /\ buckets # <<>> => events # <<>> /\ buckets = indexByAgreementAndEpoch(events)
    /\ \A d \in docs : Built(d)

LEMMA IndexOfBatch ==
    ASSUME PipelineInv, buckets # <<>>
    PROVE  buckets \in Seq(IndexedAgreementEpoch) /\ IndexOf(buckets, ToSet(events))
BY IndexIs DEF PipelineInv, Batches

LEMMA BatchTyped ==
    ASSUME NEW es \in Batches
    PROVE  /\ ToSet(es) \in SUBSET Event
           /\ es \in Seq(Event) /\ Len(es) \in Nat /\ DOMAIN es = 1 .. Len(es)
BY DEF Batches, ToSet

LEMMA HandedIs ==
    ASSUME PipelineInv, buckets # <<>>, NEW g, NEW es \in Handed(g)
    PROVE  es \in Batches
<1>1. buckets \in Seq(IndexedAgreementEpoch) /\ IndexOf(buckets, ToSet(events))
  BY IndexOfBatch
<1>2. events \in Batches /\ ToSet(events) \in SUBSET Event
  BY BatchTyped DEF PipelineInv
<1>3. <<>> \in Batches
  BY DEF Batches, IsInjective
<1>4. Selected(g, events) \in Batches
  BY <1>2, SelectedIs
<1>5. EventsOf(g, buckets) \in Batches
  BY <1>1, <1>2, EventsOfIs
<1>6. ASSUME NEW b \in ToSet(buckets) PROVE b.events \in Batches
  <2>1. PICK i \in DOMAIN buckets : b = buckets[i]
    BY DEF ToSet
  <2>2. b \in IndexedAgreementEpoch /\ BucketOf(b, ToSet(events))
    BY <1>1, <2>1 DEF IndexOf
  <2>3. b.events \in Seq(Event) /\ Ordered(b.events)
    BY <2>2 DEF BucketOf, IndexedAgreementEpoch
  <2> QED
    BY <2>3, OrderedIsInjective DEF Batches
<1> QED
  BY <1>3, <1>4, <1>5, <1>6 DEF Handed

LEMMA NextPipeline == PipelineInv /\ [ReportsNext]_reportVars => PipelineInv'
<1> SUFFICES ASSUME PipelineInv, [ReportsNext]_reportVars PROVE PipelineInv'
  OBVIOUS
<1>1. ASSUME NEW r \in Receipts, Receive(r) PROVE PipelineInv'
  <2> DEFINE t == Append(receipts, r)
  <2>1. /\ receipts \in Seq(Receipts) /\ Len(receipts) \in Nat
        /\ DOMAIN receipts = 1 .. Len(receipts) /\ IsInjective(receipts)
        /\ \A i \in 1 .. Len(receipts) : receipts[i] # r
    BY <1>1 DEF PipelineInv, Receive, ToSet
  <2>2. /\ t \in Seq(Receipts) /\ DOMAIN t = 1 .. Len(receipts) + 1 /\ t[Len(receipts) + 1] = r
        /\ \A i \in 1 .. Len(receipts) : t[i] = receipts[i]
    BY <2>1
  <2>3. receipts' = t /\ UNCHANGED <<events, buckets, docs>>
    BY <1>1 DEF Receive
  <2> HIDE DEF t
  <2>4. \A i \in 1 .. Len(receipts) + 1 : i \in 1 .. Len(receipts) \/ i = Len(receipts) + 1
    BY <2>1
  <2>5. IsInjective(t)
    BY <2>1, <2>2, <2>4 DEF IsInjective
  <2> QED
    BY <2>2, <2>3, <2>5 DEF PipelineInv
<1>2. CASE NormalizeMany
  <2>1. receipts \in Seq(Event) /\ IsInjective(receipts)
    BY <1>2 DEF PipelineInv, NormalizeMany, Event
  <2>2. buckets = <<>>
    BY <1>2 DEF PipelineInv, NormalizeMany
  <2> QED
    BY <1>2, <2>1, <2>2 DEF PipelineInv, NormalizeMany, Batches
<1>3. CASE Index
  BY <1>3 DEF PipelineInv, Index
<1>4. ASSUME NEW e \in ToSet(events), BuildPaystub(e) PROVE PipelineInv'
  <2>1. e \in Event
    BY BatchTyped DEF PipelineInv
  <2>2. docs' = docs \cup {PaystubOf(e)} /\ Built(PaystubOf(e))
    BY <1>4, <2>1 DEF BuildPaystub, PaystubOf, Built
  <2> QED
    BY <1>4, <2>2 DEF PipelineInv, BuildPaystub
<1>5. ASSUME buckets # <<>>, NEW scope \in SummaryScope, NEW period_id \in Periods, NEW g,
             NEW es \in Handed(g), BuildSummary(scope, period_id, g, es)
      PROVE  PipelineInv'
  <2>1. es \in Batches
    BY <1>5, HandedIs
  <2> DEFINE d == SummaryOf(scope, period_id, g, es)
  <2>2. docs' = docs \cup {d}
    BY <1>5 DEF BuildSummary, SummaryOf
  <2>3. Built(d)
    BY <2>1 DEF Built
  <2> HIDE DEF d
  <2> QED
    BY <1>5, <2>2, <2>3 DEF PipelineInv, BuildSummary
<1>6. CASE UNCHANGED reportVars
  BY <1>6 DEF PipelineInv, reportVars
<1>7. CASE ReportsNext
  BY <1>1, <1>2, <1>3, <1>4, <1>5, <1>7 DEF ReportsNext
<1> QED
  BY <1>6, <1>7

\* What the pipeline holds is made of receipts that were normalized.
THEOREM PipelineInvariance == ReportsSpec => []PipelineInv
<1>1. ReportsInit => PipelineInv
  <2>1. <<>> \in Batches /\ <<>> \in Seq(Receipts) /\ IsInjective(<<>>)
    BY DEF Batches, IsInjective
  <2> QED
    BY <2>1 DEF ReportsInit, PipelineInv
<1> QED
  BY <1>1, NextPipeline, PTL DEF ReportsSpec

\* The index says of every batch what it says of the receipts, in whichever order they came.
THEOREM IndexCanonical == ReportsSpec => []IndexIsCanonical
<1>1. PipelineInv => IndexIsCanonical
  <2> SUFFICES ASSUME PipelineInv, buckets # <<>> PROVE IndexIsCanonical
    BY DEF IndexIsCanonical
  <2> DEFINE E == ToSet(events)
  <2>1. buckets \in Seq(IndexedAgreementEpoch) /\ IndexOf(buckets, E)
    BY IndexOfBatch
  <2>2. ASSUME NEW i \in DOMAIN buckets
        PROVE  /\ buckets[i].events \in Seq(Event) /\ buckets[i].events # <<>>
               /\ Ordered(buckets[i].events)
               /\ ToSet(buckets[i].events) = {e \in E : KeyOf(e) = KeyOf(buckets[i])}
    <3>1. buckets[i] \in IndexedAgreementEpoch /\ BucketOf(buckets[i], E)
      BY <2>1 DEF IndexOf
    <3> HIDE DEF E
    <3> QED
      BY <3>1 DEF BucketOf, IndexedAgreementEpoch
  <2>3. {KeyOf(buckets[i]) : i \in DOMAIN buckets} = {KeyOf(e) : e \in E}
    <3>1. ASSUME NEW i \in DOMAIN buckets PROVE \E e \in E : KeyOf(e) = KeyOf(buckets[i])
      <4> DEFINE es == buckets[i].events
      <4>1. /\ es \in Seq(Event) /\ es # <<>>
            /\ ToSet(es) = {e \in E : KeyOf(e) = KeyOf(buckets[i])}
        BY <2>2
      <4> HIDE DEF es, E
      <4>2. 1 \in DOMAIN es
        BY <4>1
      <4>3. es[1] \in ToSet(es)
        BY <4>2 DEF ToSet
      <4> QED
        BY <4>1, <4>3
    <3>2. \A e \in E : \E i \in DOMAIN buckets : KeyOf(buckets[i]) = KeyOf(e)
      BY <2>1 DEF IndexOf
    <3> HIDE DEF E
    <3> QED
      BY <3>1, <3>2
  <2>4. \A i, j \in DOMAIN buckets : i < j => KeyBefore(KeyOf(buckets[i]), KeyOf(buckets[j]))
    BY <2>1 DEF IndexOf
  <2>5. ASSUME NEW i \in DOMAIN buckets,
               NEW m \in DOMAIN buckets[i].events, NEW n \in DOMAIN buckets[i].events, m < n
        PROVE  LET es == buckets[i].events
               IN  \/ es[m].anchor_height < es[n].anchor_height
                   \/ /\ es[m].anchor_height = es[n].anchor_height
                      /\ es[m].receipt_anchor < es[n].receipt_anchor
    <3> DEFINE es == buckets[i].events
    <3>1. /\ es \in Seq(Event) /\ Ordered(es)
          /\ ToSet(es) = {e \in E : KeyOf(e) = KeyOf(buckets[i])}
      BY <2>2
    <3> HIDE DEF es, E
    <3>2. m \in DOMAIN es /\ n \in DOMAIN es
      BY DEF es
    <3>3. es[m] \in Event /\ es[n] \in Event /\ Before(es[m], es[n])
      BY <2>5, <3>1, <3>2 DEF Ordered
    <3>4. es[m] \in ToSet(es) /\ es[n] \in ToSet(es)
      BY <3>2 DEF ToSet
    <3>5. KeyOf(es[m]) = KeyOf(es[n])
      BY <3>1, <3>4
    <3> QED
      BY <3>3, <3>5, BeforeByKey DEF es
  <2> HIDE DEF E
  <2> QED
    BY <2>2, <2>3, <2>4, <2>5 DEF IndexIsCanonical, KeyBefore, E
<1> QED
  BY <1>1, PipelineInvariance, PTL

\* Every bucket and every summary adds up what its receipts say, markers of voids apart,
\* each receipt once, and spans their heights.
THEOREM TotalsExact == ReportsSpec => []TotalsAreExact
<1>1. PipelineInv => TotalsAreExact
  <2> SUFFICES ASSUME PipelineInv PROVE TotalsAreExact
    OBVIOUS
  <2>1. ASSUME NEW i \in DOMAIN buckets PROVE BucketOf(buckets[i], ToSet(events))
    <3>1. buckets # <<>>
      OBVIOUS
    <3> QED
      BY <3>1, IndexOfBatch DEF IndexOf
  <2>2. ASSUME NEW d \in docs, d.doc.scope # "CYCLE"
        PROVE  LET doc == d.doc R == ToSet(d.from) IN
               /\ \A a \in Amounts : doc.fields.aggregate.total[a] = SumOf(R, a)
               /\ WindowOf(R, doc.fields.aggregate.min_anchor_height,
                           doc.fields.aggregate.max_anchor_height)
               /\ doc.fields.event_count = Cardinality(R)
    <3>1. ASSUME NEW e \in Event, d = PaystubOf(e) PROVE FALSE
      <4>1. d.doc = buildPaystubCanonicalDoc(e)
        BY <3>1 DEF PaystubOf
      <4>2. buildPaystubCanonicalDoc(e).scope = "CYCLE"
        BY DEF buildPaystubCanonicalDoc
      <4> QED
        BY <2>2, <4>1, <4>2
    <3>2. PICK scope \in SummaryScope, period_id \in Periods, es \in Batches :
             \E g : d = SummaryOf(scope, period_id, g, es)
      BY <3>1 DEF PipelineInv, Built
    <3>3. /\ d.from = es /\ d.doc.fields.aggregate = Summed(es)
          /\ d.doc.fields.event_count = Len(es)
      BY <3>2 DEF SummaryOf, buildPayrollSummaryCanonicalDoc
    <3>4. /\ \A a \in Amounts : Summed(es).total[a] = SumOf(ToSet(es), a)
          /\ WindowOf(ToSet(es), Summed(es).min_anchor_height, Summed(es).max_anchor_height)
          /\ Len(es) = Cardinality(ToSet(es))
      BY SummedIs
    <3> QED
      BY <3>3, <3>4
  <2> QED
    BY <2>1, <2>2 DEF TotalsAreExact, BucketOf
<1> QED
  BY <1>1, PipelineInvariance, PTL

----------------------------------------------------------------------------
(* The NFTs.                                                               *)

\* The inductive invariant of the NFTs: records are held of active ids, one of each.
NftsInv ==
    /\ DOMAIN superseded_by = DOMAIN nft_status
    /\ \A x \in nfts : x.nft_id \in DOMAIN nft_status /\ nft_status[x.nft_id] = "active"
    /\ \A x, y \in nfts : x.nft_id = y.nft_id => x = y
    /\ \A n \in DOMAIN nft_status :
          /\ nft_status[n] = "active" => \E x \in nfts : x.nft_id = n
          /\ superseded_by[n] # NoSuccessor => nft_status[n] = "superseded"

\* A mint takes an id nobody has.
LEMMA MintKeeps ==
    ASSUME NftsInv, NEW caller, NEW id, NEW g, NEW first, NEW last, NEW h, NEW versions,
           mint_nft(caller, id, g, first, last, h, versions)
    PROVE  NftsInv'
<1> DEFINE minted == [nft_id |-> id, agreement_id |-> g, owner |-> caller]
<1>1. /\ id \notin DOMAIN nft_status
      /\ nft_status' = Put(nft_status, id, "active")
      /\ superseded_by' = Put(superseded_by, id, NoSuccessor)
      /\ nfts' = nfts \cup {minted} /\ minted.nft_id = id
  BY DEF mint_nft, Unminted
<1> HIDE DEF minted
<1>2. DOMAIN nft_status' = DOMAIN nft_status \cup {id} /\ DOMAIN superseded_by' = DOMAIN nft_status'
  BY <1>1 DEF Put, NftsInv
<1>3. /\ nft_status'[id] = "active" /\ superseded_by'[id] = NoSuccessor
      /\ \A x \in DOMAIN nft_status :
            nft_status'[x] = nft_status[x] /\ superseded_by'[x] = superseded_by[x]
  BY <1>1 DEF Put, NftsInv
<1>4. \A x \in nfts' : x \in nfts \/ x = minted
  BY <1>1
<1>5. \A x \in nfts' : x.nft_id \in DOMAIN nft_status' /\ nft_status'[x.nft_id] = "active"
  BY <1>1, <1>2, <1>3, <1>4 DEF NftsInv
<1>6. \A x, y \in nfts' : x.nft_id = y.nft_id => x = y
  BY <1>1, <1>4 DEF NftsInv
<1>7. ASSUME NEW i \in DOMAIN nft_status'
      PROVE  /\ nft_status'[i] = "active" => \E x \in nfts' : x.nft_id = i
             /\ superseded_by'[i] # NoSuccessor => nft_status'[i] = "superseded"
  <2>1. CASE i = id
    BY <1>1, <1>3, <2>1
  <2>2. CASE i # id
    <3>1. i \in DOMAIN nft_status /\ nft_status'[i] = nft_status[i]
          /\ superseded_by'[i] = superseded_by[i] /\ nfts \subseteq nfts'
      BY <1>1, <1>2, <1>3, <2>2
    <3> QED
      BY <3>1 DEF NftsInv
  <2> QED
    BY <2>1, <2>2
<1> QED
  BY <1>2, <1>5, <1>6, <1>7 DEF NftsInv

\* The end of an NFT consumes the one record of its id.  What is taken for its successor is
\* written only when it is superseded.
LEMMA EndKeeps ==
    ASSUME NftsInv, NEW caller, NEW nft \in nfts, NEW status \in {"revoked", "superseded"},
           End(caller, nft, status), NEW successor,
           superseded_by' = IF status = "revoked" THEN superseded_by
                            ELSE Put(superseded_by, nft.nft_id, successor)
    PROVE  NftsInv'
<1> DEFINE id == nft.nft_id
<1>1. /\ id \in DOMAIN nft_status /\ nft_status[id] = "active"
      /\ nft_status' = Put(nft_status, id, status) /\ nfts' = nfts \ {nft}
      /\ status = "revoked" \/ status = "superseded"
  BY DEF End, Consume, NftsInv
<1>2. DOMAIN nft_status' = DOMAIN nft_status /\ DOMAIN superseded_by' = DOMAIN nft_status
  BY <1>1 DEF Put, NftsInv
<1>3. /\ nft_status'[id] = status
      /\ \A x \in DOMAIN nft_status : x # id =>
            nft_status'[x] = nft_status[x] /\ superseded_by'[x] = superseded_by[x]
  BY <1>1 DEF Put, NftsInv
<1>4. superseded_by'[id] # NoSuccessor => status = "superseded"
  BY <1>1 DEF Put, NftsInv
<1>5. \A x \in nfts' : x \in nfts /\ x.nft_id # id
  BY <1>1 DEF NftsInv
<1>6. \A x \in nfts' : x.nft_id \in DOMAIN nft_status' /\ nft_status'[x.nft_id] = "active"
  BY <1>2, <1>3, <1>5 DEF NftsInv
<1>7. ASSUME NEW i \in DOMAIN nft_status'
      PROVE  /\ nft_status'[i] = "active" => \E x \in nfts' : x.nft_id = i
             /\ superseded_by'[i] # NoSuccessor => nft_status'[i] = "superseded"
  BY <1>1, <1>2, <1>3, <1>4 DEF NftsInv
<1> QED
  BY <1>2, <1>5, <1>6, <1>7 DEF NftsInv

LEMMA NextNfts == NftsInv /\ [NftsNext]_nftsVars => NftsInv'
<1> SUFFICES ASSUME NftsInv, [NftsNext]_nftsVars PROVE NftsInv'
  OBVIOUS
<1>1. ASSUME NEW caller, NEW id, NEW g, NEW first, NEW last, NEW h, NEW versions,
             mint_nft(caller, id, g, first, last, h, versions)
      PROVE  NftsInv'
  BY <1>1, MintKeeps
<1>2. ASSUME NEW caller, NEW nft \in nfts, revoke_nft(caller, nft) PROVE NftsInv'
  BY <1>2, EndKeeps DEF revoke_nft
<1>3. ASSUME NEW caller, NEW nft \in nfts, NEW id, mark_superseded(caller, nft, id)
      PROVE  NftsInv'
  BY <1>3, EndKeeps DEF mark_superseded
<1>4. ASSUME UNCHANGED nftVars PROVE NftsInv'
  BY <1>4 DEF nftVars, NftsInv
<1>5. \A h, g : anchor_event(h) \/ AgreementMoves(g) => UNCHANGED nftVars
  BY DEF anchor_event, AgreementMoves
<1> QED
  BY <1>1, <1>2, <1>3, <1>4, <1>5 DEF NftsNext, nftsVars

\* NftsMatchStatus, for any number of NFTs and callers: the mappings of payroll_nfts_v2 and
\* its records tell one story, whatever is minted, revoked and superseded.
THEOREM NftsTold == NftsSpec => []NftsMatchStatus
<1>1. NftsInit => NftsInv
  BY DEF NftsInit, NftsInv
<1>2. NftsInv => NftsMatchStatus
  <2> SUFFICES ASSUME NftsInv, NEW id \in DOMAIN nft_status
               PROVE  Cardinality({x \in nfts : x.nft_id = id})
                          = IF nft_status[id] = "active" THEN 1 ELSE 0
    BY DEF NftsInv, NftsMatchStatus
  <2>1. CASE nft_status[id] = "active"
    <3>1. PICK x \in nfts : x.nft_id = id
      BY <2>1 DEF NftsInv
    <3>2. {y \in nfts : y.nft_id = id} = {x}
      BY <3>1 DEF NftsInv
    <3> QED
      BY <2>1, <3>2, FS_Singleton
  <2>2. CASE nft_status[id] # "active"
    <3>1. {y \in nfts : y.nft_id = id} = {}
      BY <2>2 DEF NftsInv
    <3> QED
      BY <2>2, <3>1, FS_EmptySet
  <2> QED
    BY <2>1, <2>2
<1> QED
  BY <1>1, <1>2, NextNfts, PTL DEF NftsSpec
=============================================================================
