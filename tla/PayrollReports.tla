--------------------------- MODULE PayrollReports ---------------------------
(***************************************************************************)
(* From decrypted receipts to reports: receipts arrive in any order, are   *)
(* normalized as a batch, indexed by agreement and epoch, and turned into  *)
(* paystub and summary documents.  A receipt's four amounts are told apart *)
(* by name only.                                                           *)
(***************************************************************************)
EXTENDS Integers, SequencesExt

CONSTANTS
    Receipts,            \* receipts the chain may hold
    MaxU32,              \* largest u32
    Periods,             \* period ids summaries are asked for
    MaxReceipts,         \* bound on the receipts that arrive
    MaxDocs              \* bound on the documents built

Amounts == {"gross", "net", "tax", "fee"}

\* Ids, anchors and heights are compared as numbers; `amount` maps each of Amounts.
DecryptedPaystubReceipt ==
    [agreement_id : Int, epoch_id : Int, receipt_anchor : Int, anchor_height : Int,
     revision_of_anchor : Int, is_void : BOOLEAN, currency : STRING, amount : [Amounts -> Int]]

\* A receipt is identified by its anchor.
ASSUME ReportsAssumption ==
    /\ Receipts \subseteq DecryptedPaystubReceipt
    /\ \A r, q \in Receipts : r.receipt_anchor = q.receipt_anchor => r = q
    /\ MaxU32 \in Nat /\ MaxReceipts \in Nat /\ MaxDocs \in Nat

VARIABLES
    receipts,            \* receipts received, in order of arrival
    events,              \* the normalized batch
    buckets,             \* the index
    docs                 \* the documents built, with what they were built from

reportVars == <<receipts, events, buckets, docs>>

ReportsInit == receipts = <<>> /\ events = <<>> /\ buckets = <<>> /\ docs = {}

---------------------------------------------------------------------------
(* Normalizing.                                                            *)

AssertU32(n) == n \in 0 .. MaxU32

AssertLedger(n) == n >= 0

Normalizable(r) ==
    /\ AssertU32(r.epoch_id) /\ AssertU32(r.anchor_height)
    /\ \A a \in Amounts : AssertLedger(r.amount[a])
    /\ r.currency = "USDCX"

---------------------------------------------------------------------------
(* Indexing.                                                               *)

\* Fault: receipts of one block are left as they came.
Before_NoTieBreak(a, b) ==
    \/ a.agreement_id < b.agreement_id
    \/ /\ a.agreement_id = b.agreement_id
       /\ \/ a.epoch_id < b.epoch_id
          \/ a.epoch_id = b.epoch_id /\ a.anchor_height < b.anchor_height

Before(a, b) ==
    \/ a.agreement_id < b.agreement_id
    \/ /\ a.agreement_id = b.agreement_id
       /\ \/ a.epoch_id < b.epoch_id
          \/ /\ a.epoch_id = b.epoch_id
             /\ \/ a.anchor_height < b.anchor_height
                \/ a.anchor_height = b.anchor_height /\ a.receipt_anchor < b.receipt_anchor

\* A stable sort.
Inserted(sorted, e) ==
    LET after == {i \in DOMAIN sorted : Before(e, sorted[i])}
    IN  IF after = {} THEN Append(sorted, e)
        ELSE InsertAt(sorted, CHOOSE i \in after : \A j \in after : i <= j, e)
Sorted(es) == FoldLeft(Inserted, <<>>, es)

\* Fault: the marker of a void is paid like the receipt it voids.
Counted_WithVoids(e, a) == e.amount[a]

\* The marker of a void adds nothing; the receipt it voids is not looked up.
Counted(e, a) == IF e.is_void THEN 0 ELSE e.amount[a]

Opened(e) ==
    [agreement_id |-> e.agreement_id, epoch_id |-> e.epoch_id, events |-> <<e>>,
     total |-> [a \in Amounts |-> Counted(e, a)],
     min_anchor_height |-> e.anchor_height, max_anchor_height |-> e.anchor_height]

Lesser(m, n) == IF n < m THEN n ELSE m
Greater(m, n) == IF n > m THEN n ELSE m

\* One more event in totals and window.
Added(x, e) ==
    [x EXCEPT !.total = [a \in Amounts |-> @[a] + Counted(e, a)],
              !.min_anchor_height = Lesser(@, e.anchor_height),
              !.max_anchor_height = Greater(@, e.anchor_height)]

Extended(b, e) == [Added(b, e) EXCEPT !.events = Append(@, e)]

KeyOf(x) == <<x.agreement_id, x.epoch_id>>

Bucketed(bs, e) ==
    IF \E i \in DOMAIN bs : KeyOf(bs[i]) = KeyOf(e)
    THEN [i \in DOMAIN bs |-> IF KeyOf(bs[i]) = KeyOf(e) THEN Extended(bs[i], e) ELSE bs[i]]
    ELSE Append(bs, Opened(e))

indexByAgreementAndEpoch(es) == FoldLeft(Bucketed, <<>>, Sorted(es))

---------------------------------------------------------------------------
(* Building documents.                                                     *)

SummaryScope == {"QUARTERLY", "YTD", "EOY"}

buildPaystubCanonicalDoc(e) ==
    [scope |-> "CYCLE", period_id |-> e.epoch_id, agreement_id |-> e.agreement_id,
     input_anchors |-> <<e.receipt_anchor>>,
     fields |-> <<e.currency, e.amount, e.anchor_height, e.is_void, e.revision_of_anchor>>]

\* Fault: the window starts at block 0.
Unsummed_FromZero ==
    [total |-> [a \in Amounts |-> 0], min_anchor_height |-> 0, max_anchor_height |-> 0]

Unsummed ==
    [total |-> [a \in Amounts |-> 0], min_anchor_height |-> MaxU32, max_anchor_height |-> 0]

Summed(es) ==
    LET sum == FoldLeft(Added, Unsummed, es)
    IN  IF es = <<>> THEN [sum EXCEPT !.min_anchor_height = 0] ELSE sum

buildPayrollSummaryCanonicalDoc(scope, period_id, agreement_id, es) ==
    [scope |-> scope, period_id |-> period_id, agreement_id |-> agreement_id,
     input_anchors |-> [i \in DOMAIN es |-> es[i].receipt_anchor],
     fields |-> [aggregate |-> Summed(es), event_count |-> Len(es)]]

---------------------------------------------------------------------------
(* The pipeline.                                                           *)

Receive(r) ==
    /\ Len(receipts) < MaxReceipts
    /\ r \notin ToSet(receipts)
    /\ receipts' = Append(receipts, r)
    /\ UNCHANGED <<events, buckets, docs>>

\* One receipt that is refused refuses the batch.
NormalizeMany ==
    /\ events = <<>> /\ receipts # <<>>
    /\ \A i \in DOMAIN receipts : Normalizable(receipts[i])
    /\ events' = receipts
    /\ UNCHANGED <<receipts, buckets, docs>>

Index ==
    /\ events # <<>> /\ buckets = <<>>
    /\ buckets' = indexByAgreementAndEpoch(events)
    /\ UNCHANGED <<receipts, events, docs>>

BuildPaystub(e) ==
    /\ docs' = docs \cup {[doc |-> buildPaystubCanonicalDoc(e), from |-> <<e>>]}
    /\ UNCHANGED <<receipts, events, buckets>>

BuildSummary(scope, period_id, g, es) ==
    /\ docs' = docs \cup {[doc |-> buildPayrollSummaryCanonicalDoc(scope, period_id, g, es),
                           from |-> es]}
    /\ UNCHANGED <<receipts, events, buckets>>

\* The caller hands over no event, a bucket of an agreement, all its buckets
\* one after the other, or its events as they came.
Selected(g, xs) ==
    FoldLeft(LAMBDA es, e : IF e.agreement_id = g THEN Append(es, e) ELSE es, <<>>, xs)
EventsOf(g, bs) ==
    FoldLeft(LAMBDA es, b : IF b.agreement_id = g THEN es \o b.events ELSE es, <<>>, bs)
Handed(g) ==
    {<<>>, EventsOf(g, buckets), Selected(g, events)}
    \cup {b.events : b \in {x \in ToSet(buckets) : x.agreement_id = g}}

ReportsNext ==
    \/ \E r \in Receipts : Receive(r)
    \/ NormalizeMany
    \/ Index
    \/ /\ Cardinality(docs) < MaxDocs
       /\ \/ \E e \in ToSet(events) : BuildPaystub(e)
          \/ /\ buckets # <<>>
             /\ \E scope \in SummaryScope, period_id \in Periods,
                   g \in {e.agreement_id : e \in ToSet(events)} :
                   \E es \in Handed(g) : BuildSummary(scope, period_id, g, es)

ReportsSpec == ReportsInit /\ [][ReportsNext]_reportVars

---------------------------------------------------------------------------
(* Properties.                                                             *)

\* Sums, least and greatest over a set of receipts.
SumOf(R, a) == MapThenSumSet(LAMBDA e : IF e.is_void THEN 0 ELSE e.amount[a], R)
Heights(R) == {e.anchor_height : e \in R}
WindowOf(R, least, greatest) ==
    IF R = {} THEN least = 0 /\ greatest = 0
    ELSE /\ {least, greatest} \subseteq Heights(R)
         /\ \A h \in Heights(R) : least <= h /\ h <= greatest

\* The index is a function of the receipts and not of the order they came in:
\* the buckets are the keys in ascending order, and each holds all the
\* receipts of its key in the order of the chain.
IndexIsCanonical ==
    buckets # <<>> =>
        /\ {KeyOf(buckets[i]) : i \in DOMAIN buckets} = {KeyOf(e) : e \in ToSet(events)}
        /\ \A i, j \in DOMAIN buckets : i < j =>
              LET k == KeyOf(buckets[i]) l == KeyOf(buckets[j])
              IN  k[1] < l[1] \/ (k[1] = l[1] /\ k[2] < l[2])
        /\ \A i \in DOMAIN buckets :
              LET es == buckets[i].events IN
              /\ ToSet(es) = {e \in ToSet(events) : KeyOf(e) = KeyOf(buckets[i])}
              /\ \A m, n \in DOMAIN es : m < n =>
                    \/ es[m].anchor_height < es[n].anchor_height
                    \/ /\ es[m].anchor_height = es[n].anchor_height
                       /\ es[m].receipt_anchor < es[n].receipt_anchor

\* The index and the summaries add up the same way, whichever order a caller
\* hands the receipts over in: all of a bucket, of an agreement or of nothing is
\* counted once, and the heights span it.  What they leave out is the markers
\* (`is_void`): the receipt a marker voids stays counted in both.
TotalsAreExact ==
    /\ \A i \in DOMAIN buckets :
          LET b == buckets[i] R == ToSet(b.events) IN
          /\ \A a \in Amounts : b.total[a] = SumOf(R, a)
          /\ WindowOf(R, b.min_anchor_height, b.max_anchor_height)
    /\ \A d \in docs :
          LET doc == d.doc R == ToSet(d.from) IN
          doc.scope # "CYCLE" =>
              /\ \A a \in Amounts : doc.fields.aggregate.total[a] = SumOf(R, a)
              /\ WindowOf(R, doc.fields.aggregate.min_anchor_height,
                          doc.fields.aggregate.max_anchor_height)
              /\ doc.fields.event_count = Cardinality(R)
=============================================================================
