--------------------------- MODULE MCCommitments ---------------------------
EXTENDS Commitments, TLC

Given(fields) ==
    [f \in fields |-> IF f \in {"audit_anchor", "audit_anchor_height"} THEN Absent ELSE 1]
Paystub == Given(PaystubFields)
Summary == Given(SummaryFields)

\* A paystub and a summary with up to two values changed, so that a pair of
\* documents may exchange two values, and documents with zeros given where
\* nothing was; one does not encode.
Changed(doc) == {[doc EXCEPT ![f] = 2, ![g] = 2] : f \in DOMAIN doc, g \in DOMAIN doc}
SomeDocs ==
    Changed(Paystub) \cup Changed(Summary) \cup {Paystub, Summary}
    \cup {[Paystub EXCEPT !.net = -1], [Paystub EXCEPT !.audit_anchor_height = 0],
          [Summary EXCEPT !.audit_anchor = ZeroAnchor]}

Item(anchor, height, kind) ==
    [receipt_anchor |-> anchor, receipt_height |-> height, payroll_inputs_hash |-> anchor,
     kind |-> kind]
Items == {Item(1, 2, 1), Item(2, 2, 1), Item(3, 1, 2)}
Period(end, version, items) ==
    [f \in ToSet(Versions) |-> version]
    @@ [agreement_id |-> 1, period_type |-> 1, period_start |-> 1, period_end |-> end,
        currency_code |-> 1, items |-> items]

\* Every order of up to three receipts, two of them in one block.
SomeSets ==
    {Period(p, v, items) : p \in {1, 2}, v \in {1, 2},
        items \in {s \in BoundedSeq(Items, 3) : IsInjective(s)}}

\* Documents and inputs sets do not meet, and nothing is added to a pair.
Apart ==
    /\ committed = {} \/ sets = {}
    /\ Cardinality(committed) < 2 /\ Cardinality(sets) < 2
=============================================================================
