---------------------------- MODULE MCPayrollRuns ----------------------------
EXTENDS PayrollRuns

CONSTANTS batch, single, twice, a, b, h, i

Pays(g, n, anchor, event) ==
    [agreement_id |-> g, epoch_id |-> 1, gross |-> n + 1, net |-> n, tax |-> 1,
     receipt_anchor |-> anchor, audit_event_hash |-> event]

\* A batch, a run that shares a row with it, and one whose rows share an event.
SomeWorkers ==
    (batch :> <<Pays(a, 2, h, h), Pays(b, 1, i, i)>>) @@ (single :> <<Pays(b, 1, i, i)>>)
        @@ (twice :> <<Pays(a, 1, h, h), Pays(b, 1, i, h)>>)
\* The last is not started again.
SomeFetches == (batch :> 2) @@ (single :> 2) @@ (twice :> 1)
SomePrechecks == (batch :> TRUE) @@ (single :> FALSE) @@ (twice :> FALSE)

\* One record that covers the batch and one that only covers its first row.
SomeRecords == {[id |-> 1, amount |-> 3], [id |-> 2, amount |-> 2]}

\* One thing is done beside the runs: an anchor written or a row paid.
Beside == written \ UNION {EntriesOf(Workers[r]) : r \in {q \in Run : phase[q] = "paid"}}
Bounded ==
    \/ Cardinality(Beside) <= 1
    \/ \E r \in Run : \E k \in DOMAIN Workers[r] : Beside = Entries(Workers[r][k])
=============================================================================
