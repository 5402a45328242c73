----------------------------- MODULE PayrollRuns -----------------------------
(***************************************************************************)
(* Payroll runs of one employer: each fetches the unspent Token records,   *)
(* picks the one that pays it, builds its plan and has the plan executed.  *)
(* Runs share the employer's records and may share agreements; nothing in  *)
(* the portal keeps one run's choice from another.                         *)
(***************************************************************************)
EXTENDS Integers, Sequences, FiniteSets, SequencesExt

CONSTANTS
    Run,                 \* the runs
    Agreement,
    Hash,                \* receipt anchors and event hashes
    Workers,             \* Workers[r]: the rows a run pays, in order
    Prechecks,           \* Prechecks[r]: whether its plan asserts agreements
    Opening,             \* the employer's records at the start
    MaxFetches           \* MaxFetches[r]: bound on its fetches

\* A record is known by its id; those of the start are numbered from 1.
Record == [id : Nat \ {0}, amount : Nat]
Row == [agreement_id : Agreement, epoch_id : Nat, gross : Nat, net : Nat, tax : Nat,
        receipt_anchor : Hash, audit_event_hash : Hash]

ASSUME RunsAssumption ==
    /\ Workers \in [Run -> Seq(Row)] /\ \A r \in Run : Len(Workers[r]) \in 1 .. 2
    /\ Prechecks \in [Run -> BOOLEAN]
    /\ Opening \subseteq Record /\ IsFiniteSet(Opening)
    /\ \A t \in Opening : t.id <= Cardinality(Opening)
    /\ \A a, b \in Opening : a.id = b.id => a = b
    /\ MaxFetches \in [Run -> Nat]

VARIABLES
    unspent,             \* the employer's records on chain
    agreement_status,
    written,             \* entries of the write-once mappings a settlement adds to
    payments,            \* what the runs' settlements paid: [agreement_id, epoch_id, net, run]
    phase,               \* where each run is
    fetches,             \* how often it fetched
    seen,                \* what it could read when it was told that no record suffices
    record,              \* the record it chose
    todo                 \* the steps it still executes

ledger == <<unspent, agreement_status, written, payments>>
portalVars == <<phase, fetches, seen, record, todo>>
runsVars == <<ledger, portalVars>>

FetchError == {"no_records", "insufficient_balance", "api_error", "parse_error"}
Phase == {"waiting", "reading", "executing", "paid", "reverted"} \cup FetchError
NoRecord == [id |-> 0, amount |-> 0]

RunsInit ==
    /\ unspent = Opening /\ payments = {} /\ written = {}
    /\ agreement_status = [a \in Agreement |-> "active"]
    /\ phase = [r \in Run |-> "waiting"] /\ fetches = [r \in Run |-> 1]
    /\ seen = [r \in Run |-> {}] /\ record = [r \in Run |-> NoRecord]
    /\ todo = [r \in Run |-> <<>>]

Goes(r, to) == phase' = [phase EXCEPT ![r] = to]

---------------------------------------------------------------------------
(* fetchBestUsdcxRecord.                                                   *)

\* Fault: the batch asks for what its first worker gets.
totalNetAmount_FirstWorker(rows) == rows[1].net

totalNetAmount(rows) == FoldLeft(LAMBDA sum, row : sum + row.net, 0, rows)

\* Fault: the records are sorted ascending and the first one is looked at.
Best_Ascending(records, minimum) ==
    {b \in records : b.amount >= minimum /\ \A o \in records : b.amount <= o.amount}

\* Sorted descending, the first that covers the minimum: one of the largest.
Best(records, minimum) ==
    {b \in records : b.amount >= minimum /\ \A o \in records : b.amount >= o.amount}

\* The node refuses or cannot be reached, the timer aborts the fetch, the node
\* answers with an error status, or its body breaks off.
FetchFails(r) ==
    /\ phase[r] \in {"waiting", "reading"} /\ Goes(r, "api_error")
    /\ UNCHANGED <<ledger, fetches, seen, record, todo>>

\* The response begins, and the timer is cleared: nothing ends a body that stalls.
Respond(r) ==
    /\ phase[r] = "waiting" /\ Goes(r, "reading")
    /\ UNCHANGED <<ledger, fetches, seen, record, todo>>

Misread(r) ==
    /\ phase[r] = "reading" /\ Goes(r, "parse_error")
    /\ UNCHANGED <<ledger, fetches, seen, record, todo>>

\* The plan of buildPayrollWorkflow for one row and of buildBatchPayrollWorkflow
\* for two: the assertions, then the settlement of all rows.
PlanOf(r) ==
    (IF Prechecks[r]
     THEN [k \in DOMAIN Workers[r] |-> [assert |-> Workers[r][k].agreement_id]]
     ELSE <<>>)
    \o <<[pay |-> Workers[r]]>>

\* The body arrives: the unspent records, of which some have no field the fetcher
\* knows and others are still encrypted, so that their amount is not readable.
Answer(r) ==
    /\ phase[r] = "reading"
    /\ \E listed \in SUBSET unspent : \E readable \in SUBSET listed :
          LET best == Best(readable, totalNetAmount(Workers[r]))
          IN \/ /\ listed = {}
                /\ Goes(r, "no_records") /\ UNCHANGED <<seen, record, todo>>
             \/ /\ listed # {} /\ best = {}
                /\ seen' = [seen EXCEPT ![r] = readable]
                /\ Goes(r, "insufficient_balance") /\ UNCHANGED <<record, todo>>
             \/ \E b \in best :
                   /\ record' = [record EXCEPT ![r] = b]
                   /\ todo' = [todo EXCEPT ![r] = PlanOf(r)]
                   /\ Goes(r, "executing") /\ UNCHANGED seen
    /\ UNCHANGED <<ledger, fetches>>

---------------------------------------------------------------------------
(* Execution of the plan, and what happens beside it.                      *)

NextStep(r) == Head(todo[r])
Asserting(r) == phase[r] = "executing" /\ "assert" \in DOMAIN NextStep(r)
Paying(r) == phase[r] = "executing" /\ "pay" \in DOMAIN NextStep(r)

AssertActive(r) ==
    /\ Asserting(r)
    /\ IF agreement_status[NextStep(r).assert] = "active"
       THEN todo' = [todo EXCEPT ![r] = Tail(@)] /\ UNCHANGED phase
       ELSE Goes(r, "reverted") /\ UNCHANGED todo
    /\ UNCHANGED <<ledger, fetches, seen, record>>

Agreements(rows) == {rows[k].agreement_id : k \in DOMAIN rows}
Inactive == {a \in Agreement : agreement_status[a] # "active"}

\* What a row of payroll_core_v2 writes, each once: that the agreement was paid for
\* the epoch, the height of its receipts' anchor and that of its event.
PaidKey(row) == <<"paid_epoch", row.agreement_id, row.epoch_id>>
Entries(row) ==
    {PaidKey(row), <<"receipt_anchor_height", row.receipt_anchor>>,
     <<"audit_event_height", row.audit_event_hash>>}
EntriesOf(rows) == UNION {Entries(rows[k]) : k \in DOMAIN rows}

\* What the rows must be, whatever the chain holds.
Payable(rows) ==
    /\ \A k \in DOMAIN rows :
          rows[k].epoch_id # 0 /\ rows[k].gross >= rows[k].net /\ rows[k].gross >= rows[k].tax
    /\ \A j, k \in DOMAIN rows : j # k => Entries(rows[j]) \cap Entries(rows[k]) = {}

\* What the transfers of a settlement leave of a record, row after row.
Left(b, r) == FoldLeft(LAMBDA left, row : left - row.net, b.amount, Workers[r])

\* Fault: neither paid epochs nor anchors are looked at.
Settles_PaidAgain(r) ==
    /\ record[r] \in unspent
    /\ Left(record[r], r) >= 0
    /\ Agreements(Workers[r]) \cap Inactive = {}
    /\ Payable(Workers[r])

\* What payroll_core_v2, with the programs it calls, demands of a settlement.
Settles(r) ==
    /\ record[r] \in unspent
    /\ Left(record[r], r) >= 0
    /\ Agreements(Workers[r]) \cap Inactive = {}
    /\ Payable(Workers[r])
    /\ EntriesOf(Workers[r]) \cap written = {}

NextId == 1 + Cardinality(Opening) + Cardinality({p.run : p \in payments})

ExecutePayroll(r) ==
    /\ Paying(r)
    /\ IF Settles(r)
       THEN /\ Goes(r, "paid")
            /\ payments' = payments \cup
                  {[agreement_id |-> Workers[r][k].agreement_id,
                    epoch_id |-> Workers[r][k].epoch_id,
                    net |-> Workers[r][k].net, run |-> r] : k \in DOMAIN Workers[r]}
            /\ written' = written \cup EntriesOf(Workers[r])
            /\ unspent' = (unspent \ {record[r]}) \cup
                  {[id |-> NextId, amount |-> Left(record[r], r)]}
       ELSE Goes(r, "reverted") /\ UNCHANGED <<payments, unspent, written>>
    /\ todo' = [todo EXCEPT ![r] = <<>>]
    /\ UNCHANGED <<agreement_status, fetches, seen, record>>

\* While runs are on their way an agreement is paused, resumed, or ended for good
\* (terminated or superseded).
AgreementMoves(a) ==
    /\ \E to \in {"active", "paused", "ended"} :
          /\ agreement_status[a] \notin {to, "ended"}
          /\ agreement_status' = [agreement_status EXCEPT ![a] = to]
    /\ UNCHANGED <<unspent, written, payments, portalVars>>

\* Receipts are minted and events anchored beside the runs, and rows paid from
\* other wallets: the three programs take any caller.
OthersWrite(entries) ==
    /\ entries \cap written = {} /\ written' = written \cup entries
    /\ UNCHANGED <<unspent, agreement_status, payments, portalVars>>

MintReceipts(h) == OthersWrite({<<"receipt_anchor_height", h>>})
AnchorEvent(h) == OthersWrite({<<"audit_event_height", h>>})
PayBeside(row) ==
    /\ agreement_status[row.agreement_id] = "active" /\ Payable(<<row>>)
    /\ OthersWrite(Entries(row))

\* The operator starts a run that did not pay again.
FetchAgain(r) ==
    /\ phase[r] \in FetchError \cup {"reverted"} /\ fetches[r] < MaxFetches[r]
    /\ Goes(r, "waiting") /\ fetches' = [fetches EXCEPT ![r] = @ + 1]
    /\ seen' = [seen EXCEPT ![r] = {}] /\ record' = [record EXCEPT ![r] = NoRecord]
    /\ todo' = [todo EXCEPT ![r] = <<>>]
    /\ UNCHANGED ledger

RunsNext ==
    \/ \E r \in Run :
          \/ FetchFails(r) \/ Respond(r) \/ Misread(r) \/ Answer(r)
          \/ AssertActive(r) \/ ExecutePayroll(r) \/ FetchAgain(r)
    \/ \E a \in Agreement : AgreementMoves(a)
    \/ \E h \in Hash : MintReceipts(h) \/ AnchorEvent(h)
    \/ \E r \in Run : \E k \in DOMAIN Workers[r] : PayBeside(Workers[r][k])

RunsSpec == RunsInit /\ [][RunsNext]_runsVars

---------------------------------------------------------------------------
(* Properties.                                                             *)

\* A run is told that no record suffices only when none of those whose amount it
\* could read covers all its rows by itself.  Records it could not read may, and
\* several together may.
InsufficientIsTrue ==
    \A r \in Run : phase[r] = "insufficient_balance" =>
        \A b \in seen[r] : Left(b, r) < 0

\* The causes for which the plan of a run fails.
Cause(r) ==
    \/ record[r] \notin unspent
    \/ Agreements(Workers[r]) \cap Inactive # {}
    \/ EntriesOf(Workers[r]) \cap written # {}
    \/ ~Payable(Workers[r])

Reverts(r) == phase[r] # "reverted" /\ phase'[r] = "reverted"

\* A run is told to find more money only for want of a record that suffices, and a
\* plan that was built never fails for want of money: when it fails its record is
\* spent, an agreement of its rows is not active, something its rows write is
\* written, or the rows were wrong from the start.
StopsHaveCauses ==
    []InsufficientIsTrue /\ [][\A r \in Run : Reverts(r) => Cause(r)]_runsVars

Held(records) == MapThenSumSet(LAMBDA t : t.amount, records)
Paid(ps) == MapThenSumSet(LAMBDA p : p.net, ps)

\* Whatever the runs do to each other and however often they are started again,
\* an agreement is paid once for an epoch and what was paid left the employer's
\* records.
PaidOnceFromRecords ==
    /\ \A p, q \in payments : PaidKey(p) = PaidKey(q) => p = q
    /\ Held(unspent) + Paid(payments) = Held(Opening)
=============================================================================
