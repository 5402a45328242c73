------------------------------ MODULE Payroll ------------------------------
(***************************************************************************)
(* payroll_core_v2.aleo with the programs it calls: the private records of *)
(* test_usdcx_stablecoin, paystub_receipts, payroll_audit_log, and the     *)
(* agreement status through AgreementLifecycle.                            *)
(*                                                                         *)
(* Every action is one Aleo transaction: the circuits and the final blocks *)
(* of all the calls it makes commit together or not at all.  The           *)
(* transitions of the called programs are public, so that anyone may also  *)
(* call them one by one.  Gross amount, tax and fee are compared by the    *)
(* circuit before the transaction exists and read by nothing afterwards;   *)
(* they, and the hashes nothing compares, are left out of the arguments.   *)
(***************************************************************************)
EXTENDS WriteOnce, FiniteSets, FiniteSetsExt

CONSTANTS
    Wallet,        \* addresses
    Agreement,     \* agreement ids
    Party,         \* the parties of AgreementLifecycle
    Epoch,         \* the nonzero epoch ids
    Amount,        \* the amounts transferred
    Anchor,        \* receipt anchors
    Event,         \* audit event hashes
    Supply,        \* [Wallet -> Nat], the USDCx record each wallet starts with
    StubToken,     \* is the token program the stub of the repository?
    MaxTransfers   \* bound: transfers that may happen

\* An address is an element of a finite field.
ASSUME PayrollAssumption ==
    /\ IsFiniteSet(Wallet)
    /\ Epoch \subseteq Nat \ {0}
    /\ Amount \subseteq Nat
    /\ Supply \in [Wallet -> Nat]
    /\ StubToken \in BOOLEAN
    /\ MaxTransfers \in Nat

VARIABLES
    phase, consents,         \* the agreements
    tokens,                  \* the unspent USDCx Token records
    transfers,               \* transfers made: it makes the records distinct
    receipt_anchor_height,   \* anchors seen by paystub_receipts
    receipts,                \* the worker and employer copies, as pairs
    audit_event_height,      \* events seen by payroll_audit_log
    paid_epoch               \* the keys set in payroll_core_v2

tokenVars == <<tokens, transfers>>
receiptVars == <<receipt_anchor_height, receipts>>
payrollVars == <<tokenVars, receiptVars, audit_event_height, paid_epoch>>
vars == <<phase, consents, payrollVars>>

Agreements == INSTANCE AgreementLifecycle

----------------------------------------------------------------------------
KIND_PAYSTUB == 1
KIND_REVERSAL == 2

PaidEpochKey == [agreement_id : Agreement, epoch_id : Epoch]

WorkerPayArgs == [worker_addr : Wallet, agreement_id : Agreement, epoch_id : Epoch,
                  net_amount : Amount, receipt_anchor : Anchor, audit_event_hash : Event]

\* The two copies of a receipt differ in their owner only.
ReceiptPair == [kind : {KIND_PAYSTUB, KIND_REVERSAL}, receipt_anchor : Anchor,
                worker_owner : Wallet, employer_owner : Wallet,
                agreement_id : Agreement, epoch_id : Epoch, net_amount : Amount]

\* id and part stand for the nonce of the record: the transfer that made it,
\* and which of its two outputs it is.
Token == [id : Nat, part : {"payment", "change"}, owner : Wallet, amount : Nat]

Init ==
    /\ Agreements!Init
    /\ tokens = {[id |-> 0, part |-> "change", owner |-> w, amount |-> Supply[w]] : w \in Wallet}
    /\ transfers = 0
    /\ receipt_anchor_height = {} /\ receipts = {}
    /\ audit_event_height = {}
    /\ paid_epoch = {}

----------------------------------------------------------------------------
(***************************************************************************)
(* test_usdcx_stablecoin: transfer_private consumes a Token record and     *)
(* creates two.  The deployed program gives the first to the address it is *)
(* called with; the stub gives both to the owner of the consumed record.   *)
(***************************************************************************)
Recipient(t, to) == IF StubToken THEN t.owner ELSE to

Payment(t, to, amount, n) ==
    [id |-> n, part |-> "payment", owner |-> Recipient(t, to), amount |-> amount]

\* Fault: the record handed on is the one already consumed.
Change_Unspent(t, amount, n) == t

Change(t, amount, n) ==
    [id |-> n, part |-> "change", owner |-> t.owner, amount |-> t.amount - amount]

Transferred(ts, t, to, amount, n) ==
    (ts \ {t}) \cup {Payment(t, to, amount, n), Change(t, amount, n)}

transfer_private(t, to, amount) ==
    /\ t \in tokens /\ t.amount >= amount
    /\ transfers < MaxTransfers
    /\ tokens' = Transferred(tokens, t, to, amount, transfers + 1)
    /\ transfers' = transfers + 1
    /\ UNCHANGED <<phase, consents, receiptVars, audit_event_height, paid_epoch>>

----------------------------------------------------------------------------
(***************************************************************************)
(* paystub_receipts.                                                       *)
(***************************************************************************)
\* Fault: the two owners are passed in the wrong order.
Pair_OwnersSwapped(kind, employer, w) ==
    [kind |-> kind, receipt_anchor |-> w.receipt_anchor,
     worker_owner |-> employer, employer_owner |-> w.worker_addr,
     agreement_id |-> w.agreement_id, epoch_id |-> w.epoch_id, net_amount |-> w.net_amount]

Pair(kind, employer, w) ==
    [kind |-> kind, receipt_anchor |-> w.receipt_anchor,
     worker_owner |-> w.worker_addr, employer_owner |-> employer,
     agreement_id |-> w.agreement_id, epoch_id |-> w.epoch_id, net_amount |-> w.net_amount]

AnchorsOf(ws) == [i \in 1 .. Len(ws) |-> ws[i].receipt_anchor]

\* Fault: the second row of a batch is minted with the first row's agreement.
Pairs_FirstAgreement(kind, employer, ws) ==
    {Pair(kind, employer, [ws[i] EXCEPT !.agreement_id = ws[1].agreement_id]) : i \in 1 .. Len(ws)}

Pairs(kind, employer, ws) == {Pair(kind, employer, ws[i]) : i \in 1 .. Len(ws)}

MintReceipts(kind, employer, ws) ==
    /\ Fresh(receipt_anchor_height, AnchorsOf(ws))
    /\ receipt_anchor_height' = Written(receipt_anchor_height, AnchorsOf(ws))
    /\ receipts' = receipts \cup Pairs(kind, employer, ws)

DirectMint(kind, employer, w) ==
    /\ MintReceipts(kind, employer, <<w>>)
    /\ UNCHANGED <<phase, consents, tokenVars, audit_event_height, paid_epoch>>

mint_paystub_receipts(employer, w) == DirectMint(KIND_PAYSTUB, employer, w)
mint_reversal_receipts(employer, w) == DirectMint(KIND_REVERSAL, employer, w)

----------------------------------------------------------------------------
(***************************************************************************)
(* payroll_audit_log.                                                      *)
(***************************************************************************)
AnchorEvents(hashes) ==
    /\ Fresh(audit_event_height, hashes)
    /\ audit_event_height' = Written(audit_event_height, hashes)

anchor_event(h) ==
    /\ AnchorEvents(<<h>>)
    /\ UNCHANGED <<phase, consents, tokenVars, receiptVars, paid_epoch>>

assert_event_anchored(h) == h \in audit_event_height

----------------------------------------------------------------------------
(***************************************************************************)
(* payroll_core_v2.                                                        *)
(***************************************************************************)
EventsOf(ws) == [i \in 1 .. Len(ws) |-> ws[i].audit_event_hash]

KeyOf(w) == [agreement_id |-> w.agreement_id, epoch_id |-> w.epoch_id]

KeysOf(ws) == [i \in 1 .. Len(ws) |-> KeyOf(ws[i])]

\* Fault: only the first row's agreement is looked up.
AgreementsActive_FirstRow(ws) == phase[ws[1].agreement_id] = "active"

AgreementsActive(ws) == \A i \in 1 .. Len(ws) : phase[ws[i].agreement_id] = "active"

\* What the final block does for the rows of a run, apart from the transfers.
Settle(employer, ws) ==
    /\ AgreementsActive(ws)
    /\ MintReceipts(KIND_PAYSTUB, employer, ws)
    /\ AnchorEvents(EventsOf(ws))
    /\ Fresh(paid_epoch, KeysOf(ws))
    /\ paid_epoch' = Written(paid_epoch, KeysOf(ws))
    /\ UNCHANGED <<phase, consents>>

execute_payroll(t, employer, w) ==
    /\ t \in tokens /\ t.amount >= w.net_amount
    /\ transfers < MaxTransfers
    /\ Settle(employer, <<w>>)
    /\ tokens' = Transferred(tokens, t, w.worker_addr, w.net_amount, transfers + 1)
    /\ transfers' = transfers + 1

\* The second transfer consumes the change of the first.
execute_payroll_batch_2(t, employer, w1, w2) ==
    LET remainder == Change(t, w1.net_amount, transfers + 1)
        first == Transferred(tokens, t, w1.worker_addr, w1.net_amount, transfers + 1)
    IN  /\ t \in tokens /\ t.amount >= w1.net_amount
        /\ remainder.amount >= w2.net_amount
        /\ transfers + 1 < MaxTransfers
        /\ Settle(employer, <<w1, w2>>)
        /\ tokens' = Transferred(first, remainder, w2.worker_addr, w2.net_amount, transfers + 2)
        /\ transfers' = transfers + 2

----------------------------------------------------------------------------
AgreementStep == Agreements!Next /\ UNCHANGED payrollVars

CoreStep ==
    \E t \in tokens, employer \in Wallet, w \in WorkerPayArgs :
        \/ execute_payroll(t, employer, w)
        \/ \E w2 \in WorkerPayArgs : execute_payroll_batch_2(t, employer, w, w2)

DirectStep ==
    \/ \E t \in tokens, to \in Wallet, amount \in Amount : transfer_private(t, to, amount)
    \/ \E employer \in Wallet, w \in WorkerPayArgs :
          mint_paystub_receipts(employer, w) \/ mint_reversal_receipts(employer, w)
    \/ \E h \in Event : anchor_event(h)

Next == AgreementStep \/ CoreStep \/ DirectStep

Spec == Init /\ [][Next]_vars

----------------------------------------------------------------------------
TypeOK ==
    /\ phase \in [Agreement -> Agreements!Phase]
    /\ consents \in [Agreement -> SUBSET Party]
    /\ tokens \subseteq Token
    /\ transfers \in Nat
    /\ receipt_anchor_height \subseteq Anchor
    /\ receipts \subseteq ReceiptPair
    /\ audit_event_height \subseteq Event
    /\ paid_epoch \subseteq PaidEpochKey

\* An anchor identifies one pair of receipts, be it a paystub or a reversal,
\* minted alone or in a batch, and no anchor is on chain without its pair
\* (receipt_anchor_height in the two mint transitions).
AnchorsIdentifyReceipts ==
    /\ receipt_anchor_height = {r.receipt_anchor : r \in receipts}
    /\ \A r1, r2 \in receipts : r1.receipt_anchor = r2.receipt_anchor => r1 = r2

\* A paid epoch has its paystub, and therefore its anchor: the core never
\* marks an epoch paid without leaving the worker and the employer a receipt
\* of that agreement and epoch.
PaidEpochsEvidenced ==
    \A k \in paid_epoch :
        \E r \in receipts : /\ r.kind = KIND_PAYSTUB
                            /\ r.agreement_id = k.agreement_id /\ r.epoch_id = k.epoch_id

\* Receipts, anchors and paid epochs together are evidence of each other.
ReceiptsAreEvidence == AnchorsIdentifyReceipts /\ PaidEpochsEvidenced

\* USDCx records are split and handed on, never created or lost, also when the
\* change of one transfer pays the next worker of a batch.
Total(ts) == MapThenSumSet(LAMBDA t : t.amount, ts)
Holding(ts, w) == Total({t \in ts : t.owner = w})
ValueConserved == Total(tokens) = MapThenSumSet(LAMBDA w : Supply[w], Wallet)

\* A transaction that both moves money and mints receipts is a settlement by
\* the core, and is whole: it newly marks as many epochs, and anchors as many
\* new events, as it mints receipts, every receipt is the paystub of one of
\* those epochs, and every agreement paid is active (execute_payroll and
\* execute_payroll_batch_2; the final block reverts as one).
Settled == tokens' # tokens /\ receipts' # receipts
SettlementIsWhole ==
    [][Settled =>
        LET minted == receipts' \ receipts
            paid == paid_epoch' \ paid_epoch
        IN  /\ Cardinality(paid) = Cardinality(minted)
            /\ Cardinality(audit_event_height' \ audit_event_height) = Cardinality(minted)
            /\ paid = {[agreement_id |-> r.agreement_id, epoch_id |-> r.epoch_id] : r \in minted}
            /\ \A r \in minted : r.kind = KIND_PAYSTUB /\ phase[r.agreement_id] = "active"]_vars

\* A settlement pays: the owner of the record it consumes gives the sum of the
\* net amounts, and every worker receives the net amounts of the receipts minted
\* for it, as the README of payroll_core_v2 says of the worker's USDCx record.
WorkersArePaid ==
    [][Settled =>
        LET minted == receipts' \ receipts
            net(rs) == MapThenSumSet(LAMBDA r : r.net_amount, rs)
        IN  \E t \in tokens \ tokens' : \A w \in Wallet :
                Holding(tokens', w) + (IF w = t.owner THEN net(minted) ELSE 0)
                    = Holding(tokens, w) + net({r \in minted : r.worker_owner = w})]_vars
=============================================================================
