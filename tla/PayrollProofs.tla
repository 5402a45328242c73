--------------------------- MODULE PayrollProofs ---------------------------
(***************************************************************************)
(* Theorems about Payroll, for any number of wallets, agreements, epochs,  *)
(* anchors, events and amounts, and for either token program.              *)
(***************************************************************************)
EXTENDS Payroll, FoldTheorems

\* The inductive invariant: each conjunct needs no more than the types.
IInv == TypeOK /\ AnchorsIdentifyReceipts /\ PaidEpochsEvidenced

\* The part of the types a payment may disturb, apart from the records of value.
LedgerTypeOK ==
    /\ receipt_anchor_height \subseteq Anchor
    /\ receipts \subseteq ReceiptPair
    /\ audit_event_height \subseteq Event
    /\ paid_epoch \subseteq PaidEpochKey

----------------------------------------------------------------------------
\* A transfer makes well-formed records: the guard keeps the change from underflowing.
LEMMA TransferTypes ==
    ASSUME NEW ts \in SUBSET Token, NEW t \in Token, NEW to \in Wallet, NEW amount \in Nat,
           NEW n \in Nat, t.amount >= amount
    PROVE  /\ Transferred(ts, t, to, amount, n) \subseteq Token
           /\ Change(t, amount, n) \in Token
<1>1. t.owner \in Wallet /\ t.amount \in Nat
  BY DEF Token
<1>2. t.amount - amount \in Nat
  BY <1>1
<1>3. Recipient(t, to) \in Wallet
  BY <1>1 DEF Recipient
<1>4. Payment(t, to, amount, n) \in Token /\ Change(t, amount, n) \in Token
  BY <1>1, <1>2, <1>3 DEF Payment, Change, Token
<1> QED
  BY <1>4 DEF Transferred

\* Minting for the rows of a run, one or several, keeps anchors and pairs in step.
LEMMA MintKeeps ==
    ASSUME IInv, NEW kind \in {KIND_PAYSTUB, KIND_REVERSAL}, NEW employer \in Wallet,
           NEW ws \in Seq(WorkerPayArgs), MintReceipts(kind, employer, ws)
    PROVE  /\ receipt_anchor_height' \subseteq Anchor /\ receipts' \subseteq ReceiptPair
           /\ AnchorsIdentifyReceipts'
           /\ receipts \subseteq receipts'
           /\ \A i \in 1 .. Len(ws) : Pair(kind, employer, ws[i]) \in receipts'
<1> DEFINE rows == 1 .. Len(ws)
<1>1. \A i \in rows : ws[i] \in WorkerPayArgs
  OBVIOUS
<1>2. /\ receipt_anchor_height' = receipt_anchor_height \cup {ws[i].receipt_anchor : i \in rows}
      /\ receipts' = receipts \cup {Pair(kind, employer, ws[i]) : i \in rows}
      /\ \A i \in rows : /\ ws[i].receipt_anchor \notin receipt_anchor_height
                         /\ \A j \in 1 .. i - 1 : ws[i].receipt_anchor # ws[j].receipt_anchor
  <2>1. Len(AnchorsOf(ws)) = Len(ws) /\ \A i \in rows : AnchorsOf(ws)[i] = ws[i].receipt_anchor
    BY DEF AnchorsOf
  <2>2. Written(receipt_anchor_height, AnchorsOf(ws))
            = receipt_anchor_height \cup {ws[i].receipt_anchor : i \in rows}
    BY <2>1 DEF Written
  <2>3. \A i \in rows : \A j \in 1 .. i - 1 : j \in rows
    OBVIOUS
  <2>4. ASSUME NEW i \in rows
        PROVE  /\ ws[i].receipt_anchor \notin receipt_anchor_height
               /\ \A j \in 1 .. i - 1 : ws[i].receipt_anchor # ws[j].receipt_anchor
    <3>1. AnchorsOf(ws)[i] \notin
              receipt_anchor_height \cup {AnchorsOf(ws)[j] : j \in 1 .. i - 1}
      BY <2>1, <2>4 DEF MintReceipts, Fresh
    <3> QED
      BY <2>1, <2>3, <3>1
  <2> QED
    BY <2>2, <2>4 DEF MintReceipts, Pairs
<1>3. \A i \in rows : /\ Pair(kind, employer, ws[i]) \in ReceiptPair
                      /\ Pair(kind, employer, ws[i]).receipt_anchor = ws[i].receipt_anchor
                      /\ ws[i].receipt_anchor \in Anchor
  BY <1>1 DEF Pair, ReceiptPair, WorkerPayArgs
<1>4. \A i, j \in rows : ws[i].receipt_anchor = ws[j].receipt_anchor => i = j
  <2>1. \A i, j \in rows : j < i => ws[i].receipt_anchor # ws[j].receipt_anchor
    BY <1>2
  <2>2. \A i, j \in rows : i = j \/ i < j \/ j < i
    OBVIOUS
  <2> QED
    BY <2>1, <2>2
<1>5. receipt_anchor_height' = {r.receipt_anchor : r \in receipts'}
  <2>1. receipt_anchor_height = {r.receipt_anchor : r \in receipts}
    BY DEF IInv, AnchorsIdentifyReceipts
  <2> QED
    BY <1>2, <1>3, <2>1
<1>6. \A r1, r2 \in receipts' : r1.receipt_anchor = r2.receipt_anchor => r1 = r2
  <2> SUFFICES ASSUME NEW r1 \in receipts', NEW r2 \in receipts',
                      r1.receipt_anchor = r2.receipt_anchor
               PROVE  r1 = r2
    OBVIOUS
  <2>1. /\ \A p, q \in receipts : p.receipt_anchor = q.receipt_anchor => p = q
        /\ \A p \in receipts : p.receipt_anchor \in receipt_anchor_height
    BY DEF IInv, AnchorsIdentifyReceipts
  <2>2. CASE r1 \in receipts /\ r2 \in receipts
    BY <2>1, <2>2
  <2>3. CASE r1 \in receipts /\ r2 \notin receipts
    BY <1>2, <1>3, <2>1, <2>3
  <2>4. CASE r1 \notin receipts /\ r2 \in receipts
    BY <1>2, <1>3, <2>1, <2>4
  <2>5. CASE r1 \notin receipts /\ r2 \notin receipts
    <3>1. PICK i \in rows : r1 = Pair(kind, employer, ws[i])
      BY <1>2, <2>5
    <3>2. PICK j \in rows : r2 = Pair(kind, employer, ws[j])
      BY <1>2, <2>5
    <3> QED
      BY <1>3, <1>4, <3>1, <3>2
  <2> QED
    BY <2>2, <2>3, <2>4, <2>5
<1> QED
  BY <1>2, <1>3, <1>5, <1>6 DEF IInv, TypeOK, AnchorsIdentifyReceipts

----------------------------------------------------------------------------
\* A settlement of one row or of two keeps everything but the token records in step.
LEMMA SettleKeeps ==
    ASSUME IInv, NEW employer \in Wallet, NEW ws \in Seq(WorkerPayArgs), Settle(employer, ws)
    PROVE  LedgerTypeOK' /\ AnchorsIdentifyReceipts' /\ PaidEpochsEvidenced'
<1> DEFINE rows == 1 .. Len(ws)
<1>1. \A i \in rows : ws[i] \in WorkerPayArgs
  OBVIOUS
<1>2. KIND_PAYSTUB \in {KIND_PAYSTUB, KIND_REVERSAL} /\ MintReceipts(KIND_PAYSTUB, employer, ws)
  BY DEF Settle
<1>3. /\ receipt_anchor_height' \subseteq Anchor /\ receipts' \subseteq ReceiptPair
      /\ AnchorsIdentifyReceipts'
      /\ receipts \subseteq receipts'
      /\ \A i \in rows : Pair(KIND_PAYSTUB, employer, ws[i]) \in receipts'
  BY <1>2, MintKeeps
<1>4. paid_epoch' = paid_epoch \cup {KeyOf(ws[i]) : i \in rows}
  BY DEF Settle, Written, KeysOf
<1>5. audit_event_height' = audit_event_height \cup {ws[i].audit_event_hash : i \in rows}
  BY DEF Settle, AnchorEvents, Written, EventsOf
<1>6. LedgerTypeOK'
  <2>1. \A i \in rows : KeyOf(ws[i]) \in PaidEpochKey /\ ws[i].audit_event_hash \in Event
    BY <1>1 DEF KeyOf, PaidEpochKey, WorkerPayArgs
  <2> QED
    BY <1>3, <1>4, <1>5, <2>1 DEF IInv, TypeOK, LedgerTypeOK
<1>7. PaidEpochsEvidenced'
  <2> SUFFICES ASSUME NEW k \in paid_epoch'
               PROVE  \E r \in receipts' :
                          /\ r.kind = KIND_PAYSTUB
                          /\ r.agreement_id = k.agreement_id /\ r.epoch_id = k.epoch_id
    BY DEF PaidEpochsEvidenced
  <2>1. CASE k \in paid_epoch
    BY <1>3, <2>1 DEF IInv, PaidEpochsEvidenced
  <2>2. CASE k \notin paid_epoch
    <3>1. PICK i \in rows : k = KeyOf(ws[i])
      BY <1>4, <2>2
    <3>2. /\ Pair(KIND_PAYSTUB, employer, ws[i]).kind = KIND_PAYSTUB
          /\ Pair(KIND_PAYSTUB, employer, ws[i]).agreement_id = k.agreement_id
          /\ Pair(KIND_PAYSTUB, employer, ws[i]).epoch_id = k.epoch_id
      BY <3>1 DEF Pair, KeyOf
    <3> QED
      BY <1>3, <3>2
  <2> QED
    BY <2>1, <2>2
<1> QED
  BY <1>3, <1>6, <1>7

\* The agreements go their own way: payroll only reads them.
LEMMA AgreementKeeps == IInv /\ AgreementStep => IInv'
<1> SUFFICES ASSUME IInv, AgreementStep PROVE IInv'
  OBVIOUS
<1>1. UNCHANGED payrollVars
  BY DEF AgreementStep
<1>2. (phase \in [Agreement -> Agreements!Phase])' /\ (consents \in [Agreement -> SUBSET Party])'
  BY DEF AgreementStep, Agreements!Next, Agreements!Offer, Agreements!Accept, Agreements!Pause,
         Agreements!Close, Agreements!Resume, Agreements!Consent, Agreements!Move,
         Agreements!Phase, IInv, TypeOK
<1> QED
  BY <1>1, <1>2 DEF payrollVars, tokenVars, receiptVars, IInv, TypeOK,
                    AnchorsIdentifyReceipts, PaidEpochsEvidenced

\* Init establishes the invariant.
LEMMA InitIInv == Init => IInv
<1> SUFFICES ASSUME Init PROVE IInv
  OBVIOUS
<1>1. \A w \in Wallet : Supply[w] \in Nat
  BY PayrollAssumption
<1>2. tokens \subseteq Token
  BY <1>1 DEF Init, Token
<1> QED
  BY <1>2 DEF Init, Agreements!Init, Agreements!Phase, IInv, TypeOK,
              AnchorsIdentifyReceipts, PaidEpochsEvidenced

\* A transaction of the core keeps the invariant.
LEMMA CoreKeeps == IInv /\ CoreStep => IInv'
<1> SUFFICES ASSUME IInv, NEW t \in tokens, NEW employer \in Wallet, NEW w \in WorkerPayArgs,
                    \/ execute_payroll(t, employer, w)
                    \/ \E w2 \in WorkerPayArgs : execute_payroll_batch_2(t, employer, w, w2)
             PROVE  IInv'
  BY DEF CoreStep
<1>1. /\ t \in Token /\ t.amount \in Nat /\ transfers \in Nat /\ tokens \in SUBSET Token
      /\ \A x \in WorkerPayArgs : x.worker_addr \in Wallet /\ x.net_amount \in Nat
  BY PayrollAssumption DEF IInv, TypeOK, Token, WorkerPayArgs
<1>2. CASE execute_payroll(t, employer, w)
  <2>1. tokens' \subseteq Token /\ transfers' \in Nat
    BY <1>1, <1>2, TransferTypes DEF execute_payroll
  <2>2. <<w>> \in Seq(WorkerPayArgs) /\ Settle(employer, <<w>>)
    BY <1>2 DEF execute_payroll
  <2>3. LedgerTypeOK' /\ AnchorsIdentifyReceipts' /\ PaidEpochsEvidenced'
    BY <2>2, SettleKeeps
  <2>4. UNCHANGED <<phase, consents>>
    BY <2>2 DEF Settle
  <2> QED
    BY <2>1, <2>3, <2>4 DEF IInv, TypeOK, LedgerTypeOK
<1>3. ASSUME NEW w2 \in WorkerPayArgs, execute_payroll_batch_2(t, employer, w, w2)
      PROVE  IInv'
  <2> DEFINE remainder == Change(t, w.net_amount, transfers + 1)
             first == Transferred(tokens, t, w.worker_addr, w.net_amount, transfers + 1)
  <2>1. /\ t.amount >= w.net_amount /\ remainder.amount >= w2.net_amount
        /\ tokens' = Transferred(first, remainder, w2.worker_addr, w2.net_amount, transfers + 2)
        /\ transfers' = transfers + 2
        /\ Settle(employer, <<w, w2>>)
    BY <1>3 DEF execute_payroll_batch_2
  <2>2. first \in SUBSET Token /\ remainder \in Token
    BY <1>1, <2>1, TransferTypes
  <2>3. tokens' \subseteq Token /\ transfers' \in Nat
    <3> HIDE DEF first, remainder
    <3>1. transfers + 2 \in Nat /\ transfers' \in Nat
      BY <1>1, <2>1
    <3> QED
      BY <1>1, <2>1, <2>2, <3>1, TransferTypes
  <2>4. <<w, w2>> \in Seq(WorkerPayArgs)
    BY <1>3
  <2>5. LedgerTypeOK' /\ AnchorsIdentifyReceipts' /\ PaidEpochsEvidenced'
    BY <2>1, <2>4, SettleKeeps
  <2>6. UNCHANGED <<phase, consents>>
    BY <2>1 DEF Settle
  <2> QED
    BY <2>3, <2>5, <2>6 DEF IInv, TypeOK, LedgerTypeOK
<1> QED
  BY <1>2, <1>3

\* A direct call of one of the called programs keeps the invariant.
LEMMA DirectKeeps == IInv /\ DirectStep => IInv'
<1> SUFFICES ASSUME IInv, DirectStep PROVE IInv'
  OBVIOUS
<1>1. ASSUME NEW t \in tokens, NEW to \in Wallet, NEW amount \in Amount,
             transfer_private(t, to, amount)
      PROVE  IInv'
  <2>1. tokens' \subseteq Token /\ transfers' \in Nat
    BY <1>1, TransferTypes, PayrollAssumption DEF transfer_private, IInv, TypeOK
  <2> QED
    BY <1>1, <2>1 DEF transfer_private, receiptVars, IInv, TypeOK,
                      AnchorsIdentifyReceipts, PaidEpochsEvidenced
<1>2. ASSUME NEW employer \in Wallet, NEW w \in WorkerPayArgs,
             NEW kind \in {KIND_PAYSTUB, KIND_REVERSAL}, DirectMint(kind, employer, w)
      PROVE  IInv'
  <2>1. <<w>> \in Seq(WorkerPayArgs) /\ MintReceipts(kind, employer, <<w>>)
    BY <1>2 DEF DirectMint
  <2>2. /\ receipt_anchor_height' \subseteq Anchor /\ receipts' \subseteq ReceiptPair
        /\ AnchorsIdentifyReceipts'
        /\ receipts \subseteq receipts'
    BY <2>1, MintKeeps
  <2>3. UNCHANGED <<phase, consents, tokenVars, audit_event_height, paid_epoch>>
    BY <1>2 DEF DirectMint
  <2> QED
    BY <2>2, <2>3 DEF tokenVars, IInv, TypeOK, PaidEpochsEvidenced
<1>3. ASSUME NEW h \in Event, anchor_event(h) PROVE IInv'
  <2>1. audit_event_height' \subseteq Event
    BY <1>3 DEF anchor_event, AnchorEvents, Written, IInv, TypeOK
  <2> QED
    BY <1>3, <2>1 DEF anchor_event, tokenVars, receiptVars, IInv, TypeOK,
                      AnchorsIdentifyReceipts, PaidEpochsEvidenced
<1> QED
  BY <1>1, <1>2, <1>3 DEF DirectStep, mint_paystub_receipts, mint_reversal_receipts

\* A step that changes nothing keeps the invariant.
LEMMA StutterKeeps == IInv /\ UNCHANGED vars => IInv'
BY DEF vars, payrollVars, tokenVars, receiptVars, IInv, TypeOK,
       AnchorsIdentifyReceipts, PaidEpochsEvidenced

----------------------------------------------------------------------------
\* The inductive invariant holds in every reachable state of the payroll programs.
THEOREM Invariance == Spec => []IInv
<1>1. Init => IInv
  BY InitIInv
<1>2. IInv /\ [Next]_vars => IInv'
  BY AgreementKeeps, CoreKeeps, DirectKeeps, StutterKeeps DEF Next
<1> QED
  BY <1>1, <1>2, PTL DEF Spec

\* Every value keeps its type; above all the change of a transfer, of a batch too, never
\* goes below zero.
THEOREM TypeCorrect == Spec => []TypeOK
<1>1. IInv => TypeOK
  BY DEF IInv
<1> QED
  BY <1>1, Invariance, PTL

\* An anchor identifies one pair of receipts, whichever transition minted it.
THEOREM AnchorsUnique == Spec => []AnchorsIdentifyReceipts
<1>1. IInv => AnchorsIdentifyReceipts
  BY DEF IInv
<1> QED
  BY <1>1, Invariance, PTL

\* Every paid epoch has its paystub.
THEOREM PaidEvidenced == Spec => []PaidEpochsEvidenced
<1>1. IInv => PaidEpochsEvidenced
  BY DEF IInv
<1> QED
  BY <1>1, Invariance, PTL

\* Receipts, anchors and paid epochs are evidence of each other.
THEOREM ReceiptsEvidence == Spec => []ReceiptsAreEvidence
<1>1. IInv => ReceiptsAreEvidence
  BY DEF IInv, ReceiptsAreEvidence
<1> QED
  BY <1>1, Invariance, PTL

----------------------------------------------------------------------------
\* What a settlement adds to the three ledgers, row by row.
Whole ==
    LET minted == receipts' \ receipts
        paid == paid_epoch' \ paid_epoch
    IN  /\ Cardinality(paid) = Cardinality(minted)
        /\ Cardinality(audit_event_height' \ audit_event_height) = Cardinality(minted)
        /\ paid = {[agreement_id |-> r.agreement_id, epoch_id |-> r.epoch_id] : r \in minted}
        /\ \A r \in minted : r.kind = KIND_PAYSTUB /\ phase[r.agreement_id] = "active"

\* A sequence without repetitions has as many elements as its length.
LEMMA RowsCounted ==
    ASSUME NEW K, NEW f \in Seq(K),
           \A i, j \in 1 .. Len(f) : f[i] = f[j] => i = j
    PROVE  Cardinality({f[i] : i \in 1 .. Len(f)}) = Len(f)
<1> DEFINE n == Len(f)
           S == {f[i] : i \in 1 .. n}
<1>1. f \in Surjection(1 .. n, S) /\ f \in Injection(1 .. n, S)
  BY DEF Surjection, Injection, IsInjective
<1>2. IsFiniteSet(1 .. n) /\ Cardinality(1 .. n) = n
  <2>1. 1 \in Int /\ n \in Int /\ n >= 0
    OBVIOUS
  <2>2. IsFiniteSet(1 .. n) /\ Cardinality(1 .. n) = IF 1 > n THEN 0 ELSE n - 1 + 1
    BY <2>1, FS_Interval
  <2> QED
    BY <2>1, <2>2
<1>3. Cardinality(S) = Cardinality(1 .. n)
  BY <1>1, <1>2, FS_Surjection
<1> QED
  BY <1>2, <1>3

\* A batch that passes the write-once check adds one key for each of its rows.
LEMMA BatchAdds ==
    ASSUME NEW mapping, NEW K, NEW keys \in Seq(K), Fresh(mapping, keys)
    PROVE  /\ \A i, j \in 1 .. Len(keys) : keys[i] = keys[j] => i = j
           /\ \A k : k \in Written(mapping, keys) \ mapping
                      <=> \E i \in 1 .. Len(keys) : k = keys[i]
           /\ Cardinality(Written(mapping, keys) \ mapping) = Len(keys)
<1> DEFINE n == Len(keys)
<1>2. ASSUME NEW i \in 1 .. n
      PROVE  keys[i] \notin mapping /\ \A j \in 1 .. i - 1 : keys[i] # keys[j]
  <2>1. keys[i] \notin mapping \cup {keys[j] : j \in 1 .. i - 1}
    BY <1>2 DEF Fresh
  <2> QED
    BY <2>1
<1>3. ASSUME NEW i \in 1 .. n, NEW j \in 1 .. n, keys[i] = keys[j] PROVE i = j
  <2>1. i = j \/ i \in 1 .. j - 1 \/ j \in 1 .. i - 1
    BY <1>3
  <2> QED
    BY <1>2, <1>3, <2>1
<1>4. Written(mapping, keys) \ mapping = {keys[i] : i \in 1 .. n}
  BY <1>2 DEF Written
<1>5. Cardinality({keys[i] : i \in 1 .. n}) = n
  BY <1>3, RowsCounted
<1> QED
  BY <1>3, <1>4, <1>5

\* A settlement mints one pair of receipts for each row: anchors tell them apart.
LEMMA SettleMints ==
    ASSUME IInv, NEW employer \in Wallet, NEW ws \in Seq(WorkerPayArgs), Settle(employer, ws)
    PROVE  /\ \A r : r \in receipts' \ receipts
                      <=> \E i \in 1 .. Len(ws) : r = Pair(KIND_PAYSTUB, employer, ws[i])
           /\ \A i, j \in 1 .. Len(ws) :
                  Pair(KIND_PAYSTUB, employer, ws[i]) = Pair(KIND_PAYSTUB, employer, ws[j])
                      => i = j
<1> DEFINE rows == 1 .. Len(ws)
           pair == [i \in rows |-> Pair(KIND_PAYSTUB, employer, ws[i])]
<1>0. Len(ws) \in Nat /\ \A i \in rows : ws[i] \in WorkerPayArgs
  OBVIOUS
<1>1. /\ \A i, j \in rows : AnchorsOf(ws)[i] = AnchorsOf(ws)[j] => i = j
      /\ \A i \in rows : AnchorsOf(ws)[i] \notin receipt_anchor_height
  <2>1. AnchorsOf(ws) \in Seq(Anchor) /\ Len(AnchorsOf(ws)) = Len(ws)
    BY <1>0 DEF AnchorsOf, WorkerPayArgs
  <2>2. Fresh(receipt_anchor_height, AnchorsOf(ws))
    BY DEF Settle, MintReceipts
  <2> DEFINE keys == AnchorsOf(ws)
  <2>3. /\ \A i, j \in 1 .. Len(keys) : keys[i] = keys[j] => i = j
        /\ \A k : k \in Written(receipt_anchor_height, keys) \ receipt_anchor_height
                   <=> \E i \in 1 .. Len(keys) : k = keys[i]
    <3> HIDE DEF keys
    <3> QED
      BY <2>1, <2>2, BatchAdds DEF keys
  <2> QED
    BY <2>1, <2>3
<1>2. \A i \in rows : /\ pair[i].receipt_anchor = AnchorsOf(ws)[i]
                      /\ AnchorsOf(ws)[i] \notin receipt_anchor_height
  BY <1>1 DEF Pair, AnchorsOf
<1>3. receipts' = receipts \cup {pair[i] : i \in rows}
  BY DEF Settle, MintReceipts, Pairs
<1>4. \A i \in rows : pair[i] \notin receipts
  <2>1. \A r \in receipts : r.receipt_anchor \in receipt_anchor_height
    BY DEF IInv, AnchorsIdentifyReceipts
  <2> QED
    BY <1>2, <2>1
<1>5. \A i, j \in rows : pair[i] = pair[j] => i = j
  BY <1>1, <1>2
<1> QED
  BY <1>3, <1>4, <1>5

\* The circuit and the final block treat every row alike.
LEMMA SettleIsWhole ==
    ASSUME IInv, NEW employer \in Wallet, NEW ws \in Seq(WorkerPayArgs), Settle(employer, ws)
    PROVE  Whole
<1> DEFINE rows == 1 .. Len(ws)
           pair == [i \in rows |-> Pair(KIND_PAYSTUB, employer, ws[i])]
           minted == receipts' \ receipts
           paid == paid_epoch' \ paid_epoch
<1>0. Len(ws) \in Nat /\ \A i \in rows : ws[i] \in WorkerPayArgs
  OBVIOUS
<1>1. minted = {pair[i] : i \in rows} /\ \A i, j \in rows : pair[i] = pair[j] => i = j
  BY SettleMints
<1>2. /\ \A k : k \in paid <=> \E i \in rows : k = KeysOf(ws)[i]
      /\ Cardinality(paid) = Len(ws)
  <2>1. KeysOf(ws) \in Seq(PaidEpochKey) /\ Len(KeysOf(ws)) = Len(ws)
    BY <1>0 DEF KeysOf, KeyOf, PaidEpochKey, WorkerPayArgs
  <2>2. Fresh(paid_epoch, KeysOf(ws)) /\ paid_epoch' = Written(paid_epoch, KeysOf(ws))
    BY DEF Settle
  <2> DEFINE keys == KeysOf(ws)
  <2>3. /\ \A k : k \in Written(paid_epoch, keys) \ paid_epoch
                   <=> \E i \in 1 .. Len(keys) : k = keys[i]
        /\ Cardinality(Written(paid_epoch, keys) \ paid_epoch) = Len(keys)
    <3> HIDE DEF keys
    <3> QED
      BY <2>1, <2>2, BatchAdds DEF keys
  <2> QED
    BY <2>1, <2>2, <2>3
<1>3. Cardinality(audit_event_height' \ audit_event_height) = Len(ws)
  <2>1. EventsOf(ws) \in Seq(Event) /\ Len(EventsOf(ws)) = Len(ws)
    BY <1>0 DEF EventsOf, WorkerPayArgs
  <2>2. /\ Fresh(audit_event_height, EventsOf(ws))
        /\ audit_event_height' = Written(audit_event_height, EventsOf(ws))
    BY DEF Settle, AnchorEvents
  <2> QED
    BY <2>1, <2>2, BatchAdds
<1>4. \A i \in rows : /\ pair[i].kind = KIND_PAYSTUB
                      /\ pair[i].agreement_id = ws[i].agreement_id
                      /\ pair[i].epoch_id = ws[i].epoch_id
  BY DEF Pair
<1>6. Cardinality(minted) = Len(ws)
  <2>1. pair \in Seq({pair[i] : i \in rows}) /\ Len(pair) = Len(ws)
    BY <1>0
  <2> HIDE DEF pair, minted
  <2> QED
    BY <1>1, <2>1, RowsCounted
<1>7. paid = {[agreement_id |-> r.agreement_id, epoch_id |-> r.epoch_id] : r \in minted}
  <2>1. \A i \in rows : KeysOf(ws)[i]
            = [agreement_id |-> pair[i].agreement_id, epoch_id |-> pair[i].epoch_id]
    BY <1>4 DEF KeysOf, KeyOf
  <2>2. \A m : m \in minted <=> \E i \in rows : m = pair[i]
    BY <1>1
  <2> HIDE DEF pair, minted, paid
  <2>3. \A k \in paid :
            \E m \in minted : k = [agreement_id |-> m.agreement_id, epoch_id |-> m.epoch_id]
    <3> SUFFICES ASSUME NEW k \in paid
                 PROVE  \E m \in minted :
                            k = [agreement_id |-> m.agreement_id, epoch_id |-> m.epoch_id]
      OBVIOUS
    <3>1. PICK i \in rows : k = KeysOf(ws)[i]
      BY <1>2
    <3>2. pair[i] \in minted
      BY <2>2
    <3> QED
      BY <2>1, <3>1, <3>2
  <2>4. ASSUME NEW m \in minted
        PROVE  [agreement_id |-> m.agreement_id, epoch_id |-> m.epoch_id] \in paid
    <3>1. PICK i \in rows : m = pair[i]
      BY <2>2
    <3>2. KeysOf(ws)[i] \in paid
      BY <1>2
    <3> QED
      BY <2>1, <3>1, <3>2
  <2> QED
    BY <2>3, <2>4
<1>8. \A r \in minted : r.kind = KIND_PAYSTUB /\ phase[r.agreement_id] = "active"
  <2>1. \A i \in rows : phase[ws[i].agreement_id] = "active"
    BY DEF Settle, AgreementsActive
  <2> HIDE DEF pair, minted
  <2> QED
    BY <1>1, <1>4, <2>1
<1> QED
  BY <1>2, <1>3, <1>6, <1>7, <1>8 DEF Whole

\* A transaction that moves money and mints receipts is one of the two of the core.
LEMMA SettledByCore ==
    ASSUME [Next]_vars, Settled
    PROVE  CoreStep
<1>1. ~AgreementStep /\ ~UNCHANGED vars
  BY DEF AgreementStep, vars, payrollVars, tokenVars, Settled
<1>2. ~DirectStep
  BY DEF DirectStep, transfer_private, mint_paystub_receipts, mint_reversal_receipts, DirectMint,
         anchor_event, receiptVars, tokenVars, Settled
<1> QED
  BY <1>1, <1>2 DEF Next

\* So it settles its rows as a whole.
LEMMA SettlementStep ==
    ASSUME IInv, [Next]_vars, Settled
    PROVE  Whole
<1>1. CoreStep
  BY SettledByCore
<1>2. PICK employer \in Wallet, ws \in Seq(WorkerPayArgs) : Settle(employer, ws)
  <2>1. \A w, w2 \in WorkerPayArgs :
            <<w>> \in Seq(WorkerPayArgs) /\ <<w, w2>> \in Seq(WorkerPayArgs)
    OBVIOUS
  <2> QED
    BY <1>1, <2>1 DEF CoreStep, execute_payroll, execute_payroll_batch_2
<1> QED
  BY <1>2, SettleIsWhole

\* execute_payroll and execute_payroll_batch_2 settle as a whole: money moves together
\* with a paystub, an audit event and a paid epoch for every row, on active agreements.
THEOREM SettlementsWhole == Spec => SettlementIsWhole
<1>1. IInv /\ [Next]_vars => [Settled => Whole]_vars
  BY SettlementStep
<1> QED
  BY <1>1, Invariance, PTL DEF Spec, SettlementIsWhole, Whole

----------------------------------------------------------------------------
(***************************************************************************)
(* The value of the records.                                               *)
(***************************************************************************)
\* The amounts that the sums of the model add up, as functions.
amountOf == [t \in Token |-> t.amount]
heldBy(w) == [t \in Token |-> IF t.owner = w THEN t.amount ELSE 0]

LEMMA AmountTypes ==
    amountOf \in [Token -> Int] /\ \A w : heldBy(w) \in [Token -> Int]
BY DEF amountOf, heldBy, Token

LEMMA TotalSum ==
    ASSUME NEW ts \in SUBSET Token
    PROVE  Total(ts) = SumOver(amountOf, ts)
<1> DEFINE pick(s) == CHOOSE t \in s : TRUE
           byField(iter) == iter = [s \in SUBSET ts |->
               IF s = {} THEN 0 ELSE pick(s).amount + iter[s \ {pick(s)}]]
           byFunction(iter) == iter = [s \in SUBSET ts |->
               IF s = {} THEN 0 ELSE amountOf[pick(s)] + iter[s \ {pick(s)}]]
<1>1. \A s \in SUBSET ts : s # {} => amountOf[pick(s)] = pick(s).amount
  BY DEF amountOf
<1>2. \A iter : byField(iter) <=> byFunction(iter)
  <2> SUFFICES ASSUME NEW iter PROVE byField(iter) <=> byFunction(iter)
    OBVIOUS
  <2> QED
    BY <1>1
<1>3. (CHOOSE iter : byField(iter)) = (CHOOSE iter : byFunction(iter))
  <2> HIDE DEF byField, byFunction
  <2> QED
    BY <1>2
<1>4. SumOver(amountOf, ts) = (CHOOSE iter : byFunction(iter))[ts]
  BY DEF SumOver, MapThenSumSet, MapThenFoldSet
<1>5. Total(ts) = (CHOOSE iter : byField(iter))[ts]
  BY DEF Total, MapThenSumSet, MapThenFoldSet
<1> QED
  BY <1>3, <1>4, <1>5

LEMMA HoldingSum ==
    ASSUME NEW ts \in SUBSET Token, IsFiniteSet(ts), NEW w
    PROVE  Holding(ts, w) = SumOver(heldBy(w), ts)
<1> DEFINE his == {t \in ts : t.owner = w}
<1>1. Holding(ts, w) = SumOver(amountOf, his)
  <2>1. his \in SUBSET Token
    OBVIOUS
  <2> HIDE DEF his
  <2>2. Total(his) = SumOver(amountOf, his)
    BY <2>1, TotalSum
  <2> QED
    BY <2>2 DEF Holding, his
<1>2. /\ his \in SUBSET ts
      /\ \A t \in his : amountOf[t] = heldBy(w)[t]
      /\ \A t \in ts \ his : heldBy(w)[t] = 0
  BY DEF amountOf, heldBy
<1>3. SumOver(amountOf, his) = SumOver(heldBy(w), ts)
  <2> DEFINE held == heldBy(w)
  <2>1. amountOf \in [Token -> Int] /\ held \in [Token -> Int]
    BY AmountTypes
  <2>2. /\ \A t \in his : amountOf[t] = held[t]
        /\ \A t \in ts \ his : held[t] = 0
    BY <1>2
  <2> HIDE DEF his, held
  <2>3. SumOver(amountOf, his) = SumOver(held, ts)
    BY <1>2, <2>1, <2>2, SumPart
  <2> QED
    BY <2>3 DEF held
<1> QED
  BY <1>1, <1>3

\* The records a transfer makes are new, so that for any amounts it takes one out of the
\* sum and puts two in.
LEMMA TransferSum ==
    ASSUME NEW ts \in SUBSET Token, IsFiniteSet(ts), NEW n \in Nat, \A k \in ts : k.id < n,
           NEW t \in ts, NEW to \in Wallet, NEW amount \in Nat, t.amount >= amount,
           NEW f \in [Token -> Int]
    PROVE  /\ IsFiniteSet(Transferred(ts, t, to, amount, n))
           /\ \A k \in Transferred(ts, t, to, amount, n) : k.id <= n
           /\ SumOver(f, ts) \in Int
           /\ SumOver(f, Transferred(ts, t, to, amount, n))
                 = SumOver(f, ts) - f[t] + f[Payment(t, to, amount, n)] + f[Change(t, amount, n)]
<1> DEFINE payment == Payment(t, to, amount, n)
           change == Change(t, amount, n)
           rest == ts \ {t}
           paid == rest \cup {payment}
<1>1. payment \in Token /\ change \in Token
  <2>1. Transferred(ts, t, to, amount, n) \subseteq Token
    BY TransferTypes
  <2> QED
    BY <2>1 DEF Transferred
<1>2. payment.id = n /\ change.id = n /\ payment # change
  BY DEF Payment, Change
<1>3. rest \in SUBSET Token /\ IsFiniteSet(rest) /\ payment \notin rest
  BY <1>2, FS_Subset
<1>4. change \notin paid /\ Transferred(ts, t, to, amount, n) = paid \cup {change}
  BY <1>2 DEF Transferred
<1>5. t \in Token /\ \A k \in ts : k.id \in Nat
  BY DEF Token
<1> HIDE DEF payment, change
<1>6. paid \in SUBSET Token /\ IsFiniteSet(paid)
  BY <1>1, <1>3, FS_AddElement
<1>7. SumOver(f, ts) = f[t] + SumOver(f, rest) /\ SumOver(f, rest) \in Int
  BY <1>3, SumRemove, SumInt
<1>8. SumOver(f, paid) = f[payment] + SumOver(f, rest)
  BY <1>1, <1>3, SumAdd
<1>9. SumOver(f, paid \cup {change}) = f[change] + SumOver(f, paid)
  <2> HIDE DEF paid
  <2> QED
    BY <1>1, <1>4, <1>6, SumAdd
<1>10. IsFiniteSet(paid \cup {change})
  BY <1>6, FS_AddElement
<1>11. \A k \in paid \cup {change} : k.id <= n
  BY <1>2, <1>5
<1>12. f[t] \in Int /\ f[payment] \in Int /\ f[change] \in Int
  BY <1>1, <1>5
<1> HIDE DEF rest, paid
<1>13. SumOver(f, paid \cup {change}) = SumOver(f, ts) - f[t] + f[payment] + f[change]
  BY <1>7, <1>8, <1>9, <1>12
<1>14. SumOver(f, ts) \in Int
  BY <1>7, <1>12
<1> QED
  BY <1>4, <1>10, <1>11, <1>13, <1>14 DEF payment, change

\* A transfer keeps the total, and moves its amount from the owner to the recipient.
LEMMA TransferMoves ==
    ASSUME NEW ts \in SUBSET Token, IsFiniteSet(ts), NEW n \in Nat, \A k \in ts : k.id < n,
           NEW t \in ts, NEW to \in Wallet, NEW amount \in Nat, t.amount >= amount
    PROVE  LET new == Transferred(ts, t, to, amount, n)
           IN  /\ Total(new) = Total(ts)
               /\ \A w \in Wallet :
                      /\ Holding(ts, w) \in Int
                      /\ Holding(new, w) = Holding(ts, w)
                             + (IF w = Recipient(t, to) THEN amount ELSE 0)
                             - (IF w = t.owner THEN amount ELSE 0)
<1> DEFINE new == Transferred(ts, t, to, amount, n)
           payment == Payment(t, to, amount, n)
           change == Change(t, amount, n)
<1>1. new \in SUBSET Token /\ IsFiniteSet(new)
  BY TransferTypes, TransferSum, AmountTypes
<1>2. t \in Token /\ payment \in Token /\ change \in Token /\ t.amount \in Nat
  BY <1>1 DEF Transferred, Token
<1>3. /\ payment.amount = amount /\ change.amount = t.amount - amount
      /\ payment.owner = Recipient(t, to) /\ change.owner = t.owner
  BY DEF Payment, Change
<1>4. Total(new) = Total(ts)
  <2>1. SumOver(amountOf, new) = SumOver(amountOf, ts) - amountOf[t]
            + amountOf[payment] + amountOf[change]
        /\ SumOver(amountOf, ts) \in Int
    BY TransferSum, AmountTypes
  <2>2. amountOf[t] = t.amount /\ amountOf[payment] = amount
        /\ amountOf[change] = t.amount - amount
    BY <1>2, <1>3 DEF amountOf
  <2> HIDE DEF new
  <2>3. Total(new) = SumOver(amountOf, new) /\ Total(ts) = SumOver(amountOf, ts)
    BY <1>1, TotalSum
  <2> QED
    BY <1>2, <2>1, <2>2, <2>3
<1>5. ASSUME NEW w \in Wallet
      PROVE  /\ Holding(ts, w) \in Int
             /\ Holding(new, w) = Holding(ts, w)
                    + (IF w = Recipient(t, to) THEN amount ELSE 0)
                    - (IF w = t.owner THEN amount ELSE 0)
  <2> DEFINE held == heldBy(w)
  <2>1. held \in [Token -> Int]
    BY AmountTypes
  <2>2. /\ held[t] = IF w = t.owner THEN t.amount ELSE 0
        /\ held[payment] = IF w = Recipient(t, to) THEN amount ELSE 0
        /\ held[change] = IF w = t.owner THEN t.amount - amount ELSE 0
    BY <1>2, <1>3 DEF heldBy
  <2>3. Holding(ts, w) = SumOver(held, ts)
    BY HoldingSum
  <2>4. Holding(new, w) = SumOver(held, new)
    <3> HIDE DEF new
    <3> QED
      BY <1>1, HoldingSum
  <2> HIDE DEF held
  <2>5. SumOver(held, new) = SumOver(held, ts) - held[t] + held[payment] + held[change]
        /\ SumOver(held, ts) \in Int
    BY <2>1, TransferSum
  <2> HIDE DEF new, payment, change
  <2> QED
    BY <1>2, <2>2, <2>3, <2>4, <2>5
<1> QED
  BY <1>4, <1>5

\* The records on chain are finitely many, and none carries a transfer yet to come.
RecordsKnown == IsFiniteSet(tokens) /\ \A k \in tokens : k.id <= transfers

\* The inductive invariant of the value.
SupplyHeld == Total(tokens) = SumOver(Supply, Wallet)
VInv == IInv /\ RecordsKnown /\ SupplyHeld

\* The change in what a wallet holds when t pays amount to the address to.
Moved(w, t, to, amount) ==
    (IF w = Recipient(t, to) THEN amount ELSE 0) - (IF w = t.owner THEN amount ELSE 0)

\* One transfer, by itself or in a settlement of one row.
LEMMA OneTransfer ==
    ASSUME IInv, RecordsKnown, NEW t \in tokens, NEW to \in Wallet, NEW amount \in Nat,
           t.amount >= amount,
           tokens' = Transferred(tokens, t, to, amount, transfers + 1),
           transfers' = transfers + 1
    PROVE  /\ RecordsKnown' /\ Total(tokens') = Total(tokens) /\ t \notin tokens'
           /\ \A w \in Wallet :
                 /\ Holding(tokens, w) \in Int
                 /\ Holding(tokens', w) = Holding(tokens, w) + Moved(w, t, to, amount)
<1> DEFINE n == transfers + 1
<1>1. tokens \in SUBSET Token /\ n \in Nat /\ \A k \in tokens : k.id \in Nat /\ k.id < n
  BY DEF IInv, TypeOK, RecordsKnown, Token
<1>2. IsFiniteSet(tokens)
  BY DEF RecordsKnown
<1>3. tokens' = Transferred(tokens, t, to, amount, n) /\ transfers' = n
  OBVIOUS
<1>4. t \notin tokens'
  <2>1. t.id < n /\ Payment(t, to, amount, n).id = n /\ Change(t, amount, n).id = n
    BY <1>1 DEF Payment, Change
  <2> QED
    BY <1>1, <1>3, <2>1 DEF Transferred
<1> HIDE DEF n
<1>5. RecordsKnown'
  <2>1. IsFiniteSet(Transferred(tokens, t, to, amount, n))
        /\ \A k \in Transferred(tokens, t, to, amount, n) : k.id <= n
    BY <1>1, <1>2, TransferSum, AmountTypes
  <2> QED
    BY <1>3, <2>1 DEF RecordsKnown
<1>6. /\ Total(tokens') = Total(tokens)
      /\ \A w \in Wallet : /\ Holding(tokens, w) \in Int
                           /\ Holding(tokens', w) = Holding(tokens, w)
                                  + (IF w = Recipient(t, to) THEN amount ELSE 0)
                                  - (IF w = t.owner THEN amount ELSE 0)
  BY <1>1, <1>2, <1>3, TransferMoves
<1> QED
  BY <1>4, <1>5, <1>6 DEF Moved

\* Two transfers, the second of the change of the first.
LEMMA TwoTransfers ==
    ASSUME IInv, RecordsKnown, NEW t \in tokens, NEW employer \in Wallet,
           NEW v \in WorkerPayArgs, NEW w \in WorkerPayArgs,
           execute_payroll_batch_2(t, employer, v, w)
    PROVE  /\ RecordsKnown' /\ Total(tokens') = Total(tokens) /\ t \notin tokens'
           /\ \A x \in Wallet :
                  /\ Holding(tokens, x) \in Int
                  /\ Holding(tokens', x) = Holding(tokens, x)
                         + Moved(x, t, v.worker_addr, v.net_amount)
                         + Moved(x, t, w.worker_addr, w.net_amount)
<1> DEFINE n == transfers + 1
           m == transfers + 2
           remainder == Change(t, v.net_amount, n)
           first == Transferred(tokens, t, v.worker_addr, v.net_amount, n)
<1>1. /\ tokens \in SUBSET Token /\ n \in Nat /\ m \in Nat /\ n < m
      /\ \A k \in tokens : k.id \in Nat /\ k.id < n
  BY DEF IInv, TypeOK, RecordsKnown, Token
<1>2. IsFiniteSet(tokens)
  BY DEF RecordsKnown
<1>3. /\ t.amount >= v.net_amount /\ remainder.amount >= w.net_amount
      /\ tokens' = Transferred(first, remainder, w.worker_addr, w.net_amount, m)
      /\ transfers' = m
  BY DEF execute_payroll_batch_2
<1>4. /\ v.worker_addr \in Wallet /\ v.net_amount \in Nat
      /\ w.worker_addr \in Wallet /\ w.net_amount \in Nat
  BY PayrollAssumption DEF WorkerPayArgs
<1>5. remainder \in first /\ remainder.owner = t.owner /\ first \in SUBSET Token
  BY <1>1, <1>3, <1>4, TransferTypes DEF Transferred, Change
<1>6. t \notin tokens'
  <2>1. t.id < n /\ Payment(t, v.worker_addr, v.net_amount, n).id = n /\ remainder.id = n
        /\ Payment(remainder, w.worker_addr, w.net_amount, m).id = m
        /\ Change(remainder, w.net_amount, m).id = m
    BY <1>1 DEF Payment, Change
  <2>2. t \notin first
    BY <1>1, <2>1 DEF Transferred
  <2>3. t.id # m
    BY <1>1, <2>1
  <2> QED
    BY <1>3, <2>1, <2>2, <2>3 DEF Transferred
<1> HIDE DEF n, m, remainder
<1>7. /\ IsFiniteSet(first) /\ \A k \in first : k.id <= n
      /\ Total(first) = Total(tokens)
  BY <1>1, <1>2, <1>3, <1>4, TransferSum, TransferMoves, AmountTypes
<1>8. \A x \in Wallet : /\ Holding(tokens, x) \in Int
                        /\ Holding(first, x) = Holding(tokens, x)
                               + Moved(x, t, v.worker_addr, v.net_amount)
  <2>1. \A x \in Wallet : /\ Holding(tokens, x) \in Int
                          /\ Holding(first, x) = Holding(tokens, x)
                                 + (IF x = Recipient(t, v.worker_addr) THEN v.net_amount ELSE 0)
                                 - (IF x = t.owner THEN v.net_amount ELSE 0)
    BY <1>1, <1>2, <1>3, <1>4, TransferMoves
  <2> HIDE DEF first
  <2> QED
    BY <1>4, <2>1 DEF Moved
<1> HIDE DEF first
<1>9. \A k \in first : k.id < m
  BY <1>1, <1>5, <1>7 DEF Token
<1>10. RecordsKnown'
  <2>1. IsFiniteSet(Transferred(first, remainder, w.worker_addr, w.net_amount, m))
        /\ \A k \in Transferred(first, remainder, w.worker_addr, w.net_amount, m) : k.id <= m
    BY <1>1, <1>3, <1>4, <1>5, <1>7, <1>9, TransferSum, AmountTypes
  <2> QED
    BY <1>3, <2>1 DEF RecordsKnown
<1>11. /\ Total(tokens') = Total(first)
       /\ \A x \in Wallet :
             Holding(tokens', x) = Holding(first, x)
                 + (IF x = Recipient(remainder, w.worker_addr) THEN w.net_amount ELSE 0)
                 - (IF x = remainder.owner THEN w.net_amount ELSE 0)
  <2>1. /\ first \in SUBSET Token /\ IsFiniteSet(first) /\ m \in Nat /\ \A k \in first : k.id < m
        /\ remainder \in first /\ w.worker_addr \in Wallet /\ w.net_amount \in Nat
        /\ remainder.amount >= w.net_amount
    BY <1>1, <1>3, <1>4, <1>5, <1>7, <1>9
  <2> DEFINE new == Transferred(first, remainder, w.worker_addr, w.net_amount, m)
  <2>2. tokens' = new
    BY <1>3
  <2>3. /\ Total(new) = Total(first)
        /\ \A x \in Wallet :
              Holding(new, x) = Holding(first, x)
                  + (IF x = Recipient(remainder, w.worker_addr) THEN w.net_amount ELSE 0)
                  - (IF x = remainder.owner THEN w.net_amount ELSE 0)
    <3> HIDE DEF first, remainder, m
    <3> QED
      BY <2>1, TransferMoves
  <2> HIDE DEF new
  <2> QED
    BY <2>2, <2>3
<1>12. Recipient(remainder, w.worker_addr) = Recipient(t, w.worker_addr)
  BY <1>5 DEF Recipient
<1>13. \A x \in Wallet : Holding(tokens', x) = Holding(tokens, x)
                             + Moved(x, t, v.worker_addr, v.net_amount)
                             + Moved(x, t, w.worker_addr, w.net_amount)
  <2> SUFFICES ASSUME NEW x \in Wallet
               PROVE  Holding(tokens', x) = Holding(tokens, x)
                          + Moved(x, t, v.worker_addr, v.net_amount)
                          + Moved(x, t, w.worker_addr, w.net_amount)
    OBVIOUS
  <2>1. Holding(tokens', x) = Holding(first, x)
            + (IF x = Recipient(t, w.worker_addr) THEN w.net_amount ELSE 0)
            - (IF x = t.owner THEN w.net_amount ELSE 0)
    BY <1>5, <1>11, <1>12
  <2>2. Holding(first, x) = Holding(tokens, x) + Moved(x, t, v.worker_addr, v.net_amount)
        /\ Holding(tokens, x) \in Int
    BY <1>8
  <2>3. Moved(x, t, v.worker_addr, v.net_amount) \in Int
    BY <1>4 DEF Moved
  <2> QED
    BY <1>4, <2>1, <2>2, <2>3 DEF Moved
<1> QED
  BY <1>6, <1>7, <1>8, <1>10, <1>11, <1>13

\* Every step keeps the records known and the value.
LEMMA ValueStep == VInv /\ [Next]_vars => RecordsKnown' /\ Total(tokens') = Total(tokens)
<1> SUFFICES ASSUME VInv, [Next]_vars
             PROVE  RecordsKnown' /\ Total(tokens') = Total(tokens)
  OBVIOUS
<1>1. CASE UNCHANGED tokenVars
  BY <1>1 DEF VInv, RecordsKnown, tokenVars
<1>2. ASSUME NEW t \in tokens, NEW employer \in Wallet, NEW w \in WorkerPayArgs,
             execute_payroll(t, employer, w)
      PROVE  RecordsKnown' /\ Total(tokens') = Total(tokens)
  <2>1. w.worker_addr \in Wallet /\ w.net_amount \in Nat
    BY PayrollAssumption DEF WorkerPayArgs
  <2> QED
    BY <1>2, <2>1, OneTransfer DEF VInv, execute_payroll
<1>3. ASSUME NEW t \in tokens, NEW employer \in Wallet, NEW w \in WorkerPayArgs,
             NEW w2 \in WorkerPayArgs, execute_payroll_batch_2(t, employer, w, w2)
      PROVE  RecordsKnown' /\ Total(tokens') = Total(tokens)
  BY <1>3, TwoTransfers DEF VInv
<1>4. ASSUME NEW t \in tokens, NEW to \in Wallet, NEW amount \in Amount,
             transfer_private(t, to, amount)
      PROVE  RecordsKnown' /\ Total(tokens') = Total(tokens)
  <2>1. amount \in Nat
    BY PayrollAssumption
  <2> QED
    BY <1>4, <2>1, OneTransfer DEF VInv, transfer_private
<1> QED
  BY <1>1, <1>2, <1>3, <1>4 DEF Next, AgreementStep, CoreStep, DirectStep, vars, payrollVars,
     mint_paystub_receipts, mint_reversal_receipts, DirectMint, anchor_event

\* The records at the start hold what every wallet is supplied with.
LEMMA InitVInv == Init => VInv
<1> SUFFICES ASSUME Init PROVE VInv
  OBVIOUS
<1> DEFINE opening == [w \in Wallet |->
                          [id |-> 0, part |-> "change", owner |-> w, amount |-> Supply[w]]]
<1>1. IInv
  BY InitIInv
<1>2. /\ IsFiniteSet(Wallet) /\ Supply \in [Wallet -> Nat]
      /\ tokens = {opening[w] : w \in Wallet} /\ transfers = 0
      /\ tokens \in SUBSET Token
  BY <1>1, PayrollAssumption DEF Init, IInv, TypeOK
<1>3. /\ opening \in Bijection(Wallet, tokens)
      /\ \A w \in Wallet : opening[w].amount = Supply[w] /\ opening[w].id = 0
  <2>1. /\ opening \in [Wallet -> tokens]
        /\ \A w \in Wallet : opening[w].amount = Supply[w] /\ opening[w].id = 0
                             /\ opening[w].owner = w
    BY <1>2
  <2>2. \A k \in tokens : \E w \in Wallet : opening[w] = k
    BY <1>2
  <2>3. \A v, w \in Wallet : opening[v] = opening[w] => v = w
    BY <2>1
  <2> QED
    BY <2>1, <2>2, <2>3 DEF Bijection, Injection, Surjection, IsInjective
<1>4. RecordsKnown
  <2>1. IsFiniteSet(tokens)
    BY <1>2, <1>3, FS_Surjection DEF Bijection
  <2> QED
    BY <1>2, <1>3, <2>1 DEF RecordsKnown
<1>5. SupplyHeld
  <2>1. /\ amountOf \in [Token -> Int] /\ Supply \in [Wallet -> Int]
        /\ \A w \in Wallet : amountOf[opening[w]] = Supply[w]
    <3>1. \A w \in Wallet : opening[w] \in Token
      BY <1>2
    <3> QED
      BY <1>2, <1>3, <3>1, AmountTypes DEF amountOf
  <2>2. IsFiniteSet(Wallet) /\ tokens \in SUBSET Token /\ opening \in Bijection(Wallet, tokens)
    BY <1>2, <1>3
  <2> HIDE DEF opening
  <2>4. SumOver(amountOf, tokens) = SumOver(Supply, Wallet)
    BY <2>1, <2>2, SumRenamed
  <2>3. Total(tokens) = SumOver(amountOf, tokens)
    BY <1>2, TotalSum
  <2> QED
    BY <2>3, <2>4 DEF SupplyHeld
<1> QED
  BY <1>1, <1>4, <1>5 DEF VInv

LEMMA ValueInvariance == Spec => []VInv
<1>1. VInv /\ [Next]_vars => VInv'
  <2> SUFFICES ASSUME VInv, [Next]_vars PROVE VInv'
    OBVIOUS
  <2>1. IInv'
    BY AgreementKeeps, CoreKeeps, DirectKeeps, StutterKeeps DEF VInv, Next
  <2>2. RecordsKnown' /\ SupplyHeld'
    BY ValueStep DEF VInv, SupplyHeld
  <2> QED
    BY <2>1, <2>2 DEF VInv
<1> QED
  BY <1>1, InitVInv, PTL DEF Spec

\* Transfers, alone or chained in a batch, split and hand on records: whatever the number
\* of wallets and of payrolls, no USDCx is created or lost.
THEOREM ValueStays == Spec => []ValueConserved
<1>1. VInv => ValueConserved
  BY DEF VInv, SupplyHeld, SumOver, ValueConserved
<1> QED
  BY <1>1, ValueInvariance, PTL

----------------------------------------------------------------------------
\* The net amounts of receipts, and those of the receipts of one worker.
netOf == [r \in ReceiptPair |-> r.net_amount]
netTo(w) == [r \in ReceiptPair |-> IF r.worker_owner = w THEN r.net_amount ELSE 0]

NetTotal(rs) == MapThenSumSet(LAMBDA r : r.net_amount, rs)

LEMMA NetTypes == netOf \in [ReceiptPair -> Int] /\ \A w : netTo(w) \in [ReceiptPair -> Int]
<1>1. \A r \in ReceiptPair : r.net_amount \in Int
  <2>1. \A r \in ReceiptPair : r.net_amount \in Amount
    BY DEF ReceiptPair
  <2>2. \A a \in Amount : a \in Int
    BY PayrollAssumption
  <2> QED
    BY <2>1, <2>2
<1> QED
  BY <1>1 DEF netOf, netTo

LEMMA NetSum ==
    ASSUME NEW rs \in SUBSET ReceiptPair
    PROVE  NetTotal(rs) = SumOver(netOf, rs)
<1> DEFINE pick(s) == CHOOSE r \in s : TRUE
           byField(iter) == iter = [s \in SUBSET rs |->
               IF s = {} THEN 0 ELSE pick(s).net_amount + iter[s \ {pick(s)}]]
           byFunction(iter) == iter = [s \in SUBSET rs |->
               IF s = {} THEN 0 ELSE netOf[pick(s)] + iter[s \ {pick(s)}]]
<1>1. \A s \in SUBSET rs : s # {} => netOf[pick(s)] = pick(s).net_amount
  BY DEF netOf
<1>2. \A iter : byField(iter) <=> byFunction(iter)
  <2> SUFFICES ASSUME NEW iter PROVE byField(iter) <=> byFunction(iter)
    OBVIOUS
  <2> QED
    BY <1>1
<1>3. (CHOOSE iter : byField(iter)) = (CHOOSE iter : byFunction(iter))
  <2> HIDE DEF byField, byFunction
  <2> QED
    BY <1>2
<1>4. SumOver(netOf, rs) = (CHOOSE iter : byFunction(iter))[rs]
  BY DEF SumOver, MapThenSumSet, MapThenFoldSet
<1>5. NetTotal(rs) = (CHOOSE iter : byField(iter))[rs]
  BY DEF NetTotal, MapThenSumSet, MapThenFoldSet
<1> QED
  BY <1>3, <1>4, <1>5

LEMMA NetToSum ==
    ASSUME NEW rs \in SUBSET ReceiptPair, IsFiniteSet(rs), NEW w
    PROVE  NetTotal({r \in rs : r.worker_owner = w}) = SumOver(netTo(w), rs)
<1> DEFINE his == {r \in rs : r.worker_owner = w}
           net == netTo(w)
<1>1. /\ his \in SUBSET rs /\ his \in SUBSET ReceiptPair
      /\ \A r \in his : netOf[r] = net[r]
      /\ \A r \in rs \ his : net[r] = 0
  BY DEF netOf, netTo
<1>2. netOf \in [ReceiptPair -> Int] /\ net \in [ReceiptPair -> Int]
  BY NetTypes
<1> HIDE DEF his, net
<1>3. SumOver(netOf, his) = SumOver(net, rs)
  BY <1>1, <1>2, SumPart
<1>4. NetTotal(his) = SumOver(netOf, his)
  BY <1>1, NetSum
<1> QED
  BY <1>3, <1>4 DEF his, net

\* What a settlement mints adds up to what its rows say, in all and for each worker.
LEMMA NetOfOne ==
    ASSUME NEW p \in ReceiptPair
    PROVE  /\ NetTotal({p}) = p.net_amount
           /\ \A w : NetTotal({r \in {p} : r.worker_owner = w})
                        = IF p.worker_owner = w THEN p.net_amount ELSE 0
<1>1. {p} \in SUBSET ReceiptPair /\ IsFiniteSet({p})
  BY FS_Singleton
<1>2. NetTotal({p}) = p.net_amount
  <2>1. SumOver(netOf, {p}) = netOf[p]
    BY NetTypes, SumOne
  <2> QED
    BY <1>1, <2>1, NetSum DEF netOf
<1>3. ASSUME NEW w
      PROVE  NetTotal({r \in {p} : r.worker_owner = w})
                = IF p.worker_owner = w THEN p.net_amount ELSE 0
  <2> DEFINE net == netTo(w)
  <2>1. net \in [ReceiptPair -> Int]
        /\ net[p] = IF p.worker_owner = w THEN p.net_amount ELSE 0
    BY NetTypes DEF netTo
  <2>2. NetTotal({r \in {p} : r.worker_owner = w}) = SumOver(net, {p})
    BY <1>1, NetToSum
  <2> HIDE DEF net
  <2>3. SumOver(net, {p}) = net[p]
    BY <2>1, SumOne
  <2> QED
    BY <2>1, <2>2, <2>3
<1> QED
  BY <1>2, <1>3

LEMMA NetOfTwo ==
    ASSUME NEW p \in ReceiptPair, NEW q \in ReceiptPair, p # q
    PROVE  /\ NetTotal({p, q}) = p.net_amount + q.net_amount
           /\ \A w : NetTotal({r \in {p, q} : r.worker_owner = w})
                        = (IF p.worker_owner = w THEN p.net_amount ELSE 0)
                        + (IF q.worker_owner = w THEN q.net_amount ELSE 0)
<1>1. {p, q} \in SUBSET ReceiptPair /\ IsFiniteSet({p, q})
  <2>1. IsFiniteSet({p}) /\ IsFiniteSet({p} \cup {q}) /\ {p} \cup {q} = {p, q}
    BY FS_Singleton, FS_AddElement
  <2> QED
    BY <2>1
<1>2. NetTotal({p, q}) = p.net_amount + q.net_amount
  <2>1. SumOver(netOf, {p, q}) = netOf[p] + netOf[q]
    BY NetTypes, SumTwo
  <2> QED
    BY <1>1, <2>1, NetSum DEF netOf
<1>3. ASSUME NEW w
      PROVE  NetTotal({r \in {p, q} : r.worker_owner = w})
                = (IF p.worker_owner = w THEN p.net_amount ELSE 0)
                + (IF q.worker_owner = w THEN q.net_amount ELSE 0)
  <2> DEFINE net == netTo(w)
  <2>1. /\ net \in [ReceiptPair -> Int]
        /\ net[p] = IF p.worker_owner = w THEN p.net_amount ELSE 0
        /\ net[q] = IF q.worker_owner = w THEN q.net_amount ELSE 0
    BY NetTypes DEF netTo
  <2>2. NetTotal({r \in {p, q} : r.worker_owner = w}) = SumOver(net, {p, q})
    BY <1>1, NetToSum
  <2> HIDE DEF net
  <2>3. SumOver(net, {p, q}) = net[p] + net[q]
    BY <2>1, SumTwo
  <2> QED
    BY <2>1, <2>2, <2>3
<1> QED
  BY <1>2, <1>3

\* Who pays what to whom in a settlement, for the token program that gives the payment
\* to the address it is called with.
PaysWorkers ==
    LET minted == receipts' \ receipts
    IN  \E t \in tokens \ tokens' : \A w \in Wallet :
            Holding(tokens', w) + (IF w = t.owner THEN NetTotal(minted) ELSE 0)
                = Holding(tokens, w) + NetTotal({r \in minted : r.worker_owner = w})

LEMMA PairType ==
    ASSUME NEW employer \in Wallet, NEW w \in WorkerPayArgs
    PROVE  /\ Pair(KIND_PAYSTUB, employer, w) \in ReceiptPair
           /\ Pair(KIND_PAYSTUB, employer, w).net_amount = w.net_amount
           /\ Pair(KIND_PAYSTUB, employer, w).worker_owner = w.worker_addr
           /\ w.worker_addr \in Wallet /\ w.net_amount \in Nat
BY PayrollAssumption DEF Pair, WorkerPayArgs, ReceiptPair

LEMMA OnePaid ==
    ASSUME VInv, ~StubToken, NEW t \in tokens, NEW employer \in Wallet, NEW w \in WorkerPayArgs,
           execute_payroll(t, employer, w)
    PROVE  PaysWorkers
<1> DEFINE p == Pair(KIND_PAYSTUB, employer, w)
           minted == receipts' \ receipts
<1>1. /\ p \in ReceiptPair /\ p.net_amount = w.net_amount /\ p.worker_owner = w.worker_addr
      /\ w.worker_addr \in Wallet /\ w.net_amount \in Nat
  BY PairType
<1>2. minted = {p}
  <2> DEFINE ws == <<w>>
  <2>1. ws \in Seq(WorkerPayArgs) /\ Len(ws) = 1 /\ ws[1] = w /\ Settle(employer, ws)
    BY DEF execute_payroll
  <2>2. \A i : i \in 1 .. Len(ws) <=> i = 1
    BY <2>1
  <2> HIDE DEF ws
  <2>3. \A r : r \in minted <=> \E i \in 1 .. Len(ws) : r = Pair(KIND_PAYSTUB, employer, ws[i])
    BY <2>1, SettleMints DEF VInv
  <2> QED
    BY <2>1, <2>2, <2>3
<1>3. /\ t \notin tokens'
      /\ \A x \in Wallet : /\ Holding(tokens, x) \in Int
                           /\ Holding(tokens', x) = Holding(tokens, x)
                                  + Moved(x, t, w.worker_addr, w.net_amount)
  BY <1>1, OneTransfer DEF VInv, execute_payroll
<1> HIDE DEF p, minted
<1>4. ASSUME NEW x \in Wallet
      PROVE  Holding(tokens', x) + (IF x = t.owner THEN NetTotal(minted) ELSE 0)
                 = Holding(tokens, x) + NetTotal({r \in minted : r.worker_owner = x})
  <2>1. NetTotal(minted) = w.net_amount
    BY <1>1, <1>2, NetOfOne
  <2>2. NetTotal({r \in minted : r.worker_owner = x})
            = IF w.worker_addr = x THEN w.net_amount ELSE 0
    BY <1>1, <1>2, NetOfOne
  <2>3. Moved(x, t, w.worker_addr, w.net_amount)
            = (IF x = w.worker_addr THEN w.net_amount ELSE 0)
              - (IF x = t.owner THEN w.net_amount ELSE 0)
    BY DEF Moved, Recipient
  <2> QED
    BY <1>1, <1>3, <2>1, <2>2, <2>3
<1> QED
  BY <1>3, <1>4 DEF PaysWorkers, minted

LEMMA TwoPaid ==
    ASSUME VInv, ~StubToken, NEW t \in tokens, NEW employer \in Wallet, NEW v \in WorkerPayArgs,
           NEW w \in WorkerPayArgs, execute_payroll_batch_2(t, employer, v, w)
    PROVE  PaysWorkers
<1> DEFINE p == Pair(KIND_PAYSTUB, employer, v)
           q == Pair(KIND_PAYSTUB, employer, w)
           minted == receipts' \ receipts
<1>1. /\ p \in ReceiptPair /\ p.net_amount = v.net_amount /\ p.worker_owner = v.worker_addr
      /\ v.worker_addr \in Wallet /\ v.net_amount \in Nat
      /\ q \in ReceiptPair /\ q.net_amount = w.net_amount /\ q.worker_owner = w.worker_addr
      /\ w.worker_addr \in Wallet /\ w.net_amount \in Nat
  BY PairType
<1>2. minted = {p, q} /\ p # q
  <2> DEFINE ws == <<v, w>>
  <2>1. /\ ws \in Seq(WorkerPayArgs) /\ Len(ws) = 2 /\ ws[1] = v /\ ws[2] = w
        /\ Settle(employer, ws)
    BY DEF execute_payroll_batch_2
  <2>2. \A i : i \in 1 .. Len(ws) <=> i = 1 \/ i = 2
    BY <2>1
  <2> HIDE DEF ws
  <2>3. /\ \A r : r \in minted
                   <=> \E i \in 1 .. Len(ws) : r = Pair(KIND_PAYSTUB, employer, ws[i])
        /\ \A i, j \in 1 .. Len(ws) :
               Pair(KIND_PAYSTUB, employer, ws[i]) = Pair(KIND_PAYSTUB, employer, ws[j]) => i = j
    BY <2>1, SettleMints DEF VInv
  <2>4. p # q
    BY <2>1, <2>2, <2>3
  <2>5. minted = {p, q}
    BY <2>1, <2>2, <2>3
  <2> QED
    BY <2>4, <2>5
<1>3. /\ t \notin tokens'
      /\ \A x \in Wallet : /\ Holding(tokens, x) \in Int
                           /\ Holding(tokens', x) = Holding(tokens, x)
                                  + Moved(x, t, v.worker_addr, v.net_amount)
                                  + Moved(x, t, w.worker_addr, w.net_amount)
  BY TwoTransfers DEF VInv
<1> HIDE DEF p, q, minted
<1>4. ASSUME NEW x \in Wallet
      PROVE  Holding(tokens', x) + (IF x = t.owner THEN NetTotal(minted) ELSE 0)
                 = Holding(tokens, x) + NetTotal({r \in minted : r.worker_owner = x})
  <2>1. NetTotal(minted) = v.net_amount + w.net_amount
    BY <1>1, <1>2, NetOfTwo
  <2>2. NetTotal({r \in minted : r.worker_owner = x})
            = (IF v.worker_addr = x THEN v.net_amount ELSE 0)
              + (IF w.worker_addr = x THEN w.net_amount ELSE 0)
    <3>1. NetTotal({r \in {p, q} : r.worker_owner = x})
              = (IF p.worker_owner = x THEN p.net_amount ELSE 0)
              + (IF q.worker_owner = x THEN q.net_amount ELSE 0)
      BY <1>1, <1>2, NetOfTwo
    <3> QED
      BY <1>1, <1>2, <3>1
  <2>3. /\ Moved(x, t, v.worker_addr, v.net_amount)
               = (IF x = v.worker_addr THEN v.net_amount ELSE 0)
                 - (IF x = t.owner THEN v.net_amount ELSE 0)
        /\ Moved(x, t, w.worker_addr, w.net_amount)
               = (IF x = w.worker_addr THEN w.net_amount ELSE 0)
                 - (IF x = t.owner THEN w.net_amount ELSE 0)
    BY DEF Moved, Recipient
  <2> QED
    BY <1>1, <1>3, <2>1, <2>2, <2>3
<1> QED
  BY <1>3, <1>4 DEF PaysWorkers, minted

\* Every worker of a settlement receives the net amounts of its new receipts, and the
\* owner of the record that was consumed gives their sum, in batches too, also when a
\* worker is paid twice or pays itself.  The token program is the deployed one.
THEOREM WorkersPaid == ~StubToken => (Spec => WorkersArePaid)
<1> SUFFICES ASSUME ~StubToken PROVE Spec => WorkersArePaid
  OBVIOUS
<1>1. VInv /\ [Next]_vars => [Settled => PaysWorkers]_vars
  BY SettledByCore, OnePaid, TwoPaid DEF CoreStep
<1> QED
  BY <1>1, ValueInvariance, PTL DEF Spec, WorkersArePaid, PaysWorkers, NetTotal

\* With the stub of the repository a settlement pays nobody: what every wallet holds
\* stays as it was, although receipts are minted and epochs marked paid.
THEOREM StubPaysNobody ==
    StubToken =>
        (Spec => [][Settled => \A w \in Wallet :
                        Holding(tokens', w) = Holding(tokens, w)]_vars)
<1> SUFFICES ASSUME StubToken
             PROVE  Spec => [][Settled => \A w \in Wallet :
                                   Holding(tokens', w) = Holding(tokens, w)]_vars
  OBVIOUS
<1>1. ASSUME NEW x, NEW t, NEW to, NEW amount \in Nat PROVE Moved(x, t, to, amount) = 0
  BY DEF Moved, Recipient
<1>2. ASSUME VInv, NEW t \in tokens, NEW employer \in Wallet, NEW w \in WorkerPayArgs,
             execute_payroll(t, employer, w)
      PROVE  \A x \in Wallet : Holding(tokens', x) = Holding(tokens, x)
  <2>1. w.worker_addr \in Wallet /\ w.net_amount \in Nat
    BY PayrollAssumption DEF WorkerPayArgs
  <2>2. \A x \in Wallet : /\ Holding(tokens, x) \in Int
                          /\ Holding(tokens', x) = Holding(tokens, x)
                                 + Moved(x, t, w.worker_addr, w.net_amount)
    BY <1>2, <2>1, OneTransfer DEF VInv, execute_payroll
  <2> QED
    BY <1>1, <2>1, <2>2
<1>3. ASSUME VInv, NEW t \in tokens, NEW employer \in Wallet, NEW v \in WorkerPayArgs,
             NEW w \in WorkerPayArgs, execute_payroll_batch_2(t, employer, v, w)
      PROVE  \A x \in Wallet : Holding(tokens', x) = Holding(tokens, x)
  <2>1. v.net_amount \in Nat /\ w.net_amount \in Nat
    BY PayrollAssumption DEF WorkerPayArgs
  <2>2. \A x \in Wallet : /\ Holding(tokens, x) \in Int
                          /\ Holding(tokens', x) = Holding(tokens, x)
                                 + Moved(x, t, v.worker_addr, v.net_amount)
                                 + Moved(x, t, w.worker_addr, w.net_amount)
    BY <1>3, TwoTransfers DEF VInv
  <2> QED
    BY <1>1, <2>1, <2>2
<1>4. VInv /\ [Next]_vars
          => [Settled => \A w \in Wallet : Holding(tokens', w) = Holding(tokens, w)]_vars
  BY <1>2, <1>3, SettledByCore DEF CoreStep
<1> QED
  BY <1>4, ValueInvariance, PTL DEF Spec
=============================================================================
