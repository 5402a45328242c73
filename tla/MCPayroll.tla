----------------------------- MODULE MCPayroll -----------------------------
EXTENDS Payroll, TLC

CONSTANTS e, w

\* The second record is too small to pay a batch.
EmployerFunded == [x \in {e, w} |-> IF x = e THEN 2 ELSE 1]
Epochs == 1 .. 1
Amounts == {1}

\* Bounds of the state space.  The employer is e in every receipt, and nothing
\* is paid, minted or anchored before both agreements are offered: neither
\* restricts which transactions of a settlement may fail or follow another.
Bounded ==
    /\ \A r \in receipts : r.employer_owner = e
    /\ (\E g \in Agreement : phase[g] = "absent") =>
          transfers = 0 /\ receipts = {} /\ audit_event_height = {}

Symmetry == Permutations(Anchor) \cup Permutations(Event) \cup Permutations(Agreement)
=============================================================================
