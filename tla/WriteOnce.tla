----------------------------- MODULE WriteOnce -----------------------------
(***************************************************************************)
(* The write-once mappings of paystub_receipts, payroll_audit_log and      *)
(* payroll_core_v2: a key is set to a nonzero block height (or to true)    *)
(* at most once, and the transaction reverts when it was set before.  Only *)
(* whether a key is set matters, so a mapping is the set of its keys.      *)
(***************************************************************************)
EXTENDS Naturals, Sequences

\* Fault: every key is compared with the mapping as it was before the batch.
Fresh_ReadFirst(mapping, keys) ==
    \A i \in 1 .. Len(keys) : keys[i] \notin mapping

\* The keys of a batch are checked and set one after the other.
Fresh(mapping, keys) ==
    \A i \in 1 .. Len(keys) : keys[i] \notin mapping \cup {keys[j] : j \in 1 .. i - 1}

Written(mapping, keys) == mapping \cup {keys[i] : i \in 1 .. Len(keys)}
=============================================================================
