----------------------------- MODULE Addresses -----------------------------
(***************************************************************************)
(* The address space the Leo programs share.                               *)
(***************************************************************************)
CONSTANTS
    Wallet,      \* the addresses that sign transactions and own records
    ZERO_ADDR    \* the sentinel for "no address"

ASSUME ZeroAssumption == ZERO_ADDR \notin Wallet
=============================================================================
