----------------------------- MODULE UsdcxToken ----------------------------
(***************************************************************************)
(* The interface of test_usdcx_stablecoin.aleo that the PNW programs use,  *)
(* as the stub in the repository implements it.                            *)
(***************************************************************************)
EXTENDS Addresses, Integers

VARIABLE account    \* [Wallet -> Nat], the public balances in micro-USDCx

\* Fault: both balances are read before either is written.
Transferred_ReadFirst(from, to, amount) ==
    [account EXCEPT ![from] = @ - amount, ![to] = account[to] + amount]

\* The recipient's balance is read after the sender's was written.
Transferred(from, to, amount) ==
    LET debited == [account EXCEPT ![from] = @ - amount]
    IN  [debited EXCEPT ![to] = @ + amount]

\* transfer_public and transfer_public_as_signer differ in whom they debit.
TransferPublic(from, to, amount) ==
    /\ account[from] >= amount
    /\ account' = Transferred(from, to, amount)
=============================================================================
