--------------------------- MODULE NameOwnership ---------------------------
(***************************************************************************)
(* What the other programs rely on from pnw_name_registry_v2: a .pnw name  *)
(* has at most one owner, an unclaimed name may be claimed for a wallet,   *)
(* and a claimed one may be given up.  A name never passes from one wallet *)
(* to another without being unclaimed in between, but the same name may    *)
(* belong to a different wallet later.  NameRegistry implements this, and  *)
(* says there who gives a name up.                                         *)
(***************************************************************************)
EXTENDS Addresses

CONSTANT Name    \* the name hashes

VARIABLE name_owner    \* [Name -> Wallet \cup {ZERO_ADDR}]

OwnershipTypeOK == name_owner \in [Name -> Wallet \cup {ZERO_ADDR}]

OwnershipInit == name_owner = [n \in Name |-> ZERO_ADDR]

\* An unclaimed name is registered for a wallet.
Claim(n, w) ==
    /\ name_owner[n] = ZERO_ADDR
    /\ name_owner' = [name_owner EXCEPT ![n] = w]

\* A wallet's name is given up.
GiveUp(n, w) ==
    /\ name_owner[n] = w
    /\ name_owner' = [name_owner EXCEPT ![n] = ZERO_ADDR]

\* The cross-program guard of pnw_name_registry_v2.
AssertIsOwner(n, w) == name_owner[n] = w

OwnershipNext == \E n \in Name, w \in Wallet : Claim(n, w) \/ GiveUp(n, w)

OwnershipSpec == OwnershipInit /\ [][OwnershipNext]_name_owner
=============================================================================
