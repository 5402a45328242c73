---------------------------- MODULE PayrollNfts ----------------------------
(***************************************************************************)
(* payroll_nfts_v2.aleo: the NFTs that certify payroll documents, over the *)
(* agreements and the audit log it asks at a mint.  Anybody calls it, with *)
(* any arguments.  The four mints differ in the type they write, which no  *)
(* transition reads; nor does any read the document hash and the root.     *)
(***************************************************************************)
EXTENDS Naturals, FiniteSets

CONSTANTS
    Wallet, Agreement, InputsHash,
    Id,                  \* ids of NFTs and of successors
    NoSuccessor,         \* [0u8; 32], which is an id like any other
    Bounds,              \* first and last units of periods
    Version

ASSUME NftsAssumption ==
    NoSuccessor \in Id /\ Bounds \subseteq Nat /\ Version \subseteq Nat

VARIABLES
    nft_status,          \* by id, over the ids whose anchor height is nonzero
    superseded_by,       \* by id, over the same
    nfts,                \* records not consumed yet
    agreement_status,    \* as employer_agreement_v4 has it
    audit_event_height   \* events anchored

nftVars == <<nft_status, superseded_by, nfts>>
groundVars == <<agreement_status, audit_event_height>>

Put(f, id, v) == [x \in DOMAIN f \cup {id} |-> IF x = id THEN v ELSE f[x]]

NftsInit ==
    /\ nft_status = <<>> /\ superseded_by = <<>> /\ nfts = {}
    /\ agreement_status = [a \in Agreement |-> "active"] /\ audit_event_height = {}

Unminted(id) == id \notin DOMAIN nft_status

\* The schema, the calculation and the policy have a version each.
mint_nft(caller, id, agreement_id, period_start, period_end, inputs_hash, versions) ==
    /\ period_start # 0 /\ period_end >= period_start
    /\ \A i \in 1 .. 3 : versions[i] # 0
    /\ agreement_status[agreement_id] = "active"
    /\ inputs_hash \in audit_event_height
    /\ Unminted(id)
    /\ nft_status' = Put(nft_status, id, "active")
    /\ superseded_by' = Put(superseded_by, id, NoSuccessor)
    /\ nfts' = nfts \cup {[nft_id |-> id, agreement_id |-> agreement_id, owner |-> caller]}
    /\ UNCHANGED groundVars

\* Fault: the record is shown and not consumed.
Consume_Shown(caller, nft) == nft.owner = caller /\ UNCHANGED nfts

Consume(caller, nft) == nft.owner = caller /\ nfts' = nfts \ {nft}

End(caller, nft, status) ==
    /\ Consume(caller, nft)
    /\ nft_status[nft.nft_id] = "active"
    /\ nft_status' = Put(nft_status, nft.nft_id, status)
    /\ UNCHANGED groundVars

revoke_nft(caller, nft) == End(caller, nft, "revoked") /\ UNCHANGED superseded_by

\* Any id is taken for the successor, the one that stands for none included.
mark_superseded(caller, old_nft, new_nft_id) ==
    /\ End(caller, old_nft, "superseded")
    /\ superseded_by' = Put(superseded_by, old_nft.nft_id, new_nft_id)

anchor_event(h) ==
    /\ h \notin audit_event_height
    /\ audit_event_height' = audit_event_height \cup {h}
    /\ UNCHANGED <<nftVars, agreement_status>>

\* An agreement is paused, resumed, or ended for good.
AgreementMoves(a) ==
    /\ \E to \in {"active", "paused", "ended"} :
          /\ agreement_status[a] \notin {to, "ended"}
          /\ agreement_status' = [agreement_status EXCEPT ![a] = to]
    /\ UNCHANGED <<nftVars, audit_event_height>>

NftsNext ==
    \/ \E caller \in Wallet :
          \/ \E id \in Id, a \in Agreement, first, last \in Bounds, h \in InputsHash,
                versions \in [1 .. 3 -> Version] :
                mint_nft(caller, id, a, first, last, h, versions)
          \/ \E nft \in nfts :
                \/ revoke_nft(caller, nft)
                \/ \E id \in Id : mark_superseded(caller, nft, id)
    \/ \E h \in InputsHash : anchor_event(h)
    \/ \E a \in Agreement : AgreementMoves(a)

nftsVars == <<nftVars, groundVars>>

NftsSpec == NftsInit /\ [][NftsNext]_nftsVars

----------------------------------------------------------------------------
(* Properties.                                                             *)

\* Records, status and successor tell one story: an NFT that has not ended has
\* one record with which its owner can end it, one that has ended has none, and
\* only a superseded NFT names a successor.  It need not name one: the id of no
\* successor is taken for one.
NftsMatchStatus ==
    /\ DOMAIN superseded_by = DOMAIN nft_status
    /\ \A id \in DOMAIN nft_status :
          /\ Cardinality({x \in nfts : x.nft_id = id})
                 = IF nft_status[id] = "active" THEN 1 ELSE 0
          /\ superseded_by[id] # NoSuccessor => nft_status[id] = "superseded"
=============================================================================
