---------------------------- MODULE MCDocuments ----------------------------
(***************************************************************************)
(* Documents from receipts to NFTs: how they are built (PayrollReports),   *)
(* what their commitments bind (Commitments), and what becomes of the NFTs *)
(* minted for them (PayrollNfts).  The three share no state and are taken  *)
(* one at a time.                                                          *)
(***************************************************************************)
EXTENDS PayrollReports, PayrollNfts, MCCommitments

VARIABLE
    subject              \* the part of the three that moves

documentsVars == <<subject, reportVars, nftsVars, commitmentsVars>>

Reading(anchor, agreement, epoch, height, void, amount) ==
    [receipt_anchor |-> anchor, agreement_id |-> agreement, epoch_id |-> epoch,
     anchor_height |-> height, is_void |-> void, currency |-> "USDCX",
     revision_of_anchor |-> IF void THEN 1 ELSE 0,
     amount |-> [n \in Amounts |-> IF n = "tax" THEN 0 ELSE amount]]

\* Two receipts of one block, one that voids the first and landed before the
\* second was read, another epoch, another agreement, and a negative amount.
OnChain ==
    {Reading(1, 1, 1, 2, FALSE, 5), Reading(2, 1, 1, 2, FALSE, 3), Reading(3, 1, 1, 4, TRUE, 5),
     Reading(4, 1, 2, 3, FALSE, 2), Reading(5, 2, 1, 1, FALSE, 1), Reading(6, 2, 1, 1, FALSE, -1)}

TwoPeriods == 1 .. 2
TwoOrNone == 0 .. 2
OneOrNone == 0 .. 1

DocumentsInit ==
    /\ subject \in {"reports", "nfts", "commitments"}
    /\ ReportsInit /\ NftsInit /\ CommitmentsInit

DocumentsNext ==
    \/ /\ subject = "reports" /\ ReportsNext
       /\ UNCHANGED <<subject, nftsVars, commitmentsVars>>
    \/ /\ subject = "nfts" /\ NftsNext
       /\ UNCHANGED <<subject, reportVars, commitmentsVars>>
    \/ /\ subject = "commitments" /\ CommitmentsNext
       /\ UNCHANGED <<subject, reportVars, nftsVars>>

DocumentsSpec == DocumentsInit /\ [][DocumentsNext]_documentsVars
=============================================================================
