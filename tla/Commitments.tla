---------------------------- MODULE Commitments ----------------------------
(***************************************************************************)
(* The portal commits documents and inputs sets, and proves lines of a     *)
(* report that grows.                                                      *)
(***************************************************************************)
EXTENDS CanonicalEncoder, MerkleTree, FiniteSets

CONSTANTS
    Docs,                \* documents the portal may commit
    InputsSets,          \* inputs sets it may commit
    MaxCommitted         \* bound on each kind

ASSUME CommitmentsAssumption == LargestU32 \in Nat /\ MaxCommitted \in Nat

\* Documents have the values of their type.
ASSUME DocsAssumption ==
    \A doc \in Docs :
        DOMAIN doc \in {PaystubFields, SummaryFields} /\ doc = [f \in DOMAIN doc |-> doc[f]]

\* An inputs set lists receipts, each once: an anchor is written once on chain
\* (paystub_receipts.aleo).
ASSUME InputsAssumption ==
    \A set \in InputsSets :
        /\ DOMAIN set = InputsFields /\ set.items \in Seq(ToSet(set.items))
        /\ \A it \in ToSet(set.items) :
              /\ DOMAIN it = ItemFields /\ it = [f \in ItemFields |-> it[f]]
              /\ it.receipt_anchor \in Nat /\ it.receipt_height \in Nat
        /\ \A i, j \in DOMAIN set.items :
              set.items[i].receipt_anchor = set.items[j].receipt_anchor => i = j

VARIABLES
    committed,           \* documents committed
    sets                 \* inputs sets committed

commitmentsVars == <<committed, sets, treeVars>>

CommitmentsInit == committed = {} /\ sets = {} /\ TreeInit

CommitDocument(doc) ==
    /\ Cardinality(committed) < MaxCommitted
    /\ Encodable(doc)
    /\ committed' = committed \cup {doc}
    /\ UNCHANGED <<sets, treeVars>>

CommitInputs(set) ==
    /\ Cardinality(sets) < MaxCommitted
    /\ sets' = sets \cup {set}
    /\ UNCHANGED <<committed, treeVars>>

\* Bound: reports and documents, which share no state, are taken one at a time.
CommitmentsNext ==
    \/ /\ leaves = <<>>
       /\ \/ \E doc \in Docs : CommitDocument(doc)
          \/ \E set \in InputsSets : CommitInputs(set)
    \/ /\ committed = {} /\ sets = {}
       /\ TreeNext /\ UNCHANGED <<committed, sets>>

CommitmentsSpec == CommitmentsInit /\ [][CommitmentsNext]_commitmentsVars

---------------------------------------------------------------------------
(* Properties.                                                             *)

\* The values a commitment binds: all but the period type of a summary, which
\* the encoder writes neither into the document nor into its leaves; the mint
\* writes a type of its own (payroll_nfts_v2).
Bound(doc) == DOMAIN doc \ {"period_type"}

\* A document with its optional values filled in.
Filled(doc) ==
    [doc EXCEPT !.audit_anchor = IF @ = Absent THEN ZeroAnchor ELSE @,
                !.audit_anchor_height = IF @ = Absent THEN 0 ELSE @]

\* Two documents with one hash have the same values, up to the period type of a
\* summary: no other value is left out of the encoding, no two of them can be
\* exchanged, and a paystub is no summary.
DocHashBindsDocument ==
    \A a, b \in committed : DocHash(a) = DocHash(b) =>
        /\ DOMAIN a = DOMAIN b
        /\ \A f \in Bound(a) : Filled(a)[f] = Filled(b)[f]

\* The three leaves say all that the hash binds, save the versions, which the
\* mint carries next to the root: whoever has the root can be shown no other
\* figures.
RootBindsDocument ==
    \A a, b \in committed :
        merkleRootFromLeafHashes(LeafHashes(a)) = merkleRootFromLeafHashes(LeafHashes(b)) =>
            /\ DOMAIN a = DOMAIN b
            /\ \A f \in Bound(a) \ ToSet(Versions) : Filled(a)[f] = Filled(b)[f]

\* Neither commitment of a document leaves room for another one.
DocumentsAreBound == DocHashBindsDocument /\ RootBindsDocument

Header(set) == [f \in DOMAIN set \ {"items"} |-> set[f]]

\* The inputs hash is one for all orders of the same receipts, and different
\* for different receipts, periods or versions.
InputsHashIsOfTheSet ==
    \A a, b \in sets :
        computeInputsHash(a) = computeInputsHash(b) <=>
            /\ Header(a) = Header(b)
            /\ ToSet(a.items) = ToSet(b.items) /\ Len(a.items) = Len(b.items)

\* A section of a document can be shown against the root its NFT carries
\* ("Merkle proofs over report sections/line-items (against on-chain roots)",
\* docs/ARCHITECTURE.md:48).  The root is the encoder's and the proofs are
\* merkle.ts's, which hashes pairs in a domain of its own: none verifies.
SectionsShowOnChain ==
    \A doc \in committed, i \in 1 .. 3 :
        LET leafHashes == LeafHashes(doc) IN
        verifyMerkleProof(merkleRootFromLeafHashes(leafHashes), leafHashes[i],
                          merkleProof(leafHashes, i))
=============================================================================
