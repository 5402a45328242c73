-------------------------- MODULE CanonicalEncoder --------------------------
(***************************************************************************)
(* canonical_encoder.ts: the canonical encodings of paystubs, summaries    *)
(* and inputs sets, their hashes, and the Merkle roots over their leaves.  *)
(* An encoding is the object's tag and the sequence of its typed values; a *)
(* hash is the encoding hashed.                                            *)
(***************************************************************************)
EXTENDS Integers, SequencesExt

CONSTANT LargestU32      \* largest u32

ZeroAnchor == 0          \* 64 zeros, for an audit anchor that is absent
Absent == -1             \* an optional value that is not given

---------------------------------------------------------------------------
(* Typed values.                                                           *)

Tlv(type, fields, doc) == [i \in DOMAIN fields |-> <<type, doc[fields[i]]>>]
tlvU8(fields, doc) == Tlv("u8", fields, doc)
tlvU16(fields, doc) == Tlv("u16", fields, doc)
tlvU32(fields, doc) == Tlv("u32", fields, doc)
tlvBytes32(fields, doc) == Tlv("bytes32", fields, doc)
tlvFieldStr(fields, doc) == Tlv("field", fields, doc)
tlvBigintDec(fields, doc) == Tlv("bigint", fields, doc)

encodeObject(tag, tlvs) == <<tag, tlvs>>

\* The values of the documents and of the inputs sets.
CommonFields ==
    {"schema_v", "calc_v", "policy_v", "agreement_id", "worker_name_hash", "employer_name_hash",
     "currency_code", "gross", "net", "tax", "fee", "audit_anchor", "audit_anchor_height"}
PaystubFields ==
    CommonFields \cup {"epoch_id", "payroll_inputs_hash", "receipt_anchor", "receipt_height",
                       "utc_time_hash"}
SummaryFields ==
    CommonFields \cup {"summary_type", "period_type", "period_start", "period_end", "inputs_hash"}
InputsFields ==
    {"schema_v", "calc_v", "policy_v", "agreement_id", "period_type", "period_start",
     "period_end", "currency_code", "items"}
ItemFields == {"receipt_anchor", "receipt_height", "payroll_inputs_hash", "kind"}

\* Big-endian widths and the digits of a bigint: out of range throws.
U32Fields == {"epoch_id", "receipt_height", "audit_anchor_height", "period_start",
              "period_end"}
AmountFields == <<"gross", "net", "tax", "fee">>
Encodable(doc) ==
    /\ \A f \in U32Fields \cap DOMAIN doc : doc[f] \in Nat => doc[f] <= LargestU32
    /\ \A i \in DOMAIN AmountFields : doc[AmountFields[i]] >= 0

Versions == <<"schema_v", "calc_v", "policy_v">>
Names == <<"worker_name_hash", "employer_name_hash">>

\* Fault: the height stands for the anchor, which may be set without it.
AuditAnchor_HeightOnly(doc) ==
    LET height == IF doc.audit_anchor_height = Absent THEN 0 ELSE doc.audit_anchor_height
    IN  <<<<"bytes32", ZeroAnchor>>, <<"u32", height>>>>

\* Both are optional, each on its own.
AuditAnchor(doc) ==
    LET anchor == IF doc.audit_anchor = Absent THEN ZeroAnchor ELSE doc.audit_anchor
        height == IF doc.audit_anchor_height = Absent THEN 0 ELSE doc.audit_anchor_height
    IN  <<<<"bytes32", anchor>>, <<"u32", height>>>>

---------------------------------------------------------------------------
(* Documents.                                                              *)

encodePaystubDocument(doc) ==
    encodeObject("PAYSTUB_DOC",
        tlvU16(Versions, doc)
        \o tlvBytes32(<<"agreement_id">>, doc) \o tlvU32(<<"epoch_id">>, doc)
        \o tlvFieldStr(Names, doc) \o tlvU8(<<"currency_code">>, doc)
        \o tlvBigintDec(AmountFields, doc)
        \o tlvBytes32(<<"payroll_inputs_hash", "receipt_anchor">>, doc)
        \o tlvU32(<<"receipt_height">>, doc)
        \o AuditAnchor(doc) \o tlvBytes32(<<"utc_time_hash">>, doc))

\* The period of a summary is written without its type.
encodePayrollSummaryDocument(doc) ==
    encodeObject("SUMMARY_DOC",
        tlvU16(Versions, doc)
        \o tlvU8(<<"summary_type">>, doc) \o tlvBytes32(<<"agreement_id">>, doc)
        \o tlvU32(<<"period_start", "period_end">>, doc)
        \o tlvFieldStr(Names, doc) \o tlvU8(<<"currency_code">>, doc)
        \o tlvBigintDec(AmountFields, doc) \o tlvBytes32(<<"inputs_hash">>, doc)
        \o AuditAnchor(doc))

IsPaystub(doc) == "epoch_id" \in DOMAIN doc
DocHash(doc) ==
    IF IsPaystub(doc) THEN encodePaystubDocument(doc) ELSE encodePayrollSummaryDocument(doc)

---------------------------------------------------------------------------
(* Inputs sets.                                                            *)

\* Fault: items of one block are left as they came.
Earlier_NoTieBreak(a, b) == a.receipt_height < b.receipt_height

Earlier(a, b) ==
    \/ a.receipt_height < b.receipt_height
    \/ a.receipt_height = b.receipt_height /\ a.receipt_anchor < b.receipt_anchor

\* The place of an item in a stable sort: it counts the items that come before it.
Place(items, i) ==
    1 + Cardinality({j \in DOMAIN items : \/ Earlier(items[j], items[i])
                                          \/ j < i /\ ~Earlier(items[i], items[j])})
sortInputs(items) ==
    [k \in DOMAIN items |-> items[CHOOSE i \in DOMAIN items : Place(items, i) = k]]

\* Four values an item, one item after the other.
encodeItem(it) ==
    <<<<"bytes32", it.receipt_anchor>>, <<"u32", it.receipt_height>>,
      <<"bytes32", it.payroll_inputs_hash>>, <<"u8", it.kind>>>>
encodeItems(items) ==
    [k \in 1 .. 4 * Len(items) |-> encodeItem(items[(k + 3) \div 4])[1 + ((k + 3) % 4)]]

computeInputsHash(set) ==
    LET items == sortInputs(set.items) IN
    encodeObject("INPUTS_SET",
        tlvU16(Versions, set) \o tlvBytes32(<<"agreement_id">>, set)
        \o tlvU8(<<"period_type">>, set) \o tlvU32(<<"period_start", "period_end">>, set)
        \o tlvU8(<<"currency_code">>, set) \o <<<<"u32", Len(items)>>>>
        \o encodeItems(items))

---------------------------------------------------------------------------
(* Leaves and roots.                                                       *)

Leaf(tag, label, tlvs) == encodeObject(tag, <<<<"u8", label>>>> \o tlvs)

\* Fault: the leaf of the amounts ends with the net pay.
computePaystubLeafHashes_NoDeductions(doc) ==
    LET Of(label, tlvs) ==
            Leaf("LEAF_PAYSTUB", label,
                 tlvBytes32(<<"agreement_id">>, doc) \o tlvU32(<<"epoch_id">>, doc) \o tlvs)
    IN  <<Of(1, tlvFieldStr(Names, doc)),
          Of(2, tlvU8(<<"currency_code">>, doc) \o tlvBigintDec(<<"gross", "net">>, doc)),
          Of(3, tlvBytes32(<<"payroll_inputs_hash", "receipt_anchor">>, doc)
                \o tlvU32(<<"receipt_height">>, doc)
                \o AuditAnchor(doc) \o tlvBytes32(<<"utc_time_hash">>, doc))>>

computePaystubLeafHashes(doc) ==
    LET Of(label, tlvs) ==
            Leaf("LEAF_PAYSTUB", label,
                 tlvBytes32(<<"agreement_id">>, doc) \o tlvU32(<<"epoch_id">>, doc) \o tlvs)
    IN  <<Of(1, tlvFieldStr(Names, doc)),
          Of(2, tlvU8(<<"currency_code">>, doc) \o tlvBigintDec(AmountFields, doc)),
          Of(3, tlvBytes32(<<"payroll_inputs_hash", "receipt_anchor">>, doc)
                \o tlvU32(<<"receipt_height">>, doc)
                \o AuditAnchor(doc) \o tlvBytes32(<<"utc_time_hash">>, doc))>>

computeSummaryLeafHashes(doc) ==
    LET Of(label, tlvs) ==
            Leaf("LEAF_SUMMARY", label,
                 tlvBytes32(<<"agreement_id">>, doc) \o tlvU8(<<"summary_type">>, doc) \o tlvs)
    IN  <<Of(1, tlvU32(<<"period_start", "period_end">>, doc) \o tlvFieldStr(Names, doc)),
          Of(2, tlvU8(<<"currency_code">>, doc) \o tlvBigintDec(AmountFields, doc)),
          Of(3, tlvBytes32(<<"inputs_hash">>, doc) \o AuditAnchor(doc))>>

LeafHashes(doc) ==
    IF IsPaystub(doc) THEN computePaystubLeafHashes(doc) ELSE computeSummaryLeafHashes(doc)

\* Pairs are hashed as they are; the last of an odd level is its own sibling.
NextPairs(level) ==
    [k \in 1 .. (Len(level) + 1) \div 2 |->
        <<level[2 * k - 1],
          IF 2 * k <= Len(level) THEN level[2 * k] ELSE level[2 * k - 1]>>]
merkleRootFromLeafHashes(leafHashes) ==
    LET level[k \in 0 .. Len(leafHashes)] ==
            IF k = 0 THEN leafHashes
            ELSE IF Len(level[k - 1]) = 1 THEN level[k - 1] ELSE NextPairs(level[k - 1])
    IN  level[Len(leafHashes)][1]
=============================================================================
