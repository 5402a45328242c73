\* Three of six receipts in every order, and every pair of documents; three NFTs,
\* of which one has the id of no successor, of two owners over one agreement;
\* every pair of documents that differ in up to four values, every pair of inputs
\* sets, and reports of up to six lines of two values: three levels, and odd ends
\* on each.
CONSTANTS
    Receipts <- OnChain
    MaxU32 = 9
    Periods <- TwoPeriods
    MaxReceipts = 3
    MaxDocs = 2
    Wallet = {p, q}
    Id = {doc1, doc2, zero}
    NoSuccessor = zero
    Agreement = {a1}
    InputsHash = {h1}
    Bounds <- TwoOrNone
    Version <- OneOrNone
    Docs <- SomeDocs
    InputsSets <- SomeSets
    MaxCommitted = 2
    LargestU32 = 2
    Line = {a, b}
    MaxLeaves = 6
SPECIFICATION DocumentsSpec
CONSTRAINT Apart
CHECK_DEADLOCK FALSE
INVARIANTS IndexIsCanonical TotalsAreExact NftsMatchStatus
INVARIANTS DocumentsAreBound InputsHashIsOfTheSet ProofsStayTrue
