\* Two agreements, two anchors and two events: a batch may repeat a row's
\* agreement, anchor or event, and a reversal may meet a paystub's anchor.
CONSTANTS
    e = e
    w = w
    Wallet = {e, w}
    Agreement = {a, b}
    Party = {parties}
    Epoch <- Epochs
    Amount <- Amounts
    Anchor = {x, y}
    Event = {p, q}
    Supply <- EmployerFunded
    StubToken = FALSE
    MaxTransfers = 2
SPECIFICATION Spec
SYMMETRY Symmetry
CHECK_DEADLOCK FALSE
CONSTRAINT Bounded
INVARIANTS ReceiptsAreEvidence ValueConserved
PROPERTIES SettlementIsWhole WorkersArePaid
