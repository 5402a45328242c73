\* One agreement at a time is enough for its lifecycle; the names and
\* licenses change hands between the wallets.
CONSTANTS
    e = e
    w = w
    d = d
    n1 = n1
    n2 = n2
    Wallet = {e, w, d}
    ZERO_ADDR = ZERO_ADDR
    AUTHORITY = d
    DAO_ADDRESS = d
    NoCommitment = NoCommitment
    Name = {n1, n2}
    Agreement = {a1}
    PartiesKey = {k1}
    Credential = {c1}
    NoIssuer = NoIssuer
SPECIFICATION CredentialSpec
SYMMETRY Symmetry
INVARIANTS TypeOK ContractFormed KeyStaysWithParties CopiesMatchStatus NobodyIsLockedIn
PROPERTIES ImplementsLifecycle IssuedUnderAgreement
CONSTRAINT DaoUnlicensed
CHECK_DEADLOCK FALSE
