\* Two wallets compete for one name more than either may own as an employer; one of
\* the names is the zero hash.
CONSTANTS
    Wallet = {w1, w2}
    ZERO_ADDR = ZERO_ADDR
    Name = {NoName, n1, n2, n3}
    NoName = NoName
    Program = {p1}
    ADMIN = ADMIN
    SuffixCode = {0, 7, 41}
    BasePrice = {4}
SPECIFICATION RegistrySpec
SYMMETRY Symmetry
INVARIANTS NameRecordsAgree WorkerIndexExact EmployerCountExact
PROPERTY ImplementsOwnership
CHECK_DEADLOCK FALSE
