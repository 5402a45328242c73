\* Two customers and the treasury trade three names, one of them the zero hash; a name
\* costs 4 and every wallet can afford two of them at once.
CONSTANTS
    t = t
    v = v
    w = w
    p = p
    Wallet = {t, v, w}
    ZERO_ADDR = ZERO_ADDR
    AUTHORITY = t
    Name = {NoName, n1, n2}
    NoName = NoName
    Program = {p}
    ADMIN = ADMIN
    SuffixCode = {0, 7, 41}
    BasePrice = {}
    PRESIDING_DAO_TREASURY = t
    NAME_PRICE = 4
    REGISTRAR = p
    OpeningBalance = 8
SPECIFICATION RegistrarSpec
SYMMETRY Symmetry
CONSTRAINT ZeroForWorkers
INVARIANTS MoneyConserved TreasuryCoversRefunds OneNameOfEachKind
CHECK_DEADLOCK FALSE
