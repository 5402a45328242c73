\* Two wallets and three plans over one name; a plan's steps may be for different wallets and suffixes.
CONSTANTS
    Wallet = {w, v}
    ZERO_ADDR = ZERO_ADDR
    AUTHORITY = v
    w = w
    v = v
    Name = {n}
    NoName = NoName
    Program = {p}
    ADMIN = ADMIN
    SuffixCode = {0, 1, 2}
    BasePrice = {4}
    Anchor = {x, y}
    Rev = {1, 2}
    Run = {r1, r2, r3}
    NoInput = NoInput
    MaxProfiles = 3
SPECIFICATION Spec
SYMMETRY Symmetry
INVARIANTS ProfilesIntact ReportedAnchorsAreOnChain
PROPERTY EmployersAreCurrent
CHECK_DEADLOCK FALSE
