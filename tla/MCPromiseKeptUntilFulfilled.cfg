\* A sold name is bought and sold again before the first sale is paid for.
CONSTANTS
    Wallet = {w1, w2}
    ZERO_ADDR = ZERO_ADDR
    Name = {n1, n2}
    NoName = NoName
    Program = {p1}
    ADMIN = ADMIN
    SuffixCode = {7}
    BasePrice = {4}
SPECIFICATION RegistrySpec
PROPERTY PromiseKeptUntilFulfilled
CHECK_DEADLOCK FALSE
