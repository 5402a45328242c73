\* Three runs that share records and rows, two of them started twice.
CONSTANTS
    batch = batch
    single = single
    twice = twice
    a = a
    b = b
    h = h
    i = i
    Run = {batch, single, twice}
    Agreement = {a, b}
    Hash = {h, i}
    Workers <- SomeWorkers
    Prechecks <- SomePrechecks
    Opening <- SomeRecords
    MaxFetches <- SomeFetches
SPECIFICATION RunsSpec
CONSTRAINT Bounded
CHECK_DEADLOCK FALSE
INVARIANT PaidOnceFromRecords
PROPERTY StopsHaveCauses
