\* Four requests with one key: a response, its expiry, and a retry after it.
SPECIFICATION KeyedSpec
CONSTANTS
    Requests = {r1, r2, r3, r4}
    Keys = {k1}
    NoKey = NoKey
    EmptyKey = EmptyKey
    Hashes = {h1}
    Clients = {c1}
    KeyedTtl = 0
    HashTtl = 1
    MaxTime = 1
SYMMETRY Symmetry
INVARIANTS
    RetryReplayed
\* Every request ends and the clock is bounded: the instance stops.
CHECK_DEADLOCK FALSE
