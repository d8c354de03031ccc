\* Four requests with one key: a response, its expiry, and three retries.
SPECIFICATION KeyedSpec
CONSTANTS
    Requests = {r1, r2, r3, r4}
    Keys = {k1}
    NoKey = NoKey
    EmptyKey = EmptyKey
    Hashes = {h1}
    Clients = {c1}
    KeyedTtl = 1
    HashTtl = 1
    MaxTime = 2
SYMMETRY Symmetry
INVARIANTS
    NoReprocessing
\* Every request ends and the clock is bounded: the instance stops.
CHECK_DEADLOCK FALSE
