\* Two requests that race for one key.
SPECIFICATION KeyedSpec
CONSTANTS
    Requests = {r1, r2}
    Keys = {k1}
    NoKey = NoKey
    EmptyKey = EmptyKey
    Hashes = {h1}
    Clients = {c1}
    KeyedTtl = 0
    HashTtl = 1
    MaxTime = 1
SYMMETRY Symmetry
PROPERTIES
    RacersAgree
\* Every request ends and the clock is bounded: the instance stops.
CHECK_DEADLOCK FALSE
