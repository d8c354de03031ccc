\* Three requests with every kind of header and two payloads.
SPECIFICATION Spec
CONSTANTS
    Requests = {r1, r2, r3}
    Keys = {k1}
    NoKey = NoKey
    EmptyKey = EmptyKey
    Hashes = {h1, h2}
    Clients = {c1}
    KeyedTtl = 0
    HashTtl = 1
    MaxTime = 1
SYMMETRY Symmetry
INVARIANTS
    TypeOK
    AnswersJustified
    NoDoubleSubmit
PROPERTIES
    Refines
\* Every request ends and the clock is bounded: the instance stops.
CHECK_DEADLOCK FALSE
