SPECIFICATION Spec
CONSTANTS
    Instances = {i1, i2}
    Requests = {r1, r2, r3}
    Ttl = 0
    MaxTime = 1
SYMMETRY Symmetry
INVARIANTS
    TypeOK
    ReadsFresh
    RemovedIsGone
    HitsJustified
\* Every request ends and the clock is bounded: the instance stops.
CHECK_DEADLOCK FALSE
