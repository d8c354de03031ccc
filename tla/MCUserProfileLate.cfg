\* One instance: a read under way during a remove refills the cache after it.
SPECIFICATION Spec
CONSTANTS
    Instances = {i1}
    Requests = {r1, r2, r3}
    Ttl = 1
    MaxTime = 1
SYMMETRY Symmetry
INVARIANTS
    RemovedIsNotFound
\* Every request ends and the clock is bounded: the instance stops.
CHECK_DEADLOCK FALSE
