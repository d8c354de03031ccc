\* Two refreshes with one token.
SPECIFICATION Spec
CONSTANTS
    Requests = {r1, r2}
    Old = Old
    NoToken = NoToken
    MaxChanges = 1
SYMMETRY Symmetry
INVARIANTS
    RotationInvalidates
\* Every request ends and an account may never be registered: the instance stops.
CHECK_DEADLOCK FALSE
