\* Three requests of any kind on one account.
SPECIFICATION Spec
CONSTANTS
    Requests = {r1, r2, r3}
    Old = Old
    NoToken = NoToken
    MaxChanges = 1
SYMMETRY Symmetry
INVARIANTS
    LogoutEndsSession
    TokenWorks
    RemovedIsOut
    StatusEnforced
    OneAccount
PROPERTY Refines
\* Every request ends and an account may never be registered: the instance stops.
CHECK_DEADLOCK FALSE
