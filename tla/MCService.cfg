SPECIFICATION Spec
CONSTANTS
    m1 = m1
    m2 = m2
    UpSetups <- MCUpSetups
    UpFiles <- MCUpFiles
    DirSetups <- MCDirSetups
    DirAsks <- MCDirAsks
    DirSizes <- MCDirSizes
    DirTypes = {"jpeg", "png"}
    Expiry = 1
    MaxClock = 2
    MaxPuts = 1
    FileCount = 3
    PageSize = 1
    ClSetups <- MCClSetups
    MaxFaults = 1
    Mails = {m1, m2}
    Attempts = 3
    MaxStalls = 1
    Workers = 1
    UserCount = 3
    KeyCount = 3
    Limits = {2}
    MaxChanges = 1
    RequestCount = 2
    Inputs <- MCInputs
    MaxCacheOps = 2
    MaxRowChanges = 1
    Environments <- MCEnvironments
INVARIANTS
    ServiceTypeOK
    RawCollected
    AuditAgrees
    StagedAsRuled
    WithinSigned
    
    SweepComplete
    SendsBounded
    SkipsExplained
    RepeatsExplained
    OwnDiagnostics
    CurrentRole
    ListeningReady
    LimitsAgree
PROPERTIES
    SweepEnds
    EventuallySwept
    MailSettles
    BootSettles
\* Uploads, walks and starts end, and every bound is reached: the instance stops.
CHECK_DEADLOCK FALSE
