SPECIFICATION Spec
CONSTANTS
    Calls = {c1, c2, c3}
    Types = {avatar, aadhar}
    UploadType = avatar
    Temp = temp
    Nowhere = nowhere
    Keys = {temp, avatar}
    Setups <- AllSetups
    MaxPuts = 2
SYMMETRY Symmetry
INVARIANTS
    TypeOK
    PublishedStays
    NeverOlder
    CommitOnce
    MissExplained
    RemoveSticks
PROPERTY
    Refines
\* Every call ends: the instance stops.
CHECK_DEADLOCK FALSE
