SPECIFICATION Spec
CONSTANTS
    Calls = {c1}
    Types = {avatar, aadhar}
    UploadType = avatar
    Temp = temp
    Nowhere = nowhere
    Keys = {temp, avatar}
    Setups <- KeptExtension
    MaxPuts = 2
INVARIANT
    UploadStays
CHECK_DEADLOCK FALSE
