SPECIFICATION MCSpec
CONSTANTS
    Job = {j1, j2}
    small = small
    large = large
    SupportedCtrls <- MCSupportedCtrls
    SupportedProcs <- MCSupportedProcs
    Camera <- MCCamera
    Related <- MCRelated
    Value = {v1, v2}
    Default = v1
    SizeList <- MCSizeList
    INVALID = INVALID
    Garbage = Garbage
    MaxFaults = 1
    MaxInputs = 3
INVARIANTS TypeOK ControlsExact SizesInOrder CacheAgrees
PROPERTIES SizeFresh SizesComplete AllAnswered
CHECK_DEADLOCK FALSE
