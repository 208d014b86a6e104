SPECIFICATION Spec
CONSTANTS
    MaxOpens = 3
    MaxPackets = 5
INVARIANTS
    NoUseAfterDelete
    PointersFollowState
    CloseIsClean
CHECK_DEADLOCK FALSE
