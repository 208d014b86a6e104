SPECIFICATION FairSpec
CONSTANTS
    INPUT_BUFFER_SIZE = 9
    SIZES = 2
    N_BYTES = 3
    E_BYTES = 2
    RSA_SIZE = 3
    PastArray <- AnySizes
    MaxOpens = 2
INVARIANTS
    KeyIsServers
    SessionKeySentOnce
    ReadyKeepsRest
    PointersLive
PROPERTIES
    StopsOnlyForBytes
CHECK_DEADLOCK FALSE
