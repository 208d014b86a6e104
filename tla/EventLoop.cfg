SPECIFICATION FairSpec
CONSTANTS
    Events = {a, b}
    USEC = 2
    MaxTime = 4
    HeartBeat = 2
INVARIANTS WaitsForNextEvent SecondCoversFiring
PROPERTIES EventsFire InputServed HeartBeatTearsDown
