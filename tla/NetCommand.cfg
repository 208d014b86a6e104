SPECIFICATION Spec
CONSTANTS
    BYTE = 16
    TICKET_SIZE = 3
    Values <- MCValues
    Tails <- MCTails
INVARIANTS
    RoundTrip
    HandledIffWhole
CHECK_DEADLOCK FALSE
