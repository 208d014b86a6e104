SPECIFICATION Spec
CONSTANTS
    Texts <- ShortTexts
    MaxSizes <- Limits
    Endings <- CallersEndings
    Times <- Instants
    MaxCalls = 3
    SECONDS = 2
    HOUR = 3
    HOURS = 4
    ZONE = 7
    SummerStart = 30
    SummerEnd = 70
INVARIANTS
    DetectsNonWhitespace
CHECK_DEADLOCK FALSE
