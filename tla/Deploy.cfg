SPECIFICATION FairSpec
CONSTANTS
    LocalFiles = {"f", "g", "h"}
    basename <- SharedName
    Window = 2
    Outputs = {0, 2, 3}
    MaxEdits = 1
    MaxRuns = 3
INVARIANTS
    TypeOK
    DoneIsDeployed
PROPERTIES
    OnlyBuiltIsCopied
    CommandReturns
CHECK_DEADLOCK FALSE
