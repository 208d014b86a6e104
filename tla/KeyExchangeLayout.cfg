SPECIFICATION FairSpec
CONSTANTS
    INPUT_BUFFER_SIZE = 8
    SIZES = 2
    N_BYTES = 2
    E_BYTES = 1
    RSA_SIZE = 3
    PastArray <- DeclaredLayout
    MaxOpens = 2
PROPERTIES
    ExchangeCompletes
CHECK_DEADLOCK FALSE
