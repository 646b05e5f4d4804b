CONSTANTS
    W = 4
    Sizes = {1, 3, 5}
    MaxWrites = 5
SPECIFICATION FlowSpec
INVARIANT CreditConserved
PROPERTY WriteReturns
CHECK_DEADLOCK FALSE
