CONSTANTS
    Plans <- MCPlans
    Timeouts = {"c"}
SPECIFICATION StreamPairSpec
INVARIANTS InOrder EofComplete OkMeansServed
PROPERTIES FrameOrder FinishGetsResult
CHECK_DEADLOCK FALSE
