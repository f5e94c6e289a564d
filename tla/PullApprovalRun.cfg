SPECIFICATION Spec
CONSTANTS
    NHeads = 2
    MaxPushes = 2
    MaxAsks = 1
    MaxReviews = 1
    Overlap = 1
    MaxFiled = 1
    p1 = p1
    Deciders = {p1}
    Reviewer = Reviewer
    Nobody = Nobody
CHECK_DEADLOCK FALSE
INVARIANTS KeyFreeToRebind OneIngestedOpen HeadBound
PROPERTIES NoDecisionReopened DecisionKept
