\* Three instances in one (Bounded).
SPECIFICATION Spec
CONSTANTS
    r1 = r1
    r2 = r2
    Reviewers = {r1, r2}
    Intents = {"change_request", "question"}
    Unlaned = Unlaned
    MaxVersion = 3
    MaxReviews = 1
    MaxRosters = 1
    Deciding = 2
CHECK_DEADLOCK FALSE
CONSTRAINT Bounded
SYMMETRY People
INVARIANTS RoundsHoldLanes 
PROPERTIES AcceptedIsApproved ClosedStays
