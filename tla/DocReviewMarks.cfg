\* Two reviewers and no review: requests, decisions and patches alone.
SPECIFICATION Spec
CONSTANTS
    r1 = r1
    r2 = r2
    Reviewers = {r1, r2}
    Intents = {}
    Unlaned = Unlaned
    MaxVersion = 2
    MaxReviews = 0
    MaxRosters = 1
    Deciding = 2
CHECK_DEADLOCK FALSE
INVARIANT MarksComeOff
