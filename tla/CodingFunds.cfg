\* $0.004, $1, $15, $60 and, refused, $500.01 or no amount at all.
CONSTANTS
    MaxStories = 2
    Typed = {0, 4, 1000, 15000, 60000, 500010}
    MaxAttempts = 2
SPECIFICATION Spec
INVARIANTS
    SessionsWithinFunds
    CapsRiseTogether
    HardestStoryStaffed
    FundedAsShown
CHECK_DEADLOCK FALSE
