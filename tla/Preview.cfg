\* Two runs of one project; each capture may be overtaken by its own retry.
CONSTANTS
    Runs = {run1, run2}
    CaptureAttempts = 2
SPECIFICATION PreviewSpec
INVARIANTS
    StackAccountedFor
    FailureIsANote
CHECK_DEADLOCK FALSE
