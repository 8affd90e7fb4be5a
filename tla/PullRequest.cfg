\* config.py's one CI fix and common.py's four attempts; of two checks one can
\* register before the verdict and one after it.
CONSTANTS
    MaxAttempts = 4
    MaxCiFixes = 1
    Checks = {unit, lint}
    Targets = {"local", "github"}
    DeployKinds = {"merge", "open_pr"}
SPECIFICATION Spec
INVARIANTS
    RetryConverges
    MergedAsJudged
PROPERTIES ImplementsCheckedPr
\* The run ends.
CHECK_DEADLOCK FALSE
