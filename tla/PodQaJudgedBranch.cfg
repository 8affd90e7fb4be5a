\* The caps of config.py.
CONSTANTS
    MaxQaFixPasses = 1
    MaxReviewPasses = 1
    MaxCiFixPasses = 1
    MaxAttempts = 4
    CodingCosts = {2}
    AgentCosts = {1}
SPECIFICATION Spec
INVARIANT
    QaJudgedBranch
CHECK_DEADLOCK FALSE
