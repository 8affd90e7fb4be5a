\* config.py: MAX_QA_FIX_PASSES, MAX_REVIEW_PASSES, MAX_CI_FIX_PASSES = 1.
\* common.py: DEFAULT_RETRY allows 4 attempts.
CONSTANTS
    MaxQaFixPasses = 1
    MaxReviewPasses = 1
    MaxCiFixPasses = 1
    MaxAttempts = 4
    CodingCosts = {2}
    AgentCosts = {1}
SPECIFICATION Spec
INVARIANTS
    SessionBound
    VerdictsJudgeResult
    CiJudgesBranch
    GivesUpExhausted
    ShotsOfBranch
    EveryReportCounted
PROPERTIES ImplementsCheckedPr
\* The workflow ends: done and failed have no successor.
CHECK_DEADLOCK FALSE
