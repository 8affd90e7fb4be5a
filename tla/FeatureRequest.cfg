\* The gates: nothing costs anything, so the budget gate stays closed.  One
\* PRD pass less than config.py's 3, and one sign-off revision less than its 2.
CONSTANTS
    MaxPrdPasses = 2
    MaxSignoffRevisions = 1
    CouncilSize = 2
    Ceiling = 1
    StepCosts = {0}
    MaxStepCost = 0
    PodCosts = {0}
    Estimate = 1
    CustomAmounts = {0, 2}
    EstimateGates = {TRUE}
    Signals = {"human_vote", "pm_signoff", "deploy_approval", "coding_budget"}
SPECIFICATION FairSpec
INVARIANTS
    TypeOK
    ShipOnlyGreen
    StatusTellsWhy
PROPERTIES
    Terminates
\* The workflow ends: closed and failed have no successor.
CHECK_DEADLOCK FALSE
