\* The gates, at no cost.
CONSTANTS
    MaxPrdPasses = 2
    MaxSignoffRevisions = 1
    CouncilSize = 2
    Ceiling = 1
    StepCosts = {0}
    MaxStepCost = 0
    PodCosts = {0}
    Estimate = 1
    CustomAmounts = {0, 2}
    EstimateGates = {TRUE}
    Signals = {"human_vote", "pm_signoff", "deploy_approval", "coding_budget"}
SPECIFICATION Spec
INVARIANT
    ShippedIsDeployed
CHECK_DEADLOCK FALSE
