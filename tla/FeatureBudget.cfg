\* The money: every agent step costs 0 or 1, a pod 1 or 3, and the ceiling
\* is low enough to be passed at any step.
CONSTANTS
    MaxPrdPasses = 2
    MaxSignoffRevisions = 1
    CouncilSize = 1
    Ceiling = 2
    StepCosts = {0, 1}
    MaxStepCost = 1
    PodCosts = {1, 3}
    Estimate = 1
    CustomAmounts = {2}
    EstimateGates = {TRUE, FALSE}
    Signals = {"budget_decision", "coding_budget", "deploy_approval"}
SPECIFICATION Spec
INVARIANTS
    SanctionedSpend
    Overshoot
    FundedRoundCannotRetrip
    AnswerWasAsked
PROPERTIES
    OpenGateKeepsAnswer
    ImplementsDelivery
CHECK_DEADLOCK FALSE
