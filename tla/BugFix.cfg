\* Every step may pass the ceiling, by the call or by the pod; the pod costs
\* less than, as much as and more than its funding.
CONSTANTS
    Ceiling = 1
    StepCosts = {0, 1}
    PodCosts = {0, 1, 3}
    Estimate = 1
    CustomAmounts = {0, 2}
    EstimateGates = {TRUE, FALSE}
    BudgetAnswers = {"yes", "no"}
SPECIFICATION FairSpec
INVARIANTS
    ReporterHeard
    StatusTellsWhy
PROPERTIES
    Terminates
    ImplementsDelivery
\* The workflow ends: closed and failed have no successor.
CHECK_DEADLOCK FALSE
