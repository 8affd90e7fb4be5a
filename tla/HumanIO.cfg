\* An approver and a stranger click on two cards, of one gate or of two.
CONSTANTS
    Approvers = {ann}
    Strangers = {eve}
    Gates = {"pm_signoff", "coding_budget", "clarification"}
    MaxRounds = 2
    MaxCards = 2
    MaxClicks = 2
SPECIFICATION FairSpec
INVARIANTS
    TypeOK
    CardTellsTruth
PROPERTIES
    EveryoneServed
CHECK_DEADLOCK FALSE
