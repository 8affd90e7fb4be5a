------------------------ MODULE FeatureRequestProofs ------------------------
(***************************************************************************)
(* Proofs about FeatureRequest, for every value of the caps, the ceiling,  *)
(* the costs and the estimate.  TypeOK comes first, with what Proceed and  *)
(* CheckBudget may do; the money, the path to the deploy gate and the two  *)
(* PRD loops then each have an inductive invariant of their own.  They     *)
(* give the refinement of GatedDelivery and the bound on the steps.        *)
(***************************************************************************)
EXTENDS FeatureRequest, TLAPS

Locations == Activities \cup Gates \cup Ended \cup {"done_post"}

LEMMA ProceedTypes ==
    ASSUME TypeOK, NEW r, Proceed(r)
    PROVE  /\ pc' \in Locations /\ card' \in {"none", "posting", "posted"}
           /\ status' \in Status
           /\ prdVersion' \in Nat /\ pass' \in 1 .. MaxPrdPasses
<1> USE FeatureAssumption DEF FeatureAssumption
<1>1. /\ pc' \in Locations /\ card' \in {"none", "posting", "posted"} /\ status' \in Status
  BY DEF Proceed, GoTo, Open, Finish, AfterRefine, AfterCouncil, AfterPod, TypeOK,
         Locations, Activities, Gates, Status
<1>2. prdVersion' \in Nat /\ pass' \in 1 .. MaxPrdPasses
  BY DEF Proceed, MorePasses, TypeOK
<1> QED
  BY <1>1, <1>2

LEMMA CheckTypes ==
    ASSUME TypeOK, NEW r \in Checked, CheckBudget(r)
    PROVE  /\ pc' \in Locations /\ card' \in {"none", "posting", "posted"}
           /\ status' \in Status
           /\ prdVersion' \in Nat /\ pass' \in 1 .. MaxPrdPasses
           /\ ret' \in Checked /\ budgetDecision' \in Answer
<1>0. NoAnswer \in Answer
  BY DEF NoAnswer, Answer
<1>1. CASE WithinBudget
  BY <1>1, ProceedTypes DEF CheckBudget, TypeOK
<1>2. CASE ~WithinBudget
  BY <1>0, <1>2 DEF CheckBudget, Open, ResetAnswer, TypeOK, Locations, Gates
<1> QED
  BY <1>1, <1>2

\* Every activity, gate and signal keeps every variable within its type; the
\* pass of the PRD loop within its cap.
THEOREM TypeCorrect == Spec => []TypeOK
<1> USE FeatureAssumption DEF FeatureAssumption
<1>1. Init => TypeOK
  <2>1. NoAnswer \in Answer
    BY DEF NoAnswer, Answer
  <2>2. [ran |-> FALSE, qa |-> FALSE, ci |-> FALSE, cost |-> 0] \in Pod
    BY DEF Pod
  <2>3. ASSUME Init
        PROVE  /\ budgetDecision \in Answer /\ codingBudget \in Answer /\ pod \in Pod
    BY <2>1, <2>2, <2>3 DEF Init
  <2>4. ASSUME Init
        PROVE overridden \in BOOLEAN /\ ui \in BOOLEAN
    BY <2>4 DEF Init
  <2>5. ASSUME Init
        PROVE  /\ cost \in Nat /\ ceiling \in Nat
               /\ approvals \in 0 .. CouncilSize
               /\ prdVersion \in Nat /\ pass \in 1 .. MaxPrdPasses /\ revisions \in Nat
               /\ funded \in Nat
    BY <2>5 DEF Init
  <2>6. ASSUME Init
        PROVE  /\ pc \in Activities \cup Gates \cup Ended \cup {"done_post"}
               /\ ret \in Checked /\ card \in {"none", "posting", "posted"} /\ status \in Status
               /\ humanVote \in {"none", "yes", "no"}
               /\ pmSignoff \in {"none", "approve", "revise"}
               /\ deployApproved \in {"none", "yes", "no"}
               /\ councilApproved \in {"none", "yes", "no"}
               /\ deployed \in {"none", "yes", "no"}
    BY <2>6 DEF Init, Activities, Checked, Status
  <2> QED
    BY <2>3, <2>4, <2>5, <2>6 DEF TypeOK
<1>2. TypeOK /\ [Next]_vars => TypeOK'
  <2> SUFFICES ASSUME TypeOK, [Next]_vars PROVE TypeOK'
    OBVIOUS
  <2> USE DEF TypeOK, Locations
  <2>0. NoAnswer \in Answer
    BY DEF NoAnswer, Answer
  <2>1. CASE PmDraftBrief
    <3>1. PICK c \in StepCosts : Spend(c, "pm_draft_brief")
      BY <2>1 DEF PmDraftBrief
    <3>2. "pm_draft_brief" \in Checked
      BY DEF Checked, Activities
    <3> QED
      BY <2>1, <3>1, <3>2, CheckTypes DEF PmDraftBrief, Spend, delivery
  <2>2. CASE CouncilAgentVotes
    BY <2>2 DEF CouncilAgentVotes, SpendRaw, Open, Gates, inboxes, prd, delivery
  <2>3. CASE CouncilDecided
    <3>1. "council_gate" \in Checked
      BY DEF Checked
    <3> QED
      BY <2>3, <3>1, CheckTypes DEF CouncilDecided, Spend, delivery
  <2>4. ASSUME NEW step \in Checked, AgentStep(step)
        PROVE  TypeOK'
    <3>1. PICK c \in StepCosts : Spend(c, step)
      BY <2>4 DEF AgentStep
    <3> QED
      BY <2>4, <3>1, CheckTypes DEF AgentStep, Spend, council, delivery
  <2>5. CASE PmWritePrd \/ PmRevisePrd \/ UxGenerateMocks \/ ConsumerResearch
             \/ PmReviseSignoff \/ ArchitectPlanStories
    BY <2>4, <2>5 DEF PmWritePrd, PmRevisePrd, UxGenerateMocks, ConsumerResearch,
                      PmReviseSignoff, ArchitectPlanStories, Checked, Activities
  <2>6. CASE ArchitectReviewPrd
    BY <2>6 DEF ArchitectReviewPrd, SpendRaw, AfterRefine, GoTo, Activities, inboxes,
                council, prd, delivery
  <2>7. CASE PmSignoff
    BY <2>7 DEF PmSignoff, GoTo, Activities, money, council, delivery
  <2>8. CASE EstimateCodingBudget
    <3>1. codingBudget' \in Answer
      BY <2>0, <2>8 DEF EstimateCodingBudget
    <3>2. pc' \in Locations /\ card' \in {"none", "posting", "posted"} /\ status' \in Status
      BY <2>8 DEF EstimateCodingBudget, GoTo, Open, Activities, Gates
    <3> QED
      BY <2>8, <3>1, <3>2 DEF EstimateCodingBudget, money, council, prd, delivery
  <2>9. CASE CodingBudgetFunded
    <3>1. codingBudget.amount \in Nat
      BY DEF Answer
    <3>2. funded' \in Nat /\ ceiling' \in Nat
      BY <2>9, <3>1 DEF CodingBudgetFunded, FundRound, LiftedCeiling
    <3> QED
      BY <2>9, <3>2 DEF CodingBudgetFunded, FundRound, GoTo, Activities, inboxes, council, prd
  <2>10. CASE CodingBudgetDeclined
    BY <2>10 DEF CodingBudgetDeclined, Finish, Status, inboxes, money, council, prd, delivery
  <2>11. CASE EngineeringPodReturns
    <3>1. PICK q \in BOOLEAN, i \in BOOLEAN, c \in PodCosts :
            /\ pod' = [ran |-> TRUE, qa |-> q, ci |-> i, cost |-> c]
            /\ Spend(c, "engineering_pod")
      BY <2>11 DEF EngineeringPodReturns
    <3>2. pod' \in Pod
      BY <3>1 DEF Pod
    <3>3. "engineering_pod" \in Checked
      BY DEF Checked, Activities
    <3> QED
      BY <2>11, <3>1, <3>2, <3>3, CheckTypes DEF EngineeringPodReturns, Spend, council
  <2>12. CASE DeployAnswered
    BY <2>12 DEF DeployAnswered, GoTo, Finish, Status, Activities, inboxes, money, council,
                 prd, delivery
  <2>13. CASE DeployTimeout
    BY <2>13 DEF DeployTimeout, Finish, Status, inboxes, money, council, prd, delivery
  <2>14. CASE Deploy
    <3>1. "deploy" \in Checked
      BY DEF Checked, Activities
    <3> QED
      BY <2>14, <3>1, CheckTypes DEF Deploy, Spend, council
  <2>15. CASE BudgetAnswered
    <3>1. CASE Proceed(ret) /\ overridden' = TRUE /\ councilApproved' = councilApproved
               /\ pod' = pod
      BY <2>15, <3>1, ProceedTypes DEF BudgetAnswered, inboxes
    <3>2. CASE /\ Finish("OVER_BUDGET")
               /\ UNCHANGED <<overridden, councilApproved, pod, prdVersion, pass>>
      BY <2>15, <3>2 DEF BudgetAnswered, Finish, Status, inboxes
    <3> QED
      BY <2>15, <3>1, <3>2 DEF BudgetAnswered
  <2>16. CASE BudgetTimeout
    BY <2>16 DEF BudgetTimeout, Finish, Status, inboxes, money, council, prd, delivery
  <2>17. CASE NotifyGate
    BY <2>17 DEF NotifyGate, inboxes, money, council, prd, delivery
  <2>18. CASE ActivityFails \/ PostDone
    <3>1. pc' \in Locations
      BY <2>18 DEF ActivityFails, PostDone, Ended
    <3> QED
      BY <2>18, <3>1 DEF ActivityFails, PostDone, inboxes, money, council, prd, delivery
  <2>19. CASE SubmitHumanVote \/ SubmitPmSignoff \/ SubmitDeployApproval
    BY <2>19 DEF SubmitHumanVote, SubmitPmSignoff, SubmitDeployApproval, Deliver, money,
                 council, prd, delivery
  <2>20. CASE SubmitBudgetDecision
    <3>1. budgetDecision' \in Answer
      BY <2>20 DEF SubmitBudgetDecision, Answer
    <3> QED
      BY <2>20, <3>1 DEF SubmitBudgetDecision, Deliver, money, council, prd, delivery
  <2>21. CASE SubmitCodingBudget
    <3>1. codingBudget' \in Answer
      BY <2>21 DEF SubmitCodingBudget, Answer
    <3> QED
      BY <2>21, <3>1 DEF SubmitCodingBudget, Deliver, money, council, prd, delivery
  <2>22. CASE UNCHANGED vars
    BY <2>22 DEF vars, inboxes, money, council, prd, delivery
  <2> QED
    BY <2>1, <2>2, <2>3, <2>5, <2>6, <2>7, <2>8, <2>9, <2>10, <2>11, <2>12, <2>13, <2>14, <2>15,
       <2>16, <2>17, <2>18, <2>19, <2>20, <2>21, <2>22 DEF Next, System, Humans
<1> QED
  BY <1>1, <1>2, PTL DEF Spec
-----------------------------------------------------------------------------
(* Money                                                                   *)

\* Where the last budget check covers all that was spent ...
Settled == {"pm_draft_brief", "council_agent_vote", "pm_write_prd", "architect_review_prd",
            "pm_signoff", "pm_revise_signoff", "architect_plan_stories",
            "estimate_coding_budget", "coding_budget_gate", "engineering_pod",
            "deploy_approval", "deploy"}

\* ... and where the votes or a review came after it.
Unsettled == {"council_gate", "pm_revise_prd", "ux_generate_mocks", "consumer_research"}

\* The step the workflow is at: behind the budget gate, the one that tripped it.
At == IF pc = "budget_gate" THEN ret ELSE pc

BeforePod == (Settled \ {"engineering_pod", "deploy_approval", "deploy"}) \cup Unsettled

\* Why the ceiling holds: what a location may be above it follows from the
\* unchecked calls since the last check, and the funded amount is still free
\* when the pod starts.
MoneyInv ==
    /\ pc = "budget_gate" => ~overridden /\ cost > ceiling /\ ret # "deploy"
    /\ ~overridden /\ pc \in Settled => cost <= ceiling
    /\ ~overridden /\ pc \in Unsettled => cost <= ceiling + MaxStepCost
    /\ ~overridden /\ ~pod.ran => cost <= ceiling + 2 * MaxStepCost
    /\ ~overridden /\ pc = "engineering_pod" => cost + funded <= ceiling
    /\ At \in BeforePod => funded = 0
    /\ pc = "budget_gate" /\ ret = "engineering_pod" => pod.cost > funded

LEMMA ProceedMoves ==
    ASSUME NEW r \in Checked, Proceed(r)
    PROVE  /\ pc' \in Settled \cup {"ux_generate_mocks", "consumer_research", "done_post"}
           /\ pc' # "engineering_pod"
           /\ pc' \in BeforePod => r \in BeforePod
  BY DEF Proceed, GoTo, Open, Finish, AfterRefine, AfterCouncil, AfterPod, Settled,
         Unsettled, BeforePod, Checked, Activities

LEMMA CheckedStepMoney ==
    ASSUME TypeOK, MoneyInv,
           NEW r \in Checked \ {"engineering_pod"}, pc = r,
           NEW c \in Nat, c <= MaxStepCost, r = "deploy" => c = 0,
           Spend(c, r), UNCHANGED <<ceiling, overridden, funded, pod>>
    PROVE  MoneyInv'
<1> USE FeatureAssumption DEF FeatureAssumption
<1>1. /\ cost \in Nat /\ ceiling \in Nat /\ MaxStepCost \in Nat /\ funded \in Nat
      /\ overridden \in BOOLEAN
  BY DEF TypeOK
<1>2. pc \in Settled \cup Unsettled /\ pc # "budget_gate"
  BY DEF Checked, Activities, Settled, Unsettled
<1>3. cost' = cost + c /\ (~overridden => cost <= ceiling + MaxStepCost)
  BY <1>1, <1>2 DEF Spend, MoneyInv
<1>4. ~overridden => cost' <= ceiling + 2 * MaxStepCost
  BY <1>1, <1>3
<1>5. CASE WithinBudget
  <2>1. Proceed(r) /\ (overridden \/ cost' <= ceiling)
    BY <1>5 DEF Spend, CheckBudget, WithinBudget
  <2>2. /\ pc' \in Settled \cup {"ux_generate_mocks", "consumer_research", "done_post"}
        /\ pc' # "engineering_pod" /\ pc' # "budget_gate"
        /\ pc' \in BeforePod => r \in BeforePod
    BY <2>1, ProceedMoves DEF Settled
  <2>3. pc' \in BeforePod => funded' = 0
    BY <1>2, <2>2 DEF MoneyInv, At
  <2> QED
    BY <1>1, <1>3, <1>4, <2>1, <2>2, <2>3 DEF MoneyInv, At
<1>6. CASE ~WithinBudget
  <2>1. pc' = "budget_gate" /\ ret' = r /\ ~overridden /\ cost' > ceiling
    BY <1>1, <1>3, <1>6 DEF Spend, CheckBudget, WithinBudget, Open
  <2>2. r # "deploy"
    BY <1>1, <1>3, <2>1 DEF MoneyInv, Settled
  <2>3. r \in BeforePod => funded' = 0
    BY <1>2 DEF MoneyInv, At
  <2> QED
    BY <1>1, <1>4, <2>1, <2>2, <2>3 DEF MoneyInv, At, Settled, Unsettled
<1> QED
  BY <1>5, <1>6

\* What neither moves the workflow nor spends.
Quiet == NotifyGate \/ Humans \/ UNCHANGED vars

LEMMA QuietFrame ==
    ASSUME Quiet
    PROVE  UNCHANGED <<pc, ret, status, money, council, prd, delivery>>
  BY DEF Quiet, NotifyGate, Humans, SubmitHumanVote, SubmitPmSignoff, SubmitDeployApproval,
         SubmitBudgetDecision, SubmitCodingBudget, Deliver, vars, money, council, prd, delivery

LEMMA WithMargin ==
    ASSUME NEW a \in Nat, NEW b \in Nat, NEW m \in Nat, a <= b
    PROVE  a <= b + 2 * m
  OBVIOUS

LEMMA MoneyInvHolds == Spec => []MoneyInv
<1>1. Init => MoneyInv
  BY FeatureAssumption DEF FeatureAssumption, Init, MoneyInv, At, Unsettled
<1>2. TypeOK /\ MoneyInv /\ [Next]_vars => MoneyInv'
  <2> SUFFICES ASSUME TypeOK, MoneyInv, [Next]_vars PROVE MoneyInv'
    OBVIOUS
  <2>t. /\ cost \in Nat /\ ceiling \in Nat /\ funded \in Nat /\ overridden \in BOOLEAN
        /\ ret \in Checked /\ MaxStepCost \in Nat
    BY FeatureAssumption DEF FeatureAssumption, TypeOK
  <2>c. \A c \in StepCosts : c \in Nat /\ c <= MaxStepCost
    BY FeatureAssumption DEF FeatureAssumption
  <2>z. 0 \in Nat /\ 0 <= MaxStepCost
    BY <2>t
  <2>1. CASE PmDraftBrief
    <3>1. PICK c \in StepCosts : Spend(c, "pm_draft_brief")
      BY <2>1 DEF PmDraftBrief
    <3>2. "pm_draft_brief" \in Checked \ {"engineering_pod"}
      BY DEF Checked, Activities
    <3> QED
      BY <2>1, <2>c, <3>1, <3>2, CheckedStepMoney DEF PmDraftBrief, delivery
  <2>2. CASE CouncilAgentVotes
    <3>1. PICK c \in StepCosts : cost' = cost + c
      BY <2>2 DEF CouncilAgentVotes, SpendRaw
    <3>2. ~overridden => cost <= ceiling
      BY <2>2 DEF CouncilAgentVotes, MoneyInv, Settled
    <3>3. ~overridden => cost' <= ceiling + MaxStepCost /\ cost' <= ceiling + 2 * MaxStepCost
      BY <2>t, <2>c, <3>1, <3>2
    <3> QED
      BY <2>2, <3>3 DEF CouncilAgentVotes, Open, MoneyInv, At, Settled, Unsettled, BeforePod,
                        delivery
  <2>3. CASE CouncilDecided
    <3>1. "council_gate" \in Checked \ {"engineering_pod"}
      BY DEF Checked, Activities
    <3> QED
      BY <2>3, <2>z, <3>1, CheckedStepMoney DEF CouncilDecided, delivery
  <2>4. ASSUME NEW step \in Checked \ {"engineering_pod", "deploy"}, AgentStep(step)
        PROVE  MoneyInv'
    <3>1. PICK c \in StepCosts : Spend(c, step)
      BY <2>4 DEF AgentStep
    <3> QED
      BY <2>4, <2>c, <3>1, CheckedStepMoney DEF AgentStep, delivery
  <2>5. CASE PmWritePrd \/ PmRevisePrd \/ UxGenerateMocks \/ ConsumerResearch
             \/ PmReviseSignoff \/ ArchitectPlanStories
    BY <2>4, <2>5 DEF PmWritePrd, PmRevisePrd, UxGenerateMocks, ConsumerResearch,
                      PmReviseSignoff, ArchitectPlanStories, Checked, Activities
  <2>6. CASE ArchitectReviewPrd
    <3>1. PICK c \in StepCosts : cost' = cost + c
      BY <2>6 DEF ArchitectReviewPrd, SpendRaw
    <3>2. ~overridden => cost <= ceiling
      BY <2>6 DEF ArchitectReviewPrd, MoneyInv, Settled
    <3>3. ~overridden => cost' <= ceiling + MaxStepCost /\ cost' <= ceiling + 2 * MaxStepCost
      BY <2>t, <2>c, <3>1, <3>2
    <3>4. pc' \in Unsettled
      BY <2>6 DEF ArchitectReviewPrd, AfterRefine, GoTo, Unsettled
    <3> QED
      BY <2>6, <3>3, <3>4 DEF ArchitectReviewPrd, MoneyInv, At, Settled, Unsettled, BeforePod,
                              delivery
  <2>7. CASE PmSignoff
    BY <2>7 DEF PmSignoff, GoTo, MoneyInv, At, Settled, Unsettled, BeforePod, money, delivery
  <2>8. CASE EstimateCodingBudget
    <3>1. UNCHANGED <<cost, ceiling, overridden, funded, pod>>
      BY <2>8 DEF EstimateCodingBudget, money, delivery
    <3>2. funded = 0 /\ (~overridden => cost <= ceiling)
      BY <2>8 DEF EstimateCodingBudget, MoneyInv, At, Settled, BeforePod
    <3>3. ~overridden => cost + funded <= ceiling /\ cost <= ceiling + 2 * MaxStepCost
      BY <2>t, <3>2
    <3>4. pc' \in {"coding_budget_gate", "engineering_pod"}
      BY <2>8 DEF EstimateCodingBudget, GoTo, Open
    <3>5. pc' # "budget_gate" /\ pc' \notin Unsettled
      BY <3>4 DEF Unsettled
    <3> QED
      BY <3>1, <3>2, <3>3, <3>5 DEF MoneyInv, At
  <2>9. CASE CodingBudgetFunded
    <3>1. codingBudget.amount \in Nat
      BY DEF TypeOK, Answer
    <3>2. funded' \in Nat /\ ceiling' \in Nat
          /\ ceiling' >= cost + funded' /\ ceiling' >= ceiling
      BY <2>t, <2>9, <3>1, FeatureAssumption
         DEF FeatureAssumption, CodingBudgetFunded, FundRound, LiftedCeiling
    <3>3. ~overridden => cost <= ceiling
      BY <2>9 DEF CodingBudgetFunded, MoneyInv, Settled
    <3>4. pc' = "engineering_pod" /\ UNCHANGED <<cost, overridden, pod>>
      BY <2>9 DEF CodingBudgetFunded, FundRound, GoTo
    <3>5. pc' \notin BeforePod /\ pc' \notin Unsettled /\ pc' # "budget_gate"
      BY <3>4 DEF BeforePod, Settled, Unsettled
    <3>6. cost' + funded' <= ceiling'
      BY <3>2, <3>4
    <3>7. ASSUME cost <= ceiling
          PROVE  cost <= ceiling' /\ cost <= ceiling' + 2 * MaxStepCost
      <4>1. cost <= ceiling'
        BY <2>t, <3>2, <3>7
      <4> QED
        BY <2>t, <3>2, <4>1, WithMargin
    <3> QED
      BY <3>3, <3>4, <3>5, <3>6, <3>7 DEF MoneyInv, At
  <2>10. CASE CodingBudgetDeclined
    BY <2>10 DEF CodingBudgetDeclined, Finish, MoneyInv, At, Settled, Unsettled, BeforePod,
                 money, delivery
  <2>11. CASE EngineeringPodReturns
    <3>1. PICK q \in BOOLEAN, i \in BOOLEAN, c \in PodCosts :
            /\ pod' = [ran |-> TRUE, qa |-> q, ci |-> i, cost |-> c]
            /\ Spend(c, "engineering_pod")
      BY <2>11 DEF EngineeringPodReturns
    <3>2. pod'.ran /\ pod'.cost = c /\ c \in Nat /\ cost' = cost + c
      BY <3>1, FeatureAssumption DEF FeatureAssumption, Spend
    <3>3. ~overridden => cost + funded <= ceiling
      BY <2>11 DEF EngineeringPodReturns, MoneyInv
    <3>4. UNCHANGED <<ceiling, overridden, funded>>
      BY <2>11 DEF EngineeringPodReturns
    <3>5. CASE WithinBudget
      <4>1. AfterPod /\ (overridden \/ cost' <= ceiling)
        BY <3>1, <3>5 DEF Spend, CheckBudget, WithinBudget, Proceed
      <4>2. pc' \in {"done_post", "deploy_approval"}
        BY <4>1 DEF AfterPod, Finish, Open
      <4> QED
        BY <3>2, <3>4, <4>1, <4>2 DEF MoneyInv, At, Settled, Unsettled, BeforePod
    <3>6. CASE ~WithinBudget
      <4>1. pc' = "budget_gate" /\ ret' = "engineering_pod" /\ ~overridden /\ cost' > ceiling
        BY <2>t, <3>1, <3>2, <3>6 DEF Spend, CheckBudget, WithinBudget, Open
      <4>2. c > funded
        BY <2>t, <3>2, <3>3, <4>1
      <4> QED
        BY <3>2, <3>4, <4>1, <4>2 DEF MoneyInv, At, Settled, Unsettled, BeforePod
    <3> QED
      BY <3>5, <3>6
  <2>12. CASE DeployAnswered
    BY <2>12 DEF DeployAnswered, GoTo, Finish, MoneyInv, At, Settled, Unsettled, BeforePod,
                 money, delivery
  <2>13. CASE DeployTimeout
    BY <2>13 DEF DeployTimeout, Finish, MoneyInv, At, Settled, Unsettled, BeforePod, money,
                 delivery
  <2>14. CASE Deploy
    <3>1. "deploy" \in Checked \ {"engineering_pod"}
      BY DEF Checked, Activities
    <3> QED
      BY <2>14, <2>z, <3>1, CheckedStepMoney DEF Deploy
  <2>15. CASE BudgetAnswered
    <3>1. pc = "budget_gate" /\ UNCHANGED funded /\ ret \in Checked
      BY <2>15, <2>t DEF BudgetAnswered
    <3>2. CASE Proceed(ret) /\ overridden' = TRUE /\ pod' = pod
      <4>1. /\ pc' \in Settled \cup {"ux_generate_mocks", "consumer_research", "done_post"}
            /\ pc' \in BeforePod => ret \in BeforePod
        BY <3>1, <3>2, ProceedMoves
      <4>2. pc' # "budget_gate"
        BY <4>1 DEF Settled
      <4> QED
        BY <3>1, <3>2, <4>1, <4>2 DEF MoneyInv, At
    <3>3. CASE Finish("OVER_BUDGET") /\ UNCHANGED <<overridden, pod>>
      BY <2>15, <3>3 DEF BudgetAnswered, Finish, MoneyInv, At, Settled, Unsettled, BeforePod
    <3> QED
      BY <2>15, <3>2, <3>3 DEF BudgetAnswered
  <2>16. CASE BudgetTimeout
    BY <2>16 DEF BudgetTimeout, Finish, MoneyInv, At, Settled, Unsettled, BeforePod, money,
                 delivery
  <2>17. CASE Quiet
    BY <2>17, QuietFrame DEF MoneyInv, At, money, delivery
  <2>18. CASE ActivityFails \/ PostDone
    BY <2>18 DEF ActivityFails, PostDone, Ended, MoneyInv, At, Settled, Unsettled, BeforePod,
                 money, delivery
  <2> QED
    BY <2>1, <2>2, <2>3, <2>5, <2>6, <2>7, <2>8, <2>9, <2>10, <2>11, <2>12, <2>13, <2>14, <2>15,
       <2>16, <2>17, <2>18 DEF Next, System, Quiet
<1> QED
  BY <1>1, <1>2, TypeCorrect, PTL DEF Spec

\* No step that commits the run further (_check_budget before it) starts above
\* the ceiling unless a human overrode it, whatever the steps cost.
THEOREM SpendSanctioned == Spec => []SanctionedSpend
<1>1. MoneyInv => SanctionedSpend
  BY DEF MoneyInv, SanctionedSpend, Settled
<1> QED
  BY <1>1, MoneyInvHolds, PTL

\* The two kinds of calls that _act_raw does not check let spend pass the
\* ceiling by two steps at most before the pod.
THEOREM OvershootBounded == Spec => []Overshoot
<1>1. MoneyInv => Overshoot
  BY DEF MoneyInv, Overshoot
<1> QED
  BY <1>1, MoneyInvHolds, PTL

\* The lifted ceiling leaves the funded round its money: only a pod above its
\* funding trips the budget gate.
THEOREM FundedRoundSafe == Spec => []FundedRoundCannotRetrip
<1>1. MoneyInv => FundedRoundCannotRetrip
  BY DEF MoneyInv, FundedRoundCannotRetrip
<1> QED
  BY <1>1, MoneyInvHolds, PTL

-----------------------------------------------------------------------------
(* The path to the deploy gate, and the final status                       *)

BeforeCouncil == {"pm_draft_brief", "council_agent_vote", "council_gate"}
Locked == {"deploy_approval", "deploy"}
Finished == {"done_post", "closed"}
AfterCouncilGate == (BeforePod \ BeforeCouncil) \cup {"engineering_pod"} \cup Locked

Funds == FALSE \notin EstimateGates => funded > 0

\* Why a shipped run is green and a status true: what the location says about
\* the verdicts, the money and the pod, with the budget gate counted as the
\* step behind it, and a status that is only set when leaving.
PathInv ==
    /\ At \in BeforeCouncil => prdVersion = 0
    /\ At \in AfterCouncilGate => councilApproved = "yes"
    /\ At \in BeforePod \/ pc = "engineering_pod" => ~pod.ran
    /\ At = "engineering_pod" => Funds
    /\ pc = "budget_gate" /\ ret = "engineering_pod" => pod.ran
    /\ pc = "budget_gate" /\ ret = "council_gate" => councilApproved \in {"yes", "no"}
    /\ pc \in Locked => PodGreen /\ Funds
    /\ pc \notin Finished => status = "RUNNING" /\ deployed = "none"
    /\ pc \in Finished => status # "RUNNING"
    /\ status = "SHIPPED" => councilApproved = "yes" /\ PodGreen /\ Funds
    /\ deployed # "none" => status = "SHIPPED"
    /\ StatusTellsWhy

LEMMA ProceedPath ==
    ASSUME NEW r \in Checked \ {"council_gate", "engineering_pod", "deploy"}, Proceed(r)
    PROVE  /\ status' = status
           /\ pc' \in BeforePod /\ r \in BeforePod
           /\ pc' \in AfterCouncilGate => r \in AfterCouncilGate
           /\ pc' \in BeforeCouncil => r \in BeforeCouncil /\ prdVersion' = prdVersion
<1>1. r \in {"pm_draft_brief", "pm_write_prd", "pm_revise_prd", "ux_generate_mocks",
             "consumer_research", "pm_revise_signoff", "architect_plan_stories"}
  BY DEF Checked, Activities
<1>2. /\ status' = status
      /\ pc' = IF r = "pm_draft_brief" THEN "council_agent_vote" ELSE pc'
      /\ r # "pm_draft_brief" =>
           pc' \in {"architect_review_prd", "ux_generate_mocks", "consumer_research",
                    "pm_signoff", "estimate_coding_budget"}
      /\ r = "pm_draft_brief" => prdVersion' = prdVersion
  BY <1>1 DEF Proceed, GoTo, Open, AfterRefine
<1> QED
  BY <1>1, <1>2 DEF BeforePod, BeforeCouncil, AfterCouncilGate, Locked, Settled, Unsettled

\* A checked step other than the council's, the pod's and the deploy.
LEMMA CheckedStepPath ==
    ASSUME TypeOK, PathInv,
           NEW r \in Checked \ {"council_gate", "engineering_pod", "deploy"},
           At = r, pc \notin Finished, CheckBudget(r) \/ (pc = "budget_gate" /\ Proceed(r)),
           UNCHANGED <<councilApproved, delivery>>
    PROVE  PathInv'
<1>1. /\ r \in BeforePod /\ r # "engineering_pod"
      /\ r \in BeforeCouncil \/ r \in AfterCouncilGate
  BY DEF Checked, Activities, BeforePod, Settled, Unsettled, BeforeCouncil, AfterCouncilGate
<1>2. UNCHANGED <<councilApproved, funded, pod, deployed>>
  BY DEF delivery
<1>3. /\ ~pod.ran /\ status = "RUNNING" /\ deployed = "none"
      /\ r \in BeforeCouncil => prdVersion = 0
      /\ r \in AfterCouncilGate => councilApproved = "yes"
  BY <1>1 DEF PathInv
<1>4. CASE Proceed(r)
  <2>1. /\ status' = status
        /\ pc' \in BeforePod
        /\ pc' \in AfterCouncilGate => r \in AfterCouncilGate
        /\ pc' \in BeforeCouncil => r \in BeforeCouncil /\ prdVersion' = prdVersion
    BY <1>4, ProceedPath
  <2>2. pc' \notin {"budget_gate", "engineering_pod"} \cup Locked \cup Finished
    BY <2>1 DEF BeforePod, Settled, Unsettled, Locked, Finished
  <2>3. StatusTellsWhy'
    BY <1>2, <1>3, <2>1 DEF StatusTellsWhy
  <2>4. /\ At' = pc'
        /\ pc' \in BeforeCouncil => prdVersion' = 0
        /\ pc' \in AfterCouncilGate => councilApproved' = "yes"
        /\ ~pod'.ran /\ status' = "RUNNING" /\ deployed' = "none"
    BY <1>2, <1>3, <2>1, <2>2 DEF At
  <2> QED
    BY <2>2, <2>3, <2>4 DEF PathInv
<1>5. CASE CheckBudget(r) /\ ~Proceed(r)
  <2>1. pc' = "budget_gate" /\ ret' = r /\ status' = status /\ prdVersion' = prdVersion
    BY <1>5 DEF CheckBudget, Open
  <2>2. StatusTellsWhy'
    BY <1>2, <1>3, <2>1 DEF StatusTellsWhy
  <2>3. /\ At' = r /\ pc' \notin Locked \cup Finished \cup {"engineering_pod"}
        /\ r \notin {"engineering_pod", "council_gate"}
    BY <2>1 DEF At, Locked, Finished
  <2> QED
    BY <1>1, <1>2, <1>3, <2>1, <2>2, <2>3 DEF PathInv
<1> QED
  BY <1>4, <1>5

\* Leaving before the pod, or from behind the deploy gate, with a status.
LEMMA FinishPath ==
    ASSUME NEW s \in Status \ {"RUNNING"}, Finish(s), s # "SHIPPED",
           deployed' = "none", StatusTellsWhy'
    PROVE  PathInv'
<1>1. pc' = "done_post" /\ status' = s
  BY DEF Finish
<1>2. pc' \in Finished /\ At' = pc'
  BY <1>1 DEF At, Finished
<1>3. pc' \notin Locked \cup BeforeCouncil \cup AfterCouncilGate \cup BeforePod
                 \cup {"engineering_pod", "budget_gate"}
  BY <1>1 DEF Locked, BeforeCouncil, AfterCouncilGate, BeforePod, Settled, Unsettled
<1> QED
  BY <1>1, <1>2, <1>3 DEF PathInv

\* A step of no interest here: it stays on the same side of the council and
\* of the pod, and leaves the verdicts alone.
LEMMA PlainPath ==
    ASSUME TypeOK, PathInv, pc \in BeforePod, pc' \in BeforePod \cup {"failed"},
           pc' \in BeforeCouncil => pc \in BeforeCouncil,
           pc' \in AfterCouncilGate => pc \in AfterCouncilGate,
           UNCHANGED <<status, councilApproved, prdVersion, delivery>>
    PROVE  PathInv'
<1>1. UNCHANGED <<funded, pod, deployed>>
  BY DEF delivery
<1>2. /\ pc # "budget_gate" /\ pc \notin Finished
      /\ pc' \notin {"budget_gate", "engineering_pod"} \cup Locked \cup Finished
  BY DEF BeforePod, Settled, Unsettled, Locked, Finished
<1>3. ~pod.ran /\ status = "RUNNING" /\ deployed = "none"
  BY <1>2 DEF PathInv, At
<1>4. /\ pc \in BeforeCouncil => prdVersion = 0
      /\ pc \in AfterCouncilGate => councilApproved = "yes"
  BY <1>2 DEF PathInv, At
<1>5. StatusTellsWhy'
  BY <1>1, <1>3 DEF StatusTellsWhy
<1> QED
  BY <1>1, <1>2, <1>3, <1>4, <1>5 DEF PathInv, At

\* AfterCouncil, with or without a stop at the budget gate.
LEMMA CouncilPath ==
    ASSUME TypeOK, councilApproved' \in {"yes", "no"}, AfterCouncil,
           prdVersion' = 0, ~pod'.ran, deployed' = "none", status = "RUNNING"
    PROVE  PathInv'
<1>1. CASE councilApproved' = "yes"
  <2>1. pc' = "pm_write_prd" /\ status' = "RUNNING"
    BY <1>1 DEF AfterCouncil, GoTo
  <2>2. At' = "pm_write_prd" /\ pc' \notin Locked \cup Finished
    BY <2>1 DEF At, Locked, Finished
  <2>3. StatusTellsWhy'
    BY <2>1 DEF StatusTellsWhy
  <2> QED
    BY <1>1, <2>1, <2>2, <2>3 DEF PathInv, BeforeCouncil
<1>2. CASE councilApproved' = "no"
  <2>1. Finish("REJECTED_BY_COUNCIL")
    BY <1>2 DEF AfterCouncil
  <2>2. StatusTellsWhy'
    BY <1>2, <2>1 DEF Finish, StatusTellsWhy
  <2> QED
    BY <2>1, <2>2, FinishPath DEF Status
<1> QED
  BY <1>1, <1>2

\* AfterPod, with or without a stop at the budget gate.
LEMMA PodPath ==
    ASSUME TypeOK, AfterPod, pod' \in Pod, pod'.ran, councilApproved' = "yes", Funds',
           deployed' = "none", status = "RUNNING"
    PROVE  PathInv'
<1>0. pod'.qa \in BOOLEAN /\ pod'.ci \in BOOLEAN
  BY DEF Pod
<1>1. CASE pod'.qa /\ pod'.ci
  <2>1. pc' = "deploy_approval" /\ status' = "RUNNING"
    BY <1>1 DEF AfterPod, Open
  <2>2. At' = "deploy_approval" /\ PodGreen'
    BY <1>1, <2>1 DEF At, PodGreen
  <2>3. StatusTellsWhy'
    BY <2>1 DEF StatusTellsWhy
  <2> QED
    BY <2>1, <2>2, <2>3 DEF PathInv, BeforeCouncil, BeforePod, Settled, Unsettled, Finished
<1>2. CASE ~pod'.qa
  <2>1. Finish("QA_FAILED")
    BY <1>2 DEF AfterPod
  <2>2. StatusTellsWhy'
    BY <1>2, <2>1 DEF Finish, StatusTellsWhy
  <2> QED
    BY <2>1, <2>2, FinishPath DEF Status
<1>3. CASE pod'.qa /\ ~pod'.ci
  <2>1. Finish("CI_FAILED")
    BY <1>3 DEF AfterPod
  <2>2. StatusTellsWhy'
    BY <1>3, <2>1 DEF Finish, StatusTellsWhy
  <2> QED
    BY <2>1, <2>2, FinishPath DEF Status
<1> QED
  BY <1>0, <1>1, <1>2, <1>3

LEMMA PathInvHolds == Spec => []PathInv
<1>1. Init => PathInv
  BY DEF Init, PathInv, At, BeforePod, BeforeCouncil, AfterCouncilGate, Locked, Finished,
         Settled, Unsettled, StatusTellsWhy
<1>2. TypeOK /\ MoneyInv /\ PathInv /\ [Next]_vars => PathInv'
  <2> SUFFICES ASSUME TypeOK, MoneyInv, PathInv, [Next]_vars PROVE PathInv'
    OBVIOUS
  <2> USE DEF BeforePod, BeforeCouncil, AfterCouncilGate, Locked, Finished, Settled, Unsettled
  <2>1. CASE PmDraftBrief
    <3>1. /\ "pm_draft_brief" \in Checked \ {"council_gate", "engineering_pod", "deploy"}
          /\ At = "pm_draft_brief" /\ pc \notin Finished
      BY <2>1 DEF PmDraftBrief, Checked, Activities, At
    <3>2. CheckBudget("pm_draft_brief") /\ UNCHANGED <<councilApproved, delivery>>
      BY <2>1 DEF PmDraftBrief, Spend
    <3> QED
      BY <3>1, <3>2, CheckedStepPath
  <2>2. CASE CouncilAgentVotes
    BY <2>2, PlainPath DEF CouncilAgentVotes, Open, prd
  <2>3. CASE CouncilDecided
    <3>1. CheckBudget("council_gate") /\ pc = "council_gate" /\ UNCHANGED <<funded, pod, deployed>>
      BY <2>3 DEF CouncilDecided, Spend, delivery
    <3>2. councilApproved' \in {"yes", "no"}
      BY <2>3 DEF CouncilDecided, TypeOK
    <3>3. prdVersion = 0 /\ ~pod.ran /\ status = "RUNNING" /\ deployed = "none"
      BY <3>1 DEF PathInv, At
    <3>4. CASE WithinBudget
      <4>1. AfterCouncil /\ prdVersion' = 0
        BY <3>1, <3>3, <3>4 DEF CheckBudget, Proceed
      <4> QED
        BY <3>1, <3>2, <3>3, <4>1, CouncilPath
    <3>5. CASE ~WithinBudget
      <4>1. /\ pc' = "budget_gate" /\ ret' = "council_gate"
            /\ status' = status /\ prdVersion' = prdVersion
        BY <3>1, <3>5 DEF CheckBudget, Open
      <4>2. StatusTellsWhy'
        BY <3>1, <3>3, <4>1 DEF StatusTellsWhy
      <4> QED
        BY <3>1, <3>2, <3>3, <4>1, <4>2 DEF PathInv, At
    <3> QED
      BY <3>4, <3>5
  <2>4. ASSUME NEW step \in Checked \ {"council_gate", "engineering_pod", "deploy"},
               step # "budget_gate", AgentStep(step)
        PROVE  PathInv'
    <3>1. At = step /\ pc \notin Finished
      BY <2>4 DEF AgentStep, At, Checked, Activities
    <3>2. CheckBudget(step) /\ UNCHANGED <<councilApproved, delivery>>
      BY <2>4 DEF AgentStep, Spend, council
    <3> QED
      BY <3>1, <3>2, CheckedStepPath
  <2>5. CASE PmWritePrd \/ PmRevisePrd \/ UxGenerateMocks \/ ConsumerResearch
             \/ PmReviseSignoff \/ ArchitectPlanStories
    BY <2>4, <2>5 DEF PmWritePrd, PmRevisePrd, UxGenerateMocks, ConsumerResearch,
                      PmReviseSignoff, ArchitectPlanStories, Checked, Activities
  <2>6. CASE ArchitectReviewPrd
    <3>1. pc' \in {"pm_revise_prd", "ux_generate_mocks", "consumer_research"}
      BY <2>6 DEF ArchitectReviewPrd, AfterRefine, GoTo
    <3> QED
      BY <2>6, <3>1, PlainPath DEF ArchitectReviewPrd, AfterRefine, GoTo, council, prd
  <2>7. CASE PmSignoff
    <3>1. pc' \in {"pm_revise_signoff", "architect_plan_stories"} /\ status' = status
      BY <2>7 DEF PmSignoff, GoTo
    <3> QED
      BY <2>7, <3>1, PlainPath DEF PmSignoff, council
  <2>8. CASE EstimateCodingBudget
    <3>1. /\ pc = "estimate_coding_budget" /\ status' = status
          /\ UNCHANGED <<councilApproved, prdVersion, delivery>>
      BY <2>8 DEF EstimateCodingBudget, Open, GoTo, council, prd
    <3>2. CASE pc' = "coding_budget_gate"
      BY <3>1, <3>2, PlainPath
    <3>3. CASE pc' = "engineering_pod" /\ FALSE \in EstimateGates
      <4>1. UNCHANGED <<funded, pod, deployed>>
        BY <3>1 DEF delivery
      <4>2. ~pod.ran /\ status = "RUNNING" /\ deployed = "none" /\ councilApproved = "yes"
        BY <3>1 DEF PathInv, At
      <4>3. StatusTellsWhy'
        BY <3>1, <4>1, <4>2 DEF StatusTellsWhy
      <4> QED
        BY <3>1, <3>3, <4>1, <4>2, <4>3 DEF PathInv, At, Funds
    <3> QED
      BY <2>8, <3>2, <3>3 DEF EstimateCodingBudget, Open, GoTo
  <2>9. CASE CodingBudgetFunded
    <3>1. /\ pc = "coding_budget_gate" /\ pc' = "engineering_pod" /\ status' = status
          /\ UNCHANGED <<councilApproved, prdVersion, pod, deployed>>
      BY <2>9 DEF CodingBudgetFunded, FundRound, GoTo, council, prd
    <3>2. codingBudget.amount \in Nat /\ Estimate \in Nat \ {0}
      BY FeatureAssumption DEF FeatureAssumption, TypeOK, Answer
    <3>3. funded' > 0
      BY <2>9, <3>2 DEF CodingBudgetFunded, FundRound
    <3>4. ~pod.ran /\ status = "RUNNING" /\ deployed = "none" /\ councilApproved = "yes"
      BY <3>1 DEF PathInv, At
    <3>5. StatusTellsWhy'
      BY <3>1, <3>4 DEF StatusTellsWhy
    <3> QED
      BY <3>1, <3>3, <3>4, <3>5 DEF PathInv, At, Funds
  <2>10. CASE CodingBudgetDeclined
    <3>1. /\ pc = "coding_budget_gate" /\ Finish("HELD")
          /\ UNCHANGED <<funded, pod, deployed>>
      BY <2>10 DEF CodingBudgetDeclined, delivery
    <3>2. funded = 0 /\ ~pod.ran /\ deployed = "none"
      BY <3>1 DEF PathInv, MoneyInv, At
    <3>3. StatusTellsWhy'
      BY <3>1, <3>2 DEF StatusTellsWhy, Finish
    <3> QED
      BY <3>1, <3>2, <3>3, FinishPath DEF Status
  <2>11. CASE EngineeringPodReturns
    <3>1. PICK q \in BOOLEAN, i \in BOOLEAN, c \in PodCosts :
            /\ pod' = [ran |-> TRUE, qa |-> q, ci |-> i, cost |-> c]
            /\ Spend(c, "engineering_pod")
      BY <2>11 DEF EngineeringPodReturns
    <3>2. pod'.ran /\ pod' \in Pod
      BY <3>1, FeatureAssumption DEF FeatureAssumption, Pod
    <3>3. /\ pc = "engineering_pod" /\ UNCHANGED <<councilApproved, funded, deployed>>
      BY <2>11 DEF EngineeringPodReturns, council
    <3>4. councilApproved = "yes" /\ Funds /\ status = "RUNNING" /\ deployed = "none"
      BY <3>3 DEF PathInv, At
    <3>5. councilApproved' = "yes" /\ Funds' /\ deployed' = "none"
      BY <3>3, <3>4 DEF Funds
    <3>6. CASE WithinBudget
      <4>1. AfterPod
        BY <3>1, <3>6 DEF Spend, CheckBudget, Proceed
      <4> QED
        BY <3>2, <3>4, <3>5, <4>1, PodPath
    <3>7. CASE ~WithinBudget
      <4>1. pc' = "budget_gate" /\ ret' = "engineering_pod" /\ status' = "RUNNING"
        BY <3>1, <3>4, <3>7 DEF Spend, CheckBudget, Open
      <4>2. StatusTellsWhy'
        BY <3>5, <4>1 DEF StatusTellsWhy
      <4> QED
        BY <3>2, <3>5, <4>1, <4>2 DEF PathInv, At
    <3> QED
      BY <3>6, <3>7
  <2>12. CASE DeployAnswered
    <3>1. pc = "deploy_approval" /\ UNCHANGED <<councilApproved, funded, pod, deployed>>
      BY <2>12 DEF DeployAnswered, council, delivery
    <3>2. PodGreen /\ Funds /\ councilApproved = "yes" /\ status = "RUNNING" /\ deployed = "none"
      BY <3>1 DEF PathInv, At
    <3>3. PodGreen' /\ Funds' /\ councilApproved' = "yes" /\ deployed' = "none"
      BY <3>1, <3>2 DEF PodGreen, Funds
    <3>4. CASE GoTo("deploy")
      <4>1. pc' = "deploy" /\ status' = "RUNNING"
        BY <3>2, <3>4 DEF GoTo
      <4>2. StatusTellsWhy'
        BY <3>3, <4>1 DEF StatusTellsWhy
      <4> QED
        BY <3>3, <4>1, <4>2 DEF PathInv, At
    <3>5. CASE Finish("HELD")
      <4>1. StatusTellsWhy'
        BY <3>3, <3>5 DEF StatusTellsWhy, Finish, PodGreen
      <4> QED
        BY <3>3, <3>5, <4>1, FinishPath DEF Status
    <3> QED
      BY <2>12, <3>4, <3>5 DEF DeployAnswered
  <2>13. CASE DeployTimeout
    <3>1. /\ pc = "deploy_approval" /\ Finish("ESCALATED")
          /\ UNCHANGED <<pod, deployed>>
      BY <2>13 DEF DeployTimeout, delivery
    <3>2. PodGreen' /\ deployed' = "none"
      BY <3>1 DEF PathInv, PodGreen
    <3>3. StatusTellsWhy'
      BY <3>1, <3>2 DEF StatusTellsWhy, Finish
    <3> QED
      BY <3>1, <3>2, <3>3, FinishPath DEF Status
  <2>14. CASE Deploy
    <3>1. /\ pc = "deploy" /\ deployed' \in {"yes", "no"} /\ Spend(0, "deploy")
          /\ UNCHANGED <<councilApproved, funded, pod>>
      BY <2>14 DEF Deploy, council
    <3>2. overridden \/ cost <= ceiling
      BY <3>1 DEF MoneyInv
    <3>3. Finish("SHIPPED")
      <4>1. cost' = cost
        BY <3>1 DEF Spend, TypeOK
      <4>2. WithinBudget
        BY <3>2, <4>1 DEF WithinBudget
      <4> QED
        BY <3>1, <4>2 DEF Spend, CheckBudget, Proceed
    <3>4. PodGreen /\ Funds /\ councilApproved = "yes"
      BY <3>1 DEF PathInv, At
    <3>5. PodGreen' /\ Funds' /\ councilApproved' = "yes"
      BY <3>1, <3>4 DEF PodGreen, Funds
    <3>6. pc' = "done_post" /\ status' = "SHIPPED"
      BY <3>3 DEF Finish
    <3>7. StatusTellsWhy'
      BY <3>6 DEF StatusTellsWhy
    <3> QED
      BY <3>5, <3>6, <3>7 DEF PathInv, At
  <2>15. CASE BudgetAnswered
    <3>1. /\ pc = "budget_gate" /\ UNCHANGED <<funded, deployed, cost, ceiling>>
          /\ ret \in Checked
      BY <2>15 DEF BudgetAnswered, TypeOK
    <3>2. status = "RUNNING" /\ deployed = "none" /\ At = ret /\ ret # "deploy"
      BY <3>1 DEF PathInv, MoneyInv, At
    <3>3. CASE /\ Finish("OVER_BUDGET") /\ UNCHANGED <<overridden, pod>>
      <4>1. ~overridden' /\ cost' > ceiling'
        BY <3>1, <3>3 DEF MoneyInv
      <4>2. StatusTellsWhy'
        BY <3>1, <3>2, <3>3, <4>1 DEF StatusTellsWhy, Finish
      <4> QED
        BY <3>1, <3>2, <3>3, <4>2, FinishPath DEF Status
    <3>4. ASSUME Proceed(ret), councilApproved' = councilApproved, pod' = pod
          PROVE  PathInv'
      <4>1. CASE ret = "council_gate"
        <5>1. AfterCouncil /\ prdVersion' = prdVersion
          BY <3>4, <4>1 DEF Proceed
        <5>2. councilApproved' \in {"yes", "no"} /\ prdVersion = 0 /\ ~pod.ran
          BY <3>1, <3>2, <3>4, <4>1 DEF PathInv
        <5> QED
          BY <3>1, <3>2, <3>4, <5>1, <5>2, CouncilPath
      <4>2. CASE ret = "engineering_pod"
        <5>1. AfterPod
          BY <3>4, <4>2 DEF Proceed
        <5>2. pod'.ran /\ councilApproved' = "yes" /\ Funds
          BY <3>1, <3>2, <3>4, <4>2 DEF PathInv
        <5>3. Funds' /\ pod' \in Pod
          BY <3>1, <3>4, <5>2 DEF Funds, TypeOK
        <5> QED
          BY <3>1, <3>2, <5>1, <5>2, <5>3, PodPath
      <4>3. CASE ret \notin {"council_gate", "engineering_pod"}
        BY <3>1, <3>2, <3>4, <4>3, CheckedStepPath DEF delivery
      <4> QED
        BY <4>1, <4>2, <4>3
    <3> QED
      BY <2>15, <3>3, <3>4 DEF BudgetAnswered
  <2>16. CASE BudgetTimeout
    <3>1. /\ pc = "budget_gate" /\ Finish("OVER_BUDGET")
          /\ UNCHANGED <<deployed, cost, ceiling, overridden>>
      BY <2>16 DEF BudgetTimeout, delivery, money
    <3>2. deployed = "none" /\ ~overridden /\ cost > ceiling
      BY <3>1 DEF PathInv, MoneyInv
    <3>3. StatusTellsWhy'
      BY <3>1, <3>2 DEF StatusTellsWhy, Finish
    <3> QED
      BY <3>1, <3>2, <3>3, FinishPath DEF Status
  <2>17. CASE Quiet
    <3>1. /\ UNCHANGED <<pc, ret, status, cost, ceiling, overridden, councilApproved>>
          /\ UNCHANGED <<prdVersion, funded, pod, deployed>>
      BY <2>17, QuietFrame DEF money, council, prd, delivery
    <3>2. /\ At' = At /\ (PodGreen' <=> PodGreen) /\ (Funds' <=> Funds)
          /\ StatusTellsWhy' <=> StatusTellsWhy
      BY <3>1 DEF At, PodGreen, Funds, StatusTellsWhy
    <3> QED
      BY <3>1, <3>2 DEF PathInv
  <2>18. CASE ActivityFails
    <3>1. /\ pc' = "failed" /\ pc \notin Finished
          /\ UNCHANGED <<status, money, council, prd, delivery>>
      BY <2>18 DEF ActivityFails, Activities
    <3>2. status = "RUNNING" /\ deployed = "none"
      BY <3>1 DEF PathInv
    <3>3. StatusTellsWhy'
      BY <3>1, <3>2 DEF StatusTellsWhy, delivery
    <3> QED
      BY <3>1, <3>2, <3>3 DEF PathInv, At, delivery
  <2>19. CASE PostDone
    <3>1. /\ pc = "done_post" /\ pc' = "closed"
          /\ UNCHANGED <<status, money, council, prd, delivery>>
      BY <2>19 DEF PostDone
    <3> QED
      BY <3>1 DEF PathInv, At, PodGreen, Funds, StatusTellsWhy, money, council, prd, delivery
  <2> QED
    BY <2>1, <2>2, <2>3, <2>5, <2>6, <2>7, <2>8, <2>9, <2>10, <2>11, <2>12, <2>13, <2>14, <2>15,
       <2>16, <2>17, <2>18, <2>19 DEF Next, System, Quiet
<1> QED
  BY <1>1, <1>2, TypeCorrect, MoneyInvHolds, PTL DEF Spec

\* Council, QA, CI and the funding of the round: nothing gets to the deploy
\* gate of _execute, or past it, without them.
THEOREM ShipsGreenOnly == Spec => []ShipOnlyGreen
<1>1. PathInv => ShipOnlyGreen
  BY DEF PathInv, ShipOnlyGreen, Locked, AfterCouncilGate, At, Funds
<1> QED
  BY <1>1, PathInvHolds, PTL

\* Whatever gate or loop a run left by, its final status names the reason.
THEOREM StatusTrue == Spec => []StatusTellsWhy
<1>1. PathInv => StatusTellsWhy
  BY DEF PathInv
<1> QED
  BY <1>1, PathInvHolds, PTL

\* Halts are final: after the step that sets a status, run() only makes the
\* terminal post; no activity, no gate and no signal changes the outcome.
THEOREM StatusFinal == Spec => FinalIsFinal
<1> DEFINE Final == /\ UNCHANGED <<status, money, council, prd, delivery>>
                    /\ pc' \in {pc, "closed"}
<1>1. PathInv /\ [Next]_vars => [status # "RUNNING" => Final]_vars
  <2> SUFFICES ASSUME PathInv, [Next]_vars, status # "RUNNING" PROVE Final
    OBVIOUS
  <2>1. pc \in Finished
    BY DEF PathInv
  <2>2. CASE Quiet
    BY <2>2, QuietFrame
  <2>3. CASE PostDone
    BY <2>3 DEF PostDone
  <2>4. CASE ~Quiet /\ ~PostDone
    BY <2>1, <2>4
       DEF Finished, Quiet, Next, System, Activities, PmDraftBrief, CouncilAgentVotes,
           CouncilDecided, AgentStep, PmWritePrd, ArchitectReviewPrd, PmRevisePrd,
           UxGenerateMocks, ConsumerResearch, PmSignoff, PmReviseSignoff,
           ArchitectPlanStories, EstimateCodingBudget, CodingBudgetFunded,
           CodingBudgetDeclined, EngineeringPodReturns, DeployAnswered, DeployTimeout,
           Deploy, BudgetAnswered, BudgetTimeout, ActivityFails
  <2> QED
    BY <2>2, <2>3, <2>4
<1> QED
  BY <1>1, PathInvHolds, PTL DEF Spec, FinalIsFinal

-----------------------------------------------------------------------------
(* The gates and their inboxes                                             *)

\* A card is only being posted at a gate, and what the two resetting gates
\* hold was sent while they were open.
GateInv == (card = "posting" => pc \in Gates) /\ AnswerWasAsked

LEMMA ProceedGates ==
    ASSUME NEW r, Proceed(r)
    PROVE  pc' \notin {"budget_gate", "coding_budget_gate"} /\ (card' = "posting" => pc' \in Gates)
  BY DEF Proceed, GoTo, Open, Finish, AfterRefine, AfterCouncil, AfterPod, Gates

LEMMA CheckedStepGates ==
    ASSUME NEW r, CheckBudget(r)
    PROVE  GateInv'
<1>1. CASE Proceed(r)
  BY <1>1, ProceedGates DEF GateInv, AnswerWasAsked
<1>2. CASE ~Proceed(r)
  <2>1. pc' = "budget_gate" /\ budgetDecision'.answer = "none"
    BY <1>2 DEF CheckBudget, Open, ResetAnswer, NoAnswer
  <2> QED
    BY <2>1 DEF GateInv, AnswerWasAsked, Gates
<1> QED
  BY <1>1, <1>2

LEMMA GateInvHolds == Spec => []GateInv
<1>1. Init => GateInv
  BY DEF Init, GateInv, AnswerWasAsked, NoAnswer
<1>2. GateInv /\ [Next]_vars => GateInv'
  <2> SUFFICES ASSUME GateInv, [Next]_vars PROVE GateInv'
    OBVIOUS
  <2>1. CASE \/ PmDraftBrief \/ CouncilDecided \/ PmWritePrd \/ PmRevisePrd \/ UxGenerateMocks
             \/ ConsumerResearch \/ PmReviseSignoff \/ ArchitectPlanStories
             \/ EngineeringPodReturns \/ Deploy
    BY <2>1, CheckedStepGates
       DEF PmDraftBrief, CouncilDecided, AgentStep, PmWritePrd, PmRevisePrd, UxGenerateMocks,
           ConsumerResearch, PmReviseSignoff, ArchitectPlanStories, EngineeringPodReturns,
           Deploy, Spend
  <2>2. CASE CouncilAgentVotes \/ ArchitectReviewPrd \/ PmSignoff
    BY <2>2 DEF CouncilAgentVotes, ArchitectReviewPrd, PmSignoff, AfterRefine, GoTo, Open, Gates,
                GateInv, AnswerWasAsked
  <2>3. CASE EstimateCodingBudget
    <3>1. NoAnswer.answer = "none"
      BY DEF NoAnswer
    <3> QED
      BY <2>3, <3>1 DEF EstimateCodingBudget, GoTo, Open, Gates, GateInv, AnswerWasAsked
  <2>4. CASE CodingBudgetFunded \/ CodingBudgetDeclined \/ DeployAnswered \/ DeployTimeout
             \/ BudgetTimeout
    BY <2>4 DEF CodingBudgetFunded, CodingBudgetDeclined, DeployAnswered, DeployTimeout,
                BudgetTimeout, FundRound, GoTo, Finish, GateInv, AnswerWasAsked
  <2>5. CASE BudgetAnswered
    BY <2>5, ProceedGates DEF BudgetAnswered, Finish, GateInv, AnswerWasAsked
  <2>6. CASE NotifyGate \/ UNCHANGED vars
    BY <2>6 DEF NotifyGate, vars, inboxes, GateInv, AnswerWasAsked
  <2>7. CASE ActivityFails \/ PostDone
    BY <2>7 DEF ActivityFails, PostDone, Activities, Gates, GateInv, AnswerWasAsked
  <2>8. CASE SubmitHumanVote \/ SubmitPmSignoff \/ SubmitDeployApproval
    BY <2>8 DEF SubmitHumanVote, SubmitPmSignoff, SubmitDeployApproval, Deliver, GateInv,
                AnswerWasAsked
  <2>9. CASE SubmitBudgetDecision
    <3>1. UNCHANGED <<pc, card, codingBudget>>
      BY <2>9 DEF SubmitBudgetDecision, Deliver
    <3>2. pc = "budget_gate" => budgetDecision'.asked
      <4>1. PICK a \in {"yes", "no"} :
              budgetDecision' = [answer |-> a, amount |-> 0, asked |-> pc = "budget_gate"]
        BY <2>9 DEF SubmitBudgetDecision
      <4>2. budgetDecision'.asked = (pc = "budget_gate")
        BY <4>1
      <4> QED
        BY <4>2
    <3> QED
      BY <3>1, <3>2 DEF GateInv, AnswerWasAsked
  <2>10. CASE SubmitCodingBudget
    <3>1. UNCHANGED <<pc, card, budgetDecision>>
      BY <2>10 DEF SubmitCodingBudget, Deliver
    <3>2. pc = "coding_budget_gate" => codingBudget'.asked
      <4>1. PICK a \in {"yes", "no", "custom"}, n \in CustomAmounts \cup {0} :
              codingBudget' = [answer |-> a, amount |-> n, asked |-> pc = "coding_budget_gate"]
        BY <2>10 DEF SubmitCodingBudget
      <4>2. codingBudget'.asked = (pc = "coding_budget_gate")
        BY <4>1
      <4> QED
        BY <4>2
    <3> QED
      BY <3>1, <3>2 DEF GateInv, AnswerWasAsked
  <2> QED
    BY <2>1, <2>2, <2>3, <2>4, <2>5, <2>6, <2>7, <2>8, <2>9, <2>10 DEF Next, System, Humans
<1> QED
  BY <1>1, <1>2, PTL DEF Spec

\* The two budget gates reset their inbox when they open: what they read was
\* sent after that.
THEOREM AnswersAsked == Spec => []AnswerWasAsked
<1>1. GateInv => AnswerWasAsked
  BY DEF GateInv
<1> QED
  BY <1>1, GateInvHolds, PTL

\* _notify_gate: while a card is being posted, no answer is dropped.
THEOREM AnswersKept == Spec => OpenGateKeepsAnswer
<1> DEFINE Kept == /\ budgetDecision.answer # "none" => budgetDecision'.answer # "none"
                   /\ codingBudget.answer # "none" => codingBudget'.answer # "none"
<1>1. GateInv /\ [Next]_vars => [card = "posting" => Kept]_vars
  <2> SUFFICES ASSUME GateInv, [Next]_vars, card = "posting" PROVE Kept
    OBVIOUS
  <2>1. pc \in Gates
    BY DEF GateInv
  <2>2. CASE \/ NotifyGate \/ UNCHANGED vars
             \/ SubmitHumanVote \/ SubmitPmSignoff \/ SubmitDeployApproval
    BY <2>2 DEF NotifyGate, vars, inboxes, SubmitHumanVote, SubmitPmSignoff, SubmitDeployApproval
  <2>3. CASE SubmitBudgetDecision \/ SubmitCodingBudget
    BY <2>3 DEF SubmitBudgetDecision, SubmitCodingBudget
  <2>4. CASE System /\ ~NotifyGate
    BY <2>1, <2>4
       DEF Gates, System, Activities, PmDraftBrief, CouncilAgentVotes,
           CouncilDecided, AgentStep, PmWritePrd, ArchitectReviewPrd, PmRevisePrd,
           UxGenerateMocks, ConsumerResearch, PmSignoff, PmReviseSignoff,
           ArchitectPlanStories, EstimateCodingBudget, CodingBudgetFunded,
           CodingBudgetDeclined, EngineeringPodReturns, DeployAnswered, DeployTimeout,
           Deploy, BudgetAnswered, BudgetTimeout, ActivityFails, PostDone
  <2> QED
    BY <2>2, <2>3, <2>4 DEF Next, Humans
<1> QED
  BY <1>1, GateInvHolds, PTL DEF Spec, OpenGateKeepsAnswer

-----------------------------------------------------------------------------
(* The two PRD loops                                                       *)

\* What n full rounds of the sign-off loop write: MaxPrdPasses revisions each,
\* and the version they start from.
Round(n) == n * (MaxPrdPasses + 1)

LEMMA RoundNat == ASSUME NEW n \in Nat PROVE Round(n) \in Nat
  BY FeatureAssumption DEF FeatureAssumption, Round

LEMMA RoundSucc == ASSUME NEW n \in Nat PROVE Round(n + 1) = Round(n) + MaxPrdPasses + 1
<1>1. MaxPrdPasses + 1 \in Nat
  BY FeatureAssumption DEF FeatureAssumption
<1>2. ASSUME NEW k \in Nat PROVE (n + 1) * k = n * k + k
  OBVIOUS
<1>3. (n + 1) * (MaxPrdPasses + 1) = n * (MaxPrdPasses + 1) + (MaxPrdPasses + 1)
  BY <1>1, <1>2
<1>4. n * (MaxPrdPasses + 1) \in Nat /\ MaxPrdPasses \in Nat
  BY FeatureAssumption DEF FeatureAssumption
<1> QED
  BY <1>3, <1>4 DEF Round

LEMMA RoundMono == ASSUME NEW m \in Nat, NEW n \in Nat, m <= n PROVE Round(m) <= Round(n)
<1>1. ASSUME NEW k \in Nat PROVE m * k <= n * k
  OBVIOUS
<1> QED
  BY <1>1, FeatureAssumption DEF FeatureAssumption, Round

Unwritten == BeforeCouncil \cup {"pm_write_prd"}
Refining == {"architect_review_prd", "pm_revise_prd"}
Refined == {"ux_generate_mocks", "consumer_research", "pm_signoff"}

\* Why RevisionBound holds: inside a round a version is written per pass; a
\* round in progress is one of those that the cap allows.
LoopInv ==
    /\ At \in Unwritten => prdVersion = 0 /\ revisions = 0
    /\ At \in Refining => prdVersion <= Round(revisions) + pass
    /\ At \in Refined => prdVersion <= Round(revisions) + MaxPrdPasses + 1
    /\ At = "pm_revise_signoff" => prdVersion <= Round(revisions)
    /\ At \in Refining \cup Refined \cup {"pm_revise_signoff"} =>
         revisions <= MaxSignoffRevisions
    /\ revisions <= MaxSignoffRevisions + 1
    /\ prdVersion <= Round(MaxSignoffRevisions + 1)

\* A round in progress fits into the rounds allowed.
LEMMA RoundFits ==
    ASSUME NEW n \in Nat, n <= MaxSignoffRevisions, NEW v \in Nat,
           v <= Round(n) + MaxPrdPasses + 1
    PROVE  v <= Round(MaxSignoffRevisions + 1)
<1>1. MaxSignoffRevisions + 1 \in Nat /\ n + 1 \in Nat /\ n + 1 <= MaxSignoffRevisions + 1
      /\ MaxPrdPasses \in Nat
  BY FeatureAssumption DEF FeatureAssumption
<1>2. Round(n + 1) <= Round(MaxSignoffRevisions + 1) /\ Round(n + 1) = Round(n) + MaxPrdPasses + 1
  BY <1>1, RoundMono, RoundSucc
<1>3. Round(n) \in Nat /\ Round(n + 1) \in Nat /\ Round(MaxSignoffRevisions + 1) \in Nat
  BY <1>1, RoundNat
<1> QED
  BY <1>1, <1>2, <1>3

LEMMA CheckedStepLoops ==
    ASSUME TypeOK, LoopInv, NEW r \in Checked, At = r,
           CheckBudget(r) \/ (pc = "budget_gate" /\ Proceed(r)), UNCHANGED revisions
    PROVE  LoopInv'
<1>t. /\ prdVersion \in Nat /\ pass \in Nat /\ pass >= 1 /\ pass <= MaxPrdPasses
      /\ revisions \in Nat /\ MaxPrdPasses \in Nat \ {0} /\ MaxSignoffRevisions \in Nat
      /\ Round(revisions) \in Nat /\ Round(MaxSignoffRevisions + 1) \in Nat
  BY FeatureAssumption, RoundNat DEF FeatureAssumption, TypeOK
<1> USE DEF Unwritten, Refining, Refined, BeforeCouncil
<1>1. CASE CheckBudget(r) /\ ~Proceed(r)
  <2>1. pc' = "budget_gate" /\ ret' = r /\ UNCHANGED <<prdVersion, pass>>
    BY <1>1 DEF CheckBudget, Open
  <2>2. At' = At
    BY <2>1 DEF At
  <2> QED
    BY <2>1, <2>2 DEF LoopInv
<1>2. CASE Proceed(r)
  <2>0. At' = pc'
    BY <1>2, ProceedGates DEF At
  <2>1. CASE r \in {"pm_draft_brief", "council_gate"}
    <3>1. pc' \in {"council_agent_vote", "pm_write_prd", "done_post"}
          /\ UNCHANGED <<prdVersion, pass>>
      BY <1>2, <2>1 DEF Proceed, GoTo, Finish, AfterCouncil
    <3> QED
      BY <2>0, <2>1, <3>1 DEF LoopInv
  <2>2. CASE r = "pm_write_prd"
    <3>1. pc' = "architect_review_prd" /\ prdVersion' = prdVersion + 1 /\ pass' = 1
      BY <1>2, <2>2 DEF Proceed, GoTo
    <3>2. prdVersion = 0 /\ revisions = 0
      BY <2>2 DEF LoopInv
    <3>3. prdVersion' <= Round(revisions) + pass'
          /\ prdVersion' <= Round(revisions) + MaxPrdPasses + 1 /\ prdVersion' \in Nat
      BY <1>t, <3>1, <3>2
    <3>4. revisions <= MaxSignoffRevisions
      BY <1>t, <3>2
    <3>5. prdVersion' <= Round(MaxSignoffRevisions + 1)
      BY <1>t, <3>3, <3>4, RoundFits
    <3> QED
      BY <1>t, <2>0, <3>1, <3>3, <3>4, <3>5 DEF LoopInv
  <2>3. CASE r = "pm_revise_signoff"
    <3>1. pc' = "architect_review_prd" /\ prdVersion' = prdVersion + 1 /\ pass' = 1
      BY <1>2, <2>3 DEF Proceed, GoTo
    <3>2. prdVersion <= Round(revisions) /\ revisions <= MaxSignoffRevisions
      BY <2>3 DEF LoopInv
    <3>3. prdVersion' <= Round(revisions) + pass'
          /\ prdVersion' <= Round(revisions) + MaxPrdPasses + 1 /\ prdVersion' \in Nat
      BY <1>t, <3>1, <3>2
    <3>4. prdVersion' <= Round(MaxSignoffRevisions + 1)
      BY <1>t, <3>2, <3>3, RoundFits
    <3> QED
      BY <1>t, <2>0, <3>1, <3>2, <3>3, <3>4 DEF LoopInv
  <2>4. CASE r = "pm_revise_prd"
    <3>1. /\ prdVersion' = prdVersion + 1
          /\ \/ pc' = "architect_review_prd" /\ pass' = pass + 1
             \/ pc' \in {"ux_generate_mocks", "consumer_research"}
      BY <1>2, <2>4 DEF Proceed, GoTo, AfterRefine, MorePasses
    <3>2. prdVersion <= Round(revisions) + pass /\ revisions <= MaxSignoffRevisions
      BY <2>4 DEF LoopInv
    <3>3. prdVersion' <= Round(revisions) + (pass + 1)
          /\ prdVersion' <= Round(revisions) + MaxPrdPasses + 1 /\ prdVersion' \in Nat
      BY <1>t, <3>1, <3>2
    <3>4. prdVersion' <= Round(MaxSignoffRevisions + 1)
      BY <1>t, <3>2, <3>3, RoundFits
    <3> QED
      BY <1>t, <2>0, <3>1, <3>2, <3>3, <3>4 DEF LoopInv
  <2>5. CASE r \in {"ux_generate_mocks", "consumer_research"}
    <3>1. pc' \in {"consumer_research", "pm_signoff"} /\ UNCHANGED <<prdVersion, pass>>
      BY <1>2, <2>5 DEF Proceed, GoTo, Open
    <3> QED
      BY <2>0, <2>5, <3>1 DEF LoopInv
  <2>6. CASE r \in {"architect_plan_stories", "engineering_pod", "deploy"}
    <3>1. pc' \in {"estimate_coding_budget", "done_post", "deploy_approval"}
          /\ UNCHANGED <<prdVersion, pass>>
      BY <1>2, <2>6 DEF Proceed, GoTo, Open, Finish, AfterPod
    <3> QED
      BY <2>0, <3>1 DEF LoopInv
  <2> QED
    BY <2>1, <2>2, <2>3, <2>4, <2>5, <2>6 DEF Checked, Activities
<1> QED
  BY <1>1, <1>2

LEMMA LoopInvHolds == Spec => []LoopInv
<1>1. Init => LoopInv
  <2>1. MaxSignoffRevisions \in Nat /\ Round(MaxSignoffRevisions + 1) \in Nat
    BY FeatureAssumption, RoundNat DEF FeatureAssumption
  <2> QED
    BY <2>1 DEF Init, LoopInv, At, Unwritten, Refining, Refined, BeforeCouncil
<1>2. TypeOK /\ LoopInv /\ [Next]_vars => LoopInv'
  <2> SUFFICES ASSUME TypeOK, LoopInv, [Next]_vars PROVE LoopInv'
    OBVIOUS
  <2> USE DEF Unwritten, Refining, Refined, BeforeCouncil
  <2>t. /\ prdVersion \in Nat /\ pass \in Nat /\ pass <= MaxPrdPasses
        /\ revisions \in Nat /\ MaxPrdPasses \in Nat /\ MaxSignoffRevisions \in Nat
        /\ Round(revisions) \in Nat
    BY FeatureAssumption, RoundNat DEF FeatureAssumption, TypeOK
  <2>1. CASE \/ PmDraftBrief \/ CouncilDecided \/ PmWritePrd \/ PmRevisePrd \/ UxGenerateMocks
             \/ ConsumerResearch \/ PmReviseSignoff \/ ArchitectPlanStories
             \/ EngineeringPodReturns \/ Deploy
    <3>1. pc \in Checked /\ CheckBudget(pc) /\ UNCHANGED revisions
      BY <2>1 DEF PmDraftBrief, CouncilDecided, AgentStep, PmWritePrd, PmRevisePrd,
                  UxGenerateMocks, ConsumerResearch, PmReviseSignoff, ArchitectPlanStories,
                  EngineeringPodReturns, Deploy, Spend, Checked, Activities
    <3>2. At = pc
      BY <3>1 DEF At, Checked, Activities
    <3> QED
      BY <3>1, <3>2, CheckedStepLoops
  <2>2. CASE CouncilAgentVotes
    BY <2>2 DEF CouncilAgentVotes, Open, prd, LoopInv, At
  <2>3. CASE ArchitectReviewPrd
    <3>1. /\ pc = "architect_review_prd"
          /\ pc' \in {"pm_revise_prd", "ux_generate_mocks", "consumer_research"}
          /\ UNCHANGED <<prdVersion, pass, revisions>>
      BY <2>3 DEF ArchitectReviewPrd, AfterRefine, GoTo, prd
    <3>2. prdVersion <= Round(revisions) + pass
      BY <3>1 DEF LoopInv, At
    <3>3. prdVersion <= Round(revisions) + MaxPrdPasses + 1
      BY <2>t, <3>2
    <3> QED
      BY <3>1, <3>2, <3>3 DEF LoopInv, At
  <2>4. CASE PmSignoff
    <3>1. pc = "pm_signoff" /\ UNCHANGED <<prdVersion, pass>>
      BY <2>4 DEF PmSignoff
    <3>2. CASE pc' = "architect_plan_stories" /\ UNCHANGED revisions
      BY <3>1, <3>2 DEF LoopInv, At
    <3>3. CASE /\ revisions' = revisions + 1
               /\ pc' = IF MayRevise THEN "pm_revise_signoff" ELSE "architect_plan_stories"
      <4>1. /\ prdVersion <= Round(revisions) + MaxPrdPasses + 1
            /\ revisions <= MaxSignoffRevisions
        BY <3>1 DEF LoopInv, At
      <4>2. Round(revisions') = Round(revisions) + MaxPrdPasses + 1
        BY <2>t, <3>3, RoundSucc
      <4>3. prdVersion' <= Round(revisions')
        BY <3>1, <4>1, <4>2
      <4>4. revisions' <= MaxSignoffRevisions + 1
        BY <2>t, <3>3, <4>1
      <4>5. pc' = "pm_revise_signoff" => revisions' <= MaxSignoffRevisions
        BY <2>t, <3>3 DEF MayRevise
      <4>6. pc' \in {"pm_revise_signoff", "architect_plan_stories"}
        BY <3>3
      <4> QED
        BY <3>1, <4>3, <4>4, <4>5, <4>6 DEF LoopInv, At
    <3> QED
      BY <2>4, <3>2, <3>3 DEF PmSignoff, GoTo
  <2>5. CASE \/ EstimateCodingBudget \/ CodingBudgetFunded \/ CodingBudgetDeclined
             \/ DeployAnswered \/ DeployTimeout \/ BudgetTimeout \/ ActivityFails \/ PostDone
    <3>1. UNCHANGED <<prdVersion, pass, revisions>>
      BY <2>5 DEF EstimateCodingBudget, CodingBudgetFunded, CodingBudgetDeclined,
                  DeployAnswered, DeployTimeout, BudgetTimeout, ActivityFails, PostDone, prd
    <3>2. pc' \in {"coding_budget_gate", "engineering_pod", "deploy", "done_post", "failed",
                   "closed"}
      BY <2>5 DEF EstimateCodingBudget, CodingBudgetFunded, CodingBudgetDeclined,
                  DeployAnswered, DeployTimeout, BudgetTimeout, ActivityFails, PostDone,
                  FundRound, GoTo, Open, Finish
    <3> QED
      BY <3>1, <3>2 DEF LoopInv, At
  <2>6. CASE BudgetAnswered
    <3>1. pc = "budget_gate" /\ UNCHANGED revisions /\ At = ret /\ ret \in Checked
      BY <2>6 DEF BudgetAnswered, At, TypeOK
    <3>2. CASE Proceed(ret)
      BY <3>1, <3>2, CheckedStepLoops
    <3>3. CASE Finish("OVER_BUDGET") /\ UNCHANGED <<prdVersion, pass>>
      BY <3>1, <3>3 DEF Finish, LoopInv, At
    <3> QED
      BY <2>6, <3>2, <3>3 DEF BudgetAnswered
  <2>7. CASE Quiet
    BY <2>7, QuietFrame DEF LoopInv, At, prd
  <2> QED
    BY <2>1, <2>2, <2>3, <2>4, <2>5, <2>6, <2>7 DEF Next, System, Quiet
<1> QED
  BY <1>1, <1>2, TypeCorrect, PTL DEF Spec

\* _refine_prd and the sign-off loop around it: their caps multiply, and
\* nothing else, budget gates included, writes a version of the PRD.
THEOREM RevisionsBounded == Spec => []RevisionBound
<1>1. LoopInv => RevisionBound
  BY DEF LoopInv, RevisionBound, Round
<1> QED
  BY <1>1, LoopInvHolds, PTL

-----------------------------------------------------------------------------
(* The refinement of GatedDelivery                                         *)

\* What the refinement shows of code, of the authorization and of the outcome.
Verdict == IF ~pod.ran THEN "none" ELSE IF pod.qa /\ pod.ci THEN "green" ELSE "red"
Authorized == pc = "deploy" \/ deployed # "none"
Outcome == IF pc = "failed" THEN "failed"
           ELSE IF status = "SHIPPED" THEN "released"
           ELSE IF pc \in {"done_post", "closed"} THEN "stopped" ELSE "open"

\* Until a run has finished it is open, and authorized at the deploy only.
LEMMA OutcomeOf ==
    ASSUME PathInv
    PROVE  /\ pc \notin Finished \cup {"failed"} => Outcome = "open"
           /\ pc \notin Finished /\ pc # "deploy" => ~Authorized
           /\ pc = "deploy" => Authorized
  BY DEF PathInv, Outcome, Authorized, Finished

LEMMA VerdictOf ==
    ASSUME TypeOK, PathInv
    PROVE  /\ Verdict = "none" <=> ~pod.ran
           /\ pc \in BeforePod \cup {"engineering_pod"} => Verdict = "none"
           /\ pc \in Locked => Verdict = "green"
  BY DEF PathInv, Verdict, Locked, PodGreen, At, BeforePod, Settled, Unsettled

LEMMA SameVerdict ==
    ASSUME UNCHANGED pod
    PROVE  Verdict' = Verdict
  BY DEF Verdict

\* A step that leaves all that the abstraction shows.
LEMMA Stutter ==
    ASSUME UNCHANGED <<money, deployApproved, pod>>,
           Authorized' = Authorized, Outcome' = Outcome
    PROVE  UNCHANGED Delivery!deliveryVars
  BY SameVerdict DEF Delivery!deliveryVars, money, Verdict, Authorized, Outcome

\* A checked step before the pod stays before it, or stops.
LEMMA ProceedsBeforePod ==
    ASSUME PathInv, NEW r \in BeforePod \cap Checked, pc \notin Finished,
           Proceed(r) \/ CheckBudget(r)
    PROVE  pc' \in BeforePod \cup {"budget_gate", "done_post"} /\ status' # "SHIPPED"
<1>1. status # "SHIPPED"
  BY DEF PathInv
<1>2. CASE Proceed(r)
  BY <1>1, <1>2 DEF Proceed, GoTo, Open, Finish, AfterRefine, AfterCouncil, BeforePod, Settled,
                    Unsettled
<1>3. CASE Open("budget_gate")
  BY <1>1, <1>3 DEF Open
<1> QED
  BY <1>2, <1>3 DEF CheckBudget

\* A step before the pod that pays an agent: at most one unchecked call is
\* above the ceiling when it starts.
LEMMA PayStep ==
    ASSUME TypeOK, TypeOK', MoneyInv, PathInv, pc \in BeforePod,
           pc' \in BeforePod \cup {"budget_gate", "done_post"}, status' # "SHIPPED",
           cost' >= cost, UNCHANGED <<ceiling, overridden, deployApproved, pod, deployed>>
    PROVE  Delivery!Pay
<1>1. pc \notin Finished \cup Locked \cup {"failed"}
  BY DEF BeforePod, Settled, Unsettled, Finished, Locked
<1>2. Outcome = "open" /\ ~Authorized /\ Verdict = "none"
  BY <1>1, OutcomeOf, VerdictOf DEF Locked
<1>3. cost \in Nat /\ ceiling \in Nat /\ MaxStepCost \in Nat /\ cost' \in Nat
  BY FeatureAssumption DEF FeatureAssumption, TypeOK
<1>4. ~overridden => cost <= ceiling + MaxStepCost
  BY <1>3 DEF MoneyInv, BeforePod
<1>5. pc' \notin Locked \cup {"failed", "closed"}
  BY DEF BeforePod, Settled, Unsettled, Locked
<1>6. Outcome' \in {"open", "stopped"} /\ ~Authorized'
  BY <1>1, <1>2, <1>5 DEF Outcome, Authorized, Locked
<1>7. Authorized' = Authorized
  BY <1>2, <1>6 DEF Authorized
<1> QED
  BY <1>2, <1>3, <1>4, <1>6, <1>7, SameVerdict
     DEF Delivery!Pay, Delivery!Open, Delivery!GoesOnOrStops, Outcome, Verdict, Authorized

\* A step of the feature workflow is a step of the delivery, or none.
LEMMA StepImplements ==
    ASSUME TypeOK, TypeOK', MoneyInv, PathInv, PathInv', [Next]_vars
    PROVE  [Delivery!Next]_(Delivery!deliveryVars)
<1>t. /\ cost \in Nat /\ ceiling \in Nat /\ overridden \in BOOLEAN
      /\ cost' \in Nat /\ ceiling' \in Nat /\ ret \in Checked
  BY DEF TypeOK
<1>c. \A c \in StepCosts : c \in Nat
  BY FeatureAssumption DEF FeatureAssumption
<1>1. CASE \/ PmDraftBrief \/ CouncilDecided \/ PmWritePrd \/ PmRevisePrd \/ UxGenerateMocks
           \/ ConsumerResearch \/ PmReviseSignoff \/ ArchitectPlanStories
  <2>1. PICK r \in BeforePod \cap Checked, c \in StepCosts \cup {0} : pc = r /\ Spend(c, r)
    BY <1>1 DEF PmDraftBrief, CouncilDecided, AgentStep, PmWritePrd, PmRevisePrd,
                UxGenerateMocks, ConsumerResearch, PmReviseSignoff, ArchitectPlanStories,
                Checked, Activities, BeforePod, Settled, Unsettled
  <2>2. UNCHANGED <<ceiling, overridden, deployApproved, pod, deployed>>
    BY <1>1 DEF PmDraftBrief, CouncilDecided, AgentStep, PmWritePrd, PmRevisePrd,
                UxGenerateMocks, ConsumerResearch, PmReviseSignoff, ArchitectPlanStories,
                delivery
  <2>3. cost' >= cost
    BY <1>t, <1>c, <2>1 DEF Spend
  <2>4. pc \notin Finished
    BY <2>1 DEF BeforePod, Settled, Unsettled, Finished
  <2>5. pc' \in BeforePod \cup {"budget_gate", "done_post"} /\ status' # "SHIPPED"
    BY <2>1, <2>4, ProceedsBeforePod DEF Spend
  <2> QED
    BY <2>1, <2>2, <2>3, <2>5, PayStep DEF Delivery!Next
<1>2. CASE CouncilAgentVotes \/ ArchitectReviewPrd
  <2>1. PICK c \in StepCosts : cost' = cost + c
    BY <1>2 DEF CouncilAgentVotes, ArchitectReviewPrd, SpendRaw
  <2>2. cost' >= cost
    BY <1>t, <1>c, <2>1
  <2>3. /\ pc \in BeforePod /\ pc' \in BeforePod
        /\ UNCHANGED <<status, ceiling, overridden, deployApproved, pod, deployed>>
    BY <1>2 DEF CouncilAgentVotes, ArchitectReviewPrd, AfterRefine, GoTo, Open, inboxes,
                delivery, BeforePod, Settled, Unsettled
  <2>4. status' # "SHIPPED"
    BY <2>3 DEF PathInv, BeforePod, Settled, Unsettled, Finished
  <2> QED
    BY <2>2, <2>3, <2>4, PayStep DEF Delivery!Next
<1>3. CASE PmSignoff \/ EstimateCodingBudget
  <2>1. /\ pc \in {"pm_signoff", "estimate_coding_budget"}
        /\ pc' \in {"pm_revise_signoff", "architect_plan_stories", "coding_budget_gate",
                    "engineering_pod"}
        /\ UNCHANGED <<status, money, deployApproved, delivery>>
    BY <1>3 DEF PmSignoff, EstimateCodingBudget, GoTo, Open
  <2>2. Outcome = "open" /\ Outcome' = "open" /\ ~Authorized /\ ~Authorized'
    BY <2>1, OutcomeOf DEF Finished, PathInv, Outcome, Authorized, delivery
  <2>3. Authorized' = Authorized
    BY <2>2 DEF Authorized
  <2> QED
    BY <2>1, <2>2, <2>3, Stutter DEF delivery
<1>4. CASE CodingBudgetFunded
  <2>1. PICK budget \in Nat : FundRound(budget)
    BY <1>4, FeatureAssumption DEF FeatureAssumption, CodingBudgetFunded, TypeOK, Answer
  <2>2. /\ pc = "coding_budget_gate" /\ pc' = "engineering_pod"
        /\ UNCHANGED <<status, cost, overridden, pod, deployed, deployApproved>>
    BY <1>4 DEF CodingBudgetFunded, FundRound, GoTo, inboxes
  <2>3. /\ Outcome = "open" /\ Outcome' = "open" /\ ~Authorized /\ ~Authorized'
        /\ Verdict = "none"
    BY <2>2, OutcomeOf, VerdictOf
       DEF Finished, PathInv, Outcome, Authorized, BeforePod, Settled
  <2>4. Authorized' = Authorized /\ Outcome' = Outcome
    BY <2>3 DEF Authorized
  <2>5. ceiling' >= ceiling
    BY <1>t, <2>1 DEF FundRound, LiftedCeiling
  <2>6. overridden \/ cost <= ceiling
    BY <1>t, <2>2 DEF MoneyInv, Settled
  <2> QED
    BY <1>t, <2>2, <2>3, <2>4, <2>5, <2>6, SameVerdict
       DEF Delivery!Next, Delivery!Fund, Delivery!Open, Delivery!Sanctioned, Outcome, Verdict,
           Authorized
<1>5. CASE EngineeringPodReturns
  <2>1. PICK c \in PodCosts : Spend(c, "engineering_pod") /\ pod'.ran
    BY <1>5 DEF EngineeringPodReturns
  <2>2. /\ pc = "engineering_pod"
        /\ UNCHANGED <<ceiling, overridden, deployApproved, deployed>>
    BY <1>5 DEF EngineeringPodReturns
  <2>3. cost' >= cost
    BY <1>t, <2>1, FeatureAssumption DEF FeatureAssumption, Spend
  <2>4. Outcome = "open" /\ ~Authorized /\ Verdict = "none" /\ status = "RUNNING"
    BY <2>2, OutcomeOf, VerdictOf DEF Finished, PathInv
  <2>5. pc' \in {"deploy_approval", "done_post", "budget_gate"} /\ status' # "SHIPPED"
    BY <2>1, <2>4 DEF Spend, CheckBudget, Proceed, AfterPod, Open, Finish
  <2>6. Verdict' \in {"green", "red"}
    BY <2>1 DEF Verdict
  <2>7. Outcome' \in {"open", "stopped"} /\ ~Authorized'
    BY <2>2, <2>4, <2>5 DEF Outcome, Authorized
  <2>8. Authorized' = Authorized
    BY <2>4, <2>7 DEF Authorized
  <2>9. overridden \/ cost <= ceiling
    BY <1>t, <2>2 DEF MoneyInv, Settled
  <2> QED
    BY <1>t, <2>1, <2>2, <2>3, <2>4, <2>6, <2>7, <2>8, <2>9
       DEF Delivery!Next, Delivery!Code, Delivery!Open, Delivery!Sanctioned,
           Delivery!GoesOnOrStops, Outcome, Verdict, Authorized
<1>6. CASE DeployAnswered /\ GoTo("deploy")
  <2>1. /\ pc = "deploy_approval" /\ pc' = "deploy"
        /\ UNCHANGED <<status, money, delivery, deployApproved>>
    BY <1>6 DEF DeployAnswered, GoTo, inboxes
  <2>2. deployApproved = "yes"
    BY <1>6 DEF DeployAnswered, GoTo, Finish
  <2>3. /\ Outcome = "open" /\ Outcome' = "open" /\ ~Authorized /\ Authorized'
        /\ Verdict = "green"
    BY <2>1, OutcomeOf, VerdictOf DEF Locked, Finished, PathInv, Outcome, Authorized
  <2>4. Authorized' = TRUE /\ Outcome' = Outcome
    BY <2>3 DEF Authorized
  <2>5. overridden \/ cost <= ceiling
    BY <1>t, <2>1 DEF MoneyInv, Settled
  <2> QED
    BY <2>1, <2>2, <2>3, <2>4, <2>5, SameVerdict
       DEF Delivery!Next, Delivery!Authorize, Delivery!Open, Delivery!Sanctioned, Outcome,
           Verdict, Authorized, money, delivery
<1>7. CASE \/ CodingBudgetDeclined \/ DeployTimeout \/ BudgetTimeout
           \/ (DeployAnswered /\ Finish("HELD"))
           \/ (BudgetAnswered /\ Finish("OVER_BUDGET") /\ UNCHANGED <<overridden, pod>>)
  <2>1. /\ pc \in {"coding_budget_gate", "deploy_approval", "budget_gate"}
        /\ pc' = "done_post" /\ status' # "SHIPPED"
        /\ UNCHANGED <<money, pod, deployed, deployApproved>>
    BY <1>7 DEF CodingBudgetDeclined, DeployAnswered, DeployTimeout, BudgetTimeout,
                BudgetAnswered, Finish, inboxes, money, delivery
  <2>2. Outcome = "open" /\ ~Authorized /\ Outcome' = "stopped" /\ ~Authorized'
    BY <2>1, OutcomeOf DEF Finished, Outcome, Authorized
  <2>3. Authorized' = Authorized
    BY <2>2 DEF Authorized
  <2> QED
    BY <2>1, <2>2, <2>3, SameVerdict
       DEF Delivery!Next, Delivery!Stop, Delivery!Open, Outcome, Verdict, Authorized, money
<1>8. CASE Deploy
  <2>1. /\ pc = "deploy" /\ deployed' \in {"yes", "no"} /\ Spend(0, "deploy")
        /\ UNCHANGED <<ceiling, overridden, pod, deployApproved>>
    BY <1>8 DEF Deploy
  <2>2. cost' = cost /\ (overridden \/ cost <= ceiling)
    BY <1>t, <2>1 DEF Spend, MoneyInv, Settled
  <2>3. pc' = "done_post" /\ status' = "SHIPPED"
    BY <2>1, <2>2 DEF Spend, CheckBudget, WithinBudget, Proceed, Finish
  <2>4. Outcome = "open" /\ Authorized /\ Outcome' = "released" /\ Authorized'
    BY <2>1, <2>3, OutcomeOf DEF Finished, Outcome, Authorized
  <2>5. Authorized' = Authorized
    BY <2>4 DEF Authorized
  <2> QED
    BY <2>1, <2>2, <2>4, <2>5, SameVerdict
       DEF Delivery!Next, Delivery!Release, Delivery!Open, Outcome, Verdict, Authorized
<1>9. CASE BudgetAnswered /\ overridden' = TRUE /\ pod' = pod /\ Proceed(ret)
  <2>1. /\ pc = "budget_gate" /\ ret # "deploy" /\ ~overridden /\ cost > ceiling
        /\ status = "RUNNING"
        /\ UNCHANGED <<cost, ceiling, deployed, deployApproved>>
    BY <1>9 DEF BudgetAnswered, MoneyInv, PathInv, Finished, inboxes
  <2>2. /\ pc' \in BeforePod \cup {"deploy_approval", "done_post"}
        /\ status' # "SHIPPED"
    BY <1>t, <1>9, <2>1
       DEF Proceed, AfterPod, AfterCouncil, AfterRefine, GoTo, Open, Finish, BeforePod,
           Settled, Unsettled, Checked, Activities
  <2>3. Outcome = "open" /\ ~Authorized
    BY <2>1, OutcomeOf DEF Finished
  <2>4. Outcome' \in {"open", "stopped"} /\ ~Authorized'
    BY <2>1, <2>2, <2>3 DEF Outcome, Authorized, BeforePod, Settled, Unsettled
  <2>5. Authorized' = Authorized
    BY <2>3, <2>4 DEF Authorized
  <2>6. ~(overridden \/ cost <= ceiling)
    BY <1>t, <2>1
  <2> QED
    BY <1>9, <2>1, <2>3, <2>4, <2>5, <2>6, SameVerdict
       DEF Delivery!Next, Delivery!Exempt, Delivery!Open, Delivery!Sanctioned,
           Delivery!GoesOnOrStops, Outcome, Verdict, Authorized
<1>10. CASE ActivityFails
  <2>1. /\ pc \in Activities /\ pc' = "failed"
        /\ UNCHANGED <<status, money, delivery, deployApproved>>
    BY <1>10 DEF ActivityFails, inboxes
  <2>2. Outcome = "open" /\ deployed = "none"
    BY <2>1, OutcomeOf DEF Activities, Finished, PathInv
  <2>3. Outcome' = "failed" /\ Authorized' = FALSE
    BY <2>1, <2>2 DEF Outcome, Authorized, delivery
  <2> QED
    BY <2>1, <2>2, <2>3, SameVerdict
       DEF Delivery!Next, Delivery!Fail, Delivery!Open, Outcome, Verdict, Authorized, money,
           delivery
<1>11. CASE PostDone
  <2>1. /\ pc = "done_post" /\ pc' = "closed"
        /\ UNCHANGED <<status, money, delivery, deployApproved>>
    BY <1>11 DEF PostDone, inboxes
  <2>2. Outcome' = Outcome
    BY <2>1 DEF Outcome
  <2>3. Authorized' = Authorized
    BY <2>1 DEF Authorized, delivery
  <2> QED
    BY <2>1, <2>2, <2>3, Stutter DEF delivery
<1>12. CASE Quiet
  <2>1. UNCHANGED <<pc, status, money, delivery>>
    BY <1>12, QuietFrame
  <2>2. Outcome' = Outcome
    BY <2>1 DEF Outcome
  <2>3. Authorized' = Authorized
    BY <2>1 DEF Authorized, delivery
  <2>4. CASE SubmitDeployApproval
    <3>1. deployApproved' \in {"yes", "no"}
      BY <2>4 DEF SubmitDeployApproval
    <3> QED
      BY <2>1, <2>2, <2>3, <3>1, SameVerdict
         DEF Delivery!Next, Delivery!Consent, Outcome, Verdict, Authorized, money, delivery
  <2>5. CASE ~SubmitDeployApproval
    <3>1. UNCHANGED deployApproved
      BY <1>12, <2>5 DEF Quiet, Humans, NotifyGate, SubmitHumanVote, SubmitPmSignoff,
                         SubmitBudgetDecision, SubmitCodingBudget, vars, inboxes
    <3> QED
      BY <2>1, <2>2, <2>3, <3>1, Stutter DEF delivery
  <2> QED
    BY <2>4, <2>5
<1>13. CASE BudgetAnswered \/ DeployAnswered
  <2>1. CASE BudgetAnswered
    BY <1>7, <1>9, <2>1 DEF BudgetAnswered
  <2>2. CASE DeployAnswered
    BY <1>6, <1>7, <2>2 DEF DeployAnswered
  <2> QED
    BY <1>13, <2>1, <2>2
<1>14. CASE CodingBudgetDeclined \/ DeployTimeout \/ BudgetTimeout
  BY <1>7, <1>14
<1> QED
  BY <1>1, <1>2, <1>3, <1>4, <1>5, <1>8, <1>10, <1>11, <1>12, <1>13, <1>14
     DEF Next, System, Quiet

\* However many gates and loops it takes, the feature workflow keeps what
\* GatedDelivery promises: an agent is paid while at most one unchecked call is
\* above the ceiling, only green code is released, by a person's consent, and
\* an ended run stays ended.
THEOREM DeliveryImplemented == Spec => ImplementsDelivery
<1>1. Init => Delivery!Init
  BY DEF Init, Delivery!Init
<1>2. TypeOK /\ TypeOK' /\ MoneyInv /\ PathInv /\ PathInv' /\ [Next]_vars
        => [Delivery!Next]_(Delivery!deliveryVars)
  BY StepImplements
<1> QED
  BY <1>1, <1>2, TypeCorrect, MoneyInvHolds, PathInvHolds, PTL
     DEF Spec, ImplementsDelivery, Delivery!Spec

-----------------------------------------------------------------------------
(* How long a run can take                                                 *)

\* The steps of the workflow in the order in which a sign-off round takes them.
Rank(step) ==
    CASE step = "pm_draft_brief" -> 15
      [] step = "council_agent_vote" -> 14
      [] step = "council_gate" -> 13
      [] step \in {"pm_write_prd", "pm_revise_signoff"} -> 12
      [] step \in Refining -> 11
      [] step = "ux_generate_mocks" -> 10
      [] step = "consumer_research" -> 9
      [] step = "pm_signoff" -> 8
      [] step = "architect_plan_stories" -> 7
      [] step = "estimate_coding_budget" -> 6
      [] step = "coding_budget_gate" -> 5
      [] step = "engineering_pod" -> 4
      [] step = "deploy_approval" -> 3
      [] step = "deploy" -> 2
      [] step = "done_post" -> 1
      [] OTHER -> 0

\* What is left of a run: sign-off rounds, steps of this round, passes of the
\* PRD loop, and the parts of the step: a review and its revision, the card of
\* its gate, the budget gate behind it with a card of its own.
RoundsLeft == MaxSignoffRevisions + 1 - revisions
StagesLeft == Rank(At)
PassesLeft == MaxPrdPasses - pass
PartsLeft ==
    (IF card = "posting" THEN 1 ELSE 0)
    + (IF pc = "budget_gate" THEN 0 ELSE IF pc = "architect_review_prd" THEN 4 ELSE 2)

StepsLeft == 6 * (MaxPrdPasses * (16 * RoundsLeft + StagesLeft) + PassesLeft) + PartsLeft

MaxSteps == 6 * (MaxPrdPasses * (16 * (MaxSignoffRevisions + 1) + 15) + (MaxPrdPasses - 1)) + 2

LEMMA LeftNat ==
    TypeOK /\ LoopInv =>
        /\ RoundsLeft \in Nat /\ StagesLeft \in 0 .. 15
        /\ PassesLeft \in 0 .. MaxPrdPasses - 1 /\ PartsLeft \in 0 .. 5
        /\ StepsLeft \in Nat
<1> SUFFICES ASSUME TypeOK, LoopInv
             PROVE  /\ RoundsLeft \in Nat /\ StagesLeft \in 0 .. 15
                    /\ PassesLeft \in 0 .. MaxPrdPasses - 1 /\ PartsLeft \in 0 .. 5
                    /\ StepsLeft \in Nat
  OBVIOUS
<1>1. /\ revisions \in Nat /\ pass \in 1 .. MaxPrdPasses
      /\ MaxPrdPasses \in Nat \ {0} /\ MaxSignoffRevisions \in Nat
  BY FeatureAssumption DEF FeatureAssumption, TypeOK
<1>2. revisions <= MaxSignoffRevisions + 1
  BY DEF LoopInv
<1>3. RoundsLeft \in Nat /\ PassesLeft \in 0 .. MaxPrdPasses - 1
  BY <1>1, <1>2 DEF RoundsLeft, PassesLeft
<1>4. StagesLeft \in 0 .. 15
  BY DEF StagesLeft, Rank
<1>5. PartsLeft \in 0 .. 5
  BY DEF PartsLeft
<1>6. MaxPrdPasses * (16 * RoundsLeft + StagesLeft) \in Nat
  BY <1>1, <1>3, <1>4
<1> QED
  BY <1>3, <1>4, <1>5, <1>6 DEF StepsLeft

\* The order behind StepsLeft.
LEMMA StepsLowered ==
    ASSUME NEW m \in Nat \ {0}, NEW a \in Nat, NEW b \in Nat, NEW i \in 0 .. 15, NEW j \in 0 .. 15,
           NEW u \in 0 .. m - 1, NEW v \in 0 .. m - 1, NEW x \in 0 .. 5, NEW y \in 0 .. 5,
           \/ b < a
           \/ b = a /\ j < i
           \/ b = a /\ j = i /\ v < u
           \/ b = a /\ j = i /\ v = u /\ y < x
    PROVE  6 * (m * (16 * b + j) + v) + y < 6 * (m * (16 * a + i) + u) + x
<1> DEFINE p == 16 * a + i
           q == 16 * b + j
<1>1. /\ p \in Nat /\ q \in Nat
      /\ (q < p \/ (q = p /\ v < u) \/ (q = p /\ v = u /\ y < x))
  OBVIOUS
<1> HIDE DEF p, q
<1>2. m * p \in Nat /\ m * q \in Nat
  BY <1>1
<1>3. CASE q < p
  <2>1. m * (q + 1) = m * q + m
    BY <1>1
  <2>2. \E d \in Nat : p = q + 1 + d
    <3>1. p - (q + 1) \in Nat /\ p = q + 1 + (p - (q + 1))
      BY <1>1, <1>3
    <3> QED
      BY <3>1
  <2>3. PICK d \in Nat : p = q + 1 + d
    BY <2>2
  <2>4. m * (q + 1 + d) = m * (q + 1) + m * d /\ m * d \in Nat
    BY <1>1
  <2>5. m * q + m <= m * p
    BY <1>2, <2>1, <2>3, <2>4
  <2> QED
    BY <1>2, <2>5 DEF p, q
<1>4. CASE q = p
  BY <1>1, <1>2, <1>4 DEF p, q
<1> QED
  BY <1>1, <1>3, <1>4

\* A step uses up a round, a step of the round, a pass, or a part of the step.
Lowers ==
    \/ RoundsLeft' < RoundsLeft
    \/ RoundsLeft' = RoundsLeft /\ StagesLeft' < StagesLeft
    \/ RoundsLeft' = RoundsLeft /\ StagesLeft' = StagesLeft /\ PassesLeft' < PassesLeft
    \/ /\ RoundsLeft' = RoundsLeft /\ StagesLeft' = StagesLeft /\ PassesLeft' = PassesLeft
       /\ PartsLeft' < PartsLeft

LEMMA RankLowers ==
    ASSUME UNCHANGED revisions, Rank(At') < Rank(At)
    PROVE  Lowers
  BY DEF Lowers, RoundsLeft, StagesLeft, Rank

\* A checked step either stops at the budget gate or goes on from it.
LEMMA CheckedStepLowers ==
    ASSUME TypeOK, NEW r \in Checked, At = r, UNCHANGED revisions,
           (pc = r /\ CheckBudget(r)) \/ (pc = "budget_gate" /\ Proceed(r))
    PROVE  Lowers
<1>t. pass \in Nat /\ MaxPrdPasses \in Nat
  BY FeatureAssumption DEF FeatureAssumption, TypeOK
<1>1. CASE pc = r /\ CheckBudget(r) /\ ~Proceed(r)
  <2>1. pc' = "budget_gate" /\ ret' = r /\ card' = "posting" /\ UNCHANGED pass
    BY <1>1 DEF CheckBudget, Open
  <2>2. At' = At
    BY <2>1 DEF At
  <2>3. PartsLeft' < PartsLeft
    BY <1>1, <2>1 DEF PartsLeft, Checked, Activities
  <2> QED
    BY <2>1, <2>2, <2>3 DEF Lowers, RoundsLeft, StagesLeft, Rank, PassesLeft
<1>2. CASE Proceed(r)
  <2>1. At' = pc'
    BY <1>2, ProceedGates DEF At
  <2>2. CASE r = "pm_revise_prd" /\ MorePasses
    <3>1. pc' = "architect_review_prd" /\ pass' = pass + 1
      BY <1>2, <2>2 DEF Proceed, GoTo
    <3>2. PassesLeft' < PassesLeft
      BY <1>t, <3>1 DEF PassesLeft
    <3> QED
      BY <2>1, <2>2, <3>1, <3>2 DEF Lowers, RoundsLeft, StagesLeft, Rank, Refining
  <2>3. CASE ~(r = "pm_revise_prd" /\ MorePasses)
    <3>1. \/ r = "pm_draft_brief" /\ pc' = "council_agent_vote"
          \/ r = "council_gate" /\ pc' \in {"pm_write_prd", "done_post"}
          \/ r \in {"pm_write_prd", "pm_revise_signoff"} /\ pc' = "architect_review_prd"
          \/ r = "pm_revise_prd" /\ pc' \in {"ux_generate_mocks", "consumer_research"}
          \/ r = "ux_generate_mocks" /\ pc' = "consumer_research"
          \/ r = "consumer_research" /\ pc' = "pm_signoff"
          \/ r = "architect_plan_stories" /\ pc' = "estimate_coding_budget"
          \/ r = "engineering_pod" /\ pc' \in {"deploy_approval", "done_post"}
          \/ r = "deploy" /\ pc' = "done_post"
      <4> USE DEF GoTo, Open, Finish
      <4>1. CASE r = "pm_draft_brief"
        BY <1>2, <4>1 DEF Proceed
      <4>2. CASE r = "council_gate"
        BY <1>2, <4>2 DEF Proceed, AfterCouncil
      <4>3. CASE r \in {"pm_write_prd", "pm_revise_signoff"}
        BY <1>2, <4>3 DEF Proceed
      <4>4. CASE r = "pm_revise_prd"
        BY <1>2, <2>3, <4>4 DEF Proceed, AfterRefine
      <4>5. CASE r \in {"ux_generate_mocks", "consumer_research", "architect_plan_stories", "deploy"}
        BY <1>2, <4>5 DEF Proceed
      <4>6. CASE r = "engineering_pod"
        BY <1>2, <4>6 DEF Proceed, AfterPod
      <4> QED
        BY <4>1, <4>2, <4>3, <4>4, <4>5, <4>6 DEF Checked, Activities
    <3>2. Rank(pc') < Rank(r)
      BY <3>1 DEF Rank, Refining
    <3> QED
      BY <2>1, <3>2, RankLowers
  <2> QED
    BY <2>2, <2>3
<1> QED
  BY <1>1, <1>2

LEMMA SystemLowers ==
    ASSUME TypeOK, LoopInv, System
    PROVE  Lowers
<1>t. revisions \in Nat /\ MaxSignoffRevisions \in Nat
  BY FeatureAssumption DEF FeatureAssumption, TypeOK
<1>1. CASE \/ PmDraftBrief \/ CouncilDecided \/ PmWritePrd \/ PmRevisePrd \/ UxGenerateMocks
           \/ ConsumerResearch \/ PmReviseSignoff \/ ArchitectPlanStories
           \/ EngineeringPodReturns \/ Deploy
  <2>1. pc \in Checked /\ CheckBudget(pc) /\ UNCHANGED revisions
    BY <1>1 DEF PmDraftBrief, CouncilDecided, AgentStep, PmWritePrd, PmRevisePrd,
                UxGenerateMocks, ConsumerResearch, PmReviseSignoff, ArchitectPlanStories,
                EngineeringPodReturns, Deploy, Spend, Checked, Activities
  <2>2. At = pc
    BY <2>1 DEF At, Checked, Activities
  <2> QED
    BY <2>1, <2>2, CheckedStepLowers
<1>2. CASE \/ CouncilAgentVotes \/ EstimateCodingBudget \/ CodingBudgetFunded
           \/ CodingBudgetDeclined \/ DeployAnswered \/ DeployTimeout \/ PostDone
  <2>1. UNCHANGED revisions
    BY <1>2 DEF CouncilAgentVotes, EstimateCodingBudget, CodingBudgetFunded,
                CodingBudgetDeclined, DeployAnswered, DeployTimeout, PostDone, prd
  <2>2. \/ pc = "council_agent_vote" /\ pc' = "council_gate"
        \/ pc = "estimate_coding_budget" /\ pc' \in {"coding_budget_gate", "engineering_pod"}
        \/ pc = "coding_budget_gate" /\ pc' \in {"engineering_pod", "done_post"}
        \/ pc = "deploy_approval" /\ pc' \in {"deploy", "done_post"}
        \/ pc = "done_post" /\ pc' = "closed"
    BY <1>2 DEF CouncilAgentVotes, EstimateCodingBudget, CodingBudgetFunded,
                CodingBudgetDeclined, DeployAnswered, DeployTimeout, PostDone, FundRound,
                GoTo, Open, Finish
  <2>3. Rank(pc') < Rank(pc)
    BY <2>2 DEF Rank, Refining
  <2>4. At = pc /\ At' = pc'
    BY <2>2 DEF At
  <2> QED
    BY <2>1, <2>3, <2>4, RankLowers
<1>3. CASE ActivityFails
  <2>1. pc \in Activities /\ pc' = "failed" /\ UNCHANGED revisions
    BY <1>3 DEF ActivityFails, prd
  <2>2. Rank(pc') < Rank(pc)
    BY <2>1 DEF Rank, Refining, Activities
  <2> QED
    BY <2>1, <2>2, RankLowers DEF At, Activities
<1>4. CASE BudgetTimeout \/ (BudgetAnswered /\ Finish("OVER_BUDGET"))
  <2>1. /\ pc = "budget_gate" /\ ret \in Checked /\ pc' = "done_post" /\ UNCHANGED revisions
    BY <1>4 DEF BudgetTimeout, BudgetAnswered, Finish, prd, TypeOK
  <2>2. Rank(pc') < Rank(ret)
    BY <2>1 DEF Rank, Refining, Checked, Activities
  <2> QED
    BY <2>1, <2>2, RankLowers DEF At
<1>5. CASE BudgetAnswered /\ Proceed(ret)
  <2>1. pc = "budget_gate" /\ At = ret /\ ret \in Checked /\ UNCHANGED revisions
    BY <1>5 DEF BudgetAnswered, At, TypeOK
  <2> QED
    BY <1>5, <2>1, CheckedStepLowers
<1>6. CASE ArchitectReviewPrd
  <2>1. /\ pc = "architect_review_prd" /\ UNCHANGED <<pass, revisions>> /\ card' = "none"
        /\ pc' \in {"pm_revise_prd", "ux_generate_mocks", "consumer_research"}
    BY <1>6 DEF ArchitectReviewPrd, AfterRefine, GoTo, prd
  <2>2. CASE pc' = "pm_revise_prd"
    <3>1. PartsLeft' < PartsLeft
      BY <2>1, <2>2 DEF PartsLeft
    <3>2. StagesLeft' = StagesLeft
      BY <2>1, <2>2 DEF StagesLeft, At, Rank, Refining
    <3> QED
      BY <2>1, <3>1, <3>2 DEF Lowers, RoundsLeft, PassesLeft
  <2>3. CASE pc' # "pm_revise_prd"
    <3>1. Rank(pc') < Rank(pc)
      BY <2>1, <2>3 DEF Rank, Refining
    <3> QED
      BY <2>1, <3>1, RankLowers DEF At
  <2> QED
    BY <2>2, <2>3
<1>7. CASE PmSignoff
  <2>1. CASE UNCHANGED revisions
    <3>1. pc = "pm_signoff" /\ pc' = "architect_plan_stories"
      BY <1>t, <1>7, <2>1 DEF PmSignoff, GoTo
    <3>2. Rank(pc') < Rank(pc)
      BY <3>1 DEF Rank, Refining
    <3> QED
      BY <2>1, <3>1, <3>2, RankLowers DEF At
  <2>2. CASE revisions' = revisions + 1
    BY <1>t, <2>2 DEF Lowers, RoundsLeft
  <2> QED
    BY <1>7, <2>1, <2>2 DEF PmSignoff
<1>8. CASE NotifyGate
  <2>1. UNCHANGED <<pc, ret, pass, revisions>> /\ card = "posting" /\ card' = "posted"
    BY <1>8 DEF NotifyGate, prd
  <2>2. At' = At
    BY <2>1 DEF At
  <2>3. PartsLeft' < PartsLeft
    BY <2>1 DEF PartsLeft
  <2> QED
    BY <2>1, <2>2, <2>3 DEF Lowers, RoundsLeft, StagesLeft, Rank, PassesLeft
<1> QED
  BY <1>1, <1>2, <1>3, <1>4, <1>5, <1>6, <1>7, <1>8 DEF System, BudgetAnswered

\* Every step that the workflow takes leaves it fewer to take, and no answer of
\* anybody, however late or however often, gives it one more: no run takes more
\* than MaxSteps, gates, cards, timeouts and both loops included.
THEOREM StepsBounded ==
    Spec => /\ StepsLeft = MaxSteps
            /\ [](StepsLeft \in Nat)
            /\ [][IF System THEN StepsLeft' < StepsLeft ELSE StepsLeft' = StepsLeft]_vars
<1>1. Init => StepsLeft = MaxSteps
  <2> SUFFICES ASSUME Init PROVE StepsLeft = MaxSteps
    OBVIOUS
  <2>1. StagesLeft = 15 /\ PartsLeft = 2
    BY DEF Init, At, StagesLeft, Rank, Refining, PartsLeft
  <2>2. RoundsLeft = MaxSignoffRevisions + 1 /\ PassesLeft = MaxPrdPasses - 1
    BY FeatureAssumption DEF FeatureAssumption, Init, RoundsLeft, PassesLeft
  <2> QED
    BY <2>1, <2>2 DEF StepsLeft, MaxSteps
<1>2. TypeOK /\ LoopInv => StepsLeft \in Nat
  BY LeftNat
<1>3. TypeOK /\ LoopInv /\ TypeOK' /\ LoopInv' /\ System => StepsLeft' < StepsLeft
  <2> SUFFICES ASSUME TypeOK, LoopInv, TypeOK', LoopInv', System PROVE StepsLeft' < StepsLeft
    OBVIOUS
  <2>1. /\ RoundsLeft \in Nat /\ StagesLeft \in 0 .. 15
        /\ PassesLeft \in 0 .. MaxPrdPasses - 1 /\ PartsLeft \in 0 .. 5
    BY LeftNat
  <2>2. /\ RoundsLeft' \in Nat /\ StagesLeft' \in 0 .. 15
        /\ PassesLeft' \in 0 .. MaxPrdPasses - 1 /\ PartsLeft' \in 0 .. 5
    <3>1. (TypeOK /\ LoopInv => /\ RoundsLeft \in Nat /\ StagesLeft \in 0 .. 15
                                /\ PassesLeft \in 0 .. MaxPrdPasses - 1 /\ PartsLeft \in 0 .. 5
                                /\ StepsLeft \in Nat)'
      BY LeftNat, PTL
    <3> QED
      BY <3>1
  <2>3. MaxPrdPasses \in Nat \ {0}
    BY FeatureAssumption DEF FeatureAssumption
  <2>4. Lowers
    BY SystemLowers
  <2> QED
    BY <2>1, <2>2, <2>3, <2>4, StepsLowered DEF Lowers, StepsLeft
<1>4. Humans => StepsLeft' = StepsLeft
  <2> SUFFICES ASSUME Humans PROVE StepsLeft' = StepsLeft
    OBVIOUS
  <2>1. UNCHANGED <<pc, ret, card, pass, revisions>>
    BY DEF Humans, SubmitHumanVote, SubmitPmSignoff, SubmitDeployApproval,
           SubmitBudgetDecision, SubmitCodingBudget, Deliver, prd
  <2> QED
    BY <2>1 DEF StepsLeft, RoundsLeft, StagesLeft, PassesLeft, PartsLeft, At, Rank
<1>5. TypeOK /\ LoopInv /\ TypeOK' /\ LoopInv' /\ [Next]_vars
        => [IF System THEN StepsLeft' < StepsLeft ELSE StepsLeft' = StepsLeft]_vars
  BY <1>3, <1>4 DEF Next
<1> QED
  BY <1>1, <1>2, <1>5, TypeCorrect, LoopInvHolds, PTL DEF Spec
=============================================================================
