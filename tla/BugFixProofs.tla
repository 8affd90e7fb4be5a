---------------------------- MODULE BugFixProofs ----------------------------
(***************************************************************************)
(* Proofs about BugFix, for every ceiling, cost, estimate and amount: its  *)
(* types, what the reporter's answer is used for, the statuses, and that   *)
(* it implements GatedDelivery, in 42 steps at most.  Money and path each  *)
(* have an inductive invariant; the refinement follows from the two,       *)
(* action by action.                                                       *)
(***************************************************************************)
EXTENDS BugFix, TLAPS

Locations == Activities \cup Gates \cup Ended \cup {"done_post"}
Funding == [answer : {"none", "yes", "no", "custom"}, amount : Int]

LEMMA ProceedTypes ==
    ASSUME TypeOK, NEW r \in Checked, Proceed(r)
    PROVE  /\ pc' \in Locations /\ card' \in {"none", "posting", "posted"}
           /\ status' \in Status /\ planned' \in BOOLEAN
<1>1. pc' \in Locations /\ card' \in {"none", "posting", "posted"} /\ status' \in Status
  BY DEF Proceed, AfterPod, GoTo, Open, Finish, TypeOK, Locations, Activities, Checked, Gates,
         Status
<1>2. planned' \in BOOLEAN
  BY DEF Proceed, Context, TypeOK
<1> QED
  BY <1>1, <1>2

LEMMA SpendTypes ==
    ASSUME TypeOK, NEW c \in Nat, NEW r \in Checked, Spend(c, r)
    PROVE  /\ pc' \in Locations /\ card' \in {"none", "posting", "posted"}
           /\ status' \in Status /\ planned' \in BOOLEAN
           /\ ret' \in Checked /\ budgetDecision' \in {"none", "yes", "no"}
           /\ cost' \in Nat
<1>1. cost' \in Nat
  BY DEF Spend, TypeOK
<1>2. CASE Proceed(r) /\ UNCHANGED <<ret, budgetDecision>>
  BY <1>1, <1>2, ProceedTypes DEF TypeOK
<1>3. CASE Open("budget_gate") /\ ret' = r /\ budgetDecision' = "none" /\ UNCHANGED planned
  BY <1>1, <1>3 DEF Open, TypeOK, Locations, Gates
<1> QED
  BY <1>2, <1>3 DEF Spend

\* What neither moves the workflow nor spends.
Quiet == NotifyGate \/ Humans \/ UNCHANGED vars

LEMMA QuietFrame ==
    ASSUME Quiet
    PROVE  UNCHANGED <<pc, ret, status, money, work>>
  BY DEF Quiet, NotifyGate, Humans, SubmitUserClarification, SubmitDeployApproval,
         SubmitBudgetDecision, SubmitCodingBudget, Deliver, vars

\* Every activity, gate and signal keeps every variable within its type.
THEOREM TypeCorrect == Spec => []TypeOK
<1> USE BugAssumption DEF BugAssumption
<1>0. NoFunding \in Funding
  BY DEF NoFunding, Funding
<1>1. Init => TypeOK
  <2> SUFFICES ASSUME Init PROVE TypeOK
    OBVIOUS
  <2>1. /\ cost \in Nat /\ ceiling \in Nat /\ funded \in Nat
    BY DEF Init
  <2>2. /\ overridden \in BOOLEAN /\ clarification \in BOOLEAN /\ planned \in BOOLEAN
        /\ heard \in BOOLEAN
    BY DEF Init
  <2>3. /\ report \in [asks : BOOLEAN, duplicate : BOOLEAN]
        /\ pod \in [ran : BOOLEAN, qa : BOOLEAN, ci : BOOLEAN]
    BY DEF Init
  <2>4. codingBudget \in Funding
    BY <1>0 DEF Init
  <2>5. /\ pc \in Locations /\ ret \in Checked /\ card \in {"none", "posting", "posted"}
        /\ status \in Status /\ deployApproved \in {"none", "yes", "no"}
        /\ budgetDecision \in {"none", "yes", "no"} /\ deployed \in {"none", "yes", "no"}
    BY DEF Init, Locations, Activities, Checked, Status
  <2> QED
    BY <2>1, <2>2, <2>3, <2>4, <2>5 DEF TypeOK, Locations, Funding
<1>2. TypeOK /\ [Next]_vars => TypeOK'
  <2> SUFFICES ASSUME TypeOK, [Next]_vars PROVE TypeOK'
    OBVIOUS
  <2> USE DEF TypeOK, Locations
  <2>c. Checked \subseteq Locations
    BY DEF Activities
  <2>1. ASSUME NEW step \in Checked, Act(step),
               report' \in [asks : BOOLEAN, duplicate : BOOLEAN]
        PROVE  TypeOK'
    <3>1. PICK c \in StepCosts : Spend(c, step)
      BY <2>1 DEF Act
    <3> QED
      BY <2>1, <3>1, SpendTypes DEF Act
  <2>2. CASE TriageFeedback \/ DedupeCheck \/ PmPrioritizeBug
    <3>1. report' \in [asks : BOOLEAN, duplicate : BOOLEAN]
      BY <2>2 DEF TriageFeedback, DedupeCheck, PmPrioritizeBug
    <3> QED
      BY <2>1, <2>2, <3>1 DEF TriageFeedback, DedupeCheck, PmPrioritizeBug, Checked
  <2>3. CASE ClarificationOver
    BY <2>3 DEF ClarificationOver, GoTo, Activities, Checked, inboxes, money, work
  <2>4. CASE EstimateCodingBudget
    <3>1. codingBudget' \in Funding
      BY <1>0, <2>4 DEF EstimateCodingBudget, Funding
    <3>2. pc' \in Locations /\ card' \in {"none", "posting", "posted"} /\ status' \in Status
      BY <2>4 DEF EstimateCodingBudget, GoTo, Open, Activities, Checked, Gates
    <3> QED
      BY <2>4, <3>1, <3>2 DEF EstimateCodingBudget, money, work, Funding
  <2>5. CASE CodingBudgetFunded
    <3>1. codingBudget.amount \in Int
      OBVIOUS
    <3>2. funded' \in Nat
      BY <2>5, <3>1 DEF CodingBudgetFunded, FundedBudget
    <3>3. ceiling' \in Nat
      BY <2>5, <3>2 DEF CodingBudgetFunded, LiftedCeiling
    <3> QED
      BY <2>5, <3>2, <3>3 DEF CodingBudgetFunded, GoTo, Activities, Checked, inboxes
  <2>6. CASE CodingBudgetDeclined
    BY <2>6 DEF CodingBudgetDeclined, Finish, Status, inboxes, money, work
  <2>7. CASE EngineeringPodReturns
    <3>1. pod' \in [ran : BOOLEAN, qa : BOOLEAN, ci : BOOLEAN]
      BY <2>7 DEF EngineeringPodReturns
    <3>2. PICK c \in PodCosts : Spend(c, "engineering_pod")
      BY <2>7 DEF EngineeringPodReturns
    <3>3. "engineering_pod" \in Checked /\ c \in Nat
      BY DEF Checked
    <3> QED
      BY <2>7, <3>1, <3>2, <3>3, SpendTypes DEF EngineeringPodReturns
  <2>8. CASE DeployApproved
    BY <2>8 DEF DeployApproved, GoTo, Activities, Checked, inboxes, money, work
  <2>9. CASE DeployNotApproved
    BY <2>9 DEF DeployNotApproved, DeployHeldOrLate, Finish, Status, inboxes, money, work
  <2>10. CASE Deploy
    <3>1. "deploy" \in Checked /\ 0 \in Nat
      BY DEF Checked
    <3> QED
      BY <2>10, <3>1, SpendTypes DEF Deploy
  <2>11. CASE BudgetOverridden
    BY <2>11, ProceedTypes DEF BudgetOverridden, inboxes
  <2>12. CASE BudgetHalt
    BY <2>12 DEF BudgetHalt, Finish, Status, inboxes, money, work
  <2>13. CASE NotifyGate
    BY <2>13 DEF NotifyGate, inboxes, money, work
  <2>14. CASE ActivityFails \/ PostDone
    <3>1. pc' \in Locations
      BY <2>14 DEF ActivityFails, PostDone, Ended
    <3> QED
      BY <2>14, <3>1 DEF ActivityFails, PostDone, inboxes, money, work
  <2>15. CASE SubmitUserClarification
    BY <2>15 DEF SubmitUserClarification, Deliver, BeforePlan, money, work
  <2>16. CASE SubmitDeployApproval \/ SubmitBudgetDecision
    <3>1. /\ deployApproved' \in {"none", "yes", "no"} /\ budgetDecision' \in {"none", "yes", "no"}
          /\ UNCHANGED <<clarification, codingBudget, heard>>
      BY <2>16 DEF SubmitDeployApproval, SubmitBudgetDecision
    <3>2. UNCHANGED <<pc, ret, card, status, money, work>>
      BY <2>16 DEF SubmitDeployApproval, SubmitBudgetDecision, Deliver
    <3> QED
      BY <3>1, <3>2 DEF money, work
  <2>17. CASE SubmitCodingBudget
    <3>1. CASE \E answer \in {"yes", "no"} : codingBudget' = [answer |-> answer, amount |-> 0]
      BY <2>17, <3>1 DEF SubmitCodingBudget, Deliver, money, work
    <3>2. ASSUME NEW n \in CustomAmounts \cup {-m : m \in CustomAmounts},
                 codingBudget' = [answer |-> "custom", amount |-> n]
          PROVE  TypeOK'
      <4>1. n \in Int
        OBVIOUS
      <4> QED
        BY <2>17, <3>2, <4>1 DEF SubmitCodingBudget, Deliver, money, work
    <3> QED
      BY <2>17, <3>1, <3>2 DEF SubmitCodingBudget
  <2>18. CASE UNCHANGED vars
    BY <2>18 DEF vars, inboxes, money, work
  <2> QED
    BY <2>2, <2>3, <2>4, <2>5, <2>6, <2>7, <2>8, <2>9, <2>10, <2>11, <2>12, <2>13, <2>14, <2>15,
       <2>16, <2>17, <2>18 DEF Next, System, Humans
<1> QED
  BY <1>1, <1>2, PTL DEF Spec
-----------------------------------------------------------------------------
(* Money                                                                   *)

Planning == {"triage", "dedupe", "clarification", "pm_prioritize", "estimate_coding_budget",
             "coding_budget_gate"}
Releasing == {"deploy_approval", "deploy"}
Finished == {"done_post", "closed"}

\* The step the workflow is at: behind the budget gate, the one that tripped it.
At == IF pc = "budget_gate" THEN ret ELSE pc

\* Why the ceiling holds: every spend is checked, so that only the budget gate
\* is above it; and what was funded is still free when the pod starts.
MoneyInv ==
    /\ pc = "budget_gate" => ~overridden /\ cost > ceiling /\ ret # "deploy"
    /\ pc \in Planning \cup Releasing \cup {"engineering_pod"} => overridden \/ cost <= ceiling
    /\ At \in Planning => funded = 0
    /\ pc = "engineering_pod" => cost + funded <= ceiling \/ funded = 0

LEMMA ProceedMoves ==
    ASSUME NEW r \in Checked, Proceed(r)
    PROVE  /\ pc' \in Planning \cup {"deploy_approval", "done_post"}
           /\ pc' \in Planning => r \in Planning
  BY DEF Proceed, AfterPod, GoTo, Open, Finish, Planning, Checked

LEMMA CheckedStepMoney ==
    ASSUME TypeOK, MoneyInv, NEW r \in Checked, pc = r,
           NEW c \in Nat, r = "deploy" => c = 0,
           Spend(c, r), UNCHANGED <<ceiling, overridden, funded>>
    PROVE  MoneyInv'
<1>1. cost' = cost + c /\ cost \in Nat /\ ceiling \in Nat /\ overridden \in BOOLEAN
  BY DEF Spend, TypeOK
<1>2. r \in Planning => funded = 0
  BY DEF MoneyInv, At, Planning
<1>3. CASE (overridden \/ cost' <= ceiling) /\ Proceed(r)
  <2>1. /\ pc' \in Planning \cup {"deploy_approval", "done_post"}
        /\ pc' \in Planning => r \in Planning
    BY <1>3, ProceedMoves
  <2>2. pc' # "budget_gate" /\ pc' # "engineering_pod"
    BY <2>1 DEF Planning
  <2> QED
    BY <1>2, <1>3, <2>1, <2>2 DEF MoneyInv, At
<1>4. CASE ~overridden /\ ~(cost' <= ceiling) /\ Open("budget_gate") /\ ret' = r
  <2>1. r # "deploy"
    BY <1>1, <1>4 DEF MoneyInv, Releasing
  <2>2. cost' > ceiling
    BY <1>1, <1>4
  <2> QED
    BY <1>2, <1>4, <2>1, <2>2 DEF Open, MoneyInv, At, Planning, Releasing
<1> QED
  BY <1>3, <1>4 DEF Spend

LEMMA PartFits ==
    ASSUME NEW a \in Nat, NEW b \in Nat, NEW c \in Nat, a + b <= c
    PROVE  a <= c
  OBVIOUS

LEMMA MoneyInvHolds == Spec => []MoneyInv
<1> USE BugAssumption DEF BugAssumption
<1>1. Init => MoneyInv
  BY DEF Init, MoneyInv, At, Planning, Releasing
<1>2. TypeOK /\ MoneyInv /\ [Next]_vars => MoneyInv'
  <2> SUFFICES ASSUME TypeOK, MoneyInv, [Next]_vars PROVE MoneyInv'
    OBVIOUS
  <2>t. /\ cost \in Nat /\ ceiling \in Nat /\ funded \in Nat /\ overridden \in BOOLEAN
        /\ ret \in Checked
    BY DEF TypeOK
  <2>1. CASE TriageFeedback \/ DedupeCheck \/ PmPrioritizeBug
    <3>1. PICK step \in Checked \ {"deploy"} : Act(step)
      BY <2>1 DEF TriageFeedback, DedupeCheck, PmPrioritizeBug, Checked
    <3>2. PICK c \in StepCosts : Spend(c, step)
      BY <3>1 DEF Act
    <3> QED
      BY <3>1, <3>2, CheckedStepMoney DEF Act
  <2>2. CASE ClarificationOver
    BY <2>2 DEF ClarificationOver, GoTo, MoneyInv, At, Planning, Releasing, money, work
  <2>3. CASE EstimateCodingBudget
    <3>1. funded = 0 /\ (overridden \/ cost <= ceiling)
      BY <2>3 DEF EstimateCodingBudget, MoneyInv, At, Planning
    <3>2. pc' \in {"coding_budget_gate", "engineering_pod"}
      BY <2>3 DEF EstimateCodingBudget, GoTo, Open
    <3> QED
      BY <2>3, <3>1, <3>2 DEF EstimateCodingBudget, MoneyInv, At, money, work
  <2>4. CASE CodingBudgetFunded
    <3>1. codingBudget.amount \in Int
      BY DEF TypeOK
    <3>2. funded' \in Nat
      BY <2>4, <3>1 DEF CodingBudgetFunded, FundedBudget
    <3>3. ceiling' \in Nat /\ cost + funded' <= ceiling'
      BY <2>t, <2>4, <3>2 DEF CodingBudgetFunded, LiftedCeiling
    <3>4. pc' = "engineering_pod" /\ UNCHANGED <<cost, overridden>>
      BY <2>4 DEF CodingBudgetFunded, GoTo
    <3>5. cost <= ceiling'
      BY <2>t, <3>2, <3>3, PartFits
    <3>6. cost' + funded' <= ceiling' /\ cost' <= ceiling'
      BY <3>3, <3>4, <3>5
    <3> QED
      BY <3>4, <3>6 DEF MoneyInv, At, Planning
  <2>5. CASE EngineeringPodReturns
    <3>1. PICK c \in PodCosts : Spend(c, "engineering_pod")
      BY <2>5 DEF EngineeringPodReturns
    <3>2. "engineering_pod" \in Checked /\ c \in Nat
      BY DEF Checked
    <3> QED
      BY <2>5, <3>1, <3>2, CheckedStepMoney DEF EngineeringPodReturns
  <2>6. CASE DeployApproved
    BY <2>6 DEF DeployApproved, GoTo, MoneyInv, At, Planning, Releasing, money, work
  <2>7. CASE CodingBudgetDeclined \/ DeployNotApproved \/ BudgetHalt \/ PostDone \/ ActivityFails
    <3>1. pc' \in Finished \cup {"failed"}
      BY <2>7 DEF CodingBudgetDeclined, DeployNotApproved, DeployHeldOrLate, BudgetHalt, PostDone,
                  ActivityFails, Finish, Finished
    <3> QED
      BY <3>1 DEF MoneyInv, At, Planning, Releasing, Finished
  <2>8. CASE Deploy
    <3>1. "deploy" \in Checked
      BY DEF Checked
    <3> QED
      BY <2>8, <3>1, CheckedStepMoney DEF Deploy
  <2>9. CASE BudgetOverridden
    <3>1. /\ pc' \in Planning \cup {"deploy_approval", "done_post"}
          /\ pc' \in Planning => ret \in Planning
      BY <2>t, <2>9, ProceedMoves DEF BudgetOverridden
    <3>2. pc' # "budget_gate" /\ pc' # "engineering_pod"
      BY <3>1 DEF Planning
    <3> QED
      BY <2>9, <3>1, <3>2 DEF BudgetOverridden, MoneyInv, At
  <2>10. CASE Quiet
    BY <2>10, QuietFrame DEF MoneyInv, At, money, work
  <2> QED
    BY <2>1, <2>2, <2>3, <2>4, <2>5, <2>6, <2>7, <2>8, <2>9, <2>10 DEF Next, System, Quiet
<1> QED
  BY <1>1, <1>2, TypeCorrect, PTL DEF Spec
-----------------------------------------------------------------------------
(* The path, and the status a run ends with                                *)

\* What a location says about the pod, the release and the status; a duplicate
\* is on its way out.
PathInv ==
    /\ At \in Planning => ~pod.ran
    /\ pc = "engineering_pod" => ~pod.ran
    /\ pc = "budget_gate" /\ ret = "engineering_pod" => pod.ran
    /\ pc \in Releasing => pod.ran /\ pod.qa /\ pod.ci
    /\ pc \notin Finished => status = "RUNNING" /\ deployed = "none"
    /\ pc \in Finished => status # "RUNNING"
    /\ status = "SHIPPED" => pod.ran /\ pod.qa /\ pod.ci
    /\ status # "SHIPPED" => deployed = "none"
    /\ report.duplicate => (pc = "budget_gate" /\ ret = "dedupe") \/ pc \in Finished
    /\ StatusTellsWhy

\* A checked step that stops at the budget gate.
LEMMA StopPath ==
    ASSUME TypeOK, MoneyInv, PathInv, MoneyInv', NEW r \in Checked \ {"deploy"}, pc = r,
           Open("budget_gate"), ret' = r, UNCHANGED <<ceiling, funded, deployed>>,
           r = "engineering_pod" => pod'.ran,
           r # "engineering_pod" => UNCHANGED pod,
           report'.duplicate => report.duplicate \/ r = "dedupe"
    PROVE  PathInv'
<1>1. status = "RUNNING" /\ status' = "RUNNING" /\ deployed' = "none" /\ pc' = "budget_gate"
  BY DEF PathInv, Open, Finished, Checked
<1>2. ~report.duplicate
  BY DEF PathInv, Finished, Checked
<1>3. r # "engineering_pod" => ~pod'.ran /\ funded' = 0
  BY DEF PathInv, MoneyInv, At, Planning, Checked
<1>4. funded' > 0 => pod'.ran
  BY <1>3 DEF TypeOK
<1>5. report'.duplicate => r = "dedupe"
  BY <1>2
<1> QED
  BY <1>1, <1>3, <1>4, <1>5 DEF PathInv, StatusTellsWhy, At, Planning, Releasing, Finished, Checked

\* A step within the plan.
LEMMA PlanningPath ==
    ASSUME TypeOK, MoneyInv, PathInv, At \in Planning,
           pc' \in Planning \cup {"engineering_pod"}, ~report'.duplicate,
           UNCHANGED <<status, pod, funded, deployed>>
    PROVE  PathInv'
<1>1. status = "RUNNING" /\ deployed = "none" /\ ~pod.ran /\ funded = 0
  BY DEF PathInv, MoneyInv, At, Planning, Finished
<1>2. /\ pc' \notin Releasing \cup Finished /\ pc' # "budget_gate"
  BY DEF Planning, Releasing, Finished
<1> QED
  BY <1>1, <1>2 DEF PathInv, StatusTellsWhy, At

\* The end: all that is left to show is that the status tells why.
LEMMA FinishPath ==
    ASSUME pc' = "done_post", status' # "RUNNING", StatusTellsWhy',
           status' = "SHIPPED" => pod'.ran /\ pod'.qa /\ pod'.ci,
           status' # "SHIPPED" => deployed' = "none"
    PROVE  PathInv'
  BY DEF PathInv, At, Planning, Releasing, Finished

\* What follows a checked step, at once or after an override.
LEMMA ProceedPath ==
    ASSUME TypeOK, TypeOK', MoneyInv, MoneyInv', PathInv, NEW r \in Checked, At = r, Proceed(r),
           UNCHANGED funded,
           r # "deploy" => UNCHANGED deployed,
           r # "engineering_pod" => UNCHANGED pod,
           r = "engineering_pod" => pod'.ran,
           report'.duplicate => r = "dedupe"
    PROVE  PathInv'
<1>1. status = "RUNNING" /\ deployed = "none"
  BY DEF PathInv, At, Finished, Checked
<1>2. r \in Planning => ~pod'.ran /\ funded' = 0
  BY DEF PathInv, MoneyInv, At, Planning
<1>3. CASE r \in {"triage", "dedupe", "pm_prioritize"}
  <2>1. r \in Planning
    BY <1>3 DEF Planning
  <2>2. CASE r = "dedupe" /\ report'.duplicate /\ Finish("CLOSED_DUPLICATE")
    <3>1. StatusTellsWhy'
      BY <1>2, <2>1, <2>2 DEF Finish, StatusTellsWhy
    <3> QED
      BY <1>1, <1>3, <2>2, <3>1, FinishPath DEF Finish
  <2>3. CASE ~(r = "dedupe" /\ report'.duplicate)
    <3>1. pc' \in Planning /\ UNCHANGED status
      BY <1>3, <2>3 DEF Proceed, GoTo, Open, Planning
    <3> QED
      BY <1>3, <2>1, <2>3, <3>1, PlanningPath
  <2> QED
    BY <1>3, <2>2, <2>3 DEF Proceed
<1>4. CASE r = "engineering_pod"
  <2>1. pod'.ran /\ ~report'.duplicate /\ deployed' = "none"
    BY <1>1, <1>4
  <2>2. AfterPod
    BY <1>4 DEF Proceed
  <2>3. CASE ~pod'.qa
    <3>1. StatusTellsWhy'
      BY <2>1, <2>2, <2>3 DEF AfterPod, Finish, StatusTellsWhy
    <3> QED
      BY <2>1, <2>2, <2>3, <3>1, FinishPath DEF AfterPod, Finish
  <2>4. CASE pod'.qa /\ ~pod'.ci
    <3>1. StatusTellsWhy'
      BY <2>1, <2>2, <2>4 DEF AfterPod, Finish, StatusTellsWhy
    <3> QED
      BY <2>1, <2>2, <2>4, <3>1, FinishPath DEF AfterPod, Finish
  <2>5. CASE pod'.qa /\ pod'.ci
    <3>1. pc' = "deploy_approval" /\ status' = "RUNNING"
      BY <1>1, <2>2, <2>5 DEF AfterPod, Open
    <3> QED
      BY <2>1, <2>5, <3>1 DEF PathInv, StatusTellsWhy, At, Planning, Releasing, Finished
  <2> QED
    BY <2>3, <2>4, <2>5
<1>5. CASE r = "deploy"
  <2>1. pc = "deploy"
    BY <1>5 DEF At, MoneyInv
  <2>2. pod'.ran /\ pod'.qa /\ pod'.ci /\ ~report'.duplicate
    BY <1>5, <2>1 DEF PathInv, Releasing
  <2>3. Finish("SHIPPED")
    BY <1>5 DEF Proceed
  <2>4. StatusTellsWhy'
    BY <2>2, <2>3 DEF Finish, StatusTellsWhy
  <2> QED
    BY <2>2, <2>3, <2>4, FinishPath DEF Finish
<1> QED
  BY <1>3, <1>4, <1>5 DEF Checked

\* A checked step, wherever it leads.
LEMMA SpendPath ==
    ASSUME TypeOK, TypeOK', MoneyInv, MoneyInv', PathInv, NEW r \in Checked, pc = r,
           NEW c \in Nat, r = "deploy" => c = 0,
           Spend(c, r), UNCHANGED <<ceiling, overridden, funded>>,
           r # "deploy" => UNCHANGED deployed,
           r # "engineering_pod" => UNCHANGED pod,
           r = "engineering_pod" => pod'.ran,
           report'.duplicate => report.duplicate \/ r = "dedupe"
    PROVE  PathInv'
<1>1. cost' = cost + c /\ cost \in Nat /\ ceiling \in Nat /\ overridden \in BOOLEAN
  BY DEF Spend, TypeOK
<1>2. At = r /\ ~report.duplicate
  BY DEF At, PathInv, Finished, Checked
<1>3. CASE Proceed(r)
  BY <1>2, <1>3, ProceedPath
<1>4. CASE ~overridden /\ ~(cost' <= ceiling) /\ Open("budget_gate") /\ ret' = r
  <2>1. r # "deploy"
    BY <1>1, <1>4 DEF MoneyInv, Releasing
  <2> QED
    BY <1>4, <2>1, StopPath
<1> QED
  BY <1>3, <1>4 DEF Spend

LEMMA PathInvHolds == Spec => []PathInv
<1> USE BugAssumption DEF BugAssumption
<1>1. Init => PathInv
  BY DEF Init, PathInv, StatusTellsWhy, At, Planning, Releasing, Finished
<1>2. TypeOK /\ TypeOK' /\ MoneyInv /\ MoneyInv' /\ PathInv /\ [Next]_vars => PathInv'
  <2> SUFFICES ASSUME TypeOK, TypeOK', MoneyInv, MoneyInv', PathInv, [Next]_vars
               PROVE  PathInv'
    OBVIOUS
  <2>t. /\ cost \in Nat /\ ceiling \in Nat /\ funded \in Nat /\ overridden \in BOOLEAN
        /\ ret \in Checked /\ report \in [asks : BOOLEAN, duplicate : BOOLEAN]
    BY DEF TypeOK
  <2>1. CASE TriageFeedback \/ DedupeCheck \/ PmPrioritizeBug
    <3>1. PICK step \in {"triage", "dedupe", "pm_prioritize"} :
            /\ Act(step)
            /\ report'.duplicate => report.duplicate \/ step = "dedupe"
      BY <2>t, <2>1 DEF TriageFeedback, DedupeCheck, PmPrioritizeBug
    <3>2. PICK c \in StepCosts : Spend(c, step)
      BY <3>1 DEF Act
    <3>3. step \in Checked /\ c \in Nat
      BY DEF Checked
    <3> QED
      BY <3>1, <3>2, <3>3, SpendPath DEF Act
  <2>2. CASE ClarificationOver \/ EstimateCodingBudget
    <3>1. /\ At \in Planning /\ pc' \in Planning \cup {"engineering_pod"}
          /\ UNCHANGED <<status, money, work>>
      BY <2>2 DEF ClarificationOver, EstimateCodingBudget, GoTo, Open, At, Planning
    <3>2. ~report'.duplicate
      BY <2>2, <3>1 DEF ClarificationOver, EstimateCodingBudget, PathInv, Finished, work
    <3> QED
      BY <3>1, <3>2, PlanningPath DEF work
  <2>3. CASE CodingBudgetFunded
    <3>1. status' = "RUNNING" /\ deployed' = "none" /\ ~pod'.ran /\ ~report'.duplicate
      BY <2>3 DEF CodingBudgetFunded, GoTo, PathInv, At, Planning, Finished
    <3>2. pc' = "engineering_pod"
      BY <2>3 DEF CodingBudgetFunded, GoTo
    <3>3. cost' + funded' <= ceiling' \/ funded' = 0
      BY <3>2 DEF MoneyInv
    <3>4. funded' > 0 => cost' + funded' <= ceiling'
      BY <3>3
    <3> QED
      BY <3>1, <3>2, <3>4 DEF PathInv, StatusTellsWhy, At, Planning, Releasing, Finished
  <2>4. CASE CodingBudgetDeclined \/ DeployNotApproved \/ BudgetHalt
    <3>1. /\ deployed' = "none" /\ UNCHANGED <<money, work>>
          /\ pc' = "done_post" /\ status' \in {"HELD", "ESCALATED", "OVER_BUDGET"}
      BY <2>4 DEF CodingBudgetDeclined, DeployNotApproved, DeployHeldOrLate, BudgetHalt, Finish,
                  PathInv, Finished, work
    <3>2. CASE CodingBudgetDeclined
      <4>1. status' = "HELD" /\ ~report.duplicate /\ funded = 0
        BY <2>t, <3>2 DEF CodingBudgetDeclined, Finish, PathInv, MoneyInv, At, Planning, Finished
      <4>2. StatusTellsWhy'
        BY <3>1, <4>1 DEF StatusTellsWhy, work
      <4> QED
        BY <3>1, <4>2, FinishPath
    <3>3. CASE DeployNotApproved
      <4>1. /\ status' \in {"HELD", "ESCALATED"} /\ ~report.duplicate
            /\ pod.ran /\ pod.qa /\ pod.ci
        BY <3>3 DEF DeployNotApproved, DeployHeldOrLate, Finish, PathInv, Finished, Releasing
      <4>2. StatusTellsWhy'
        BY <3>1, <4>1 DEF StatusTellsWhy, work
      <4> QED
        BY <3>1, <4>2, FinishPath
    <3>4. CASE BudgetHalt
      <4>1. status' = "OVER_BUDGET" /\ ~overridden /\ cost > ceiling
        BY <3>4 DEF BudgetHalt, Finish, MoneyInv
      <4>2. report.duplicate => ~pod.ran /\ funded = 0
        BY DEF PathInv, StatusTellsWhy
      <4>3. funded > 0 => cost + funded <= ceiling \/ pod.ran
        BY DEF PathInv, StatusTellsWhy
      <4>4. StatusTellsWhy'
        BY <3>1, <4>1, <4>2, <4>3 DEF StatusTellsWhy, work, money
      <4> QED
        BY <3>1, <4>4, FinishPath
    <3> QED
      BY <2>4, <3>2, <3>3, <3>4
  <2>5. CASE EngineeringPodReturns
    <3>1. PICK c \in PodCosts : Spend(c, "engineering_pod")
      BY <2>5 DEF EngineeringPodReturns
    <3>2. "engineering_pod" \in Checked /\ c \in Nat /\ pod'.ran
      BY <2>5 DEF Checked, EngineeringPodReturns
    <3> QED
      BY <2>5, <3>1, <3>2, SpendPath DEF EngineeringPodReturns
  <2>6. CASE DeployApproved
    <3>1. pc = "deploy_approval" /\ pc' = "deploy" /\ UNCHANGED <<status, money, work>>
      BY <2>6 DEF DeployApproved, GoTo
    <3> QED
      BY <3>1 DEF PathInv, StatusTellsWhy, At, Planning, Releasing, Finished, money, work
  <2>7. CASE Deploy
    <3>1. "deploy" \in Checked
      BY DEF Checked
    <3> QED
      BY <2>7, <3>1, SpendPath DEF Deploy
  <2>8. CASE BudgetOverridden
    <3>1. pc = "budget_gate" /\ At = ret /\ Proceed(ret) /\ UNCHANGED <<report, pod, funded, deployed>>
      BY <2>8 DEF BudgetOverridden, At
    <3>2. ret = "engineering_pod" => pod.ran
      BY <3>1 DEF PathInv
    <3>3. report.duplicate => ret = "dedupe"
      BY <3>1 DEF PathInv, Finished
    <3> QED
      BY <2>t, <3>1, <3>2, <3>3, ProceedPath
  <2>9. CASE ActivityFails
    <3>1. /\ pc \in Activities /\ pc' = "failed" /\ UNCHANGED <<status, money, work>>
      BY <2>9 DEF ActivityFails
    <3>2. pc \notin Finished /\ pc # "budget_gate"
      BY <3>1 DEF Activities, Checked, Finished
    <3> QED
      BY <3>1, <3>2 DEF PathInv, StatusTellsWhy, At, Planning, Releasing, Finished, money, work
  <2>10. CASE PostDone
    <3>1. /\ pc = "done_post" /\ pc' = "closed" /\ UNCHANGED <<status, money, work>>
      BY <2>10 DEF PostDone
    <3> QED
      BY <3>1 DEF PathInv, StatusTellsWhy, At, Planning, Releasing, Finished, money, work
  <2>11. CASE Quiet
    BY <2>11, QuietFrame DEF PathInv, StatusTellsWhy, At, money, work
  <2> QED
    BY <2>1, <2>2, <2>3, <2>4, <2>5, <2>6, <2>7, <2>8, <2>9, <2>10, <2>11
       DEF Next, System, Quiet
<1> QED
  BY <1>1, <1>2, TypeCorrect, MoneyInvHolds, PTL DEF Spec

\* A run closes with the status its history calls for: a duplicate is never
\* fixed, each halt has its cause, and what was funded stays free under the
\* ceiling until the pod has run.
THEOREM StatusTrue == Spec => []StatusTellsWhy
<1>1. PathInv => StatusTellsWhy
  BY DEF PathInv
<1> QED
  BY <1>1, PathInvHolds, PTL
-----------------------------------------------------------------------------
(* The reporter's answer                                                   *)

\* Until the plan is built, the history is what the inbox holds.
HeardInv == (BeforePlan => heard = clarification) /\ ReporterHeard

\* What any step but a signal of the reporter's does to the plan's context:
\* it is built on the way out of the priority, and not touched elsewhere.
LEMMA ContextHeard ==
    ASSUME TypeOK, HeardInv, UNCHANGED <<clarification, heard>>,
           \/ BeforePlan /\ BeforePlan'
           \/ BeforePlan /\ planned' = clarification
           \/ ~BeforePlan /\ ~BeforePlan' /\ UNCHANGED planned
                /\ (pc \in Ended \cup {"done_post"} => pc' \in Ended \cup {"done_post"})
           \/ pc' \in Ended \cup {"done_post"}
    PROVE  HeardInv'
<1>1. CASE BeforePlan /\ BeforePlan'
  BY <1>1 DEF HeardInv, ReporterHeard
<1>2. CASE BeforePlan /\ planned' = clarification
  BY <1>2 DEF HeardInv, ReporterHeard
<1>3. CASE ~BeforePlan /\ ~BeforePlan' /\ UNCHANGED planned
             /\ (pc \in Ended \cup {"done_post"} => pc' \in Ended \cup {"done_post"})
  BY <1>3 DEF HeardInv, ReporterHeard
<1>4. CASE pc' \in Ended \cup {"done_post"}
  BY <1>4 DEF HeardInv, ReporterHeard, BeforePlan, Ended
<1> QED
  BY <1>1, <1>2, <1>3, <1>4

LEMMA ProceedHeard ==
    ASSUME TypeOK, HeardInv, NEW r \in Checked, At = r, Proceed(r),
           UNCHANGED <<clarification, heard>>
    PROVE  HeardInv'
<1>1. CASE r \in {"triage", "dedupe"}
  <2>1. BeforePlan
    BY <1>1 DEF BeforePlan, At
  <2>2. BeforePlan' \/ pc' = "done_post"
    BY <1>1 DEF Proceed, GoTo, Open, Finish, BeforePlan
  <2> QED
    BY <2>1, <2>2, ContextHeard
<1>2. CASE r = "pm_prioritize"
  <2>1. BeforePlan /\ planned' = clarification
    BY <1>2 DEF BeforePlan, At, Proceed, Context
  <2> QED
    BY <2>1, ContextHeard
<1>3. CASE r \in {"engineering_pod", "deploy"}
  <2>1. ~BeforePlan /\ pc \notin Ended \cup {"done_post"}
    BY <1>3 DEF BeforePlan, At, Ended
  <2>2. UNCHANGED planned /\ pc' \in {"deploy_approval", "done_post"}
    BY <1>3 DEF Proceed, Context, AfterPod, Open, Finish
  <2>3. ~BeforePlan'
    BY <2>2 DEF BeforePlan
  <2> QED
    BY <2>1, <2>2, <2>3, ContextHeard
<1> QED
  BY <1>1, <1>2, <1>3 DEF Checked

LEMMA SpendHeard ==
    ASSUME TypeOK, HeardInv, NEW r \in Checked, pc = r, NEW c \in Nat, Spend(c, r),
           UNCHANGED <<clarification, heard>>
    PROVE  HeardInv'
<1>1. CASE Proceed(r)
  BY <1>1, ProceedHeard DEF At, Checked
<1>2. CASE Open("budget_gate") /\ ret' = r /\ UNCHANGED planned
  <2>1. BeforePlan' <=> BeforePlan
    BY <1>2 DEF BeforePlan, Open, Checked
  <2>2. pc \notin Ended \cup {"done_post"}
    BY DEF Checked, Ended
  <2> QED
    BY <1>2, <2>1, <2>2, ContextHeard
<1> QED
  BY <1>1, <1>2 DEF Spend

\* An answer of the reporter that is there by the time the plan is built, be
\* it unasked, late, or given at a budget gate, reaches the coding agent.
THEOREM ReporterIsHeard == Spec => []ReporterHeard
<1> USE BugAssumption DEF BugAssumption
<1>1. Init => HeardInv
  BY DEF Init, HeardInv, ReporterHeard
<1>2. TypeOK /\ HeardInv /\ [Next]_vars => HeardInv'
  <2> SUFFICES ASSUME TypeOK, HeardInv, [Next]_vars PROVE HeardInv'
    OBVIOUS
  <2>t. ret \in Checked /\ planned \in BOOLEAN /\ heard \in BOOLEAN /\ clarification \in BOOLEAN
    BY DEF TypeOK
  <2>1. CASE TriageFeedback \/ DedupeCheck \/ PmPrioritizeBug
    <3>1. PICK step \in Checked : Act(step)
      BY <2>1 DEF TriageFeedback, DedupeCheck, PmPrioritizeBug, Checked
    <3>2. PICK c \in StepCosts : Spend(c, step)
      BY <3>1 DEF Act
    <3> QED
      BY <3>1, <3>2, SpendHeard DEF Act
  <2>2. CASE EngineeringPodReturns
    <3>1. PICK c \in PodCosts : Spend(c, "engineering_pod")
      BY <2>2 DEF EngineeringPodReturns
    <3> QED
      BY <2>2, <3>1, SpendHeard DEF EngineeringPodReturns, Checked
  <2>3. CASE Deploy
    BY <2>3, SpendHeard DEF Deploy, Checked
  <2>4. CASE BudgetOverridden
    BY <2>t, <2>4, ProceedHeard DEF BudgetOverridden, At, inboxes
  <2>5. CASE ClarificationOver
    BY <2>5, ContextHeard DEF ClarificationOver, GoTo, BeforePlan, inboxes
  <2>6. CASE EstimateCodingBudget \/ CodingBudgetFunded \/ DeployApproved
    <3>1. /\ pc \in {"estimate_coding_budget", "coding_budget_gate", "deploy_approval"}
          /\ pc' \in {"coding_budget_gate", "engineering_pod", "deploy"}
      BY <2>6 DEF EstimateCodingBudget, CodingBudgetFunded, DeployApproved, GoTo, Open
    <3>2. UNCHANGED <<clarification, heard, planned>>
      BY <2>6 DEF EstimateCodingBudget, CodingBudgetFunded, DeployApproved, inboxes, work
    <3> QED
      BY <3>1, <3>2, ContextHeard DEF BeforePlan, Ended
  <2>7. CASE CodingBudgetDeclined \/ DeployNotApproved \/ BudgetHalt \/ ActivityFails \/ PostDone
    <3>1. pc' \in Ended \cup {"done_post"} /\ UNCHANGED <<clarification, heard>>
      BY <2>7 DEF CodingBudgetDeclined, DeployNotApproved, DeployHeldOrLate, BudgetHalt,
                  ActivityFails, PostDone, Finish, Ended, inboxes
    <3> QED
      BY <3>1, ContextHeard
  <2>8. CASE SubmitUserClarification
    <3>1. UNCHANGED <<pc, ret, planned>> /\ clarification' = TRUE /\ heard' = (heard \/ BeforePlan)
      BY <2>8 DEF SubmitUserClarification, Deliver, work
    <3> QED
      BY <2>t, <3>1 DEF HeardInv, ReporterHeard, BeforePlan
  <2>9. CASE NotifyGate \/ SubmitDeployApproval \/ SubmitBudgetDecision \/ SubmitCodingBudget
             \/ UNCHANGED vars
    <3>1. UNCHANGED <<pc, ret, planned, clarification, heard>>
      BY <2>9 DEF NotifyGate, SubmitDeployApproval, SubmitBudgetDecision, SubmitCodingBudget,
                  Deliver, inboxes, work, vars
    <3> QED
      BY <3>1 DEF HeardInv, ReporterHeard, BeforePlan
  <2> QED
    BY <2>1, <2>2, <2>3, <2>4, <2>5, <2>6, <2>7, <2>8, <2>9 DEF Next, System, Humans
<1>3. HeardInv => ReporterHeard
  BY DEF HeardInv
<1> QED
  BY <1>1, <1>2, <1>3, TypeCorrect, PTL DEF Spec
-----------------------------------------------------------------------------
(* The refinement of GatedDelivery                                         *)

\* What the refinement shows of code, of the authorization and of the outcome.
Verdict == IF ~pod.ran THEN "none" ELSE IF pod.qa /\ pod.ci THEN "green" ELSE "red"
Authorized == pc = "deploy" \/ deployed # "none"
Outcome == IF pc = "failed" THEN "failed"
           ELSE IF status = "SHIPPED" THEN "released"
           ELSE IF pc \in {"done_post", "closed"} THEN "stopped" ELSE "open"

\* A step that goes on is still open; one that has finished is stopped, unless
\* it shipped.
LEMMA OutcomeOf ==
    ASSUME PathInv
    PROVE  /\ pc \notin Finished \cup {"failed"} => Outcome = "open"
           /\ pc \in Finished /\ status # "SHIPPED" => Outcome = "stopped"
           /\ pc \in Finished /\ status = "SHIPPED" => Outcome = "released"
           /\ pc = "failed" => Outcome = "failed"
           /\ pc \notin Finished /\ pc # "deploy" => ~Authorized
           /\ pc = "deploy" => Authorized
  BY DEF PathInv, Outcome, Authorized, Finished

LEMMA VerdictOf ==
    ASSUME TypeOK, PathInv
    PROVE  /\ Verdict \in {"none", "green", "red"}
           /\ Verdict = "none" <=> ~pod.ran
           /\ pc \in Releasing => Verdict = "green"
  BY DEF PathInv, Verdict, Releasing

\* A checked step before the pod pays an agent.
LEMMA PayStep ==
    ASSUME TypeOK, TypeOK', MoneyInv, PathInv, PathInv',
           NEW r \in {"triage", "dedupe", "pm_prioritize"}, pc = r,
           NEW c \in Nat, Spend(c, r),
           UNCHANGED <<ceiling, overridden, deployApproved, pod, deployed>>
    PROVE  Delivery!Pay
<1>1. Outcome = "open" /\ ~Authorized /\ Verdict = "none"
  BY OutcomeOf, VerdictOf DEF PathInv, At, Planning, Finished
<1>2. overridden \/ cost <= ceiling + 0
  BY DEF MoneyInv, Planning, TypeOK
<1>3. cost' \in Nat /\ cost' >= cost
  BY DEF Spend, TypeOK
<1>4. /\ pc' \in Planning \cup {"done_post", "budget_gate"}
      /\ status' # "SHIPPED"
  BY DEF Spend, Proceed, GoTo, Open, Finish, Planning, PathInv, Finished
<1>5. Outcome' \in {"open", "stopped"}
  BY <1>4 DEF Outcome, Planning
<1>6. ~Authorized'
  BY <1>1, <1>4 DEF Authorized, Planning
<1>7. Authorized' = Authorized /\ Verdict' = Verdict
  BY <1>1, <1>6 DEF Verdict, Authorized
<1> QED
  BY <1>1, <1>2, <1>3, <1>5, <1>7
     DEF Delivery!Pay, Delivery!Open, Delivery!GoesOnOrStops, Outcome, Verdict, Authorized

\* A step that leaves all that the abstraction shows.
LEMMA Stutter ==
    ASSUME UNCHANGED <<money, deployApproved>>,
           Verdict' = Verdict, Authorized' = Authorized, Outcome' = Outcome
    PROVE  UNCHANGED Delivery!deliveryVars
  BY DEF Delivery!deliveryVars, money, Verdict, Authorized, Outcome

LEMMA SameVerdict ==
    ASSUME UNCHANGED pod
    PROVE  Verdict' = Verdict
  BY DEF Verdict

\* A step of the bug workflow is a step of the delivery, or none.
LEMMA StepImplements ==
    ASSUME TypeOK, TypeOK', MoneyInv, MoneyInv', PathInv, PathInv', [Next]_vars
    PROVE  [Delivery!Next]_(Delivery!deliveryVars)
<1> USE BugAssumption DEF BugAssumption
<1>t. /\ cost \in Nat /\ ceiling \in Nat /\ funded \in Nat /\ overridden \in BOOLEAN
      /\ cost' \in Nat /\ ceiling' \in Nat
      /\ ret \in Checked /\ pc \in Locations
  BY DEF TypeOK, Locations
<1>1. CASE TriageFeedback \/ DedupeCheck \/ PmPrioritizeBug
  <2>1. PICK step \in {"triage", "dedupe", "pm_prioritize"} : Act(step)
    BY <1>1 DEF TriageFeedback, DedupeCheck, PmPrioritizeBug
  <2>2. PICK c \in StepCosts : Spend(c, step)
    BY <2>1 DEF Act
  <2>3. c \in Nat
    OBVIOUS
  <2> QED
    BY <2>1, <2>2, <2>3, PayStep DEF Act, Delivery!Next
<1>2. CASE ClarificationOver \/ EstimateCodingBudget
  <2>1. /\ pc \in Planning /\ pc' \in Planning \cup {"engineering_pod"}
        /\ UNCHANGED <<status, money, work, deployApproved>>
    BY <1>2 DEF ClarificationOver, EstimateCodingBudget, GoTo, Open, Planning, inboxes
  <2>2. Outcome = "open" /\ Outcome' = "open" /\ ~Authorized /\ ~Authorized'
    BY <2>1, OutcomeOf DEF Planning, Finished, PathInv, Outcome, Authorized, work
  <2>3. Authorized' = Authorized
    BY <2>2 DEF Authorized
  <2> QED
    BY <2>1, <2>2, <2>3, Stutter, SameVerdict DEF work
<1>3. CASE CodingBudgetFunded
  <2>1. /\ pc = "coding_budget_gate" /\ pc' = "engineering_pod"
        /\ UNCHANGED <<status, cost, overridden, pod, deployed, deployApproved>>
        /\ ceiling' = LiftedCeiling(funded')
    BY <1>3 DEF CodingBudgetFunded, GoTo, inboxes
  <2>2. Outcome = "open" /\ Outcome' = "open" /\ ~Authorized /\ ~Authorized' /\ Verdict = "none"
    BY <2>1, OutcomeOf, VerdictOf DEF Planning, Finished, PathInv, At, Outcome, Authorized
  <2>3. Authorized' = Authorized /\ Outcome' = Outcome
    BY <2>2 DEF Authorized
  <2>4. ceiling' >= ceiling
    BY <1>t, <2>1 DEF LiftedCeiling
  <2>5. overridden \/ cost <= ceiling
    BY <2>1 DEF MoneyInv, Planning
  <2> QED
    BY <1>t, <2>1, <2>2, <2>3, <2>4, <2>5, SameVerdict
       DEF Delivery!Next, Delivery!Fund, Delivery!Open, Delivery!Sanctioned, Outcome, Verdict,
           Authorized
<1>4. CASE EngineeringPodReturns
  <2>1. PICK c \in PodCosts : Spend(c, "engineering_pod")
    BY <1>4 DEF EngineeringPodReturns
  <2>2. /\ pc = "engineering_pod" /\ pod'.ran
        /\ UNCHANGED <<ceiling, overridden, deployApproved, deployed>>
    BY <1>4 DEF EngineeringPodReturns
  <2>3. /\ pc' \in {"deploy_approval", "done_post", "budget_gate"}
        /\ status' # "SHIPPED" /\ cost' >= cost
    BY <1>t, <2>1, <2>2 DEF Spend, Proceed, AfterPod, Open, Finish, PathInv, Finished
  <2>4. Outcome = "open" /\ Verdict = "none" /\ Verdict' \in {"green", "red"} /\ ~Authorized
    BY <2>2, OutcomeOf, VerdictOf DEF Finished, PathInv, Verdict
  <2>5. Outcome' \in {"open", "stopped"} /\ ~Authorized'
    BY <2>2, <2>3, <2>4 DEF Outcome, Authorized
  <2>6. Authorized' = Authorized
    BY <2>4, <2>5 DEF Authorized
  <2>7. overridden \/ cost <= ceiling
    BY <2>2 DEF MoneyInv
  <2> QED
    BY <1>t, <2>2, <2>3, <2>4, <2>5, <2>6, <2>7
       DEF Delivery!Next, Delivery!Code, Delivery!Open, Delivery!Sanctioned,
           Delivery!GoesOnOrStops, Outcome, Verdict, Authorized
<1>5. CASE DeployApproved
  <2>1. /\ pc = "deploy_approval" /\ pc' = "deploy" /\ deployApproved = "yes"
        /\ UNCHANGED <<status, money, work, deployApproved>>
    BY <1>5 DEF DeployApproved, GoTo, inboxes
  <2>2. /\ Outcome = "open" /\ Outcome' = "open" /\ ~Authorized /\ Authorized'
        /\ Verdict = "green"
    BY <2>1, OutcomeOf, VerdictOf DEF Releasing, Finished, PathInv, Outcome, Authorized
  <2>3. overridden \/ cost <= ceiling
    BY <2>1 DEF MoneyInv, Releasing
  <2>4. Authorized' = TRUE /\ Outcome' = Outcome
    BY <2>2 DEF Authorized
  <2> QED
    BY <2>1, <2>2, <2>3, <2>4, SameVerdict
       DEF Delivery!Next, Delivery!Authorize, Delivery!Open, Delivery!Sanctioned, Outcome,
           Verdict, Authorized, money, work
<1>6. CASE CodingBudgetDeclined \/ DeployNotApproved \/ BudgetHalt
  <2>1. /\ pc \in {"coding_budget_gate", "deploy_approval", "budget_gate"} /\ pc' = "done_post"
        /\ status' # "SHIPPED" /\ UNCHANGED <<money, work, deployApproved>>
    BY <1>6 DEF CodingBudgetDeclined, DeployNotApproved, DeployHeldOrLate, BudgetHalt, Finish,
                inboxes
  <2>2. Outcome = "open" /\ ~Authorized /\ Outcome' = "stopped" /\ ~Authorized'
    BY <2>1, OutcomeOf DEF Finished, Outcome, Authorized, work
  <2>3. Authorized' = Authorized
    BY <2>2 DEF Authorized
  <2> QED
    BY <2>1, <2>2, <2>3, SameVerdict
       DEF Delivery!Next, Delivery!Stop, Delivery!Open, Outcome, Verdict, Authorized, money, work
<1>7. CASE Deploy
  <2>1. /\ pc = "deploy" /\ deployed' \in {"yes", "no"} /\ Spend(0, "deploy")
        /\ UNCHANGED <<ceiling, overridden, pod, deployApproved>>
    BY <1>7 DEF Deploy
  <2>2. cost' = cost /\ (overridden \/ cost <= ceiling)
    BY <1>t, <2>1 DEF Spend, MoneyInv, Releasing
  <2>3. pc' = "done_post" /\ status' = "SHIPPED"
    BY <2>1, <2>2 DEF Spend, Proceed, Finish
  <2>4. Outcome = "open" /\ Authorized /\ Outcome' = "released" /\ Authorized'
    BY <2>1, <2>3, OutcomeOf DEF Finished, Outcome, Authorized
  <2>5. Authorized' = Authorized
    BY <2>4 DEF Authorized
  <2> QED
    BY <2>1, <2>2, <2>4, <2>5, SameVerdict
       DEF Delivery!Next, Delivery!Release, Delivery!Open, Outcome, Verdict, Authorized
<1>8. CASE BudgetOverridden
  <2>1. /\ pc = "budget_gate" /\ overridden' = TRUE /\ Proceed(ret) /\ ret # "deploy"
        /\ ~overridden /\ cost > ceiling
        /\ UNCHANGED <<cost, ceiling, pod, deployed, deployApproved>>
    BY <1>8 DEF BudgetOverridden, MoneyInv, inboxes
  <2>2. /\ pc' \in Planning \cup {"deploy_approval", "done_post"}
        /\ status' # "SHIPPED"
    BY <1>t, <2>1
       DEF Proceed, AfterPod, GoTo, Open, Finish, Planning, Checked, PathInv, Finished
  <2>3. Outcome = "open" /\ ~Authorized
    BY <2>1, OutcomeOf DEF Finished
  <2>4. Outcome' \in {"open", "stopped"} /\ ~Authorized'
    BY <2>1, <2>2, <2>3 DEF Outcome, Authorized, Planning
  <2>5. Authorized' = Authorized
    BY <2>3, <2>4 DEF Authorized
  <2>6. ~(overridden \/ cost <= ceiling)
    BY <1>t, <2>1
  <2> QED
    BY <2>1, <2>3, <2>4, <2>5, <2>6, SameVerdict
       DEF Delivery!Next, Delivery!Exempt, Delivery!Open, Delivery!Sanctioned,
           Delivery!GoesOnOrStops, Outcome, Verdict, Authorized
<1>9. CASE ActivityFails
  <2>1. /\ pc \in Activities /\ pc' = "failed" /\ UNCHANGED <<status, money, work, deployApproved>>
    BY <1>9 DEF ActivityFails, inboxes
  <2>2. Outcome = "open" /\ deployed = "none"
    BY <2>1, OutcomeOf DEF Activities, Checked, Finished, PathInv
  <2>3. Outcome' = "failed" /\ Authorized' = FALSE
    BY <2>1, <2>2 DEF Outcome, Authorized, work
  <2> QED
    BY <2>1, <2>2, <2>3, SameVerdict
       DEF Delivery!Next, Delivery!Fail, Delivery!Open, Outcome, Verdict, Authorized, money, work
<1>10. CASE PostDone
  <2>1. /\ pc = "done_post" /\ pc' = "closed" /\ UNCHANGED <<status, money, work, deployApproved>>
    BY <1>10 DEF PostDone, inboxes
  <2>2. Outcome' = Outcome
    BY <2>1 DEF Outcome
  <2>3. Authorized' = Authorized
    BY <2>1 DEF Authorized, work
  <2> QED
    BY <2>1, <2>2, <2>3, Stutter, SameVerdict DEF work
<1>11. CASE SubmitDeployApproval
  <2>1. /\ deployApproved' \in {"yes", "no"} /\ UNCHANGED <<pc, status, money, work>>
    BY <1>11 DEF SubmitDeployApproval, Deliver
  <2>2. Outcome' = Outcome
    BY <2>1 DEF Outcome
  <2>3. Authorized' = Authorized
    BY <2>1 DEF Authorized, work
  <2> QED
    BY <2>1, <2>2, <2>3, SameVerdict
       DEF Delivery!Next, Delivery!Consent, Outcome, Verdict, Authorized, money, work
<1>12. CASE \/ NotifyGate \/ SubmitUserClarification \/ SubmitBudgetDecision
            \/ SubmitCodingBudget \/ UNCHANGED vars
  <2>1. UNCHANGED <<pc, status, money, work, deployApproved>>
    BY <1>12 DEF NotifyGate, SubmitUserClarification, SubmitBudgetDecision, SubmitCodingBudget,
                 Deliver, vars, inboxes
  <2>2. Outcome' = Outcome
    BY <2>1 DEF Outcome
  <2>3. Authorized' = Authorized
    BY <2>1 DEF Authorized, work
  <2> QED
    BY <2>1, <2>2, <2>3, Stutter, SameVerdict DEF work
<1> QED
  BY <1>1, <1>2, <1>3, <1>4, <1>5, <1>6, <1>7, <1>8, <1>9, <1>10, <1>11, <1>12
     DEF Next, System, Humans

\* The bug workflow keeps what GatedDelivery promises, without slack: no agent
\* is paid while an unsanctioned dollar lies above the ceiling, only green
\* code is released, by a person's consent, and an ended run stays ended.
THEOREM DeliveryImplemented == Spec => ImplementsDelivery
<1>1. Init => Delivery!Init
  BY DEF Init, Delivery!Init
<1>2. TypeOK /\ TypeOK' /\ MoneyInv /\ MoneyInv' /\ PathInv /\ PathInv' /\ [Next]_vars
        => [Delivery!Next]_(Delivery!deliveryVars)
  BY StepImplements
<1> QED
  BY <1>1, <1>2, TypeCorrect, MoneyInvHolds, PathInvHolds, PTL
     DEF Spec, ImplementsDelivery, Delivery!Spec

-----------------------------------------------------------------------------
(* How long a run can take                                                 *)

\* The steps of the workflow, in their order.
Rank(step) ==
    CASE step = "triage" -> 10
      [] step = "dedupe" -> 9
      [] step = "clarification" -> 8
      [] step = "pm_prioritize" -> 7
      [] step = "estimate_coding_budget" -> 6
      [] step = "coding_budget_gate" -> 5
      [] step = "engineering_pod" -> 4
      [] step = "deploy_approval" -> 3
      [] step = "deploy" -> 2
      [] step = "done_post" -> 1
      [] OTHER -> 0

\* What is left of a run: the steps from here on, and of this step its card,
\* the budget gate behind it, and that gate's card.
StepsLeft ==
    4 * Rank(At) + (IF pc = "budget_gate" THEN 0 ELSE 2) + (IF card = "posting" THEN 1 ELSE 0)

LEMMA RankNat == ASSUME NEW step PROVE Rank(step) \in 0 .. 10
  BY DEF Rank

LEMMA RankLowers ==
    ASSUME NEW r, At = r, Rank(At') < Rank(r)
    PROVE  StepsLeft' < StepsLeft
<1>1. Rank(r) \in 0 .. 10 /\ Rank(At') \in 0 .. 10
  BY RankNat
<1>2. /\ StepsLeft <= 4 * Rank(r) + 3 /\ StepsLeft >= 4 * Rank(r)
      /\ StepsLeft' <= 4 * Rank(At') + 3 /\ StepsLeft' >= 4 * Rank(At')
      /\ StepsLeft \in Nat /\ StepsLeft' \in Nat
  BY <1>1 DEF StepsLeft
<1> QED
  BY <1>1, <1>2

LEMMA ProceedLowers ==
    ASSUME NEW r \in Checked, At = r, Proceed(r)
    PROVE  StepsLeft' < StepsLeft
<1> USE DEF GoTo, Open, Finish
<1>1. CASE r = "triage"
  BY <1>1, RankLowers DEF Proceed, At, Rank
<1>2. CASE r = "dedupe"
  <2>1. pc' \in {"done_post", "clarification", "pm_prioritize"}
    BY <1>2 DEF Proceed
  <2> QED
    BY <1>2, <2>1, RankLowers DEF At, Rank
<1>3. CASE r = "pm_prioritize"
  BY <1>3, RankLowers DEF Proceed, At, Rank
<1>4. CASE r = "engineering_pod"
  <2>1. pc' \in {"done_post", "deploy_approval"}
    BY <1>4 DEF Proceed, AfterPod
  <2> QED
    BY <1>4, <2>1, RankLowers DEF At, Rank
<1>5. CASE r = "deploy"
  BY <1>5, RankLowers DEF Proceed, At, Rank
<1> QED
  BY <1>1, <1>2, <1>3, <1>4, <1>5 DEF Checked

\* A checked step goes on, or waits at the budget gate behind it.
LEMMA SpendLowers ==
    ASSUME NEW r \in Checked, pc = r, NEW c, Spend(c, r)
    PROVE  StepsLeft' < StepsLeft
<1>1. At = r /\ pc # "budget_gate"
  BY DEF At, Checked
<1>2. CASE Proceed(r)
  BY <1>1, <1>2, ProceedLowers
<1>3. CASE pc' = "budget_gate" /\ ret' = r
  <2>1. At' = r
    BY <1>3 DEF At
  <2>2. Rank(At) = Rank(r) /\ Rank(At)' = Rank(r) /\ Rank(r) \in 0 .. 10
    BY <1>1, <2>1, RankNat DEF Rank
  <2> HIDE DEF Rank
  <2> QED
    BY <1>1, <1>3, <2>2 DEF StepsLeft
<1> QED
  BY <1>2, <1>3 DEF Spend, Open

LEMMA SystemLowers ==
    ASSUME TypeOK, System
    PROVE  StepsLeft' < StepsLeft
<1> USE DEF GoTo, Open, Finish
<1>1. CASE TriageFeedback \/ DedupeCheck \/ PmPrioritizeBug \/ EngineeringPodReturns \/ Deploy
  <2>1. \E r \in Checked : pc = r /\ \E c : Spend(c, r)
    BY <1>1 DEF TriageFeedback, DedupeCheck, PmPrioritizeBug, Act, EngineeringPodReturns,
                Deploy, Checked
  <2> QED
    BY <2>1, SpendLowers
<1>2. CASE \/ ClarificationOver \/ EstimateCodingBudget \/ CodingBudgetFunded
           \/ CodingBudgetDeclined \/ DeployApproved \/ DeployNotApproved \/ PostDone
  <2>1. \/ pc = "clarification" /\ pc' = "pm_prioritize"
        \/ pc = "estimate_coding_budget" /\ pc' \in {"coding_budget_gate", "engineering_pod"}
        \/ pc = "coding_budget_gate" /\ pc' \in {"engineering_pod", "done_post"}
        \/ pc = "deploy_approval" /\ pc' \in {"deploy", "done_post"}
        \/ pc = "done_post" /\ pc' = "closed"
    BY <1>2 DEF ClarificationOver, EstimateCodingBudget, CodingBudgetFunded,
                CodingBudgetDeclined, DeployApproved, DeployNotApproved, DeployHeldOrLate,
                PostDone
  <2>2. At = pc /\ Rank(At') < Rank(pc)
    BY <2>1 DEF At, Rank
  <2> QED
    BY <2>2, RankLowers
<1>3. CASE ActivityFails
  <2>1. pc \in Activities /\ pc' = "failed"
    BY <1>3 DEF ActivityFails
  <2>2. At = pc /\ Rank(At') < Rank(pc)
    BY <2>1 DEF At, Rank, Activities, Checked
  <2> QED
    BY <2>2, RankLowers
<1>4. CASE BudgetHalt
  <2>1. pc = "budget_gate" /\ ret \in Checked /\ pc' = "done_post"
    BY <1>4 DEF BudgetHalt, TypeOK
  <2>2. At = ret /\ Rank(At') < Rank(ret)
    BY <2>1 DEF At, Rank, Checked
  <2> QED
    BY <2>2, RankLowers
<1>5. CASE BudgetOverridden
  <2>1. At = ret /\ ret \in Checked /\ Proceed(ret)
    BY <1>5 DEF BudgetOverridden, At, TypeOK
  <2> QED
    BY <2>1, ProceedLowers
<1>6. CASE NotifyGate
  <2>1. UNCHANGED <<pc, ret>> /\ card = "posting" /\ card' = "posted"
    BY <1>6 DEF NotifyGate
  <2>2. At' = At
    BY <2>1 DEF At
  <2>3. Rank(At)' = Rank(At) /\ Rank(At) \in 0 .. 10
    BY <2>2, RankNat DEF Rank
  <2> QED
    BY <2>1, <2>3 DEF StepsLeft
<1> QED
  BY <1>1, <1>2, <1>3, <1>4, <1>5, <1>6 DEF System

\* Whatever people answer, and however often, a run has a step less to take
\* after every one that it takes, and no answer gives it one more: a bug is
\* closed, or its workflow failed, after 42 steps at the latest.
THEOREM StepsBounded ==
    Spec => /\ StepsLeft = 42
            /\ [](StepsLeft \in Nat)
            /\ [][IF System THEN StepsLeft' < StepsLeft ELSE StepsLeft' = StepsLeft]_vars
<1>1. Init => StepsLeft = 42
  BY DEF Init, StepsLeft, At, Rank
<1>2. StepsLeft \in Nat
  BY RankNat DEF StepsLeft
<1>3. Humans => StepsLeft' = StepsLeft
  <2> SUFFICES ASSUME Humans PROVE StepsLeft' = StepsLeft
    OBVIOUS
  <2>1. UNCHANGED <<pc, ret, card>>
    BY DEF Humans, SubmitUserClarification, SubmitDeployApproval, SubmitBudgetDecision,
           SubmitCodingBudget, Deliver
  <2> QED
    BY <2>1 DEF StepsLeft, At, Rank
<1>4. TypeOK /\ [Next]_vars => [IF System THEN StepsLeft' < StepsLeft ELSE StepsLeft' = StepsLeft]_vars
  BY <1>3, SystemLowers DEF Next
<1> QED
  BY <1>1, <1>2, <1>4, TypeCorrect, PTL DEF Spec
=============================================================================
