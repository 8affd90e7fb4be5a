------------------------------- MODULE BugFix -------------------------------
(***************************************************************************)
(* The workflow of orchestrator/workflows/bug.py: triage, duplicate check,  *)
(* an optional question to the reporter, priority, a funded round of the   *)
(* engineering pod, and a gated deploy.  It has its own code for the gates *)
(* it shares with FeatureRequest, and is modelled the same way: `pc` is    *)
(* what the workflow awaits, a gate posts its card before it waits, and a  *)
(* signal may overwrite its inbox between any two awaits.                  *)
(***************************************************************************)
EXTENDS Integers

CONSTANTS Ceiling,        \* BUDGET_USD["bug"]
          StepCosts,      \* dollars that an agent call reports
          PodCosts,       \* dollars that the pod reports
          Estimate,       \* the estimate of the coding round
          CustomAmounts,  \* amounts of a "custom" answer, with either sign
          EstimateGates,  \* may the estimate ask for the coding-budget gate?
          BudgetAnswers   \* what people answer to the override card

ASSUME BugAssumption ==
    /\ Ceiling \in Nat /\ Estimate \in Nat \ {0}
    /\ StepCosts \subseteq Nat /\ PodCosts \subseteq Nat /\ CustomAmounts \subseteq Nat
    /\ EstimateGates \subseteq BOOLEAN /\ BudgetAnswers \subseteq {"yes", "no"}

VARIABLES
    pc,             \* what the workflow awaits, or how it closed
    ret,            \* while at the budget gate: the step whose spend tripped it
    card,           \* the notice of the current gate
    status,         \* _status
    report,         \* what triage and the duplicate check found
    clarification,  \* _clarification: the inbox of the reporter's answer
    planned,        \* does the plan's context carry the reporter's answer?
    cost, ceiling, overridden,                      \* as in FeatureRequest
    deployApproved, budgetDecision, codingBudget,   \* the other inboxes
    funded,         \* plan.coding_budget_usd
    pod,            \* the PodResult, as far as this workflow reads it
    deployed,       \* what the deploy activity answered
    heard          \* history: did an answer come before the plan was built?

inboxes == <<clarification, deployApproved, budgetDecision, codingBudget>>
money == <<cost, ceiling, overridden>>
work == <<report, planned, funded, pod, deployed>>
vars == <<pc, ret, card, status, inboxes, money, work, heard>>

Checked == {"triage", "dedupe", "pm_prioritize", "engineering_pod", "deploy"}
Activities == Checked \cup {"estimate_coding_budget"}
Gates == {"clarification", "coding_budget_gate", "deploy_approval", "budget_gate"}
Ended == {"closed", "failed"}
Status == {"RUNNING", "CLOSED_DUPLICATE", "OVER_BUDGET", "HELD", "QA_FAILED", "CI_FAILED",
           "ESCALATED", "SHIPPED"}

NoFunding == [answer |-> "none", amount |-> 0]

TypeOK ==
    /\ pc \in Activities \cup Gates \cup Ended \cup {"done_post"}
    /\ ret \in Checked /\ card \in {"none", "posting", "posted"}
    /\ status \in Status
    /\ report \in [asks : BOOLEAN, duplicate : BOOLEAN]
    /\ clarification \in BOOLEAN /\ planned \in BOOLEAN
    /\ cost \in Nat /\ ceiling \in Nat /\ overridden \in BOOLEAN
    /\ deployApproved \in {"none", "yes", "no"} /\ budgetDecision \in {"none", "yes", "no"}
    /\ codingBudget \in [answer : {"none", "yes", "no", "custom"}, amount : Int]
    /\ funded \in Nat /\ pod \in [ran : BOOLEAN, qa : BOOLEAN, ci : BOOLEAN]
    /\ deployed \in {"none", "yes", "no"}
    /\ heard \in BOOLEAN

Init ==
    /\ pc = "triage" /\ ret = "triage" /\ card = "none" /\ status = "RUNNING"
    /\ report = [asks |-> FALSE, duplicate |-> FALSE]
    /\ clarification = FALSE /\ planned = FALSE
    /\ cost = 0 /\ ceiling = Ceiling /\ overridden = FALSE
    /\ deployApproved = "none" /\ budgetDecision = "none" /\ codingBudget = NoFunding
    /\ funded = 0 /\ pod = [ran |-> FALSE, qa |-> FALSE, ci |-> FALSE]
    /\ deployed = "none" /\ heard = FALSE

-----------------------------------------------------------------------------
(* Where control goes                                                      *)

GoTo(activity) == pc' = activity /\ card' = "none" /\ UNCHANGED status
Open(gate) == pc' = gate /\ card' = "posting" /\ UNCHANGED status
Finish(s) == pc' = "done_post" /\ card' = "none" /\ status' = s

\* Mutant: the context is built when the reporter's gate closes.
EarlyContext(r) == planned' = IF r = "dedupe" THEN clarification ELSE planned

\* The plan is built after the bug is prioritised, from whatever is in the
\* inbox by then: also an answer that came too late, or that nobody asked for.
Context(r) == planned' = IF r = "pm_prioritize" THEN clarification ELSE planned

\* Mutant: the hard QA gate is missing.
AfterPodNoQaGate == IF ~pod'.ci THEN Finish("CI_FAILED") ELSE Open("deploy_approval")

AfterPod ==
    IF ~pod'.qa THEN Finish("QA_FAILED")
    ELSE IF ~pod'.ci THEN Finish("CI_FAILED")
    ELSE Open("deploy_approval")

\* What follows the budget check of step r.
Proceed(r) ==
    /\ \/ r = "triage" /\ GoTo("dedupe")
       \/ r = "dedupe" /\ report'.duplicate /\ Finish("CLOSED_DUPLICATE")
       \/ r = "dedupe" /\ ~report'.duplicate /\ report'.asks /\ Open("clarification")
       \/ r = "dedupe" /\ ~report'.duplicate /\ ~report'.asks /\ GoTo("pm_prioritize")
       \/ r = "pm_prioritize" /\ GoTo("estimate_coding_budget")
       \/ r = "engineering_pod" /\ AfterPod
       \/ r = "deploy" /\ Finish("SHIPPED")
    /\ Context(r)

-----------------------------------------------------------------------------
(* _act, _check_budget and the budget gate                                 *)

\* Step r reports c dollars, and the ceiling is checked.
Spend(c, r) ==
    /\ cost' = cost + c
    /\ IF overridden \/ cost' <= ceiling
       THEN Proceed(r) /\ UNCHANGED <<ret, budgetDecision>>
       ELSE Open("budget_gate") /\ ret' = r /\ budgetDecision' = "none" /\ UNCHANGED planned

BudgetOverridden ==
    /\ pc = "budget_gate" /\ card = "posted"
    /\ budgetDecision = "yes"
    /\ overridden' = TRUE
    /\ UNCHANGED <<report, pod>>
    /\ Proceed(ret)
    /\ UNCHANGED <<ret, inboxes, cost, ceiling, funded, deployed, heard>>

\* Declined, or not answered in seven days.
BudgetHalt ==
    /\ pc = "budget_gate" /\ card = "posted"
    /\ budgetDecision \in {"no", "none"}
    /\ Finish("OVER_BUDGET")
    /\ UNCHANGED <<ret, inboxes, money, work, heard>>

-----------------------------------------------------------------------------
(* From the report to the plan                                             *)

\* An activity that costs, and then the rest of _act.
Act(step) ==
    /\ pc = step
    /\ \E c \in StepCosts : Spend(c, step)
    /\ UNCHANGED <<ceiling, overridden, clarification, deployApproved, codingBudget,
                   funded, pod, deployed, heard>>

TriageFeedback ==
    /\ \E asks \in BOOLEAN : report' = [report EXCEPT !.asks = asks]
    /\ Act("triage")

DedupeCheck ==
    /\ \E dup \in BOOLEAN : report' = [report EXCEPT !.duplicate = dup]
    /\ Act("dedupe")

PmPrioritizeBug == UNCHANGED report /\ Act("pm_prioritize")

\* The reporter answered, or seven days have passed: the workflow goes on.
ClarificationOver ==
    /\ pc = "clarification" /\ card = "posted"
    /\ GoTo("pm_prioritize")
    /\ UNCHANGED <<ret, inboxes, money, work, heard>>

EstimateCodingBudget ==
    /\ pc = "estimate_coding_budget"
    /\ \/ TRUE \in EstimateGates /\ Open("coding_budget_gate") /\ codingBudget' = NoFunding
       \/ FALSE \in EstimateGates /\ GoTo("engineering_pod") /\ UNCHANGED codingBudget
    /\ UNCHANGED <<ret, clarification, deployApproved, budgetDecision, money, work, heard>>

\* Mutant: the ceiling moves to what was funded, whatever was spent before.
ForgetSpent(budget) == IF budget > ceiling THEN budget ELSE ceiling

\* The funded round comes on top of what was spent.
LiftedCeiling(budget) == IF cost + budget > ceiling THEN cost + budget ELSE ceiling

\* Only a positive custom amount replaces the estimate.
FundedBudget ==
    IF codingBudget.answer = "custom" /\ codingBudget.amount > 0
    THEN codingBudget.amount ELSE Estimate

\* Approved, timed out, or a custom amount.
CodingBudgetFunded ==
    /\ pc = "coding_budget_gate" /\ card = "posted"
    /\ codingBudget.answer # "no"
    /\ funded' = FundedBudget
    /\ ceiling' = LiftedCeiling(funded')
    /\ GoTo("engineering_pod")
    /\ UNCHANGED <<ret, inboxes, cost, overridden, report, planned, pod, deployed, heard>>

CodingBudgetDeclined ==
    /\ pc = "coding_budget_gate" /\ card = "posted"
    /\ codingBudget.answer = "no"
    /\ Finish("HELD")
    /\ UNCHANGED <<ret, inboxes, money, work, heard>>

-----------------------------------------------------------------------------
(* The pod and the deploy                                                  *)

EngineeringPodReturns ==
    /\ pc = "engineering_pod"
    /\ \E qa \in BOOLEAN, ci \in BOOLEAN : pod' = [ran |-> TRUE, qa |-> qa, ci |-> ci]
    /\ \E c \in PodCosts : Spend(c, "engineering_pod")
    /\ UNCHANGED <<ceiling, overridden, clarification, deployApproved, codingBudget,
                   report, funded, deployed, heard>>

\* An answer that came before the gate counts.
DeployApproved ==
    /\ pc = "deploy_approval" /\ card = "posted"
    /\ deployApproved = "yes"
    /\ GoTo("deploy")
    /\ UNCHANGED <<ret, inboxes, money, work, heard>>

\* Mutant: the wait has no timeout.
DeployHeldOrWaiting == deployApproved = "no" /\ Finish("HELD")

DeployHeldOrLate ==
    \/ deployApproved = "no" /\ Finish("HELD")
    \/ deployApproved = "none" /\ Finish("ESCALATED")

DeployNotApproved ==
    /\ pc = "deploy_approval" /\ card = "posted"
    /\ DeployHeldOrLate
    /\ UNCHANGED <<ret, inboxes, money, work, heard>>

\* The answer is not read, and costs nothing.
Deploy ==
    /\ pc = "deploy"
    /\ deployed' \in {"yes", "no"}
    /\ Spend(0, "deploy")
    /\ UNCHANGED <<ceiling, overridden, clarification, deployApproved, codingBudget,
                   report, funded, pod, heard>>

-----------------------------------------------------------------------------
(* Every gate, every activity, the end                                     *)

\* The card is up, or posting it failed, which is only logged.
NotifyGate ==
    /\ card = "posting" /\ card' = "posted"
    /\ UNCHANGED <<pc, ret, status, inboxes, money, work, heard>>

\* Out of retries, the activity's or the pod's error ends the workflow.
ActivityFails ==
    /\ pc \in Activities /\ pc' = "failed"
    /\ UNCHANGED <<ret, card, status, inboxes, money, work, heard>>

PostDone ==
    /\ pc = "done_post" /\ pc' = "closed"
    /\ UNCHANGED <<ret, card, status, inboxes, money, work, heard>>

-----------------------------------------------------------------------------
(* Signals                                                                 *)

Deliver == pc \notin Ended /\ UNCHANGED <<pc, ret, card, status, money, work>>

\* Where the plan is yet to be built.
BeforePlan ==
    \/ pc \in {"triage", "dedupe", "clarification", "pm_prioritize"}
    \/ pc = "budget_gate" /\ ret \in {"triage", "dedupe", "pm_prioritize"}

SubmitUserClarification ==
    /\ Deliver
    /\ clarification' = TRUE
    /\ heard' = (heard \/ BeforePlan)
    /\ UNCHANGED <<deployApproved, budgetDecision, codingBudget>>

SubmitDeployApproval ==
    /\ Deliver
    /\ deployApproved' \in {"yes", "no"}
    /\ UNCHANGED <<clarification, budgetDecision, codingBudget, heard>>

SubmitBudgetDecision ==
    /\ Deliver
    /\ budgetDecision' \in BudgetAnswers
    /\ UNCHANGED <<clarification, deployApproved, codingBudget, heard>>

SubmitCodingBudget ==
    /\ Deliver
    /\ \/ \E answer \in {"yes", "no"} : codingBudget' = [answer |-> answer, amount |-> 0]
       \/ \E n \in CustomAmounts \cup {-m : m \in CustomAmounts} :
            codingBudget' = [answer |-> "custom", amount |-> n]
    /\ UNCHANGED <<clarification, deployApproved, budgetDecision, heard>>

-----------------------------------------------------------------------------
System ==
    \/ TriageFeedback \/ DedupeCheck \/ ClarificationOver \/ PmPrioritizeBug
    \/ EstimateCodingBudget \/ CodingBudgetFunded \/ CodingBudgetDeclined
    \/ EngineeringPodReturns \/ DeployApproved \/ DeployNotApproved \/ Deploy
    \/ BudgetOverridden \/ BudgetHalt \/ NotifyGate \/ ActivityFails \/ PostDone

Humans ==
    \/ SubmitUserClarification \/ SubmitDeployApproval
    \/ SubmitBudgetDecision \/ SubmitCodingBudget

Next == System \/ Humans

Spec == Init /\ [][Next]_vars

\* Activities end and timers fire; nobody has to answer.
FairSpec == Spec /\ WF_vars(System)

-----------------------------------------------------------------------------
\* An answer of the reporter that is there by the time the plan is built, be
\* it unasked, late, or given at a budget gate, reaches the coding agent.
ReporterHeard == ~BeforePlan /\ pc \notin Ended \cup {"done_post"} => planned = heard

\* A run closes with the status its history calls for: no duplicate is ever
\* fixed, each halt has its cause, and what was funded is kept free under the
\* ceiling until the pod has run.
StatusTellsWhy ==
    /\ report.duplicate =>
         /\ status \in {"RUNNING", "CLOSED_DUPLICATE", "OVER_BUDGET"}
         /\ ~pod.ran /\ funded = 0
    /\ status = "CLOSED_DUPLICATE" => report.duplicate
    /\ status = "OVER_BUDGET" => cost > ceiling /\ ~overridden
    /\ status = "QA_FAILED" => pod.ran /\ ~pod.qa
    /\ status = "CI_FAILED" => pod.qa /\ ~pod.ci
    /\ status = "ESCALATED" => pod.qa /\ pod.ci /\ deployed = "none"
    /\ status = "HELD" => deployed = "none" /\ (pod.ran \/ funded = 0)
    /\ funded > 0 => cost + funded <= ceiling \/ pod.ran

\* Whatever people answer, or never answer, the run ends.
Terminates == <>(pc \in Ended)

\* What the bug workflow promises is what the feature workflow promises; and
\* since every call is checked here, with no slack: while the run is open, no
\* unsanctioned dollar above the ceiling is left behind a step.
Delivery == INSTANCE GatedDelivery WITH
    Limit <- Ceiling, Slack <- 0,
    spent <- cost, limit <- ceiling, exempt <- overridden,
    code <- IF ~pod.ran THEN "none" ELSE IF pod.qa /\ pod.ci THEN "green" ELSE "red",
    consent <- deployApproved,
    authorized <- pc = "deploy" \/ deployed # "none",
    outcome <- IF pc = "failed" THEN "failed"
               ELSE IF status = "SHIPPED" THEN "released"
               ELSE IF pc \in {"done_post", "closed"} THEN "stopped" ELSE "open"

ImplementsDelivery == Delivery!Spec
=============================================================================
