--------------------------- MODULE FeatureRequest ---------------------------
(***************************************************************************)
(* The parent workflow of orchestrator/workflows/feature_request.py: from a *)
(* feature request to a shipped PR, past five human gates and one budget   *)
(* ceiling.                                                                *)
(*                                                                         *)
(* `pc` is the activity, child workflow or gate that the workflow awaits.  *)
(* An action is the completion of what is awaited and the code up to the   *)
(* next await.  Between two awaits a signal may arrive at any moment and   *)
(* overwrites its inbox.  A gate posts its card (`card` = "posting") before *)
(* it starts to wait (`card` = "posted").  The child workflows are one step *)
(* each, with any result; EngineeringPod models the pod.  Progress posts   *)
(* change nothing here and are left out, but for the last one.             *)
(***************************************************************************)
EXTENDS Integers

CONSTANTS MaxPrdPasses,       \* MAX_PRD_PASSES
          MaxSignoffRevisions,\* MAX_SIGNOFF_REVISIONS
          CouncilSize,        \* how many agents vote
          Ceiling,            \* BUDGET_USD["feature"]
          StepCosts,          \* dollars that the agent calls of one step report
          MaxStepCost,        \* an upper bound of StepCosts
          PodCosts,           \* dollars that a pod reports
          Estimate,           \* the estimate of the coding round
          CustomAmounts,      \* amounts a human may type into the budget card
          EstimateGates,      \* may the estimate ask for the coding-budget gate?
          Signals             \* the signals that humans send

ASSUME FeatureAssumption ==
    /\ MaxPrdPasses \in Nat \ {0} /\ MaxSignoffRevisions \in Nat
    /\ CouncilSize \in Nat /\ Ceiling \in Nat
    /\ MaxStepCost \in Nat /\ StepCosts \subseteq 0 .. MaxStepCost
    /\ PodCosts \subseteq Nat
    /\ Estimate \in Nat \ {0}
    /\ CustomAmounts \subseteq Nat
    /\ EstimateGates \subseteq BOOLEAN
    /\ Signals \subseteq {"human_vote", "pm_signoff", "deploy_approval",
                          "budget_decision", "coding_budget"}

VARIABLES
    pc,             \* what the workflow awaits, or how it closed
    ret,            \* while at the budget gate: the step whose spend tripped it
    card,           \* the notice of the current gate
    status,         \* _status
    cost,           \* _cost_usd
    ceiling,        \* _ceiling
    overridden,     \* _budget_overridden
    humanVote, pmSignoff, deployApproved,   \* the gates' inboxes
    budgetDecision, codingBudget,           \* the inboxes of the two budget gates
    approvals,      \* agents that voted for the brief
    councilApproved,\* _council_approved
    ui,             \* brief.ui_impacting
    prdVersion,     \* _prd_version
    pass,           \* pass_no of the PRD loop
    revisions,      \* signoff_revisions
    funded,         \* plan.coding_budget_usd
    pod,            \* the PodResult, as far as the parent reads it
    deployed       \* what the deploy activity answered

inboxes == <<humanVote, pmSignoff, deployApproved, budgetDecision, codingBudget>>
money == <<cost, ceiling, overridden>>
council == <<approvals, councilApproved, ui>>
prd == <<prdVersion, pass, revisions>>
delivery == <<funded, pod, deployed>>
vars == <<pc, ret, card, status, inboxes, money, council, prd, delivery>>

Gates == {"council_gate", "pm_signoff", "coding_budget_gate", "deploy_approval",
          "budget_gate"}
Activities == {"pm_draft_brief", "council_agent_vote", "pm_write_prd",
               "architect_review_prd", "pm_revise_prd", "ux_generate_mocks",
               "consumer_research", "pm_revise_signoff", "architect_plan_stories",
               "estimate_coding_budget", "engineering_pod", "deploy"}
Ended == {"closed", "failed"}

\* The steps after which the budget is checked.
Checked == (Activities \ {"council_agent_vote", "architect_review_prd",
                          "estimate_coding_budget"}) \cup {"council_gate"}

Status == {"RUNNING", "SHIPPED", "REJECTED_BY_COUNCIL", "HELD", "ESCALATED",
           "OVER_BUDGET", "CI_FAILED", "QA_FAILED"}

\* An inbox is empty or holds the last answer.  `asked` is history: did the
\* answer come while its gate was open?
NoAnswer == [answer |-> "none", amount |-> 0, asked |-> FALSE]
Answer == [answer : {"none", "yes", "no", "custom"}, amount : Nat, asked : BOOLEAN]
Pod == [ran : BOOLEAN, qa : BOOLEAN, ci : BOOLEAN, cost : Nat]

TypeOK ==
    /\ pc \in Activities \cup Gates \cup Ended \cup {"done_post"}
    /\ ret \in Checked
    /\ card \in {"none", "posting", "posted"}
    /\ status \in Status
    /\ cost \in Nat /\ ceiling \in Nat /\ overridden \in BOOLEAN
    /\ humanVote \in {"none", "yes", "no"}
    /\ pmSignoff \in {"none", "approve", "revise"}
    /\ deployApproved \in {"none", "yes", "no"}
    /\ budgetDecision \in Answer /\ codingBudget \in Answer
    /\ approvals \in 0 .. CouncilSize
    /\ councilApproved \in {"none", "yes", "no"} /\ ui \in BOOLEAN
    /\ prdVersion \in Nat /\ pass \in 1 .. MaxPrdPasses /\ revisions \in Nat
    /\ funded \in Nat /\ pod \in Pod /\ deployed \in {"none", "yes", "no"}

Init ==
    /\ pc = "pm_draft_brief" /\ ret = "pm_draft_brief" /\ card = "none"
    /\ status = "RUNNING"
    /\ cost = 0 /\ ceiling = Ceiling /\ overridden = FALSE
    /\ humanVote = "none" /\ pmSignoff = "none" /\ deployApproved = "none"
    /\ budgetDecision = NoAnswer /\ codingBudget = NoAnswer
    /\ approvals = 0 /\ councilApproved = "none" /\ ui = FALSE
    /\ prdVersion = 0 /\ pass = 1 /\ revisions = 0
    /\ funded = 0 /\ pod = [ran |-> FALSE, qa |-> FALSE, ci |-> FALSE, cost |-> 0]
    /\ deployed = "none"

-----------------------------------------------------------------------------
(* Where control goes                                                      *)

GoTo(activity) == pc' = activity /\ card' = "none" /\ UNCHANGED status

Open(gate) == pc' = gate /\ card' = "posting" /\ UNCHANGED status

\* Leave _execute: the status is set, and run() makes the terminal post.
Finish(s) == pc' = "done_post" /\ card' = "none" /\ status' = s

AfterRefine == GoTo(IF ui THEN "ux_generate_mocks" ELSE "consumer_research")

AfterCouncil ==
    IF councilApproved' = "yes" THEN GoTo("pm_write_prd") ELSE Finish("REJECTED_BY_COUNCIL")

\* Mutant: the CI gate is missing.
AfterPodNoCiGate ==
    IF ~pod'.qa THEN Finish("QA_FAILED") ELSE Open("deploy_approval")

\* The hard QA gate, then the hard CI gate, then the human's.
AfterPod ==
    IF ~pod'.qa THEN Finish("QA_FAILED")
    ELSE IF ~pod'.ci THEN Finish("CI_FAILED")
    ELSE Open("deploy_approval")

\* Mutant: one pass too many.
MorePassesOffByOne == pass <= MaxPrdPasses

MorePasses == pass < MaxPrdPasses

\* What the workflow does after the budget check that follows step r.
Proceed(r) ==
    /\ \/ r = "pm_draft_brief" /\ GoTo("council_agent_vote")
       \/ r = "council_gate" /\ AfterCouncil
       \/ r \in {"pm_write_prd", "pm_revise_signoff"} /\ GoTo("architect_review_prd")
       \/ r = "pm_revise_prd" /\ MorePasses /\ GoTo("architect_review_prd")
       \/ r = "pm_revise_prd" /\ ~MorePasses /\ AfterRefine
       \/ r = "ux_generate_mocks" /\ GoTo("consumer_research")
       \/ r = "consumer_research" /\ Open("pm_signoff")
       \/ r = "architect_plan_stories" /\ GoTo("estimate_coding_budget")
       \/ r = "engineering_pod" /\ AfterPod
       \/ r = "deploy" /\ Finish("SHIPPED")
    /\ prdVersion' = IF r \in {"pm_write_prd", "pm_revise_prd", "pm_revise_signoff"}
                     THEN prdVersion + 1 ELSE prdVersion
    /\ pass' = IF r = "pm_revise_prd" /\ MorePasses THEN pass + 1
               ELSE IF r \in {"pm_write_prd", "pm_revise_signoff"} THEN 1 ELSE pass

-----------------------------------------------------------------------------
(* _check_budget and its gate                                              *)

WithinBudget == overridden \/ cost' <= ceiling

\* Mutant: an answer that was in the inbox is kept.
KeepOldAnswer == UNCHANGED budgetDecision

ResetAnswer == budgetDecision' = NoAnswer

\* The check after step r, once its cost is in.
CheckBudget(r) ==
    IF WithinBudget
    THEN Proceed(r) /\ UNCHANGED <<ret, budgetDecision>>
    ELSE /\ Open("budget_gate")
         /\ ret' = r
         /\ ResetAnswer
         /\ UNCHANGED <<prdVersion, pass>>

\* Mutant: the activity is run without the check.
SpendUnchecked(c, r) ==
    /\ cost' = cost + c
    /\ Proceed(r)
    /\ UNCHANGED <<ret, budgetDecision>>

\* _act: step r reports c dollars, then the check.
Spend(c, r) == cost' = cost + c /\ CheckBudget(r)

\* _act_raw: the cost is added and not checked.
SpendRaw(c) == cost' = cost + c

BudgetAnswered ==
    /\ pc = "budget_gate" /\ card = "posted"
    /\ \/ /\ budgetDecision.answer = "yes"
          /\ overridden' = TRUE
          /\ councilApproved' = councilApproved /\ pod' = pod
          /\ Proceed(ret)
       \/ /\ budgetDecision.answer = "no"
          /\ Finish("OVER_BUDGET")
          /\ UNCHANGED <<overridden, councilApproved, pod, prdVersion, pass>>
    /\ UNCHANGED <<ret, cost, ceiling, inboxes, approvals, ui, revisions, funded,
                   deployed>>

BudgetTimeout ==
    /\ pc = "budget_gate" /\ card = "posted"
    /\ budgetDecision.answer = "none"
    /\ Finish("OVER_BUDGET")
    /\ UNCHANGED <<ret, inboxes, money, council, prd, delivery>>

-----------------------------------------------------------------------------
(* Brief and council                                                       *)

PmDraftBrief ==
    /\ pc = "pm_draft_brief"
    /\ ui' \in BOOLEAN
    /\ \E c \in StepCosts : Spend(c, "pm_draft_brief")
    /\ UNCHANGED <<ceiling, overridden, humanVote, pmSignoff, deployApproved, codingBudget,
                   approvals, councilApproved, revisions, delivery>>

\* The agents vote in parallel; the workflow goes on when all have.
CouncilAgentVotes ==
    /\ pc = "council_agent_vote"
    /\ approvals' \in 0 .. CouncilSize
    /\ \E c \in StepCosts : SpendRaw(c)
    /\ Open("council_gate")
    /\ UNCHANGED <<ret, ceiling, overridden, inboxes, councilApproved, ui, prd, delivery>>

\* The human's vote decides; without one in 72 hours, the agents' strict majority.
CouncilDecided ==
    /\ pc = "council_gate" /\ card = "posted"
    /\ councilApproved' =
         IF humanVote # "none" THEN humanVote
         ELSE IF approvals * 2 > CouncilSize THEN "yes" ELSE "no"
    /\ Spend(0, "council_gate")
    /\ UNCHANGED <<ceiling, overridden, humanVote, pmSignoff, deployApproved, codingBudget,
                   approvals, ui, revisions, delivery>>

-----------------------------------------------------------------------------
(* PRD, mocks, research, and the sign-off loop                             *)

\* An agent call, or the research child, of which only the cost matters here.
AgentStep(step) ==
    /\ pc = step
    /\ \E c \in StepCosts : Spend(c, step)
    /\ UNCHANGED <<ceiling, overridden, humanVote, pmSignoff, deployApproved, codingBudget,
                   council, revisions, delivery>>

PmWritePrd == AgentStep("pm_write_prd")
PmRevisePrd == AgentStep("pm_revise_prd")
UxGenerateMocks == AgentStep("ux_generate_mocks")

\* The research child adds up its tokens and leaves the personas' dollars out:
\* what the report says is what its synthesis cost.
ConsumerResearch == AgentStep("consumer_research")

\* After a sign-off "revise".
PmReviseSignoff == AgentStep("pm_revise_signoff")
ArchitectPlanStories == AgentStep("architect_plan_stories")

\* The review's own cost is only checked with the next step's.
ArchitectReviewPrd ==
    /\ pc = "architect_review_prd"
    /\ \E c \in StepCosts : SpendRaw(c)
    /\ \/ AfterRefine
       \/ GoTo("pm_revise_prd")
    /\ UNCHANGED <<ret, ceiling, overridden, inboxes, council, prd, delivery>>

MayRevise == revisions < MaxSignoffRevisions

\* Approve, or revise; the timeout is a revise.  An answer is consumed here,
\* and one that came before the gate counts.
PmSignoff ==
    /\ pc = "pm_signoff" /\ card = "posted"
    /\ IF pmSignoff = "approve"
       THEN GoTo("architect_plan_stories") /\ UNCHANGED revisions
       ELSE /\ revisions' = revisions + 1
            /\ GoTo(IF MayRevise THEN "pm_revise_signoff" ELSE "architect_plan_stories")
    /\ pmSignoff' = "none"
    /\ UNCHANGED <<ret, humanVote, deployApproved, budgetDecision, codingBudget, money,
                   council, prdVersion, pass, delivery>>

-----------------------------------------------------------------------------
(* The coding-budget gate and the pod                                      *)

\* The estimate itself costs nothing.  Live, it asks for the gate.
EstimateCodingBudget ==
    /\ pc = "estimate_coding_budget"
    /\ \/ TRUE \in EstimateGates /\ Open("coding_budget_gate") /\ codingBudget' = NoAnswer
       \/ FALSE \in EstimateGates /\ GoTo("engineering_pod") /\ UNCHANGED codingBudget
    /\ UNCHANGED <<ret, humanVote, pmSignoff, deployApproved, budgetDecision, money, council,
                   prd, delivery>>

\* Mutant: the ceiling is not lifted.
CeilingNotLifted(budget) == ceiling

\* The funded round is sanctioned spend, on top of what was spent so far.
LiftedCeiling(budget) == IF cost + budget > ceiling THEN cost + budget ELSE ceiling

FundRound(budget) ==
    /\ funded' = budget
    /\ ceiling' = LiftedCeiling(budget)
    /\ GoTo("engineering_pod")

\* A timeout, an "approve" and a custom amount of zero fund the estimate.
CodingBudgetFunded ==
    /\ pc = "coding_budget_gate" /\ card = "posted"
    /\ codingBudget.answer # "no"
    /\ FundRound(IF codingBudget.answer = "custom" /\ codingBudget.amount > 0
                 THEN codingBudget.amount ELSE Estimate)
    /\ UNCHANGED <<ret, cost, overridden, inboxes, council, prd, pod, deployed>>

CodingBudgetDeclined ==
    /\ pc = "coding_budget_gate" /\ card = "posted"
    /\ codingBudget.answer = "no"
    /\ Finish("HELD")
    /\ UNCHANGED <<ret, inboxes, money, council, prd, delivery>>

EngineeringPodReturns ==
    /\ pc = "engineering_pod"
    /\ \E qa \in BOOLEAN, ci \in BOOLEAN, c \in PodCosts :
        /\ pod' = [ran |-> TRUE, qa |-> qa, ci |-> ci, cost |-> c]
        /\ Spend(c, "engineering_pod")
    /\ UNCHANGED <<ceiling, overridden, humanVote, pmSignoff, deployApproved, codingBudget,
                   council, revisions, funded, deployed>>

-----------------------------------------------------------------------------
(* Deploy                                                                  *)

\* The inbox is not reset: an approval that came before the gate counts.
DeployAnswered ==
    /\ pc = "deploy_approval" /\ card = "posted"
    /\ \/ deployApproved = "yes" /\ GoTo("deploy")
       \/ deployApproved = "no" /\ Finish("HELD")
    /\ UNCHANGED <<ret, inboxes, money, council, prd, delivery>>

\* Mutant: an unanswered card waits for ever.
DeployNeverTimesOut == FALSE

DeployTimesOut == deployApproved = "none"

DeployTimeout ==
    /\ pc = "deploy_approval" /\ card = "posted"
    /\ DeployTimesOut
    /\ Finish("ESCALATED")
    /\ UNCHANGED <<ret, inboxes, money, council, prd, delivery>>

\* The merge may be refused; the workflow does not look at the answer.  It
\* costs nothing.
Deploy ==
    /\ pc = "deploy"
    /\ deployed' \in {"yes", "no"}
    /\ Spend(0, "deploy")
    /\ UNCHANGED <<ceiling, overridden, humanVote, pmSignoff, deployApproved, codingBudget,
                   council, revisions, funded, pod>>

-----------------------------------------------------------------------------
(* Every gate, every activity, the end                                     *)

\* Mutant: the inbox is reset after the card is up.
ResetAfterPosting ==
    /\ card = "posting"
    /\ card' = "posted"
    /\ budgetDecision' = IF pc = "budget_gate" THEN NoAnswer ELSE budgetDecision
    /\ UNCHANGED <<pc, ret, status, humanVote, pmSignoff, deployApproved, codingBudget, money,
                   council, prd, delivery>>

\* The card is up, or posting it failed, which is only logged.
NotifyGate ==
    /\ card = "posting"
    /\ card' = "posted"
    /\ UNCHANGED <<pc, ret, status, inboxes, money, council, prd, delivery>>

\* An activity or child workflow exhausts its retries: the error is not
\* caught, and closes the workflow as it is.
ActivityFails ==
    /\ pc \in Activities
    /\ pc' = "failed"
    /\ UNCHANGED <<ret, card, status, inboxes, money, council, prd, delivery>>

PostDone ==
    /\ pc = "done_post"
    /\ pc' = "closed"
    /\ UNCHANGED <<ret, card, status, inboxes, money, council, prd, delivery>>

-----------------------------------------------------------------------------
(* Signals: any time before the workflow closes, whatever gate is open     *)

Deliver(signal) ==
    /\ signal \in Signals
    /\ pc \notin Ended
    /\ UNCHANGED <<pc, ret, card, status, money, council, prd, delivery>>

SubmitHumanVote ==
    /\ Deliver("human_vote")
    /\ humanVote' \in {"yes", "no"}
    /\ UNCHANGED <<pmSignoff, deployApproved, budgetDecision, codingBudget>>

SubmitPmSignoff ==
    /\ Deliver("pm_signoff")
    /\ pmSignoff' \in {"approve", "revise"}
    /\ UNCHANGED <<humanVote, deployApproved, budgetDecision, codingBudget>>

SubmitDeployApproval ==
    /\ Deliver("deploy_approval")
    /\ deployApproved' \in {"yes", "no"}
    /\ UNCHANGED <<humanVote, pmSignoff, budgetDecision, codingBudget>>

SubmitBudgetDecision ==
    /\ Deliver("budget_decision")
    /\ \E a \in {"yes", "no"} :
        budgetDecision' = [answer |-> a, amount |-> 0, asked |-> pc = "budget_gate"]
    /\ UNCHANGED <<humanVote, pmSignoff, deployApproved, codingBudget>>

SubmitCodingBudget ==
    /\ Deliver("coding_budget")
    /\ \E a \in {"yes", "no", "custom"}, n \in CustomAmounts \cup {0} :
        /\ a # "custom" => n = 0
        /\ codingBudget' = [answer |-> a, amount |-> n, asked |-> pc = "coding_budget_gate"]
    /\ UNCHANGED <<humanVote, pmSignoff, deployApproved, budgetDecision>>

-----------------------------------------------------------------------------
\* What the worker and Temporal's timers do.
System ==
    \/ PmDraftBrief \/ CouncilAgentVotes \/ CouncilDecided
    \/ PmWritePrd \/ ArchitectReviewPrd \/ PmRevisePrd \/ UxGenerateMocks
    \/ ConsumerResearch \/ PmSignoff \/ PmReviseSignoff \/ ArchitectPlanStories
    \/ EstimateCodingBudget \/ CodingBudgetFunded \/ CodingBudgetDeclined
    \/ EngineeringPodReturns
    \/ DeployAnswered \/ DeployTimeout \/ Deploy
    \/ BudgetAnswered \/ BudgetTimeout
    \/ NotifyGate \/ ActivityFails \/ PostDone

\* What people do, or not.
Humans ==
    \/ SubmitHumanVote \/ SubmitPmSignoff \/ SubmitDeployApproval
    \/ SubmitBudgetDecision \/ SubmitCodingBudget

Next == System \/ Humans

Spec == Init /\ [][Next]_vars

\* Activities complete or run out of retries, and timers fire; nobody has to
\* answer a card.
FairSpec == Spec /\ WF_vars(System)

-----------------------------------------------------------------------------
(* Safety                                                                  *)

PodGreen == pod.ran /\ pod.qa /\ pod.ci

\* No path, budget gates and loops included, leads to the deploy gate or past
\* it without an approving council, a pod whose QA and CI verdicts are green,
\* and, where estimates ask for one, a funded coding round.
ShipOnlyGreen ==
    pc \in {"deploy_approval", "deploy"} \/ deployed # "none" \/ status = "SHIPPED" =>
        /\ councilApproved = "yes"
        /\ PodGreen
        /\ FALSE \notin EstimateGates => funded > 0

\* No paid step that commits the run further (a sign-off asked of a human, the
\* plan, the pod, the deploy) starts above the ceiling without an override,
\* though two kinds of agent calls are not checked when they are paid.
SanctionedSpend ==
    pc \in {"pm_write_prd", "pm_signoff", "architect_plan_stories", "estimate_coding_budget",
            "coding_budget_gate", "engineering_pod", "deploy_approval", "deploy"} =>
        overridden \/ cost <= ceiling

\* Before the pod, spend passes the ceiling by two unchecked steps at most:
\* an unchecked call is always followed by a checked one.
Overshoot == ~overridden /\ ~pod.ran => cost <= ceiling + 2 * MaxStepCost

\* The ceiling is lifted so that the funded coding round cannot trip the
\* budget gate: only a pod that spent more than it was funded can.
FundedRoundCannotRetrip ==
    pc = "budget_gate" /\ ret = "engineering_pod" => pod.cost > funded

\* A budget decision or a coding budget that came before its gate opened is
\* not taken for an answer to its card.
AnswerWasAsked ==
    /\ pc = "budget_gate" /\ budgetDecision.answer # "none" => budgetDecision.asked
    /\ pc = "coding_budget_gate" /\ codingBudget.answer # "none" => codingBudget.asked

\* The status a run ends with is the one that its history calls for.
StatusTellsWhy ==
    /\ status = "OVER_BUDGET" => cost > ceiling /\ ~overridden
    /\ status = "REJECTED_BY_COUNCIL" => councilApproved = "no" /\ prdVersion = 0
    /\ status = "QA_FAILED" => pod.ran /\ ~pod.qa
    /\ status = "CI_FAILED" => pod.ran /\ pod.qa /\ ~pod.ci
    /\ status = "ESCALATED" => PodGreen /\ deployed = "none"
    /\ status = "HELD" => IF pod.ran THEN PodGreen /\ deployed = "none" ELSE funded = 0
    /\ deployed # "none" /\ pc # "deploy" => status \in {"RUNNING", "SHIPPED"}

\* The two bounded loops multiply: MaxPrdPasses revisions of the PRD for each
\* of the sign-off rounds, and one revision between two rounds.
RevisionBound ==
    /\ revisions <= MaxSignoffRevisions + 1
    /\ prdVersion <= (MaxSignoffRevisions + 1) * (MaxPrdPasses + 1)

-----------------------------------------------------------------------------
(* What a step may never do                                                *)

\* Once the status is final, the run spends nothing, starts nothing, and ends.
FinalIsFinal ==
    [][status # "RUNNING" =>
         UNCHANGED <<status, money, council, prd, delivery>> /\ pc' \in {pc, "closed"}]_vars

\* An answer given while a resetting gate is open is still there when the
\* workflow starts to wait: posting the card loses none.
OpenGateKeepsAnswer ==
    [][card = "posting" =>
         /\ budgetDecision.answer # "none" => budgetDecision'.answer # "none"
         /\ codingBudget.answer # "none" => codingBudget'.answer # "none"]_vars

-----------------------------------------------------------------------------
(* Liveness                                                                *)

\* Whatever people answer, or never answer, no gate and no loop keeps the
\* workflow for ever.
Terminates == <>(pc \in Ended)

-----------------------------------------------------------------------------
(* What is promised, however many gates and loops it takes: GatedDelivery. *)
(* An agent call is paid while at most one unchecked call is above the     *)
(* ceiling.                                                                *)
Delivery == INSTANCE GatedDelivery WITH
    Limit <- Ceiling, Slack <- MaxStepCost,
    spent <- cost, limit <- ceiling, exempt <- overridden,
    code <- IF ~pod.ran THEN "none" ELSE IF pod.qa /\ pod.ci THEN "green" ELSE "red",
    consent <- deployApproved,
    authorized <- pc = "deploy" \/ deployed # "none",
    outcome <- IF pc = "failed" THEN "failed"
               ELSE IF status = "SHIPPED" THEN "released"
               ELSE IF pc \in {"done_post", "closed"} THEN "stopped" ELSE "open"

ImplementsDelivery == Delivery!Spec

-----------------------------------------------------------------------------
(* Claims of the documentation that the code does not keep                 *)

\* README.md: a human deploy approval leads to "shipped": the status says that
\* the change is deployed.
ShippedIsDeployed == status = "SHIPPED" => deployed = "yes"
=============================================================================
