--------------------------- MODULE EngineeringPod ---------------------------
(***************************************************************************)
(* The child workflow of orchestrator/workflows/engineering_pod.py: code,  *)
(* QA, review, open the PR, wait for CI, take screenshots, with three      *)
(* bounded fix loops.  Every stage is one activity; `pc` is the activity   *)
(* the workflow awaits, and the action named after an activity is its      *)
(* completion together with the workflow code up to the next await.        *)
(*                                                                         *)
(* A diff is represented by the number of the coding pass that wrote it,   *)
(* so that a verdict can be compared with the diff it was given for.       *)
(* Play-by-play posts to Slack change nothing here and are left out.       *)
(***************************************************************************)
EXTENDS Integers

CONSTANTS MaxQaFixPasses,   \* MAX_QA_FIX_PASSES
          MaxReviewPasses,  \* MAX_REVIEW_PASSES
          MaxCiFixPasses,   \* MAX_CI_FIX_PASSES
          MaxAttempts,      \* DEFAULT_RETRY.maximum_attempts
          CodingCosts,      \* what one coding attempt may really spend
          AgentCosts        \* what one QA or review call may really spend

ASSUME PodAssumption ==
    /\ MaxQaFixPasses \in Nat /\ MaxReviewPasses \in Nat /\ MaxCiFixPasses \in Nat
    /\ MaxAttempts \in Nat \ {0}
    /\ CodingCosts \subseteq Nat
    /\ AgentCosts \subseteq Nat

VARIABLES
    pc,         \* the activity awaited, or how the workflow ended
    fixes, reviews, ciPasses,   \* the three loop counters
    attempts,   \* attempts of the current coding activity already lost
    passes,     \* coding passes completed so far
    sessions,   \* history: coding sessions run, lost attempts included
    result,     \* the current StoryResult: its pass, whether it has a diff, its cost
    qa,         \* last QA verdict, with the pass it judged
    review,     \* last review verdict, with the pass it judged
    opened,     \* did open_pr report a PR?
    head,       \* the pass whose diff the PR's branch holds, 0 if none
    upd,        \* what the last update_pr answered
    ci,         \* last CI verdict, with the branch content it was given for
    shots,      \* the pass the screenshots show, 0 if there are none
    cost,       \* cost_usd, accumulated by _spend
    reported,   \* history: the costs that completed activities reported
    spent       \* history: what the coding attempts and agent calls really cost

loops == <<fixes, reviews, ciPasses>>
branch == <<opened, head, upd>>
verdicts == <<qa, review, ci>>
money == <<cost, reported, spent>>
coding == <<attempts, passes, sessions, result>>
vars == <<pc, loops, coding, branch, verdicts, shots, money>>

CodingStages == {"implement_stories", "revise_after_review", "revise_after_ci"}
Ended == {"done", "failed"}
Stages == CodingStages \cup Ended \cup
          {"qa_review", "review_diff", "qa_recheck", "open_pr", "await_ci",
           "update_pr", "capture_screenshots"}

CiStatus == {"none", "passed", "failed", "unavailable", "no_pr"}
StoryResult == [pass : Nat, diff : BOOLEAN, cost : Nat]
QAResult == [of : Nat, passed : BOOLEAN, cost : Nat]
ReviewResult == [of : Nat, approved : BOOLEAN]
CIResult == [of : Nat, status : CiStatus]

CiPassed == ci.status \in {"passed", "unavailable"}

TypeOK ==
    /\ pc \in Stages
    /\ fixes \in 0 .. MaxQaFixPasses
    /\ reviews \in 0 .. MaxReviewPasses
    /\ ciPasses \in 0 .. MaxCiFixPasses
    /\ attempts \in Nat /\ passes \in Nat /\ sessions \in Nat
    /\ result \in StoryResult
    /\ qa \in QAResult /\ review \in ReviewResult /\ ci \in CIResult
    /\ opened \in BOOLEAN /\ head \in Nat /\ shots \in Nat
    /\ upd \in {"none", "opened", "refused"}
    /\ cost \in Nat /\ reported \in Nat /\ spent \in Nat

Init ==
    /\ pc = "implement_stories"
    /\ fixes = 0 /\ reviews = 0 /\ ciPasses = 0
    /\ attempts = 0 /\ passes = 0 /\ sessions = 0
    /\ result = [pass |-> 0, diff |-> FALSE, cost |-> 0]
    /\ qa = [of |-> 0, passed |-> FALSE, cost |-> 0]
    /\ review = [of |-> 0, approved |-> FALSE]
    /\ ci = [of |-> 0, status |-> "none"]
    /\ opened = FALSE /\ head = 0 /\ upd = "none" /\ shots = 0
    /\ cost = 0 /\ reported = 0 /\ spent = 0

-----------------------------------------------------------------------------
(* Activities                                                              *)

Bill(spends, reports) ==
    /\ spent' = spent + spends
    /\ reported' = reported + reports

\* One coding pass.  An error in it becomes a failed story with no diff and
\* no cost; a session stopped at its cap keeps its diff, but may end before
\* its cost is known.
CodingPass ==
    \E c \in CodingCosts, counted \in BOOLEAN, hasDiff \in BOOLEAN :
        LET report == IF counted THEN c ELSE 0 IN
        /\ result' = [pass |-> passes + 1, diff |-> hasDiff, cost |-> report]
        /\ passes' = passes + 1
        /\ sessions' = sessions + 1
        /\ attempts' = 0
        /\ Bill(c, report)

\* QA judges the current result.  A call without a schema-valid verdict fails
\* safe, and what it spent is not reported.
QaVerdict(passed, report) ==
    /\ qa' = [of |-> result.pass, passed |-> passed, cost |-> report]
    /\ \E c \in AgentCosts : Bill(c, report) /\ (report = c \/ (report = 0 /\ ~passed))

\* So does the reviewer, except that it degrades to an approval.
ReviewVerdict(approved, report) ==
    /\ review' = [of |-> result.pass, approved |-> approved]
    /\ \E c \in AgentCosts : Bill(c, report) /\ (report = c \/ (report = 0 /\ approved))

AgentReports == AgentCosts \cup {0}

\* Mutant: maximum_attempts read as the number of retries.
RetriesOnceMore == attempts < MaxAttempts

Retries == attempts + 1 < MaxAttempts

\* An attempt of a coding activity is lost (start-to-close timeout, or the
\* worker died): its money is gone and its cost never reported.  Temporal
\* starts the whole pass again until the attempts run out; then the pod fails.
CodingAttemptLost ==
    /\ pc \in CodingStages
    /\ \E c \in CodingCosts : Bill(c, 0)
    /\ sessions' = sessions + 1
    /\ attempts' = attempts + 1
    /\ pc' = IF Retries THEN pc ELSE "failed"
    /\ UNCHANGED <<loops, passes, result, branch, verdicts, shots, cost>>

\* Any other activity exhausts its retries: its error ends the workflow.
ActivityFails ==
    /\ pc \notin CodingStages \cup Ended
    /\ pc' = "failed"
    /\ UNCHANGED <<loops, coding, branch, verdicts, shots, money>>

-----------------------------------------------------------------------------
(* Code, QA, and the QA fix loop                                           *)

ImplementStories ==
    /\ pc = "implement_stories"
    /\ CodingPass
    /\ pc' = "qa_review"
    /\ UNCHANGED <<loops, branch, verdicts, shots, cost>>

QaLoops(passed) == ~passed /\ fixes < MaxQaFixPasses

QaReview ==
    /\ pc = "qa_review"
    /\ \E p \in BOOLEAN, r \in AgentReports :
        /\ QaVerdict(p, r)
        /\ cost' = cost + result.cost + r
        /\ IF QaLoops(p)
           THEN fixes' = fixes + 1 /\ pc' = "implement_stories"
           ELSE pc' = "review_diff" /\ UNCHANGED fixes
    /\ UNCHANGED <<reviews, ciPasses, coding, branch, review, ci, shots>>

-----------------------------------------------------------------------------
(* Review, and the revise loop: each revise is QA'd and reviewed again      *)

\* Mutant: the review loop tests the QA loop's counter.
ReviewLoopsOnFixes(approved) == ~approved /\ fixes < MaxReviewPasses

ReviewLoops(approved) == ~approved /\ reviews < MaxReviewPasses

ReviewDiff ==
    /\ pc = "review_diff"
    /\ \E a \in BOOLEAN, r \in AgentReports :
        /\ ReviewVerdict(a, r)
        /\ cost' = cost + r + (IF reviews = 0 THEN 0 ELSE result.cost + qa.cost)
        /\ IF ReviewLoops(a)
           THEN reviews' = reviews + 1 /\ pc' = "revise_after_review"
           ELSE pc' = "open_pr" /\ UNCHANGED reviews
    /\ UNCHANGED <<fixes, ciPasses, coding, branch, qa, ci, shots>>

\* Mutant: the revised diff goes back to the reviewer without a new QA.
ReviseWithoutQa ==
    /\ pc = "revise_after_review"
    /\ CodingPass
    /\ pc' = "review_diff"
    /\ UNCHANGED <<loops, branch, verdicts, shots, cost>>

ReviseAfterReview ==
    /\ pc = "revise_after_review"
    /\ CodingPass
    /\ pc' = "qa_recheck"
    /\ UNCHANGED <<loops, branch, verdicts, shots, cost>>

QaRecheck ==
    /\ pc = "qa_recheck"
    /\ \E p \in BOOLEAN, r \in AgentReports : QaVerdict(p, r)
    /\ pc' = "review_diff"
    /\ UNCHANGED <<loops, coding, branch, review, ci, shots, cost>>

-----------------------------------------------------------------------------
(* The PR, CI, and the CI fix loop                                         *)

\* Screenshots are only taken of a run whose last QA verdict is a pass.
AfterCi == IF qa.passed THEN "capture_screenshots" ELSE "done"

\* Mutant: waits for the CI of a PR that did not open.
WaitsAnyway == "await_ci"

\* Without a PR there is no CI to wait for, and nothing to fix.
AfterNoPr == AfterCi

\* A result without a diff never opens a PR; one with a diff may still fail
\* to apply or to be pushed.
OpenPr ==
    /\ pc = "open_pr"
    /\ \/ /\ result.diff
          /\ opened' = TRUE
          /\ head' = result.pass
          /\ pc' = "await_ci"
          /\ UNCHANGED <<upd, ci>>
       \/ /\ ci' = [of |-> 0, status |-> "no_pr"]
          /\ pc' = AfterNoPr
          /\ UNCHANGED branch
    /\ UNCHANGED <<loops, coding, qa, review, shots, money>>

\* Mutant: the fix passes' cost is not counted.
NoCiFixCost == 0

\* _spend(result, upd, ci) after a fix pass; CI itself costs nothing.
CiFixCost == IF ciPasses = 0 THEN 0 ELSE result.cost

\* CI concludes for what the branch holds (no conclusion in time is a
\* failure, no access to CI is "unavailable", which counts as passed).
AwaitCi ==
    /\ pc = "await_ci"
    /\ \E s \in {"passed", "failed", "unavailable"} :
        /\ ci' = [of |-> head, status |-> s]
        /\ IF s = "failed" /\ ciPasses < MaxCiFixPasses
           THEN ciPasses' = ciPasses + 1 /\ pc' = "revise_after_ci"
           ELSE pc' = AfterCi /\ UNCHANGED ciPasses
    /\ cost' = cost + CiFixCost
    /\ UNCHANGED <<fixes, reviews, coding, branch, qa, review, shots, reported, spent>>

\* Mutant: CI is asked again before the fix is pushed.
FixUnpushed == "await_ci"

AfterFix == "update_pr"

ReviseAfterCi ==
    /\ pc = "revise_after_ci"
    /\ CodingPass
    /\ pc' = AfterFix
    /\ UNCHANGED <<loops, branch, verdicts, shots, cost>>

\* Mutant: trusts the CI verdict on the head that the push replaced.
TrustOldVerdict == AfterCi

AfterPush == "await_ci"

\* The force-push replaces the branch's content, or fails and leaves it; the
\* workflow does not look at which, and waits for CI either way.  An attempt
\* that pushed may be lost, and the next one refused.
UpdatePr ==
    /\ pc = "update_pr"
    /\ \/ result.diff /\ head' = result.pass /\ upd' \in {"opened", "refused"}
       \/ upd' = "refused" /\ UNCHANGED head
    /\ pc' = AfterPush
    /\ UNCHANGED <<loops, coding, opened, verdicts, shots, money>>

\* A capture that fails for any reason is just no screenshots.
CaptureScreenshots ==
    /\ pc = "capture_screenshots"
    /\ \/ result.diff /\ shots' = result.pass
       \/ UNCHANGED shots
    /\ pc' = "done"
    /\ UNCHANGED <<loops, coding, branch, verdicts, money>>

-----------------------------------------------------------------------------
Next ==
    \/ ImplementStories \/ QaReview
    \/ ReviewDiff \/ ReviseAfterReview \/ QaRecheck
    \/ OpenPr \/ AwaitCi \/ ReviseAfterCi \/ UpdatePr
    \/ CaptureScreenshots
    \/ CodingAttemptLost \/ ActivityFails

Spec == Init /\ [][Next]_vars

-----------------------------------------------------------------------------
(* Safety                                                                  *)

PassBudget == 1 + MaxQaFixPasses + MaxReviewPasses + MaxCiFixPasses

\* The three fix loops and Temporal's retries multiply: however verdicts and
\* lost workers combine, one pod never starts more than MaxAttempts coding
\* sessions for each of the PassBudget passes that the caps of config.py allow.
SessionBound == passes <= PassBudget /\ sessions <= MaxAttempts * PassBudget

\* Until CI asks for a fix, the diff in hand is the one that both QA and the
\* reviewer judged last: no revise of either loop slips past one of them.
VerdictsJudgeResult ==
    pc \in {"open_pr", "await_ci", "capture_screenshots", "done"} /\ ciPasses = 0
        => qa.of = result.pass /\ review.of = result.pass

\* The CI verdict the parent's CI gate reads was given for the content that
\* the branch holds in the end, whether or not the last force-push worked.
CiJudgesBranch ==
    pc \in {"capture_screenshots", "done"} /\ opened => ci.of = head

\* A pod only ends with a red verdict after the fix loop answering that
\* verdict used all its passes (a later loop may turn QA red again).
GivesUpExhausted ==
    pc = "done" =>
        /\ ~qa.passed /\ reviews = 0 => fixes = MaxQaFixPasses
        /\ ~review.approved => reviews = MaxReviewPasses
        /\ opened /\ ~CiPassed => ciPasses = MaxCiFixPasses

\* A PR that did not open costs no CI wait and no CI fix pass, and its pod
\* ends with a verdict that cannot pass for green.
NoPrNoCiWork ==
    /\ ciPasses > 0 => opened
    /\ pc = "done" /\ ~opened => ci.status = "no_pr"

\* The screenshots handed to the deploy gate show what the branch holds, and
\* what CI judged, through every fix pass; unless update_pr answered that its
\* push failed, which the workflow does not read.  Then they may show the fix
\* that never reached the branch, beside a verdict on the diff before it.
ShotsOfBranch ==
    opened /\ shots # 0 =>
        \/ shots = head /\ shots = ci.of
        \/ upd = "refused" /\ ci.of = head /\ head < shots

\* Every dollar a completed activity reported is in the cost the pod returns,
\* the superseded passes included, on every path through the three loops; and
\* no dollar is in it that was not spent: only lost attempts, failed stories,
\* capped sessions and degraded verdicts go unreported.
EveryReportCounted == pc = "done" => cost = reported /\ cost <= spent

-----------------------------------------------------------------------------
(* What the pod knows of its PR: CheckedPr.                                *)

PrStage ==
    CASE pc = "await_ci" -> "checking"
      [] pc = "revise_after_ci" -> "fixing"
      [] pc = "update_pr" -> "pushing"
      [] pc = "failed" -> "failed"
      [] pc \in {"capture_screenshots", "done"} -> "over"
      [] OTHER -> "coding"

Told ==
    IF pc = "failed"
    THEN [diff |-> 0, head |-> 0, fixes |-> 0, verdict |-> [of |-> 0, status |-> "none"]]
    ELSE [diff |-> result.pass, head |-> head, fixes |-> ciPasses, verdict |-> ci]

Checked == INSTANCE CheckedPr WITH MaxFixes <- MaxCiFixPasses, stage <- PrStage, run <- Told

\* The pod's three activities on its PR, and its CI fix loop, are those that
\* PullRequest takes apart: each push is followed by a verdict, each verdict is
\* about the branch, and fixes stop at their cap.
ImplementsCheckedPr == Checked!Spec

-----------------------------------------------------------------------------
(* Claims of the documentation that the code does not keep                 *)

\* docs/reference.md: QA reviews the pod's code before it can reach the deploy
\* gate.  The parent opens that gate when QA and CI passed.
QaJudgedBranch == pc = "done" /\ qa.passed /\ CiPassed => qa.of = head
=============================================================================
