------------------------ MODULE EngineeringPodProofs ------------------------
(***************************************************************************)
(* Proofs about EngineeringPod, for every value of the caps, of            *)
(* MaxAttempts and of the costs.  TypeOK comes first; the counters, the    *)
(* accounting and the verdicts then each have an inductive invariant of    *)
(* their own, and one theorem per property.  After them: that the pod      *)
(* implements CheckedPr, what it may cost, and how many steps it may take. *)
(***************************************************************************)
EXTENDS EngineeringPod, TLAPS

LEMMA TypeStep == TypeOK /\ [Next]_vars => TypeOK'
<1> SUFFICES ASSUME TypeOK, [Next]_vars PROVE TypeOK'
  OBVIOUS
<1> USE PodAssumption DEF PodAssumption, TypeOK, Stages, Ended, CodingStages, StoryResult, QAResult,
        ReviewResult, CIResult, CiStatus
<1>1. ASSUME CodingPass
      PROVE  /\ result' \in StoryResult
             /\ attempts' \in Nat /\ passes' \in Nat /\ sessions' \in Nat
             /\ reported' \in Nat /\ spent' \in Nat
  BY <1>1 DEF CodingPass, Bill
<1>2. CASE ImplementStories
  BY <1>1, <1>2 DEF ImplementStories, loops, branch, verdicts
<1>3. CASE QaReview
  BY <1>3 DEF QaReview, QaVerdict, QaLoops, AgentReports, Bill, coding, branch
<1>4. CASE ReviewDiff
  BY <1>4 DEF ReviewDiff, ReviewVerdict, ReviewLoops, AgentReports, Bill, coding, branch
<1>5. CASE ReviseAfterReview
  BY <1>1, <1>5 DEF ReviseAfterReview, loops, branch, verdicts
<1>6. CASE QaRecheck
  BY <1>6 DEF QaRecheck, QaVerdict, AgentReports, Bill, loops, coding, branch
<1>7. CASE OpenPr
  <2>1. [of |-> 0, status |-> "no_pr"] \in CIResult
    OBVIOUS
  <2> QED
    BY <1>7, <2>1 DEF OpenPr, AfterNoPr, AfterCi, loops, coding, branch, money
<1>8. CASE AwaitCi
  BY <1>8 DEF AwaitCi, AfterCi, CiFixCost, coding, branch
<1>9. CASE ReviseAfterCi
  BY <1>1, <1>9 DEF ReviseAfterCi, AfterFix, loops, branch, verdicts
<1>10. CASE UpdatePr
  BY <1>10 DEF UpdatePr, AfterPush, loops, coding, verdicts, money
<1>11. CASE CaptureScreenshots
  BY <1>11 DEF CaptureScreenshots, loops, coding, branch, verdicts, money
<1>12. CASE CodingAttemptLost
  BY <1>12 DEF CodingAttemptLost, Bill, loops, branch, verdicts
<1>13. CASE ActivityFails
  BY <1>13 DEF ActivityFails, loops, coding, branch, verdicts, money
<1>14. CASE UNCHANGED vars
  BY <1>14 DEF vars, loops, coding, branch, verdicts, money
<1> QED
  BY <1>2, <1>3, <1>4, <1>5, <1>6, <1>7, <1>8, <1>9, <1>10, <1>11, <1>12, <1>13, <1>14
     DEF Next

\* Every activity of the pod keeps every variable within its type: the loop
\* counters within their caps, the money and the passes natural numbers.
THEOREM TypeCorrect == Spec => []TypeOK
<1>1. Init => TypeOK
  <2>1. /\ [pass |-> 0, diff |-> FALSE, cost |-> 0] \in StoryResult
        /\ [of |-> 0, passed |-> FALSE, cost |-> 0] \in QAResult
        /\ [of |-> 0, approved |-> FALSE] \in ReviewResult
        /\ [of |-> 0, status |-> "none"] \in CIResult
    BY DEF StoryResult, QAResult, ReviewResult, CIResult, CiStatus
  <2>2. ASSUME Init
        PROVE  result \in StoryResult /\ qa \in QAResult /\ review \in ReviewResult
               /\ ci \in CIResult
    BY <2>1, <2>2 DEF Init
  <2>3. ASSUME Init
        PROVE /\ fixes \in 0 .. MaxQaFixPasses
              /\ reviews \in 0 .. MaxReviewPasses
              /\ ciPasses \in 0 .. MaxCiFixPasses
    BY <2>3, PodAssumption DEF PodAssumption, Init
  <2>4. ASSUME Init PROVE opened \in BOOLEAN /\ upd \in {"none", "opened", "refused"}
    BY <2>4 DEF Init
  <2>5. ASSUME Init
        PROVE  /\ pc \in Stages
               /\ attempts \in Nat /\ passes \in Nat /\ sessions \in Nat
    BY <2>5 DEF Init, Stages, CodingStages
  <2>6. ASSUME Init
        PROVE  /\ head \in Nat /\ shots \in Nat
               /\ cost \in Nat /\ reported \in Nat /\ spent \in Nat
    BY <2>6 DEF Init
  <2> QED
    BY <2>2, <2>3, <2>4, <2>5, <2>6 DEF TypeOK
<1> QED
  BY <1>1, TypeStep, PTL DEF Spec

-----------------------------------------------------------------------------
(* Counters                                                                *)

Loops == fixes + reviews + ciPasses

\* Why SessionBound holds: a loop counter goes up before its coding pass runs,
\* every completed pass used at most MaxAttempts sessions, and the attempts
\* lost since then are those of the pass under way.
CounterInv ==
    /\ passes <= Loops + 1
    /\ attempts > 0 => passes <= Loops
    /\ pc \in CodingStages => passes = Loops /\ attempts < MaxAttempts
    /\ pc \notin CodingStages \cup {"failed"} => passes = Loops + 1 /\ attempts = 0
    /\ attempts <= MaxAttempts
    /\ sessions <= MaxAttempts * passes + attempts

LEMMA TimesSucc ==
    ASSUME NEW a \in Nat, NEW b \in Nat PROVE a * (b + 1) = a * b + a
  OBVIOUS

LEMMA TimesMono ==
    ASSUME NEW a \in Nat, NEW b \in Nat, NEW c \in Nat, b <= c PROVE a * b <= a * c
  OBVIOUS

LEMMA CounterInvHolds == Spec => []CounterInv
<1> USE DEF CodingStages, Stages, Ended
<1>1. Init => CounterInv
  BY PodAssumption DEF PodAssumption, Init, CounterInv, Loops
<1>2. TypeOK /\ CounterInv /\ [Next]_vars => CounterInv'
  <2> SUFFICES ASSUME TypeOK, CounterInv, [Next]_vars PROVE CounterInv'
    OBVIOUS
  <2>t. /\ fixes \in Nat /\ reviews \in Nat /\ ciPasses \in Nat
        /\ attempts \in Nat /\ passes \in Nat /\ sessions \in Nat
        /\ MaxAttempts \in Nat \ {0}
    BY PodAssumption DEF PodAssumption, TypeOK
  <2>p. ASSUME CodingPass, pc \in CodingStages, UNCHANGED Loops, pc' \notin CodingStages
        PROVE CounterInv'
    <3>1. passes' = passes + 1 /\ sessions' = sessions + 1 /\ attempts' = 0
      BY <2>p DEF CodingPass
    <3>2. MaxAttempts * (passes + 1) = MaxAttempts * passes + MaxAttempts
      BY <2>t, TimesSucc
    <3>3. MaxAttempts * passes \in Nat
      BY <2>t
    <3>4. sessions' <= MaxAttempts * passes' + attempts'
      BY <3>1, <3>2, <3>3, <2>p, <2>t DEF CounterInv
    <3> QED
      BY <3>1, <3>4, <2>p, <2>t DEF CounterInv, Loops
  <2>q. ASSUME UNCHANGED coding, pc \notin CodingStages, pc \notin Ended,
               Loops' = IF pc' \in CodingStages THEN Loops + 1 ELSE Loops
        PROVE  CounterInv'
    <3>1. Loops \in Nat
      BY <2>t DEF Loops
    <3>2. attempts' = attempts /\ passes' = passes /\ sessions' = sessions /\ attempts = 0
      BY <2>q DEF CounterInv, coding
    <3>3. sessions' <= MaxAttempts * passes' + attempts'
      BY <3>2 DEF CounterInv
    <3>4. attempts' <= MaxAttempts /\ attempts' < MaxAttempts
      BY <3>2, <2>t
    <3>5. passes = Loops + 1
      BY <2>q DEF CounterInv
    <3> QED
      BY <2>q, <3>1, <3>2, <3>3, <3>4, <3>5 DEF CounterInv
  <2>1. CASE ImplementStories
    BY <2>1, <2>p DEF ImplementStories, loops, Loops
  <2>2. CASE QaReview
    <3>1. Loops' = IF pc' \in CodingStages THEN Loops + 1 ELSE Loops
      BY <2>2, <2>t DEF QaReview, Loops
    <3> QED
      BY <2>2, <2>q, <3>1 DEF QaReview
  <2>3. CASE ReviewDiff
    <3>1. Loops' = IF pc' \in CodingStages THEN Loops + 1 ELSE Loops
      BY <2>3, <2>t DEF ReviewDiff, Loops
    <3> QED
      BY <2>3, <2>q, <3>1 DEF ReviewDiff
  <2>4. CASE ReviseAfterReview
    BY <2>4, <2>p DEF ReviseAfterReview, loops, Loops
  <2>5. CASE QaRecheck
    BY <2>5, <2>q DEF QaRecheck, loops, Loops
  <2>6. CASE OpenPr
    BY <2>6, <2>q DEF OpenPr, AfterNoPr, AfterCi, loops, Loops
  <2>7. CASE AwaitCi
    <3>1. Loops' = IF pc' \in CodingStages THEN Loops + 1 ELSE Loops
      BY <2>7, <2>t DEF AwaitCi, AfterCi, Loops
    <3> QED
      BY <2>7, <2>q, <3>1 DEF AwaitCi
  <2>8. CASE ReviseAfterCi
    BY <2>8, <2>p DEF ReviseAfterCi, AfterFix, loops, Loops
  <2>9. CASE UpdatePr
    BY <2>9, <2>q DEF UpdatePr, AfterPush, loops, Loops
  <2>10. CASE CaptureScreenshots
    BY <2>10, <2>q DEF CaptureScreenshots, loops, Loops
  <2>11. CASE CodingAttemptLost
    <3>1. /\ passes' = passes /\ Loops' = Loops /\ sessions' = sessions + 1
          /\ attempts' = attempts + 1 /\ pc \in CodingStages
          /\ pc' = IF attempts + 1 < MaxAttempts THEN pc ELSE "failed"
      BY <2>11 DEF CodingAttemptLost, Retries, loops, Loops
    <3>2. Loops \in Nat /\ MaxAttempts * passes \in Nat
      BY <2>t DEF Loops
    <3>3. sessions' <= MaxAttempts * passes' + attempts'
      BY <2>t, <3>1, <3>2 DEF CounterInv
    <3> QED
      BY <2>t, <3>1, <3>2, <3>3 DEF CounterInv
  <2>12. CASE ActivityFails
    BY <2>12, <2>q DEF ActivityFails, loops, Loops
  <2>13. CASE UNCHANGED vars
    BY <2>13 DEF vars, loops, coding, Loops, CounterInv
  <2> QED
    BY <2>1, <2>2, <2>3, <2>4, <2>5, <2>6, <2>7, <2>8, <2>9, <2>10, <2>11, <2>12, <2>13
       DEF Next
<1> QED
  BY <1>1, <1>2, TypeCorrect, PTL DEF Spec

\* However the verdicts and the lost workers combine, a pod completes at most
\* PassBudget coding passes and starts at most MaxAttempts sessions for each.
THEOREM SessionsBounded == Spec => []SessionBound
<1>1. TypeOK /\ CounterInv => SessionBound
  <2> SUFFICES ASSUME TypeOK, CounterInv PROVE SessionBound
    OBVIOUS
  <2>1. /\ attempts \in Nat /\ passes \in Nat /\ sessions \in Nat
        /\ MaxAttempts \in Nat \ {0}
        /\ Loops \in Nat /\ PassBudget \in Nat /\ Loops + 1 <= PassBudget
    BY PodAssumption DEF PodAssumption, TypeOK, Loops, PassBudget
  <2>2. passes <= PassBudget
    BY <2>1 DEF CounterInv
  <2>3. MaxAttempts * passes + attempts <= MaxAttempts * PassBudget
    <3>1. CASE attempts = 0
      BY <2>1, <2>2, <3>1, TimesMono
    <3>2. CASE attempts > 0
      <4>1. passes + 1 <= PassBudget /\ attempts <= MaxAttempts
        BY <2>1, <3>2 DEF CounterInv
      <4>2. MaxAttempts * (passes + 1) <= MaxAttempts * PassBudget
        BY <2>1, <4>1, TimesMono
      <4>3. MaxAttempts * (passes + 1) = MaxAttempts * passes + MaxAttempts
        BY <2>1, TimesSucc
      <4>4. MaxAttempts * passes \in Nat /\ MaxAttempts * PassBudget \in Nat
        BY <2>1
      <4> QED
        BY <2>1, <4>1, <4>2, <4>3, <4>4
    <3> QED
      BY <2>1, <3>1, <3>2
  <2>4. MaxAttempts * passes \in Nat /\ MaxAttempts * PassBudget \in Nat
    BY <2>1
  <2> QED
    BY <2>1, <2>2, <2>3, <2>4 DEF CounterInv, SessionBound
<1> QED
  BY <1>1, TypeCorrect, CounterInvHolds, PTL

-----------------------------------------------------------------------------
(* Accounting and verdicts                                                 *)

\* What the stages completed since the last _spend reported.
Unbilled ==
    CASE pc \in {"qa_review", "qa_recheck", "update_pr"} -> result.cost
      [] pc = "review_diff" -> IF reviews = 0 THEN 0 ELSE result.cost + qa.cost
      [] pc = "await_ci" -> CiFixCost
      [] OTHER -> 0

\* Which loops can have run where.
WhereInv ==
    /\ pc \in {"implement_stories", "qa_review"} => reviews = 0
    /\ pc \in {"revise_after_review", "qa_recheck"} => reviews > 0
    /\ pc \in {"implement_stories", "qa_review", "revise_after_review", "qa_recheck",
               "review_diff", "open_pr"} => ciPasses = 0
    /\ pc \in {"revise_after_ci", "update_pr"} => ciPasses > 0

AccountInv == pc # "failed" => cost + Unbilled = reported

JudgedInv ==
    /\ pc = "review_diff" => qa.of = result.pass
    /\ VerdictsJudgeResult

PathInv == WhereInv /\ AccountInv /\ JudgedInv

LEMMA PathInvHolds == Spec => []PathInv
<1> USE DEF PathInv, WhereInv, AccountInv, Unbilled, JudgedInv, VerdictsJudgeResult
<1>1. Init => PathInv
  BY DEF Init
<1>2. TypeOK /\ PathInv /\ [Next]_vars => PathInv'
  <2> SUFFICES ASSUME TypeOK, PathInv, [Next]_vars PROVE PathInv'
    OBVIOUS
  <2>t. /\ fixes \in Nat /\ reviews \in Nat /\ ciPasses \in Nat /\ passes \in Nat
        /\ cost \in Nat /\ reported \in Nat /\ result.cost \in Nat /\ qa.cost \in Nat
        /\ AgentReports \subseteq Nat /\ CodingCosts \subseteq Nat
    BY PodAssumption DEF PodAssumption, TypeOK, StoryResult, QAResult, AgentReports
  <2>p. ASSUME CodingPass
        PROVE  result'.cost \in Nat /\ reported' = reported + result'.cost
    BY <2>p, <2>t DEF CodingPass, Bill
  <2>1. CASE ImplementStories
    BY <2>1, <2>p, <2>t DEF ImplementStories, loops, branch, verdicts
  <2>2. CASE QaReview
    BY <2>2, <2>t DEF QaReview, QaVerdict, Bill, coding
  <2>3. CASE ReviewDiff
    BY <2>3, <2>t DEF ReviewDiff, ReviewVerdict, Bill, coding
  <2>4. CASE ReviseAfterReview
    BY <2>4, <2>p, <2>t DEF ReviseAfterReview, loops, branch, verdicts
  <2>5. CASE QaRecheck
    BY <2>5, <2>t DEF QaRecheck, QaVerdict, Bill, loops, coding
  <2>6. CASE OpenPr
    BY <2>6, <2>t DEF OpenPr, AfterNoPr, AfterCi, CiFixCost, loops, coding, money
  <2>7. CASE AwaitCi
    BY <2>7, <2>t DEF AwaitCi, AfterCi, CiFixCost, coding
  <2>8. CASE ReviseAfterCi
    BY <2>8, <2>p, <2>t DEF ReviseAfterCi, AfterFix, loops, branch, verdicts
  <2>9. CASE UpdatePr
    BY <2>9, <2>t DEF UpdatePr, AfterPush, CiFixCost, loops, coding, verdicts, money
  <2>10. CASE CaptureScreenshots
    BY <2>10, <2>t DEF CaptureScreenshots, loops, coding, verdicts, money
  <2>11. CASE CodingAttemptLost
    BY <2>11, <2>t DEF CodingAttemptLost, CodingStages, Bill, loops, verdicts
  <2>12. CASE ActivityFails
    BY <2>12, <2>t DEF ActivityFails
  <2>13. CASE UNCHANGED vars
    BY <2>13, <2>t DEF vars, loops, coding, verdicts, money, CiFixCost
  <2> QED
    BY <2>1, <2>2, <2>3, <2>4, <2>5, <2>6, <2>7, <2>8, <2>9, <2>10, <2>11, <2>12, <2>13
       DEF Next
<1> HIDE DEF PathInv
<1> QED
  BY <1>1, <1>2, TypeCorrect, PTL DEF Spec

BillInv == reported <= spent

\* No activity reports more than it spent.
LEMMA BillInvHolds == Spec => []BillInv
<1>1. Init => BillInv
  BY DEF Init, BillInv
<1>2. TypeOK /\ BillInv /\ [Next]_vars => BillInv'
  <2> SUFFICES ASSUME TypeOK, BillInv, [Next]_vars PROVE BillInv'
    OBVIOUS
  <2>t. /\ reported \in Nat /\ spent \in Nat /\ reported <= spent
        /\ AgentCosts \subseteq Nat /\ CodingCosts \subseteq Nat
    BY PodAssumption DEF PodAssumption, TypeOK, BillInv
  <2>b. ASSUME NEW c \in Nat, NEW report \in {0, c}, Bill(c, report)
        PROVE  BillInv'
    BY <2>b, <2>t DEF Bill, BillInv
  <2>p. ASSUME CodingPass
        PROVE  BillInv'
    BY <2>p, <2>b, <2>t DEF CodingPass
  <2>q. ASSUME NEW passed, NEW report, QaVerdict(passed, report) \/ ReviewVerdict(passed, report)
        PROVE  BillInv'
    BY <2>q, <2>b, <2>t DEF QaVerdict, ReviewVerdict
  <2>1. CASE ImplementStories \/ ReviseAfterReview \/ ReviseAfterCi
    BY <2>1, <2>p DEF ImplementStories, ReviseAfterReview, ReviseAfterCi
  <2>2. CASE QaReview \/ QaRecheck \/ ReviewDiff
    BY <2>2, <2>q DEF QaReview, QaRecheck, ReviewDiff
  <2>3. CASE CodingAttemptLost
    BY <2>3, <2>b, <2>t DEF CodingAttemptLost
  <2>4. CASE OpenPr \/ AwaitCi \/ UpdatePr \/ CaptureScreenshots \/ ActivityFails \/ UNCHANGED vars
    BY <2>4, <2>t
       DEF OpenPr, AwaitCi, UpdatePr, CaptureScreenshots, ActivityFails, BillInv, money, vars
  <2> QED
    BY <2>1, <2>2, <2>3, <2>4 DEF Next
<1> QED
  BY <1>1, <1>2, TypeCorrect, PTL DEF Spec

\* Every dollar that a completed activity reports is in the returned cost, and
\* no other.
THEOREM ReportsCounted == Spec => []EveryReportCounted
<1>1. TypeOK /\ PathInv /\ BillInv => EveryReportCounted
  BY DEF TypeOK, PathInv, AccountInv, BillInv, Unbilled, EveryReportCounted
<1> QED
  BY <1>1, TypeCorrect, PathInvHolds, BillInvHolds, PTL

\* Up to CI, the diff in hand is the one that QA and the reviewer judged last.
THEOREM VerdictsUpToDate == Spec => []VerdictsJudgeResult
<1>1. PathInv => VerdictsJudgeResult
  BY DEF PathInv, JudgedInv
<1> QED
  BY <1>1, PathInvHolds, PTL

-----------------------------------------------------------------------------
(* What the pod hands to its parent                                        *)

BeforePr == {"implement_stories", "qa_review", "review_diff", "revise_after_review",
             "qa_recheck", "open_pr"}
CiStages == {"await_ci", "revise_after_ci", "update_pr"}
AfterPr == CiStages \cup {"capture_screenshots", "done"}

PrInv ==
    /\ pc \in BeforePr => ~opened /\ ciPasses = 0
    /\ pc \in CiStages => opened
    /\ ciPasses > 0 => opened
    /\ pc \in {"capture_screenshots", "done"} =>
         IF opened THEN ci.of = head ELSE ci.status = "no_pr"

\* A loop is only left with a red verdict when its counter is at its cap.
CapInv ==
    /\ pc \in BeforePr \cup AfterPr =>
         \/ pc \in {"implement_stories", "qa_review"}
         \/ qa.passed \/ reviews > 0 \/ fixes = MaxQaFixPasses
    /\ pc \in {"revise_after_review", "qa_recheck"} => reviews > 0
    /\ pc \in {"open_pr"} \cup AfterPr => review.approved \/ reviews = MaxReviewPasses
    /\ pc \in {"capture_screenshots", "done"} /\ opened =>
         CiPassed \/ ciPasses = MaxCiFixPasses

HandoverInv == PrInv /\ CapInv

LEMMA HandoverInvHolds == Spec => []HandoverInv
<1> USE DEF HandoverInv, PrInv, CapInv, CiPassed, BeforePr, CiStages, AfterPr
<1>1. Init => HandoverInv
  BY DEF Init
<1>2. TypeOK /\ HandoverInv /\ [Next]_vars => HandoverInv'
  <2> SUFFICES ASSUME TypeOK, HandoverInv, [Next]_vars PROVE HandoverInv'
    OBVIOUS
  <2>t. /\ fixes \in 0 .. MaxQaFixPasses /\ reviews \in 0 .. MaxReviewPasses
        /\ ciPasses \in 0 .. MaxCiFixPasses
        /\ MaxQaFixPasses \in Nat /\ MaxReviewPasses \in Nat /\ MaxCiFixPasses \in Nat
        /\ opened \in BOOLEAN /\ qa.passed \in BOOLEAN
        /\ review.approved \in BOOLEAN
    BY PodAssumption DEF PodAssumption, TypeOK, QAResult, ReviewResult
  <2>1. CASE ImplementStories
    BY <2>1, <2>t DEF ImplementStories, CodingPass, loops, branch, verdicts
  <2>2. CASE QaReview
    BY <2>2, <2>t DEF QaReview, QaVerdict, QaLoops, branch
  <2>3. CASE ReviewDiff
    BY <2>3, <2>t DEF ReviewDiff, ReviewVerdict, ReviewLoops, branch
  <2>4. CASE ReviseAfterReview
    BY <2>4, <2>t DEF ReviseAfterReview, CodingPass, loops, branch, verdicts
  <2>5. CASE QaRecheck
    BY <2>5, <2>t DEF QaRecheck, QaVerdict, loops, branch
  <2>6. CASE OpenPr
    BY <2>6, <2>t DEF OpenPr, AfterNoPr, AfterCi, loops, coding, branch
  <2>7. CASE AwaitCi
    BY <2>7, <2>t DEF AwaitCi, AfterCi, coding, branch
  <2>8. CASE ReviseAfterCi
    BY <2>8, <2>t DEF ReviseAfterCi, AfterFix, CodingPass, loops, branch, verdicts
  <2>9. CASE UpdatePr
    BY <2>9, <2>t DEF UpdatePr, AfterPush, loops, coding, verdicts
  <2>10. CASE CaptureScreenshots
    BY <2>10, <2>t DEF CaptureScreenshots, loops, coding, branch, verdicts
  <2>11. CASE CodingAttemptLost
    BY <2>11, <2>t DEF CodingAttemptLost, CodingStages, loops, branch, verdicts
  <2>12. CASE ActivityFails
    BY <2>12, <2>t DEF ActivityFails, CodingStages, Ended, loops, coding, branch, verdicts
  <2>13. CASE UNCHANGED vars
    BY <2>13, <2>t DEF vars, loops, coding, branch, verdicts
  <2> QED
    BY <2>1, <2>2, <2>3, <2>4, <2>5, <2>6, <2>7, <2>8, <2>9, <2>10, <2>11, <2>12, <2>13
       DEF Next
<1> HIDE DEF HandoverInv
<1> QED
  BY <1>1, <1>2, TypeCorrect, PTL DEF Spec

\* The CI verdict that the parent reads was given for the branch's content.
THEOREM CiVerdictUpToDate == Spec => []CiJudgesBranch
<1>1. HandoverInv => CiJudgesBranch
  BY DEF HandoverInv, PrInv, CiJudgesBranch
<1> QED
  BY <1>1, HandoverInvHolds, PTL

\* A PR that did not open costs no CI work and does not pass for green.
THEOREM NoCiWorkWithoutPr == Spec => []NoPrNoCiWork
<1>1. HandoverInv => NoPrNoCiWork
  BY DEF HandoverInv, PrInv, NoPrNoCiWork
<1> QED
  BY <1>1, HandoverInvHolds, PTL

\* Red verdicts only reach the parent when their fix loops are exhausted.
THEOREM LoopsExhausted == Spec => []GivesUpExhausted
<1>1. TypeOK /\ HandoverInv => GivesUpExhausted
  BY DEF HandoverInv, CapInv, BeforePr, AfterPr, CiStages, GivesUpExhausted
<1> QED
  BY <1>1, TypeCorrect, HandoverInvHolds, PTL

\* A result is that of the last pass, and nobody knows of a branch or a verdict
\* before the PR.
FreshInv ==
    /\ result.pass = passes
    /\ pc \in BeforePr => head = 0 /\ ci = [of |-> 0, status |-> "none"]

LEMMA FreshInvHolds == Spec => []FreshInv
<1> USE DEF FreshInv, BeforePr
<1>1. Init => FreshInv
  BY DEF Init
<1>2. FreshInv /\ [Next]_vars => FreshInv'
  <2> SUFFICES ASSUME FreshInv, [Next]_vars PROVE FreshInv'
    OBVIOUS
  <2>1. ASSUME CodingPass PROVE result'.pass = passes'
    BY <2>1 DEF CodingPass
  <2>2. CASE ImplementStories
    BY <2>1, <2>2 DEF ImplementStories, branch, verdicts
  <2>3. CASE QaReview
    BY <2>3 DEF QaReview, coding, branch
  <2>4. CASE ReviewDiff
    BY <2>4 DEF ReviewDiff, coding, branch
  <2>5. CASE ReviseAfterReview
    BY <2>1, <2>5 DEF ReviseAfterReview, branch, verdicts
  <2>6. CASE QaRecheck
    BY <2>6 DEF QaRecheck, coding, branch
  <2>7. CASE OpenPr
    BY <2>7 DEF OpenPr, AfterNoPr, AfterCi, coding
  <2>8. CASE AwaitCi
    BY <2>8 DEF AwaitCi, AfterCi, coding, branch
  <2>9. CASE ReviseAfterCi
    BY <2>1, <2>9 DEF ReviseAfterCi, AfterFix
  <2>10. CASE UpdatePr
    BY <2>10 DEF UpdatePr, AfterPush, coding
  <2>11. CASE CaptureScreenshots
    BY <2>11 DEF CaptureScreenshots, coding
  <2>12. CASE CodingAttemptLost
    BY <2>12 DEF CodingAttemptLost, branch, verdicts
  <2>13. CASE ActivityFails
    BY <2>13 DEF ActivityFails, coding
  <2>14. CASE UNCHANGED vars
    BY <2>14 DEF vars, coding, branch, verdicts
  <2> QED
    BY <2>2, <2>3, <2>4, <2>5, <2>6, <2>7, <2>8, <2>9, <2>10, <2>11, <2>12, <2>13, <2>14
       DEF Next
<1> QED
  BY <1>1, <1>2, PTL DEF Spec

-----------------------------------------------------------------------------
(* What the screenshots show                                               *)

\* A fix is newer than the branch until its push went through; shots are of the
\* newest pass, and the last thing to be made.
BranchInv ==
    /\ head <= result.pass
    /\ pc = "update_pr" => head < result.pass
    /\ pc \in {"await_ci", "capture_screenshots", "done"} /\ opened =>
         head = result.pass \/ (upd = "refused" /\ head < result.pass)
    /\ pc # "done" => shots = 0
    /\ shots \in {0, result.pass}

LEMMA BranchInvHolds == Spec => []BranchInv
<1> USE DEF BranchInv
<1>1. Init => BranchInv
  BY DEF Init
<1>2. TypeOK /\ HandoverInv /\ FreshInv /\ BranchInv /\ [Next]_vars => BranchInv'
  <2> SUFFICES ASSUME TypeOK, HandoverInv, FreshInv, BranchInv, [Next]_vars PROVE BranchInv'
    OBVIOUS
  <2>t. /\ head \in Nat /\ shots \in Nat /\ passes \in Nat /\ result.pass = passes
        /\ pc \in BeforePr => ~opened
    BY DEF TypeOK, FreshInv, HandoverInv, PrInv
  <2>p. ASSUME CodingPass, pc \in CodingStages, pc' \notin CodingStages \cup Ended,
               UNCHANGED <<branch, shots>>, pc' # "await_ci", pc' # "capture_screenshots"
        PROVE  BranchInv'
    <3>1. result'.pass = passes + 1 /\ head' = head /\ shots' = 0
      BY <2>p DEF CodingPass, branch, CodingStages
    <3> QED
      BY <2>t, <2>p, <3>1 DEF Ended
  <2>1. CASE ImplementStories \/ ReviseAfterReview \/ ReviseAfterCi
    BY <2>1, <2>p DEF ImplementStories, ReviseAfterReview, ReviseAfterCi, AfterFix, CodingStages, Ended
  <2>2. CASE QaReview \/ ReviewDiff \/ QaRecheck
    BY <2>2, <2>t DEF QaReview, ReviewDiff, QaRecheck, coding, branch
  <2>3. CASE OpenPr
    BY <2>3, <2>t DEF OpenPr, AfterNoPr, AfterCi, BeforePr, coding, branch
  <2>4. CASE AwaitCi
    BY <2>4, <2>t DEF AwaitCi, AfterCi, coding, branch
  <2>5. CASE UpdatePr
    BY <2>5, <2>t DEF UpdatePr, AfterPush, coding
  <2>6. CASE CaptureScreenshots
    BY <2>6, <2>t DEF CaptureScreenshots, coding, branch
  <2>7. CASE CodingAttemptLost
    BY <2>7, <2>t DEF CodingAttemptLost, CodingStages, branch
  <2>8. CASE ActivityFails
    BY <2>8, <2>t DEF ActivityFails, CodingStages, Ended, coding, branch
  <2>9. CASE UNCHANGED vars
    BY <2>9 DEF vars, coding, branch
  <2> QED
    BY <2>1, <2>2, <2>3, <2>4, <2>5, <2>6, <2>7, <2>8, <2>9 DEF Next
<1> HIDE DEF BranchInv
<1> QED
  BY <1>1, <1>2, TypeCorrect, HandoverInvHolds, FreshInvHolds, PTL DEF Spec

\* Through any number of fix passes, the screenshots of a PR show what its branch
\* holds and CI judged, unless update_pr answered that the last push failed.
THEOREM ShotsMatchBranch == Spec => []ShotsOfBranch
<1>1. HandoverInv /\ BranchInv => ShotsOfBranch
  BY DEF HandoverInv, PrInv, BranchInv, ShotsOfBranch
<1> QED
  BY <1>1, HandoverInvHolds, BranchInvHolds, PTL

-----------------------------------------------------------------------------
(* The refinement of CheckedPr                                             *)

\* A step that neither fails nor touches the PR, the CI loop or the result.
LEMMA UntouchedPr ==
    ASSUME UNCHANGED <<result, head, ciPasses, ci>>, PrStage' = PrStage,
           pc = "failed" <=> pc' = "failed"
    PROVE  UNCHANGED Checked!prVars
  BY DEF Told, Checked!prVars

\* Failing is the same for both, wherever the pod is.
LEMMA FailsLost ==
    ASSUME pc # "failed", pc' = "failed"
    PROVE  Checked!Next
<1>1. PrStage # "failed" /\ PrStage' = "failed"
  BY DEF PrStage
<1>2. Told' = Checked!Lost
  BY DEF Told, Checked!Lost, Checked!Begun, Checked!NotAsked
<1> QED
  BY <1>1, <1>2 DEF Checked!Fail, Checked!Next

LEMMA StepChecked ==
    ASSUME TypeOK, HandoverInv, FreshInv, [Next]_vars
    PROVE  [Checked!Next]_(Checked!prVars)
<1> USE DEF PrStage, BeforePr
<1>t. /\ passes \in Nat /\ result.pass = passes
      /\ ciPasses \in 0 .. MaxCiFixPasses /\ MaxCiFixPasses \in Nat
      /\ pc \in BeforePr => ciPasses = 0 /\ head = 0 /\ ci = [of |-> 0, status |-> "none"]
  BY PodAssumption DEF PodAssumption, TypeOK, HandoverInv, PrInv, FreshInv
<1>1. CASE ImplementStories \/ ReviseAfterReview
  <2>1. /\ PrStage = "coding" /\ PrStage' = "coding" /\ pc # "failed" /\ pc' # "failed"
        /\ result'.pass = result.pass + 1 /\ UNCHANGED <<head, ciPasses, ci>>
    BY <1>1, <1>t DEF ImplementStories, ReviseAfterReview, CodingPass, loops, branch, verdicts
  <2>2. Told' = [Told EXCEPT !.diff = @ + 1]
    BY <2>1 DEF Told
  <2> QED
    BY <2>1, <2>2 DEF Checked!Recode, Checked!Next
<1>2. CASE QaReview \/ ReviewDiff \/ QaRecheck \/ CaptureScreenshots
  <2>1. /\ UNCHANGED <<result, head, ciPasses, ci>> /\ PrStage' = PrStage
        /\ pc # "failed" /\ pc' # "failed"
    BY <1>2 DEF QaReview, ReviewDiff, QaRecheck, CaptureScreenshots, loops, coding, branch, verdicts
  <2> QED
    BY <2>1, UntouchedPr
<1>3. CASE OpenPr
  <2>1. PrStage = "coding" /\ pc # "failed" /\ pc' # "failed" /\ UNCHANGED <<result, ciPasses>>
    BY <1>3 DEF OpenPr, AfterNoPr, AfterCi, loops, coding
  <2>2. CASE head' = result.pass /\ pc' = "await_ci" /\ UNCHANGED ci
    <3>1. PrStage' = "checking"
      BY <2>2
    <3>2. Told' = [Told EXCEPT !.head = Told.diff]
      BY <2>1, <2>2 DEF Told
    <3> QED
      BY <2>1, <3>1, <3>2 DEF Checked!Open, Checked!Next
  <2>3. CASE ci' = [of |-> 0, status |-> "no_pr"] /\ pc' = AfterNoPr /\ UNCHANGED head
    <3>1. PrStage' = "over"
      BY <2>3 DEF AfterNoPr, AfterCi
    <3>2. Told' = [Told EXCEPT !.verdict = [of |-> 0, status |-> "no_pr"]]
      BY <2>1, <2>3 DEF Told
    <3> QED
      BY <2>1, <3>1, <3>2 DEF Checked!Open, Checked!Next
  <2> QED
    BY <1>3, <2>2, <2>3 DEF OpenPr, branch
<1>4. CASE AwaitCi
  <2>1. PrStage = "checking" /\ pc # "failed" /\ pc' # "failed" /\ UNCHANGED <<result, head>>
    BY <1>4 DEF AwaitCi, AfterCi, coding, branch
  <2>2. PICK s \in {"passed", "failed", "unavailable"} :
          /\ ci' = [of |-> head, status |-> s]
          /\ IF s = "failed" /\ ciPasses < MaxCiFixPasses
             THEN ciPasses' = ciPasses + 1 /\ pc' = "revise_after_ci"
             ELSE pc' = AfterCi /\ UNCHANGED ciPasses
    BY <1>4 DEF AwaitCi
  <2> DEFINE judged == [Told EXCEPT !.verdict = [of |-> Told.head, status |-> s]]
  <2>3. /\ judged = [diff |-> result.pass, head |-> head, fixes |-> ciPasses,
                     verdict |-> [of |-> head, status |-> s]]
        /\ Told.fixes = ciPasses
    BY <2>1 DEF Told
  <2>4. CASE s = "failed" /\ ciPasses < MaxCiFixPasses
    <3>1. PrStage' = "fixing"
      BY <2>2, <2>4
    <3>2. Told' = [judged EXCEPT !.fixes = @ + 1]
      <4>1. Told' = [diff |-> result.pass, head |-> head, fixes |-> ciPasses + 1,
                     verdict |-> [of |-> head, status |-> s]]
        BY <2>1, <2>2, <2>4 DEF Told
      <4> HIDE DEF judged
      <4> QED
        BY <2>3, <4>1
    <3>3. Told.fixes < MaxCiFixPasses /\ PrStage = "checking"
      BY <2>1, <2>3, <2>4
    <3> HIDE DEF PrStage
    <3>4. Checked!Check
      BY <2>4, <3>1, <3>2, <3>3 DEF Checked!Check
    <3> QED
      BY <3>4 DEF Checked!Next
  <2>5. CASE ~(s = "failed" /\ ciPasses < MaxCiFixPasses)
    <3>1. PrStage' = "over"
      BY <2>2, <2>5 DEF AfterCi
    <3>2. Told' = judged
      BY <2>1, <2>2, <2>3, <2>5 DEF Told
    <3>3. ~(s = "failed" /\ Told.fixes < MaxCiFixPasses) /\ PrStage = "checking"
      BY <2>1, <2>3, <2>5
    <3> HIDE DEF PrStage
    <3>4. Checked!Check
      BY <3>1, <3>2, <3>3 DEF Checked!Check
    <3> QED
      BY <3>4 DEF Checked!Next
  <2> QED
    BY <2>4, <2>5
<1>5. CASE ReviseAfterCi
  <2>1. /\ PrStage = "fixing" /\ PrStage' = "pushing" /\ pc # "failed" /\ pc' # "failed"
        /\ result'.pass = result.pass + 1 /\ UNCHANGED <<head, ciPasses, ci>>
    BY <1>5, <1>t DEF ReviseAfterCi, AfterFix, CodingPass, loops, branch, verdicts
  <2>2. Told' = [Told EXCEPT !.diff = @ + 1]
    BY <2>1 DEF Told
  <2> QED
    BY <2>1, <2>2 DEF Checked!Fix, Checked!Next
<1>6. CASE UpdatePr
  <2>1. /\ PrStage = "pushing" /\ PrStage' = "checking" /\ pc # "failed" /\ pc' # "failed"
        /\ UNCHANGED <<result, ciPasses, ci>> /\ head' \in {head, result.pass}
    BY <1>6 DEF UpdatePr, AfterPush, loops, coding, verdicts
  <2>2. Told.head = head /\ Told.diff = result.pass
    BY <2>1 DEF Told
  <2>3. Told' = [Told EXCEPT !.head = head']
    BY <2>1 DEF Told
  <2> QED
    BY <2>1, <2>2, <2>3 DEF Checked!Push, Checked!Next
<1>7. CASE CodingAttemptLost \/ ActivityFails
  <2>1. pc # "failed" /\ pc' \in {pc, "failed"} /\ UNCHANGED <<result, head, ciPasses, ci>>
    BY <1>7 DEF CodingAttemptLost, ActivityFails, CodingStages, Ended, loops, coding, branch,
                verdicts
  <2>2. CASE pc' = "failed"
    BY <2>1, <2>2, FailsLost
  <2>3. CASE pc' = pc
    BY <2>1, <2>3, UntouchedPr
  <2> QED
    BY <2>1, <2>2, <2>3
<1>8. CASE UNCHANGED vars
  BY <1>8, UntouchedPr DEF vars, loops, coding, branch, verdicts
<1> QED
  BY <1>1, <1>2, <1>3, <1>4, <1>5, <1>6, <1>7, <1>8 DEF Next

\* The pod's activities on its PR are the steps of CheckedPr: for any caps, a
\* verdict is about what the branch holds, a push is followed by a verdict, and
\* the CI fixes stop at their cap.
THEOREM PodChecksPr == Spec => ImplementsCheckedPr
<1>1. Init => Checked!Init
  <2> SUFFICES ASSUME Init PROVE Checked!Init
    OBVIOUS
  <2>1. PrStage = "coding"
    BY DEF Init, PrStage
  <2>2. Told = [diff |-> 0, head |-> 0, fixes |-> 0, verdict |-> [of |-> 0, status |-> "none"]]
    BY DEF Init, Told
  <2> QED
    BY <2>1, <2>2 DEF Checked!Init, Checked!Begun, Checked!NotAsked
<1>2. TypeOK /\ HandoverInv /\ FreshInv /\ [Next]_vars => [Checked!Next]_(Checked!prVars)
  BY StepChecked
<1> QED
  BY <1>1, <1>2, TypeCorrect, HandoverInvHolds, FreshInvHolds, PTL
     DEF Spec, ImplementsCheckedPr, Checked!Spec

-----------------------------------------------------------------------------
(* What a pod can cost, and how long it can take                           *)

BeforeQa == {"implement_stories", "revise_after_review", "qa_review", "qa_recheck"}

\* The calls of QA and of the reviewer that are done: one for each pass of
\* their loops, and the one under way if it is over.
QaCalls == fixes + reviews + (IF pc \in BeforeQa THEN 0 ELSE 1)
ReviewCalls == reviews + (IF pc \in BeforeQa \cup {"review_diff"} THEN 0 ELSE 1)
Calls == QaCalls + ReviewCalls

MaxCalls == 2 + MaxQaFixPasses + 2 * MaxReviewPasses

LEMMA CallsBounded == TypeOK => Calls \in Nat /\ Calls <= MaxCalls
<1> SUFFICES ASSUME TypeOK PROVE Calls \in Nat /\ Calls <= MaxCalls
  OBVIOUS
<1>1. /\ fixes \in Nat /\ reviews \in Nat /\ MaxQaFixPasses \in Nat /\ MaxReviewPasses \in Nat
      /\ fixes <= MaxQaFixPasses /\ reviews <= MaxReviewPasses
  BY PodAssumption DEF PodAssumption, TypeOK
<1> QED
  BY <1>1 DEF Calls, QaCalls, ReviewCalls, MaxCalls

\* What a step of the pod adds to the calls and to the sessions.
LEMMA StepBills ==
    ASSUME TypeOK, [Next]_vars
    PROVE  \/ Calls' >= Calls /\ sessions' = sessions /\ spent' = spent
           \/ Calls' = Calls + 1 /\ sessions' = sessions /\ \E c \in AgentCosts : spent' = spent + c
           \/ Calls' >= Calls /\ sessions' = sessions + 1 /\ \E c \in CodingCosts : spent' = spent + c
<1> USE DEF BeforeQa, Calls, QaCalls, ReviewCalls
<1>t. fixes \in Nat /\ reviews \in Nat
  BY PodAssumption DEF PodAssumption, TypeOK
<1>1. CASE ImplementStories \/ ReviseAfterReview \/ ReviseAfterCi
  BY <1>1, <1>t DEF ImplementStories, ReviseAfterReview, ReviseAfterCi, AfterFix, CodingPass, Bill, loops
<1>2. CASE QaReview
  BY <1>2, <1>t DEF QaReview, QaVerdict, Bill, coding
<1>3. CASE QaRecheck
  BY <1>3, <1>t DEF QaRecheck, QaVerdict, Bill, coding, loops
<1>4. CASE ReviewDiff
  BY <1>4, <1>t DEF ReviewDiff, ReviewVerdict, Bill, coding
<1>5. CASE CodingAttemptLost
  BY <1>5, <1>t DEF CodingAttemptLost, CodingStages, Bill, loops
<1>6. CASE OpenPr \/ UpdatePr \/ CaptureScreenshots
  BY <1>6, <1>t DEF OpenPr, AfterNoPr, AfterCi, UpdatePr, AfterPush, CaptureScreenshots, coding, loops, money
<1>7. CASE AwaitCi
  BY <1>7, <1>t DEF AwaitCi, AfterCi, coding
<1>8. CASE ActivityFails
  BY <1>8, <1>t DEF ActivityFails, CodingStages, Ended, coding, loops, money
<1>9. CASE UNCHANGED vars
  BY <1>9, <1>t DEF vars, coding, loops, money
<1> QED
  BY <1>1, <1>2, <1>3, <1>4, <1>5, <1>6, <1>7, <1>8, <1>9 DEF Next

LEMMA BillsWithin ==
    ASSUME NEW C \in Nat, NEW A \in Nat, NEW x \in Nat, NEW y \in Nat,
           NEW m \in Nat, NEW n \in Nat, NEW k \in Nat, NEW j \in Nat,
           x <= C * m + A * k, k <= j,
           \/ y = x /\ n = m
           \/ y <= x + A /\ n = m /\ j = k + 1
           \/ y <= x + C /\ n = m + 1
    PROVE  y <= C * n + A * j
<1>1. C * m \in Nat /\ A * k \in Nat /\ C * n \in Nat /\ A * j \in Nat
  OBVIOUS
<1>2. A * k <= A * j
  BY TimesMono
<1>3. CASE y = x /\ n = m
  BY <1>1, <1>2, <1>3
<1>4. CASE y <= x + A /\ n = m /\ j = k + 1
  <2>1. A * j = A * k + A
    BY <1>4, TimesSucc
  <2> QED
    BY <1>1, <1>4, <2>1
<1>5. CASE y <= x + C /\ n = m + 1
  <2>1. C * n = C * m + C
    BY <1>5, TimesSucc
  <2> QED
    BY <1>1, <1>2, <1>5, <2>1
<1> QED
  BY <1>3, <1>4, <1>5

\* What a pod may cost before anybody is asked again, lost attempts, failed
\* stories and unparsed verdicts included: when no session costs more than C
\* and no call more than A, all that its loops and retries can spend together.
THEOREM ExposureBounded ==
    ASSUME NEW C \in Nat, NEW A \in Nat, CodingCosts \subseteq 0 .. C, AgentCosts \subseteq 0 .. A
    PROVE  Spec => [](spent <= C * (MaxAttempts * PassBudget) + A * MaxCalls)
<1> DEFINE Exposed == spent <= C * sessions + A * Calls
<1>1. Init => Exposed
  BY DEF Init, Calls, QaCalls, ReviewCalls, BeforeQa
<1>2. TypeOK /\ Exposed /\ [Next]_vars => Exposed'
  <2> SUFFICES ASSUME TypeOK, Exposed, [Next]_vars PROVE Exposed'
    OBVIOUS
  <2> HIDE DEF Exposed
  <2>1. /\ spent \in Nat /\ sessions \in Nat /\ Calls \in Nat
        /\ AgentCosts \subseteq Nat /\ CodingCosts \subseteq Nat
    BY CallsBounded, PodAssumption DEF TypeOK, PodAssumption
  <2>2. Calls' \in Nat
    <3>1. (TypeOK => Calls \in Nat /\ Calls <= MaxCalls)'
      BY CallsBounded, PTL
    <3> QED
      BY <3>1, TypeStep
  <2>3. /\ Calls <= Calls'
        /\ \/ spent' = spent /\ sessions' = sessions
           \/ spent' <= spent + A /\ sessions' = sessions /\ Calls' = Calls + 1
           \/ spent' <= spent + C /\ sessions' = sessions + 1
        /\ spent' \in Nat
    BY <2>1, <2>2, StepBills
  <2>4. spent <= C * sessions + A * Calls
    BY DEF Exposed
  <2>5. spent' <= C * sessions' + A * Calls'
    BY <2>1, <2>2, <2>3, <2>4, BillsWithin
  <2> QED
    BY <2>5 DEF Exposed
<1>3. TypeOK /\ SessionBound /\ Exposed => spent <= C * (MaxAttempts * PassBudget) + A * MaxCalls
  <2> SUFFICES ASSUME TypeOK, SessionBound, Exposed
               PROVE  spent <= C * (MaxAttempts * PassBudget) + A * MaxCalls
    OBVIOUS
  <2>1. /\ spent \in Nat /\ sessions \in Nat /\ Calls \in Nat /\ Calls <= MaxCalls
        /\ MaxCalls \in Nat /\ MaxAttempts \in Nat /\ PassBudget \in Nat
    BY CallsBounded, PodAssumption DEF TypeOK, PodAssumption, MaxCalls, PassBudget
  <2>2. MaxAttempts * PassBudget \in Nat /\ sessions <= MaxAttempts * PassBudget
    BY <2>1 DEF SessionBound
  <2>3. C * sessions <= C * (MaxAttempts * PassBudget)
    BY <2>1, <2>2, TimesMono
  <2>4. A * Calls <= A * MaxCalls
    BY <2>1, TimesMono
  <2>5. C * sessions \in Nat /\ A * Calls \in Nat /\ A * MaxCalls \in Nat
        /\ C * (MaxAttempts * PassBudget) \in Nat
    BY <2>1, <2>2
  <2> QED
    BY <2>1, <2>3, <2>4, <2>5
<1> HIDE DEF Exposed
<1> QED
  BY <1>1, <1>2, <1>3, TypeCorrect, SessionsBounded, PTL DEF Spec

\* What is left of a pod: fix passes, then stages until one of them starts
\* again or the pod ends, then attempts of the coding pass under way.
LoopsLeft == (MaxQaFixPasses - fixes) + (MaxReviewPasses - reviews) + (MaxCiFixPasses - ciPasses)
StagesLeft ==
    CASE pc \in {"implement_stories", "revise_after_review"} -> 8
      [] pc \in {"qa_review", "qa_recheck"} -> 7
      [] pc = "review_diff" -> 6
      [] pc = "open_pr" -> 5
      [] pc = "revise_after_ci" -> 4
      [] pc = "update_pr" -> 3
      [] pc = "await_ci" -> 2
      [] pc = "capture_screenshots" -> 1
      [] OTHER -> 0
AttemptsLeft == MaxAttempts - attempts

StepsLeft == (MaxAttempts + 1) * (9 * LoopsLeft + StagesLeft) + AttemptsLeft

MaxSteps == (MaxAttempts + 1) * (9 * (PassBudget - 1) + 8) + MaxAttempts

LEMMA StepsLeftNat ==
    TypeOK /\ CounterInv =>
        /\ LoopsLeft \in Nat /\ StagesLeft \in 0 .. 8 /\ AttemptsLeft \in 0 .. MaxAttempts
        /\ StepsLeft \in Nat
<1> SUFFICES ASSUME TypeOK, CounterInv
             PROVE  /\ LoopsLeft \in Nat /\ StagesLeft \in 0 .. 8
                    /\ AttemptsLeft \in 0 .. MaxAttempts /\ StepsLeft \in Nat
  OBVIOUS
<1>1. LoopsLeft \in Nat
  BY PodAssumption DEF PodAssumption, TypeOK, LoopsLeft
<1>2. StagesLeft \in 0 .. 8
  BY DEF StagesLeft
<1>3. attempts \in Nat /\ attempts <= MaxAttempts /\ MaxAttempts \in Nat
  BY PodAssumption DEF PodAssumption, TypeOK, CounterInv
<1>4. AttemptsLeft \in 0 .. MaxAttempts
  BY <1>3 DEF AttemptsLeft
<1>5. (MaxAttempts + 1) * (9 * LoopsLeft + StagesLeft) \in Nat
  BY <1>1, <1>2, <1>3
<1> QED
  BY <1>1, <1>2, <1>3, <1>4, <1>5 DEF StepsLeft

\* The order behind StepsLeft.
LEMMA RankLowered ==
    ASSUME NEW m \in Nat, NEW p \in Nat, NEW q \in Nat, NEW u \in 0 .. m, NEW v \in 0 .. m,
           q < p \/ (q = p /\ v < u)
    PROVE  (m + 1) * q + v < (m + 1) * p + u
<1>1. (m + 1) * q \in Nat /\ (m + 1) * p \in Nat
  OBVIOUS
<1>2. CASE q < p
  <2>1. (m + 1) * (q + 1) <= (m + 1) * p
    BY <1>2, TimesMono
  <2>2. (m + 1) * (q + 1) = (m + 1) * q + (m + 1)
    BY TimesSucc
  <2> QED
    BY <1>1, <2>1, <2>2
<1>3. CASE q = p /\ v < u
  BY <1>1, <1>3
<1> QED
  BY <1>2, <1>3

LEMMA StepsLowered ==
    ASSUME NEW m \in Nat, NEW a \in Nat, NEW b \in Nat, NEW i \in 0 .. 8, NEW j \in 0 .. 8,
           NEW u \in 0 .. m, NEW v \in 0 .. m,
           b < a \/ (b = a /\ j < i) \/ (b = a /\ j = i /\ v < u)
    PROVE  (m + 1) * (9 * b + j) + v < (m + 1) * (9 * a + i) + u
<1> DEFINE p == 9 * a + i
           q == 9 * b + j
<1>1. p \in Nat /\ q \in Nat /\ (q < p \/ (q = p /\ v < u))
  OBVIOUS
<1> HIDE DEF p, q
<1>2. (m + 1) * q + v < (m + 1) * p + u
  BY <1>1, RankLowered
<1> QED
  BY <1>2 DEF p, q

\* A step uses up a fix pass, a stage, or an attempt, in this order.
LEMMA StepLowers ==
    ASSUME TypeOK, CounterInv, Next
    PROVE  \/ LoopsLeft' < LoopsLeft
           \/ LoopsLeft' = LoopsLeft /\ StagesLeft' < StagesLeft
           \/ LoopsLeft' = LoopsLeft /\ StagesLeft' = StagesLeft /\ AttemptsLeft' < AttemptsLeft
<1> USE DEF LoopsLeft, StagesLeft
<1>t. /\ fixes \in Nat /\ reviews \in Nat /\ ciPasses \in Nat /\ attempts \in Nat
      /\ MaxQaFixPasses \in Nat /\ MaxReviewPasses \in Nat /\ MaxCiFixPasses \in Nat
      /\ MaxAttempts \in Nat
  BY PodAssumption DEF PodAssumption, TypeOK
<1>1. CASE ImplementStories \/ ReviseAfterReview \/ ReviseAfterCi
  BY <1>1 DEF ImplementStories, ReviseAfterReview, ReviseAfterCi, AfterFix, loops
<1>2. CASE QaReview
  BY <1>2, <1>t DEF QaReview
<1>3. CASE ReviewDiff
  BY <1>3, <1>t DEF ReviewDiff
<1>4. CASE QaRecheck
  BY <1>4 DEF QaRecheck, loops
<1>5. CASE OpenPr \/ UpdatePr \/ CaptureScreenshots
  BY <1>5 DEF OpenPr, AfterNoPr, AfterCi, UpdatePr, AfterPush, CaptureScreenshots, loops
<1>6. CASE AwaitCi
  BY <1>6, <1>t DEF AwaitCi, AfterCi
<1>7. CASE CodingAttemptLost
  BY <1>7, <1>t DEF CodingAttemptLost, CodingStages, AttemptsLeft, loops
<1>8. CASE ActivityFails
  BY <1>8 DEF ActivityFails, TypeOK, Stages, CodingStages, Ended, loops
<1> QED
  BY <1>1, <1>2, <1>3, <1>4, <1>5, <1>6, <1>7, <1>8 DEF Next

\* However verdicts, lost workers and failing activities combine, every step of
\* a pod leaves fewer steps to go: none takes more than MaxSteps of them, and
\* the three nested fix loops cannot keep each other going.
THEOREM StepsBounded ==
    Spec => /\ StepsLeft = MaxSteps
            /\ [](StepsLeft \in Nat)
            /\ [][StepsLeft' < StepsLeft]_vars
<1>1. Init => StepsLeft = MaxSteps
  <2> SUFFICES ASSUME Init PROVE StepsLeft = MaxSteps
    OBVIOUS
  <2>1. StagesLeft = 8 /\ AttemptsLeft = MaxAttempts /\ LoopsLeft = PassBudget - 1
    BY PodAssumption DEF PodAssumption, Init, StagesLeft, AttemptsLeft, LoopsLeft, PassBudget
  <2> QED
    BY <2>1 DEF StepsLeft, MaxSteps
<1>2. TypeOK /\ CounterInv => StepsLeft \in Nat
  BY StepsLeftNat
<1>3. TypeOK /\ CounterInv /\ TypeOK' /\ CounterInv' /\ [Next]_vars => [StepsLeft' < StepsLeft]_vars
  <2> SUFFICES ASSUME TypeOK, CounterInv, TypeOK', CounterInv', Next PROVE StepsLeft' < StepsLeft
    OBVIOUS
  <2>1. LoopsLeft \in Nat /\ StagesLeft \in 0 .. 8 /\ AttemptsLeft \in 0 .. MaxAttempts
    BY StepsLeftNat
  <2>2. LoopsLeft' \in Nat /\ StagesLeft' \in 0 .. 8 /\ AttemptsLeft' \in 0 .. MaxAttempts
    <3>1. (TypeOK /\ CounterInv => /\ LoopsLeft \in Nat /\ StagesLeft \in 0 .. 8
                                   /\ AttemptsLeft \in 0 .. MaxAttempts
                                   /\ StepsLeft \in Nat)'
      BY StepsLeftNat, PTL
    <3> QED
      BY <3>1
  <2>3. MaxAttempts \in Nat
    BY PodAssumption DEF PodAssumption
  <2> QED
    BY <2>1, <2>2, <2>3, StepLowers, StepsLowered DEF StepsLeft
<1> QED
  BY <1>1, <1>2, <1>3, TypeCorrect, CounterInvHolds, PTL DEF Spec
=============================================================================
