------------------------- MODULE PullRequestProofs -------------------------
(***************************************************************************)
(* Theorems about what agents/coding does outside the workers.  First      *)
(* PullRequest, for any number of attempts, CI fixes and checks: TypeInv   *)
(* bounds the coding passes, RetryInv follows what an attempt has learnt   *)
(* of GitHub, JudgedInv which head the verdict is of, ToldInv what the run *)
(* may believe of its PR.  Then Preview, for any number of runs: what a    *)
(* step does to the record of a capture, and BegunInv, on which its two    *)
(* properties rest.                                                        *)
(***************************************************************************)
EXTENDS PullRequest, Preview, TLAPS

\* A fix is only started while one is left.
TypeInv == TypeOK /\ (step = "revise_after_ci" => diff <= MaxCiFixes)

LEMMA TypeInvInit == Init => TypeInv
<1> SUFFICES ASSUME Init PROVE TypeInv
  OBVIOUS
<1>1. NoVerdict \in Verdict /\ NoChecks \in [Checks -> {"absent", "pending", "pass", "fail", "cancel"}]
  BY PrAssumption DEF PrAssumption, NoVerdict, Verdict, NoChecks
<1>2. diff \in 1 .. MaxCiFixes + 1 /\ branch \in 0 .. diff /\ merged \in 0 .. branch
  BY PrAssumption DEF PrAssumption, Init
<1>3. attempt \in 1 .. MaxAttempts
  BY PrAssumption DEF PrAssumption, Init
<1> QED
  BY <1>1, <1>2, <1>3 DEF Init, TypeInv, TypeOK, Activities

-----------------------------------------------------------------------------
(* Types                                                                   *)

LEMMA StartTypes ==
    ASSUME NEW next \in Activities \cup Ended \cup {"deploy_approval"}, Start(next)
    PROVE /\ step' = next /\ cmd' = "clone" /\ refused' = FALSE
          /\ attempt' \in 1 .. MaxAttempts /\ reply' \in Verdict
<1>1. NoVerdict \in Verdict
  BY PrAssumption DEF PrAssumption, NoVerdict, Verdict
<1> QED
  BY <1>1, PrAssumption DEF Start, PrAssumption

LEMMA AnswerTypes ==
    ASSUME TypeInv, NEW ok \in BOOLEAN, Answer(ok)
    PROVE cmd' = "answer" /\ reply' \in Verdict /\ UNCHANGED <<config, step, attempt, diff, ci>>
<1>1. NoVerdict \in Verdict
  BY PrAssumption DEF PrAssumption, NoVerdict, Verdict
<1> QED
  BY <1>1 DEF Answer, Verdict, NoVerdict

LEMMA HeadTypes ==
    ASSUME TypeInv, NewHead
    PROVE /\ branch' \in 0 .. diff /\ merged' \in 0 .. branch' /\ pr' = pr
          /\ checks' \in [Checks -> {"absent", "pending", "pass", "fail", "cancel"}]
<1>1. diff \in Nat /\ branch \in 0 .. diff /\ merged \in 0 .. branch
  BY PrAssumption DEF PrAssumption, TypeInv, TypeOK
<1> QED
  BY <1>1 DEF NewHead, NoChecks

LEMMA ConcludeTypes ==
    ASSUME TypeInv, NEW passed \in BOOLEAN,
           NEW status \in {"none", "unavailable", "passed", "failed"}, Conclude(passed, status)
    PROVE /\ cmd' = "answer" /\ reply' \in Verdict
          /\ UNCHANGED <<config, step, attempt, refused, diff, ci, github>>
<1>1. branch \in 0 .. MaxCiFixes + 1
  BY PrAssumption DEF PrAssumption, TypeInv, TypeOK
<1> QED
  BY <1>1 DEF Conclude, Verdict

LEMMA TypeInvStep == TypeInv /\ [Next]_vars => TypeInv'
<1> SUFFICES ASSUME TypeInv, [Next]_vars PROVE TypeInv'
  OBVIOUS
<1> USE DEF config, github
<1>1. CASE PrepareBranch
  <2>1. CASE Refuse
    BY <1>1, <2>1, AnswerTypes DEF PrepareBranch, DryRun, Refuse, TypeInv, TypeOK
  <2>2. CASE Answer(TRUE) /\ UNCHANGED <<refused, github>>
    BY <2>2, AnswerTypes DEF TypeInv, TypeOK
  <2>3. CASE (Run("probe") \/ Run("push")) /\ UNCHANGED <<refused, github>>
    BY <2>3 DEF Run, TypeInv, TypeOK
  <2> QED
    BY <1>1, <2>1, <2>2, <2>3 DEF PrepareBranch, DryRun
<1>2. CASE ExistingPr
  <2>1. CASE Answer(TRUE) /\ UNCHANGED <<refused, github>>
    BY <2>1, AnswerTypes DEF TypeInv, TypeOK
  <2>2. CASE Run("push") /\ refused' \in BOOLEAN /\ UNCHANGED github
    BY <2>2 DEF Run, TypeInv, TypeOK
  <2> QED
    BY <1>2, <2>1, <2>2 DEF ExistingPr, TypeInv, TypeOK
<1>3. CASE Push
  <2>1. CASE Answer(FALSE) /\ UNCHANGED <<refused, github>>
    BY <2>1, AnswerTypes DEF TypeInv, TypeOK
  <2>2. CASE NewHead /\ Run("create") /\ UNCHANGED refused
    BY <2>2, HeadTypes DEF Run, TypeInv, TypeOK
  <2>3. CASE Refuse
    BY <2>3, AnswerTypes DEF Refuse, TypeInv, TypeOK
  <2> QED
    BY <1>3, <2>1, <2>2, <2>3 DEF Push
<1>4. CASE CreatePr
  <2>1. CASE Refuse
    BY <2>1, AnswerTypes DEF Refuse, TypeInv, TypeOK
  <2>2. CASE pr' = "open" /\ Answer(TRUE) /\ UNCHANGED <<refused, branch, merged, checks>>
    BY <2>2, AnswerTypes DEF TypeInv, TypeOK
  <2> QED
    BY <1>4, <2>1, <2>2 DEF CreatePr
<1>5. CASE ForcePush
  <2>1. CASE Refuse
    BY <2>1, AnswerTypes DEF Refuse, TypeInv, TypeOK
  <2>2. CASE NewHead /\ Answer(TRUE) /\ UNCHANGED refused
    BY <2>2, AnswerTypes, HeadTypes DEF TypeInv, TypeOK
  <2> QED
    BY <1>5, <2>1, <2>2 DEF ForcePush
<1>6. CASE CloneForCi \/ PollOnce \/ CiDeadline
  <2>1. CASE Conclude(TRUE, "unavailable") \/ Conclude(TRUE, "passed") \/ Conclude(FALSE, "failed")
    BY <2>1, ConcludeTypes DEF TypeInv, TypeOK
  <2>2. CASE Run("poll") /\ UNCHANGED <<refused, github>>
    BY <2>2 DEF Run, TypeInv, TypeOK
  <2> QED
    BY <1>6, <2>1, <2>2 DEF CloneForCi, PollOnce, CiDeadline
<1>7. CASE CloneForMerge \/ ViewPr
  <2>1. CASE Answer(TRUE) /\ UNCHANGED <<refused, github>>
    BY <2>1, AnswerTypes DEF TypeInv, TypeOK
  <2>2. CASE (Run("view") \/ Run("merge")) /\ refused' \in BOOLEAN /\ UNCHANGED github
    BY <2>2 DEF Run, TypeInv, TypeOK
  <2>3. CASE Refuse
    BY <2>3, AnswerTypes DEF Refuse, TypeInv, TypeOK
  <2>4. refused \in BOOLEAN
    BY DEF TypeInv, TypeOK
  <2>5. CASE CloneForMerge
    BY <2>1, <2>2, <2>3, <2>4, <2>5 DEF CloneForMerge, DryRun
  <2>6. CASE ViewPr
    BY <2>1, <2>2, <2>4, <2>6 DEF ViewPr
  <2> QED
    BY <1>7, <2>5, <2>6
<1>8. CASE MergePr
  <2>1. CASE pr' = "merged" /\ merged' = branch /\ Answer(TRUE) /\ UNCHANGED <<refused, branch, checks>>
    <3>1. merged' \in 0 .. branch'
      BY <2>1, PrAssumption DEF PrAssumption, TypeInv, TypeOK
    <3> QED
      BY <2>1, <3>1, AnswerTypes DEF TypeInv, TypeOK
  <2>2. CASE (Answer(TRUE) \/ Answer(FALSE)) /\ UNCHANGED <<refused, github>>
    BY <2>2, AnswerTypes DEF TypeInv, TypeOK
  <2>3. CASE Refuse
    BY <2>3, AnswerTypes DEF Refuse, TypeInv, TypeOK
  <2> QED
    BY <1>8, <2>1, <2>2, <2>3 DEF MergePr
<1>9. CASE Recorded
  <2>1. ci' \in Verdict
    BY <1>9 DEF Recorded, TypeInv, TypeOK
  <2>2. PICK next \in Activities \cup Ended \cup {"deploy_approval"} :
          Start(next) /\ (next = "revise_after_ci" => MayFix)
    BY <1>9 DEF Recorded, Activities, Ended
  <2>3. UNCHANGED <<config, diff, github>>
    BY <1>9 DEF Recorded
  <2> QED
    BY <2>1, <2>2, <2>3, StartTypes DEF MayFix, TypeInv, TypeOK
<1>10. CASE ReviseAfterCi
  <2>1. diff' \in 1 .. MaxCiFixes + 1 /\ branch' \in 0 .. diff'
    BY <1>10, PrAssumption DEF PrAssumption, ReviseAfterCi, TypeInv, TypeOK
  <2>2. "update_pr" \in Activities /\ Start("update_pr") /\ UNCHANGED <<config, ci, github>>
    BY <1>10 DEF Activities, ReviseAfterCi
  <2>3. /\ step' = "update_pr" /\ cmd' = "clone" /\ refused' = FALSE
        /\ attempt' \in 1 .. MaxAttempts /\ reply' \in Verdict
    BY <2>2, StartTypes
  <2> QED
    BY <2>1, <2>2, <2>3 DEF TypeInv, TypeOK
<1>11. CASE AttemptLost
  <2>1. attempt' \in 1 .. MaxAttempts
    BY <1>11, PrAssumption DEF PrAssumption, AttemptLost, TypeInv, TypeOK
  <2>2. reply' \in Verdict
    BY <1>11, PrAssumption DEF PrAssumption, AttemptLost, NoVerdict, Verdict
  <2>3. step' \in {step, "failed"} /\ cmd' \in {cmd, "clone"} /\ refused' = FALSE
        /\ UNCHANGED <<config, diff, ci, github>>
    BY <1>11 DEF AttemptLost
  <2> QED
    BY <2>1, <2>2, <2>3 DEF TypeInv, TypeOK, Ended
<1>12. CASE DeployGate
  <2>1. PICK next \in {"deploy", "held"} : Start(next)
    BY <1>12 DEF DeployGate
  <2>2. /\ step' = next /\ cmd' = "clone" /\ refused' = FALSE
        /\ attempt' \in 1 .. MaxAttempts /\ reply' \in Verdict
    BY <2>1, StartTypes DEF Activities, Ended
  <2> QED
    BY <1>12, <2>2 DEF DeployGate, TypeInv, TypeOK, Activities, Ended
<1>13. CASE CiService
  <2>1. PICK c \in Checks : Register(c) \/ Finish(c)
    BY <1>13 DEF CiService
  <2>2. checks' \in [Checks -> {"absent", "pending", "pass", "fail", "cancel"}]
    BY <2>1 DEF Register, Finish, TypeInv, TypeOK
  <2> QED
    BY <1>13, <2>2 DEF CiService, TypeInv, TypeOK
<1>14. CASE UNCHANGED vars
  BY <1>14 DEF vars, TypeInv, TypeOK
<1> QED
  BY <1>1, <1>2, <1>3, <1>4, <1>5, <1>6, <1>7, <1>8, <1>9, <1>10, <1>11, <1>12, <1>13, <1>14 DEF Next

LEMMA TypeInvHolds == Spec => []TypeInv
  BY TypeInvInit, TypeInvStep, PTL DEF Spec

\* Every command, answer and lost attempt keeps the types: no run codes more
\* often than its CI fixes allow.
THEOREM TypeCorrect == Spec => []TypeOK
<1>1. TypeInv => TypeOK
  BY DEF TypeInv
<1> QED
  BY <1>1, TypeInvHolds, PTL

-----------------------------------------------------------------------------
(* Retries                                                                 *)

\* What an attempt that was refused nothing has seen of GitHub still holds.
RetryInv ==
    /\ step = "open_pr" /\ cmd = "push" /\ ~refused => pr = "none"
    /\ step = "deploy" /\ cmd = "merge" /\ ~refused => pr # "merged"
    /\ RetryConverges

LEMMA RetryInvStep == RetryInv /\ [Next]_vars => RetryInv'
<1> SUFFICES ASSUME RetryInv, [Next]_vars PROVE RetryInv'
  OBVIOUS
<1> USE DEF RetryInv, RetryConverges, config, github, NoVerdict
<1>1. CASE PrepareBranch
  BY <1>1 DEF PrepareBranch, DryRun, Refuse, Answer, Run
<1>2. CASE ExistingPr
  BY <1>2 DEF ExistingPr, Answer, Run
<1>3. CASE Push
  BY <1>3 DEF Push, NewHead, Refuse, Answer, Run
<1>4. CASE CreatePr
  BY <1>4 DEF CreatePr, Refuse, Answer
<1>5. CASE ForcePush
  BY <1>5 DEF ForcePush, NewHead, Refuse, Answer
<1>6. CASE CloneForCi \/ PollOnce \/ CiDeadline
  BY <1>6 DEF CloneForCi, PollOnce, CiDeadline, Conclude, Run
<1>7. CASE CloneForMerge
  BY <1>7 DEF CloneForMerge, DryRun, Refuse, Answer, Run
<1>8. CASE ViewPr
  BY <1>8 DEF ViewPr, Answer, Run
<1>9. CASE MergePr
  BY <1>9 DEF MergePr, Refuse, Answer
<1>10. CASE Recorded \/ ReviseAfterCi \/ DeployGate
  BY <1>10 DEF Recorded, ReviseAfterCi, DeployGate, Start
<1>11. CASE AttemptLost
  BY <1>11 DEF AttemptLost
<1>12. CASE CiService
  BY <1>12 DEF CiService
<1>13. CASE UNCHANGED vars
  BY <1>13 DEF vars
<1> QED
  BY <1>1, <1>2, <1>3, <1>4, <1>5, <1>6, <1>7, <1>8, <1>9, <1>10, <1>11, <1>12, <1>13 DEF Next

\* GitHubPRTarget.open and merge: after any number of lost attempts, an attempt
\* that GitHub answers does not fail over a PR, or a merge, that is there.
THEOREM RetriesConverge == Spec => []RetryConverges
<1>1. Init => RetryInv
  BY DEF Init, RetryInv, RetryConverges
<1>2. RetryInv => RetryConverges
  BY DEF RetryInv
<1> QED
  BY <1>1, <1>2, RetryInvStep, PTL DEF Spec

-----------------------------------------------------------------------------
(* What is merged                                                          *)

\* The verdict v stands: it passed the head, and no check it saw has failed.
Passes(v) ==
    /\ v.passed /\ v.of = branch
    /\ \A c \in v.seen : v.status = "unavailable" \/ checks[c] \in {"pass", "cancel"}

\* From the verdict on, only steps that leave the branch alone are taken.
JudgedInv ==
    /\ step = "await_ci" /\ cmd = "answer" /\ reply.passed => Passes(reply)
    /\ step \in {"deploy_approval", "deploy", "done", "held"} => Passes(ci)
    /\ pr = "merged" => step \in {"deploy", "done", "failed"} /\ merged = branch /\ Passes(ci)

LEMMA JudgedInvStep == TypeInv /\ JudgedInv /\ [Next]_vars => JudgedInv'
<1> SUFFICES ASSUME TypeInv, JudgedInv, [Next]_vars PROVE JudgedInv'
  OBVIOUS
<1> USE DEF JudgedInv, config, github
<1>1. CASE PrepareBranch
  BY <1>1 DEF PrepareBranch, DryRun, Refuse, Answer, Run, Passes
<1>2. CASE ExistingPr
  BY <1>2 DEF ExistingPr, Answer, Run, Passes
<1>3. CASE Push
  BY <1>3 DEF Push, NewHead, Refuse, Answer, Run, Passes
<1>4. CASE CreatePr
  BY <1>4 DEF CreatePr, Refuse, Answer, Passes
<1>5. CASE ForcePush
  BY <1>5 DEF ForcePush, NewHead, Refuse, Answer, Passes
<1>6. CASE CloneForCi
  BY <1>6 DEF CloneForCi, Conclude, Run, Passes
<1>7. CASE PollOnce
  <2>1. \A c \in Checks : checks[c] # "absent" /\ checks[c] # "fail" => checks[c] \in {"pass", "cancel"}
    BY <1>7 DEF PollOnce, AllConcluded, TypeInv, TypeOK
  <2>2. step = "await_ci" /\ UNCHANGED <<step, ci, github>>
    BY <1>7 DEF PollOnce, Conclude
  <2>3. reply'.of = branch /\ reply'.seen = {c \in Checks : checks[c] # "absent"}
    BY <1>7 DEF PollOnce, Conclude
  <2>4. reply'.passed => \A c \in Checks : checks[c] # "fail"
    BY <1>7 DEF PollOnce, Conclude
  <2>5. reply'.passed => Passes(reply)'
    BY <2>1, <2>2, <2>3, <2>4 DEF Passes
  <2>6. Passes(ci) => Passes(ci)'
    BY <2>2 DEF Passes
  <2> QED
    BY <2>2, <2>5, <2>6
<1>8. CASE CiDeadline
  BY <1>8 DEF CiDeadline, Conclude, Passes
<1>9. CASE CloneForMerge
  BY <1>9 DEF CloneForMerge, DryRun, Refuse, Answer, Run, Passes
<1>10. CASE ViewPr
  BY <1>10 DEF ViewPr, Answer, Run, Passes
<1>11. CASE MergePr
  BY <1>11 DEF MergePr, Refuse, Answer, Passes
<1>12. CASE Recorded
  BY <1>12 DEF Recorded, Start, NoVerdict, Passes
<1>13. CASE ReviseAfterCi
  BY <1>13 DEF ReviseAfterCi, Start, Passes
<1>14. CASE DeployGate
  BY <1>14 DEF DeployGate, Start, Passes
<1>15. CASE AttemptLost
  BY <1>15 DEF AttemptLost, NoVerdict, Activities, Passes
<1>16. CASE CiService
  <2>1. \A c \in Checks : checks[c] \in {"pass", "cancel"} => checks'[c] = checks[c]
    BY <1>16 DEF CiService, Register, Finish, TypeInv, TypeOK
  <2>2. UNCHANGED <<step, cmd, reply, ci, branch, pr, merged>>
    BY <1>16 DEF CiService
  <2>3. reply.seen \subseteq Checks /\ ci.seen \subseteq Checks
    BY DEF TypeInv, TypeOK, Verdict
  <2>4. (Passes(reply) => Passes(reply)') /\ (Passes(ci) => Passes(ci)')
    BY <2>1, <2>2, <2>3 DEF Passes
  <2> QED
    BY <2>2, <2>4
<1>17. CASE UNCHANGED vars
  BY <1>17 DEF vars, Passes
<1> QED
  BY <1>1, <1>2, <1>3, <1>4, <1>5, <1>6, <1>7, <1>8, <1>9, <1>10, <1>11, <1>12, <1>13, <1>14,
     <1>15, <1>16, <1>17 DEF Next

\* "Never merges past a red PR", as far as it is kept: what is merged is the
\* head that passed, whatever CI does after its verdict.
THEOREM MergesJudged == Spec => []MergedAsJudged
<1>1. Init => JudgedInv
  BY DEF Init, JudgedInv
<1>2. JudgedInv => MergedAsJudged
  BY DEF JudgedInv, MergedAsJudged, Passes
<1> QED
  BY <1>1, <1>2, JudgedInvStep, TypeInvHolds, PTL DEF Spec

-----------------------------------------------------------------------------
(* The refinement of CheckedPr                                             *)

\* Nobody asked CI before the PR was reported, and a report of one means that
\* the diff is on the branch.
OpenedInv ==
    /\ pr # "none" => branch # 0
    /\ step = "open_pr" =>
         /\ NotAsked /\ diff = 1
         /\ cmd = "create" => branch = diff
         /\ cmd = "answer" /\ reply.passed => target = "local" \/ branch = diff

\* An answer of the CI checker is about the branch, and only a real CI is red.
AnswerInv ==
    step = "await_ci" =>
        /\ cmd = "poll" => target # "local"
        /\ cmd = "answer" =>
             /\ reply.of = branch /\ reply.status \in {"unavailable", "passed", "failed"}
             /\ reply.passed <=> reply.status # "failed"
             /\ reply.status = "failed" => target # "local"

\* While a fix is under way, the branch holds what was judged, or the fix.
FixInv ==
    /\ step \in {"revise_after_ci", "update_pr"} => target # "local" /\ ~NotAsked
    /\ step = "revise_after_ci" => ci.of = branch
    /\ step = "update_pr" => branch \in {ci.of, diff}
    /\ step \in {"deploy_approval", "deploy", "held", "done"} => ~NotAsked

ToldInv == OpenedInv /\ AnswerInv /\ FixInv

LEMMA ToldInvStep == TypeInv /\ ToldInv /\ [Next]_vars => ToldInv'
<1> SUFFICES ASSUME TypeInv, ToldInv, [Next]_vars PROVE ToldInv'
  OBVIOUS
<1>t. diff \in Nat /\ branch \in 0 .. diff
  BY PrAssumption DEF PrAssumption, TypeInv, TypeOK
<1> USE DEF ToldInv, OpenedInv, AnswerInv, FixInv, NotAsked, config, github
<1>1. CASE PrepareBranch
  BY <1>1 DEF PrepareBranch, DryRun, Refuse, Answer, Run, NoVerdict
<1>2. CASE ExistingPr
  BY <1>2, <1>t DEF ExistingPr, Answer, Run, NoVerdict
<1>3. CASE Push
  BY <1>3, <1>t DEF Push, NewHead, Refuse, Answer, Run, NoVerdict
<1>4. CASE CreatePr
  BY <1>4, <1>t DEF CreatePr, Refuse, Answer, NoVerdict
<1>5. CASE ForcePush
  BY <1>5, <1>t DEF ForcePush, NewHead, Refuse, Answer, NoVerdict
<1>6. CASE CloneForCi \/ PollOnce \/ CiDeadline
  BY <1>6 DEF CloneForCi, PollOnce, CiDeadline, Conclude, Run
<1>7. CASE CloneForMerge \/ ViewPr
  BY <1>7 DEF CloneForMerge, DryRun, ViewPr, Refuse, Answer, Run
<1>8. CASE MergePr
  BY <1>8 DEF MergePr, Refuse, Answer
<1>9. CASE Recorded
  BY <1>9, <1>t DEF Recorded, Start
<1>10. CASE ReviseAfterCi
  BY <1>10 DEF ReviseAfterCi, Start
<1>11. CASE AttemptLost
  BY <1>11 DEF AttemptLost
<1>12. CASE DeployGate
  BY <1>12 DEF DeployGate, Start
<1>13. CASE CiService
  BY <1>13 DEF CiService
<1>14. CASE UNCHANGED vars
  BY <1>14 DEF vars
<1> QED
  BY <1>1, <1>2, <1>3, <1>4, <1>5, <1>6, <1>7, <1>8, <1>9, <1>10, <1>11, <1>12, <1>13, <1>14
     DEF Next

\* A command may touch the branch before its activity has answered, and nothing
\* else that the run is told of.
Command ==
    /\ UNCHANGED <<config, step, diff, ci>>
    /\ branch' = branch \/ step \in {"open_pr", "update_pr"}

LEMMA Commands ==
    ASSUME [Next]_vars
    PROVE  Command \/ Recorded \/ ReviseAfterCi \/ AttemptLost \/ DeployGate
<1> USE DEF Command, config, github
<1>1. CASE PrepareBranch \/ ExistingPr \/ Push \/ CreatePr \/ ForcePush
  BY <1>1 DEF PrepareBranch, DryRun, ExistingPr, Push, CreatePr, ForcePush, NewHead, Refuse, Answer, Run
<1>2. CASE CloneForCi \/ PollOnce \/ CiDeadline
  BY <1>2 DEF CloneForCi, PollOnce, CiDeadline, Conclude, Run
<1>3. CASE CloneForMerge \/ ViewPr \/ MergePr
  BY <1>3 DEF CloneForMerge, DryRun, ViewPr, MergePr, Refuse, Answer, Run
<1>4. CASE CiService \/ UNCHANGED vars
  BY <1>4 DEF CiService, vars
<1> QED
  BY <1>1, <1>2, <1>3, <1>4 DEF Next

\* What the run is told does not change with a command, nor when an attempt is
\* lost and made again.
LEMMA CommandsUntold ==
    ASSUME ToldInv, UNCHANGED <<config, step, diff, ci>>,
           branch' = branch \/ step \in {"open_pr", "update_pr"}
    PROVE  UNCHANGED Checked!prVars
<1> USE DEF config
<1>1. PrStage' = PrStage
  BY DEF PrStage
<1>2. VerdictTold' = VerdictTold
  BY DEF VerdictTold, NotAsked
<1>3. HeadTold' = HeadTold
  BY DEF HeadTold, Held, NotAsked, ToldInv, OpenedInv
<1>4. Told' = Told
  BY <1>2, <1>3 DEF Told
<1> QED
  BY <1>1, <1>4 DEF Checked!prVars

\* What the run is told when it has not failed.
LEMMA ToldIs ==
    ASSUME step # "failed"
    PROVE  Told = [diff |-> diff, head |-> HeadTold, verdict |-> VerdictTold,
                   fixes |-> IF step = "revise_after_ci" THEN diff ELSE diff - 1]
  BY DEF Told

LEMMA RecordedChecked ==
    ASSUME TypeInv, ToldInv, Recorded
    PROVE  [Checked!Next]_(Checked!prVars)
<1>t. diff \in 1 .. MaxCiFixes + 1 /\ MaxCiFixes \in Nat
  BY PrAssumption DEF PrAssumption, TypeInv, TypeOK
<1> USE DEF ToldInv, OpenedInv, AnswerInv, FixInv
<1>0. cmd = "answer" /\ UNCHANGED <<target, diff, branch>>
  BY DEF Recorded, config, github
<1>1. CASE step = "open_pr"
  <2>1. step' \in {"await_ci", "ci_failed"} /\ (step' = "await_ci" <=> reply.passed) /\ ci' = ci
    BY <1>1 DEF Recorded, Start
  <2>2. Told = [diff |-> diff, head |-> 0, fixes |-> diff - 1,
                verdict |-> [of |-> 0, status |-> "none"]]
    BY <1>1, ToldIs DEF HeadTold, VerdictTold
  <2>3. PrStage = "coding"
    BY <1>1 DEF PrStage
  <2>4. CASE step' = "await_ci"
    <3>1. Told' = [diff |-> diff, head |-> diff, fixes |-> diff - 1,
                   verdict |-> [of |-> 0, status |-> "none"]]
      BY <1>0, <1>1, <2>1, <2>4 DEF Told, HeadTold, Held, VerdictTold, NotAsked
    <3>2. PrStage' = "checking"
      BY <2>4 DEF PrStage
    <3> QED
      BY <2>2, <2>3, <3>1, <3>2 DEF Checked!Open, Checked!Next
  <2>5. CASE step' = "ci_failed"
    <3>1. Told' = [diff |-> diff, head |-> 0, fixes |-> diff - 1,
                   verdict |-> [of |-> 0, status |-> "no_pr"]]
      BY <1>0, <1>1, <2>1, <2>5 DEF Told, HeadTold, Held, VerdictTold, NotAsked
    <3>2. PrStage' = "over"
      BY <2>5 DEF PrStage
    <3> QED
      BY <2>2, <2>3, <3>1, <3>2 DEF Checked!Open, Checked!Next
  <2> QED
    BY <2>1, <2>4, <2>5
<1>2. CASE step = "update_pr"
  <2>1. step' = "await_ci" /\ ci' = ci
    BY <1>2 DEF Recorded, Start
  <2>2. Told = [diff |-> diff, head |-> ci.of, fixes |-> diff - 1, verdict |-> VerdictTold]
    BY <1>2, ToldIs DEF HeadTold
  <2>3. Told' = [diff |-> diff, head |-> branch, fixes |-> diff - 1, verdict |-> VerdictTold]
    BY <1>0, <1>2, <2>1 DEF Told, HeadTold, Held, VerdictTold, NotAsked
  <2>4. PrStage = "pushing" /\ PrStage' = "checking" /\ branch \in {ci.of, diff}
    BY <1>2, <2>1 DEF PrStage
  <2> QED
    BY <2>2, <2>3, <2>4 DEF Checked!Push, Checked!Next
<1>3. CASE step = "await_ci"
  <2>1. /\ ci' = reply
        /\ step' = IF reply.passed THEN "deploy_approval"
                   ELSE IF MayFix THEN "revise_after_ci" ELSE "ci_failed"
    BY <1>0, <1>3 DEF Recorded, Start
  <2>2. /\ reply.of = branch /\ reply.status \in {"unavailable", "passed", "failed"}
        /\ reply.passed <=> reply.status # "failed"
        /\ reply.status = "failed" => target # "local"
    BY <1>0, <1>3
  <2>3. Told = [diff |-> diff, head |-> Held, fixes |-> diff - 1, verdict |-> VerdictTold]
    BY <1>3, ToldIs DEF HeadTold
  <2>4. PrStage = "checking" /\ (MayFix <=> diff - 1 < MaxCiFixes)
    BY <1>3, <1>t DEF PrStage, MayFix
  <2>5. /\ Held' = Held /\ HeadTold' = Held
        /\ VerdictTold' = [of |-> Held, status |-> reply.status]
    BY <1>0, <2>1, <2>2 DEF HeadTold, Held, VerdictTold, NotAsked
  <2>6. CASE reply.status = "failed" /\ MayFix
    <3>1. step' = "revise_after_ci" /\ PrStage' = "fixing"
      BY <2>1, <2>2, <2>6 DEF PrStage
    <3>2. Told' = [diff |-> diff, head |-> Held, fixes |-> (diff - 1) + 1,
                   verdict |-> [of |-> Held, status |-> reply.status]]
      BY <1>0, <1>t, <2>5, <3>1 DEF Told
    <3> DEFINE judged == [Told EXCEPT !.verdict = [of |-> Held, status |-> reply.status]]
    <3>3. /\ Told.head = Held /\ Told.fixes < MaxCiFixes
          /\ judged = [diff |-> diff, head |-> Held, fixes |-> diff - 1,
                       verdict |-> [of |-> Held, status |-> reply.status]]
      BY <2>3, <2>4, <2>6
    <3>4. Told' = [judged EXCEPT !.fixes = @ + 1]
      <4> HIDE DEF judged
      <4> QED
        BY <3>2, <3>3
    <3>5. Checked!Check
      BY <2>4, <2>6, <3>1, <3>3, <3>4 DEF Checked!Check
    <3> QED
      BY <3>5 DEF Checked!Next
  <2>7. CASE ~(reply.status = "failed" /\ MayFix)
    <3>1. step' \in {"deploy_approval", "ci_failed"} /\ PrStage' = "over"
      BY <2>1, <2>2, <2>7 DEF PrStage
    <3>2. Told' = [diff |-> diff, head |-> Held, fixes |-> diff - 1,
                   verdict |-> [of |-> Held, status |-> reply.status]]
      BY <1>0, <2>5, <3>1 DEF Told
    <3>3. Checked!Check
      BY <2>2, <2>3, <2>4, <2>7, <3>1, <3>2 DEF Checked!Check
    <3> QED
      BY <3>3 DEF Checked!Next
  <2> QED
    BY <2>6, <2>7
<1>4. CASE step = "deploy"
  <2>1. step' = "done" /\ ci' = ci
    BY <1>4 DEF Recorded, Start
  <2>2. PrStage' = PrStage /\ Told' = Told
    BY <1>0, <1>4, <2>1 DEF PrStage, Told, HeadTold, Held, VerdictTold, NotAsked
  <2> QED
    BY <2>2 DEF Checked!prVars
<1> QED
  BY <1>1, <1>2, <1>3, <1>4 DEF Recorded

LEMMA StepChecked ==
    ASSUME TypeInv, ToldInv, [Next]_vars
    PROVE  [Checked!Next]_(Checked!prVars)
<1>1. CASE Command
  BY <1>1, CommandsUntold DEF Command
<1>2. CASE Recorded
  BY <1>2, RecordedChecked
<1>3. CASE ReviseAfterCi
  <2>1. /\ step = "revise_after_ci" /\ step' = "update_pr" /\ diff' = diff + 1
        /\ UNCHANGED <<target, ci, branch>>
    BY <1>3 DEF ReviseAfterCi, Start, config, github
  <2>2. diff \in Nat /\ ci.of = branch /\ target # "local" /\ ~NotAsked
    BY <2>1, PrAssumption DEF PrAssumption, TypeInv, TypeOK, ToldInv, FixInv
  <2>3. Told = [diff |-> diff, head |-> branch, fixes |-> diff,
                verdict |-> [of |-> ci.of, status |-> ci.status]]
    BY <2>1, <2>2, ToldIs DEF HeadTold, Held, VerdictTold
  <2>4. Told' = [diff |-> diff + 1, head |-> branch, fixes |-> diff,
                 verdict |-> [of |-> ci.of, status |-> ci.status]]
    BY <2>1, <2>2 DEF Told, HeadTold, Held, VerdictTold, NotAsked
  <2>5. PrStage = "fixing" /\ PrStage' = "pushing"
    BY <2>1 DEF PrStage
  <2> QED
    BY <2>3, <2>4, <2>5 DEF Checked!Fix, Checked!Next
<1>4. CASE AttemptLost
  <2>1. step # "failed" /\ UNCHANGED <<config, diff, ci, branch>> /\ step' \in {step, "failed"}
    BY <1>4 DEF AttemptLost, Activities, github
  <2>2. CASE step' = step
    BY <2>1, <2>2, CommandsUntold
  <2>3. CASE step' = "failed"
    <3>1. PrStage # "failed" /\ PrStage' = "failed"
      BY <2>1, <2>3 DEF PrStage
    <3>2. Told' = Checked!Lost
      BY <2>3 DEF Told, Checked!Lost, Checked!Begun, Checked!NotAsked
    <3> QED
      BY <3>1, <3>2 DEF Checked!Fail, Checked!Next
  <2> QED
    BY <2>1, <2>2, <2>3
<1>5. CASE DeployGate
  <2>1. /\ step = "deploy_approval" /\ step' \in {"deploy", "held"}
        /\ UNCHANGED <<target, diff, ci, branch>>
    BY <1>5 DEF DeployGate, Start, config, github
  <2>2. PrStage' = PrStage /\ Told' = Told
    BY <2>1 DEF PrStage, Told, HeadTold, Held, VerdictTold, NotAsked
  <2> QED
    BY <2>2 DEF Checked!prVars
<1> QED
  BY <1>1, <1>2, <1>3, <1>4, <1>5, Commands

\* For any number of attempts, CI fixes and checks, and wherever attempts are
\* lost: open_pr, await_ci and update_pr come to the steps that the pod takes
\* them for, with the branch on GitHub holding what the run was told.
THEOREM CommandsCheckPr == Spec => ImplementsCheckedPr
<1>1. Init => Checked!Init
  <2> SUFFICES ASSUME Init PROVE Checked!Init
    OBVIOUS
  <2>1. PrStage = "coding" /\ diff = 1
    BY DEF Init, PrStage
  <2>2. Told = [diff |-> 1, head |-> 0, fixes |-> 0, verdict |-> [of |-> 0, status |-> "none"]]
    BY DEF Init, Told, HeadTold, VerdictTold, NotAsked, NoVerdict
  <2> QED
    BY <2>1, <2>2 DEF Checked!Init, Checked!Begun, Checked!NotAsked
<1>2. Init => ToldInv
  BY DEF Init, ToldInv, OpenedInv, AnswerInv, FixInv, NotAsked, NoVerdict
<1>3. TypeInv /\ ToldInv /\ [Next]_vars => [Checked!Next]_(Checked!prVars)
  BY StepChecked
<1> QED
  BY <1>1, <1>2, <1>3, ToldInvStep, TypeInvHolds, PTL
     DEF Spec, ImplementsCheckedPr, Checked!Spec

-----------------------------------------------------------------------------
(***************************************************************************)
(* The preview: what the runs of a project do to the stack that they       *)
(* share, for any number of runs.                                          *)
(***************************************************************************)
Record == [attempt : Attempts, status : {"scheduled", "started", "done", "failed"}]

\* The next attempt of a run's activity, or the failure of its last one; it is
\* known which attempt was cut short.
LEMMA CaptureCut ==
    ASSUME PreviewTypeOK, NEW c \in Captures, call[c[1]].attempt = c[2], Cuts(c)
    PROVE  /\ call' \in [Runs -> Record] /\ cut' = cut \cup {c} /\ cut' \in SUBSET Captures
           /\ \A r \in Runs : r # c[1] => call'[r] = call[r]
           /\ \/ /\ c[2] < CaptureAttempts
                 /\ call'[c[1]] = [attempt |-> c[2] + 1, status |-> "scheduled"]
              \/ /\ c[2] = CaptureAttempts
                 /\ call'[c[1]] = [attempt |-> c[2], status |-> "failed"]
<1>1. /\ c[1] \in Runs /\ c[2] \in Attempts /\ call \in [Runs -> Record] /\ call[c[1]] \in Record
      /\ CaptureAttempts \in Nat /\ cut' = cut \cup {c} /\ cut' \in SUBSET Captures
  BY PreviewAssumption DEF Captures, PreviewTypeOK, Record, PreviewAssumption, Cuts
<1>2. CASE MoreAttempts(c[1])
  <2>1. call' = [call EXCEPT ![c[1]] = [attempt |-> c[2] + 1, status |-> "scheduled"]]
    BY <1>1, <1>2 DEF Cuts, NextAttempt
  <2>2. c[2] < CaptureAttempts /\ [attempt |-> c[2] + 1, status |-> "scheduled"] \in Record
    BY <1>1, <1>2 DEF MoreAttempts, Attempts, Record
  <2> QED
    BY <1>1, <2>1, <2>2
<1>3. CASE ~MoreAttempts(c[1])
  <2>1. /\ [call[c[1]] EXCEPT !.status = "failed"] = [attempt |-> c[2], status |-> "failed"]
        /\ [attempt |-> c[2], status |-> "failed"] \in Record
    BY <1>1 DEF Record
  <2>2. call' = [call EXCEPT ![c[1]] = [attempt |-> c[2], status |-> "failed"]]
    BY <1>3, <2>1 DEF Cuts, NextAttempt
  <2>3. c[2] = CaptureAttempts
    BY <1>1, <1>3 DEF MoreAttempts, Attempts
  <2> QED
    BY <1>1, <2>1, <2>2, <2>3
<1> QED
  BY <1>2, <1>3

\* The result of a capture that is still awaited, and of one that is not.
LEMMA CaptureReturns ==
    ASSUME PreviewTypeOK, NEW c \in Captures, Returns(c)
    PROVE  /\ call' \in [Runs -> Record] /\ UNCHANGED cut
           /\ \A r \in Runs : r # c[1] => call'[r] = call[r]
           /\ \/ call'[c[1]] = call[c[1]]
              \/ /\ call[c[1]] = [attempt |-> c[2], status |-> "started"]
                 /\ call'[c[1]] = [attempt |-> c[2], status |-> "done"]
<1>1. c[1] \in Runs /\ c[2] \in Attempts /\ call \in [Runs -> Record] /\ UNCHANGED cut
  BY DEF Captures, PreviewTypeOK, Record, Returns
<1>2. CASE Awaited(c)
  <2>1. /\ [call[c[1]] EXCEPT !.status = "done"] = [attempt |-> c[2], status |-> "done"]
        /\ [attempt |-> c[2], status |-> "done"] \in Record
    BY <1>1, <1>2 DEF Awaited, Record
  <2>2. call' = [call EXCEPT ![c[1]] = [attempt |-> c[2], status |-> "done"]]
    BY <1>2, <2>1 DEF Returns
  <2> QED
    BY <1>1, <1>2, <2>1, <2>2 DEF Awaited
<1>3. CASE ~Awaited(c)
  BY <1>1, <1>3 DEF Returns
<1> QED
  BY <1>2, <1>3

\* What a step does to the record of run r.
RecordMoves(r) ==
    LET a == call[r].attempt IN
    \/ call'[r] = call[r]
    \/ call[r].status = "scheduled" /\ call'[r] = [attempt |-> a, status |-> "started"]
    \/ call[r].status = "started" /\ call'[r] = [attempt |-> a, status |-> "done"]
    \/ /\ call[r].status \in {"scheduled", "started"} /\ <<r, a>> \in cut'
       /\ \/ a < CaptureAttempts /\ call'[r] = [attempt |-> a + 1, status |-> "scheduled"]
          \/ a = CaptureAttempts /\ call'[r] = [attempt |-> a, status |-> "failed"]

\* The step of a capture that is over, or under way, or that begins.
CaptureMoves(c) ==
    \/ at'[c] = at[c]
    \/ at[c] \in Active
    \/ /\ call[c[1]] = [attempt |-> c[2], status |-> "scheduled"]
       /\ call'[c[1]] # call[c[1]]

Moves ==
    /\ call' \in [Runs -> Record] /\ cut' \in SUBSET Captures /\ cut \subseteq cut'
    /\ at' \in [Captures -> {"none", "over"} \cup Active]
    /\ \A r \in Runs : RecordMoves(r)
    /\ \A c \in Captures : CaptureMoves(c)

LEMMA CutMoves ==
    ASSUME PreviewTypeOK, NEW c \in Captures, call[c[1]].attempt = c[2], Cuts(c),
           call[c[1]].status \in {"scheduled", "started"},
           at' \in [Captures -> {"none", "over"} \cup Active],
           \A d \in Captures : CaptureMoves(d)
    PROVE  Moves
<1>1. /\ call' \in [Runs -> Record] /\ cut' = cut \cup {c} /\ cut' \in SUBSET Captures
      /\ \A r \in Runs : r # c[1] => call'[r] = call[r]
      /\ \/ /\ c[2] < CaptureAttempts
            /\ call'[c[1]] = [attempt |-> c[2] + 1, status |-> "scheduled"]
         \/ /\ c[2] = CaptureAttempts
            /\ call'[c[1]] = [attempt |-> c[2], status |-> "failed"]
  BY CaptureCut
<1>2. c[1] \in Runs /\ c = <<c[1], c[2]>>
  BY DEF Captures
<1>3. <<c[1], call[c[1]].attempt>> \in cut'
  BY <1>1, <1>2
<1>4. RecordMoves(c[1])
  BY <1>1, <1>3 DEF RecordMoves
<1>5. \A r \in Runs : r # c[1] => RecordMoves(r)
  BY <1>1 DEF RecordMoves
<1> QED
  BY <1>1, <1>4, <1>5 DEF Moves

LEMMA ReturnMoves ==
    ASSUME PreviewTypeOK, NEW c \in Captures, at[c] \in Active, Returns(c)
    PROVE  Moves
<1>1. at' \in [Captures -> {"none", "over"} \cup Active] /\ \A d \in Captures : CaptureMoves(d)
  BY DEF Returns, Goes, PreviewTypeOK, CaptureMoves
<1>2. /\ call' \in [Runs -> Record] /\ UNCHANGED cut
      /\ \A r \in Runs : r # c[1] => call'[r] = call[r]
      /\ \/ call'[c[1]] = call[c[1]]
         \/ /\ call[c[1]] = [attempt |-> c[2], status |-> "started"]
            /\ call'[c[1]] = [attempt |-> c[2], status |-> "done"]
  BY CaptureReturns
<1>3. \A r \in Runs : RecordMoves(r)
  BY <1>2 DEF RecordMoves
<1>4. cut' \in SUBSET Captures /\ cut \subseteq cut'
  BY <1>2 DEF PreviewTypeOK
<1> QED
  BY <1>1, <1>2, <1>3, <1>4 DEF Moves

LEMMA PlaceMoves ==
    ASSUME PreviewTypeOK, UNCHANGED <<call, cut>>,
           \/ UNCHANGED at
           \/ \E c \in Captures, place \in {"over"} \cup Active : at[c] \in Active /\ Goes(c, place)
    PROVE  Moves
  BY DEF Moves, RecordMoves, CaptureMoves, Goes, PreviewTypeOK, Record

LEMMA EveryMove ==
    ASSUME PreviewTypeOK, [PreviewNext]_previewVars
    PROVE  Moves
<1>1. ASSUME NEW c \in Captures, Begin(c) PROVE Moves
  <2>1. c[1] \in Runs /\ c[2] \in Attempts /\ call \in [Runs -> Record]
    BY DEF Captures, PreviewTypeOK, Record
  <2>2. CASE Cuts(c) /\ Goes(c, "over")
    <3>1. at' \in [Captures -> {"none", "over"} \cup Active]
      BY <2>2 DEF Goes, PreviewTypeOK
    <3>2. call'[c[1]] # call[c[1]]
      <4>1. c[2] \in Nat /\ call[c[1]] = [attempt |-> c[2], status |-> "scheduled"]
        BY <1>1, <2>1, PreviewAssumption DEF Begin, Attempts, PreviewAssumption
      <4>2. \/ call'[c[1]] = [attempt |-> c[2] + 1, status |-> "scheduled"]
            \/ call'[c[1]] = [attempt |-> c[2], status |-> "failed"]
        BY <2>2, <4>1, CaptureCut
      <4> QED
        BY <4>1, <4>2
    <3>3. \A d \in Captures : CaptureMoves(d)
      BY <1>1, <2>2, <3>2 DEF Begin, Goes, PreviewTypeOK, CaptureMoves
    <3> QED
      BY <1>1, <2>2, <3>1, <3>3, CutMoves DEF Begin
  <2>3. CASE /\ call' = [call EXCEPT ![c[1]].status = "started"]
             /\ Goes(c, "checkout") /\ UNCHANGED cut
    <3>1. /\ [call[c[1]] EXCEPT !.status = "started"] = [attempt |-> c[2], status |-> "started"]
          /\ [attempt |-> c[2], status |-> "started"] \in Record
      BY <1>1, <2>1 DEF Begin, Record
    <3>2. call' = [call EXCEPT ![c[1]] = [attempt |-> c[2], status |-> "started"]]
      BY <2>3, <3>1
    <3>3. call' \in [Runs -> Record] /\ call'[c[1]] # call[c[1]] /\ \A r \in Runs : RecordMoves(r)
      BY <1>1, <2>1, <3>1, <3>2 DEF Begin, RecordMoves
    <3>4. at' \in [Captures -> {"none", "over"} \cup Active] /\ \A d \in Captures : CaptureMoves(d)
      BY <1>1, <2>3, <3>3 DEF Begin, Goes, Active, PreviewTypeOK, CaptureMoves
    <3> QED
      BY <2>3, <3>3, <3>4 DEF Moves, PreviewTypeOK
  <2> QED
    BY <1>1, <2>2, <2>3 DEF Begin
<1>2. ASSUME NEW c \in Captures, TimeOut(c) PROVE Moves
  <2>1. /\ call[c[1]].attempt = c[2] /\ call[c[1]].status = "started" /\ Cuts(c)
        /\ UNCHANGED at
    BY <1>2 DEF TimeOut, Awaited
  <2> QED
    BY <2>1, CutMoves DEF CaptureMoves, PreviewTypeOK
<1>3. ASSUME NEW c \in Captures, WorkerLost(c) PROVE Moves
  <2>1. at[c] \in Active /\ Goes(c, "over")
    BY <1>3 DEF WorkerLost
  <2>2. CASE Awaited(c)
    <3>1. call[c[1]].attempt = c[2] /\ call[c[1]].status = "started" /\ Cuts(c)
      BY <1>3, <2>2 DEF WorkerLost, Awaited
    <3>2. at' \in [Captures -> {"none", "over"} \cup Active] /\ \A d \in Captures : CaptureMoves(d)
      BY <2>1 DEF Goes, PreviewTypeOK, CaptureMoves
    <3> QED
      BY <3>1, <3>2, CutMoves
  <2>3. CASE ~Awaited(c)
    BY <1>3, <2>1, <2>3, PlaceMoves DEF WorkerLost
  <2> QED
    BY <2>2, <2>3
<1>4. ASSUME NEW c \in Captures, Capture(c) PROVE Moves
  <2>1. CASE Returns(c) /\ at[c] \in Active
    BY <2>1, ReturnMoves
  <2>2. CASE UNCHANGED <<call, cut>> /\ at[c] \in Active /\ \E place \in Active : Goes(c, place)
    BY <2>2, PlaceMoves
  <2>3. CASE UNCHANGED <<call, cut, at>>
    BY <2>3, PlaceMoves
  <2> QED
    BY <1>4, <2>1, <2>2, <2>3
       DEF Capture, Checkout, CheckoutFails, Up, AfterFailedUp, AwaitReady, SignUp, EndShoot,
           Down, Active, UpToDown
<1>5. ASSUME NEW c \in Captures, LateCommand(c) PROVE Moves
  BY <1>5, PlaceMoves DEF LateCommand
<1>6. CASE UNCHANGED previewVars
  BY <1>6, PlaceMoves DEF previewVars
<1> QED
  BY <1>1, <1>2, <1>3, <1>4, <1>5, <1>6 DEF PreviewNext

StackTypes ==
    /\ serves \in SUBSET Captures /\ data \in SUBSET Captures
    /\ clients \in SUBSET (Captures \X {"up", "down"}) /\ untidy \in SUBSET Captures

LEMMA StackTypesStep ==
    ASSUME PreviewTypeOK, [PreviewNext]_previewVars
    PROVE  StackTypes'
<1> USE DEF StackTypes
<1>0. StackTypes
  BY DEF PreviewTypeOK
<1>1. ASSUME NEW c \in Captures, Builds(c) PROVE serves' \in SUBSET Captures /\ data' \in SUBSET Captures
  BY <1>0, <1>1 DEF Builds
<1>2. ASSUME Removes PROVE serves' \in SUBSET Captures /\ data' \in SUBSET Captures
  BY <1>0, <1>2 DEF Removes
<1>3. ASSUME NEW c \in Captures, Begin(c) \/ TimeOut(c) \/ Checkout(c) \/ AwaitReady(c) \/ EndShoot(c)
      PROVE StackTypes'
  BY <1>0, <1>3 DEF Begin, TimeOut, Checkout, AwaitReady, EndShoot, compose
<1>4. ASSUME NEW c \in Captures, Up(c) PROVE StackTypes'
  <2>1. untidy' \in SUBSET Captures /\ clients' \in SUBSET (Captures \X {"up", "down"})
    BY <1>0, <1>4 DEF Up
  <2>2. serves' \in SUBSET Captures /\ data' \in SUBSET Captures
    BY <1>0, <1>1, <1>4 DEF Up
  <2> QED
    BY <2>1, <2>2
<1>5. ASSUME NEW c \in Captures, SignUp(c) PROVE StackTypes'
  BY <1>0, <1>5 DEF SignUp
<1>6. ASSUME NEW c \in Captures, Down(c) PROVE StackTypes'
  <2>1. untidy' \in SUBSET Captures /\ clients' \in SUBSET (Captures \X {"up", "down"})
    BY <1>0, <1>6 DEF Down
  <2>2. serves' \in SUBSET Captures /\ data' \in SUBSET Captures
    BY <1>0, <1>2, <1>6 DEF Down
  <2> QED
    BY <2>1, <2>2
<1>7. ASSUME NEW c \in Captures, WorkerLost(c) PROVE StackTypes'
  <2>1. untidy' \in SUBSET Captures /\ UNCHANGED <<serves, data>>
    BY <1>0, <1>7 DEF WorkerLost
  <2>2. clients' \in SUBSET (Captures \X {"up", "down"})
    BY <1>0, <1>7 DEF WorkerLost
  <2> QED
    BY <1>0, <2>1, <2>2
<1>8. ASSUME NEW c \in Captures, LateCommand(c) PROVE StackTypes'
  <2>1. UNCHANGED untidy /\ clients' \subseteq clients /\ (Builds(c) \/ Removes)
    BY <1>8 DEF LateCommand
  <2> QED
    BY <1>0, <1>1, <1>2, <2>1
<1>9. CASE UNCHANGED previewVars
  BY <1>0, <1>9 DEF previewVars
<1> QED
  BY <1>3, <1>4, <1>5, <1>6, <1>7, <1>8, <1>9 DEF PreviewNext, Capture

\* Every command, timeout and lost worker keeps the types: no run starts more
\* captures than its retry policy allows.
THEOREM PreviewTypesCorrect == PreviewSpec => []PreviewTypeOK
<1>1. PreviewInit => PreviewTypeOK
  BY PreviewAssumption DEF PreviewAssumption, PreviewInit, PreviewTypeOK, Attempts
<1>2. PreviewTypeOK /\ [PreviewNext]_previewVars => PreviewTypeOK'
  <2> SUFFICES ASSUME PreviewTypeOK, [PreviewNext]_previewVars PROVE PreviewTypeOK'
    OBVIOUS
  <2> QED
    BY EveryMove, StackTypesStep DEF Moves, StackTypes, Record, PreviewTypeOK
<1> QED
  BY <1>1, <1>2, PTL DEF PreviewSpec

\* A capture whose attempt is not started yet is nowhere, and a compose command
\* left to itself is one of an untidy capture.
Unbegun(c) ==
    \/ c[2] > call[c[1]].attempt
    \/ call[c[1]] = [attempt |-> c[2], status |-> "scheduled"]

BegunInv ==
    /\ \A c \in Captures : Unbegun(c) => at[c] = "none"
    /\ \A c \in Captures, command \in {"up", "down"} : <<c, command>> \in clients => c \in untidy

LEMMA BegunInvStep == PreviewTypeOK /\ BegunInv /\ [PreviewNext]_previewVars => BegunInv'
<1> SUFFICES ASSUME PreviewTypeOK, BegunInv, [PreviewNext]_previewVars PROVE BegunInv'
  OBVIOUS
<1>1. ASSUME NEW c \in Captures, Unbegun(c)' PROVE Unbegun(c) /\ at'[c] = at[c]
  <2>1. /\ c[1] \in Runs /\ c[2] \in Nat /\ call[c[1]] \in Record /\ call[c[1]].attempt \in Nat
    BY PreviewAssumption DEF PreviewAssumption, Captures, Attempts, PreviewTypeOK, Record
  <2>2. RecordMoves(c[1]) /\ CaptureMoves(c)
    BY <2>1, EveryMove DEF Moves
  <2>3. Unbegun(c) /\ (call[c[1]] = [attempt |-> c[2], status |-> "scheduled"] => call'[c[1]] = call[c[1]])
    BY <1>1, <2>1, <2>2 DEF Unbegun, RecordMoves, Record
  <2>4. at[c] = "none"
    BY <2>3 DEF BegunInv
  <2> QED
    BY <2>2, <2>3, <2>4 DEF CaptureMoves, Active, UpToDown
<1>2. ASSUME NEW c \in Captures, NEW command \in {"up", "down"}, <<c, command>> \in clients'
      PROVE  c \in untidy'
  <2> DEFINE Kept == clients' \subseteq clients /\ untidy \subseteq untidy'
             Left(d) == \E x \in {"up", "down"} :
                          clients' = clients \cup {<<d, x>>} /\ untidy' = untidy \cup {d}
  <2>1. Kept \/ \E d \in Captures : Left(d)
    <3>1. ASSUME NEW d \in Captures,
                 Begin(d) \/ TimeOut(d) \/ Checkout(d) \/ AwaitReady(d) \/ EndShoot(d)
          PROVE  Kept
      BY <3>1 DEF Begin, TimeOut, Checkout, AwaitReady, EndShoot, compose
    <3>2. ASSUME NEW d \in Captures, Up(d) \/ SignUp(d) \/ Down(d) PROVE Kept \/ Left(d)
      BY <3>2 DEF Up, SignUp, Down
    <3>3. ASSUME NEW d \in Captures, WorkerLost(d) PROVE Kept \/ Left(d)
      <4>1. CASE at[d] \in {"up", "down"}
        BY <3>3, <4>1 DEF WorkerLost, UpToDown
      <4>2. CASE at[d] \notin {"up", "down"}
        BY <3>3, <4>2 DEF WorkerLost
      <4> QED
        BY <4>1, <4>2
    <3>4. ASSUME NEW d \in Captures, LateCommand(d) PROVE Kept
      BY <3>4 DEF LateCommand
    <3>5. CASE UNCHANGED previewVars
      BY <3>5 DEF previewVars
    <3>6. CASE PreviewNext
      <4>1. PICK d \in Captures :
              Begin(d) \/ TimeOut(d) \/ WorkerLost(d) \/ Capture(d) \/ LateCommand(d)
        BY <3>6 DEF PreviewNext
      <4> HIDE DEF Kept, Left
      <4>2. Kept \/ Left(d)
        BY <4>1, <3>1, <3>2, <3>3, <3>4 DEF Capture
      <4> QED
        BY <4>2
    <3> QED
      BY <3>5, <3>6
  <2>2. CASE Kept
    BY <1>2, <2>2 DEF BegunInv
  <2>3. CASE \E d \in Captures : Left(d)
    <3>1. PICK d \in Captures, x \in {"up", "down"} :
            clients' = clients \cup {<<d, x>>} /\ untidy' = untidy \cup {d}
      BY <2>3
    <3>2. CASE <<c, command>> \in clients
      BY <3>1, <3>2 DEF BegunInv
    <3>3. CASE <<c, command>> = <<d, x>>
      BY <3>1, <3>3
    <3> QED
      BY <1>2, <3>1, <3>2, <3>3
  <2> QED
    BY <2>1, <2>2, <2>3
<1> QED
  BY <1>1, <1>2 DEF BegunInv

\* What is served and stored after a step was there before, or belongs to a
\* capture that is between `up` and `down`, or is untidy.
LEMMA AccountStep ==
    ASSUME PreviewTypeOK, BegunInv, StackAccountedFor, [PreviewNext]_previewVars
    PROVE  StackAccountedFor'
<1> DEFINE Accounted(c) == at[c] \in UpToDown \/ c \in untidy
<1>0. \A c \in serves \cup data : c \in Captures /\ Accounted(c)
  BY DEF StackAccountedFor, PreviewTypeOK
<1>k. ASSUME serves' \cup data' \subseteq serves \cup data,
             \A c \in Captures : Accounted(c) => Accounted(c)'
      PROVE  StackAccountedFor'
  BY <1>0, <1>k DEF StackAccountedFor
<1>p. ASSUME NEW d \in Captures, serves' \cup data' \subseteq serves \cup data \cup {d},
             \A c \in Captures : Accounted(c) => Accounted(c)', Accounted(d)'
      PROVE  StackAccountedFor'
  BY <1>0, <1>p DEF StackAccountedFor
<1>1. ASSUME NEW d \in Captures, Begin(d) PROVE StackAccountedFor'
  <2>1. at[d] = "none"
    BY <1>1 DEF Begin, BegunInv, Unbegun
  <2>2. \A c \in Captures : Accounted(c) => Accounted(c)'
    BY <1>1, <2>1 DEF Begin, Goes, compose, UpToDown, PreviewTypeOK
  <2> QED
    BY <1>1, <1>k, <2>2 DEF Begin, compose
<1>2. ASSUME NEW d \in Captures, TimeOut(d) PROVE StackAccountedFor'
  BY <1>2, <1>k DEF TimeOut, compose
<1>3. ASSUME NEW d \in Captures, Checkout(d) \/ AwaitReady(d) \/ EndShoot(d) PROVE StackAccountedFor'
  <2>1. \A c \in Captures : Accounted(c) => Accounted(c)'
    BY <1>3 DEF Checkout, CheckoutFails, Returns, AwaitReady, EndShoot, Goes, compose, UpToDown,
                PreviewTypeOK
  <2> QED
    BY <1>3, <1>k, <2>1 DEF Checkout, AwaitReady, EndShoot, compose
<1>4. ASSUME NEW d \in Captures, Up(d) PROVE StackAccountedFor'
  <2>1. \A c \in Captures : Accounted(c) => Accounted(c)'
    BY <1>4 DEF Up, AfterFailedUp, Goes, UpToDown, PreviewTypeOK
  <2>2. Accounted(d)'
    BY <1>4 DEF Up, AfterFailedUp, Goes, UpToDown, PreviewTypeOK
  <2>3. serves' \cup data' \subseteq serves \cup data \cup {d}
    BY <1>4 DEF Up, Builds
  <2> QED
    BY <1>p, <2>1, <2>2, <2>3
<1>5. ASSUME NEW d \in Captures, SignUp(d) PROVE StackAccountedFor'
  BY <1>5, <1>p DEF SignUp, UpToDown
<1>6. ASSUME NEW d \in Captures, Down(d) PROVE StackAccountedFor'
  <2>1. CASE serves' = {} /\ data' = {}
    BY <2>1 DEF StackAccountedFor
  <2>2. CASE untidy' = untidy \cup {d}
    <3>1. \A c \in Captures : Accounted(c) => Accounted(c)'
      BY <1>6, <2>2 DEF Down, Returns, Goes, UpToDown, PreviewTypeOK
    <3>2. serves' \cup data' \subseteq serves \cup data
      BY <1>6 DEF Down, Removes
    <3> QED
      BY <1>k, <3>1, <3>2
  <2> QED
    BY <1>6, <2>1, <2>2 DEF Down
<1>7. ASSUME NEW d \in Captures, WorkerLost(d) PROVE StackAccountedFor'
  <2>1. \A c \in Captures : Accounted(c) => Accounted(c)'
    BY <1>7 DEF WorkerLost, Goes, UpToDown, PreviewTypeOK
  <2> QED
    BY <1>7, <1>k, <2>1 DEF WorkerLost
<1>8. ASSUME NEW d \in Captures, LateCommand(d) PROVE StackAccountedFor'
  <2>1. /\ d \in untidy /\ UNCHANGED <<at, untidy>>
        /\ Builds(d) \/ Removes
    BY <1>8 DEF LateCommand, BegunInv
  <2>2. serves' \cup data' \subseteq serves \cup data \cup {d}
    BY <2>1 DEF Builds, Removes
  <2> QED
    BY <1>p, <2>1, <2>2
<1>9. CASE UNCHANGED previewVars
  BY <1>9, <1>k DEF previewVars
<1> QED
  BY <1>1, <1>2, <1>3, <1>4, <1>5, <1>6, <1>7, <1>8, <1>9 DEF PreviewNext, Capture

\* For any number of runs: what the stack serves and its database holds is of
\* captures under way, or of those that were lost, could not tear down, or left
\* a compose command to itself.
THEOREM LeftoversAccounted == PreviewSpec => []StackAccountedFor
<1>1. PreviewInit => BegunInv /\ StackAccountedFor
  BY DEF PreviewInit, BegunInv, StackAccountedFor
<1> QED
  BY <1>1, BegunInvStep, AccountStep, PreviewTypesCorrect, PTL DEF PreviewSpec

\* Only attempts that time out, die or get no profile are repeated, and can make
\* the activity, and the pod with it, fail.
THEOREM FailuresAreNotes == PreviewSpec => []FailureIsANote
<1>1. PreviewInit => FailureIsANote
  BY DEF PreviewInit, FailureIsANote
<1>2. PreviewTypeOK /\ FailureIsANote /\ [PreviewNext]_previewVars => FailureIsANote'
  <2> SUFFICES ASSUME PreviewTypeOK, FailureIsANote, [PreviewNext]_previewVars, NEW r \in Runs
               PROVE  /\ \A a \in 1 .. call'[r].attempt - 1 : <<r, a>> \in cut'
                      /\ call'[r].status = "failed" => <<r, CaptureAttempts>> \in cut'
    BY DEF FailureIsANote
  <2>1. RecordMoves(r) /\ cut \subseteq cut' /\ call[r].attempt \in Nat
    BY EveryMove, PreviewAssumption DEF Moves, PreviewAssumption, PreviewTypeOK, Attempts
  <2>2. /\ \A a \in 1 .. call[r].attempt - 1 : <<r, a>> \in cut'
        /\ call[r].status = "failed" => <<r, CaptureAttempts>> \in cut'
    BY <2>1 DEF FailureIsANote
  <2>3. \A a \in 1 .. (call[r].attempt + 1) - 1 : a = call[r].attempt \/ a \in 1 .. call[r].attempt - 1
    BY <2>1
  <2> QED
    BY <2>1, <2>2, <2>3 DEF RecordMoves
<1> QED
  BY <1>1, <1>2, PreviewTypesCorrect, PTL DEF PreviewSpec
=============================================================================
