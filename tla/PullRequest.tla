---------------------------- MODULE PullRequest ----------------------------
(***************************************************************************)
(* The outward effects of a run, command by command: open_pr, await_ci,    *)
(* update_pr and deploy (activities/coding_backed.py) over the PR targets  *)
(* (pr_target.py) and CI checkers (ci.py) of agents/coding.                *)
(*                                                                         *)
(* `step` is the activity that the pod, or for the deploy its parent,      *)
(* awaits; `cmd` is the command that the running attempt is about to run.  *)
(* An attempt may be lost before any command and before its answer is      *)
(* recorded (its worker dies, it exceeds its timeout, a command exceeds    *)
(* its own), and Temporal starts the next one from the first command, on   *)
(* whatever the lost one left on GitHub.  Attempts do not overlap: these   *)
(* activities block their worker's event loop, so that an attempt that     *)
(* runs late ends before the worker can start the next.                    *)
(*                                                                         *)
(* GitHub is external: a branch head, one PR, and the checks that CI       *)
(* registers for the head, early or late.                                  *)
(***************************************************************************)
EXTENDS Integers

CONSTANTS MaxAttempts,  \* maximum_attempts of DEFAULT_RETRY
          MaxCiFixes,   \* MAX_CI_FIX_PASSES
          Checks,       \* the checks that CI may run on a head
          Targets,      \* values of CODING_PR_TARGET
          DeployKinds   \* deploy kinds of the project profiles

ASSUME PrAssumption ==
    /\ MaxAttempts \in Nat \ {0} /\ MaxCiFixes \in Nat
    /\ Targets \subseteq {"local", "github"} /\ DeployKinds \subseteq {"merge", "open_pr"}

VARIABLES
    target, kind,       \* the configuration of the run
    step, cmd, attempt, \* where the run is
    refused,            \* history: did the environment fail a command of this attempt?
    reply,              \* what the attempt answers
    diff,               \* the number of the coding pass whose diff the pod holds
    ci,                 \* the last CI verdict
    branch,             \* GitHub: the diff at the branch's head, 0 without a branch
    pr, merged,         \* GitHub: the PR, and the diff that was merged
    checks              \* GitHub: the bucket of every check of the head

config == <<target, kind>>
github == <<branch, pr, merged, checks>>
vars == <<config, step, cmd, attempt, refused, reply, diff, ci, github>>

Activities == {"open_pr", "await_ci", "revise_after_ci", "update_pr", "deploy"}
Ended == {"done", "held", "ci_failed", "failed"}
Verdict == [passed : BOOLEAN, status : {"none", "unavailable", "passed", "failed"},
            of : 0 .. MaxCiFixes + 1, seen : SUBSET Checks]
NoVerdict == [passed |-> FALSE, status |-> "none", of |-> 0, seen |-> {}]
NoChecks == [c \in Checks |-> "absent"]

TypeOK ==
    /\ target \in Targets /\ kind \in DeployKinds
    /\ step \in Activities \cup Ended \cup {"deploy_approval"}
    /\ cmd \in {"clone", "probe", "push", "create", "poll", "view", "merge", "answer"}
    /\ attempt \in 1 .. MaxAttempts /\ refused \in BOOLEAN
    /\ reply \in Verdict /\ ci \in Verdict
    /\ diff \in 1 .. MaxCiFixes + 1
    /\ branch \in 0 .. diff /\ merged \in 0 .. branch
    /\ pr \in {"none", "open", "merged"}
    /\ checks \in [Checks -> {"absent", "pending", "pass", "fail", "cancel"}]

Init ==
    /\ target \in Targets /\ kind \in DeployKinds
    /\ step = "open_pr" /\ cmd = "clone" /\ attempt = 1
    /\ refused = FALSE /\ reply = NoVerdict /\ ci = NoVerdict
    /\ diff = 1 /\ branch = 0 /\ pr = "none" /\ merged = 0 /\ checks = NoChecks

-----------------------------------------------------------------------------
(* An attempt: the next command, or its answer                             *)

Run(command) ==
    /\ cmd' = command
    /\ UNCHANGED <<config, step, attempt, reply, diff, ci>>

\* opened, deployed or passed
Answer(ok) ==
    /\ cmd' = "answer" /\ reply' = [NoVerdict EXCEPT !.passed = ok]
    /\ UNCHANGED <<config, step, attempt, diff, ci>>

Refuse == refused' = TRUE /\ Answer(FALSE) /\ UNCHANGED github

\* The local target stops after the clone, or before it; nothing is pushed.
DryRun == target = "local" /\ Answer(TRUE) /\ UNCHANGED <<refused, github>>

\* _prepare_branch: clone, cut the branch, apply, commit.  No diff may apply.
PrepareBranch ==
    /\ step \in {"open_pr", "update_pr"} /\ cmd = "clone"
    /\ \/ Refuse
       \/ DryRun
       \/ /\ target = "github"
          /\ Run(IF step = "open_pr" THEN "probe" ELSE "push")
          /\ UNCHANGED <<refused, github>>

\* The idempotency probe: a PR of the branch, in any state, is the answer.  A
\* probe that fails looks like "no PR".
ExistingPr ==
    /\ step = "open_pr" /\ cmd = "probe"
    /\ \/ pr # "none" /\ Answer(TRUE) /\ UNCHANGED refused
       \/ pr = "none" /\ Run("push") /\ UNCHANGED refused
       \/ Run("push") /\ refused' = TRUE
    /\ UNCHANGED github

NewHead == branch' = diff /\ checks' = NoChecks /\ UNCHANGED <<pr, merged>>

\* A plain push of a new commit: the remote rejects it when the branch exists.
Push ==
    /\ step = "open_pr" /\ cmd = "push"
    /\ \/ branch # 0 /\ Answer(FALSE) /\ UNCHANGED <<refused, github>>
       \/ branch = 0 /\ NewHead /\ Run("create") /\ UNCHANGED refused
       \/ Refuse

CreatePr ==
    /\ step = "open_pr" /\ cmd = "create"
    /\ \/ Refuse
       \/ pr' = "open" /\ Answer(TRUE) /\ UNCHANGED <<refused, branch, merged, checks>>

\* update: whatever the branch holds is replaced.
ForcePush ==
    /\ step = "update_pr" /\ cmd = "push"
    /\ \/ Refuse
       \/ NewHead /\ Answer(TRUE) /\ UNCHANGED refused

-----------------------------------------------------------------------------
(* The CI checker                                                          *)

Conclude(passed, status) ==
    /\ cmd' = "answer"
    /\ reply' = [passed |-> passed, status |-> status, of |-> branch,
                 seen |-> {c \in Checks : checks[c] # "absent"}]
    /\ UNCHANGED <<config, step, attempt, refused, diff, ci, github>>

\* Without a real CI, or without a clone to ask it from, the gate is open.
CloneForCi ==
    /\ step = "await_ci" /\ cmd = "clone"
    /\ \/ Conclude(TRUE, "unavailable")
       \/ target = "github" /\ Run("poll") /\ UNCHANGED <<refused, github>>

\* Mutant: a check that is still running does not count.
SomeConcluded == \E c \in Checks : checks[c] \notin {"absent", "pending"}

\* Every check that has reported is done; those that come later are not known.
AllConcluded ==
    /\ \E c \in Checks : checks[c] # "absent"
    /\ \A c \in Checks : checks[c] # "pending"

\* One status read; one that fails, or finds a check running, changes nothing.
\* A cancelled or skipped check is no failure.
PollOnce ==
    /\ step = "await_ci" /\ cmd = "poll" /\ pr # "none"
    /\ AllConcluded
    /\ IF \E c \in Checks : checks[c] = "fail"
       THEN Conclude(FALSE, "failed") ELSE Conclude(TRUE, "passed")

\* Checks that stay pending until the deadline are a failure.
CiDeadline == step = "await_ci" /\ cmd = "poll" /\ Conclude(FALSE, "failed")

-----------------------------------------------------------------------------
(* The deploy                                                              *)

Merges == kind = "merge"

CloneForMerge ==
    /\ step = "deploy" /\ cmd = "clone"
    /\ \/ DryRun
       \/ ~Merges /\ Answer(TRUE) /\ UNCHANGED <<refused, github>>
       \/ Merges /\ target = "github" /\ Run("view") /\ UNCHANGED <<refused, github>>
       \/ Merges /\ target = "github" /\ Refuse

\* Mutant: the state of the PR is not read.
MergeUnseen ==
    /\ step = "deploy" /\ cmd = "view"
    /\ Run("merge") /\ UNCHANGED <<refused, github>>

\* A state that cannot be read looks like "not merged".
ViewPr ==
    /\ step = "deploy" /\ cmd = "view"
    /\ \/ pr = "merged" /\ Answer(TRUE) /\ UNCHANGED refused
       \/ pr # "merged" /\ Run("merge") /\ UNCHANGED refused
       \/ Run("merge") /\ refused' = TRUE
    /\ UNCHANGED github

\* GitHub does not merge twice: a second command is a no-op or an error.
MergePr ==
    /\ step = "deploy" /\ cmd = "merge"
    /\ \/ /\ pr = "open" /\ pr' = "merged" /\ merged' = branch
          /\ Answer(TRUE)
          /\ UNCHANGED <<refused, branch, checks>>
       \/ pr = "merged" /\ (Answer(TRUE) \/ Answer(FALSE)) /\ UNCHANGED <<refused, github>>
       \/ Refuse

-----------------------------------------------------------------------------
(* The run: answers are recorded, attempts get lost                        *)

\* The next activity starts its first attempt.
Start(next) ==
    /\ step' = next /\ cmd' = "clone" /\ attempt' = 1
    /\ refused' = FALSE /\ reply' = NoVerdict

\* Mutant: a fix pass too many.
MayFixOnceMore == diff <= MaxCiFixes + 1

MayFix == diff <= MaxCiFixes

Recorded ==
    /\ cmd = "answer"
    /\ \/ step = "open_pr" /\ Start(IF reply.passed THEN "await_ci" ELSE "ci_failed")
       \/ step = "update_pr" /\ Start("await_ci")
       \/ step = "await_ci" /\ Start(IF reply.passed THEN "deploy_approval"
                                     ELSE IF MayFix THEN "revise_after_ci" ELSE "ci_failed")
       \/ step = "deploy" /\ Start("done")
    /\ ci' = IF step = "await_ci" THEN reply ELSE ci
    /\ UNCHANGED <<config, diff, github>>

\* The coding pass of EngineeringPod, whatever becomes of it.
ReviseAfterCi ==
    /\ step = "revise_after_ci"
    /\ diff' = diff + 1
    /\ Start("update_pr")
    /\ UNCHANGED <<config, ci, github>>

AttemptLost ==
    /\ step \in Activities
    /\ IF attempt < MaxAttempts
       THEN cmd' = "clone" /\ attempt' = attempt + 1 /\ UNCHANGED step
       ELSE step' = "failed" /\ UNCHANGED <<cmd, attempt>>
    /\ refused' = FALSE /\ reply' = NoVerdict
    /\ UNCHANGED <<config, diff, ci, github>>

\* The parent's gate: approved, or declined, or not answered in time.
DeployGate ==
    /\ step = "deploy_approval"
    /\ Start("deploy") \/ Start("held")
    /\ UNCHANGED <<config, diff, ci, github>>

-----------------------------------------------------------------------------
(* CI, external: a check registers at any time, and concludes or never     *)

Register(c) ==
    /\ pr # "none" /\ checks[c] = "absent"
    /\ checks' = [checks EXCEPT ![c] = "pending"]

Finish(c) ==
    /\ checks[c] = "pending"
    /\ \E bucket \in {"pass", "fail", "cancel"} : checks' = [checks EXCEPT ![c] = bucket]

CiService ==
    /\ step \notin Ended
    /\ \E c \in Checks : Register(c) \/ Finish(c)
    /\ UNCHANGED <<config, step, cmd, attempt, refused, reply, diff, ci, branch, pr, merged>>

-----------------------------------------------------------------------------
Next ==
    \/ PrepareBranch \/ ExistingPr \/ Push \/ CreatePr \/ ForcePush
    \/ CloneForCi \/ PollOnce \/ CiDeadline
    \/ CloneForMerge \/ ViewPr \/ MergePr
    \/ Recorded \/ ReviseAfterCi \/ AttemptLost \/ DeployGate
    \/ CiService

Spec == Init /\ [][Next]_vars

-----------------------------------------------------------------------------
\* Whatever an earlier attempt did before it was lost, a later one that GitHub
\* answers takes the PR it finds for its own, and the merge it finds for done.
RetryConverges ==
    cmd = "answer" /\ ~reply.passed /\ ~refused =>
        /\ step = "open_pr" => pr = "none"
        /\ step = "deploy" => pr # "merged"

\* What is merged is the diff that CI judged last.  A check of it that failed
\* registered after the verdict, or CI could not be asked.
MergedAsJudged ==
    pr = "merged" =>
        /\ merged = branch /\ ci.passed /\ ci.of = merged
        /\ \A c \in ci.seen : checks[c] = "fail" => ci.status = "unavailable"

-----------------------------------------------------------------------------
(* What the run is told, activity by activity: CheckedPr.  Attempts, and   *)
(* the commands of one, are no steps of it.                                *)

PrStage ==
    CASE step = "open_pr" -> "coding"
      [] step = "await_ci" -> "checking"
      [] step = "revise_after_ci" -> "fixing"
      [] step = "update_pr" -> "pushing"
      [] step = "failed" -> "failed"
      [] OTHER -> "over"

\* The diff on the branch; the local target's is in a clone that is thrown away.
Held == IF target = "local" THEN diff ELSE branch

NotAsked == ci.status = "none"

\* What the branch holds is only known when the activity has answered.
HeadTold ==
    CASE step = "update_pr" -> ci.of
      [] step = "await_ci" -> Held
      [] OTHER -> IF NotAsked THEN 0 ELSE Held

VerdictTold ==
    IF NotAsked THEN [of |-> 0, status |-> IF step = "ci_failed" THEN "no_pr" ELSE "none"]
    ELSE [of |-> IF target = "local" THEN diff ELSE ci.of, status |-> ci.status]

Told ==
    IF step = "failed"
    THEN [diff |-> 0, head |-> 0, fixes |-> 0, verdict |-> [of |-> 0, status |-> "none"]]
    ELSE [diff |-> diff, head |-> HeadTold, verdict |-> VerdictTold,
          fixes |-> IF step = "revise_after_ci" THEN diff ELSE diff - 1]

Checked == INSTANCE CheckedPr WITH MaxFixes <- MaxCiFixes, stage <- PrStage, run <- Told

\* Whatever is lost between two commands and made again, on whatever the lost
\* attempt left: each activity comes to one step, the branch holds the diff the
\* run believes it holds, and a verdict is about that diff.
ImplementsCheckedPr == Checked!Spec
=============================================================================
