----------------------------- MODULE CheckedPr -----------------------------
(***************************************************************************)
(* What a run knows of its pull request, one activity at a time.           *)
(*                                                                         *)
(* engineering_pod.py awaits open_pr, await_ci and update_pr as if each     *)
(* happened at once: a diff is on the branch or it is not, and a verdict    *)
(* is about what the branch holds.  EngineeringPod is written that way.     *)
(* The activities are several commands each, of attempts that may be lost   *)
(* between any two of them and made again; PullRequest has those.  Both     *)
(* implement this module, with the real branch for `head` in PullRequest.   *)
(***************************************************************************)
EXTENDS Integers

CONSTANT MaxFixes   \* CI fixes a run may make

VARIABLES
    stage,  \* what the run is at
    run     \* the diff in hand, the diff on the branch of its PR (0 without
            \* a PR), the fixes it began, and the last verdict of CI

prVars == <<stage, run>>

NotAsked == [of |-> 0, status |-> "none"]

Begun(diff) == [diff |-> diff, head |-> 0, fixes |-> 0, verdict |-> NotAsked]

\* A run that failed hands nothing over.
Lost == Begun(0)

Init == stage = "coding" /\ run.diff \in Nat /\ run = Begun(run.diff)

\* A diff is replaced by that of another pass.
Recode ==
    /\ stage = "coding"
    /\ run' = [run EXCEPT !.diff = @ + 1]
    /\ UNCHANGED stage

\* The diff is on a branch with a PR, or the run ends without one.
Open ==
    /\ stage = "coding"
    /\ \/ stage' = "checking" /\ run' = [run EXCEPT !.head = run.diff]
       \/ /\ stage' = "over"
          /\ run' = [run EXCEPT !.verdict = [of |-> 0, status |-> "no_pr"]]

\* A verdict is about what the branch holds; a red one is answered by a fix as
\* long as there are fixes left.
Check ==
    /\ stage = "checking"
    /\ \E status \in {"passed", "failed", "unavailable"} :
        LET judged == [run EXCEPT !.verdict = [of |-> run.head, status |-> status]] IN
        IF status = "failed" /\ run.fixes < MaxFixes
        THEN stage' = "fixing" /\ run' = [judged EXCEPT !.fixes = @ + 1]
        ELSE stage' = "over" /\ run' = judged

Fix ==
    /\ stage = "fixing"
    /\ stage' = "pushing" /\ run' = [run EXCEPT !.diff = @ + 1]

\* The fix replaces what the branch holds, or leaves it; CI is asked again.
Push ==
    /\ stage = "pushing"
    /\ stage' = "checking"
    /\ \E head \in {run.head, run.diff} : run' = [run EXCEPT !.head = head]

Fail ==
    /\ stage # "failed"
    /\ stage' = "failed" /\ run' = Lost

Next == Recode \/ Open \/ Check \/ Fix \/ Push \/ Fail

Spec == Init /\ [][Next]_prVars
=============================================================================
