---------------------------- MODULE CodingSession ----------------------------
(***************************************************************************)
(* One coding activity (implement_stories or a revise) and its attempts:   *)
(* coding_backed.py over pod.py, the disposable workspace, and the coding  *)
(* agents.  What EngineeringPod takes for one step is here: a clone in a   *)
(* directory of its own, a session that edits and may commit, the diff     *)
(* against the pinned baseline, the target's tests, and the teardown.      *)
(*                                                                         *)
(* An attempt that times out goes on, in its own workspace, while the next *)
(* one runs on another worker, or on the same one when the first awaits.   *)
(* A container outlives the docker client that timed out: it goes on       *)
(* editing the workspace.                                                  *)
(*                                                                         *)
(* Files stand for groups of files: `Sources` are the project's, "cache"   *)
(* is in the git exclude file, "report" is what the tests leave behind.    *)
(* Every change is a change to the baseline: no file is put back.          *)
(***************************************************************************)
EXTENDS Integers

CONSTANTS MaxAttempts,  \* maximum_attempts of DEFAULT_RETRY
          Sources,      \* files that a session may change
          Agents        \* values of CODING_AGENT

ASSUME SessionAssumption ==
    /\ MaxAttempts \in Nat \ {0}
    /\ Sources \cap {"cache", "report"} = {}
    /\ Agents \subseteq {"mock", "claude_agent_sdk", "claude_container"}

Attempts == 1 .. MaxAttempts
Excluded == {"cache"}
Files == Sources \cup Excluded \cup {"report"}

VARIABLES
    agent, runnable,    \* the configuration: may the tests run in the sandbox?
    call,               \* Temporal's record of the activity
    at,                 \* where every attempt is, or how it ended
    ws,                 \* its workspace and what it made of it
    dir,                \* is its temporary directory there?
    straggler,          \* does its container still edit?
    late,               \* history: has it timed out?
    story               \* the StoryResult, and the attempt whose diff it has

config == <<agent, runnable>>
vars == <<config, call, at, ws, dir, straggler, late, story>>

Running == {"enter", "session", "diff", "tests", "leaving", "unwinding"}
Over == {"no_profile", "not_entered", "returned", "raced", "cancelled", "lost"}

\* `edited` and `kept` are history: what the session changed, and what of it
\* was there when the session ended.
Workspace == [tree : SUBSET Files, head : SUBSET Files, diff : SUBSET Files,
              git : BOOLEAN, passed : BOOLEAN, edited : SUBSET Files, kept : SUBSET Files]

TypeOK ==
    /\ agent \in Agents /\ runnable \in BOOLEAN
    /\ call \in [attempt : Attempts, status : {"scheduled", "started", "done", "failed"}]
    /\ at \in [Attempts -> {"none"} \cup Running \cup Over]
    /\ ws \in [Attempts -> Workspace]
    /\ dir \in [Attempts -> BOOLEAN] /\ straggler \in [Attempts -> BOOLEAN]
    /\ late \in [Attempts -> BOOLEAN]
    /\ story \in [status : {"none", "done", "failed"}, of : 0 .. MaxAttempts]

Untouched == [tree |-> {}, head |-> {}, diff |-> {}, git |-> TRUE, passed |-> FALSE,
              edited |-> {}, kept |-> {}]

Init ==
    /\ agent \in Agents /\ runnable \in BOOLEAN
    /\ call = [attempt |-> 1, status |-> "scheduled"]
    /\ at = [a \in Attempts |-> "none"]
    /\ ws = [a \in Attempts |-> Untouched]
    /\ dir = [a \in Attempts |-> FALSE] /\ straggler = [a \in Attempts |-> FALSE]
    /\ late = [a \in Attempts |-> FALSE]
    /\ story = [status |-> "none", of |-> 0]

-----------------------------------------------------------------------------
(* Temporal                                                                *)

Awaited(a) == call = [attempt |-> a, status |-> "started"]

MoreAttempts == call.attempt < MaxAttempts

\* The awaited attempt failed.
NextAttempt ==
    call' = IF MoreAttempts THEN [attempt |-> call.attempt + 1, status |-> "scheduled"]
            ELSE [call EXCEPT !.status = "failed"]

\* Attempt a ends without a result.
Fails(a) == IF Awaited(a) THEN NextAttempt ELSE UNCHANGED call

Goes(a, place) == at' = [at EXCEPT ![a] = place]

\* The profile is loaded outside the `try`.
Begin(a) ==
    /\ call = [attempt |-> a, status |-> "scheduled"]
    /\ \/ Goes(a, "enter") /\ call' = [call EXCEPT !.status = "started"]
       \/ Goes(a, "no_profile") /\ NextAttempt
    /\ UNCHANGED <<config, ws, dir, straggler, late, story>>

\* Start-to-close has passed; the attempt does not learn of it.
TimeOut(a) ==
    /\ Awaited(a)
    /\ late' = [late EXCEPT ![a] = TRUE]
    /\ NextAttempt
    /\ UNCHANGED <<config, at, ws, dir, straggler, story>>

\* The worker dies.
WorkerLost(a) ==
    /\ at[a] \in Running
    /\ Goes(a, "lost")
    /\ ws' = [ws EXCEPT ![a] = Untouched]
    /\ straggler' = [straggler EXCEPT ![a] = FALSE]
    /\ Fails(a)
    /\ UNCHANGED <<config, dir, late, story>>

-----------------------------------------------------------------------------
(* The result                                                              *)

Reports(status, a) ==
    /\ call' = [call EXCEPT !.status = "done"]
    /\ story' = [status |-> status, of |-> a]

\* Mutant: the error is raised, and Temporal retries.
RaiseThrough(a) == Fails(a) /\ UNCHANGED story

\* The cost guard: an error becomes a failed story, without a diff.
FailedStory(a) ==
    IF Awaited(a) THEN Reports("failed", 0) ELSE UNCHANGED <<call, story>>

\* "done" takes a verdict that is no failure and a diff that is not empty.  The
\* text of a git error counts as a diff.
Result(a) ==
    IF Awaited(a)
    THEN Reports(IF ws[a].passed /\ (ws[a].diff # {} \/ ~ws[a].git) THEN "done" ELSE "failed", a)
    ELSE UNCHANGED <<call, story>>

-----------------------------------------------------------------------------
(* The workspace                                                           *)

\* mkdtemp and a clone.  A clone that fails is noticed by the git command that
\* follows, in __enter__, so that __exit__ never runs.
Enter(a) ==
    /\ at[a] = "enter"
    /\ dir' = [dir EXCEPT ![a] = TRUE]
    /\ \/ Goes(a, "session") /\ UNCHANGED <<call, story>>
       \/ Goes(a, "not_entered") /\ FailedStory(a)
    /\ UNCHANGED <<config, ws, straggler, late>>

\* Mutant: the diff of what is not committed.
DiffOfHead(a) == (ws[a].tree \ Excluded) \ ws[a].head

\* Stage everything, and compare the index with the pinned baseline.
Diff(a) == ws[a].tree \ Excluded

\* git fails on the index of a container that is still at work.
TakeDiff(a) ==
    /\ at[a] = "diff"
    /\ \/ ws' = [ws EXCEPT ![a].diff = Diff(a)]
       \/ straggler[a] /\ ws' = [ws EXCEPT ![a].git = FALSE]
    /\ Goes(a, "tests")
    /\ UNCHANGED <<config, call, dir, straggler, late, story>>

\* The target's tests, whatever they write; or an honest "unavailable".
RunQa(a) ==
    /\ at[a] = "tests"
    /\ \/ /\ runnable
          /\ \E passed \in BOOLEAN, written \in SUBSET {"report"} :
               ws' = [ws EXCEPT ![a].passed = passed, ![a].tree = @ \cup written]
       \/ ~runnable /\ ws' = [ws EXCEPT ![a].passed = TRUE]
    /\ Goes(a, "leaving")
    /\ UNCHANGED <<config, call, dir, straggler, late, story>>

\* Mutant: no `with`: the workspace is only removed when all went well.
CleansAfterSuccess(a) == at[a] = "leaving"

Cleans(a) == TRUE

\* __exit__.  Errors of the removal are ignored: it may leave a directory that
\* a container still writes to.
TearDown(a) ==
    \/ dir' = [dir EXCEPT ![a] = ~Cleans(a)] /\ Goes(a, "returned")
    \/ straggler[a] /\ UNCHANGED dir /\ Goes(a, "raced")

\* What is not handed up is forgotten.
Leave(a) ==
    /\ at[a] \in {"leaving", "unwinding"}
    /\ TearDown(a)
    /\ IF at[a] = "leaving" THEN Result(a) ELSE FailedStory(a)
    /\ ws' = IF story' # story /\ story'.of = a THEN ws ELSE [ws EXCEPT ![a] = Untouched]
    /\ straggler' = [straggler EXCEPT ![a] = FALSE]
    /\ UNCHANGED <<config, late>>

\* An error between __enter__ and __exit__: a session that cannot be prepared,
\* an edit of the mock agent, git or the tests beyond ten minutes.
Raises(a) ==
    /\ \/ at[a] = "session" /\ (agent = "mock" \/ ws[a].edited = {})
       \/ at[a] = "diff"
       \/ at[a] = "tests" /\ runnable
    /\ Goes(a, "unwinding")
    /\ UNCHANGED <<config, call, ws, dir, straggler, late, story>>

\* The worker shuts down.  The error is no Exception: the workspace is removed
\* and the attempt fails.  Only the session of the SDK awaits anything.
Cancelled(a) ==
    /\ at[a] = "session" /\ agent = "claude_agent_sdk"
    /\ Goes(a, "cancelled")
    /\ dir' = [dir EXCEPT ![a] = FALSE]
    /\ ws' = [ws EXCEPT ![a] = Untouched]
    /\ Fails(a)
    /\ UNCHANGED <<config, straggler, late, story>>

-----------------------------------------------------------------------------
(* The session                                                             *)

\* The session, or what is left of it, changes a file.
Edit(a) ==
    /\ at[a] = "session" \/ straggler[a]
    /\ \E f \in IF agent = "mock" THEN Sources ELSE Sources \cup Excluded :
         ws' = [ws EXCEPT ![a].tree = @ \cup {f}, ![a].edited = @ \cup {f}]
    /\ UNCHANGED <<config, call, at, dir, straggler, late, story>>

\* The lead commits a story it accepts; any other session should not, but may.
Checkpoint(a) ==
    /\ at[a] = "session" \/ straggler[a]
    /\ agent # "mock"
    /\ ws' = [ws EXCEPT ![a].head = ws[a].tree \ Excluded]
    /\ UNCHANGED <<config, call, at, dir, straggler, late, story>>

\* It ends, at a cap or at its own end: the difference is in the summary and in
\* the cost.  A container that is over its time is not stopped.
SessionEnds(a) ==
    /\ at[a] = "session"
    /\ Goes(a, "diff")
    /\ ws' = [ws EXCEPT ![a].kept = ws[a].tree]
    /\ \/ UNCHANGED straggler
       \/ agent = "claude_container" /\ straggler' = [straggler EXCEPT ![a] = TRUE]
    /\ UNCHANGED <<config, call, dir, late, story>>

ContainerEnds(a) ==
    /\ straggler[a]
    /\ straggler' = [straggler EXCEPT ![a] = FALSE]
    /\ UNCHANGED <<config, call, at, ws, dir, late, story>>

-----------------------------------------------------------------------------
Activity(a) ==
    \/ Enter(a) \/ TakeDiff(a) \/ RunQa(a) \/ Raises(a) \/ Leave(a)

Session(a) ==
    \/ Edit(a) \/ Checkpoint(a) \/ SessionEnds(a) \/ ContainerEnds(a) \/ Cancelled(a)

Next ==
    \E a \in Attempts :
        Begin(a) \/ TimeOut(a) \/ WorkerLost(a) \/ Activity(a) \/ Session(a)

Spec == Init /\ [][Next]_vars

-----------------------------------------------------------------------------
\* The diff that is handed up has all that its own session made of the
\* sources, committed or not, stopped early or not, and nothing else: no
\* artifact, nothing the tests wrote, nothing of another attempt that still
\* runs.  Only a container over its time may add to it, or make git fail.
HandsUpWork ==
    \A a \in Attempts : at[a] = "leaving" \/ story.of = a =>
        /\ ws[a].diff \subseteq ws[a].edited \ Excluded
        /\ ws[a].git => ws[a].kept \ Excluded \subseteq ws[a].diff

\* "Critical cost guard": a session is only paid again when its attempt was
\* lost, cancelled or late; whatever went wrong otherwise is a failed story.
CostGuard ==
    \A a \in 1 .. call.attempt - 1 :
        at[a] \in {"no_profile", "lost", "cancelled"} \/ late[a]

\* "Always torn down": a directory stays behind only where the worker died, the
\* clone failed, or a container still wrote to it.
LeftBehind ==
    \A a \in Attempts :
        dir[a] /\ at[a] \in Over => at[a] \in {"lost", "not_entered", "raced"}
=============================================================================
