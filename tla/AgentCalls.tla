----------------------------- MODULE AgentCalls -----------------------------
(***************************************************************************)
(* A panel of reasoning activities, as the research child workflow fans it  *)
(* out: consumer_research.py gathers one activity per persona, common.py    *)
(* gives each its timeout and retry policy, the worker runs an attempt on a *)
(* thread of its pool, and there runner.py asks the provider and re-asks.   *)
(*                                                                         *)
(* These are synchronous functions that send no heartbeats: an attempt that *)
(* times out is not interrupted.  Temporal starts the next attempt while    *)
(* the old one still holds a thread, asks, pays, and returns to nobody.     *)
(***************************************************************************)
EXTENDS Integers, FiniteSets, FiniteSetsExt

CONSTANTS PanelSize,    \* personas
          MaxAttempts,  \* DEFAULT_RETRY.maximum_attempts
          MaxReask,     \* Persona.max_reask
          Threads       \* max_workers of the activity executor

ASSUME CallsAssumption ==
    /\ PanelSize \in Nat /\ MaxReask \in Nat
    /\ MaxAttempts \in Nat \ {0} /\ Threads \in Nat \ {0}

Panel == 1 .. PanelSize
Attempts == 1 .. MaxAttempts

VARIABLES
    pc,         \* ConsumerResearchWorkflow.run
    call,       \* Temporal's record of every activity
    exec,       \* what the worker does for every attempt
    finding,    \* the tokens of the finding that an activity returned
    report      \* the tokens of the report

vars == <<pc, call, exec, finding, report>>

Mendable == {"transient", "lost", "stopped"}
Final == {"gave_up", "permanent"}
Live == {"queued", "asking"}

TypeOK ==
    /\ pc \in {"research", "synthesize", "reported", "failed"}
    /\ call \in [Panel -> [attempt : Attempts,
                           status : {"scheduled", "started", "done", "failed"}]]
    /\ exec \in [Panel -> [Attempts ->
                   [state : {"none", "valid"} \cup Live \cup Mendable \cup Final,
                    answers : 0 .. MaxReask + 1, timedOut : BOOLEAN]]]
    /\ finding \in [Panel -> Nat] /\ report \in Nat

Init ==
    /\ pc = "research"
    /\ call = [p \in Panel |-> [attempt |-> 1, status |-> "scheduled"]]
    /\ exec = [p \in Panel |-> [a \in Attempts |->
                 [state |-> "none", answers |-> 0, timedOut |-> FALSE]]]
    /\ finding = [p \in Panel |-> 0] /\ report = 0

-----------------------------------------------------------------------------
(* Temporal: the record of an activity                                     *)

\* Does Temporal still wait for this attempt?
Awaited(p, a) == pc = "research" /\ call[p] = [attempt |-> a, status |-> "started"]

\* Mutant: the give-up of the runner is missing in the list.
GiveUpRetried(kind) == kind # "permanent"

\* non_retryable_error_types lists the give-up and the permanent client errors.
Retryable(kind) == kind \notin Final

\* An attempt failed: the next one is scheduled, unless that is pointless.
NextAttempt(p, kind) ==
    call' = [call EXCEPT ![p] =
        IF Retryable(kind) /\ @.attempt < MaxAttempts
        THEN [attempt |-> @.attempt + 1, status |-> "scheduled"]
        ELSE [@ EXCEPT !.status = "failed"]]

\* The worker takes the task; start-to-close runs from here.
Poll(p) ==
    /\ pc = "research" /\ call[p].status = "scheduled"
    /\ call' = [call EXCEPT ![p].status = "started"]
    /\ exec' = [exec EXCEPT ![p][call[p].attempt].state = "queued"]
    /\ UNCHANGED <<pc, finding, report>>

\* Mutant: there is no timeout.
Never(p) == FALSE

Overdue(p) == pc = "research" /\ call[p].status = "started"

\* Start-to-close: the thread is not told.
TimeOut(p) ==
    /\ Overdue(p)
    /\ exec' = [exec EXCEPT ![p][call[p].attempt].timedOut = TRUE]
    /\ NextAttempt(p, "transient")
    /\ UNCHANGED <<pc, finding, report>>

-----------------------------------------------------------------------------
(* The worker's threads, the runner, and the provider                      *)

Busy == Cardinality({pa \in Panel \X Attempts : exec[pa[1]][pa[2]].state = "asking"})

\* An attempt that waited for a thread starts, though it may have timed out.
Begin(p, a) ==
    /\ exec[p][a].state = "queued" /\ Busy < Threads
    /\ exec' = [exec EXCEPT ![p][a].state = "asking"]
    /\ UNCHANGED <<pc, call, finding, report>>

\* A schema-valid answer ends the attempt; the result has the tokens of all its
\* answers.
Answer(p, a) ==
    /\ exec[p][a].state = "asking"
    /\ exec' = [exec EXCEPT ![p][a].state = "valid", ![p][a].answers = @ + 1]
    /\ IF Awaited(p, a)
       THEN /\ call' = [call EXCEPT ![p].status = "done"]
            /\ finding' = [finding EXCEPT ![p] = exec[p][a].answers + 1]
       ELSE UNCHANGED <<call, finding>>
    /\ UNCHANGED <<pc, report>>

\* The attempt ends with an error, and its usage is lost with it.
Raises(p, a, kind, answers) ==
    /\ exec' = [exec EXCEPT ![p][a].state = kind, ![p][a].answers = answers]
    /\ IF Awaited(p, a) THEN NextAttempt(p, kind) ELSE UNCHANGED call
    /\ UNCHANGED <<pc, finding, report>>

\* Mutant: max_reask taken for the number of re-asks still allowed.
ReasksOnceMore(answers) == answers <= MaxReask + 1

Reasks(answers) == answers <= MaxReask

\* An answer that does not parse is paid, too, and asked again.
Malformed(p, a) ==
    /\ exec[p][a].state = "asking"
    /\ LET answers == exec[p][a].answers + 1 IN
       IF Reasks(answers)
       THEN /\ exec' = [exec EXCEPT ![p][a].answers = answers]
            /\ UNCHANGED <<pc, call, finding, report>>
       ELSE Raises(p, a, "gave_up", answers)

\* The call itself fails: overload, network, an empty response; or for good,
\* by a missing key, a refused one, or a request that the gateway rejects.
ProviderError(p, a) ==
    /\ exec[p][a].state = "asking"
    /\ \E kind \in {"transient", "permanent"} : Raises(p, a, kind, exec[p][a].answers)

\* The SDK may stop an attempt that nobody waits for, between two calls.
Stopped(p, a) ==
    /\ exec[p][a].state \in Live /\ ~Awaited(p, a)
    /\ exec' = [exec EXCEPT ![p][a].state = "stopped"]
    /\ UNCHANGED <<pc, call, finding, report>>

\* The worker process dies, and another one takes its place.
WorkerLost ==
    /\ \E p \in Panel, a \in Attempts : exec[p][a].state \in Live
    /\ exec' = [p \in Panel |-> [a \in Attempts |->
                  IF exec[p][a].state \in Live THEN [exec[p][a] EXCEPT !.state = "lost"]
                  ELSE exec[p][a]]]
    /\ UNCHANGED <<pc, call, finding, report>>

-----------------------------------------------------------------------------
(* consumer_research.py                                                    *)

\* Mutant: gather with return_exceptions, and the failures are not looked at.
AllEnded == \A p \in Panel : call[p].status \in {"done", "failed"}

AllAnswered == \A p \in Panel : call[p].status = "done"

\* gather: the first failure is the child's; the other attempts run on.
Gather ==
    /\ pc = "research"
    /\ \/ (\E p \in Panel : call[p].status = "failed") /\ pc' = "failed"
       \/ AllAnswered /\ pc' = "synthesize"
    /\ UNCHANGED <<call, exec, finding, report>>

\* What the personas' findings add up to.
Total(tokens) == MapThenSumSet(LAMBDA p : tokens[p], Panel)

\* Its own tokens, which are constant, are left out; there are no dollars in
\* a report.  The activity can be lost like any other.
Synthesize ==
    /\ pc = "synthesize"
    /\ \/ /\ pc' = "reported"
          /\ report' = Total(finding)
       \/ pc' = "failed" /\ UNCHANGED report
    /\ UNCHANGED <<call, exec, finding>>

-----------------------------------------------------------------------------
Attempt(p, a) ==
    Begin(p, a) \/ Answer(p, a) \/ Malformed(p, a) \/ ProviderError(p, a) \/ Stopped(p, a)

Temporal(p) == Poll(p) \/ TimeOut(p)

Workflow == Gather \/ Synthesize

Next ==
    \/ \E p \in Panel : Temporal(p) \/ \E a \in Attempts : Attempt(p, a)
    \/ WorkerLost
    \/ Workflow

Spec == Init /\ [][Next]_vars

\* A worker polls and workflow tasks are run; Temporal's timers fire.  A
\* provider may never answer, and a thread may never be free.
FairSpec == Spec /\ WF_vars(Workflow) /\ \A p \in Panel : WF_vars(Temporal(p))

-----------------------------------------------------------------------------
\* Whatever attempts, abandoned ones, and dying workers do in between, money
\* is only spent again on what a retry can mend: each attempt but the last
\* one timed out or hit a passing error, and an activity that failed had used
\* all its attempts, or met a give-up or a permanent error.
RetryPolicyKept ==
    \A p \in Panel :
        /\ \A a \in 1 .. call[p].attempt - 1 :
             exec[p][a].timedOut \/ exec[p][a].state \in Mendable
        /\ call[p].status = "failed" =>
             \/ call[p].attempt = MaxAttempts
             \/ exec[p][call[p].attempt].state \in Final

\* There is only a report when no persona failed for good, whatever the others
\* had found and paid by then.  It has the tokens of one attempt per persona, and
\* all of them: of the attempt that ended well in time, with its answers that did
\* not parse; not of an abandoned one that ends well too, before it or after it.
ReportCountsPanel ==
    pc = "reported" =>
        /\ \A p \in Panel : LET run == exec[p][call[p].attempt] IN
                            run.state = "valid" /\ ~run.timedOut
        /\ report = Total([p \in Panel |-> exec[p][call[p].attempt].answers])

\* Providers that hang, and threads that they hold, cannot hold the workflow.
Terminates == <>(pc \in {"reported", "failed"})
=============================================================================
