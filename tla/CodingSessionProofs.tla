------------------------ MODULE CodingSessionProofs ------------------------
(***************************************************************************)
(* Theorems about CodingSession for any number of attempts, any sources    *)
(* and any agents.                                                         *)
(***************************************************************************)
EXTENDS CodingSession, TLAPS

Calls == [attempt : Attempts, status : {"scheduled", "started", "done", "failed"}]

-----------------------------------------------------------------------------
(* Types                                                                   *)

LEMMA UntouchedTypes == Untouched \in Workspace
  BY DEF Untouched, Workspace

LEMMA WorkspaceFields ==
    ASSUME NEW r \in Workspace
    PROVE /\ r.tree \in SUBSET Files /\ r.head \in SUBSET Files /\ r.diff \in SUBSET Files
          /\ r.edited \in SUBSET Files /\ r.kept \in SUBSET Files
  BY DEF Workspace

LEMMA WorkspaceUpdates ==
    ASSUME NEW r \in Workspace, NEW files \in SUBSET Files, NEW b \in BOOLEAN
    PROVE /\ [r EXCEPT !.tree = files] \in Workspace
          /\ [r EXCEPT !.head = files] \in Workspace
          /\ [r EXCEPT !.diff = files] \in Workspace
          /\ [r EXCEPT !.kept = files] \in Workspace
          /\ [r EXCEPT !.edited = files] \in Workspace
          /\ [r EXCEPT !.git = b] \in Workspace
          /\ [r EXCEPT !.passed = b] \in Workspace
  BY DEF Workspace

LEMMA NextAttemptTypes ==
    ASSUME TypeOK, NextAttempt
    PROVE call' \in Calls
<1>1. call \in Calls /\ call.attempt \in Attempts
  BY DEF TypeOK, Calls
<1>2. CASE MoreAttempts
  <2>1. call.attempt + 1 \in Attempts
    BY <1>1, <1>2, SessionAssumption DEF MoreAttempts, Attempts, SessionAssumption
  <2> QED
    BY <1>2, <2>1 DEF NextAttempt, Calls
<1>3. CASE ~MoreAttempts
  BY <1>1, <1>3 DEF NextAttempt, Calls
<1> QED
  BY <1>2, <1>3

LEMMA FailsTypes ==
    ASSUME TypeOK, NEW a \in Attempts, Fails(a)
    PROVE call' \in Calls
  BY NextAttemptTypes DEF Fails, TypeOK, Calls

LEMMA ReportTypes ==
    ASSUME TypeOK, NEW a \in Attempts, FailedStory(a) \/ Result(a)
    PROVE call' \in Calls /\ story' \in [status : {"none", "done", "failed"}, of : 0 .. MaxAttempts]
<1>1. a \in 0 .. MaxAttempts /\ 0 \in 0 .. MaxAttempts
  BY SessionAssumption DEF SessionAssumption, Attempts
<1>2. [call EXCEPT !.status = "done"] \in Calls
  BY DEF TypeOK, Calls
<1> QED
  BY <1>1, <1>2 DEF FailedStory, Result, Reports, TypeOK, Calls

LEMMA TypeOKStep == TypeOK /\ [Next]_vars => TypeOK'
<1> SUFFICES ASSUME TypeOK, [Next]_vars PROVE TypeOK'
  OBVIOUS
<1> USE DEF config
<1>0. ASSUME NEW a \in Attempts PROVE ws[a] \in Workspace
  BY DEF TypeOK
<1>1. ASSUME NEW a \in Attempts, Begin(a) PROVE TypeOK'
  <2>1. call' \in Calls
    BY <1>1, NextAttemptTypes DEF Begin, TypeOK, Calls
  <2>2. at' \in [Attempts -> {"none"} \cup Running \cup Over]
    BY <1>1 DEF Begin, Goes, Running, Over, TypeOK
  <2> QED
    BY <1>1, <2>1, <2>2 DEF Begin, TypeOK, Calls
<1>2. ASSUME NEW a \in Attempts, TimeOut(a) PROVE TypeOK'
  BY <1>2, NextAttemptTypes DEF TimeOut, TypeOK, Calls
<1>3. ASSUME NEW a \in Attempts, WorkerLost(a) PROVE TypeOK'
  BY <1>3, FailsTypes, UntouchedTypes DEF WorkerLost, Goes, Over, TypeOK, Calls
<1>4. ASSUME NEW a \in Attempts, Enter(a) PROVE TypeOK'
  <2>1. call' \in Calls /\ story' \in [status : {"none", "done", "failed"}, of : 0 .. MaxAttempts]
    BY <1>4, ReportTypes DEF Enter, TypeOK, Calls
  <2>2. at' \in [Attempts -> {"none"} \cup Running \cup Over]
    BY <1>4 DEF Enter, Goes, Running, Over, TypeOK
  <2> QED
    BY <1>4, <2>1, <2>2 DEF Enter, TypeOK, Calls
<1>5. ASSUME NEW a \in Attempts, TakeDiff(a) PROVE TypeOK'
  <2>1. [ws[a] EXCEPT !.diff = Diff(a)] \in Workspace /\ [ws[a] EXCEPT !.git = FALSE] \in Workspace
    BY <1>0, WorkspaceFields, WorkspaceUpdates DEF Diff
  <2>2. ws' \in [Attempts -> Workspace]
    BY <1>5, <2>1 DEF TakeDiff, TypeOK
  <2> QED
    BY <1>5, <2>2 DEF TakeDiff, Goes, Running, TypeOK
<1>6. ASSUME NEW a \in Attempts, RunQa(a) PROVE TypeOK'
  <2>1. PICK passed \in BOOLEAN, files \in SUBSET Files :
          \/ ws' = [ws EXCEPT ![a] = [[ws[a] EXCEPT !.passed = passed] EXCEPT !.tree = files]]
          \/ ws' = [ws EXCEPT ![a] = [ws[a] EXCEPT !.passed = TRUE]]
    <3>1. CASE runnable
      <4>1. PICK passed \in BOOLEAN, written \in SUBSET {"report"} :
              ws' = [ws EXCEPT ![a].passed = passed, ![a].tree = @ \cup written]
        BY <1>6, <3>1 DEF RunQa
      <4>2. ws[a].tree \cup written \in SUBSET Files
        BY <1>0, WorkspaceFields DEF Files
      <4>3. ws' = [ws EXCEPT ![a] = [[ws[a] EXCEPT !.passed = passed] EXCEPT !.tree = ws[a].tree \cup written]]
        BY <1>0, <4>1 DEF TypeOK, Workspace
      <4> QED
        BY <4>2, <4>3
    <3>2. CASE ~runnable
      BY <1>6, <3>2 DEF RunQa
    <3> QED
      BY <3>1, <3>2
  <2>2. /\ [[ws[a] EXCEPT !.passed = passed] EXCEPT !.tree = files] \in Workspace
        /\ [ws[a] EXCEPT !.passed = TRUE] \in Workspace
    BY <1>0, WorkspaceUpdates
  <2>3. ws' \in [Attempts -> Workspace]
    BY <2>1, <2>2 DEF TypeOK
  <2> QED
    BY <1>6, <2>3 DEF RunQa, Goes, Running, TypeOK
<1>7. ASSUME NEW a \in Attempts, Raises(a) PROVE TypeOK'
  BY <1>7 DEF Raises, Goes, Running, TypeOK
<1>8. ASSUME NEW a \in Attempts, Leave(a) PROVE TypeOK'
  <2>1. call' \in Calls /\ story' \in [status : {"none", "done", "failed"}, of : 0 .. MaxAttempts]
    BY <1>8, ReportTypes DEF Leave
  <2>2. dir' \in [Attempts -> BOOLEAN] /\ at' \in [Attempts -> {"none"} \cup Running \cup Over]
    BY <1>8 DEF Leave, TearDown, Cleans, Goes, Over, TypeOK
  <2>3. ws' \in [Attempts -> Workspace]
    BY <1>8, UntouchedTypes DEF Leave, TypeOK
  <2> QED
    BY <1>8, <2>1, <2>2, <2>3 DEF Leave, TypeOK, Calls
<1>9. ASSUME NEW a \in Attempts, Edit(a) PROVE TypeOK'
  <2>1. PICK f \in Sources \cup Excluded :
          ws' = [ws EXCEPT ![a].tree = @ \cup {f}, ![a].edited = @ \cup {f}]
    BY <1>9 DEF Edit
  <2>2. ws[a].tree \cup {f} \in SUBSET Files /\ ws[a].edited \cup {f} \in SUBSET Files
    BY <1>0, WorkspaceFields DEF Files
  <2>3. ws' = [ws EXCEPT ![a] = [[ws[a] EXCEPT !.tree = ws[a].tree \cup {f}]
                                    EXCEPT !.edited = ws[a].edited \cup {f}]]
    BY <1>0, <2>1 DEF TypeOK, Workspace
  <2>4. ws' \in [Attempts -> Workspace]
    BY <1>0, <2>2, <2>3, WorkspaceUpdates DEF TypeOK
  <2> QED
    BY <1>9, <2>4 DEF Edit, TypeOK
<1>10. ASSUME NEW a \in Attempts, Checkpoint(a) PROVE TypeOK'
  <2>1. [ws[a] EXCEPT !.head = ws[a].tree \ Excluded] \in Workspace
    BY <1>0, WorkspaceFields, WorkspaceUpdates
  <2>2. ws' \in [Attempts -> Workspace]
    BY <1>10, <2>1 DEF Checkpoint, TypeOK
  <2> QED
    BY <1>10, <2>2 DEF Checkpoint, TypeOK
<1>11. ASSUME NEW a \in Attempts, SessionEnds(a) PROVE TypeOK'
  <2>1. [ws[a] EXCEPT !.kept = ws[a].tree] \in Workspace
    BY <1>0, WorkspaceFields, WorkspaceUpdates
  <2>2. ws' \in [Attempts -> Workspace]
    BY <1>11, <2>1 DEF SessionEnds, TypeOK
  <2>3. straggler' \in [Attempts -> BOOLEAN]
    BY <1>11 DEF SessionEnds, TypeOK
  <2> QED
    BY <1>11, <2>2, <2>3 DEF SessionEnds, Goes, Running, TypeOK
<1>12. ASSUME NEW a \in Attempts, ContainerEnds(a) PROVE TypeOK'
  BY <1>12 DEF ContainerEnds, TypeOK
<1>13. ASSUME NEW a \in Attempts, Cancelled(a) PROVE TypeOK'
  BY <1>13, FailsTypes, UntouchedTypes DEF Cancelled, Goes, Over, TypeOK, Calls
<1>14. CASE UNCHANGED vars
  BY <1>14 DEF vars, TypeOK
<1> QED
  BY <1>1, <1>2, <1>3, <1>4, <1>5, <1>6, <1>7, <1>8, <1>9, <1>10, <1>11, <1>12, <1>13, <1>14
     DEF Next, Activity, Session

\* Every step of Temporal, the activity and the session keeps the types: a
\* coding activity is attempted MaxAttempts times at most.
THEOREM TypeCorrect == Spec => []TypeOK
<1>1. Init => TypeOK
  BY SessionAssumption DEF SessionAssumption, Init, TypeOK, Attempts, Untouched, Workspace
<1> QED
  BY <1>1, TypeOKStep, PTL DEF Spec

-----------------------------------------------------------------------------
(* The cost guard                                                          *)

LEMMA CostGuardStep == TypeOK /\ CostGuard /\ [Next]_vars => CostGuard'
<1> SUFFICES ASSUME TypeOK, CostGuard, [Next]_vars,
                    NEW b \in 1 .. call'.attempt - 1
             PROVE at'[b] \in {"no_profile", "lost", "cancelled"} \/ late'[b]
  BY DEF CostGuard
<1> DEFINE Excused == at[b] \in {"no_profile", "lost", "cancelled"} \/ late[b]
<1>0. /\ call.attempt \in Nat /\ call.attempt <= MaxAttempts /\ MaxAttempts \in Nat
      /\ b \in 1 .. call.attempt - 1 => Excused
  BY SessionAssumption DEF TypeOK, CostGuard, Attempts, SessionAssumption
<1>1. ASSUME call' = call \/ call' = [call EXCEPT !.status = "started"]
                          \/ call' = [call EXCEPT !.status = "done"],
             at'[b] = at[b] \/ at[b] \notin {"no_profile", "lost", "cancelled"},
             late' = late
      PROVE at'[b] \in {"no_profile", "lost", "cancelled"} \/ late'[b]
  <2>1. call'.attempt = call.attempt
    BY <1>1 DEF TypeOK
  <2> QED
    BY <1>0, <1>1, <2>1
<1>2. ASSUME NextAttempt PROVE b \in 1 .. call.attempt - 1 \/ b = call.attempt
  <2>1. call'.attempt = call.attempt \/ call'.attempt = call.attempt + 1
    BY <1>2 DEF NextAttempt, TypeOK
  <2> QED
    BY <1>0, <2>1
<1>3. b \in Attempts \/ ~(b \in 1 .. call.attempt - 1 \/ b = call.attempt)
  BY <1>0 DEF Attempts
<1>4. ASSUME NEW a \in Attempts, Begin(a)
      PROVE at'[b] \in {"no_profile", "lost", "cancelled"} \/ late'[b]
  <2>1. a = call.attempt /\ late' = late
    BY <1>4 DEF Begin
  <2>2. CASE Goes(a, "enter") /\ call' = [call EXCEPT !.status = "started"]
    <3>1. b \in 1 .. call.attempt - 1
      BY <2>2 DEF TypeOK
    <3>2. b # a
      BY <1>0, <2>1, <3>1
    <3>3. at'[b] = at[b]
      BY <1>3, <2>2, <3>1, <3>2 DEF Goes, TypeOK
    <3> QED
      BY <1>0, <2>1, <3>1, <3>3
  <2>3. CASE Goes(a, "no_profile") /\ NextAttempt
    <3>1. at'[b] = IF b = a THEN "no_profile" ELSE at[b]
      BY <1>2, <1>3, <2>3 DEF Goes, TypeOK
    <3> QED
      BY <1>0, <1>2, <2>1, <2>3, <3>1
  <2> QED
    BY <1>4, <2>2, <2>3 DEF Begin
<1>5. ASSUME NEW a \in Attempts, TimeOut(a)
      PROVE at'[b] \in {"no_profile", "lost", "cancelled"} \/ late'[b]
  <2>1. a = call.attempt /\ at' = at
    BY <1>5 DEF TimeOut, Awaited
  <2>2. late'[b] = IF b = a THEN TRUE ELSE late[b]
    BY <1>2, <1>3, <1>5 DEF TimeOut, TypeOK
  <2> QED
    BY <1>0, <1>2, <1>5, <2>1, <2>2 DEF TimeOut
<1>6. ASSUME NEW a \in Attempts, Fails(a), late' = late,
             NEW end \in {"lost", "cancelled"}, Goes(a, end)
      PROVE at'[b] \in {"no_profile", "lost", "cancelled"} \/ late'[b]
  <2>1. CASE Awaited(a)
    <3>1. a = call.attempt /\ NextAttempt
      BY <1>6, <2>1 DEF Fails, Awaited
    <3>2. at'[b] = IF b = a THEN end ELSE at[b]
      BY <1>2, <1>3, <1>6, <3>1 DEF Goes, TypeOK
    <3> QED
      BY <1>0, <1>2, <1>6, <3>1, <3>2
  <2>2. CASE ~Awaited(a)
    <3>1. call' = call
      BY <1>6, <2>2 DEF Fails
    <3>2. at'[b] = IF b = a THEN end ELSE at[b]
      BY <1>3, <1>6, <3>1 DEF Goes, TypeOK
    <3> QED
      BY <1>0, <1>6, <3>1, <3>2
  <2> QED
    BY <2>1, <2>2
<1>7. ASSUME NEW a \in Attempts, WorkerLost(a) \/ Cancelled(a)
      PROVE at'[b] \in {"no_profile", "lost", "cancelled"} \/ late'[b]
  BY <1>6, <1>7 DEF WorkerLost, Cancelled
<1>8. ASSUME NEW a \in Attempts, Enter(a) \/ Leave(a)
      PROVE at'[b] \in {"no_profile", "lost", "cancelled"} \/ late'[b]
  <2>1. call' = call \/ call' = [call EXCEPT !.status = "done"]
    BY <1>8 DEF Enter, Leave, FailedStory, Result, Reports
  <2>2. b \in Attempts
    BY <1>0, <1>3, <2>1 DEF TypeOK
  <2>3. at'[b] = at[b] \/ at[b] \notin {"no_profile", "lost", "cancelled"}
    BY <1>8, <2>2 DEF Enter, Leave, TearDown, Goes, TypeOK
  <2>4. late' = late
    BY <1>8 DEF Enter, Leave
  <2> QED
    BY <1>1, <2>1, <2>3, <2>4
<1>9. ASSUME NEW a \in Attempts, TakeDiff(a) \/ RunQa(a) \/ Raises(a) \/ SessionEnds(a)
      PROVE at'[b] \in {"no_profile", "lost", "cancelled"} \/ late'[b]
  <2>1. call' = call /\ late' = late
    BY <1>9 DEF TakeDiff, RunQa, Raises, SessionEnds
  <2>2. b \in Attempts
    BY <1>0, <1>3, <2>1
  <2>3. at'[b] = at[b] \/ at[b] \notin {"no_profile", "lost", "cancelled"}
    BY <1>9, <2>2 DEF TakeDiff, RunQa, Raises, SessionEnds, Goes, TypeOK
  <2> QED
    BY <1>1, <2>1, <2>3
<1>10. ASSUME NEW a \in Attempts, Edit(a) \/ Checkpoint(a) \/ ContainerEnds(a)
       PROVE at'[b] \in {"no_profile", "lost", "cancelled"} \/ late'[b]
  BY <1>1, <1>10 DEF Edit, Checkpoint, ContainerEnds
<1>11. CASE UNCHANGED vars
  BY <1>1, <1>11 DEF vars
<1> QED
  BY <1>4, <1>5, <1>7, <1>8, <1>9, <1>10, <1>11 DEF Next, Activity, Session

\* coding_backed.py, _failed_story: for any number of attempts, whatever fails
\* inside one that Temporal still awaits, its session is not paid again.
THEOREM SessionsPaidOnce == Spec => []CostGuard
<1>1. Init => CostGuard
  BY DEF Init, CostGuard
<1> QED
  BY <1>1, CostGuardStep, TypeCorrect, PTL DEF Spec

-----------------------------------------------------------------------------
(* What stays on the disk                                                  *)

\* Attempts start one after the other, and without a directory.
FreshInv ==
    /\ \A a \in Attempts : at[a] = "none" => ~dir[a]
    /\ \A a \in Attempts : a > call.attempt => at[a] = "none"
    /\ call.status = "scheduled" => at[call.attempt] = "none"

\* The attempts that a step moves have begun, or begin with it.
OnlyBegunEnd == \A b \in Attempts :
    at'[b] = at[b] \/ (at'[b] # "none" /\ b <= call.attempt)
OnlyBegunMove == \A b \in Attempts :
    \/ at'[b] = at[b] /\ dir'[b] = dir[b]
    \/ at'[b] # "none" /\ at[b] # "none"
    \/ at'[b] # "none" /\ b = call.attempt /\ call'.status # "scheduled"

LEMMA FreshInvStep == TypeOK /\ FreshInv /\ [Next]_vars => FreshInv'
<1> SUFFICES ASSUME TypeOK, FreshInv, [Next]_vars PROVE FreshInv'
  OBVIOUS
<1>0. /\ call.attempt \in Attempts /\ call.attempt \in Nat /\ MaxAttempts \in Nat
      /\ \A a \in Attempts : a \in Nat /\ a <= MaxAttempts
  BY SessionAssumption DEF SessionAssumption, TypeOK, Attempts
<1>1. ASSUME NextAttempt,
             OnlyBegunEnd,
             dir' = dir
      PROVE FreshInv'
  <2>1. CASE MoreAttempts
    <3>1. call'.attempt = call.attempt + 1 /\ call'.attempt \in Attempts
      BY <1>0, <1>1, <2>1 DEF NextAttempt, MoreAttempts, Attempts
    <3>2. \A b \in Attempts : b > call.attempt => at'[b] = "none"
      BY <1>0, <1>1 DEF FreshInv, OnlyBegunEnd
    <3> QED
      BY <1>0, <1>1, <3>1, <3>2 DEF FreshInv, OnlyBegunEnd
  <2>2. CASE ~MoreAttempts
    <3>1. call'.attempt = call.attempt /\ call'.status = "failed"
      BY <1>1, <2>2 DEF NextAttempt, TypeOK
    <3> QED
      BY <1>0, <1>1, <3>1 DEF FreshInv, OnlyBegunEnd
  <2> QED
    BY <2>1, <2>2
<1>2. ASSUME call'.attempt = call.attempt, call'.status # "scheduled" \/ call' = call,
             OnlyBegunMove
      PROVE FreshInv'
  <2>1. \A b \in Attempts : at'[b] = "none" => ~dir'[b]
    BY <1>2 DEF FreshInv, OnlyBegunMove
  <2>2. \A b \in Attempts : b > call'.attempt => at'[b] = "none"
    BY <1>0, <1>2 DEF FreshInv, OnlyBegunMove
  <2>3. call'.status = "scheduled" => at'[call'.attempt] = "none"
    BY <1>0, <1>2 DEF FreshInv, OnlyBegunMove
  <2> QED
    BY <2>1, <2>2, <2>3 DEF FreshInv
<1>3. ASSUME NEW a \in Attempts, Begin(a) PROVE FreshInv'
  <2>1. call.attempt = a
    BY <1>3 DEF Begin
  <2>2. CASE Goes(a, "enter") /\ call' = [call EXCEPT !.status = "started"]
    <3>1. call'.attempt = call.attempt /\ call'.status = "started"
      BY <2>2 DEF TypeOK
    <3>2. \A b \in Attempts : at'[b] = IF b = a THEN "enter" ELSE at[b]
      BY <2>2 DEF Goes, TypeOK
    <3>3. dir' = dir
      BY <1>3 DEF Begin
    <3>4. OnlyBegunMove
      BY <2>1, <3>1, <3>2, <3>3 DEF OnlyBegunMove
    <3> QED
      BY <1>2, <3>1, <3>4
  <2>3. CASE Goes(a, "no_profile") /\ NextAttempt
    <3>1. \A b \in Attempts : at'[b] = IF b = a THEN "no_profile" ELSE at[b]
      BY <2>3 DEF Goes, TypeOK
    <3>2. OnlyBegunEnd
      BY <1>0, <2>1, <3>1 DEF OnlyBegunEnd
    <3>3. dir' = dir
      BY <1>3 DEF Begin
    <3> QED
      BY <1>1, <2>3, <3>2, <3>3
  <2> QED
    BY <1>3, <2>2, <2>3 DEF Begin
<1>4. ASSUME NEW a \in Attempts, TimeOut(a) PROVE FreshInv'
  <2>1. OnlyBegunEnd
    BY <1>4 DEF TimeOut, OnlyBegunEnd
  <2>2. NextAttempt /\ dir' = dir
    BY <1>4 DEF TimeOut
  <2> QED
    BY <1>1, <2>1, <2>2
<1>5. ASSUME NEW a \in Attempts, WorkerLost(a) \/ Cancelled(a) PROVE FreshInv'
  <2>1. PICK end \in {"lost", "cancelled"} : Goes(a, end)
    BY <1>5 DEF WorkerLost, Cancelled
  <2>2. \A b \in Attempts : at'[b] = IF b = a THEN end ELSE at[b]
    BY <2>1 DEF Goes, TypeOK
  <2>3. at[a] # "none" /\ a <= call.attempt
    BY <1>0, <1>5 DEF WorkerLost, Cancelled, Running, FreshInv
  <2>4. \A b \in Attempts : dir'[b] = IF b = a THEN dir'[a] ELSE dir[b]
    BY <1>5 DEF WorkerLost, Cancelled, TypeOK
  <2>5. CASE NextAttempt
    <3>1. \A b \in Attempts : b > call.attempt => at'[b] = "none"
      BY <1>0, <2>2, <2>3 DEF FreshInv
    <3>2. \A b \in Attempts : at'[b] = "none" => ~dir'[b]
      BY <2>2, <2>4 DEF FreshInv
    <3>3. CASE MoreAttempts
      <4>1. call'.attempt = call.attempt + 1 /\ call'.attempt \in Attempts
        BY <1>0, <2>5, <3>3 DEF NextAttempt, MoreAttempts, Attempts
      <4> QED
        BY <1>0, <3>1, <3>2, <4>1 DEF FreshInv
    <3>4. CASE ~MoreAttempts
      <4>1. call'.attempt = call.attempt /\ call'.status = "failed"
        BY <2>5, <3>4 DEF NextAttempt, TypeOK
      <4> QED
        BY <3>1, <3>2, <4>1 DEF FreshInv
    <3> QED
      BY <3>3, <3>4
  <2>6. CASE call' = call
    <3>1. OnlyBegunMove
      BY <2>2, <2>3, <2>4 DEF OnlyBegunMove
    <3> QED
      BY <1>2, <2>6, <3>1
  <2> QED
    BY <1>5, <2>5, <2>6 DEF WorkerLost, Cancelled, Fails
<1>6. ASSUME NEW a \in Attempts, Enter(a) \/ Leave(a) PROVE FreshInv'
  <2>1. call' = call \/ call' = [call EXCEPT !.status = "done"]
    BY <1>6 DEF Enter, Leave, FailedStory, Result, Reports
  <2>2. call'.attempt = call.attempt /\ (call'.status = "done" \/ call' = call)
    BY <2>1 DEF TypeOK
  <2>3. at[a] # "none"
    BY <1>6 DEF Enter, Leave
  <2>4. \A b \in Attempts : b # a => at'[b] = at[b] /\ dir'[b] = dir[b]
    BY <1>6 DEF Enter, Leave, TearDown, Goes, TypeOK
  <2>5. at'[a] # "none"
    BY <1>6 DEF Enter, Leave, TearDown, Goes, TypeOK
  <2>6. OnlyBegunMove
    BY <2>3, <2>4, <2>5 DEF OnlyBegunMove
  <2> QED
    BY <1>2, <2>2, <2>6
<1>7. ASSUME NEW a \in Attempts, TakeDiff(a) \/ RunQa(a) \/ Raises(a) \/ SessionEnds(a) PROVE FreshInv'
  <2>1. call' = call /\ dir' = dir /\ at[a] # "none"
    BY <1>7 DEF TakeDiff, RunQa, Raises, SessionEnds
  <2>2. \A b \in Attempts : b # a => at'[b] = at[b]
    BY <1>7 DEF TakeDiff, RunQa, Raises, SessionEnds, Goes, TypeOK
  <2>3. at'[a] # "none"
    BY <1>7 DEF TakeDiff, RunQa, Raises, SessionEnds, Goes, TypeOK
  <2>4. OnlyBegunMove
    BY <2>1, <2>2, <2>3 DEF OnlyBegunMove
  <2> QED
    BY <1>2, <2>1, <2>4
<1>8. ASSUME NEW a \in Attempts, Edit(a) \/ Checkpoint(a) \/ ContainerEnds(a) PROVE FreshInv'
  BY <1>8 DEF Edit, Checkpoint, ContainerEnds, FreshInv
<1>9. CASE UNCHANGED vars
  BY <1>9 DEF vars, FreshInv
<1> QED
  BY <1>3, <1>4, <1>5, <1>6, <1>7, <1>8, <1>9 DEF Next, Activity, Session

LEMMA FreshInvHolds == Spec => []FreshInv
<1>1. Init => FreshInv
  BY SessionAssumption DEF SessionAssumption, Init, FreshInv, Attempts
<1> QED
  BY <1>1, FreshInvStep, TypeCorrect, PTL DEF Spec

LEMMA LeftBehindStep == TypeOK /\ FreshInv /\ LeftBehind /\ [Next]_vars => LeftBehind'
<1> SUFFICES ASSUME TypeOK, FreshInv, LeftBehind, [Next]_vars,
                    NEW b \in Attempts, dir'[b], at'[b] \in Over
             PROVE at'[b] \in {"lost", "not_entered", "raced"}
  BY DEF LeftBehind
<1>1. ASSUME NEW a \in Attempts, Begin(a) PROVE at'[b] \in {"lost", "not_entered", "raced"}
  <2>1. at[a] = "none" /\ ~dir[a] /\ dir' = dir
    BY <1>1 DEF Begin, FreshInv
  <2>2. b # a => at'[b] = at[b]
    BY <1>1 DEF Begin, Goes, TypeOK
  <2> QED
    BY <2>1, <2>2 DEF LeftBehind
<1>2. ASSUME NEW a \in Attempts, TimeOut(a) \/ Edit(a) \/ Checkpoint(a) \/ ContainerEnds(a)
      PROVE at'[b] \in {"lost", "not_entered", "raced"}
  BY <1>2 DEF TimeOut, Edit, Checkpoint, ContainerEnds, LeftBehind
<1>3. ASSUME NEW a \in Attempts, WorkerLost(a) \/ Enter(a)
      PROVE at'[b] \in {"lost", "not_entered", "raced"}
  BY <1>3 DEF WorkerLost, Enter, Goes, Over, LeftBehind, TypeOK
<1>4. ASSUME NEW a \in Attempts, TakeDiff(a) \/ RunQa(a) \/ Raises(a) \/ SessionEnds(a)
      PROVE at'[b] \in {"lost", "not_entered", "raced"}
  BY <1>4 DEF TakeDiff, RunQa, Raises, SessionEnds, Goes, Over, LeftBehind, TypeOK
<1>5. ASSUME NEW a \in Attempts, Leave(a) PROVE at'[b] \in {"lost", "not_entered", "raced"}
  BY <1>5 DEF Leave, TearDown, Cleans, Goes, LeftBehind, TypeOK
<1>6. ASSUME NEW a \in Attempts, Cancelled(a) PROVE at'[b] \in {"lost", "not_entered", "raced"}
  BY <1>6 DEF Cancelled, Goes, LeftBehind, TypeOK
<1>7. CASE UNCHANGED vars
  BY <1>7 DEF vars, LeftBehind
<1> QED
  BY <1>1, <1>2, <1>3, <1>4, <1>5, <1>6, <1>7 DEF Next, Activity, Session

\* workspace.py, "always torn down": the exceptions are a dead worker, a clone
\* that fails before `with` has entered, and a container that still writes.
THEOREM OnlyTheseStay == Spec => []LeftBehind
<1>1. Init => LeftBehind
  BY DEF Init, LeftBehind
<1> QED
  BY <1>1, LeftBehindStep, FreshInvHolds, TypeCorrect, PTL DEF Spec

-----------------------------------------------------------------------------
(* What is handed up                                                       *)

\* Up to the diff the tree holds nothing but edits; from the diff on, the diff
\* has what was kept; and a story's attempt is over.
Work(b) ==
    /\ ws[b].diff \subseteq ws[b].edited \ Excluded
    /\ at[b] \in {"none", "enter", "session", "diff"} => ws[b].tree \subseteq ws[b].edited
    /\ at[b] = "diff" => ws[b].kept \subseteq ws[b].tree
    /\ (at[b] \in {"tests", "leaving"} \/ story.of = b) /\ ws[b].git
          => ws[b].kept \ Excluded \subseteq ws[b].diff
    /\ story.of = b => at[b] \in {"returned", "raced"}

WorkInv == \A b \in Attempts : Work(b)

\* A step of one attempt leaves the others' work alone.
LEMMA OthersWork ==
    ASSUME NEW b \in Attempts, Work(b),
           ws'[b] = ws[b], at'[b] = at[b], story'.of = b => story.of = b
    PROVE Work(b)'
  BY DEF Work

LEMMA UntouchedWork ==
    ASSUME NEW b \in Attempts, ws'[b] = Untouched, story'.of # b
    PROVE Work(b)'
  BY DEF Work, Untouched

LEMMA StoryOf ==
    ASSUME NEW a \in Attempts, FailedStory(a) \/ Result(a)
    PROVE story'.of \in {story.of, 0, a}
  BY DEF FailedStory, Result, Reports

LEMMA OwnStep ==
    ASSUME TypeOK, NEW a \in Attempts,
           Begin(a) \/ TimeOut(a) \/ WorkerLost(a) \/ Activity(a) \/ Session(a),
           NEW b \in Attempts \ {a}
    PROVE ws'[b] = ws[b] /\ at'[b] = at[b] /\ (story'.of = b => story.of = b)
<1>0. b \in Attempts /\ b # a /\ b # 0
  BY SessionAssumption DEF SessionAssumption, Attempts
<1>1. CASE Begin(a) \/ TimeOut(a) \/ WorkerLost(a)
  BY <1>0, <1>1 DEF Begin, TimeOut, WorkerLost, Goes, TypeOK
<1>2. CASE Enter(a) \/ Leave(a)
  BY <1>0, <1>2, StoryOf DEF Enter, Leave, TearDown, Goes, TypeOK
<1>3. CASE TakeDiff(a) \/ RunQa(a) \/ Raises(a)
  BY <1>0, <1>3 DEF TakeDiff, RunQa, Raises, Goes, TypeOK
<1>4. CASE Session(a)
  BY <1>0, <1>4 DEF Session, Edit, Checkpoint, SessionEnds, ContainerEnds, Cancelled, Goes, TypeOK
<1> QED
  BY <1>1, <1>2, <1>3, <1>4 DEF Activity

LEMMA WorkStep ==
    ASSUME TypeOK, NEW a \in Attempts, Work(a),
           Begin(a) \/ TimeOut(a) \/ WorkerLost(a) \/ Activity(a) \/ Session(a),
           FreshInv
    PROVE Work(a)'
<1>0. a # 0 /\ ws[a] \in Workspace
  BY SessionAssumption DEF SessionAssumption, Attempts, TypeOK
<1>1. CASE Begin(a)
  <2>1. at[a] = "none" /\ ws' = ws /\ story' = story
    BY <1>1 DEF Begin, FreshInv
  <2>2. at'[a] \in {"enter", "no_profile"}
    BY <1>1 DEF Begin, Goes, TypeOK
  <2> QED
    BY <2>1, <2>2 DEF Work
<1>2. CASE TimeOut(a) \/ ContainerEnds(a)
  BY <1>2 DEF TimeOut, ContainerEnds, Work
<1>3. CASE WorkerLost(a) \/ Cancelled(a)
  <2>1. ws'[a] = Untouched
    BY <1>3 DEF WorkerLost, Cancelled, TypeOK
  <2>2. story'.of # a
    BY <1>3 DEF WorkerLost, Cancelled, Running, Work
  <2> QED
    BY <2>1, <2>2, UntouchedWork
<1>4. CASE Enter(a)
  <2>1. ws' = ws /\ at'[a] \in {"session", "not_entered"} /\ at[a] = "enter"
    BY <1>4 DEF Enter, Goes, TypeOK
  <2>2. story'.of # a
    BY <1>0, <1>4, <2>1 DEF Enter, FailedStory, Reports, Work
  <2> QED
    BY <2>1, <2>2 DEF Work
<1>5. CASE TakeDiff(a)
  <2>1. at[a] = "diff" /\ at'[a] = "tests" /\ story'.of # a
    BY <1>5 DEF TakeDiff, Goes, Work, TypeOK
  <2>2. CASE ws' = [ws EXCEPT ![a].diff = Diff(a)]
    <3>1. /\ ws'[a].diff = ws[a].tree \ Excluded
          /\ ws'[a].edited = ws[a].edited /\ ws'[a].kept = ws[a].kept
      BY <1>0, <2>2 DEF Diff, TypeOK, Workspace
    <3> QED
      BY <2>1, <3>1 DEF Work
  <2>3. CASE ws' = [ws EXCEPT ![a].git = FALSE]
    <3>1. /\ ws'[a].diff = ws[a].diff /\ ws'[a].edited = ws[a].edited /\ ws'[a].git = FALSE
      BY <1>0, <2>3 DEF TypeOK, Workspace
    <3> QED
      BY <2>1, <3>1 DEF Work
  <2> QED
    BY <1>5, <2>2, <2>3 DEF TakeDiff
<1>6. CASE RunQa(a)
  <2>1. at[a] = "tests" /\ at'[a] = "leaving" /\ story' = story
    BY <1>6 DEF RunQa, Goes, TypeOK
  <2>2. /\ ws'[a].diff = ws[a].diff /\ ws'[a].edited = ws[a].edited
        /\ ws'[a].kept = ws[a].kept /\ ws'[a].git = ws[a].git
    <3>1. CASE runnable
      <4>1. PICK passed \in BOOLEAN, written \in SUBSET {"report"} :
              ws' = [ws EXCEPT ![a].passed = passed, ![a].tree = @ \cup written]
        BY <1>6, <3>1 DEF RunQa
      <4> QED
        BY <1>0, <4>1 DEF TypeOK, Workspace
    <3>2. CASE ~runnable
      <4>1. ws' = [ws EXCEPT ![a].passed = TRUE]
        BY <1>6, <3>2 DEF RunQa
      <4> QED
        BY <1>0, <4>1 DEF TypeOK, Workspace
    <3> QED
      BY <3>1, <3>2
  <2> QED
    BY <2>1, <2>2 DEF Work
<1>7. CASE Raises(a)
  <2>1. at'[a] = "unwinding" /\ ws' = ws /\ story' = story
    BY <1>7 DEF Raises, Goes, TypeOK
  <2>2. story.of # a
    BY <1>7 DEF Raises, Work
  <2> QED
    BY <2>1, <2>2 DEF Work
<1>8. CASE Leave(a)
  <2>1. at'[a] \in {"returned", "raced"} /\ at[a] \in {"leaving", "unwinding"} /\ story.of # a
    BY <1>8 DEF Leave, TearDown, Goes, Work, TypeOK
  <2>2. CASE story' # story /\ story'.of = a
    <3>1. ws' = ws
      BY <1>8, <2>2 DEF Leave
    <3>2. at[a] = "leaving"
      BY <1>0, <1>8, <2>1, <2>2 DEF Leave, FailedStory, Reports
    <3> QED
      BY <2>1, <3>1, <3>2 DEF Work
  <2>3. CASE ~(story' # story /\ story'.of = a)
    <3>1. ws'[a] = Untouched
      BY <1>8, <2>3 DEF Leave, TypeOK
    <3>2. story'.of # a
      BY <2>1, <2>3
    <3> QED
      BY <3>1, <3>2, UntouchedWork
  <2> QED
    BY <2>2, <2>3
<1>9. CASE Edit(a)
  <2>1. PICK f \in Sources \cup Excluded :
          ws' = [ws EXCEPT ![a].tree = @ \cup {f}, ![a].edited = @ \cup {f}]
    BY <1>9 DEF Edit
  <2>2. /\ ws'[a].tree = ws[a].tree \cup {f} /\ ws'[a].edited = ws[a].edited \cup {f}
        /\ ws'[a].diff = ws[a].diff /\ ws'[a].kept = ws[a].kept /\ ws'[a].git = ws[a].git
    BY <1>0, <2>1 DEF TypeOK, Workspace
  <2>3. at' = at /\ story' = story
    BY <1>9 DEF Edit
  <2> QED
    BY <2>2, <2>3 DEF Work
<1>10. CASE Checkpoint(a)
  <2>1. /\ ws'[a].tree = ws[a].tree /\ ws'[a].edited = ws[a].edited
        /\ ws'[a].diff = ws[a].diff /\ ws'[a].kept = ws[a].kept /\ ws'[a].git = ws[a].git
    BY <1>0, <1>10 DEF Checkpoint, TypeOK, Workspace
  <2>2. at' = at /\ story' = story
    BY <1>10 DEF Checkpoint
  <2> QED
    BY <2>1, <2>2 DEF Work
<1>11. CASE SessionEnds(a)
  <2>1. at[a] = "session" /\ at'[a] = "diff" /\ story' = story
    BY <1>11 DEF SessionEnds, Goes, TypeOK
  <2>2. /\ ws'[a].tree = ws[a].tree /\ ws'[a].edited = ws[a].edited
        /\ ws'[a].diff = ws[a].diff /\ ws'[a].kept = ws[a].tree
    BY <1>0, <1>11 DEF SessionEnds, TypeOK, Workspace
  <2> QED
    BY <2>1, <2>2 DEF Work
<1> QED
  BY <1>1, <1>2, <1>3, <1>4, <1>5, <1>6, <1>7, <1>8, <1>9, <1>10, <1>11 DEF Activity, Session

LEMMA WorkInvStep == TypeOK /\ FreshInv /\ WorkInv /\ [Next]_vars => WorkInv'
<1> SUFFICES ASSUME TypeOK, FreshInv, WorkInv, [Next]_vars, NEW b \in Attempts PROVE Work(b)'
  BY DEF WorkInv, Attempts
<1>0. Work(b)
  BY DEF WorkInv
<1>1. ASSUME NEW a \in Attempts,
             Begin(a) \/ TimeOut(a) \/ WorkerLost(a) \/ Activity(a) \/ Session(a)
      PROVE Work(b)'
  <2>1. CASE a = b
    BY <1>0, <1>1, <2>1, WorkStep
  <2>2. CASE a # b
    <3>1. ws'[b] = ws[b] /\ at'[b] = at[b] /\ (story'.of = b => story.of = b)
      BY <1>1, <2>2, OwnStep
    <3> QED
      BY <1>0, <3>1, OthersWork
  <2> QED
    BY <2>1, <2>2
<1>2. CASE UNCHANGED vars
  BY <1>0, <1>2, OthersWork DEF vars
<1> QED
  BY <1>1, <1>2 DEF Next

\* coding_backed.py, take the diff, then run the tests, both in a workspace of
\* the attempt's own: for any sources and any attempts that overlap, what is
\* handed up is this session's work, all of it, and nothing else.
THEOREM WorkHandedUp == Spec => []HandsUpWork
<1>1. Init => WorkInv
  BY SessionAssumption DEF SessionAssumption, Init, WorkInv, Work, Untouched, Attempts
<1>2. WorkInv => HandsUpWork
  BY DEF WorkInv, Work, HandsUpWork
<1> QED
  BY <1>1, <1>2, WorkInvStep, FreshInvHolds, TypeCorrect, PTL DEF Spec
=============================================================================
