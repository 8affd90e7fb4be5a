--------------------------- MODULE AgentCallsProofs ---------------------------
(***************************************************************************)
(* Proofs about AgentCalls, for panels, attempts, re-asks and threads of   *)
(* any number.  The sum over a panel comes first: it is natural, which     *)
(* takes an induction over the sizes of the panel's subsets.  Then the     *)
(* types, with what is known of an attempt that was not yet polled, and    *)
(* the history of every persona's attempts, and what every step uses up.   *)
(***************************************************************************)
EXTENDS AgentCalls, FiniteSetTheorems, WellFoundedInduction, TLAPS

Less == OpToRel(<, Nat)

\* Induction, with a set in the place of a predicate.
LEMMA SetInduction ==
    ASSUME NEW S, 0 \in S, \A n \in Nat : n \in S => n + 1 \in S
    PROVE  Nat \subseteq S
<1> SUFFICES ASSUME Nat \ S # {} PROVE FALSE
  OBVIOUS
<1>1. PICK n \in Nat \ S : \A m \in Nat \ S : <<m, n>> \notin Less
  <2>1. IsWellFoundedOn(Less, Nat)
    BY NatLessThanWellFounded DEF Less
  <2>2. Nat \ S \subseteq Nat
    OBVIOUS
  <2> QED
    BY <2>1, <2>2, WFMin
<1>2. n # 0 /\ n - 1 \in Nat /\ n - 1 < n /\ (n - 1) + 1 = n
  BY <1>1
<1>3. <<n - 1, n>> \in Less
  BY <1>1, <1>2 DEF Less, OpToRel
<1>4. n - 1 \in S
  BY <1>1, <1>2, <1>3
<1> QED
  BY <1>1, <1>2, <1>4
-----------------------------------------------------------------------------
(* The sum over a panel                                                    *)

\* How Total is computed on a subset s, from the function g of the results on
\* smaller ones.
Pick(s) == CHOOSE x \in s : TRUE
Small(n) == {s \in SUBSET Panel : Cardinality(s) <= n}
Rule(f, g, s) == IF s = {} THEN 0 ELSE f[Pick(s)] + g[s \ {Pick(s)}]

LEMMA PanelFinite ==
    /\ IsFiniteSet(Panel)
    /\ \A s \in SUBSET Panel :
         IsFiniteSet(s) /\ Cardinality(s) \in Nat /\ Cardinality(s) <= PanelSize
<1> USE CallsAssumption DEF CallsAssumption
<1>1. IsFiniteSet(Panel) /\ Cardinality(Panel) = PanelSize
  BY FS_Interval DEF Panel
<1> QED
  BY <1>1, FS_Subset, FS_CardinalityType

LEMMA Smaller ==
    ASSUME NEW s \in SUBSET Panel, s # {}, NEW n \in Nat, Cardinality(s) <= n + 1
    PROVE  Pick(s) \in s /\ s \ {Pick(s)} \in Small(n)
<1>1. Pick(s) \in s
  BY DEF Pick
<1>2. Cardinality(s \ {Pick(s)}) = Cardinality(s) - 1
  BY <1>1, PanelFinite, FS_RemoveElement
<1>3. Cardinality(s) \in Nat
  BY PanelFinite
<1> QED
  BY <1>1, <1>2, <1>3 DEF Small

\* What a panel's tokens add up to is a number: first, the recursive function
\* that the sum stands for exists; then, its values are natural.
LEMMA TotalNat == ASSUME NEW f \in [Panel -> Nat] PROVE Total(f) \in Nat
<1> USE CallsAssumption DEF CallsAssumption
<1> DEFINE Good == {n \in Nat : \E g \in [Small(n) -> Nat] :
                                  \A s \in Small(n) : g[s] = Rule(f, g, s)}
           Solves(g) == g = [s \in SUBSET Panel |-> Rule(f, g, s)]
<1>1. 0 \in Good
  <2>1. \A s \in Small(0) : s = {}
    BY PanelFinite, FS_EmptySet DEF Small
  <2>2. [s \in Small(0) |-> 0] \in [Small(0) -> Nat]
    OBVIOUS
  <2> QED
    BY <2>1, <2>2 DEF Rule
<1>2. ASSUME NEW n \in Nat, n \in Good
      PROVE  n + 1 \in Good
  <2>1. PICK g \in [Small(n) -> Nat] : \A s \in Small(n) : g[s] = Rule(f, g, s)
    BY <1>2
  <2> DEFINE h == [s \in Small(n + 1) |-> IF s \in Small(n) THEN g[s] ELSE Rule(f, g, s)]
  <2>2. ASSUME NEW s \in Small(n + 1), s # {}
        PROVE  /\ s \ {Pick(s)} \in Small(n) /\ f[Pick(s)] \in Nat
               /\ s \ {Pick(s)} \in Small(n + 1)
    <3>1. Pick(s) \in s /\ s \ {Pick(s)} \in Small(n)
      BY <2>2, Smaller DEF Small
    <3>2. s \ {Pick(s)} \in Small(n + 1)
      BY <3>1, PanelFinite DEF Small
    <3> QED
      BY <3>1, <3>2 DEF Small
  <2>3. \A s \in Small(n + 1) : h[s] = Rule(f, g, s) /\ Rule(f, g, s) \in Nat
    BY <2>1, <2>2 DEF Rule
  <2>4. h \in [Small(n + 1) -> Nat]
    BY <2>3
  <2>5. \A s \in Small(n + 1) : Rule(f, g, s) = Rule(f, h, s)
    BY <2>2 DEF Rule
  <2> HIDE DEF h
  <2>6. \A s \in Small(n + 1) : h[s] = Rule(f, h, s)
    BY <2>3, <2>5
  <2> QED
    BY <2>4, <2>6
<1>3. PanelSize \in Good
  <2> HIDE DEF Good
  <2> QED
    BY <1>1, <1>2, SetInduction
<1>4. Small(PanelSize) = SUBSET Panel
  BY PanelFinite DEF Small
<1>5. \E g : Solves(g)
  <2>1. PICK g \in [SUBSET Panel -> Nat] : \A s \in SUBSET Panel : g[s] = Rule(f, g, s)
    BY <1>3, <1>4
  <2> QED
    BY <2>1
<1> DEFINE sum == CHOOSE g : Solves(g)
<1>6. Solves(sum)
  BY <1>5
<1>7. Total(f) = sum[Panel]
  BY DEF Total, MapThenSumSet, MapThenFoldSet, Rule, Pick
<1> HIDE DEF sum
<1> DEFINE Typed == {n \in Nat : \A s \in Small(n) : sum[s] \in Nat}
<1>8. 0 \in Typed
  <2>1. \A s \in Small(0) : s = {} /\ s \in SUBSET Panel
    BY PanelFinite, FS_EmptySet DEF Small
  <2> QED
    BY <2>1, <1>6 DEF Rule
<1>9. ASSUME NEW n \in Nat, n \in Typed
      PROVE  n + 1 \in Typed
  <2>1. ASSUME NEW s \in Small(n + 1) PROVE sum[s] \in Nat
    <3>1. sum[s] = Rule(f, sum, s)
      BY <1>6 DEF Small
    <3>2. CASE s = {}
      BY <3>1, <3>2 DEF Rule
    <3>3. CASE s # {}
      <4>1. s \ {Pick(s)} \in Small(n) /\ f[Pick(s)] \in Nat
        BY <3>3, Smaller DEF Small
      <4>2. sum[s \ {Pick(s)}] \in Nat
        BY <4>1, <1>9
      <4> QED
        BY <3>1, <3>3, <4>1, <4>2 DEF Rule
    <3> QED
      BY <3>2, <3>3
  <2> QED
    BY <2>1
<1>10. PanelSize \in Typed
  <2> HIDE DEF Typed
  <2> QED
    BY <1>8, <1>9, SetInduction
<1> QED
  BY <1>4, <1>7, <1>10
-----------------------------------------------------------------------------
(* Types, and attempts that were not polled                                *)

Run == [state : {"none", "valid"} \cup Live \cup Mendable \cup Final,
        answers : 0 .. MaxReask + 1, timedOut : BOOLEAN]
Record == [attempt : Attempts, status : {"scheduled", "started", "done", "failed"}]

\* Attempt a of p is yet to be polled.
Unpolled(p, a) ==
    \/ a > call[p].attempt
    \/ a = call[p].attempt /\ call[p].status = "scheduled"

\* Such an attempt has asked nothing, and one that is alive may still pay for
\* an answer.
AskInv ==
    \A p \in Panel, a \in Attempts :
        /\ Unpolled(p, a) => exec[p][a].state = "none" /\ exec[p][a].answers = 0
        /\ exec[p][a].state \in Live => exec[p][a].answers <= MaxReask

\* Only attempt a of p changes: its run is now r.
Moves(p, a, r) ==
    \A q \in Panel, b \in Attempts :
        exec'[q][b] = IF q = p /\ b = a THEN r ELSE exec[q][b]

LEMMA MovesTo ==
    ASSUME TypeOK, NEW p \in Panel, NEW a \in Attempts, NEW r \in Run,
           exec' = [exec EXCEPT ![p][a] = r]
    PROVE  Moves(p, a, r) /\ exec' \in [Panel -> [Attempts -> Run]]
  BY DEF Moves, TypeOK, Run

\* No step makes an attempt unpolled, or alive with too many answers.
LEMMA AskStep ==
    ASSUME AskInv,
           \A p \in Panel, a \in Attempts :
               /\ Unpolled(p, a)' => Unpolled(p, a) /\ exec'[p][a].state = exec[p][a].state
                                      /\ exec'[p][a].answers = exec[p][a].answers
               /\ exec'[p][a].state \in Live =>
                      \/ exec'[p][a].answers <= MaxReask
                      \/ exec[p][a].state \in Live /\ exec'[p][a].answers = exec[p][a].answers
    PROVE  AskInv'
  BY DEF AskInv

\* A record that keeps its attempt and is not scheduled, or takes the next
\* attempt, makes no attempt unpolled.
LEMMA StaysPolled ==
    ASSUME TypeOK, NEW q \in Panel, NEW b \in Attempts, Unpolled(q, b)',
           \/ call'[q] = call[q]
           \/ call'[q].attempt = call[q].attempt /\ call'[q].status # "scheduled"
           \/ call'[q].attempt = call[q].attempt + 1
    PROVE  Unpolled(q, b)
<1> USE CallsAssumption DEF CallsAssumption
<1>1. call[q].attempt \in Nat /\ b \in Nat
  BY DEF TypeOK, Attempts
<1>2. b > call'[q].attempt \/ (b = call'[q].attempt /\ call'[q].status = "scheduled")
  BY DEF Unpolled
<1> QED
  BY <1>1, <1>2 DEF Unpolled

\* The next attempt, or the failure of the last one.
LEMMA NextAttemptRecord ==
    ASSUME TypeOK, NEW p \in Panel, NEW kind, NextAttempt(p, kind)
    PROVE  /\ call' \in [Panel -> Record]
           /\ \A q \in Panel : q # p => call'[q] = call[q]
           /\ \/ /\ Retryable(kind) /\ call[p].attempt < MaxAttempts
                 /\ call'[p] = [attempt |-> call[p].attempt + 1, status |-> "scheduled"]
              \/ /\ ~Retryable(kind) \/ call[p].attempt = MaxAttempts
                 /\ call'[p] = [attempt |-> call[p].attempt, status |-> "failed"]
<1> USE CallsAssumption DEF CallsAssumption
<1>1. /\ call[p].attempt \in 1 .. MaxAttempts /\ call \in [Panel -> Record] /\ call[p] \in Record
  BY DEF TypeOK, Record, Attempts
<1>2. CASE Retryable(kind) /\ call[p].attempt < MaxAttempts
  <2>1. [attempt |-> call[p].attempt + 1, status |-> "scheduled"] \in Record
    BY <1>1, <1>2 DEF Record, Attempts
  <2> QED
    BY <1>1, <1>2, <2>1 DEF NextAttempt
<1>3. CASE ~(Retryable(kind) /\ call[p].attempt < MaxAttempts)
  <2>1. [call[p] EXCEPT !.status = "failed"] = [attempt |-> call[p].attempt, status |-> "failed"]
    BY <1>1 DEF Record
  <2>2. [attempt |-> call[p].attempt, status |-> "failed"] \in Record
    BY <1>1 DEF Record, Attempts
  <2>3. call' = [call EXCEPT ![p] = [attempt |-> call[p].attempt, status |-> "failed"]]
    BY <1>3, <2>1 DEF NextAttempt
  <2> QED
    BY <1>1, <1>3, <2>2, <2>3
<1> QED
  BY <1>2, <1>3

\* How many steps of its own an attempt may still take: to be polled, to get a
\* thread, and to be answered as often as the runner asks.
RunLeft(r) ==
    CASE r.state = "none" -> MaxReask + 4
      [] r.state = "queued" -> MaxReask + 3
      [] r.state = "asking" -> MaxReask + 2 - r.answers
      [] OTHER -> 0

\* An attempt that is alive has steps left, and one more when it is queued.
LEMMA LiveLeft ==
    ASSUME NEW r \in Run, r.state \in Live, r.answers <= MaxReask
    PROVE  /\ r.state = "asking" => RunLeft(r) = MaxReask + 2 - r.answers
           /\ r.state = "queued" => RunLeft(r) = MaxReask + 3
           /\ RunLeft(r) > 0
<1>1. MaxReask \in Nat /\ r.answers \in 0 .. MaxReask + 1
  BY CallsAssumption DEF CallsAssumption, Run
<1>2. CASE r.state = "asking"
  BY <1>1, <1>2 DEF RunLeft
<1>3. CASE r.state = "queued"
  BY <1>1, <1>3 DEF RunLeft
<1> QED
  BY <1>2, <1>3 DEF Live

\* One that is over has none.
LEMMA EndedLeft ==
    ASSUME NEW r \in Run, r.state \notin Live, r.state # "none"
    PROVE  RunLeft(r) = 0
  BY DEF RunLeft, Live

\* What a step of an attempt comes to: its run is now r, with fewer steps left,
\* and if Temporal still waits for it, the record of the activity follows.
Turn(p, a, r) ==
    /\ exec[p][a].state \in Live /\ RunLeft(r) < RunLeft(exec[p][a])
    /\ Moves(p, a, r) /\ exec' \in [Panel -> [Attempts -> Run]]
    /\ r.state # "none" /\ r.timedOut = exec[p][a].timedOut
    /\ r.state \in Live => r.answers <= MaxReask
    /\ \/ UNCHANGED <<call, finding>>
       \/ /\ Awaited(p, a) /\ r.state = "valid"
          /\ call' = [call EXCEPT ![p].status = "done"]
          /\ finding' = [finding EXCEPT ![p] = r.answers]
       \/ /\ Awaited(p, a) /\ r.state \in {"gave_up", "permanent", "transient"}
          /\ NextAttempt(p, r.state) /\ UNCHANGED finding
    /\ UNCHANGED <<pc, report>>

LEMMA RaisesTurn ==
    ASSUME TypeOK, AskInv, NEW p \in Panel, NEW a \in Attempts, exec[p][a].state = "asking",
           NEW kind \in {"gave_up", "permanent", "transient"},
           NEW answers \in 0 .. MaxReask + 1, Raises(p, a, kind, answers)
    PROVE  \E r \in Run : Turn(p, a, r)
<1> DEFINE r == [exec[p][a] EXCEPT !.state = kind, !.answers = answers]
<1>1. exec[p][a] \in Run
  BY DEF TypeOK, Run
<1>2. /\ r \in Run /\ r.state = kind /\ r.timedOut = exec[p][a].timedOut
  BY <1>1 DEF Run, Final, Mendable
<1>3. exec' = [exec EXCEPT ![p][a] = r]
  BY <1>1 DEF Raises, TypeOK, Run
<1> HIDE DEF r
<1>4. Moves(p, a, r) /\ exec' \in [Panel -> [Attempts -> Run]]
  BY <1>2, <1>3, MovesTo
<1>5. RunLeft(r) < RunLeft(exec[p][a])
  <2>1. exec[p][a].state \in Live /\ exec[p][a].answers <= MaxReask
    BY DEF Live, AskInv
  <2>2. RunLeft(exec[p][a]) > 0
    BY <1>1, <2>1, LiveLeft
  <2>3. RunLeft(r) = 0
    BY <1>2, EndedLeft DEF Live
  <2> QED
    BY <2>2, <2>3
<1>6. Turn(p, a, r)
  BY <1>2, <1>4, <1>5 DEF Turn, Raises, Live
<1> QED
  BY <1>2, <1>6

LEMMA AttemptTurns ==
    ASSUME TypeOK, AskInv, NEW p \in Panel, NEW a \in Attempts, Attempt(p, a)
    PROVE  \E r \in Run : Turn(p, a, r)
<1> USE CallsAssumption DEF CallsAssumption
<1>1. exec[p][a] \in Run
  BY DEF TypeOK, Run
<1>2. exec[p][a].answers \in 0 .. MaxReask + 1
  BY <1>1 DEF Run
<1>3. exec[p][a].state \in Live => exec[p][a].answers + 1 \in 0 .. MaxReask + 1
  BY <1>2 DEF AskInv
<1>4. CASE Begin(p, a) \/ Stopped(p, a)
  <2>1. PICK state \in {"asking", "stopped"} :
          /\ exec' = [exec EXCEPT ![p][a].state = state]
          /\ state = "asking" => exec[p][a].state = "queued"
    BY <1>4 DEF Begin, Stopped
  <2> DEFINE r == [exec[p][a] EXCEPT !.state = state]
  <2>2. /\ r \in Run /\ r.state = state /\ r.timedOut = exec[p][a].timedOut
        /\ r.answers = exec[p][a].answers
    BY <1>1 DEF Run, Live, Mendable
  <2>3. exec' = [exec EXCEPT ![p][a] = r]
    BY <1>1, <2>1 DEF TypeOK, Run
  <2> HIDE DEF r
  <2>4. Moves(p, a, r) /\ exec' \in [Panel -> [Attempts -> Run]]
    BY <2>2, <2>3, MovesTo
  <2>5. exec[p][a].state \in Live /\ UNCHANGED <<pc, call, finding, report>>
    BY <1>4 DEF Begin, Stopped, Live
  <2>6. r.answers <= MaxReask /\ exec[p][a].answers <= MaxReask
    BY <2>2, <2>5 DEF AskInv
  <2>7. RunLeft(r) < RunLeft(exec[p][a])
    <3>1. CASE state = "asking"
      <4>1. RunLeft(r) = MaxReask + 2 - exec[p][a].answers
        BY <2>2, <2>6, <3>1, LiveLeft DEF Live
      <4>2. RunLeft(exec[p][a]) = MaxReask + 3
        BY <1>1, <2>1, <2>5, <2>6, <3>1, LiveLeft
      <4> QED
        BY <1>2, <4>1, <4>2
    <3>2. CASE state = "stopped"
      <4>1. RunLeft(r) = 0
        BY <2>2, <3>2, EndedLeft DEF Live
      <4> QED
        BY <1>1, <2>5, <2>6, <4>1, LiveLeft
    <3> QED
      BY <3>1, <3>2
  <2> QED
    BY <2>2, <2>4, <2>5, <2>6, <2>7 DEF Turn
<1>5. CASE Answer(p, a)
  <2> DEFINE r == [exec[p][a] EXCEPT !.state = "valid", !.answers = exec[p][a].answers + 1]
  <2>1. exec[p][a].state = "asking" /\ exec[p][a].state \in Live
    BY <1>5 DEF Answer, Live
  <2>2. /\ r \in Run /\ r.state = "valid" /\ r.timedOut = exec[p][a].timedOut
        /\ r.answers = exec[p][a].answers + 1
    BY <1>1, <1>3, <2>1 DEF Run
  <2>3. exec' = [exec EXCEPT ![p][a] = r]
    BY <1>1, <1>5 DEF Answer, TypeOK, Run
  <2> HIDE DEF r
  <2>4. Moves(p, a, r) /\ exec' \in [Panel -> [Attempts -> Run]]
    BY <2>2, <2>3, MovesTo
  <2>5. \/ UNCHANGED <<call, finding>>
        \/ /\ Awaited(p, a)
           /\ call' = [call EXCEPT ![p].status = "done"]
           /\ finding' = [finding EXCEPT ![p] = exec[p][a].answers + 1]
    BY <1>5 DEF Answer
  <2>6. r.state \notin Live
    BY <2>2 DEF Live
  <2>7. RunLeft(r) < RunLeft(exec[p][a])
    <3>1. RunLeft(r) = 0
      BY <2>2, <2>6, EndedLeft
    <3>2. RunLeft(exec[p][a]) > 0
      BY <1>1, <2>1, LiveLeft DEF AskInv
    <3> QED
      BY <3>1, <3>2
  <2> QED
    BY <1>5, <2>1, <2>2, <2>4, <2>5, <2>6, <2>7 DEF Turn, Answer
<1>6. CASE Malformed(p, a)
  <2>1. exec[p][a].state = "asking" /\ exec[p][a].state \in Live
    BY <1>6 DEF Malformed, Live
  <2>2. CASE Reasks(exec[p][a].answers + 1)
    <3> DEFINE r == [exec[p][a] EXCEPT !.answers = exec[p][a].answers + 1]
    <3>1. /\ r \in Run /\ r.state = "asking" /\ r.timedOut = exec[p][a].timedOut
          /\ r.answers = exec[p][a].answers + 1
      BY <1>1, <1>3, <2>1 DEF Run
    <3>2. exec' = [exec EXCEPT ![p][a] = r]
      BY <1>1, <1>6, <2>2 DEF Malformed, TypeOK, Run
    <3> HIDE DEF r
    <3>3. Moves(p, a, r) /\ exec' \in [Panel -> [Attempts -> Run]]
      BY <3>1, <3>2, MovesTo
    <3>4. r.answers <= MaxReask
      BY <2>2, <3>1 DEF Reasks
    <3>5. UNCHANGED <<pc, call, finding, report>>
      BY <1>6, <2>2 DEF Malformed
    <3>6. RunLeft(r) < RunLeft(exec[p][a])
      <4>1. RunLeft(exec[p][a]) = MaxReask + 2 - exec[p][a].answers
        BY <1>1, <2>1, LiveLeft DEF AskInv
      <4>2. RunLeft(r) = MaxReask + 2 - (exec[p][a].answers + 1)
        BY <3>1, <3>4, LiveLeft DEF Live
      <4> QED
        BY <1>2, <4>1, <4>2
    <3> QED
      BY <2>1, <3>1, <3>3, <3>4, <3>5, <3>6 DEF Turn
  <2>3. CASE ~Reasks(exec[p][a].answers + 1)
    <3>1. Raises(p, a, "gave_up", exec[p][a].answers + 1)
      BY <1>6, <2>3 DEF Malformed
    <3> QED
      BY <1>3, <2>1, <3>1, RaisesTurn
  <2> QED
    BY <2>2, <2>3
<1>7. CASE ProviderError(p, a)
  <2>1. PICK kind \in {"transient", "permanent"} : Raises(p, a, kind, exec[p][a].answers)
    BY <1>7 DEF ProviderError
  <2> QED
    BY <1>2, <1>7, <2>1, RaisesTurn DEF ProviderError
<1> QED
  BY <1>4, <1>5, <1>6, <1>7 DEF Attempt

\* A worker takes the task of an attempt that has not run.
LEMMA PollMoves ==
    ASSUME TypeOK, AskInv, NEW p \in Panel, Poll(p)
    PROVE  \E r \in Run :
             /\ Moves(p, call[p].attempt, r) /\ exec' \in [Panel -> [Attempts -> Run]]
             /\ r.state = "queued" /\ r.answers = 0 /\ r.timedOut = exec[p][call[p].attempt].timedOut
<1> USE CallsAssumption DEF CallsAssumption
<1> DEFINE a == call[p].attempt
           r == [exec[p][a] EXCEPT !.state = "queued"]
<1>1. a \in Attempts /\ exec[p][a] \in Run /\ call[p].status = "scheduled"
  BY DEF TypeOK, Run, Poll
<1>2. exec[p][a].answers = 0
  BY <1>1 DEF AskInv, Unpolled
<1>3. r \in Run /\ r.state = "queued" /\ r.answers = 0 /\ r.timedOut = exec[p][a].timedOut
  BY <1>1, <1>2 DEF Run, Live
<1>4. exec' = [exec EXCEPT ![p][a] = r]
  BY <1>1 DEF Poll, TypeOK, Run
<1> HIDE DEF r, a
<1>5. Moves(p, a, r) /\ exec' \in [Panel -> [Attempts -> Run]]
  BY <1>1, <1>3, <1>4, MovesTo
<1> QED
  BY <1>3, <1>5 DEF a

\* A timeout marks the attempt and leaves it running.
LEMMA TimeOutMoves ==
    ASSUME TypeOK, NEW p \in Panel, TimeOut(p)
    PROVE  \E r \in Run :
             /\ Moves(p, call[p].attempt, r) /\ exec' \in [Panel -> [Attempts -> Run]]
             /\ r.timedOut /\ r.state = exec[p][call[p].attempt].state
             /\ r.answers = exec[p][call[p].attempt].answers
<1> DEFINE a == call[p].attempt
           r == [exec[p][a] EXCEPT !.timedOut = TRUE]
<1>1. a \in Attempts /\ exec[p][a] \in Run
  BY DEF TypeOK, Run
<1>2. r \in Run /\ r.timedOut /\ r.state = exec[p][a].state /\ r.answers = exec[p][a].answers
  BY <1>1 DEF Run
<1>3. exec' = [exec EXCEPT ![p][a] = r]
  BY <1>1 DEF TimeOut, TypeOK, Run
<1> HIDE DEF r, a
<1>4. Moves(p, a, r) /\ exec' \in [Panel -> [Attempts -> Run]]
  BY <1>1, <1>2, <1>3, MovesTo
<1> QED
  BY <1>2, <1>4 DEF a

\* The death of a worker ends what was alive, and nothing else.
LEMMA WorkerLostMoves ==
    ASSUME TypeOK, WorkerLost
    PROVE  /\ exec' \in [Panel -> [Attempts -> Run]]
           /\ \A p \in Panel, a \in Attempts :
                /\ exec[p][a].state \in Live => exec'[p][a].state = "lost"
                /\ exec[p][a].state \notin Live => exec'[p][a].state = exec[p][a].state
                /\ exec'[p][a].answers = exec[p][a].answers
                /\ exec'[p][a].timedOut = exec[p][a].timedOut
<1>1. ASSUME NEW p \in Panel, NEW a \in Attempts
      PROVE  /\ exec'[p][a] = IF exec[p][a].state \in Live
                             THEN [exec[p][a] EXCEPT !.state = "lost"] ELSE exec[p][a]
             /\ exec[p][a] \in Run /\ [exec[p][a] EXCEPT !.state = "lost"] \in Run
  <2>1. exec[p][a] \in Run
    BY DEF TypeOK, Run
  <2>2. [exec[p][a] EXCEPT !.state = "lost"] \in Run
    BY <2>1 DEF Run, Mendable
  <2> QED
    BY <2>1, <2>2 DEF WorkerLost
<1>2. exec' \in [Panel -> [Attempts -> Run]]
  BY <1>1 DEF WorkerLost
<1>3. ASSUME NEW p \in Panel, NEW a \in Attempts
      PROVE  /\ exec[p][a].state \in Live => exec'[p][a].state = "lost"
             /\ exec[p][a].state \notin Live => exec'[p][a].state = exec[p][a].state
             /\ exec'[p][a].answers = exec[p][a].answers
             /\ exec'[p][a].timedOut = exec[p][a].timedOut
  <2>1. CASE exec[p][a].state \in Live
    <3>1. exec'[p][a] = [exec[p][a] EXCEPT !.state = "lost"]
      BY <1>1, <2>1
    <3> QED
      BY <1>1, <2>1, <3>1 DEF Run
  <2>2. CASE exec[p][a].state \notin Live
    BY <1>1, <2>2
  <2> QED
    BY <2>1, <2>2
<1> QED
  BY <1>2, <1>3

\* Every step keeps the types, and an attempt that was not polled is blank.
LEMMA AskInvHolds == Spec => [](TypeOK /\ AskInv)
<1> USE CallsAssumption DEF CallsAssumption
<1>1. Init => TypeOK /\ AskInv
  <2> SUFFICES ASSUME Init PROVE TypeOK /\ AskInv
    OBVIOUS
  <2>1. [state |-> "none", answers |-> 0, timedOut |-> FALSE] \in Run
    BY DEF Run
  <2>2. [attempt |-> 1, status |-> "scheduled"] \in Record
    BY DEF Record, Attempts
  <2>3. exec \in [Panel -> [Attempts -> Run]] /\ call \in [Panel -> Record]
    BY <2>1, <2>2 DEF Init
  <2>4. TypeOK
    BY <2>3 DEF TypeOK, Init, Run, Record
  <2>5. \A p \in Panel, a \in Attempts : exec[p][a].state = "none" /\ exec[p][a].answers = 0
    BY DEF Init
  <2> QED
    BY <2>4, <2>5 DEF AskInv
<1>2. TypeOK /\ AskInv /\ [Next]_vars => (TypeOK /\ AskInv)'
  <2> SUFFICES ASSUME TypeOK, AskInv, [Next]_vars PROVE TypeOK' /\ AskInv'
    OBVIOUS
  <2>t. /\ call \in [Panel -> Record] /\ exec \in [Panel -> [Attempts -> Run]]
        /\ finding \in [Panel -> Nat] /\ report \in Nat
        /\ pc \in {"research", "synthesize", "reported", "failed"}
        /\ \A q \in Panel : call[q].attempt \in 1 .. MaxAttempts
    BY DEF TypeOK, Record, Run, Attempts
  <2>f. ASSUME call' \in [Panel -> Record], exec' \in [Panel -> [Attempts -> Run]],
               finding' \in [Panel -> Nat], report' \in Nat,
               pc' \in {"research", "synthesize", "reported", "failed"}
        PROVE  TypeOK'
    BY <2>f DEF TypeOK, Record, Run
  <2>1. ASSUME NEW p \in Panel, Poll(p) PROVE TypeOK' /\ AskInv'
    <3>1. PICK r \in Run :
            /\ Moves(p, call[p].attempt, r) /\ exec' \in [Panel -> [Attempts -> Run]]
            /\ r.state = "queued" /\ r.answers = 0
      BY <2>1, PollMoves
    <3>2. /\ call' = [call EXCEPT ![p] = [attempt |-> call[p].attempt, status |-> "started"]]
          /\ call' \in [Panel -> Record]
      <4>1. /\ [call[p] EXCEPT !.status = "started"] = [attempt |-> call[p].attempt, status |-> "started"]
            /\ [attempt |-> call[p].attempt, status |-> "started"] \in Record
        BY <2>t DEF Record, Attempts
      <4>2. call' = [call EXCEPT ![p] = [call[p] EXCEPT !.status = "started"]]
        BY <2>1, <2>t DEF Poll
      <4> QED
        BY <2>t, <4>1, <4>2
    <3>3. TypeOK'
      BY <2>1, <2>f, <2>t, <3>1, <3>2 DEF Poll
    <3>4. AskInv'
      <4>1. ASSUME NEW q \in Panel, NEW b \in Attempts
            PROVE  /\ Unpolled(q, b)' => Unpolled(q, b) /\ exec'[q][b] = exec[q][b]
                   /\ \/ exec'[q][b] = exec[q][b]
                      \/ exec'[q][b].answers <= MaxReask
        <5>1. CASE q = p /\ b = call[p].attempt
          BY <2>t, <3>1, <3>2, <5>1 DEF Unpolled, Moves, Attempts
        <5>2. CASE q = p /\ b # call[p].attempt
          BY <2>t, <3>1, <3>2, <5>2 DEF Unpolled, Moves, Attempts
        <5>3. CASE q # p
          BY <2>t, <3>1, <3>2, <5>3 DEF Unpolled, Moves
        <5> QED
          BY <5>1, <5>2, <5>3
      <4> QED
        BY <4>1, AskStep
    <3> QED
      BY <3>3, <3>4
  <2>2. ASSUME NEW p \in Panel, TimeOut(p) PROVE TypeOK' /\ AskInv'
    <3>1. PICK r \in Run :
            /\ Moves(p, call[p].attempt, r) /\ exec' \in [Panel -> [Attempts -> Run]]
            /\ r.state = exec[p][call[p].attempt].state
            /\ r.answers = exec[p][call[p].attempt].answers
      BY <2>2, TimeOutMoves
    <3>2. /\ call' \in [Panel -> Record]
          /\ \A q \in Panel : q # p => call'[q] = call[q]
          /\ \/ call'[p] = [attempt |-> call[p].attempt + 1, status |-> "scheduled"]
             \/ call'[p] = [attempt |-> call[p].attempt, status |-> "failed"]
      BY <2>2, NextAttemptRecord DEF TimeOut
    <3>3. TypeOK'
      BY <2>2, <2>f, <2>t, <3>1, <3>2 DEF TimeOut
    <3>4. AskInv'
      <4>1. ASSUME NEW q \in Panel, NEW b \in Attempts
            PROVE  /\ Unpolled(q, b)' => Unpolled(q, b)
                   /\ exec'[q][b].state = exec[q][b].state
                   /\ exec'[q][b].answers = exec[q][b].answers
        <5>1. Unpolled(q, b)' => Unpolled(q, b)
          <6>1. \/ call'[q] = call[q]
                \/ call'[q].attempt = call[q].attempt /\ call'[q].status # "scheduled"
                \/ call'[q].attempt = call[q].attempt + 1
            BY <3>2
          <6> QED
            BY <6>1, StaysPolled
        <5>2. /\ exec'[q][b].state = exec[q][b].state
              /\ exec'[q][b].answers = exec[q][b].answers
          BY <3>1 DEF Moves
        <5> QED
          BY <5>1, <5>2
      <4> QED
        BY <4>1, AskStep
    <3> QED
      BY <3>3, <3>4
  <2>3. ASSUME NEW p \in Panel, NEW a \in Attempts, Attempt(p, a) PROVE TypeOK' /\ AskInv'
    <3>1. PICK r \in Run : Turn(p, a, r)
      BY <2>3, AttemptTurns
    <3>2. exec[p][a].state # "none"
      BY <3>1 DEF Turn, Live
    <3>3. /\ call' \in [Panel -> Record] /\ finding' \in [Panel -> Nat]
          /\ \A q \in Panel :
               \/ call'[q] = call[q]
               \/ call'[q] = [attempt |-> call[q].attempt, status |-> "done"]
               \/ call'[q] = [attempt |-> call[q].attempt + 1, status |-> "scheduled"]
               \/ call'[q] = [attempt |-> call[q].attempt, status |-> "failed"]
      <4>1. CASE UNCHANGED <<call, finding>>
        BY <2>t, <4>1
      <4>2. CASE /\ call' = [call EXCEPT ![p].status = "done"]
                 /\ finding' = [finding EXCEPT ![p] = r.answers]
        <5>0. [call[p] EXCEPT !.status = "done"] = [attempt |-> call[p].attempt, status |-> "done"]
          BY <2>t DEF Record
        <5>1. call' = [call EXCEPT ![p] = [attempt |-> call[p].attempt, status |-> "done"]]
          BY <2>t, <4>2, <5>0
        <5>2. [attempt |-> call[p].attempt, status |-> "done"] \in Record
          BY <2>t DEF Record, Attempts
        <5>3. r.answers \in Nat
          BY DEF Run
        <5> QED
          BY <2>t, <4>2, <5>1, <5>2, <5>3
      <4>3. CASE NextAttempt(p, r.state) /\ UNCHANGED finding
        BY <2>t, <4>3, NextAttemptRecord
      <4> QED
        BY <3>1, <4>1, <4>2, <4>3 DEF Turn
    <3>4. TypeOK'
      BY <2>f, <2>t, <3>1, <3>3 DEF Turn
    <3>5. AskInv'
      <4>1. ASSUME NEW q \in Panel, NEW b \in Attempts
            PROVE  /\ Unpolled(q, b)' => Unpolled(q, b) /\ exec'[q][b] = exec[q][b]
                   /\ exec'[q][b].state \in Live =>
                         \/ exec'[q][b].answers <= MaxReask
                         \/ exec'[q][b] = exec[q][b]
        <5>1. Unpolled(q, b)' => Unpolled(q, b)
          <6>1. \/ call'[q] = call[q]
                \/ call'[q].attempt = call[q].attempt /\ call'[q].status # "scheduled"
                \/ call'[q].attempt = call[q].attempt + 1
            BY <3>3
          <6> QED
            BY <6>1, StaysPolled
        <5>2. ~(q = p /\ b = a) => exec'[q][b] = exec[q][b]
          BY <3>1 DEF Turn, Moves
        <5>3. q = p /\ b = a => ~Unpolled(q, b)
          BY <3>2 DEF AskInv
        <5>4. q = p /\ b = a /\ exec'[q][b].state \in Live => exec'[q][b].answers <= MaxReask
          BY <3>1 DEF Turn, Moves
        <5> QED
          BY <5>1, <5>2, <5>3, <5>4
      <4> QED
        BY <4>1, AskStep
    <3> QED
      BY <3>4, <3>5
  <2>4. CASE WorkerLost
    <3>1. /\ exec' \in [Panel -> [Attempts -> Run]]
          /\ \A p \in Panel, a \in Attempts :
               /\ exec[p][a].state \in Live => exec'[p][a].state = "lost"
               /\ exec[p][a].state \notin Live => exec'[p][a].state = exec[p][a].state
               /\ exec'[p][a].answers = exec[p][a].answers
      BY <2>4, WorkerLostMoves
    <3>2. UNCHANGED <<pc, call, finding, report>>
      BY <2>4 DEF WorkerLost
    <3>3. TypeOK'
      BY <2>f, <2>t, <3>1, <3>2
    <3>4. AskInv'
      BY <3>1, <3>2 DEF AskInv, Unpolled, Live
    <3> QED
      BY <3>3, <3>4
  <2>5. CASE Gather
    BY <2>5, <2>f, <2>t DEF Gather, AskInv, Unpolled
  <2>6. CASE Synthesize
    <3>1. Total(finding) \in Nat
      BY <2>t, TotalNat
    <3> QED
      BY <2>6, <2>f, <2>t, <3>1 DEF Synthesize, AskInv, Unpolled
  <2>7. CASE UNCHANGED vars
    BY <2>7, <2>f, <2>t DEF vars, AskInv, Unpolled
  <2> QED
    BY <2>1, <2>2, <2>3, <2>4, <2>5, <2>6, <2>7 DEF Next, Temporal, Workflow
<1> QED
  BY <1>1, <1>2, PTL DEF Spec

\* Whatever times out, dies, or answers late: no attempt is paid for more
\* answers than a first one and its re-asks, and every record has its type.
THEOREM TypeCorrect == Spec => []TypeOK
<1>1. TypeOK /\ AskInv => TypeOK
  OBVIOUS
<1> QED
  BY <1>1, AskInvHolds, PTL
-----------------------------------------------------------------------------
(* The history of a persona's attempts                                     *)

Ended == {"valid"} \cup Mendable \cup Final

\* What an attempt ended with stands, and so does its timeout.
EndsStand ==
    \A p \in Panel, a \in Attempts :
        /\ exec[p][a].state \in Ended =>
               exec'[p][a].state = exec[p][a].state /\ exec'[p][a].answers = exec[p][a].answers
        /\ exec[p][a].timedOut => exec'[p][a].timedOut

\* Attempt a of p left something to mend, or it is final and was good.
Mended(p, a) == exec[p][a].timedOut \/ exec[p][a].state \in Mendable
Good(p, a) == exec[p][a].state = "valid" /\ finding[p] = exec[p][a].answers
Hopeless(p, a) == a = MaxAttempts \/ exec[p][a].state \in Final

\* The record of p follows what its current attempt, a, came to.
Follows(p, a) ==
    \/ call'[p] = [attempt |-> a, status |-> "started"]
    \/ call'[p] = [attempt |-> a, status |-> "done"] /\ Good(p, a)'
    \/ call'[p] = [attempt |-> a + 1, status |-> "scheduled"] /\ Mended(p, a)'
    \/ call'[p] = [attempt |-> a, status |-> "failed"] /\ Hopeless(p, a)'

\* Only the workflow's wait leaves an activity open to change.
Advances(p) ==
    \/ call'[p] = call[p] /\ finding'[p] = finding[p]
    \/ /\ pc = "research" /\ pc' = pc /\ call[p].status \in {"scheduled", "started"}
       /\ \E a \in Attempts : a = call[p].attempt /\ Follows(p, a)

\* The history of one persona's attempts.
History(p) ==
    /\ \A a \in 1 .. call[p].attempt - 1 : Mended(p, a)
    /\ call[p].status = "failed" => Hopeless(p, call[p].attempt)
    /\ call[p].status = "done" => Good(p, call[p].attempt)

LEMMA HistoryAdvances ==
    ASSUME TypeOK, NEW p \in Panel, History(p), EndsStand, Advances(p)
    PROVE  History(p)'
<1> USE CallsAssumption DEF CallsAssumption
<1>0. PICK a \in Attempts : a = call[p].attempt
  BY DEF TypeOK
<1>1. a \in 1 .. MaxAttempts
  BY DEF Attempts
<1>2. \A b \in Attempts : Mended(p, b) => Mended(p, b)'
  BY DEF EndsStand, Mended, Ended
<1>3. \A b \in 1 .. a - 1 : b \in Attempts /\ Mended(p, b)'
  BY <1>0, <1>1, <1>2 DEF History, Attempts
<1>4. Hopeless(p, a) => Hopeless(p, a)'
  BY <1>1 DEF EndsStand, Hopeless, Ended, Attempts
<1>5. CASE call'[p] = call[p] /\ finding'[p] = finding[p]
  <2>1. Good(p, a) => Good(p, a)'
    BY <1>1, <1>5 DEF EndsStand, Good, Ended, Attempts
  <2> QED
    BY <1>0, <1>3, <1>4, <1>5, <2>1 DEF History
<1>6. CASE call'[p] = [attempt |-> a, status |-> "started"]
  BY <1>3, <1>6 DEF History
<1>7. CASE call'[p] = [attempt |-> a, status |-> "done"] /\ Good(p, a)'
  BY <1>3, <1>7 DEF History, Good
<1>8. CASE call'[p] = [attempt |-> a + 1, status |-> "scheduled"] /\ Mended(p, a)'
  <2>1. \A b \in 1 .. (a + 1) - 1 : b = a \/ b \in 1 .. a - 1
    BY <1>1
  <2>2. \A b \in 1 .. (a + 1) - 1 : Mended(p, b)'
    BY <1>3, <1>8, <2>1 DEF Mended
  <2> QED
    BY <1>8, <2>2 DEF History
<1>9. CASE call'[p] = [attempt |-> a, status |-> "failed"] /\ Hopeless(p, a)'
  BY <1>3, <1>9 DEF History, Hopeless
<1> QED
  BY <1>0, <1>5, <1>6, <1>7, <1>8, <1>9 DEF Advances, Follows

\* A step that leaves the activities' records alone.
LEMMA RecordsKept ==
    ASSUME UNCHANGED <<call, finding>>
    PROVE  \A q \in Panel : Advances(q)
  BY DEF Advances

LEMMA PollAdvances ==
    ASSUME TypeOK, AskInv, NEW p \in Panel, Poll(p)
    PROVE  EndsStand /\ \A q \in Panel : Advances(q)
<1>1. PICK r \in Run :
        /\ Moves(p, call[p].attempt, r)
        /\ r.state = "queued" /\ r.answers = 0 /\ r.timedOut = exec[p][call[p].attempt].timedOut
  BY PollMoves
<1>2. call[p] \in Record /\ call[p].attempt \in Attempts /\ call[p].status = "scheduled"
  BY DEF Poll, TypeOK, Record
<1>3. exec[p][call[p].attempt].state = "none"
  BY <1>2 DEF AskInv, Unpolled
<1>4. EndsStand
  BY <1>1, <1>3 DEF EndsStand, Ended, Moves, Mendable, Final
<1>5. [call[p] EXCEPT !.status = "started"] = [attempt |-> call[p].attempt, status |-> "started"]
  BY <1>2 DEF Record
<1>6. call' = [call EXCEPT ![p] = [attempt |-> call[p].attempt, status |-> "started"]]
  BY <1>5 DEF Poll, TypeOK
<1>7. call'[p] = [attempt |-> call[p].attempt, status |-> "started"]
  BY <1>6 DEF TypeOK
<1>8. Advances(p)
  BY <1>2, <1>7 DEF Advances, Follows, Poll
<1>9. \A q \in Panel : q # p => Advances(q)
  BY <1>6 DEF Advances, Poll, TypeOK
<1> QED
  BY <1>4, <1>8, <1>9

\* An attempt that Temporal waits for ended with something to retry or not.
LEMMA NextAttemptAdvances ==
    ASSUME TypeOK, NEW p \in Panel, NEW kind, pc = "research", UNCHANGED <<pc, finding>>,
           call[p].status = "started", NextAttempt(p, kind),
           NEW a \in Attempts, a = call[p].attempt,
           Retryable(kind) => Mended(p, a)', ~Retryable(kind) => Hopeless(p, a)'
    PROVE  \A q \in Panel : Advances(q)
<1>1. /\ \A q \in Panel : q # p => call'[q] = call[q]
      /\ \/ Retryable(kind) /\ call'[p] = [attempt |-> a + 1, status |-> "scheduled"]
         \/ /\ ~Retryable(kind) \/ a = MaxAttempts
            /\ call'[p] = [attempt |-> a, status |-> "failed"]
  BY NextAttemptRecord
<1>2. a = MaxAttempts => Hopeless(p, a)'
  BY DEF Hopeless
<1>3. Follows(p, a)
  BY <1>1, <1>2 DEF Follows
<1> QED
  BY <1>1, <1>3 DEF Advances

LEMMA TimeOutAdvances ==
    ASSUME TypeOK, NEW p \in Panel, TimeOut(p)
    PROVE  EndsStand /\ \A q \in Panel : Advances(q)
<1>1. PICK r \in Run :
        /\ Moves(p, call[p].attempt, r)
        /\ r.timedOut /\ r.state = exec[p][call[p].attempt].state
        /\ r.answers = exec[p][call[p].attempt].answers
  BY TimeOutMoves
<1>2. PICK a \in Attempts : a = call[p].attempt
  BY DEF TypeOK
<1>3. EndsStand
  BY <1>1 DEF EndsStand, Moves
<1>4. Mended(p, a)'
  BY <1>1, <1>2 DEF Mended, Moves
<1>5. Retryable("transient")
  BY DEF Retryable, Final
<1>6. /\ pc = "research" /\ UNCHANGED <<pc, finding>>
      /\ call[p].status = "started" /\ NextAttempt(p, "transient")
  BY DEF TimeOut, Overdue
<1>7. \A q \in Panel : Advances(q)
  BY <1>2, <1>4, <1>5, <1>6, NextAttemptAdvances
<1> QED
  BY <1>3, <1>7

LEMMA AttemptAdvances ==
    ASSUME TypeOK, AskInv, NEW p \in Panel, NEW a \in Attempts, Attempt(p, a)
    PROVE  EndsStand /\ \A q \in Panel : Advances(q)
<1>1. PICK r \in Run : Turn(p, a, r)
  BY AttemptTurns
<1>2. exec'[p][a] = r
  BY <1>1 DEF Turn, Moves
<1>3. exec[p][a].state \notin Ended
  BY <1>1 DEF Turn, Live, Ended, Mendable, Final
<1>4. EndsStand
  BY <1>1, <1>3 DEF EndsStand, Turn, Moves
<1>5. CASE UNCHANGED <<call, finding>>
  BY <1>4, <1>5, RecordsKept
<1>6. CASE /\ Awaited(p, a) /\ r.state = "valid"
           /\ call' = [call EXCEPT ![p].status = "done"]
           /\ finding' = [finding EXCEPT ![p] = r.answers]
  <2>1. /\ call[p] = [attempt |-> a, status |-> "started"]
        /\ call[p].attempt = a /\ call[p].status = "started"
        /\ pc = "research" /\ pc' = pc
    BY <1>1, <1>6 DEF Awaited, Turn
  <2>2. [call[p] EXCEPT !.status = "done"] = [attempt |-> a, status |-> "done"]
    BY <2>1
  <2>3. call' = [call EXCEPT ![p] = [attempt |-> a, status |-> "done"]]
    BY <1>6, <2>2 DEF TypeOK
  <2>4. call'[p] = [attempt |-> a, status |-> "done"] /\ finding'[p] = r.answers
    BY <1>6, <2>3 DEF TypeOK
  <2>5. Good(p, a)'
    BY <1>2, <1>6, <2>4 DEF Good
  <2>6. Advances(p)
    BY <2>1, <2>4, <2>5 DEF Advances, Follows
  <2>7. \A q \in Panel : q # p => Advances(q)
    BY <1>6, <2>3 DEF Advances, TypeOK
  <2> QED
    BY <1>4, <2>6, <2>7
<1>7. CASE /\ Awaited(p, a) /\ r.state \in {"gave_up", "permanent", "transient"}
           /\ NextAttempt(p, r.state) /\ UNCHANGED finding
  <2>1. /\ call[p].attempt = a /\ call[p].status = "started"
        /\ pc = "research" /\ UNCHANGED <<pc, finding>>
    BY <1>1, <1>7 DEF Awaited, Turn
  <2>2. Retryable(r.state) => Mended(p, a)'
    BY <1>2, <1>7 DEF Retryable, Final, Mended, Mendable
  <2>3. ~Retryable(r.state) => Hopeless(p, a)'
    BY <1>2 DEF Retryable, Hopeless
  <2>4. \A q \in Panel : Advances(q)
    BY <1>7, <2>1, <2>2, <2>3, NextAttemptAdvances
  <2> QED
    BY <1>4, <2>4
<1> QED
  BY <1>1, <1>5, <1>6, <1>7 DEF Turn

\* In every step ends stand, and records follow what their attempts came to.
LEMMA StepAdvances ==
    ASSUME TypeOK, AskInv, [Next]_vars
    PROVE  EndsStand /\ \A q \in Panel : Advances(q)
<1>1. ASSUME NEW p \in Panel, Temporal(p) PROVE EndsStand /\ \A q \in Panel : Advances(q)
  BY <1>1, PollAdvances, TimeOutAdvances DEF Temporal
<1>2. CASE WorkerLost
  <2>1. EndsStand
    BY <1>2, WorkerLostMoves DEF EndsStand, Ended, Live, Mendable, Final
  <2> QED
    BY <1>2, <2>1, RecordsKept DEF WorkerLost
<1>3. CASE Workflow \/ UNCHANGED vars
  <2>1. UNCHANGED <<call, exec, finding>>
    BY <1>3 DEF Workflow, Gather, Synthesize, vars
  <2>2. EndsStand
    BY <2>1 DEF EndsStand
  <2> QED
    BY <2>1, <2>2, RecordsKept
<1> QED
  BY <1>1, <1>2, <1>3, AttemptAdvances DEF Next
\* The workflow no longer waits for attempt b of q.
Over(q, b) ==
    \/ b < call[q].attempt
    \/ b = call[q].attempt /\ call[q].status = "failed"

\* What timed out is over: it was retried, or it was the last attempt.
TimelyInv == \A q \in Panel, b \in Attempts : exec[q][b].timedOut => Over(q, b)

LEMMA StaysOver ==
    ASSUME TypeOK, NEW q \in Panel, NEW b \in Attempts, Advances(q), Over(q, b)
    PROVE  Over(q, b)'
<1>1. b \in Nat /\ call[q].attempt \in Nat
  BY CallsAssumption DEF CallsAssumption, TypeOK, Attempts
<1>2. CASE call'[q] = call[q]
  BY <1>2 DEF Over
<1>3. CASE call[q].status \in {"scheduled", "started"} /\ Follows(q, call[q].attempt)
  <2>1. b < call[q].attempt
    BY <1>3 DEF Over
  <2>2. call'[q].attempt \in {call[q].attempt, call[q].attempt + 1}
    BY <1>3 DEF Follows
  <2> QED
    BY <1>1, <2>1, <2>2 DEF Over
<1> QED
  BY <1>2, <1>3 DEF Advances

\* Start-to-close ends the attempt that it strikes, and nothing else times out.
LEMMA TimesOutOver ==
    ASSUME TypeOK, AskInv, [Next]_vars, NEW q \in Panel, NEW b \in Attempts, exec'[q][b].timedOut
    PROVE  exec[q][b].timedOut \/ Over(q, b)'
<1>1. CASE \E p \in Panel : TimeOut(p)
  <2>1. PICK p \in Panel : TimeOut(p)
    BY <1>1
  <2>2. PICK r \in Run : Moves(p, call[p].attempt, r)
    BY <2>1, TimeOutMoves
  <2>3. CASE q = p /\ b = call[p].attempt
    <3>1. /\ call[p].attempt \in Nat
          /\ \/ call'[p] = [attempt |-> call[p].attempt + 1, status |-> "scheduled"]
             \/ call'[p] = [attempt |-> call[p].attempt, status |-> "failed"]
      BY <2>1, NextAttemptRecord, CallsAssumption
         DEF TimeOut, CallsAssumption, TypeOK, Attempts
    <3> QED
      BY <2>3, <3>1 DEF Over
  <2>4. CASE ~(q = p /\ b = call[p].attempt)
    BY <2>2, <2>4 DEF Moves
  <2> QED
    BY <2>3, <2>4
<1>2. CASE \E p \in Panel : Poll(p)
  <2>1. PICK p \in Panel : Poll(p)
    BY <1>2
  <2>2. PICK r \in Run : Moves(p, call[p].attempt, r) /\ r.timedOut = exec[p][call[p].attempt].timedOut
    BY <2>1, PollMoves
  <2> QED
    BY <2>2 DEF Moves
<1>3. CASE \E p \in Panel, a \in Attempts : Attempt(p, a)
  <2>1. PICK p \in Panel, a \in Attempts : Attempt(p, a)
    BY <1>3
  <2>2. PICK r \in Run : Turn(p, a, r)
    BY <2>1, AttemptTurns
  <2> QED
    BY <2>2 DEF Turn, Moves
<1>4. CASE WorkerLost
  BY <1>4, WorkerLostMoves
<1>5. CASE Workflow \/ UNCHANGED vars
  BY <1>5 DEF Workflow, Gather, Synthesize, vars
<1> QED
  BY <1>1, <1>2, <1>3, <1>4, <1>5 DEF Next, Temporal

LEMMA TimelyInvHolds == Spec => []TimelyInv
<1>1. Init => TimelyInv
  BY DEF Init, TimelyInv
<1>2. TypeOK /\ AskInv /\ TimelyInv /\ [Next]_vars => TimelyInv'
  BY StepAdvances, TimesOutOver, StaysOver DEF TimelyInv
<1> QED
  BY <1>1, <1>2, AskInvHolds, PTL DEF Spec

-----------------------------------------------------------------------------
(* The workflow                                                            *)

\* The report is written when all activities are done, from their findings.
HistoryInv ==
    /\ \A p \in Panel : History(p)
    /\ pc \in {"synthesize", "reported"} => \A p \in Panel : call[p].status = "done"
    /\ pc = "reported" => report = Total(finding)

\* Once the research is over, no step touches a record or a finding.
LEMMA Closed ==
    ASSUME \A q \in Panel : Advances(q), NEW q \in Panel,
           pc # "research" \/ pc' # pc \/ call[q].status \in {"done", "failed"}
    PROVE  call'[q] = call[q] /\ finding'[q] = finding[q]
  BY DEF Advances

\* No other step moves the workflow, or writes its report.
LEMMA OnlyWorkflow ==
    ASSUME [Next]_vars
    PROVE  Workflow \/ UNCHANGED <<pc, report>>
<1>1. ASSUME NEW p \in Panel, Temporal(p) PROVE UNCHANGED <<pc, report>>
  BY <1>1 DEF Temporal, Poll, TimeOut
<1>2. ASSUME NEW p \in Panel, NEW a \in Attempts, Attempt(p, a) PROVE UNCHANGED <<pc, report>>
  <2>1. CASE Malformed(p, a)
    BY <2>1 DEF Malformed, Raises
  <2>2. CASE ProviderError(p, a)
    BY <2>2 DEF ProviderError, Raises
  <2> QED
    BY <1>2, <2>1, <2>2 DEF Attempt, Begin, Answer, Stopped
<1> QED
  BY <1>1, <1>2 DEF Next, WorkerLost, vars

LEMMA HistoryInvHolds == Spec => [](TypeOK /\ HistoryInv)
<1>1. Init => HistoryInv
  <2> SUFFICES ASSUME Init PROVE HistoryInv
    OBVIOUS
  <2>1. \A p \in Panel : call[p].attempt = 1 /\ call[p].status = "scheduled"
    BY DEF Init
  <2>2. \A p \in Panel : History(p)
    BY <2>1 DEF History
  <2> QED
    BY <2>2 DEF HistoryInv, Init
<1>2. TypeOK /\ AskInv /\ TypeOK' /\ HistoryInv /\ [Next]_vars => HistoryInv'
  <2> SUFFICES ASSUME TypeOK, TypeOK', AskInv, HistoryInv, [Next]_vars PROVE HistoryInv'
    OBVIOUS
  <2>1. EndsStand /\ \A q \in Panel : Advances(q)
    BY StepAdvances
  <2>2. \A p \in Panel : History(p)'
    BY <2>1, HistoryAdvances DEF HistoryInv
  <2>3. Workflow \/ UNCHANGED <<pc, report>>
    BY OnlyWorkflow
  <2>4. pc' \in {"synthesize", "reported"} => \A p \in Panel : call'[p].status = "done"
    <3> SUFFICES ASSUME pc' \in {"synthesize", "reported"}
                 PROVE  \A p \in Panel : call'[p].status = "done"
      OBVIOUS
    <3>1. \A p \in Panel : call[p].status = "done"
      BY <2>3 DEF Workflow, Gather, AllAnswered, Synthesize, HistoryInv
    <3> QED
      BY <2>1, <3>1, Closed
  <2>5. pc' = "reported" => report' = Total(finding')
    <3> SUFFICES ASSUME pc' = "reported" PROVE report' = Total(finding')
      OBVIOUS
    <3>1. CASE UNCHANGED <<pc, report>>
      <4>1. \A q \in Panel : finding'[q] = finding[q]
        BY <2>1, <3>1, Closed
      <4>2. finding' = finding
        BY <4>1 DEF TypeOK
      <4> QED
        BY <3>1, <4>2 DEF HistoryInv
    <3>2. CASE Workflow
      BY <3>2 DEF Workflow, Gather, Synthesize
    <3> QED
      BY <2>3, <3>1, <3>2
  <2>6. (pc = "reported" => report = Total(finding))'
    BY <2>5
  <2> QED
    BY <2>2, <2>4, <2>6 DEF HistoryInv
<1> QED
  BY <1>1, <1>2, AskInvHolds, PTL DEF Spec

\* Money is only spent again on what a retry can mend, whatever abandoned
\* attempts and dying workers do in between.
THEOREM RetryPolicyHolds == Spec => []RetryPolicyKept
<1>1. TypeOK /\ HistoryInv => RetryPolicyKept
  BY DEF HistoryInv, History, Mended, Hopeless, RetryPolicyKept
<1> QED
  BY <1>1, HistoryInvHolds, PTL

\* There is no report without an answer in time of every persona, and it counts
\* all answers of one good attempt each, and none of those that were abandoned.
THEOREM ReportCounts == Spec => []ReportCountsPanel
<1>1. TypeOK /\ HistoryInv /\ TimelyInv => ReportCountsPanel
  <2> SUFFICES ASSUME TypeOK, HistoryInv, TimelyInv, pc = "reported" PROVE ReportCountsPanel
    BY DEF ReportCountsPanel
  <2>1. \A p \in Panel : Good(p, call[p].attempt)
    BY DEF HistoryInv, History
  <2>2. finding = [p \in Panel |-> exec[p][call[p].attempt].answers]
    BY <2>1 DEF Good, TypeOK
  <2>3. report = Total(finding)
    BY DEF HistoryInv
  <2>4. ASSUME NEW p \in Panel PROVE ~exec[p][call[p].attempt].timedOut
    <3>1. call[p].attempt \in Attempts /\ call[p].attempt \in Nat /\ call[p].status = "done"
      BY CallsAssumption DEF CallsAssumption, HistoryInv, TypeOK, Attempts
    <3> QED
      BY <3>1 DEF TimelyInv, Over
  <2> QED
    BY <2>1, <2>2, <2>3, <2>4 DEF ReportCountsPanel, Good
<1> QED
  BY <1>1, HistoryInvHolds, TimelyInvHolds, PTL
-----------------------------------------------------------------------------
(* How long a panel can go on                                              *)

\* The steps an activity's record may still take: a start and an end for every
\* attempt that is left.
RecordLeft(p) ==
    CASE call[p].status = "scheduled" -> 2 * (MaxAttempts - call[p].attempt) + 2
      [] call[p].status = "started" -> 2 * (MaxAttempts - call[p].attempt) + 1
      [] OTHER -> 0

FlowLeft == CASE pc = "research" -> 2 [] pc = "synthesize" -> 1 [] OTHER -> 0

\* Numbers that no step raises, as many as there are attempts and personas.
Left(p, a) == RunLeft(exec[p][a])

LeftTyped ==
    /\ FlowLeft \in Nat
    /\ \A p \in Panel : RecordLeft(p) \in Nat /\ \A a \in Attempts : Left(p, a) \in Nat

NothingRaised ==
    /\ FlowLeft' <= FlowLeft
    /\ \A p \in Panel :
         RecordLeft(p)' <= RecordLeft(p) /\ \A a \in Attempts : Left(p, a)' <= Left(p, a)

SomethingLowered ==
    \/ FlowLeft' < FlowLeft
    \/ \E p \in Panel :
         RecordLeft(p)' < RecordLeft(p) \/ \E a \in Attempts : Left(p, a)' < Left(p, a)

LEMMA LeftIsTyped == ASSUME TypeOK, AskInv PROVE LeftTyped
<1> USE CallsAssumption DEF CallsAssumption
<1>1. FlowLeft \in Nat
  BY DEF FlowLeft
<1>2. ASSUME NEW p \in Panel PROVE RecordLeft(p) \in Nat
  <2>1. call[p].attempt \in 1 .. MaxAttempts
    BY DEF TypeOK, Attempts
  <2> QED
    BY <2>1 DEF RecordLeft
<1>3. ASSUME NEW p \in Panel, NEW a \in Attempts PROVE Left(p, a) \in Nat
  <2>1. exec[p][a] \in Run
    BY DEF TypeOK, Run
  <2>2. exec[p][a].answers \in 0 .. MaxReask + 1
    BY <2>1 DEF Run
  <2>3. CASE exec[p][a].state \in Live
    <3>1. exec[p][a].answers <= MaxReask
      BY <2>3 DEF AskInv
    <3> QED
      BY <2>1, <2>2, <2>3, <3>1, LiveLeft DEF Left, Live
  <2>4. CASE exec[p][a].state = "none"
    BY <2>4 DEF Left, RunLeft
  <2>5. CASE exec[p][a].state \notin Live /\ exec[p][a].state # "none"
    BY <2>1, <2>5, EndedLeft DEF Left
  <2> QED
    BY <2>3, <2>4, <2>5
<1> QED
  BY <1>1, <1>2, <1>3 DEF LeftTyped

\* No record goes back.
LEMMA RecordsFall ==
    ASSUME TypeOK, NEW p \in Panel, Advances(p)
    PROVE  RecordLeft(p)' <= RecordLeft(p)
<1> USE CallsAssumption DEF CallsAssumption
<1>1. call[p].attempt \in 1 .. MaxAttempts
  BY DEF TypeOK, Attempts
<1>2. CASE call'[p] = call[p]
  BY <1>1, <1>2 DEF RecordLeft
<1>3. CASE /\ call[p].status \in {"scheduled", "started"}
           /\ \E a \in Attempts : a = call[p].attempt /\ Follows(p, a)
  <2>1. RecordLeft(p) \in Nat /\ RecordLeft(p) >= 2 * (MaxAttempts - call[p].attempt) + 1
    BY <1>1, <1>3 DEF RecordLeft
  <2>2. \/ call'[p] = [attempt |-> call[p].attempt, status |-> "started"]
        \/ call'[p].status \in {"done", "failed"}
        \/ call'[p] = [attempt |-> call[p].attempt + 1, status |-> "scheduled"]
    BY <1>3 DEF Follows
  <2>3. RecordLeft(p)' <= 2 * (MaxAttempts - call[p].attempt) + 1
    BY <1>1, <2>2 DEF RecordLeft
  <2>4. RecordLeft(p)' \in Int
    BY <1>1, <2>2 DEF RecordLeft
  <2> QED
    BY <1>1, <2>1, <2>3, <2>4
<1> QED
  BY <1>2, <1>3 DEF Advances

\* Only attempt a of p moves, and it has no more steps left than before.
LEMMA RunsFall ==
    ASSUME TypeOK, AskInv, NEW p \in Panel, NEW a \in Attempts, NEW r \in Run,
           Moves(p, a, r), RunLeft(r) <= Left(p, a)
    PROVE  /\ \A q \in Panel, b \in Attempts : Left(q, b)' <= Left(q, b)
           /\ RunLeft(r) < Left(p, a) => Left(p, a)' < Left(p, a)
<1>1. \A q \in Panel, b \in Attempts : Left(q, b) \in Nat
  BY LeftIsTyped DEF LeftTyped
<1>2. \A q \in Panel, b \in Attempts :
        Left(q, b)' = IF q = p /\ b = a THEN RunLeft(r) ELSE Left(q, b)
  BY DEF Moves, Left, RunLeft
<1> QED
  BY <1>1, <1>2

LEMMA StepLowers ==
    ASSUME TypeOK, AskInv, Next
    PROVE  NothingRaised /\ SomethingLowered
<1> USE CallsAssumption DEF CallsAssumption
<1>0. LeftTyped
  BY LeftIsTyped
<1>1. \A q \in Panel : RecordLeft(q)' <= RecordLeft(q)
  BY StepAdvances, RecordsFall
<1>2. UNCHANGED pc => FlowLeft' <= FlowLeft
  BY <1>0 DEF FlowLeft, LeftTyped
<1>3. ASSUME NEW p \in Panel, Poll(p) PROVE NothingRaised /\ SomethingLowered
  <2>1. call[p].attempt \in Attempts /\ call[p].status = "scheduled" /\ pc' = pc
    BY <1>3 DEF TypeOK, Poll
  <2>2. PICK r \in Run : Moves(p, call[p].attempt, r) /\ r.state = "queued"
    BY <1>3, PollMoves
  <2>3. exec[p][call[p].attempt].state = "none"
    BY <2>1 DEF AskInv, Unpolled
  <2>4. RunLeft(r) < Left(p, call[p].attempt)
    BY <2>2, <2>3 DEF Left, RunLeft
  <2>5. RunLeft(r) <= Left(p, call[p].attempt)
    BY <2>2, <2>3 DEF Left, RunLeft
  <2>6. PICK a \in Attempts : a = call[p].attempt
    BY <2>1
  <2>7. /\ \A q \in Panel, b \in Attempts : Left(q, b)' <= Left(q, b)
        /\ Left(p, a)' < Left(p, a)
    BY <2>2, <2>4, <2>5, <2>6, RunsFall
  <2> QED
    BY <1>1, <1>2, <2>1, <2>7 DEF NothingRaised, SomethingLowered
<1>4. ASSUME NEW p \in Panel, TimeOut(p) PROVE NothingRaised /\ SomethingLowered
  <2>1. /\ call[p].attempt \in 1 .. MaxAttempts /\ call[p].attempt \in Attempts
        /\ call[p].status = "started" /\ pc' = pc
    BY <1>4 DEF TypeOK, TimeOut, Overdue, Attempts
  <2>2. PICK r \in Run :
          /\ Moves(p, call[p].attempt, r) /\ r.state = exec[p][call[p].attempt].state
          /\ r.answers = exec[p][call[p].attempt].answers
    BY <1>4, TimeOutMoves
  <2>3. RunLeft(r) = Left(p, call[p].attempt)
    BY <2>2 DEF Left, RunLeft
  <2>4. RunLeft(r) <= Left(p, call[p].attempt)
    BY <1>0, <2>1, <2>3 DEF LeftTyped
  <2>5. \A q \in Panel, b \in Attempts : Left(q, b)' <= Left(q, b)
    BY <2>1, <2>2, <2>4, RunsFall
  <2>6. \/ call'[p] = [attempt |-> call[p].attempt + 1, status |-> "scheduled"]
        \/ call'[p] = [attempt |-> call[p].attempt, status |-> "failed"]
    BY <1>4, NextAttemptRecord DEF TimeOut
  <2>7. RecordLeft(p)' < RecordLeft(p)
    BY <2>1, <2>6 DEF RecordLeft
  <2> QED
    BY <1>1, <1>2, <2>1, <2>5, <2>7 DEF NothingRaised, SomethingLowered
<1>5. ASSUME NEW p \in Panel, NEW a \in Attempts, Attempt(p, a)
      PROVE  NothingRaised /\ SomethingLowered
  <2>1. PICK r \in Run : Turn(p, a, r)
    BY <1>5, AttemptTurns
  <2>2. Moves(p, a, r) /\ RunLeft(r) < Left(p, a) /\ pc' = pc
    BY <2>1 DEF Turn, Left
  <2>3. RunLeft(r) <= Left(p, a)
    <3>1. RunLeft(r) \in Int
      <4>1. r.answers \in Int
        BY DEF Run
      <4> QED
        BY <4>1 DEF RunLeft
    <3> QED
      BY <1>0, <2>2, <3>1 DEF LeftTyped
  <2>4. /\ \A q \in Panel, b \in Attempts : Left(q, b)' <= Left(q, b)
        /\ Left(p, a)' < Left(p, a)
    BY <2>2, <2>3, RunsFall
  <2> QED
    BY <1>1, <1>2, <2>2, <2>4 DEF NothingRaised, SomethingLowered
<1>6. CASE WorkerLost
  <2>1. \A q \in Panel, b \in Attempts :
          Left(q, b)' = IF exec[q][b].state \in Live THEN 0 ELSE Left(q, b)
    <3> SUFFICES ASSUME NEW q \in Panel, NEW b \in Attempts
                 PROVE  Left(q, b)' = IF exec[q][b].state \in Live THEN 0 ELSE Left(q, b)
      OBVIOUS
    <3>1. /\ exec[q][b].state \in Live => exec'[q][b].state = "lost"
          /\ exec[q][b].state \notin Live => exec'[q][b].state = exec[q][b].state
          /\ exec'[q][b].answers = exec[q][b].answers
      BY <1>6, WorkerLostMoves
    <3> QED
      BY <3>1 DEF Left, RunLeft
  <2>2. \A q \in Panel, b \in Attempts : exec[q][b].state \in Live => Left(q, b) > 0
    <3> SUFFICES ASSUME NEW q \in Panel, NEW b \in Attempts, exec[q][b].state \in Live
                 PROVE  Left(q, b) > 0
      OBVIOUS
    <3>1. exec[q][b] \in Run /\ exec[q][b].answers <= MaxReask
      BY DEF TypeOK, Run, AskInv
    <3> QED
      BY <3>1, LiveLeft DEF Left
  <2>3. PICK p \in Panel, a \in Attempts : exec[p][a].state \in Live
    BY <1>6 DEF WorkerLost
  <2>4. pc' = pc
    BY <1>6 DEF WorkerLost
  <2>5. \A q \in Panel, b \in Attempts : Left(q, b)' <= Left(q, b)
    BY <1>0, <2>1 DEF LeftTyped
  <2>6. Left(p, a)' < Left(p, a)
    BY <2>1, <2>2, <2>3
  <2> QED
    BY <1>1, <1>2, <2>4, <2>5, <2>6 DEF NothingRaised, SomethingLowered
<1>7. CASE Workflow
  <2>1. UNCHANGED exec
    BY <1>7 DEF Workflow, Gather, Synthesize
  <2>2. \A q \in Panel, b \in Attempts : Left(q, b)' <= Left(q, b)
    BY <1>0, <2>1 DEF LeftTyped, Left
  <2>3. \/ pc = "research" /\ pc' \in {"failed", "synthesize"}
        \/ pc = "synthesize" /\ pc' \in {"reported", "failed"}
    BY <1>7 DEF Workflow, Gather, Synthesize
  <2>4. FlowLeft' < FlowLeft /\ FlowLeft' <= FlowLeft
    BY <2>3 DEF FlowLeft
  <2> QED
    BY <1>1, <2>2, <2>4 DEF NothingRaised, SomethingLowered
<1> QED
  BY <1>3, <1>4, <1>5, <1>6, <1>7 DEF Next, Temporal

\* A panel is over after finitely many steps, whatever times out, is asked
\* again, or dies with its worker: every step, those of abandoned attempts
\* included, lowers one of finitely many natural numbers and raises none.
THEOREM StepsBounded ==
    Spec => []LeftTyped /\ [][NothingRaised /\ SomethingLowered]_vars
<1>1. TypeOK /\ AskInv => LeftTyped
  BY LeftIsTyped
<1>2. TypeOK /\ AskInv /\ [Next]_vars => [NothingRaised /\ SomethingLowered]_vars
  BY StepLowers
<1> QED
  BY <1>1, <1>2, AskInvHolds, PTL DEF Spec
=============================================================================
