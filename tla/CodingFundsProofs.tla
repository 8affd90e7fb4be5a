--------------------------- MODULE CodingFundsProofs ---------------------------
(***************************************************************************)
(* Proofs about CodingFunds, for plans of any length, any number of         *)
(* attempts, and whatever amounts people type.  First the arithmetic: the   *)
(* sum over the stories, the smaller and the larger of two numbers, and the *)
(* division that rounds up.  Then the types; the card and the gate; and the *)
(* caps and the dollars of the sessions.                                   *)
(***************************************************************************)
EXTENDS CodingFunds, FiniteSetTheorems, SequenceTheorems, WellFoundedInduction, TLAPS

Less == OpToRel(<, Nat)

\* Induction, with a set in the place of a predicate.
LEMMA SetInduction ==
    ASSUME NEW S, 0 \in S, \A n \in Nat : n \in S => n + 1 \in S
    PROVE  Nat \subseteq S
<1> SUFFICES ASSUME Nat \ S # {} PROVE FALSE
  OBVIOUS
<1>1. PICK n \in Nat \ S : \A m \in Nat \ S : <<m, n>> \notin Less
  <2>1. IsWellFoundedOn(Less, Nat)
    BY NatLessThanWellFounded DEF Less
  <2>2. Nat \ S \subseteq Nat
    OBVIOUS
  <2> QED
    BY <2>1, <2>2, WFMin
<1>2. n # 0 /\ n - 1 \in Nat /\ n - 1 < n /\ (n - 1) + 1 = n
  BY <1>1
<1>3. <<n - 1, n>> \in Less
  BY <1>1, <1>2 DEF Less, OpToRel
<1>4. n - 1 \in S
  BY <1>1, <1>2, <1>3
<1> QED
  BY <1>1, <1>2, <1>4
-----------------------------------------------------------------------------
(* The sum over the stories                                                *)

\* How the sum over s is computed, from the function g of the results on
\* smaller sets.
Pick(s) == CHOOSE x \in s : TRUE
Small(n) == {s \in SUBSET DOMAIN tiers : Cardinality(s) <= n}
Rule(g, s) == IF s = {} THEN 0 ELSE Priced(tiers[Pick(s)]) + g[s \ {Pick(s)}]

\* Every tier has a price.
LEMMA PricedNat == \A tier : Priced(tier) \in Nat
  BY DEF Priced, EstStory, Tiers

LEMMA StoriesFinite ==
    ASSUME TypeOK
    PROVE  /\ Len(tiers) \in Nat /\ DOMAIN tiers = 1 .. Len(tiers)
           /\ IsFiniteSet(DOMAIN tiers)
           /\ \A s \in SUBSET DOMAIN tiers :
                IsFiniteSet(s) /\ Cardinality(s) \in Nat /\ Cardinality(s) <= Len(tiers)
<1>0. tiers \in Seq(Tiers \cup {""})
  BY DEF TypeOK
<1>1. Len(tiers) \in Nat /\ DOMAIN tiers = 1 .. Len(tiers)
  BY <1>0, LenProperties
<1>2. IsFiniteSet(1 .. Len(tiers))
  BY <1>1, FS_Interval
<1>3. Cardinality(1 .. Len(tiers)) = Len(tiers)
  <2>1. Cardinality(1 .. Len(tiers)) = IF 1 > Len(tiers) THEN 0 ELSE Len(tiers) - 1 + 1
    BY <1>1, FS_Interval
  <2> QED
    BY <1>1, <2>1
<1> QED
  BY <1>1, <1>2, <1>3, FS_Subset, FS_CardinalityType

LEMMA Smaller ==
    ASSUME TypeOK, NEW s \in SUBSET DOMAIN tiers, s # {}, NEW n \in Nat, Cardinality(s) <= n + 1
    PROVE  Pick(s) \in s /\ s \ {Pick(s)} \in Small(n)
<1>1. Pick(s) \in s
  BY DEF Pick
<1>2. IsFiniteSet(s) /\ Cardinality(s) \in Nat
  BY StoriesFinite
<1>3. Cardinality(s \ {Pick(s)}) = Cardinality(s) - 1
  BY <1>1, <1>2, FS_RemoveElement
<1> QED
  BY <1>1, <1>2, <1>3 DEF Small

\* The estimate is a number of cents, and no less than the base: first, the
\* recursive function that the sum stands for exists; then, its values are
\* natural.
LEMMA EstimateNat == TypeOK => EstimateCodingRun \in Nat /\ EstimateCodingRun >= EstBase
<1> SUFFICES ASSUME TypeOK PROVE EstimateCodingRun \in Nat /\ EstimateCodingRun >= EstBase
  OBVIOUS
<1> DEFINE N == Len(tiers)
           D == DOMAIN tiers
           Good == {n \in Nat : \E g \in [Small(n) -> Nat] : \A s \in Small(n) : g[s] = Rule(g, s)}
           Solves(g) == g = [s \in SUBSET D |-> Rule(g, s)]
<1>1. 0 \in Good
  <2>1. \A s \in Small(0) : s = {}
    BY StoriesFinite, FS_EmptySet DEF Small
  <2>2. [s \in Small(0) |-> 0] \in [Small(0) -> Nat]
    OBVIOUS
  <2> QED
    BY <2>1, <2>2 DEF Rule
<1>2. ASSUME NEW n \in Nat, n \in Good
      PROVE  n + 1 \in Good
  <2>1. PICK g \in [Small(n) -> Nat] : \A s \in Small(n) : g[s] = Rule(g, s)
    BY <1>2
  <2> DEFINE h == [s \in Small(n + 1) |-> IF s \in Small(n) THEN g[s] ELSE Rule(g, s)]
  <2>2. ASSUME NEW s \in Small(n + 1), s # {}
        PROVE  s \ {Pick(s)} \in Small(n) /\ s \ {Pick(s)} \in Small(n + 1)
    <3>1. s \ {Pick(s)} \in Small(n)
      BY <2>2, Smaller DEF Small
    <3>2. s \ {Pick(s)} \in Small(n + 1)
      BY <3>1, StoriesFinite DEF Small
    <3> QED
      BY <3>1, <3>2
  <2>3. ASSUME NEW s \in Small(n + 1) PROVE h[s] = Rule(g, s) /\ Rule(g, s) \in Nat
    <3>1. CASE s = {}
      BY <2>1, <3>1 DEF Rule
    <3>2. CASE s # {}
      <4>1. g[s \ {Pick(s)}] \in Nat /\ Priced(tiers[Pick(s)]) \in Nat
        BY <2>1, <2>2, <3>2, PricedNat
      <4> QED
        BY <2>1, <3>2, <4>1 DEF Rule
    <3> QED
      BY <3>1, <3>2
  <2>4. h \in [Small(n + 1) -> Nat]
    BY <2>3
  <2>5. \A s \in Small(n + 1) : Rule(g, s) = Rule(h, s)
    BY <2>2 DEF Rule
  <2> HIDE DEF h
  <2>6. \A s \in Small(n + 1) : h[s] = Rule(h, s)
    BY <2>3, <2>5
  <2> QED
    BY <2>4, <2>6
<1>3. N \in Good
  <2> HIDE DEF Good
  <2> QED
    BY <1>1, <1>2, SetInduction, StoriesFinite
<1>4. Small(N) = SUBSET D
  BY StoriesFinite DEF Small
<1>5. \E g : Solves(g)
  <2>1. PICK g \in [SUBSET D -> Nat] : \A s \in SUBSET D : g[s] = Rule(g, s)
    BY <1>3, <1>4
  <2> QED
    BY <2>1
<1> DEFINE sum == CHOOSE g : Solves(g)
<1>6. Solves(sum)
  BY <1>5
<1>7. MapThenSumSet(LAMBDA i : Priced(tiers[i]), D) = sum[D]
  BY DEF MapThenSumSet, MapThenFoldSet, Rule, Pick
<1> HIDE DEF sum
<1> DEFINE Typing == {n \in Nat : \A s \in Small(n) : sum[s] \in Nat}
<1>8. 0 \in Typing
  <2>1. \A s \in Small(0) : s = {} /\ s \in SUBSET D
    BY StoriesFinite, FS_EmptySet DEF Small
  <2> QED
    BY <2>1, <1>6 DEF Rule
<1>9. ASSUME NEW n \in Nat, n \in Typing
      PROVE  n + 1 \in Typing
  <2>1. ASSUME NEW s \in Small(n + 1) PROVE sum[s] \in Nat
    <3>1. sum[s] = Rule(sum, s)
      BY <1>6 DEF Small
    <3>2. CASE s = {}
      BY <3>1, <3>2 DEF Rule
    <3>3. CASE s # {}
      <4>1. s \ {Pick(s)} \in Small(n)
        BY <3>3, Smaller DEF Small
      <4>2. sum[s \ {Pick(s)}] \in Nat /\ Priced(tiers[Pick(s)]) \in Nat
        BY <4>1, <1>9, PricedNat
      <4> QED
        BY <3>1, <3>3, <4>2 DEF Rule
    <3> QED
      BY <3>2, <3>3
  <2> QED
    BY <2>1
<1>10. N \in Typing
  <2> HIDE DEF Typing
  <2> QED
    BY <1>8, <1>9, SetInduction, StoriesFinite
<1>11. sum[D] \in Nat
  BY <1>4, <1>10
<1>12. EstimateCodingRun = EstBase + (IF tiers = <<>> THEN Priced("sonnet") ELSE sum[D])
  BY <1>7 DEF EstimateCodingRun
<1>13. EstBase \in Nat
  BY DEF EstBase
<1> QED
  BY <1>11, <1>12, <1>13, PricedNat
-----------------------------------------------------------------------------
(* Bounds and divisions                                                    *)

LEMMA MinOfTwo ==
    ASSUME NEW a \in Nat, NEW b \in Nat
    PROVE  Min({a, b}) \in {a, b} /\ Min({a, b}) <= a /\ Min({a, b}) <= b
<1>1. \E x \in {a, b} : \A y \in {a, b} : x <= y
  BY DEF Min
<1> QED
  BY <1>1 DEF Min

LEMMA MaxOfTwo ==
    ASSUME NEW a \in Nat, NEW b \in Nat
    PROVE  Max({a, b}) \in {a, b} /\ Max({a, b}) >= a /\ Max({a, b}) >= b
<1>1. \E x \in {a, b} : \A y \in {a, b} : x >= y
  OBVIOUS
<1> QED
  BY <1>1 DEF Max

\* A division that rounds up loses nothing.
LEMMA RoundsUp == \A a \in Nat : (a + 249) \div 250 \in Nat /\ ((a + 249) \div 250) * 250 >= a
  OBVIOUS
-----------------------------------------------------------------------------
(* The caps of a session                                                   *)

\* What may still be spent, and how long it may take: enough for the budget, or
\* as long as the deployment allows at all.
CapsMeet(usd, turns, time) ==
    /\ turns * DefaultBudget >= DefaultTurns * usd
    /\ \/ time >= DefaultMinutes * usd
       \/ time = MaxMinutes * DefaultBudget
       \/ agent = "claude_container" /\ time = ContainerMinutes * DefaultBudget

LEMMA BudgetCap == TypeOK => Budget \in Nat /\ Budget > 0 /\ (funded > 0 => Budget = funded)
<1>1. TypeOK => funded \in Nat
  BY DEF TypeOK
<1> QED
  BY <1>1 DEF Budget, DefaultBudget

LEMMA TurnsCap == TypeOK => Turns \in Nat /\ Turns * DefaultBudget >= DefaultTurns * Budget
<1> SUFFICES ASSUME TypeOK PROVE Turns \in Nat /\ Turns * DefaultBudget >= DefaultTurns * Budget
  OBVIOUS
<1> DEFINE b == Budget
<1>1. b \in Nat
  BY BudgetCap
<1>2. Turns = IF b <= 250 THEN 70 ELSE (70 * b + 249) \div 250
  <2>1. 70 * b + 250 - 1 = 70 * b + 249
    BY <1>1
  <2> QED
    BY <2>1 DEF Turns, DefaultBudget, DefaultTurns
<1> HIDE DEF b
<1>3. CASE b <= 250
  BY <1>1, <1>2, <1>3 DEF DefaultBudget, DefaultTurns, b
<1>4. CASE b > 250
  <2>1. 70 * b \in Nat
    BY <1>1
  <2>2. Turns \in Nat /\ Turns * 250 >= 70 * b
    BY <1>1, <1>2, <1>4, <2>1, RoundsUp
  <2> QED
    BY <2>2 DEF DefaultBudget, DefaultTurns, b
<1> QED
  BY <1>1, <1>3, <1>4

LEMMA TimeCap ==
    TypeOK => /\ SessionTime \in Nat
              /\ \/ SessionTime >= DefaultMinutes * Budget
                 \/ SessionTime = MaxMinutes * DefaultBudget
                 \/ agent = "claude_container" /\ SessionTime = ContainerMinutes * DefaultBudget
<1> SUFFICES ASSUME TypeOK
             PROVE  /\ SessionTime \in Nat
                    /\ \/ SessionTime >= DefaultMinutes * Budget
                       \/ SessionTime = MaxMinutes * DefaultBudget
                       \/ /\ agent = "claude_container"
                          /\ SessionTime = ContainerMinutes * DefaultBudget
  OBVIOUS
<1> DEFINE m == Max({DefaultBudget, funded})
           t == DefaultMinutes * m
           limit == MaxMinutes * DefaultBudget
           patience == ContainerMinutes * DefaultBudget
<1>1. m \in Nat /\ m >= Budget
  <2>0. funded \in Nat
    BY DEF TypeOK
  <2>1. DefaultBudget \in Nat /\ funded \in Nat
    BY <2>0 DEF DefaultBudget
  <2>2. m \in {DefaultBudget, funded} /\ m >= DefaultBudget /\ m >= funded
    BY <2>1, MaxOfTwo
  <2> QED
    BY <2>1, <2>2 DEF Budget
<1>2. t \in Nat /\ limit \in Nat /\ patience \in Nat
  BY <1>1 DEF DefaultMinutes, MaxMinutes, DefaultBudget, ContainerMinutes
<1>3. t >= DefaultMinutes * Budget
  BY <1>1, BudgetCap DEF DefaultMinutes
<1>4. CodingTimeout \in Nat /\ (CodingTimeout = t \/ CodingTimeout = limit)
  <2>1. Min({t, limit}) \in {t, limit}
    BY <1>2, MinOfTwo
  <2> QED
    BY <1>2, <2>1 DEF CodingTimeout
<1>5. \/ SessionTime = CodingTimeout
      \/ agent = "claude_container" /\ SessionTime = patience
  <2>1. Min({patience, CodingTimeout}) \in {patience, CodingTimeout}
    BY <1>2, <1>4, MinOfTwo
  <2> QED
    BY <2>1 DEF SessionTime
<1> QED
  BY <1>2, <1>3, <1>4, <1>5

\* The plan's tier is one of its stories' or the default, and no story's tier
\* is above it.
LEMMA PlanTierTops ==
    TypeOK => /\ PlanTier \in Tiers
              /\ \A i \in DOMAIN tiers : tiers[i] # "" => Rank[tiers[i]] <= Rank[PlanTier]
<1> SUFFICES ASSUME TypeOK
             PROVE  /\ PlanTier \in Tiers
                    /\ \A i \in DOMAIN tiers : tiers[i] # "" => Rank[tiers[i]] <= Rank[PlanTier]
  OBVIOUS
<1> DEFINE known == {tiers[i] : i \in DOMAIN tiers} \ {""}
           Top(t) == t \in known /\ \A u \in known : Rank[u] <= Rank[t]
<1>1. known \subseteq Tiers
  <2>1. tiers \in Seq(Tiers \cup {""})
    BY DEF TypeOK
  <2>2. tiers \in [1 .. Len(tiers) -> Tiers \cup {""}]
    BY <2>1, LenProperties
  <2> QED
    BY <2>2
<1>2. CASE known = {}
  <2>1. PlanTier = "sonnet"
    BY <1>2 DEF PlanTier
  <2> QED
    BY <1>2, <2>1 DEF Tiers
<1>3. CASE known # {}
  <2>1. /\ Rank["haiku"] = 0 /\ Rank["sonnet"] = 1 /\ Rank["opus"] = 2
    BY DEF Rank
  <2> HIDE DEF known
  <2>2. \E t \in known : \A u \in known : Rank[u] <= Rank[t]
    <3>1. CASE "opus" \in known
      BY <1>1, <2>1, <3>1 DEF Tiers
    <3>2. CASE "opus" \notin known /\ "sonnet" \in known
      BY <1>1, <2>1, <3>2 DEF Tiers
    <3>3. CASE "opus" \notin known /\ "sonnet" \notin known
      <4>1. known = {"haiku"}
        BY <1>1, <1>3, <3>3 DEF Tiers
      <4> QED
        BY <2>1, <4>1
    <3> QED
      BY <3>1, <3>2, <3>3
  <2>3. PlanTier = CHOOSE t \in known : \A u \in known : Rank[u] <= Rank[t]
    BY <1>3 DEF PlanTier, known
  <2>4. PlanTier \in known /\ \A u \in known : Rank[u] <= Rank[PlanTier]
    BY <2>2, <2>3
  <2> QED
    BY <1>1, <2>4 DEF known
<1> QED
  BY <1>2, <1>3

LEMMA RankNat == \A t \in Tiers : Rank[t] \in Nat
<1>1. Rank["haiku"] = 0
  BY DEF Rank
<1>2. Rank["sonnet"] = 1
  BY DEF Rank
<1>3. Rank["opus"] = 2
  BY DEF Rank
<1>4. 0 \in Nat /\ 1 \in Nat /\ 2 \in Nat
  OBVIOUS
<1>5. \A t \in Tiers : t = "haiku" \/ t = "sonnet" \/ t = "opus"
  BY DEF Tiers
<1> QED
  BY <1>1, <1>2, <1>3, <1>4, <1>5

LEMMA AtMost == \A a, b, c \in Nat : a <= b /\ b <= c => a <= c
  OBVIOUS

\* Whoever works in a session, somebody is up to the plan's tier.
LEMMA WorkersStaff ==
    ASSUME TypeOK, NEW workers \in Workers
    PROVE  /\ workers \subseteq Tiers
           /\ \E w \in workers : Rank[PlanTier] <= Rank[w]
<1>1. PlanTier \in Tiers
  BY PlanTierTops
<1>2. Rank["haiku"] = 0 /\ Rank["sonnet"] = 1 /\ Rank["opus"] = 2
  BY DEF Rank
<1>3. workers = {PlanTier} \/ workers = {"sonnet", "opus"}
  BY DEF Workers
<1> QED
  BY <1>1, <1>2, <1>3 DEF Tiers

\* What a session comes to.
LEMMA SessionRuns ==
    ASSUME TypeOK, RunSession
    PROVE  /\ session' \in [usd : Nat, turns : Nat, time : Nat, workers : SUBSET Tiers]
           /\ CapsMeet(session'.usd, session'.turns, session'.time)
           /\ \E w \in session'.workers : Rank[PlanTier] <= Rank[w]
           /\ sessions' = sessions + 1
           /\ \E usd \in Nat : /\ spent' = spent + usd
                               /\ agent = "claude_agent_sdk" => usd <= Budget
<1>1. PICK workers \in Workers :
        session' = [usd |-> Budget, turns |-> Turns, time |-> SessionTime, workers |-> workers]
  BY DEF RunSession
<1>2. workers \in SUBSET Tiers /\ \E w \in workers : Rank[PlanTier] <= Rank[w]
  BY WorkersStaff
<1>3. Budget \in Nat /\ Turns \in Nat /\ SessionTime \in Nat
  BY BudgetCap, TurnsCap, TimeCap
<1>4. /\ session' \in [usd : Nat, turns : Nat, time : Nat, workers : SUBSET Tiers]
      /\ session'.usd = Budget /\ session'.turns = Turns /\ session'.time = SessionTime
      /\ session'.workers = workers
  BY <1>1, <1>2, <1>3
<1>5. CapsMeet(Budget, Turns, SessionTime)
  BY TurnsCap, TimeCap DEF CapsMeet
<1>6. PICK usd \in Spends : spent' = spent + usd
  BY DEF RunSession
<1>7. usd \in Nat /\ (agent = "claude_agent_sdk" => usd <= Budget)
  BY <1>3 DEF Spends
<1> QED
  BY <1>2, <1>4, <1>5, <1>6, <1>7 DEF RunSession
-----------------------------------------------------------------------------
(* Types                                                                   *)

Sessions == [usd : Nat, turns : Nat, time : Nat, workers : SUBSET Tiers]
Cards == [live : BOOLEAN, says : Says, amount : Nat]
Inboxes == [decision : Says, amount : Nat]

\* What a step of the next-state relation is, with the actions apart.
Step ==
    \/ PlanStories \/ EstimateCodingBudget
    \/ \E says \in {"approve", "reject", "custom"} : \E m \in Nat : Click(says, m)
    \/ CodingBudgetFunded \/ CodingBudgetDeclined \/ CodingBudgetTimesOut
    \/ CodingPass \/ CodingAttemptLost \/ PodEnds

LEMMA NextStep == Next => Step /\ UNCHANGED agent
  BY FundsAssumption DEF Next, Step, FundsAssumption

LEMMA SameLength == ASSUME NEW m \in Nat, NEW n \in Nat, 1 .. m = 1 .. n PROVE m = n
<1>1. m \in 1 .. m \/ m = 0
  OBVIOUS
<1>2. n \in 1 .. n \/ n = 0
  OBVIOUS
<1>3. m <= n \/ m = 0
  BY <1>1
<1>4. n <= m \/ n = 0
  BY <1>2
<1> QED
  BY <1>3, <1>4

LEMMA ParsedNat == \A m \in Nat : ParseDollars(m) \in Nat
  BY DEF ParseDollars

\* A click leaves a card that is gone and says what is in the inbox.
LEMMA ClickRecords ==
    ASSUME NEW says \in {"approve", "reject", "custom"}, NEW m \in Nat, Click(says, m)
    PROVE  /\ card' \in Cards /\ inbox' \in Inboxes
           /\ ~card'.live /\ card'.says = says /\ inbox'.decision = says
           /\ card'.amount = inbox'.amount
<1> DEFINE amount == IF says = "custom" THEN ParseDollars(m) ELSE 0
<1>1. amount \in Nat
  BY ParsedNat
<1>2. /\ inbox' = [decision |-> says, amount |-> amount]
      /\ card' = [live |-> FALSE, says |-> says, amount |-> amount]
  BY DEF Click
<1> HIDE DEF amount
<1> QED
  BY <1>1, <1>2 DEF Cards, Inboxes, Says

\* Every variable keeps its type, whatever people type and sessions do.
THEOREM TypeCorrect == Spec => []TypeOK
<1>1. Init => TypeOK
  <2> SUFFICES ASSUME Init PROVE TypeOK
    OBVIOUS
  <2>1. tiers \in Seq(Tiers \cup {""}) /\ Len(tiers) = 0 /\ 0 <= MaxStories
    BY FundsAssumption DEF Init, FundsAssumption
  <2>2. /\ card \in Cards /\ inbox \in Inboxes
        /\ session \in Sessions
    BY DEF Init, Cards, Inboxes, Sessions, Says
  <2>3. /\ estimate \in Nat /\ funded \in Nat /\ sessions \in Nat /\ spent \in Nat
        /\ pass \in 0 .. MaxPasses /\ attempt \in 1 .. MaxAttempts
    BY FundsAssumption DEF Init, FundsAssumption, MaxPasses, MaxQaFixPasses, MaxReviewPasses,
                           MaxCiFixPasses
  <2> QED
    BY <2>1, <2>2, <2>3 DEF Init, TypeOK, Cards, Inboxes, Sessions
<1>2. TypeOK /\ [Next]_vars => TypeOK'
  <2> SUFFICES ASSUME TypeOK, [Next]_vars PROVE TypeOK'
    OBVIOUS
  <2>a. agent' \in Agents
    BY NextStep DEF TypeOK, vars
  <2>t. /\ tiers \in Seq(Tiers \cup {""}) /\ Len(tiers) <= MaxStories
        /\ estimate \in Nat /\ funded \in Nat
        /\ card \in Cards /\ inbox \in Inboxes /\ answered \in BOOLEAN
        /\ session \in Sessions /\ sessions \in Nat /\ spent \in Nat
        /\ pass \in 0 .. MaxPasses /\ attempt \in 1 .. MaxAttempts
    BY DEF TypeOK, Cards, Inboxes, Sessions
  <2>n. sessions \in Nat /\ spent \in Nat /\ pass \in 0 .. MaxPasses /\ attempt \in 1 .. MaxAttempts
    BY DEF TypeOK
  <2>pc. pc \in {"plan", "estimate", "gate", "coding", "held", "over"}
    BY DEF TypeOK
  <2>f. ASSUME tiers' \in Seq(Tiers \cup {""}) /\ Len(tiers') <= MaxStories,
               pc' \in {"plan", "estimate", "gate", "coding", "held", "over"},
               estimate' \in Nat /\ funded' \in Nat,
               card' \in Cards /\ inbox' \in Inboxes /\ answered' \in BOOLEAN,
               session' \in Sessions /\ sessions' \in Nat /\ spent' \in Nat,
               pass' \in 0 .. MaxPasses /\ attempt' \in 1 .. MaxAttempts
        PROVE  TypeOK'
    BY <2>a, <2>f DEF TypeOK, Cards, Inboxes, Sessions
  <2>m. MaxPasses \in Nat /\ MaxAttempts \in Nat \ {0}
    BY FundsAssumption DEF FundsAssumption, MaxPasses, MaxQaFixPasses, MaxReviewPasses,
                           MaxCiFixPasses
  <2>1. CASE PlanStories
    <3>1. PICK n \in 0 .. MaxStories : tiers' \in [1 .. n -> Tiers \cup {""}]
      BY <2>1 DEF PlanStories
    <3>2. n \in Nat /\ n <= MaxStories
      BY FundsAssumption DEF FundsAssumption
    <3>3. tiers' \in Seq(Tiers \cup {""}) /\ Len(tiers') = n
      <4>1. tiers' \in UNION {[1 .. k -> Tiers \cup {""}] : k \in Nat}
        BY <3>1, <3>2
      <4>2. tiers' \in Seq(Tiers \cup {""})
        BY <4>1, SeqDef
      <4>3. Len(tiers') \in Nat /\ DOMAIN tiers' = 1 .. Len(tiers')
        BY <4>2, LenProperties
      <4>4. 1 .. n = 1 .. Len(tiers')
        BY <3>1, <4>3
      <4> QED
        BY <3>2, <4>2, <4>3, <4>4, SameLength
    <3>4. /\ pc' = "estimate"
          /\ UNCHANGED <<estimate, card, inbox, answered, funded, session, pass, attempt,
                         sessions, spent>>
      BY <2>1 DEF PlanStories, gate, pod
    <3> QED
      BY <2>f, <2>t, <3>2, <3>3, <3>4
  <2>2. CASE EstimateCodingBudget
    <3>1. estimate' \in Nat
      BY <2>2, EstimateNat DEF EstimateCodingBudget
    <3>2. card' \in Cards /\ inbox' \in Inboxes
      BY <2>2, <2>t DEF EstimateCodingBudget, Cards, Inboxes, Says
    <3>3. /\ pc' = "gate"
          /\ UNCHANGED <<tiers, answered, funded, session, pass, attempt, sessions, spent>>
      BY <2>2 DEF EstimateCodingBudget, pod
    <3> QED
      BY <2>f, <2>t, <3>1, <3>2, <3>3
  <2>3. ASSUME NEW says \in {"approve", "reject", "custom"}, NEW m \in Nat, Click(says, m)
        PROVE  TypeOK'
    <3>1. card' \in Cards /\ inbox' \in Inboxes
      BY <2>3, ClickRecords
    <3>2. /\ UNCHANGED <<pc, tiers, estimate, answered, funded, session, pass, attempt,
                         sessions, spent>>
      BY <2>3 DEF Click, pod
    <3> QED
      BY <2>f, <2>t, <2>pc, <3>1, <3>2
  <2>4. CASE CodingBudgetFunded \/ CodingBudgetTimesOut
    <3>1. inbox.amount \in Nat
      BY <2>t DEF Inboxes
    <3>2. funded' \in Nat /\ answered' \in BOOLEAN /\ pc' = "coding"
      BY <2>4, <2>t, <3>1 DEF CodingBudgetFunded, CodingBudgetTimesOut, Fund
    <3>3. UNCHANGED <<tiers, estimate, card, inbox, session, pass, attempt, sessions, spent>>
      BY <2>4 DEF CodingBudgetFunded, CodingBudgetTimesOut, Fund, pod
    <3> QED
      BY <2>f, <2>t, <3>2, <3>3
  <2>5. CASE CodingBudgetDeclined
    <3>1. /\ answered' = TRUE /\ pc' = "held"
          /\ UNCHANGED <<tiers, estimate, card, inbox, funded, session, pass, attempt,
                         sessions, spent>>
      BY <2>5 DEF CodingBudgetDeclined, pod
    <3> QED
      BY <2>f, <2>t, <3>1
  <2>6. CASE CodingPass \/ CodingAttemptLost
    <3>1. RunSession /\ pass < MaxPasses
      BY <2>6 DEF CodingPass, CodingAttemptLost, MorePasses
    <3>2. session' \in Sessions /\ sessions' \in Nat /\ spent' \in Nat
      <4>1. PICK usd \in Nat : spent' = spent + usd
        BY <3>1, SessionRuns
      <4>2. session' \in Sessions /\ sessions' = sessions + 1
        BY <3>1, SessionRuns DEF Sessions
      <4> QED
        BY <2>n, <4>1, <4>2
    <3>3. UNCHANGED <<tiers, estimate, card, inbox, answered, funded>>
      BY <2>6 DEF CodingPass, CodingAttemptLost, gate
    <3>4. pc' \in {"coding", "over"}
      BY <2>6 DEF CodingPass, CodingAttemptLost
    <3>5. pass' \in 0 .. MaxPasses /\ attempt' \in 1 .. MaxAttempts
      <4>1. /\ pass' = pass + 1 \/ pass' = pass
            /\ attempt' = 1 \/ attempt' = attempt \/ (attempt < MaxAttempts /\ attempt' = attempt + 1)
        BY <2>6 DEF CodingPass, CodingAttemptLost
      <4> QED
        BY <2>n, <2>m, <3>1, <4>1
    <3> QED
      BY <2>f, <2>t, <3>2, <3>3, <3>4, <3>5
  <2>7. CASE PodEnds
    <3>1. /\ pc' = "over"
          /\ UNCHANGED <<tiers, estimate, card, inbox, answered, funded, session, pass,
                         attempt, sessions, spent>>
      BY <2>7 DEF PodEnds, gate, pod
    <3> QED
      BY <2>f, <2>t, <3>1
  <2>8. CASE UNCHANGED vars
    <3>1. UNCHANGED <<pc, tiers, estimate, card, inbox, answered, funded, session, pass,
                      attempt, sessions, spent>>
      BY <2>8 DEF vars, gate, pod
    <3> QED
      BY <2>f, <2>t, <2>pc, <3>1
  <2> QED
    BY <2>1, <2>2, <2>3, <2>4, <2>5, <2>6, <2>7, <2>8, NextStep DEF Step
<1> QED
  BY <1>1, <1>2, PTL DEF Spec
-----------------------------------------------------------------------------
(* The card and the gate                                                   *)

\* While the gate is open, an answered card says what is in the inbox, and it
\* cannot be clicked again; a gate that timed out leaves its card to be clicked,
\* and takes nothing for an answer any more.
CardInv ==
    /\ pc \in {"plan", "estimate"} => ~card.live /\ ~answered /\ inbox.decision = "nothing"
    /\ answered => pc \in {"coding", "held", "over"} /\ ~card.live
    /\ pc = "held" => answered
    /\ pc = "gate" /\ inbox.decision # "nothing" =>
         ~card.live /\ card.says = inbox.decision /\ card.amount = inbox.amount
    /\ FundedAsShown

LEMMA CardInvHolds == Spec => []CardInv
<1>1. Init => CardInv
  BY DEF Init, CardInv, FundedAsShown
<1>2. CardInv /\ [Next]_vars => CardInv'
  <2> SUFFICES ASSUME CardInv, [Next]_vars PROVE CardInv'
    OBVIOUS
  <2>1. CASE PlanStories
    <3>1. pc' = "estimate" /\ pc = "plan" /\ UNCHANGED <<card, inbox, answered>>
      BY <2>1 DEF PlanStories, gate
    <3> QED
      BY <3>1 DEF CardInv, FundedAsShown
  <2>2. CASE EstimateCodingBudget
    <3>1. pc = "estimate" /\ pc' = "gate" /\ inbox'.decision = "nothing" /\ answered' = answered
      BY <2>2 DEF EstimateCodingBudget
    <3> QED
      BY <3>1 DEF CardInv, FundedAsShown
  <2>3. ASSUME NEW says \in {"approve", "reject", "custom"}, NEW m \in Nat, Click(says, m)
        PROVE  CardInv'
    <3>1. /\ ~card'.live /\ card'.says = says /\ inbox'.decision = says
          /\ card'.amount = inbox'.amount
      BY <2>3, ClickRecords
    <3>2. card.live /\ UNCHANGED <<pc, estimate, answered, funded>>
      BY <2>3 DEF Click
    <3> QED
      BY <3>1, <3>2 DEF CardInv, FundedAsShown
  <2>4. CASE CodingBudgetFunded
    <3>1. /\ pc = "gate" /\ inbox.decision \in {"approve", "custom"}
          /\ pc' = "coding" /\ answered' = TRUE /\ UNCHANGED <<card, inbox, estimate>>
          /\ funded' = IF inbox.decision = "custom" /\ inbox.amount > 0 THEN inbox.amount ELSE estimate
      BY <2>4 DEF CodingBudgetFunded, Fund, Custom
    <3> QED
      BY <3>1 DEF CardInv, FundedAsShown
  <2>5. CASE CodingBudgetDeclined
    <3>1. /\ pc = "gate" /\ inbox.decision = "reject"
          /\ pc' = "held" /\ answered' = TRUE /\ UNCHANGED <<card, inbox, estimate, funded>>
      BY <2>5 DEF CodingBudgetDeclined
    <3> QED
      BY <3>1 DEF CardInv, FundedAsShown
  <2>6. CASE CodingBudgetTimesOut
    <3>1. pc = "gate" /\ pc' = "coding" /\ UNCHANGED <<card, inbox, answered>>
      BY <2>6 DEF CodingBudgetTimesOut, Fund
    <3> QED
      BY <3>1 DEF CardInv, FundedAsShown
  <2>7. CASE CodingPass \/ CodingAttemptLost \/ PodEnds
    <3>1. /\ pc = "coding" /\ pc' \in {"coding", "over"}
          /\ UNCHANGED <<card, inbox, answered, estimate, funded>>
      BY <2>7 DEF CodingPass, CodingAttemptLost, PodEnds, gate
    <3> QED
      BY <3>1 DEF CardInv, FundedAsShown
  <2>8. CASE UNCHANGED vars
    <3>1. UNCHANGED <<pc, card, inbox, answered, estimate, funded>>
      BY <2>8 DEF vars, gate
    <3> QED
      BY <3>1 DEF CardInv, FundedAsShown
  <2> QED
    BY <2>1, <2>2, <2>3, <2>4, <2>5, <2>6, <2>7, <2>8, NextStep DEF Step
<1> QED
  BY <1>1, <1>2, PTL DEF Spec

\* At whatever time and with whatever amount a person clicks, and whether or not
\* the gate is open yet: the round has what the card shows.
THEOREM FundingIsShown == Spec => []FundedAsShown
<1>1. CardInv => FundedAsShown
  BY DEF CardInv
<1> QED
  BY <1>1, CardInvHolds, PTL
-----------------------------------------------------------------------------
(* The dollars and the caps of the sessions                                *)

\* Nothing is spent before the round is funded, and then each session has the
\* funding for its cap: it is never 0, which would stand for the default.
SpentInv ==
    /\ pc \notin {"plan", "estimate"} => estimate > 0
    /\ pc \in {"coding", "over"} => funded > 0
    /\ pc \notin {"coding", "over"} => sessions = 0 /\ spent = 0
    /\ SessionsWithinFunds

\* The caps of the latest session, and who works in it.
SessionInv ==
    sessions > 0 =>
        /\ CapsMeet(session.usd, session.turns, session.time)
        /\ \E w \in session.workers : Rank[PlanTier] <= Rank[w]

\* One more session within the funds.
LEMMA OneMore ==
    ASSUME NEW s \in Nat, NEW f \in Nat, NEW x \in Nat, NEW u \in Nat, x <= s * f, u <= f
    PROVE  x + u <= (s + 1) * f
<1>1. (s + 1) * f = s * f + f
  OBVIOUS
<1> QED
  BY <1>1

LEMMA ZeroTimes == \A f \in Nat : 0 * f = 0
  OBVIOUS

\* A step that leaves money and sessions alone.
LEMMA SessionsKept ==
    ASSUME SpentInv, SessionInv,
           UNCHANGED <<agent, tiers, estimate, funded, session, sessions, spent>>,
           pc' = pc \/ (pc = "coding" /\ pc' = "over")
    PROVE  SpentInv' /\ SessionInv'
<1>1. PlanTier' = PlanTier
  BY DEF PlanTier
<1>2. CapsMeet(session.usd, session.turns, session.time)
      => CapsMeet(session.usd, session.turns, session.time)'
  BY DEF CapsMeet
<1>3. SessionInv'
  BY <1>1, <1>2 DEF SessionInv
<1>4. SessionsWithinFunds'
  BY DEF SpentInv, SessionsWithinFunds
<1> QED
  BY <1>3, <1>4 DEF SpentInv

LEMMA SpentInvHolds == Spec => [](SpentInv /\ SessionInv)
<1>1. Init => SpentInv /\ SessionInv
  BY DEF Init, SpentInv, SessionsWithinFunds, SessionInv
<1>2. TypeOK /\ SpentInv /\ SessionInv /\ [Next]_vars => SpentInv' /\ SessionInv'
  <2> SUFFICES ASSUME TypeOK, SpentInv, SessionInv, [Next]_vars PROVE SpentInv' /\ SessionInv'
    OBVIOUS
  <2>n. /\ sessions \in Nat /\ spent \in Nat /\ funded \in Nat /\ estimate \in Nat
        /\ pc \in {"plan", "estimate", "gate", "coding", "held", "over"}
    BY DEF TypeOK
  <2>a. agent' = agent
    BY NextStep DEF vars
  <2>i. inbox.amount \in Nat
    BY DEF TypeOK
  \* Before the coding there is no session.
  <2>f. ASSUME sessions = 0, spent = 0, UNCHANGED <<sessions, spent>>,
               funded' \in Nat, estimate' > 0 \/ pc' \in {"plan", "estimate"},
               pc' \in {"coding", "over"} => funded' > 0
        PROVE  SpentInv' /\ SessionInv'
    <3>0. 0 * funded' = 0
      BY <2>f, ZeroTimes
    <3>1. sessions' = 0 /\ spent' = 0 /\ sessions' * funded' = 0
      BY <2>f, <3>0
    <3>2. SessionInv'
      BY <3>1 DEF SessionInv
    <3>3. SessionsWithinFunds'
      BY <3>1 DEF SessionsWithinFunds
    <3> QED
      BY <2>f, <3>1, <3>2, <3>3 DEF SpentInv
  <2>1. CASE PlanStories
    <3>1. pc = "plan" /\ pc' = "estimate" /\ UNCHANGED <<funded, sessions, spent>>
      BY <2>1 DEF PlanStories, pod
    <3> QED
      BY <2>f, <2>n, <3>1 DEF SpentInv
  <2>2. CASE EstimateCodingBudget
    <3>1. pc = "estimate" /\ pc' = "gate" /\ UNCHANGED <<funded, sessions, spent>>
      BY <2>2 DEF EstimateCodingBudget, pod
    <3>2. estimate' \in Nat /\ estimate' >= EstBase
      BY <2>2, EstimateNat DEF EstimateCodingBudget
    <3>3. estimate' > 0
      BY <3>2 DEF EstBase
    <3> QED
      BY <2>f, <2>n, <3>1, <3>3 DEF SpentInv
  <2>3. ASSUME NEW says \in {"approve", "reject", "custom"}, NEW m \in Nat, Click(says, m)
        PROVE  SpentInv' /\ SessionInv'
    <3>1. UNCHANGED <<pc, tiers, estimate, funded, session, sessions, spent>>
      BY <2>3 DEF Click, pod
    <3> QED
      BY <2>a, <2>n, <3>1, SessionsKept
  <2>4. CASE CodingBudgetFunded \/ CodingBudgetTimesOut
    <3>1. /\ pc = "gate" /\ pc' = "coding" /\ UNCHANGED <<estimate, sessions, spent>>
          /\ funded' = estimate \/ (funded' = inbox.amount /\ inbox.amount > 0)
      BY <2>4 DEF CodingBudgetFunded, CodingBudgetTimesOut, Fund, Custom, pod
    <3> QED
      BY <2>f, <2>n, <2>i, <3>1 DEF SpentInv
  <2>5. CASE CodingBudgetDeclined
    <3>1. pc = "gate" /\ pc' = "held" /\ UNCHANGED <<estimate, funded, sessions, spent>>
      BY <2>5 DEF CodingBudgetDeclined, pod
    <3> QED
      BY <2>f, <2>n, <3>1 DEF SpentInv
  <2>6. CASE CodingPass \/ CodingAttemptLost
    <3>1. /\ pc = "coding" /\ pc' \in {"coding", "over"} /\ RunSession
          /\ UNCHANGED <<tiers, estimate, funded>>
      BY <2>6 DEF CodingPass, CodingAttemptLost
    <3>2. PICK usd \in Nat : spent' = spent + usd /\ (agent = "claude_agent_sdk" => usd <= Budget)
      BY <3>1, SessionRuns
    <3>3. /\ CapsMeet(session'.usd, session'.turns, session'.time)
          /\ \E w \in session'.workers : Rank[PlanTier] <= Rank[w]
          /\ sessions' = sessions + 1
      BY <3>1, SessionRuns
    <3>4. SessionInv'
      <4>1. PlanTier' = PlanTier
        BY <3>1 DEF PlanTier
      <4>2. CapsMeet(session.usd, session.turns, session.time)'
        BY <2>a, <3>3 DEF CapsMeet
      <4> QED
        BY <3>3, <4>1, <4>2 DEF SessionInv
    <3>5. funded > 0 /\ Budget = funded
      BY <3>1, BudgetCap DEF SpentInv
    <3>6. agent = "claude_agent_sdk" => spent' <= sessions' * funded
      BY <2>n, <3>2, <3>3, <3>5, OneMore DEF SpentInv, SessionsWithinFunds
    <3> QED
      BY <2>a, <3>1, <3>4, <3>5, <3>6 DEF SpentInv, SessionsWithinFunds
  <2>7. CASE PodEnds
    <3>1. /\ pc = "coding" /\ pc' = "over"
          /\ UNCHANGED <<tiers, estimate, funded, session, sessions, spent>>
      BY <2>7 DEF PodEnds, pod
    <3> QED
      BY <2>a, <2>n, <3>1, SessionsKept
  <2>8. CASE UNCHANGED vars
    <3>1. UNCHANGED <<pc, tiers, estimate, funded, session, sessions, spent>>
      BY <2>8 DEF vars, pod
    <3> QED
      BY <2>a, <2>n, <3>1, SessionsKept
  <2> QED
    BY <2>1, <2>2, <2>3, <2>4, <2>5, <2>6, <2>7, <2>8, NextStep DEF Step
<1> QED
  BY <1>1, <1>2, TypeCorrect, PTL DEF Spec

\* Every session of the SDK, repeated ones included, is held to the funding.
THEOREM SpendingIsFunded == Spec => []SessionsWithinFunds
<1>1. SpentInv => SessionsWithinFunds
  BY DEF SpentInv
<1> QED
  BY <1>1, SpentInvHolds, PTL

\* With any funding, turns and time follow the dollars.
THEOREM CapsTogether == Spec => []CapsRiseTogether
<1>1. SessionInv => CapsRiseTogether
  BY DEF SessionInv, CapsMeet, CapsRiseTogether
<1> QED
  BY <1>1, SpentInvHolds, PTL

\* With any plan, somebody in the session is up to its hardest story.
THEOREM HardestStory == Spec => []HardestStoryStaffed
<1>1. TypeOK /\ SessionInv => HardestStoryStaffed
  <2> SUFFICES ASSUME TypeOK, SessionInv, sessions > 0,
                      NEW i \in DOMAIN tiers, tiers[i] # ""
               PROVE  \E w \in session.workers : Rank[tiers[i]] <= Rank[w]
    BY DEF HardestStoryStaffed
  <2>1. PICK w \in session.workers : Rank[PlanTier] <= Rank[w]
    BY DEF SessionInv
  <2>2. Rank[tiers[i]] <= Rank[PlanTier] /\ PlanTier \in Tiers
    BY PlanTierTops
  <2>3. tiers[i] \in Tiers /\ w \in Tiers
    <3>1. tiers \in Seq(Tiers \cup {""})
      BY DEF TypeOK
    <3>2. tiers \in [1 .. Len(tiers) -> Tiers \cup {""}]
      BY <3>1, LenProperties
    <3>3. session.workers \subseteq Tiers
      BY DEF TypeOK
    <3> QED
      BY <3>2, <3>3
  <2>4. \A t \in Tiers : Rank[t] \in Nat
    BY RankNat
  <2>5. Rank[tiers[i]] \in Nat /\ Rank[w] \in Nat /\ Rank[PlanTier] \in Nat
    BY <2>2, <2>3, <2>4
  <2>6. Rank[tiers[i]] <= Rank[w]
    BY <2>1, <2>2, <2>5, AtMost
  <2> QED
    BY <2>6
<1> QED
  BY <1>1, SpentInvHolds, TypeCorrect, PTL
=============================================================================
