----------------------------- MODULE CodingFunds -----------------------------
(***************************************************************************)
(* What a coding round may cost, from the plan to its sessions: the        *)
(* estimate (estimates.py), the funding card and the amount a person types *)
(* (gates.py, slack_listener.py), the workflow's decision                  *)
(* (feature_request.py; bug.py has the same gate), and the caps of every   *)
(* session (coding_backed.py, engineering_pod.py, the coding agents).      *)
(*                                                                         *)
(* Dollars are cents; what a person types is tenths of a cent, since it is *)
(* rounded.  Whether a session stays within its cap of dollars is up to    *)
(* the agent: the SDK is given the cap, the command of the container not.  *)
(***************************************************************************)
EXTENDS Integers, Sequences, FiniteSetsExt

CONSTANTS MaxStories,   \* bound: stories of a plan
          Typed,        \* amounts that people type; 0 stands for no amount, too
          MaxAttempts   \* maximum_attempts of DEFAULT_RETRY

ASSUME FundsAssumption ==
    /\ MaxStories \in Nat /\ Typed \subseteq Nat /\ MaxAttempts \in Nat \ {0}

\* config.py
EstBase == 75
EstStory == [haiku |-> 50, sonnet |-> 125, opus |-> 250]
DefaultBudget == 250
DefaultTurns == 70
DefaultMinutes == 20
MaxMinutes == 240
MaxQaFixPasses == 1
MaxReviewPasses == 1
MaxCiFixPasses == 1

ContainerMinutes == 20

VARIABLES
    agent,      \* CODING_AGENT of the deployment; the mock costs nothing
    pc,         \* "plan", "estimate", "gate", "coding", "held" or "over"
    tiers,      \* the tiers of the plan's stories
    estimate,
    card,       \* the funding card: is it live, and what does it say?
    inbox,      \* _coding_budget
    answered,   \* history: did the workflow take an answer?
    funded,     \* plan.coding_budget_usd
    session,    \* the caps of the latest session
    pass, attempt,  \* of the coding passes
    sessions, spent \* history: sessions that ran, and their dollars

gate == <<card, inbox, answered>>
pod == <<session, pass, attempt, sessions, spent>>
vars == <<agent, pc, tiers, estimate, gate, funded, pod>>

Tiers == {"haiku", "sonnet", "opus"}
Rank == [haiku |-> 0, sonnet |-> 1, opus |-> 2]

Says == {"nothing", "approve", "reject", "custom"}
MaxPasses == 1 + MaxQaFixPasses + MaxReviewPasses + MaxCiFixPasses

Agents == {"claude_agent_sdk", "claude_container"}

TypeOK ==
    /\ agent \in Agents
    /\ pc \in {"plan", "estimate", "gate", "coding", "held", "over"}
    /\ tiers \in Seq(Tiers \cup {""}) /\ Len(tiers) <= MaxStories
    /\ estimate \in Nat /\ funded \in Nat
    /\ card \in [live : BOOLEAN, says : Says, amount : Nat]
    /\ inbox \in [decision : Says, amount : Nat] /\ answered \in BOOLEAN
    /\ session \in [usd : Nat, turns : Nat, time : Nat, workers : SUBSET Tiers]
    /\ pass \in 0 .. MaxPasses /\ attempt \in 1 .. MaxAttempts
    /\ sessions \in Nat /\ spent \in Nat

Init ==
    /\ agent \in Agents
    /\ pc = "plan" /\ tiers = <<>> /\ estimate = 0 /\ funded = 0
    /\ card = [live |-> FALSE, says |-> "nothing", amount |-> 0]
    /\ inbox = [decision |-> "nothing", amount |-> 0] /\ answered = FALSE
    /\ session = [usd |-> 0, turns |-> 0, time |-> 0, workers |-> {}]
    /\ pass = 0 /\ attempt = 1 /\ sessions = 0 /\ spent = 0

-----------------------------------------------------------------------------
(* The plan and its estimate                                               *)

PlanStories ==
    /\ pc = "plan"
    /\ \E n \in 0 .. MaxStories : tiers' \in [1 .. n -> Tiers \cup {""}]
    /\ pc' = "estimate"
    /\ UNCHANGED <<estimate, gate, funded, pod>>

\* A story without a tier is priced as sonnet, a plan without stories as one.
Priced(tier) == EstStory[IF tier \in Tiers THEN tier ELSE "sonnet"]

EstimateCodingRun ==
    EstBase + IF tiers = <<>> THEN Priced("sonnet")
              ELSE MapThenSumSet(LAMBDA i : Priced(tiers[i]), DOMAIN tiers)

\* The live estimate always asks for a person.
EstimateCodingBudget ==
    /\ pc = "estimate"
    /\ estimate' = EstimateCodingRun
    /\ card' = [card EXCEPT !.live = TRUE]
    /\ inbox' = [decision |-> "nothing", amount |-> 0]
    /\ pc' = "gate"
    /\ UNCHANGED <<tiers, answered, funded, pod>>

-----------------------------------------------------------------------------
(* The card                                                                *)

\* At most $500, and then to the cent.
ParseDollars(m) == (m + 5) \div 10
Parses(m) == 0 < m /\ m <= 500000

\* A decision that is understood is signalled, and the card shows it; an amount
\* that is not leaves the card live.  The signal may find the gate closed.
Click(says, m) ==
    /\ card.live
    /\ says = "custom" => Parses(m)
    /\ LET amount == IF says = "custom" THEN ParseDollars(m) ELSE 0 IN
       /\ inbox' = [decision |-> says, amount |-> amount]
       /\ card' = [live |-> FALSE, says |-> says, amount |-> amount]
    /\ UNCHANGED <<pc, tiers, estimate, answered, funded, pod>>

-----------------------------------------------------------------------------
(* The workflow's gate                                                     *)

Fund(amount) == funded' = amount /\ pc' = "coding" /\ UNCHANGED <<card, inbox>>

\* Mutant: a custom amount of nothing is taken as well.
CustomOfAny == inbox.decision = "custom"

\* Mutant: a custom budget may only raise the estimate.
CustomRaises == inbox.decision = "custom" /\ inbox.amount > estimate

Custom == inbox.decision = "custom" /\ inbox.amount > 0

CodingBudgetFunded ==
    /\ pc = "gate" /\ inbox.decision \in {"approve", "custom"}
    /\ Fund(IF Custom THEN inbox.amount ELSE estimate)
    /\ answered' = TRUE
    /\ UNCHANGED <<tiers, estimate, pod>>

CodingBudgetDeclined ==
    /\ pc = "gate" /\ inbox.decision = "reject"
    /\ pc' = "held" /\ answered' = TRUE
    /\ UNCHANGED <<tiers, estimate, card, inbox, funded, pod>>

CodingBudgetTimesOut ==
    /\ pc = "gate" /\ inbox.decision = "nothing"
    /\ Fund(estimate)
    /\ UNCHANGED <<tiers, estimate, answered, pod>>

-----------------------------------------------------------------------------
(* The sessions                                                            *)

\* Mutant: only the dollars are raised.
DefaultTurnsOnly == DefaultTurns

\* Mutant: the first story decides.
FirstTier == IF tiers = <<>> \/ tiers[1] = "" THEN "sonnet" ELSE tiers[1]

\* The caps of _coding_task.
Budget == IF funded > 0 THEN funded ELSE DefaultBudget

Turns ==
    IF Budget <= DefaultBudget THEN DefaultTurns
    ELSE (DefaultTurns * Budget + DefaultBudget - 1) \div DefaultBudget

\* Start-to-close of a coding pass, in minutes times DefaultBudget.
CodingTimeout ==
    Min({DefaultMinutes * Max({DefaultBudget, funded}), MaxMinutes * DefaultBudget})

\* The heaviest tier of the stories that have one.
PlanTier ==
    LET known == {tiers[i] : i \in DOMAIN tiers} \ {""} IN
    IF known = {} THEN "sonnet" ELSE CHOOSE t \in known : \A u \in known : Rank[u] <= Rank[t]

\* With several stories the SDK's session leads two implementers, unless that is
\* switched off; any other session does everything itself.
Workers ==
    {{PlanTier}} \cup
    IF agent = "claude_agent_sdk" /\ Len(tiers) >= 2 THEN {{"sonnet", "opus"}} ELSE {}

\* The docker client waits for the container for a time of its own.
SessionTime ==
    IF agent = "claude_container"
    THEN Min({ContainerMinutes * DefaultBudget, CodingTimeout})
    ELSE CodingTimeout

\* What a session spends: nothing, all it may, or, without a cap, more.
Spends == IF agent = "claude_agent_sdk" THEN {0, Budget} ELSE {0, Budget, Budget + 1}

RunSession ==
    /\ \E workers \in Workers :
         session' = [usd |-> Budget, turns |-> Turns, time |-> SessionTime, workers |-> workers]
    /\ sessions' = sessions + 1
    /\ \E usd \in Spends : spent' = spent + usd

MorePasses == pass < MaxPasses

\* A pass: the first, or a fix after QA, review or CI.
CodingPass ==
    /\ pc = "coding" /\ MorePasses
    /\ RunSession
    /\ pass' = pass + 1 /\ attempt' = 1
    /\ UNCHANGED <<pc, tiers, estimate, gate, funded>>

\* A session that times out, or whose worker dies, is paid and runs again.
CodingAttemptLost ==
    /\ pc = "coding" /\ MorePasses
    /\ RunSession
    /\ \/ attempt < MaxAttempts /\ attempt' = attempt + 1 /\ UNCHANGED pc
       \/ attempt = MaxAttempts /\ pc' = "over" /\ UNCHANGED attempt
    /\ UNCHANGED <<tiers, estimate, gate, funded, pass>>

PodEnds ==
    /\ pc = "coding" /\ pass > 0
    /\ pc' = "over"
    /\ UNCHANGED <<tiers, estimate, gate, funded, pod>>

-----------------------------------------------------------------------------
Next ==
    /\ \/ PlanStories \/ EstimateCodingBudget
       \/ \E says \in {"approve", "reject"} : Click(says, 0)
       \/ \E m \in Typed : Click("custom", m)
       \/ CodingBudgetFunded \/ CodingBudgetDeclined \/ CodingBudgetTimesOut
       \/ CodingPass \/ CodingAttemptLost \/ PodEnds
    /\ UNCHANGED agent

Spec == Init /\ [][Next]_vars

-----------------------------------------------------------------------------
\* Each session of the SDK, repeated ones included, is held to what the round
\* was funded with, also below the default: a funding of 0, which means the
\* default to the pod, never gets there, whatever people type.
SessionsWithinFunds == agent = "claude_agent_sdk" => spent <= sessions * funded

\* config.py, "all three caps must rise together": a session that may spend more
\* than by default has turns and time in proportion; time ends at four hours, and
\* in the container at the docker client's patience.
CapsRiseTogether ==
    sessions > 0 =>
        /\ session.turns * DefaultBudget >= DefaultTurns * session.usd
        /\ \/ session.time >= DefaultMinutes * session.usd
           \/ session.time = MaxMinutes * DefaultBudget
           \/ agent = "claude_container" /\ session.time = ContainerMinutes * DefaultBudget

\* "The architect's per-story model selection": whichever way a session works on
\* the plan, somebody in it is up to its hardest story.
HardestStoryStaffed ==
    sessions > 0 =>
        \A i \in DOMAIN tiers : tiers[i] # "" =>
            \E w \in session.workers : Rank[tiers[i]] <= Rank[w]

\* Between a typed text and the funding lie the parser, the signal and the
\* gate: the round has what the card shows, at any amount but $0.00.
FundedAsShown ==
    answered =>
        /\ card.says = "reject" <=> pc = "held"
        /\ card.says = "approve" => funded = estimate
        /\ card.says = "custom" /\ card.amount > 0 => funded = card.amount
=============================================================================
