------------------------------ MODULE HumanIO ------------------------------
(***************************************************************************)
(* How a run meets people: intake.py and intake_http.py start it, notify.py *)
(* posts a card for each gate, the Slack listener turns clicks on the cards *)
(* into signals and edits the cards, gates.py says which control means     *)
(* which signal, and cli/run.py can play the human instead.                *)
(*                                                                         *)
(* The workflow is any sequence of gates; what its gates do with the       *)
(* answers is in FeatureRequest and BugFix.  Every click has a handler  *)
(* of its own, and handlers run side by side on the listener's threads: a  *)
(* handler has acknowledged its click (`phase` = "acked"), waits for its   *)
(* signal ("signalling"), edits the card ("editing"), and has ended.  A    *)
(* handler edits from the copy of the message that came with its click.    *)
(***************************************************************************)
EXTENDS Integers, Sequences

CONSTANTS Approvers,    \* SLACK_APPROVER_IDS
          Strangers,    \* other people in the channel
          Gates,        \* gates that the workflow may open
          MaxRounds,    \* bound: gates that are opened in a run
          MaxCards,     \* bound: cards that are posted
          MaxClicks     \* bound: clicks on them

GateNames == {"council", "pm_signoff", "deploy", "budget", "coding_budget", "clarification"}

ASSUME HumanAssumption ==
    /\ Approvers \cap Strangers = {} /\ Gates \subseteq GateNames
    /\ {MaxRounds, MaxCards, MaxClicks} \subseteq Nat

VARIABLES
    channel,    \* "slack", or "cli": the demo driver plays the human
    run,        \* the run of the feedback event: "none", "open", "done", or "failed"
    round, gate,\* the gate that is open, and how many were opened
    posting,    \* is the gate's card being posted?
    cards,      \* the messages in Slack
    clicks,     \* the clicks and their handlers
    landed,     \* history: the decisions that reached the workflow, and for which gate
    driver      \* cli/run.py: the stage it read last, and the gates it answered

workflow == <<run, round, gate, posting>>
vars == <<channel, workflow, cards, clicks, landed, driver>>

Users == Approvers \cup Strangers
Texts == {"blank", "dollars"}

\* The clarification is a text; what it says is data.
UserClarification == {"answer"}

\* What a workflow understands as the answer of a gate.
Answers(g) ==
    CASE g = "pm_signoff" -> {"approve", "revise"}
      [] g = "clarification" -> UserClarification
      [] g = "coding_budget" -> {"approve", "reject", "custom"}
      [] OTHER -> {"approve", "reject"}

\* What a control can say.
Words == {"approve", "revise", "reject", "answer", "custom"}

Decision == [card : 1 .. MaxCards, gate : Gates, user : Users, decision : Words]
Nothing == [card |-> 0]

TypeOK ==
    /\ channel \in {"slack", "cli"}
    /\ run \in {"none", "open", "done", "failed"}
    /\ round \in 0 .. MaxRounds /\ gate \in Gates \cup {"none"} /\ posting \in BOOLEAN
    /\ \A i \in DOMAIN cards : cards[i].gate \in Gates /\ cards[i].live \in BOOLEAN
    /\ \A k \in DOMAIN clicks :
         clicks[k].phase \in {"acked", "signalling", "editing", "ended"}
    /\ landed \subseteq Decision /\ \A d \in landed : d.decision \in Answers(d.gate)
    /\ driver.read \in Gates \cup {"none", "done"} /\ driver.answered \subseteq Gates

Init ==
    /\ channel \in {"slack", "cli"}
    /\ run = "none" /\ round = 0 /\ gate = "none" /\ posting = FALSE
    /\ cards = <<>> /\ clicks = <<>> /\ landed = {}
    /\ driver = [read |-> "none", answered |-> {}, ended |-> FALSE]

-----------------------------------------------------------------------------
(* Intake                                                                  *)

\* Also when its run has closed, an event has no second one: "per-id-ever, not
\* per-id-while-running".
RejectDuplicate == run = "none"

\* A delivery of the event under its id: the request's answer may get lost, so
\* it comes again.  A refused token, an unknown project, a malformed body and a
\* duplicate change nothing.
Route ==
    /\ RejectDuplicate /\ run' = "open"
    /\ UNCHANGED <<channel, round, gate, posting, cards, clicks, landed, driver>>

-----------------------------------------------------------------------------
(* The workflow, as far as people see it                                   *)

OpenGate ==
    /\ run = "open" /\ gate = "none" /\ round < MaxRounds
    /\ gate' \in Gates /\ round' = round + 1 /\ posting' = TRUE
    /\ UNCHANGED <<channel, run, cards, clicks, landed, driver>>

\* notify_gate: the message is posted or Slack fails, which is no error.  An
\* attempt whose answer is lost is made again, and posts a second card.
NotifyGate ==
    /\ posting
    /\ \/ channel = "slack" /\ Len(cards) < MaxCards
          /\ cards' = Append(cards, [gate |-> gate, live |-> TRUE, shown |-> Nothing])
          /\ posting' \in BOOLEAN
       \/ posting' = FALSE /\ UNCHANGED cards
    /\ UNCHANGED <<channel, run, round, gate, clicks, landed, driver>>

\* Answered or timed out.
CloseGate ==
    /\ gate # "none" /\ ~posting
    /\ gate' = "none"
    /\ UNCHANGED <<channel, run, round, posting, cards, clicks, landed, driver>>

EndRun ==
    /\ run = "open" /\ gate = "none"
    /\ run' \in {"done", "failed"}
    /\ UNCHANGED <<channel, round, gate, posting, cards, clicks, landed, driver>>

-----------------------------------------------------------------------------
(* gates.py                                                                *)

\* The buttons and the input of a gate's card.
Buttons(g) ==
    CASE g = "clarification" -> {}
      [] g = "pm_signoff" -> {"approve", "revise"}
      [] OTHER -> {"approve", "reject"}

Input(g) ==
    CASE g = "pm_signoff" -> {"revise"}
      [] g = "coding_budget" -> {"custom"}
      [] g = "clarification" -> {"answer"}
      [] OTHER -> {}

Controls(g) ==
    {[decision |-> d, text |-> "blank"] : d \in Buttons(g)}
    \cup {[decision |-> d, text |-> t] : d \in Input(g), t \in Texts}

\* signal_for: is there a signal for the control?  An amount must parse.
SignalFor(g, decision, text) ==
    CASE g = "clarification" -> decision = "answer" /\ text # "blank"
      [] g = "coding_budget" -> \/ decision = "custom" /\ text = "dollars"
                                \/ decision \in {"approve", "reject"}
      [] g = "pm_signoff" -> decision \in {"approve", "revise"}
      [] OTHER -> decision \in {"approve", "reject"}

-----------------------------------------------------------------------------
(* slack_listener.py                                                       *)

\* What was clicked is forgotten with the handler and its signal.
Settled(c) ==
    IF c.phase = "ended" /\ ~c.sent THEN [phase |-> "ended", sent |-> FALSE] ELSE c

Becomes(k, c) == clicks' = [clicks EXCEPT ![k] = Settled(c)]

Phase(k, phase, ok) == Becomes(k, [clicks[k] EXCEPT !.phase = phase, !.ok = ok])

\* The signal got its answer, in time or not.
Signalled(k, ok) ==
    LET c == clicks[k] IN
    Becomes(k, [c EXCEPT !.sent = FALSE, !.ok = ok /\ c.phase = "signalling",
                         !.phase = IF @ = "signalling" THEN "editing" ELSE @])

\* A person uses a control of a card that is live; the listener acknowledges.
Click ==
    /\ Len(clicks) < MaxClicks
    /\ \E i \in DOMAIN cards, u \in Users : \E c \in Controls(cards[i].gate) :
        /\ cards[i].live
        /\ clicks' = Append(clicks, [card |-> i, user |-> u, decision |-> c.decision,
                                     text |-> c.text, phase |-> "acked", ok |-> FALSE,
                                     sent |-> FALSE])
    /\ UNCHANGED <<channel, workflow, cards, landed, driver>>

Allowlist == Approvers

\* Mutant: the signal goes to the gate that is open now.
OpenGateOf(k) == IF gate = "none" THEN cards[clicks[k].card].gate ELSE gate

\* The control's envelope names the gate.
GateOf(k) == cards[clicks[k].card].gate

Landing(k, g) ==
    [card |-> clicks[k].card, gate |-> g, user |-> clicks[k].user,
     decision |-> clicks[k].decision]

\* Strangers are dropped; a control without a signal only earns a warning.
Dispatch(k) ==
    /\ clicks[k].phase = "acked"
    /\ \/ clicks[k].user \notin Allowlist /\ Phase(k, "ended", FALSE)
       \/ /\ clicks[k].user \in Allowlist
          /\ IF SignalFor(cards[clicks[k].card].gate, clicks[k].decision, clicks[k].text)
             THEN Becomes(k, [clicks[k] EXCEPT !.phase = "signalling", !.sent = TRUE])
             ELSE Phase(k, "editing", FALSE)
    /\ UNCHANGED <<channel, workflow, cards, landed, driver>>

\* The signal reaches the workflow, maybe after its handler gave up on it.
SignalLands(k) ==
    /\ clicks[k].sent /\ run = "open"
    /\ landed' = landed \cup {Landing(k, GateOf(k))}
    /\ Signalled(k, TRUE)
    /\ UNCHANGED <<channel, workflow, cards, driver>>

\* The run is closed, or Temporal cannot be reached.
SignalFails(k) ==
    /\ clicks[k].sent
    /\ Signalled(k, FALSE)
    /\ UNCHANGED <<channel, workflow, cards, landed, driver>>

\* Mutant: the handler waits for its signal without a timeout.
WaitsForSignal(k) == FALSE

\* 30 seconds are over; the coroutine that signals is not cancelled.
GivesUp(k) == clicks[k].phase = "signalling" /\ Phase(k, "editing", FALSE)

GiveUp(k) ==
    /\ GivesUp(k)
    /\ UNCHANGED <<channel, workflow, cards, landed, driver>>

\* Mutant: a warning takes the controls away, too.
ResolvedAlways(k) == [gate |-> cards[clicks[k].card].gate, live |-> FALSE, shown |-> Nothing]

\* resolved_blocks, or the click's copy of the card with a warning under it.
Edited(k) ==
    LET c == clicks[k] IN
    [gate |-> cards[c.card].gate, live |-> ~c.ok,
     shown |-> IF c.ok THEN Landing(k, cards[c.card].gate) ELSE Nothing]

\* chat_update; when it fails, that is only logged.
EditCard(k) ==
    /\ clicks[k].phase = "editing"
    /\ \/ cards' = [cards EXCEPT ![clicks[k].card] = Edited(k)]
       \/ UNCHANGED cards
    /\ Phase(k, "ended", clicks[k].ok)
    /\ UNCHANGED <<channel, workflow, landed, driver>>

\* The listener is restarted: the acknowledged click is not delivered again.
HandlerLost(k) ==
    /\ clicks[k].phase # "ended"
    /\ Becomes(k, [clicks[k] EXCEPT !.phase = "ended", !.sent = FALSE])
    /\ UNCHANGED <<channel, workflow, cards, landed, driver>>

-----------------------------------------------------------------------------
(* cli/run.py                                                              *)

DriverRuns == channel = "cli" /\ run # "none" /\ ~driver.ended

\* One query: the stage is a gate, "done" once the run has its result, or
\* nothing the driver acts upon, which is also what a failed run looks like.
DriverPolls ==
    /\ DriverRuns /\ driver.read = "none"
    /\ driver' = [driver EXCEPT !.read = IF run = "done" THEN "done" ELSE gate]
    /\ UNCHANGED <<channel, workflow, cards, clicks, landed>>

EndDriver == driver' = [driver EXCEPT !.ended = TRUE]

\* It approves a gate the first time it sees it; the clarification it leaves.
\* A signal to a run that is closed raises, and ends the driver.
DriverSignals ==
    /\ DriverRuns /\ driver.read \in Gates
    /\ IF driver.read \in driver.answered \cup {"clarification"}
       THEN driver' = [driver EXCEPT !.read = "none"]
       ELSE IF run = "open"
       THEN driver' = [driver EXCEPT !.read = "none", !.answered = @ \cup {driver.read}]
       ELSE EndDriver
    /\ UNCHANGED <<channel, workflow, cards, clicks, landed>>

DriverDone ==
    /\ DriverRuns /\ driver.read = "done" /\ EndDriver
    /\ UNCHANGED <<channel, workflow, cards, clicks, landed>>

\* The run cannot be queried for more than fifty times in a row.
DriverGivesUp ==
    /\ DriverRuns /\ driver.read = "none" /\ EndDriver
    /\ UNCHANGED <<channel, workflow, cards, clicks, landed>>

-----------------------------------------------------------------------------
Handler(k) ==
    k \in DOMAIN clicks /\ (Dispatch(k) \/ GiveUp(k) \/ EditCard(k))

Driver == DriverPolls \/ DriverSignals \/ DriverDone

\* The Temporal server, the network, a restart of the listener.
Environment(k) ==
    k \in DOMAIN clicks /\ (SignalLands(k) \/ SignalFails(k) \/ HandlerLost(k))

Next ==
    \/ Route
    \/ OpenGate \/ NotifyGate \/ CloseGate \/ EndRun
    \/ Click
    \/ \E k \in 1 .. MaxClicks : Handler(k) \/ Environment(k)
    \/ Driver \/ DriverGivesUp

Spec == Init /\ [][Next]_vars

\* A handler's thread and the driver's loop run on; Temporal and Slack need
\* not answer, and people need not click.
FairSpec == Spec /\ (\A k \in 1 .. MaxClicks : WF_vars(Handler(k))) /\ WF_vars(Driver)

-----------------------------------------------------------------------------
\* However clicks, late signals, retried posts and edits interleave: a card
\* whose controls are gone tells a decision that an approver made on this very
\* card and that reached the workflow.  So a gate that nobody has decided can
\* still be decided on every card it has.
CardTellsTruth ==
    \A i \in DOMAIN cards : ~cards[i].live =>
        cards[i].shown \in {d \in landed : d.card = i /\ d.user \in Approvers}

\* No click keeps a thread of the listener for ever, though its signal may
\* never be answered, and the driver ends when its run has a result.
EveryoneServed ==
    /\ \A k \in 1 .. MaxClicks :
         k \in DOMAIN clicks ~> k \in DOMAIN clicks /\ clicks[k].phase = "ended"
    /\ channel = "cli" /\ run = "done" ~> driver.ended
=============================================================================
