----------------------------- MODULE HumanIOProofs -----------------------------
(***************************************************************************)
(* Proofs about HumanIO, for any people, gates, rounds, cards and clicks:  *)
(* what the cards tell, and that every click is done with.                 *)
(***************************************************************************)
EXTENDS HumanIO, SequenceTheorems, TLAPS

\* A card, a click whose handler is not forgotten, and one that is.
Card == [gate : Gates, live : BOOLEAN, shown : Decision \cup {Nothing}]
Whole == [card : 1 .. MaxCards, user : Users, decision : Words, text : Texts,
          phase : {"acked", "signalling", "editing", "ended"}, ok : BOOLEAN, sent : BOOLEAN]
Gone == [phase |-> "ended", sent |-> FALSE]

\* The decision that click c stands for, on the cards cs.
Meant(c, cs) == [card |-> c.card, gate |-> cs[c.card].gate, user |-> c.user,
                 decision |-> c.decision]

\* With the cards cs and the decisions ds that landed: a signal is only sent for
\* an approver's control that has one, and a handler only edits a card as
\* resolved when its own signal has landed.
Sound(c, cs, ds) ==
    /\ c \in Whole /\ c.card \in 1 .. Len(cs)
    /\ c.sent => c.user \in Approvers /\ SignalFor(cs[c.card].gate, c.decision, c.text)
    /\ c.phase = "editing" /\ c.ok => c.user \in Approvers /\ Meant(c, cs) \in ds

Clicks == Whole \cup {Gone}

TypesInv ==
    /\ channel \in {"slack", "cli"}
    /\ run \in {"none", "open", "done", "failed"}
    /\ round \in 0 .. MaxRounds /\ gate \in Gates \cup {"none"} /\ posting \in BOOLEAN
    /\ posting => gate \in Gates
    /\ driver \in [read : Gates \cup {"none", "done"}, answered : SUBSET Gates, ended : BOOLEAN]

\* A card that is resolved tells a decision of ds that an approver made on it.
Tells(card, i, ds) ==
    ~card.live => card.shown \in ds /\ card.shown.card = i /\ card.shown.user \in Approvers

CardsInv ==
    /\ cards \in Seq(Card) /\ Len(cards) <= MaxCards
    /\ \A i \in 1 .. Len(cards) : Tells(cards[i], i, landed)

LandedInv == landed \subseteq Decision /\ \A d \in landed : d.decision \in Answers(d.gate)

ClicksInv ==
    /\ clicks \in Seq(Clicks)
    /\ \A k \in 1 .. Len(clicks) : clicks[k] = Gone \/ Sound(clicks[k], cards, landed)

-----------------------------------------------------------------------------
(* Cards and clicks                                                        *)

\* The answers of a gate are what its signals say.
LEMMA SignalAnswers ==
    ASSUME NEW g, NEW decision, NEW text, SignalFor(g, decision, text)
    PROVE  decision \in Answers(g)
<1>1. CASE g = "pm_signoff"
  BY <1>1 DEF SignalFor, Answers, UserClarification
<1>2. CASE g = "clarification"
  BY <1>2 DEF SignalFor, Answers, UserClarification
<1>3. CASE g = "coding_budget"
  BY <1>3 DEF SignalFor, Answers, UserClarification
<1>4. CASE g \notin {"pm_signoff", "clarification", "coding_budget"}
  BY <1>4 DEF SignalFor, Answers, UserClarification
<1> QED
  BY <1>1, <1>2, <1>3, <1>4

\* Cards keep their gates, and decisions are only added.
Grows ==
    /\ Len(cards') \in Nat /\ Len(cards) <= Len(cards')
    /\ \A i \in 1 .. Len(cards) : cards'[i].gate = cards[i].gate
    /\ landed \subseteq landed'

\* What a click stands for does not change then.
LEMMA SoundStays ==
    ASSUME CardsInv, Grows, NEW c, Sound(c, cards, landed)
    PROVE  Sound(c, cards', landed')
<1>0. Len(cards) \in Nat
  BY LenProperties DEF CardsInv
<1>1. c.card \in 1 .. Len(cards)
  BY DEF Sound
<1>2. c.card \in 1 .. Len(cards')
  BY <1>0, <1>1 DEF Grows
<1>3. cards'[c.card].gate = cards[c.card].gate
  BY <1>1 DEF Grows
<1>4. Meant(c, cards') = Meant(c, cards)
  BY <1>3 DEF Meant
<1> QED
  BY <1>2, <1>3, <1>4 DEF Sound, Grows

\* A step that leaves the clicks alone.
LEMMA ClicksStay ==
    ASSUME CardsInv, ClicksInv, Grows, UNCHANGED clicks
    PROVE  ClicksInv'
  BY SoundStays DEF ClicksInv

\* Handler k goes on with r, or its click is forgotten.
LEMMA Becoming ==
    ASSUME CardsInv, ClicksInv, Grows, NEW k \in DOMAIN clicks, NEW r \in Whole, Becomes(k, r),
           Sound(r, cards', landed')
    PROVE  ClicksInv'
<1> DEFINE new == Settled(r)
<1>1. new = r \/ new = Gone
  BY DEF Settled, Gone
<1>2. new \in Clicks
  BY <1>1 DEF Clicks
<1>3. clicks' = [clicks EXCEPT ![k] = new]
  BY DEF Becomes
<1> HIDE DEF new
<1>4. k \in 1 .. Len(clicks) /\ clicks \in Seq(Clicks)
  BY LenProperties DEF ClicksInv
<1>5. /\ clicks' \in Seq(Clicks) /\ Len(clicks') = Len(clicks)
      /\ \A j \in 1 .. Len(clicks) : clicks'[j] = IF j = k THEN new ELSE clicks[j]
  BY <1>2, <1>3, <1>4, ExceptSeq
<1>6. \A j \in 1 .. Len(clicks) : clicks[j] = Gone \/ Sound(clicks[j], cards', landed')
  BY SoundStays DEF ClicksInv
<1>7. \A j \in 1 .. Len(clicks) : clicks'[j] = Gone \/ Sound(clicks'[j], cards', landed')
  BY <1>1, <1>5, <1>6
<1> QED
  BY <1>5, <1>7 DEF ClicksInv

\* Handler k has not ended, or its signal is under way: its click is known.
LEMMA Handled ==
    ASSUME ClicksInv, NEW k \in DOMAIN clicks, clicks[k].phase # "ended" \/ clicks[k].sent
    PROVE  Sound(clicks[k], cards, landed) /\ clicks[k] \in Whole
<1>1. k \in 1 .. Len(clicks)
  BY LenProperties DEF ClicksInv
<1>2. clicks[k] # Gone
  BY DEF Gone
<1> QED
  BY <1>1, <1>2 DEF ClicksInv, Sound

\* The same click in another phase is as sound, if it sends nothing new and
\* edits nothing as resolved that has not landed.
LEMMA SameClick ==
    ASSUME NEW cs, NEW ds, NEW c, Sound(c, cs, ds), NEW r \in Whole,
           r.card = c.card, r.user = c.user, r.decision = c.decision, r.text = c.text,
           r.sent => c.user \in Approvers /\ SignalFor(cs[c.card].gate, c.decision, c.text),
           r.phase = "editing" /\ r.ok => c.user \in Approvers /\ Meant(c, cs) \in ds
    PROVE  Sound(r, cs, ds)
<1>1. Meant(r, cs) = Meant(c, cs)
  BY DEF Meant
<1> QED
  BY <1>1 DEF Sound

\* Handler k goes on: to a phase, with its signal sent or not.
LEMMA GoesOn ==
    ASSUME CardsInv, ClicksInv, Grows, NEW k \in DOMAIN clicks,
           clicks[k].phase # "ended" \/ clicks[k].sent,
           NEW phase \in {"acked", "signalling", "editing", "ended"},
           NEW ok \in BOOLEAN, NEW sent \in BOOLEAN,
           Becomes(k, [clicks[k] EXCEPT !.phase = phase, !.ok = ok, !.sent = sent]),
           sent => \/ clicks[k].sent
                   \/ /\ clicks[k].user \in Approvers
                      /\ SignalFor(cards[clicks[k].card].gate, clicks[k].decision, clicks[k].text),
           phase = "editing" /\ ok =>
               clicks[k].user \in Approvers /\ Meant(clicks[k], cards) \in landed'
    PROVE  ClicksInv'
<1> DEFINE c == clicks[k]
           r == [c EXCEPT !.phase = phase, !.ok = ok, !.sent = sent]
<1>1. c \in Whole /\ Sound(c, cards, landed)
  BY Handled
<1>2. Sound(c, cards', landed')
  BY <1>1, SoundStays
<1>3. /\ r \in Whole /\ r.phase = phase /\ r.ok = ok /\ r.sent = sent
      /\ r.card = c.card /\ r.user = c.user /\ r.decision = c.decision /\ r.text = c.text
  BY <1>1 DEF Whole
<1>4. Becomes(k, r)
  OBVIOUS
<1>5. cards'[c.card].gate = cards[c.card].gate
  BY <1>1 DEF Sound, Grows
<1>6. Meant(c, cards') = Meant(c, cards)
  BY <1>5 DEF Meant
<1>7. sent => c.user \in Approvers /\ SignalFor(cards'[c.card].gate, c.decision, c.text)
  BY <1>1, <1>5 DEF Sound
<1>8. phase = "editing" /\ ok => c.user \in Approvers /\ Meant(c, cards') \in landed'
  BY <1>6
<1> HIDE DEF r, c
<1>9. Sound(r, cards', landed')
  BY <1>2, <1>3, <1>7, <1>8, SameClick
<1> QED
  BY <1>3, <1>4, <1>9, Becoming
-----------------------------------------------------------------------------
(* The steps                                                               *)

\* Cards and decisions stay as they are.
LEMMA Untouched ==
    ASSUME CardsInv, LandedInv, UNCHANGED <<cards, landed>>
    PROVE  Grows /\ CardsInv' /\ LandedInv'
<1>1. Len(cards) \in Nat
  BY LenProperties DEF CardsInv
<1> QED
  BY <1>1 DEF CardsInv, LandedInv, Grows

Kept == CardsInv' /\ LandedInv' /\ ClicksInv'

LEMMA ControlTypes ==
    ASSUME NEW g, NEW c \in Controls(g)
    PROVE  c.decision \in Words /\ c.text \in Texts
<1>1. Buttons(g) \subseteq Words
  <2>1. CASE g = "pm_signoff"
    BY <2>1 DEF Buttons, Words
  <2>2. CASE g = "clarification"
    BY <2>2 DEF Buttons, Words
  <2>3. CASE g = "coding_budget"
    BY <2>3 DEF Buttons, Words
  <2>4. CASE g \notin {"pm_signoff", "clarification", "coding_budget"}
    BY <2>4 DEF Buttons, Words
  <2> QED
    BY <2>1, <2>2, <2>3, <2>4
<1>2. Input(g) \subseteq Words
  <2>1. CASE g = "pm_signoff"
    BY <2>1 DEF Input, Words
  <2>2. CASE g = "clarification"
    BY <2>2 DEF Input, Words
  <2>3. CASE g = "coding_budget"
    BY <2>3 DEF Input, Words
  <2>4. CASE g \notin {"pm_signoff", "clarification", "coding_budget"}
    BY <2>4 DEF Input, Words
  <2> QED
    BY <2>1, <2>2, <2>3, <2>4
<1>3. \/ \E d \in Buttons(g) : c = [decision |-> d, text |-> "blank"]
      \/ \E d \in Input(g), t \in Texts : c = [decision |-> d, text |-> t]
  BY DEF Controls
<1> QED
  BY <1>1, <1>2, <1>3 DEF Texts

LEMMA ClickKept == CardsInv /\ LandedInv /\ ClicksInv /\ Click => Kept
<1> SUFFICES ASSUME CardsInv, LandedInv, ClicksInv, Click PROVE Kept
  OBVIOUS
<1>1. PICK i \in DOMAIN cards, u \in Users : \E c \in Controls(cards[i].gate) :
        clicks' = Append(clicks, [card |-> i, user |-> u, decision |-> c.decision,
                                  text |-> c.text, phase |-> "acked", ok |-> FALSE,
                                  sent |-> FALSE])
  BY DEF Click
<1>2. PICK c \in Controls(cards[i].gate) :
        clicks' = Append(clicks, [card |-> i, user |-> u, decision |-> c.decision,
                                  text |-> c.text, phase |-> "acked", ok |-> FALSE,
                                  sent |-> FALSE])
  BY <1>1
<1> DEFINE r == [card |-> i, user |-> u, decision |-> c.decision, text |-> c.text,
                 phase |-> "acked", ok |-> FALSE, sent |-> FALSE]
<1>3. Grows /\ CardsInv' /\ LandedInv' /\ UNCHANGED <<cards, landed>>
  BY Untouched DEF Click
<1>4. i \in 1 .. Len(cards) /\ Len(cards) \in Nat /\ Len(cards) <= MaxCards
  BY LenProperties DEF CardsInv
<1>5. c.decision \in Words /\ c.text \in Texts
  BY ControlTypes
<1>6. i \in 1 .. MaxCards
  BY <1>4, HumanAssumption DEF HumanAssumption
<1>7. r \in Whole /\ r.card = i /\ ~r.sent /\ r.phase = "acked"
  BY <1>5, <1>6 DEF Whole
<1>8. clicks' = Append(clicks, r)
  BY <1>2
<1> HIDE DEF r
<1>9. Sound(r, cards', landed')
  BY <1>3, <1>4, <1>7 DEF Sound
<1>10. clicks \in Seq(Clicks) /\ Len(clicks) \in Nat /\ r \in Clicks
  BY <1>7, LenProperties DEF ClicksInv, Clicks
<1>11. /\ clicks' \in Seq(Clicks) /\ Len(clicks') = Len(clicks) + 1
       /\ \A j \in 1 .. Len(clicks) : clicks'[j] = clicks[j]
       /\ clicks'[Len(clicks) + 1] = r
  BY <1>8, <1>10, AppendProperties
<1>12. ASSUME NEW j \in 1 .. Len(clicks')
       PROVE  clicks'[j] = Gone \/ Sound(clicks'[j], cards', landed')
  <2>1. j \in 1 .. Len(clicks) \/ j = Len(clicks) + 1
    BY <1>10, <1>11
  <2>2. CASE j \in 1 .. Len(clicks)
    BY <1>3, <1>11, <2>2, SoundStays DEF ClicksInv
  <2>3. CASE j = Len(clicks) + 1
    BY <1>9, <1>11, <2>3
  <2> QED
    BY <2>1, <2>2, <2>3
<1> QED
  BY <1>3, <1>11, <1>12 DEF Kept, ClicksInv

LEMMA NotifyKept ==
    ASSUME TypesInv, CardsInv, LandedInv, ClicksInv, NotifyGate
    PROVE  Kept
<1>1. UNCHANGED <<clicks, landed>> /\ posting
  BY DEF NotifyGate
<1>2. CASE UNCHANGED cards
  BY <1>1, <1>2, Untouched, ClicksStay DEF Kept
<1>3. CASE /\ Len(cards) < MaxCards
           /\ cards' = Append(cards, [gate |-> gate, live |-> TRUE, shown |-> Nothing])
  <2> DEFINE card == [gate |-> gate, live |-> TRUE, shown |-> Nothing]
  <2>1. card \in Card /\ card.live
    BY <1>1 DEF Card, TypesInv
  <2>2. cards \in Seq(Card) /\ Len(cards) \in Nat /\ MaxCards \in Nat
    BY LenProperties, HumanAssumption DEF CardsInv, HumanAssumption
  <2>3. cards' = Append(cards, card)
    BY <1>3
  <2> HIDE DEF card
  <2>4. /\ cards' \in Seq(Card) /\ Len(cards') = Len(cards) + 1
        /\ \A i \in 1 .. Len(cards) : cards'[i] = cards[i]
        /\ cards'[Len(cards) + 1] = card
    BY <2>1, <2>2, <2>3, AppendProperties
  <2>5. Grows
    BY <1>1, <2>2, <2>4 DEF Grows
  <2>6. Len(cards') <= MaxCards
    BY <1>3, <2>2, <2>4
  <2>7. ASSUME NEW i \in 1 .. Len(cards') PROVE Tells(cards'[i], i, landed')
    <3>1. i \in 1 .. Len(cards) \/ i = Len(cards) + 1
      BY <2>2, <2>4
    <3>2. CASE i \in 1 .. Len(cards)
      BY <1>1, <2>4, <3>2 DEF CardsInv
    <3>3. CASE i = Len(cards) + 1
      BY <2>1, <2>4, <3>3 DEF Tells
    <3> QED
      BY <3>1, <3>2, <3>3
  <2>8. CardsInv'
    BY <2>4, <2>6, <2>7 DEF CardsInv
  <2>9. LandedInv'
    BY <1>1 DEF LandedInv
  <2> QED
    BY <1>1, <2>5, <2>8, <2>9, ClicksStay DEF Kept
<1> QED
  BY <1>2, <1>3 DEF NotifyGate

\* A handler's step that touches neither cards nor decisions.
LEMMA HandlerKept ==
    ASSUME CardsInv, LandedInv, ClicksInv, UNCHANGED <<cards, landed>>, NEW k \in DOMAIN clicks,
           clicks[k].phase # "ended" \/ clicks[k].sent,
           NEW phase \in {"acked", "signalling", "editing", "ended"}, NEW sent \in BOOLEAN,
           NEW ok \in BOOLEAN, ~ok \/ phase # "editing",
           Becomes(k, [clicks[k] EXCEPT !.phase = phase, !.ok = ok, !.sent = sent]),
           sent => \/ clicks[k].sent
                   \/ /\ clicks[k].user \in Approvers
                      /\ SignalFor(cards[clicks[k].card].gate, clicks[k].decision, clicks[k].text)
    PROVE  Kept
<1>1. Grows /\ CardsInv' /\ LandedInv'
  BY Untouched
<1>2. ClicksInv'
  BY <1>1, GoesOn
<1> QED
  BY <1>1, <1>2 DEF Kept

LEMMA DispatchKept ==
    ASSUME CardsInv, LandedInv, ClicksInv, NEW k \in DOMAIN clicks, Dispatch(k)
    PROVE  Kept
<1> DEFINE c == clicks[k]
<1>1. c.phase = "acked" /\ UNCHANGED <<cards, landed>>
  BY DEF Dispatch
<1>2. c \in Whole
  BY <1>1, Handled
<1>3. c.ok \in BOOLEAN /\ c.sent \in BOOLEAN
  BY <1>2 DEF Whole
<1>4. PICK phase \in {"editing", "ended"} : Phase(k, phase, FALSE)
      \/ /\ c.user \in Allowlist /\ SignalFor(cards[c.card].gate, c.decision, c.text)
         /\ Becomes(k, [c EXCEPT !.phase = "signalling", !.sent = TRUE])
  BY DEF Dispatch
<1>5. CASE Phase(k, phase, FALSE)
  <2>1. [c EXCEPT !.phase = phase, !.ok = FALSE]
        = [c EXCEPT !.phase = phase, !.ok = FALSE, !.sent = c.sent]
    BY <1>2 DEF Whole
  <2>2. Becomes(k, [c EXCEPT !.phase = phase, !.ok = FALSE, !.sent = c.sent])
    BY <1>5, <2>1 DEF Phase
  <2> HIDE DEF c
  <2> QED
    BY <1>1, <1>3, <2>2, HandlerKept DEF c
<1>6. CASE /\ c.user \in Allowlist /\ SignalFor(cards[c.card].gate, c.decision, c.text)
           /\ Becomes(k, [c EXCEPT !.phase = "signalling", !.sent = TRUE])
  <2>1. [c EXCEPT !.phase = "signalling", !.sent = TRUE]
        = [c EXCEPT !.phase = "signalling", !.ok = c.ok, !.sent = TRUE]
    BY <1>2 DEF Whole
  <2>2. Becomes(k, [c EXCEPT !.phase = "signalling", !.ok = c.ok, !.sent = TRUE])
    BY <1>6, <2>1
  <2>3. c.user \in Approvers
    BY <1>6 DEF Allowlist
  <2> QED
    BY <1>1, <1>3, <1>6, <2>2, <2>3, HandlerKept
<1> QED
  BY <1>4, <1>5, <1>6

\* A signal's answer, as a step of its handler.
LEMMA SignalledGoesOn ==
    ASSUME NEW k, clicks[k] \in Whole, NEW ok \in BOOLEAN, Signalled(k, ok)
    PROVE  \E phase \in {"acked", "signalling", "editing", "ended"} :
             LET good == ok /\ clicks[k].phase = "signalling" IN
             /\ Becomes(k, [clicks[k] EXCEPT !.phase = phase, !.ok = good, !.sent = FALSE])
             /\ phase = IF clicks[k].phase = "signalling" THEN "editing" ELSE clicks[k].phase
<1> DEFINE c == clicks[k]
           good == ok /\ c.phase = "signalling"
           phase == IF c.phase = "signalling" THEN "editing" ELSE c.phase
<1>1. phase \in {"acked", "signalling", "editing", "ended"} /\ good \in BOOLEAN
  BY DEF Whole
<1>2. [c EXCEPT !.sent = FALSE, !.ok = good, !.phase = phase]
      = [c EXCEPT !.phase = phase, !.ok = good, !.sent = FALSE]
  BY <1>1 DEF Whole
<1>3. Becomes(k, [c EXCEPT !.sent = FALSE, !.ok = good, !.phase = phase])
  BY DEF Signalled
<1> QED
  BY <1>1, <1>2, <1>3

LEMMA SignalLandsKept ==
    ASSUME CardsInv, LandedInv, ClicksInv, NEW k \in DOMAIN clicks, SignalLands(k)
    PROVE  Kept
<1> DEFINE c == clicks[k]
           d == Meant(c, cards)
<1>1. c.sent /\ Signalled(k, TRUE) /\ UNCHANGED cards
  BY DEF SignalLands
<1>2. c \in Whole /\ Sound(c, cards, landed)
  BY <1>1, Handled
<1>3. landed' = landed \cup {d}
  BY DEF SignalLands, Landing, GateOf, Meant
<1>4. /\ c.card \in 1 .. Len(cards) /\ c.user \in Approvers
      /\ SignalFor(cards[c.card].gate, c.decision, c.text)
  BY <1>1, <1>2 DEF Sound
<1>5. cards[c.card].gate \in Gates
  <2>1. cards \in [1 .. Len(cards) -> Card]
    BY LenProperties DEF CardsInv
  <2>2. cards[c.card] \in Card
    BY <1>4, <2>1
  <2> QED
    BY <2>2 DEF Card
<1>6. d \in Decision /\ d.gate = cards[c.card].gate /\ d.decision = c.decision
  BY <1>2, <1>5 DEF Meant, Decision, Whole
<1>7. c.decision \in Answers(cards[c.card].gate)
  BY <1>4, SignalAnswers
<1>8. LandedInv'
  BY <1>3, <1>6, <1>7 DEF LandedInv
<1>9. CardsInv' /\ Grows
  <2>1. Len(cards) \in Nat
    BY LenProperties DEF CardsInv
  <2>2. \A i \in 1 .. Len(cards) : Tells(cards[i], i, landed')
    BY <1>3 DEF CardsInv, Tells
  <2>3. CardsInv'
    BY <1>1, <2>2 DEF CardsInv
  <2>4. Grows
    BY <1>1, <1>3, <2>1 DEF Grows
  <2> QED
    BY <2>3, <2>4
<1>10. PICK phase \in {"acked", "signalling", "editing", "ended"} :
         Becomes(k, [c EXCEPT !.phase = phase, !.ok = (TRUE /\ c.phase = "signalling"),
                              !.sent = FALSE])
  BY <1>1, <1>2, SignalledGoesOn
<1>11. d \in landed'
  BY <1>3
<1>12. (TRUE /\ c.phase = "signalling") \in BOOLEAN
  OBVIOUS
<1>13. ClicksInv'
  BY <1>1, <1>4, <1>9, <1>10, <1>11, <1>12, GoesOn
<1> QED
  BY <1>8, <1>9, <1>13 DEF Kept

LEMMA SignalFailsKept ==
    ASSUME CardsInv, LandedInv, ClicksInv, NEW k \in DOMAIN clicks, SignalFails(k)
    PROVE  Kept
<1> DEFINE c == clicks[k]
<1>1. c.sent /\ Signalled(k, FALSE) /\ UNCHANGED <<cards, landed>>
  BY DEF SignalFails
<1>2. c \in Whole
  BY <1>1, Handled
<1>3. PICK phase \in {"acked", "signalling", "editing", "ended"} :
        Becomes(k, [c EXCEPT !.phase = phase, !.ok = (FALSE /\ c.phase = "signalling"),
                             !.sent = FALSE])
  BY <1>1, <1>2, SignalledGoesOn
<1>4. Becomes(k, [c EXCEPT !.phase = phase, !.ok = FALSE, !.sent = FALSE])
  BY <1>3
<1> QED
  BY <1>1, <1>4, HandlerKept

LEMMA GiveUpKept ==
    ASSUME CardsInv, LandedInv, ClicksInv, NEW k \in DOMAIN clicks, GiveUp(k) \/ HandlerLost(k)
    PROVE  Kept
<1> DEFINE c == clicks[k]
<1>1. c.phase # "ended" /\ UNCHANGED <<cards, landed>>
  BY DEF GiveUp, GivesUp, HandlerLost
<1>2. c \in Whole
  BY <1>1, Handled
<1>3. c.ok \in BOOLEAN /\ c.sent \in BOOLEAN
  BY <1>2 DEF Whole
<1>4. CASE GiveUp(k)
  <2>1. [c EXCEPT !.phase = "editing", !.ok = FALSE]
        = [c EXCEPT !.phase = "editing", !.ok = FALSE, !.sent = c.sent]
    BY <1>2 DEF Whole
  <2>2. Becomes(k, [c EXCEPT !.phase = "editing", !.ok = FALSE, !.sent = c.sent])
    BY <1>4, <2>1 DEF GiveUp, GivesUp, Phase
  <2> QED
    BY <1>1, <1>3, <2>2, HandlerKept
<1>5. CASE HandlerLost(k)
  <2>1. [c EXCEPT !.phase = "ended", !.sent = FALSE]
        = [c EXCEPT !.phase = "ended", !.ok = c.ok, !.sent = FALSE]
    BY <1>2 DEF Whole
  <2>2. Becomes(k, [c EXCEPT !.phase = "ended", !.ok = c.ok, !.sent = FALSE])
    BY <1>5, <2>1 DEF HandlerLost
  <2> QED
    BY <1>1, <1>3, <2>2, HandlerKept
<1> QED
  BY <1>4, <1>5

LEMMA EditKept ==
    ASSUME CardsInv, LandedInv, ClicksInv, NEW k \in DOMAIN clicks, EditCard(k)
    PROVE  Kept
<1> DEFINE c == clicks[k]
           card == Edited(k)
<1>1. c.phase = "editing" /\ UNCHANGED landed /\ Phase(k, "ended", c.ok)
  BY DEF EditCard
<1>2. c \in Whole /\ Sound(c, cards, landed)
  BY <1>1, Handled
<1>3. c.ok \in BOOLEAN /\ c.sent \in BOOLEAN /\ c.card \in 1 .. Len(cards)
  BY <1>2 DEF Whole, Sound
<1>4. cards \in Seq(Card) /\ Len(cards) \in Nat /\ cards \in [1 .. Len(cards) -> Card]
  BY LenProperties DEF CardsInv
<1>5. Becomes(k, [c EXCEPT !.phase = "ended", !.ok = c.ok, !.sent = c.sent])
  <2>1. [c EXCEPT !.phase = "ended", !.ok = c.ok]
        = [c EXCEPT !.phase = "ended", !.ok = c.ok, !.sent = c.sent]
    BY <1>2 DEF Whole
  <2> QED
    BY <1>1, <2>1 DEF Phase
<1>6. CASE UNCHANGED cards
  BY <1>1, <1>3, <1>5, <1>6, HandlerKept
<1>7. CASE cards' = [cards EXCEPT ![c.card] = card]
  <2>1. cards[c.card] \in Card /\ cards[c.card].gate \in Gates
    BY <1>3, <1>4 DEF Card
  <2>2. c.ok => Meant(c, cards) \in landed /\ c.user \in Approvers
    BY <1>1, <1>2 DEF Sound
  <2>3. card = [gate |-> cards[c.card].gate, live |-> ~c.ok,
                shown |-> IF c.ok THEN Meant(c, cards) ELSE Nothing]
    BY DEF Edited, Landing, Meant
  <2>4. Meant(c, cards).card = c.card /\ Meant(c, cards).user = c.user
    BY DEF Meant
  <2>5. c.ok => Meant(c, cards) \in Decision
    BY <2>2 DEF LandedInv
  <2>6. card \in Card /\ card.gate = cards[c.card].gate /\ Tells(card, c.card, landed')
    <3>1. CASE c.ok
      <4>1. card = [gate |-> cards[c.card].gate, live |-> FALSE, shown |-> Meant(c, cards)]
        BY <2>3, <3>1
      <4>2. card.shown = Meant(c, cards) /\ card.gate = cards[c.card].gate /\ card \in Card
        BY <2>1, <2>5, <3>1, <4>1 DEF Card
      <4> QED
        BY <1>1, <2>2, <2>4, <3>1, <4>2 DEF Tells
    <3>2. CASE ~c.ok
      <4>1. card = [gate |-> cards[c.card].gate, live |-> TRUE, shown |-> Nothing]
        BY <2>3, <3>2
      <4>2. card.live /\ card.gate = cards[c.card].gate /\ card \in Card
        BY <2>1, <4>1 DEF Card
      <4> QED
        BY <4>2 DEF Tells
    <3> QED
      BY <3>1, <3>2
  <2> HIDE DEF card
  <2>7. /\ cards' \in Seq(Card) /\ Len(cards') = Len(cards)
        /\ \A i \in 1 .. Len(cards) : cards'[i] = IF i = c.card THEN card ELSE cards[i]
    BY <1>3, <1>4, <1>7, <2>6, ExceptSeq
  <2>8. Grows
    BY <1>1, <1>4, <2>6, <2>7 DEF Grows
  <2>9. CardsInv'
    BY <1>1, <2>6, <2>7 DEF CardsInv
  <2>10. LandedInv'
    BY <1>1 DEF LandedInv
  <2>11. ClicksInv'
    BY <1>1, <1>3, <1>5, <2>8, GoesOn
  <2> QED
    BY <2>9, <2>10, <2>11 DEF Kept
<1> QED
  BY <1>6, <1>7 DEF EditCard
-----------------------------------------------------------------------------
(* All steps                                                               *)

HandlersInv == CardsInv /\ LandedInv /\ ClicksInv

\* Whatever happens to the gate, the run and the driver: cards, clicks and
\* decisions do not care.
LEMMA ElsewhereKept ==
    ASSUME HandlersInv, UNCHANGED <<cards, clicks, landed>>
    PROVE  Kept
<1>1. Grows /\ CardsInv' /\ LandedInv'
  BY Untouched DEF HandlersInv
<1> QED
  BY <1>1, ClicksStay DEF HandlersInv, Kept

LEMMA HandlersKept == TypesInv /\ HandlersInv /\ [Next]_vars => HandlersInv'
<1> SUFFICES ASSUME TypesInv, HandlersInv, [Next]_vars PROVE Kept
  BY DEF HandlersInv, Kept
<1>1. CASE Route \/ OpenGate \/ CloseGate \/ EndRun \/ Driver \/ DriverGivesUp \/ UNCHANGED vars
  <2>1. UNCHANGED <<cards, clicks, landed>>
    BY <1>1 DEF Route, OpenGate, CloseGate, EndRun, Driver, DriverPolls, DriverSignals,
                DriverDone, DriverGivesUp, vars
  <2> QED
    BY <2>1, ElsewhereKept
<1>2. CASE NotifyGate
  BY <1>2, NotifyKept DEF HandlersInv
<1>3. CASE Click
  BY <1>3, ClickKept DEF HandlersInv
<1>4. ASSUME NEW k, Handler(k) PROVE Kept
  BY <1>4, DispatchKept, GiveUpKept, EditKept DEF Handler, HandlersInv
<1>5. ASSUME NEW k, Environment(k) PROVE Kept
  BY <1>5, SignalLandsKept, SignalFailsKept, GiveUpKept DEF Environment, HandlersInv
<1> QED
  BY <1>1, <1>2, <1>3, <1>4, <1>5 DEF Next

\* The driver notes what it read, or that it answered, or ends.
LEMMA DriverTypes ==
    ASSUME TypesInv, Driver \/ DriverGivesUp
    PROVE  driver' \in [read : Gates \cup {"none", "done"}, answered : SUBSET Gates,
                        ended : BOOLEAN]
<1> DEFINE D == [read : Gates \cup {"none", "done"}, answered : SUBSET Gates, ended : BOOLEAN]
<1>0. driver \in D /\ gate \in Gates \cup {"none"}
  BY DEF TypesInv
<1>1. ASSUME EndDriver PROVE driver' \in D
  BY <1>0, <1>1 DEF EndDriver
<1>2. CASE DriverPolls
  <2> DEFINE r == IF run = "done" THEN "done" ELSE gate
  <2>1. r \in Gates \cup {"none", "done"}
    BY <1>0
  <2>2. driver' = [driver EXCEPT !.read = r]
    BY <1>2 DEF DriverPolls
  <2> HIDE DEF r
  <2> QED
    BY <1>0, <2>1, <2>2
<1>3. CASE DriverSignals
  <2>1. driver.read \in Gates /\ driver.answered \cup {driver.read} \subseteq Gates
    BY <1>0, <1>3 DEF DriverSignals
  <2>2. \/ driver' = [driver EXCEPT !.read = "none"]
        \/ driver' = [driver EXCEPT !.read = "none", !.answered = @ \cup {driver.read}]
        \/ EndDriver
    BY <1>3 DEF DriverSignals
  <2> QED
    BY <1>0, <1>1, <2>1, <2>2
<1> QED
  BY <1>1, <1>2, <1>3 DEF Driver, DriverDone, DriverGivesUp

LEMMA TypesKept == TypesInv /\ [Next]_vars => TypesInv'
<1> SUFFICES ASSUME TypesInv, [Next]_vars PROVE TypesInv'
  OBVIOUS
<1>1. CASE Route
  BY <1>1 DEF Route, TypesInv
<1>2. CASE OpenGate
  <2>1. round + 1 \in 0 .. MaxRounds
    BY <1>2, HumanAssumption DEF OpenGate, TypesInv, HumanAssumption
  <2> QED
    BY <1>2, <2>1 DEF OpenGate, TypesInv
<1>3. CASE NotifyGate
  BY <1>3 DEF NotifyGate, TypesInv
<1>4. CASE CloseGate
  BY <1>4 DEF CloseGate, TypesInv
<1>5. CASE EndRun
  BY <1>5 DEF EndRun, TypesInv
<1>6. CASE Driver \/ DriverGivesUp
  <2>1. UNCHANGED <<channel, workflow>>
    BY <1>6 DEF Driver, DriverPolls, DriverSignals, DriverDone, DriverGivesUp
  <2> QED
    BY <1>6, <2>1, DriverTypes DEF workflow, TypesInv
<1>7. CASE Click \/ UNCHANGED vars
  BY <1>7 DEF Click, vars, workflow, TypesInv
<1>8. ASSUME NEW k, Handler(k) \/ Environment(k) PROVE TypesInv'
  <2>1. UNCHANGED <<channel, workflow, driver>>
    BY <1>8 DEF Handler, Environment, Dispatch, GiveUp, EditCard, SignalLands, SignalFails,
                HandlerLost
  <2> QED
    BY <2>1 DEF workflow, TypesInv
<1> QED
  BY <1>1, <1>2, <1>3, <1>4, <1>5, <1>6, <1>7, <1>8 DEF Next

LEMMA InvHolds == Spec => [](TypesInv /\ HandlersInv)
<1>1. Init => TypesInv /\ HandlersInv
  <2> SUFFICES ASSUME Init PROVE TypesInv /\ HandlersInv
    OBVIOUS
  <2>1. TypesInv
    <3>1. /\ channel \in {"slack", "cli"} /\ run = "none" /\ round = 0 /\ gate = "none"
          /\ posting = FALSE /\ driver = [read |-> "none", answered |-> {}, ended |-> FALSE]
      BY DEF Init
    <3>2. round \in 0 .. MaxRounds
      BY <3>1, HumanAssumption DEF HumanAssumption
    <3> QED
      BY <3>1, <3>2 DEF TypesInv
  <2>2. cards = << >> /\ clicks = << >> /\ landed = {}
    BY DEF Init
  <2>3. cards \in Seq(Card) /\ clicks \in Seq(Clicks) /\ Len(cards) = 0 /\ Len(clicks) = 0
    BY <2>2, EmptySeq
  <2>4. Len(cards) <= MaxCards
    BY <2>3, HumanAssumption DEF HumanAssumption
  <2>5. CardsInv
    BY <2>3, <2>4 DEF CardsInv
  <2>6. LandedInv
    BY <2>2 DEF LandedInv
  <2>7. ClicksInv
    BY <2>3 DEF ClicksInv
  <2> QED
    BY <2>1, <2>5, <2>6, <2>7 DEF HandlersInv
<1> QED
  BY <1>1, TypesKept, HandlersKept, PTL DEF Spec

-----------------------------------------------------------------------------
(* The theorems                                                            *)

\* Whoever clicks, whatever is retried or lost: every step keeps the types, and
\* a gate only gets decisions that its workflow understands.
THEOREM TypeCorrect == Spec => []TypeOK
<1>1. TypesInv /\ HandlersInv => TypeOK
  <2> SUFFICES ASSUME TypesInv, HandlersInv PROVE TypeOK
    OBVIOUS
  <2>1. \A i \in DOMAIN cards : cards[i].gate \in Gates /\ cards[i].live \in BOOLEAN
    <3>1. cards \in [1 .. Len(cards) -> Card] /\ DOMAIN cards = 1 .. Len(cards)
      BY LenProperties DEF HandlersInv, CardsInv
    <3>2. \A i \in DOMAIN cards : cards[i] \in Card
      BY <3>1
    <3> QED
      BY <3>2 DEF Card
  <2>2. \A k \in DOMAIN clicks : clicks[k].phase \in {"acked", "signalling", "editing", "ended"}
    <3>1. clicks \in [1 .. Len(clicks) -> Clicks] /\ DOMAIN clicks = 1 .. Len(clicks)
      BY LenProperties DEF HandlersInv, ClicksInv
    <3>2. \A k \in DOMAIN clicks : clicks[k] \in Clicks
      BY <3>1
    <3> QED
      BY <3>2 DEF Clicks, Whole, Gone
  <2> QED
    BY <2>1, <2>2 DEF TypeOK, TypesInv, HandlersInv, LandedInv
<1> QED
  BY <1>1, InvHolds, PTL

\* However many cards, people and clicks there are, a resolved card tells a
\* decision that an approver made on it and that reached the workflow.
THEOREM CardsTellTruth == Spec => []CardTellsTruth
<1>1. TypesInv /\ HandlersInv => CardTellsTruth
  <2> SUFFICES ASSUME HandlersInv, NEW i \in DOMAIN cards, ~cards[i].live
               PROVE  cards[i].shown \in {d \in landed : d.card = i /\ d.user \in Approvers}
    BY DEF CardTellsTruth
  <2>1. i \in 1 .. Len(cards)
    BY LenProperties DEF HandlersInv, CardsInv
  <2> QED
    BY <2>1 DEF HandlersInv, CardsInv, Tells
<1> QED
  BY <1>1, InvHolds, PTL
-----------------------------------------------------------------------------
(* How long a click takes                                                  *)

\* The steps that the handler of a click may still take.
StepsLeft(c) ==
    CASE c.phase = "acked" -> 3
      [] c.phase = "signalling" -> 2
      [] c.phase = "editing" -> 1
      [] OTHER -> 0

\* The step that a click's handler takes, and what everything else that happens
\* does to a click: it may cut the handler short, but it adds no step to it.
HandlerMovesOn(k) ==
    /\ k \in DOMAIN clicks'
    /\ StepsLeft(clicks'[k]) \in 0 .. StepsLeft(clicks[k])
    /\ Handler(k) => StepsLeft(clicks'[k]) < StepsLeft(clicks[k])

\* Handler k goes on with r, and no other click is touched.
LEMMA OneMoves ==
    ASSUME ClicksInv, NEW k \in DOMAIN clicks, NEW r \in Whole, Becomes(k, r)
    PROVE  /\ DOMAIN clicks' = DOMAIN clicks /\ StepsLeft(clicks'[k]) = StepsLeft(r)
           /\ \A j \in DOMAIN clicks : j # k => clicks'[j] = clicks[j]
<1> DEFINE new == Settled(r)
<1>1. new.phase = r.phase
  BY DEF Settled
<1>2. clicks' = [clicks EXCEPT ![k] = new]
  BY DEF Becomes
<1> HIDE DEF new
<1>3. DOMAIN clicks' = DOMAIN clicks /\ clicks'[k] = new
  BY <1>2
<1>4. \A j \in DOMAIN clicks : j # k => clicks'[j] = clicks[j]
  BY <1>2
<1> QED
  BY <1>1, <1>3, <1>4 DEF StepsLeft

\* A step of the handler or of its signal.
LEMMA OneStep ==
    ASSUME ClicksInv, NEW k \in DOMAIN clicks, Handler(k) \/ Environment(k)
    PROVE  /\ DOMAIN clicks' = DOMAIN clicks
           /\ \A j \in DOMAIN clicks : j # k => clicks'[j] = clicks[j]
           /\ StepsLeft(clicks'[k]) \in 0 .. StepsLeft(clicks[k])
           /\ Handler(k) => StepsLeft(clicks'[k]) < StepsLeft(clicks[k])
<1> DEFINE c == clicks[k]
<1>1. c.phase # "ended" \/ c.sent
  BY DEF Handler, Environment, Dispatch, GiveUp, GivesUp, EditCard, SignalLands, SignalFails,
         HandlerLost
<1>2. c \in Whole
  BY <1>1, Handled
<1>3. c.phase \in {"acked", "signalling", "editing", "ended"}
  BY <1>2 DEF Whole
<1>4. CASE Handler(k)
  <2>1. \E r \in Whole :
          /\ Becomes(k, r)
          /\ \/ c.phase = "acked" /\ r.phase \in {"signalling", "editing", "ended"}
             \/ c.phase = "signalling" /\ r.phase = "editing"
             \/ c.phase = "editing" /\ r.phase = "ended"
    <3>1. ASSUME NEW phase \in {"editing", "ended"}, NEW ok \in BOOLEAN, Phase(k, phase, ok)
          PROVE  \E r \in Whole : Becomes(k, r) /\ r.phase = phase
      <4> DEFINE r == [c EXCEPT !.phase = phase, !.ok = ok]
      <4>1. r \in Whole /\ r.phase = phase
        BY <1>2 DEF Whole
      <4>2. Becomes(k, r)
        BY <3>1 DEF Phase
      <4> QED
        BY <4>1, <4>2
    <3>2. CASE /\ c.phase = "acked"
               /\ Becomes(k, [c EXCEPT !.phase = "signalling", !.sent = TRUE])
      <4> DEFINE r == [c EXCEPT !.phase = "signalling", !.sent = TRUE]
      <4>1. r \in Whole /\ r.phase = "signalling"
        BY <1>2 DEF Whole
      <4> QED
        BY <3>2, <4>1
    <3>3. c.ok \in BOOLEAN
      BY <1>2 DEF Whole
    <3>4. CASE Dispatch(k)
      <4>1. \/ Phase(k, "ended", FALSE) \/ Phase(k, "editing", FALSE)
            \/ Becomes(k, [c EXCEPT !.phase = "signalling", !.sent = TRUE])
        BY <3>4 DEF Dispatch
      <4>2. c.phase = "acked"
        BY <3>4 DEF Dispatch
      <4>3. ASSUME NEW phase \in {"editing", "ended"}, Phase(k, phase, FALSE)
            PROVE  \E r \in Whole : Becomes(k, r) /\ r.phase \in {"editing", "ended"}
        BY <3>1, <4>3
      <4>4. CASE Phase(k, "ended", FALSE) \/ Phase(k, "editing", FALSE)
        BY <4>2, <4>3, <4>4
      <4> QED
        BY <3>2, <4>1, <4>2, <4>4
    <3>5. CASE GiveUp(k)
      BY <3>1, <3>5 DEF GiveUp, GivesUp
    <3>6. CASE EditCard(k)
      BY <3>1, <3>3, <3>6 DEF EditCard
    <3> QED
      BY <1>4, <3>4, <3>5, <3>6 DEF Handler
  <2>2. PICK r \in Whole :
          /\ Becomes(k, r)
          /\ \/ c.phase = "acked" /\ r.phase \in {"signalling", "editing", "ended"}
             \/ c.phase = "signalling" /\ r.phase = "editing"
             \/ c.phase = "editing" /\ r.phase = "ended"
    BY <2>1
  <2>3. StepsLeft(r) \in 0 .. StepsLeft(c) /\ StepsLeft(r) < StepsLeft(c)
    BY <2>2 DEF StepsLeft
  <2> QED
    BY <2>2, <2>3, OneMoves
<1>5. CASE Environment(k) /\ ~Handler(k)
  <2>1. \E r \in Whole :
          /\ Becomes(k, r)
          /\ \/ r.phase \in {c.phase, "ended"}
             \/ c.phase = "signalling" /\ r.phase = "editing"
    <3>1. ASSUME NEW ok \in BOOLEAN, Signalled(k, ok)
          PROVE  \E r \in Whole : /\ Becomes(k, r)
                                  /\ \/ r.phase \in {c.phase, "ended"}
                                     \/ c.phase = "signalling" /\ r.phase = "editing"
      <4>1. PICK phase \in {"acked", "signalling", "editing", "ended"} :
              LET good == ok /\ c.phase = "signalling" IN
              /\ Becomes(k, [c EXCEPT !.phase = phase, !.ok = good, !.sent = FALSE])
              /\ phase = IF c.phase = "signalling" THEN "editing" ELSE c.phase
        BY <1>2, <3>1, SignalledGoesOn
      <4> DEFINE r == [c EXCEPT !.phase = phase, !.ok = (ok /\ c.phase = "signalling"),
                                !.sent = FALSE]
      <4>2. (ok /\ c.phase = "signalling") \in BOOLEAN
        OBVIOUS
      <4>3. r \in Whole /\ r.phase = phase
        BY <1>2, <4>2 DEF Whole
      <4>4. Becomes(k, r)
        BY <4>1
      <4>5. phase = c.phase \/ (c.phase = "signalling" /\ phase = "editing")
        BY <4>1
      <4> HIDE DEF r
      <4> QED
        BY <4>3, <4>4, <4>5
    <3>2. CASE HandlerLost(k)
      <4> DEFINE r == [c EXCEPT !.phase = "ended", !.sent = FALSE]
      <4>1. r \in Whole /\ r.phase = "ended"
        BY <1>2 DEF Whole
      <4> QED
        BY <3>2, <4>1 DEF HandlerLost
    <3> QED
      BY <1>5, <3>1, <3>2 DEF Environment, SignalLands, SignalFails
  <2>2. PICK r \in Whole :
          /\ Becomes(k, r)
          /\ \/ r.phase \in {c.phase, "ended"}
             \/ c.phase = "signalling" /\ r.phase = "editing"
    BY <2>1
  <2>3. StepsLeft(r) \in 0 .. StepsLeft(c)
    BY <1>3, <2>2 DEF StepsLeft
  <2> QED
    BY <1>5, <2>2, <2>3, OneMoves
<1> QED
  BY <1>4, <1>5

LEMMA ClicksMoveOn ==
    ASSUME ClicksInv, [Next]_vars, NEW k \in DOMAIN clicks
    PROVE  HandlerMovesOn(k)
<1>1. StepsLeft(clicks[k]) \in Nat
  BY DEF StepsLeft
<1>2. \A j \in DOMAIN clicks : Handler(j) \/ Environment(j) => HandlerMovesOn(k)
  <2> SUFFICES ASSUME NEW j \in DOMAIN clicks, Handler(j) \/ Environment(j)
               PROVE  HandlerMovesOn(k)
    OBVIOUS
  <2>1. /\ DOMAIN clicks' = DOMAIN clicks
        /\ \A i \in DOMAIN clicks : i # j => clicks'[i] = clicks[i]
        /\ StepsLeft(clicks'[j]) \in 0 .. StepsLeft(clicks[j])
        /\ Handler(j) => StepsLeft(clicks'[j]) < StepsLeft(clicks[j])
    BY OneStep
  <2>2. CASE j = k
    BY <2>1, <2>2 DEF HandlerMovesOn
  <2>3. CASE j # k
    <3>1. clicks'[k] = clicks[k] /\ k \in DOMAIN clicks'
      BY <2>1, <2>3
    <3>2. ~Handler(k)
      <4> SUFFICES ASSUME Handler(k) PROVE FALSE
        OBVIOUS
      <4>1. StepsLeft(clicks'[k]) < StepsLeft(clicks[k])
        BY OneStep
      <4> QED
        BY <1>1, <3>1, <4>1
    <3> QED
      BY <1>1, <3>1, <3>2 DEF HandlerMovesOn
  <2> QED
    BY <2>2, <2>3
<1>3. CASE Handler(k)
  BY <1>2, <1>3
<1>4. CASE ~Handler(k) /\ clicks' = clicks
  BY <1>1, <1>4 DEF HandlerMovesOn
<1>5. CASE ~Handler(k) /\ Click
  <2>1. PICK r : clicks' = Append(clicks, r)
    BY <1>5 DEF Click
  <2>2. clicks \in Seq(Clicks) /\ Len(clicks) \in Nat /\ DOMAIN clicks = 1 .. Len(clicks)
    BY LenProperties DEF ClicksInv
  <2>3. k \in DOMAIN clicks' /\ clicks'[k] = clicks[k]
    BY <2>1, <2>2
  <2> QED
    BY <1>1, <1>5, <2>3 DEF HandlerMovesOn
<1>6. \/ \E j \in DOMAIN clicks : Handler(j) \/ Environment(j)
      \/ Click \/ clicks' = clicks
  BY DEF Next, Handler, Environment, Route, OpenGate, NotifyGate, CloseGate, EndRun, Driver,
         DriverPolls, DriverSignals, DriverDone, DriverGivesUp, vars
<1> QED
  BY <1>2, <1>3, <1>4, <1>5, <1>6

\* A click costs its handler at most three steps, whatever signals, restarts,
\* and other people's clicks do: each of its steps brings it closer to the end,
\* and nothing takes it back.
THEOREM ClicksAreServed == Spec => [][\A k \in DOMAIN clicks : HandlerMovesOn(k)]_vars
<1>1. HandlersInv /\ [Next]_vars => [\A k \in DOMAIN clicks : HandlerMovesOn(k)]_vars
  BY ClicksMoveOn DEF HandlersInv
<1>2. TypesInv /\ HandlersInv => HandlersInv
  OBVIOUS
<1> QED
  BY <1>1, InvHolds, PTL DEF Spec
=============================================================================
