--------------------------- MODULE GatedDelivery ---------------------------
(***************************************************************************)
(* What both parent workflows promise, the short one of bug.py and the long *)
(* one of feature_request.py: money is spent under a limit that only people *)
(* or the funding of the coding round move, only code with green verdicts  *)
(* is offered for release, a person consents to the release, and a run that *)
(* has come to an end changes nothing any more.  How many steps, gates and *)
(* loops lie between is left to the modules that implement it.             *)
(***************************************************************************)
EXTENDS Integers

CONSTANTS Limit,    \* the ceiling a run starts with
          Slack     \* how far above the limit a paid step may still start

VARIABLES
    spent,      \* dollars
    limit,      \* the ceiling as it stands
    exempt,     \* did a person lift the ceiling for good?
    code,       \* "none", or the verdict on what the pod handed over
    consent,    \* what a person last answered about the release
    authorized, \* was a consent acted upon?
    outcome

deliveryVars == <<spent, limit, exempt, code, consent, authorized, outcome>>

Init ==
    /\ spent = 0 /\ limit = Limit /\ exempt = FALSE
    /\ code = "none" /\ consent = "none" /\ authorized = FALSE
    /\ outcome = "open"

Sanctioned == exempt \/ spent <= limit

Open == outcome = "open"

\* A step may be the last one: what it found out ends the run.
GoesOnOrStops == outcome' \in {"open", "stopped"}

\* An agent is paid, before there is code.
Pay ==
    /\ Open /\ code = "none"
    /\ exempt \/ spent <= limit + Slack
    /\ spent' \in Nat /\ spent' >= spent
    /\ GoesOnOrStops
    /\ UNCHANGED <<limit, exempt, code, consent, authorized>>

\* The coding round is funded on top of what was spent.
Fund ==
    /\ Open /\ code = "none" /\ Sanctioned
    /\ limit' \in Nat /\ limit' >= limit
    /\ UNCHANGED <<spent, exempt, code, consent, authorized, outcome>>

\* The pod hands over its code and its bill.
Code ==
    /\ Open /\ code = "none" /\ Sanctioned
    /\ spent' \in Nat /\ spent' >= spent
    /\ code' \in {"green", "red"}
    /\ GoesOnOrStops
    /\ UNCHANGED <<limit, exempt, consent, authorized>>

\* Asked because the limit is passed, a person lifts it, once.
Exempt ==
    /\ Open /\ ~Sanctioned
    /\ exempt' = TRUE
    /\ GoesOnOrStops
    /\ UNCHANGED <<spent, limit, code, consent, authorized>>

\* People answer whenever they like.
Consent ==
    /\ consent' \in {"yes", "no"}
    /\ UNCHANGED <<spent, limit, exempt, code, authorized, outcome>>

Authorize ==
    /\ Open /\ ~authorized
    /\ code = "green" /\ consent = "yes" /\ Sanctioned
    /\ authorized' = TRUE
    /\ UNCHANGED <<spent, limit, exempt, code, consent, outcome>>

Release ==
    /\ Open /\ authorized
    /\ outcome' = "released"
    /\ UNCHANGED <<spent, limit, exempt, code, consent, authorized>>

\* A verdict, a person or a timeout ends the run; not once it is authorized.
Stop ==
    /\ Open /\ ~authorized
    /\ outcome' = "stopped"
    /\ UNCHANGED <<spent, limit, exempt, code, consent, authorized>>

\* An activity fails for good; what was authorized is not kept.
Fail ==
    /\ Open
    /\ outcome' = "failed" /\ authorized' = FALSE
    /\ UNCHANGED <<spent, limit, exempt, code, consent>>

Next == Pay \/ Fund \/ Code \/ Exempt \/ Consent \/ Authorize \/ Release \/ Stop \/ Fail

Spec == Init /\ [][Next]_deliveryVars
=============================================================================
