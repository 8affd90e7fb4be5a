------------------------------- MODULE Preview -------------------------------
(***************************************************************************)
(* The capture_screenshots activity (agents/coding/preview.py) of several  *)
(* runs of one project: clone and apply the run's diff, bring the preview  *)
(* up, wait until its URL answers, sign in and photograph the routes,      *)
(* bring it down.                                                          *)
(*                                                                         *)
(* The profile names one compose project and one port, so that all         *)
(* captures of the project share one stack: `up` replaces its containers   *)
(* but not its volumes, `down -v` removes both, whoever built them.  A     *)
(* capture is a synchronous function on a thread of the worker: when it    *)
(* times out Temporal starts the next attempt, and the old one goes on; so *)
(* do compose commands that outlive their timeout, or their worker.        *)
(***************************************************************************)
EXTENDS Integers

CONSTANTS Runs,         \* runs of one project
          CaptureAttempts   \* maximum_attempts of DEFAULT_RETRY

ASSUME PreviewAssumption == CaptureAttempts \in Nat \ {0}

Attempts == 1 .. CaptureAttempts
Captures == Runs \X Attempts

VARIABLES
    call,       \* Temporal's record of every run's activity
    at,         \* where every capture is
    serves,     \* the containers: the capture whose change they run, or none
    data,       \* the volumes: the captures that wrote into their database
    clients,    \* compose commands that nobody waits for and that still work
    untidy,     \* history: captures that did not bring down what they brought up
    cut         \* history: attempts that timed out, died, or got no profile

previewVars == <<call, at, serves, data, clients, untidy, cut>>
compose == <<serves, data, clients, untidy>>

UpToDown == {"up", "wait", "shoot", "down"}
Active == {"checkout"} \cup UpToDown

PreviewTypeOK ==
    /\ call \in [Runs -> [attempt : Attempts,
                          status : {"scheduled", "started", "done", "failed"}]]
    /\ at \in [Captures -> {"none", "over"} \cup Active]
    /\ serves \in SUBSET Captures /\ data \in SUBSET Captures
    /\ clients \in SUBSET (Captures \X {"up", "down"})
    /\ untidy \in SUBSET Captures /\ cut \in SUBSET Captures

PreviewInit ==
    /\ call = [r \in Runs |-> [attempt |-> 1, status |-> "scheduled"]]
    /\ at = [c \in Captures |-> "none"]
    /\ serves = {} /\ data = {} /\ clients = {}
    /\ untidy = {} /\ cut = {}

-----------------------------------------------------------------------------
(* Temporal                                                                *)

Goes(c, place) == at' = [at EXCEPT ![c] = place]

Awaited(c) == call[c[1]] = [attempt |-> c[2], status |-> "started"]

MoreAttempts(r) == call[r].attempt < CaptureAttempts

NextAttempt(r) ==
    call' = [call EXCEPT ![r] =
        IF MoreAttempts(r) THEN [attempt |-> @.attempt + 1, status |-> "scheduled"]
        ELSE [@ EXCEPT !.status = "failed"]]

\* The activity is not told that its attempt is cut short.
Cuts(c) == NextAttempt(c[1]) /\ cut' = cut \cup {c}

\* The profile is loaded outside of every try.
Begin(c) ==
    /\ call[c[1]] = [attempt |-> c[2], status |-> "scheduled"]
    /\ \/ /\ call' = [call EXCEPT ![c[1]].status = "started"]
          /\ Goes(c, "checkout")
          /\ UNCHANGED cut
       \/ Cuts(c) /\ Goes(c, "over")
    /\ UNCHANGED compose

\* The timeouts of the commands add up to more than the activity's.
TimeOut(c) ==
    /\ Awaited(c)
    /\ Cuts(c)
    /\ UNCHANGED <<at, compose>>

\* The worker dies, and leaves the stack and the compose command at work to
\* themselves.
WorkerLost(c) ==
    /\ at[c] \in Active
    /\ Goes(c, "over")
    /\ IF Awaited(c) THEN Cuts(c) ELSE UNCHANGED <<call, cut>>
    /\ untidy' = IF at[c] \in UpToDown THEN untidy \cup {c} ELSE untidy
    /\ clients' = IF at[c] \in {"up", "down"} THEN clients \cup {<<c, at[c]>>} ELSE clients
    /\ UNCHANGED <<serves, data>>

-----------------------------------------------------------------------------
(* The compose project                                                     *)

\* `up` ran, to its end or to somewhere before: the volumes stay.
Builds(c) ==
    /\ serves' \in {serves, {}, {c}}
    /\ data' \in {data, data \cup {c}}

\* So did `down -v`.
Removes == serves' \in {serves, {}} /\ data' \in {data, {}}

\* A command that was left to itself gets somewhere in the end.
LateCommand(c) ==
    /\ \E command \in {"up", "down"} :
        /\ <<c, command>> \in clients
        /\ clients' = clients \ {<<c, command>>}
        /\ IF command = "up" THEN Builds(c) ELSE Removes
    /\ UNCHANGED <<call, at, untidy, cut>>

-----------------------------------------------------------------------------
(* capture_preview_screenshots                                             *)

\* The capture is over; whatever went wrong is only a note.
Returns(c) ==
    /\ Goes(c, "over")
    /\ call' = IF Awaited(c) THEN [call EXCEPT ![c[1]].status = "done"] ELSE call
    /\ UNCHANGED cut

\* Mutant: an error of the checkout gets out of the activity.
CheckoutRaises(c) ==
    /\ Goes(c, "over")
    /\ IF Awaited(c) THEN NextAttempt(c[1]) ELSE UNCHANGED call
    /\ UNCHANGED cut

\* No clone, or a diff that does not apply: there is nothing to bring down.
CheckoutFails(c) == Returns(c)

Checkout(c) ==
    /\ at[c] = "checkout"
    /\ \/ Goes(c, "up") /\ UNCHANGED <<call, cut>>
       \/ CheckoutFails(c)
    /\ UNCHANGED compose

\* Mutant: there is nothing to tear down when `up` failed.
NoTeardown(c) == Returns(c)

AfterFailedUp(c) == Goes(c, "down") /\ UNCHANGED <<call, cut>>

\* The stack is built and detached; or `up` fails somewhere, or its shell is
\* killed after its timeout and the compose command goes on.
Up(c) ==
    /\ at[c] = "up"
    /\ \/ /\ serves' = {c} /\ data' = data \cup {c}
          /\ Goes(c, "wait")
          /\ UNCHANGED <<call, clients, untidy, cut>>
       \/ /\ Builds(c)
          /\ AfterFailedUp(c)
          /\ \/ UNCHANGED <<clients, untidy>>
             \/ clients' = clients \cup {<<c, "up">>} /\ untidy' = untidy \cup {c}

\* The URL answers, or does not before the deadline.
AwaitReady(c) ==
    /\ at[c] = "wait"
    /\ \/ serves # {} /\ Goes(c, "shoot")
       \/ Goes(c, "down")
    /\ UNCHANGED <<call, compose, cut>>

\* The login spec signs a household up with whatever answers; what the pictures
\* then show is what the containers serve, with what the database holds.
SignUp(c) ==
    /\ at[c] = "shoot" /\ serves # {}
    /\ data' = data \cup {c}
    /\ UNCHANGED <<call, at, serves, clients, untidy, cut>>

\* All routes are taken, or one cannot be.
EndShoot(c) ==
    /\ at[c] = "shoot"
    /\ Goes(c, "down")
    /\ UNCHANGED <<call, compose, cut>>

\* The finally clause.  Its return code is not looked at, and a teardown that
\* fails, or goes on after its timeout, is only logged.
Down(c) ==
    /\ at[c] = "down"
    /\ \/ serves' = {} /\ data' = {} /\ UNCHANGED <<clients, untidy>>
       \/ Removes /\ untidy' = untidy \cup {c} /\ UNCHANGED clients
       \/ /\ clients' = clients \cup {<<c, "down">>} /\ untidy' = untidy \cup {c}
          /\ UNCHANGED <<serves, data>>
    /\ Returns(c)

-----------------------------------------------------------------------------
Capture(c) == Checkout(c) \/ Up(c) \/ AwaitReady(c) \/ SignUp(c) \/ EndShoot(c) \/ Down(c)

PreviewNext ==
    \E c \in Captures :
        Begin(c) \/ TimeOut(c) \/ WorkerLost(c) \/ Capture(c) \/ LateCommand(c)

PreviewSpec == PreviewInit /\ [][PreviewNext]_previewVars

-----------------------------------------------------------------------------
\* What a picture can show: its own run, and what other captures of the project
\* are at; or what one left that was lost, that failed to tear down, or whose
\* compose command went on alone.
\* Nothing else is ever served, or in the database, however captures overlap,
\* commands come late, and one capture's teardown takes another's stack away.
StackAccountedFor ==
    \A c \in serves \cup data : at[c] \in UpToDown \/ c \in untidy

\* Whatever fails in a capture is a note: an attempt is only repeated, and the
\* activity, and with it the pod, only fails, when attempts were cut short.
FailureIsANote ==
    \A r \in Runs :
        /\ \A a \in 1 .. call[r].attempt - 1 : <<r, a>> \in cut
        /\ call[r].status = "failed" => <<r, CaptureAttempts>> \in cut
=============================================================================
