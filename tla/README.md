# Formal models of agentic-org

agentic-org turns feedback (a feature request or a bug) into a merged pull
request: Temporal workflows call language-model agents, stop at gates that
humans answer in Slack, hand the coding to an engineering pod, and watch what
all this costs.  This directory holds TLA+ models of its workflows, TLC
configurations that check them, and TLAPS proofs of their properties for every
value of their parameters.

    tlc -workers 2 -config FeatureBudget.cfg FeatureRequest
    tlapm FeatureRequestProofs.tla

Section 3 lists every configuration with its module.

`PROJECT.json` maps every definition to the lines it models.

## 1. Inventory

### Components, their state and their interactions

| component (under `src/`) | state it keeps | operations | talks to |
|---|---|---|---|
| Feature workflow, `orchestrator/workflows/feature_request.py` | status, cost, ceiling, override flag, PRD version, five signal inboxes | brief, council, PRD loop, mocks, research, sign-off loop, plan, coding-budget gate, pod, QA and CI gates, deploy gate, deploy | agent activities; pod and research child workflows; humans by signals |
| Pod workflow, `engineering_pod.py` | current diff, last verdicts, three loop counters, cost | code, QA, review, open PR, wait for CI, screenshots; QA, review and CI fix loops | coding-plane activities |
| Bug workflow, `bug.py` | as the feature workflow, with a clarification inbox | triage, clarification, plan, pod, gates, deploy | as the feature workflow |
| Consumer research, `consumer_research.py` | none between steps | one activity per persona in parallel, then a synthesis | agent activities |
| Invocation policy, `common.py`, `shared/errors.py` | Temporal's attempt count | at most 4 attempts, start-to-close timeout, non-retryable errors | all activities |
| Coding plane, `agents/coding/*`, `activities/coding_backed.py` | clone, branch, PR, CI run | clone, code, push, create or update PR, poll CI, merge, screenshot | git, `gh`, a sandbox, the agent SDK |
| Reasoning activities and runner, `activities/agent_backed.py`, `agents/*` | none | one structured call, re-asked when malformed; degraded verdicts | model providers |
| Human I/O, `humanio/*` | Slack messages | post cards, turn clicks into signals | Slack; the workflows' signals |
| Intake, `intake.py`, `intake_http.py` | none | route feedback, start a workflow | Temporal |
| Estimates, limits, types, ids, `shared/*` | none | size a coding round; caps and ceilings | read by workflows and activities |
| Projects; worker and CLI; evals | static or none | configuration, start-up, offline grading | |

A workflow is one Temporal coroutine: activities and child workflows are
awaited one at a time (the council votes and the research personas in
parallel), and between any two awaits a signal may overwrite an inbox.  An
activity whose retries run out raises in the workflow, which catches nothing of
the kind but for notifications.

### Hard behaviours

* Verdicts and diffs: three fix loops replace the diff that earlier verdicts
  were given for; a force-push may fail quietly; CI may change its mind after
  it was asked.
* Money: costs are added on many paths, but some calls are added without a
  check of the ceiling; retries and stopped sessions spend without reporting.
* Signals: early, late, twice, while the card is being posted, never; a signal
  call that timed out lands after all.
* Halts: seven final statuses, reached from inside nested loops and gates.
* Retries: an attempt dies between any two commands of an activity, or times
  out and goes on beside the attempt that replaces it, with the same branch,
  the same compose stack, the same pool of threads.

`PROJECT.json` lists each hazard at its line with the properties that cover it,
or why none does.

### What makes each component correct

* Pod: the verdicts it hands over judge what it hands over; loops end at their
  caps, and only there; no reported dollar is lost; bounded coding sessions.
* Feature and bug workflow: nothing ships without council, QA, CI and funding;
  no unsanctioned spend; a status that tells what happened; halts are final;
  every run ends, whoever stays silent; what the reporter answered is used.
* Invocation and research: money is only spent again on what a retry can mend;
  no report without an answer in time of every persona, nor with any other.
* Coding attempt: the diff is all of the session's work and nothing else; a
  session is not paid twice for an error; no directory is left behind.
* PR activities: a retry after a crash at any point finds what was done; what is
  merged is what CI judged.
* Preview: what is served, or in the database, is of captures that are under way
  or that are known not to have torn down; a failing capture costs neither an
  attempt nor the pod.
* Human I/O: a card shows what happened to it, for whichever order clicks,
  signals and edits take.
* Estimates and caps: a session is held to what a person funded, with turns and
  time in proportion and a model that is up to the plan; the card tells what
  that is.

## 2. Modules

### `EngineeringPod.tla`

One run of the pod.  `pc` is the awaited activity; the action named after an
activity is its completion and the workflow code up to the next await.  A diff
is the number of the coding pass that wrote it, so that `qa.of`, `review.of`,
`ci.of`, `head` (what the PR's branch holds) and `shots` can be compared with
`result.pass`.  `cost` is `cost_usd`; the history variables `reported` and
`spent` are what completed activities reported and what was really spent.

* `CodingPass` covers every outcome of a coding activity: a diff or none (an
  error becomes a failed story without one), its cost reported or, for a session
  stopped at its cap, not.
* `CodingAttemptLost` is a start-to-close timeout or a dead worker.  The pass
  starts again until `MaxAttempts`, and then the pod fails.  `ActivityFails` is
  the exhaustion of any other activity.
* `QaVerdict` fails safe and `ReviewVerdict` degrades to an approval when the
  call gives no valid verdict; what such a call cost is then not reported.
* `UpdatePr` may leave the branch as it was.  `upd` is its last answer, which the
  workflow does not read; `ShotsOfBranch` does.

### `FeatureRequest.tla`

One run of the feature workflow, with its child workflows as single steps.
`pc` is the awaited activity, child or gate.  `Spend` is `_act` (add the cost,
check the ceiling), `SpendRaw` is `_act_raw` (add only).  `CheckBudget` goes on
with the code after the check (`Proceed`), or opens the budget gate and
remembers the step in `ret`; an override takes the same `Proceed` later.  A gate
posts its card (`card = "posting"`) before it waits (`"posted"`), and signals
arrive in both.  A timeout is enabled only while its inbox is empty, since
Temporal's `wait_condition` returns when the condition holds.  Which inboxes are
reset (the two budget gates), consumed (sign-off) or neither (vote, deploy) is
as in the code.

Progress posts are not modelled: they are awaits at which only signals happen,
and an inbox written during one is as if written before it.

### `BugFix.tla`

One run of the bug workflow, in the conventions of `FeatureRequest`.  It has a
clarification gate of the reporter (which never blocks: its timeout goes on),
no council and no sign-off, and its own copies of the budget, funding, QA, CI
and deploy gates.  `planned` tells whether the
reporter's answer is in the context of the plan; `heard` is history: did an
answer come before the plan was built?

### `GatedDelivery.tla`

The abstract specification of both workflows: money under a limit that only a
person or the funding moves, code with green verdicts, a consent, a release,
and an end after which nothing changes.  `FeatureRequest` and `BugFix` each
INSTANCE it as `Delivery` with a refinement mapping, and `ImplementsDelivery` is
a property of a run of each.  `Slack` is how far above the ceiling a paid step may
still start: 0 for bugs, where every call is checked, and one unchecked step
for features (`_act_raw`).  `Fail` is the activity that fails for good: it
may come at any time, even after the consent was acted upon.

### `CheckedPr.tla`

What a run knows of its pull request, one activity at a time: the diff in hand,
the diff on the branch, the fixes begun and CI's last verdict.  `EngineeringPod`
awaits `open_pr`, `await_ci` and `update_pr` as if each happened at once, while
`PullRequest` has their commands and lost attempts.  Both INSTANCE this module as
`Checked`, and `ImplementsCheckedPr` is a property of a run of each: what the
pod takes for one step is what the commands come to.  In `PullRequest` the
abstract `head` is mapped to the real branch once the run knows of it, and not
to what the run believes.  A run that fails hands nothing over, in either.

### `PullRequest.tla`

`open_pr`, `await_ci`, `update_pr` and `deploy` of one run, a command of `git`
or `gh` at a time (`cmd`), with the branch, the pull request and its checks as
the state outside.  `AttemptLost` may come between any two commands and starts
the activity again from the clone; any command may fail (`refused` is history:
did GitHub refuse one in this attempt?).  A diff is the number of its coding
pass.  Checks register, finish or hang whenever they like, also after the
verdict.  The local target and the deploy that only opens a PR are in.

### `CodingSession.tla`

The attempts of one coding activity, each with its own workspace.  `ws` has the
tree, what is committed, the diff as taken, what git says.  A session edits,
checkpoints and ends; the SDK's session is cancelled with its attempt, the
container's client only is, and its container goes on (`ContainerEnds`).  An
attempt is a process of its own: when it times out, Temporal starts the next
and ignores its answer.

### `Preview.tla`

The captures of several runs of one project, each with its attempts.  The profile
names one compose project, so that all share `serves` (whose change the
containers run) and `data` (which captures wrote into the database's volume).
`up` replaces the containers and keeps the volume; only `down -v` removes both,
whoever made them.  Either may fail anywhere on its way (`Builds`, `Removes`).
A command whose shell was killed by a timeout, or whose worker died, goes on
alone (`clients`) and may take effect at any later time (`LateCommand`).  The
login spec signs a household up, which writes into the database (`SignUp`).
The profile is loaded outside of every try (`Begin`).  `untidy` and `cut` are
history: the captures that did not bring down what they brought up, and the
attempts that timed out, were lost, or got no profile.

### `AgentCalls.tla`

The research child workflow: personas in parallel, each an activity with
attempts, on a pool of threads.  A synchronous attempt cannot be stopped, so that
a timed-out one keeps its thread and goes on; `Awaited` is how Temporal tells
its answer from the current one's.  Within an attempt the runner asks again
when the answer does not parse, and gives up with an error that is not retried.

### `HumanIO.tla`

Intake starts a run, which opens gates one after the other; each posts a card
(a retried post makes a second one).  Every click has a handler of its own on a
thread: it checks the allowlist, signals, and edits the card.  The signal may
land after the handler gave up on it (`landed` is history).  With the channel
"cli" the driver of `cli/run.py` answers the gates in place of people.

### `CodingFunds.tla`

The money of one coding round, across the files that hand it on: the plan's
tiers, the estimate, the card and what is typed into it, the gate, and the
dollars, turns and time of every session.  Cents and rounding are those of the
code.  `agent` decides what holds a session: the SDK is given a cap of dollars,
the container's command is not, and the container's docker client waits for a
time of its own.

### Proof modules

`EngineeringPodProofs`, `FeatureRequestProofs`, `BugFixProofs`,
`PullRequestProofs`, `CodingSessionProofs`, `AgentCallsProofs`,
`CodingFundsProofs` and `HumanIOProofs`, each for the module it is named after;
`PullRequestProofs` extends `Preview` too and proves its properties.  The refinement
of an abstract specification is proved beside its implementation's other
theorems.  See section 4.

## 3. Runs

| run | module, configuration | what it asks | states |
|---|---|---|---|
| `pod` | `EngineeringPod` | session bound, which verdict judges which diff, giving up only at the caps, when screenshots show what the branch holds, no reported dollar lost, and the abstract checked pull request is implemented | 120 thousand |
| `feature` | `FeatureRequest` | gates and loops at no cost, any answer at any time or never: only green runs reach the deploy gate, statuses true, every run ends | 561 thousand |
| `feature_budget` | `FeatureRequest`, `FeatureBudget.cfg` | every step may pass the ceiling: sanctioned spend, bounded overshoot, no stale answer, no lost answer, and the abstract delivery is implemented | 3.4 million |
| `bug` | `BugFix` | all signals at any time and every step may pass the ceiling: the reporter is heard, statuses true, every run ends, the abstract delivery is implemented | 204 thousand |
| `pull_request` | `PullRequest` | lost attempts and refused commands at every point: retries find what was done, only what CI judged is merged; the commands come to the steps of the abstract checked pull request | 43 thousand |
| `human_io` | `HumanIO` | cards tell the truth, every handler and the driver end | 222 thousand |
| `agent_calls` | `AgentCalls` | retries only of what a retry can mend, no report without every persona's answer in time, the workflow ends though providers hang | 417 thousand |
| `coding_session` | `CodingSession` | what the diff holds, when a session is paid again, which directories stay | 1.1 million |
| `preview` | `Preview` | what a shared stack can show besides the run's own change; a failure within a capture repeats no attempt and fails no pod | 3.0 million |
| `coding_funds` | `CodingFunds` | each session is held to the funding, its caps rise together, the hardest story is staffed, the card shows what is funded | 357 thousand |

The runs of `EngineeringPod`, `BugFix`, `CodingFunds`, `PullRequest`,
`CodingSession` and `Preview` leave out the type invariant, which is proved
(section 4), as are `NoPrNoCiWork` of the pod and `RevisionBound` of the feature
workflow.

A run without a configuration's name uses the file named after its module.

### Bounds

* `pod`: none beyond the code's own; the loops make it finite.  One price per
  kind of call is enough, as the properties compare sums of the same terms.
* `feature`: 2 PRD passes and 1 sign-off revision instead of 3 and 2: the loops
  are still taken, left at the cap and left early, and nest.  A council of two
  has a majority, a tie and a rejection.
* `feature_budget`: costs of 0 or 1 a step with a ceiling of 2 let every step be
  the one that passes it, by one or by more; a pod that costs 1 or 3 is
  below or at, and above its funding of 1 or 2.  Of the signals only the two
  budget ones and the deploy approval are sent; the other gates take their
  timeouts, which the `feature` run complements with the answers.  Both
  estimates (with gate, without) are in.
* `bug`: the same costs with a ceiling of 1, all four signals.
* `pull_request`: the code's one CI fix and four attempts.  Two checks: one can
  register before the verdict and one after it.
* `human_io`: two cards are two of one gate or one each of two; two clicks are
  two people, or one person twice; an approver and a stranger.  Two rounds of
  gates let a click come when its gate is closed and the next is open.
* `agent_calls`: two personas on one thread, so that an attempt can time out
  before it gets a thread; two attempts, one re-ask.
* `coding_session`, `preview`: two attempts overlap, a third would only repeat
  what the second does to the first; two runs share the stack.
* `coding_funds`: two stories have every pair of tiers, in both orders.  Typed
  amounts are below half a cent, below the default, above it, above what four
  hours pay for, and above the largest that is accepted.  Two attempts a pass.
* The proofs show their properties without any bound.

### Fairness

* `FeatureRequest`, `BugFix`: weakly fair to `System` only.  Activities complete
  or run out of retries because each has a start-to-close timeout and at most
  four attempts (`common.py`), and timers fire because the Temporal server keeps
  them.  A weakly fair `System` may choose any of its enabled steps, so
  `Terminates` relies on no particular answer or verdict.
* `AgentCalls`: weakly fair to the workflow and to Temporal's scheduling and
  timeouts; not to providers, threads or the worker.
* `HumanIO`: weakly fair to each handler's own thread and to the driver's loop;
  not to Slack, to Temporal's answers, or to the workflow.
* People are nowhere assumed to answer anything.

### Disagreements with the documentation

Each of these runs checks one claim and is expected to find it violated.

| run | claim | what the code does |
|---|---|---|
| `pod_qa_of_branch` | QA reviews the pod's code before it can reach the deploy gate (docs/reference.md:355) | a CI fix pass replaces the diff; neither QA nor the reviewer sees the new one |
| `feature_shipped` | approval leads to "shipped" (README.md:122) | the answer of `deploy` is not read: SHIPPED though the merge was refused |

Met while modelling, and not stated by a run of their own:

* An attempt of `open_pr` that dies after its push and before `gh pr create`
  cannot be repaired by its retry, whose plain push the branch refuses; the run
  ends as CI_FAILED without a PR.  docs/reference.md:192 says that activities are
  written to be safely re-run.  `RetryConverges` states what does hold.
* CI's "unavailable" (a clone that fails) and a check that registers after the
  verdict pass the gate; engineering_pod.py:196 says that the org never merges
  past a red PR.  `MergedAsJudged` says that nothing else does.
* engineering_pod.py:217-218 says that the shots match exactly what the deploy
  gate would merge.  After a push of `update_pr` that failed they show a fix that
  is not on the branch, and CI's green verdict is on the diff before it:
  `ShotsOfBranch` says that this is the only such case.  And captures share one
  stack, so that another run's change may be on the pictures:
  `StackAccountedFor` says whose.
* meal_planner.py:28 speaks of an empty preview DB.  After a capture that was lost,
  or whose teardown failed, the next `up` finds the volume with the earlier
  household and migrations; the sign-up of the same household may be refused,
  and then the pages are captured without one (preview.py:115).
* engineering_pod.py:221 says that a broken preview can never kill a pod, and
  coding_backed.py:347 that the capture never raises.  Four attempts that time
  out or lose their worker do kill it, and a profile that does not load raises.
  `FailureIsANote` says that nothing else does.
* common.py:29 says that all other 4xx errors are permanent; only 400, 401, 403
  and 404 are on its list, and 402, 409, 413 or 422 are retried.
* A typed $0.004 passes the check of gates.py:223 and is rounded afterwards: the
  card says $0.00 and the estimate is funded.
* docs/reference.md:70 says that the approved amount is the pod's spend cap for
  the run; it caps each session (`SessionsWithinFunds`), and a round has four and
  more.  The worst case the card quotes (estimates.py:42) leaves out the QA fix
  pass.
* config.py:30 says that dollars, turns and wall-clock must rise together; with
  the container agent the wall-clock does not, and there is no cap of dollars.
* A file whose name git quotes is listed as "(unknown path)"; agent_backed.py:101
  says that every cut file is named.
* A diff without sections, such as the text of a git error, is announced to
  reviewer and QA as a change of no files.
* A click after the funding gate's timeout is shown on the card as if it had
  funded the round, which has the estimate by then.
* docs/reference.md:194 says that every activity returns its cost.  A session
  stopped at its cap, a failed story, a lost attempt and the research personas
  report none of theirs.
* feature_request.py:168 says that one terminal post covers every exit; a run
  whose activity fails for good ends without one, as RUNNING.
* A coding attempt whose test command fails to run becomes a failed story
  without the diff that was paid for.
* A sign-off answered after its gate timed out is taken for the answer about
  the next PRD version, and an approval of the deploy that arrives before there
  is a PR is honoured (documented as "a decision delivered early is still
  honored"); `ShipOnlyGreen` shows that the hard gates hold even then.
* Of two approvers who use a card at once, the workflow takes the later
  decision, and the card may show the other one.

## 4. Proofs

Every safety and action property of the passing runs, and both refinements each
of `GatedDelivery` and of `CheckedPr`, are proved: for all caps, costs, ceilings, estimates, council
sizes, panels, plans, typed amounts, numbers of attempts, threads, runs, checks,
files, people, cards and clicks.  Assumptions: only the named ones on
the constants (`PodAssumption`, `FeatureAssumption`, `BugAssumption`,
`PrAssumption`, `SessionAssumption`, `CallsAssumption`, `FundsAssumption`,
`HumanAssumption`, `PreviewAssumption`: numbers are natural, there is at least one attempt, one
thread and one PRD pass, an estimate is positive as `CODING_EST_BASE_USD` is,
artifacts are no sources, a stranger is no approver).  Dollars are natural numbers, so a rounding of
floating-point sums is not covered.

`EngineeringPodProofs`

* `TypeCorrect`, then three inductive invariants.
* `CounterInv`: a loop counter goes up before its coding pass runs, so outside
  coding `passes` is one more than the counters' sum, and each completed pass
  used at most `MaxAttempts` sessions.  `SessionBound` is not inductive without
  it.  Gives `SessionsBounded`.
* `PathInv` and `HandoverInv`: for each stage, which diff the verdicts judge
  and which loop was exhausted; and what of the current pass's cost is not added
  yet.  Give `ReportsCounted`, `VerdictsUpToDate`, `CiVerdictUpToDate`,
  `NoCiWorkWithoutPr`, `LoopsExhausted`.
* `ExposureBounded`: if no session costs more than C and no call of QA or
  reviewer more than A, the pod really spends at most
  C * (MaxAttempts * PassBudget) + A * MaxCalls.  It adds to the sessions the calls
  that each stage can have made.  The hypotheses are about prices only; the bound
  says what the funding, which caps one session, can grow to in a round.  Lost
  attempts of QA and reviewer are not billed in the model.
* `StepsBounded`: `StepsLeft` counts the passes, stages and attempts left,
  weighted so that going back in a loop still lowers it, as every step does.
* `FreshInv`: a result is that of the last pass, and before the PR nobody knows of
  a branch or a verdict.  Gives `PodChecksPr`, with the invariants above for the
  branch that a verdict is about.
* `BranchInv`: from the PR on, the branch holds the diff in hand, or an earlier one
  and the last push was refused.  Gives `ShotsMatchBranch`.

`FeatureRequestProofs`

* `At` is the step the workflow is at, with the budget gate counted as the step
  behind it: it makes "stop at the gate, then go on" a plain step of the path.
* `MoneyInv`: at `Settled` locations the cost is within the ceiling, at
  `Unsettled` ones at most one unchecked step above it, elsewhere two; when the
  pod starts, its funding is still free under the ceiling.  Gives
  `SpendSanctioned`, `OvershootBounded`, `FundedRoundSafe`.
* `PathInv`: what each location says about council, pod, funding and status.
  It uses `MoneyInv` twice: a deploy never stops at the budget gate, and a
  declined round was not funded.  Gives `ShipsGreenOnly`, `StatusTrue`,
  `StatusFinal`.
* `GateInv`: a card is only posted at a gate, and the resetting gates hold no
  older answer.  Gives `AnswersAsked`, `AnswersKept`.
* `DeliveryImplemented`: `MoneyInv` says that a paid step starts within the slack,
  `PathInv` that a release was consented to and green.  One lemma for each of the
  abstract actions, and one step for each of the code's.
* `LoopInv`: inside a sign-off round a version is written per pass.  Gives
  `RevisionsBounded`; its lemmas on `Round` do the multiplication.
* `StepsBounded`: `StepsLeft` is the same for the workflow, with sign-off rounds,
  PRD passes, locations, and the parts of a gate (its card, its wait).  Signals
  leave it as it is.

`BugFixProofs`

* `MoneyInv`: where the code is before a paid call the cost is within the limit,
  with no slack, since every call is checked.  `PathInv`: what each location says
  about the report, the pod, the funding and the status.  They give `StatusTrue`.
* `HeardInv`: before the plan, `heard` is what the clarification inbox has; from
  the plan on nothing overwrites what is planned.  Gives `ReporterIsHeard`.
* `DeliveryImplemented`, as for the feature workflow.
* `StepsBounded`: there are no loops, and a location's rank with the parts of its
  gate is enough.  A run takes at most 42 steps.

`PullRequestProofs`

* `RetryInv`: at every command, what this attempt has seen so far is consistent
  with what the branch and the pull request are, whichever attempt made them.
  Gives `RetriesConverge`.
* `JudgedInv`: from the verdict to the merge, the branch holds the diff that CI
  judged, and the checks it saw failed only where it could not be asked.  Gives
  `MergesJudged`.
* `ToldInv`: what an attempt is about to answer already holds of the branch, and
  while a fix is under way the branch holds what was judged, or the fix.  With it,
  the workflow's step that takes an answer is the abstract one, and all others,
  lost attempts included, are stutters.  Gives `CommandsCheckPr`.

`CodingSessionProofs`

* `SessionsPaidOnce` needs no more than the types: a new attempt starts only
  after the one before was excused.
* `FreshInv`: attempts begin in order and without a directory.  Without it an
  attempt could begin that had left one behind.  Gives `OnlyTheseStay`.
* `WorkInv`: up to the diff an attempt's tree holds nothing but edits, from the
  diff on the diff has what was kept, and the attempt of a story is over.  The
  lemma `OwnStep` says that no step of one attempt touches another's work.
  Gives `WorkHandedUp`.

`PullRequestProofs`, on `Preview`

* `EveryMove`: whatever the step, Temporal's record of a run only moves on by an
  answer or by a cut (`RecordMoves`), and a capture that is over stays over.
  `FailureIsANote` is inductive with it.  Gives `FailuresAreNotes`.
* `BegunInv`: a capture that has not begun is nowhere, and a command that was left
  to itself is of an untidy one.  With it, `AccountStep` shows for every step that
  it adds nothing to the containers or the volume but its own capture's, or an
  untidy one's, and that who leaves its teardown without removing both becomes
  untidy.  Gives `LeftoversAccounted`.

`AgentCallsProofs`

* `TotalNat`: what a panel's tokens add up to is a number.  The community modules
  add up with a recursive function on the subsets of the panel.  The provers
  cannot use an induction theorem that takes a predicate, so `SetInduction`
  derives one that takes a set from the least-element theorem, and it is used
  twice: the function exists, and its values are natural.
* `AskInv`: an attempt that was not polled is blank, and one that is alive may
  still pay for an answer.  Gives `TypeCorrect`; the types alone would allow an
  attempt to begin with its answers used up.
* `History` and `HistoryInv`: what every attempt came to, and what the records,
  findings and the report made of it.  The lemma `StepAdvances` says for every
  step that ends stand (`EndsStand`) and that a record only follows what its
  current attempt came to (`Advances`).  Gives `RetryPolicyHolds`.
* `TimelyInv`: an attempt that timed out is one that the workflow no longer waits
  for (`Over`), and stays so (`StaysOver`).  With `HistoryInv` it gives
  `ReportCounts`.
* `StepsBounded`: the measure is not one number, since a sum over the panel would
  need an induction for every step, but one for each attempt, one for each
  persona and one for the workflow.  Every step lowers one and raises none.

`CodingFundsProofs`

* `EstimateNat` is the induction of `TotalNat` for the stories of a plan.
* `CardInv`: while the gate is open an answered card says what is in the inbox,
  and cannot be clicked again.  Gives `FundingIsShown`.
* `SpentInv`: from the estimate on, and therefore in every funding, there is
  more than 0, which the pod would take for the default.  Gives
  `SpendingIsFunded`.
* `SessionInv`, with `TurnsCap` (a division that rounds up), `TimeCap` and
  `PlanTierTops` about the operators.  Gives `CapsTogether`, `HardestStory`.

`HumanIOProofs`

* `ClicksInv`: a click is forgotten, or a handler of it is `Sound`: its signal is
  only under way if an approver's control has one, and it only edits its card as
  resolved if what it stands for has landed.  `CardTellsTruth` alone is not
  inductive: an edit might then write anything.  The lemma `SoundStays` says that
  what other handlers, the run and Slack do meanwhile does not make it unsound,
  since cards keep their gates and what landed stays (`Grows`).
* `CardsInv` and `LandedInv`: every resolved card tells what landed, and what
  landed is an answer of its gate.  With `TypesInv` they give `TypeCorrect` and
  `CardsTellTruth`.
* `ClicksAreServed`: a handler's phases are ordered, each of its steps goes on to a
  later one, and nobody else's step moves it back.

Only model-checked: `Terminates` and `EveryoneServed`.  The half of `Terminates`
that is about the code is proved: the `StepsBounded` theorems leave no run of any
size a way to go on for ever, and `ClicksAreServed` says the same of a handler of
`EveryoneServed` (of the driver, whose polling has no bound, nothing is proved).
The other half, that a step which can be taken is taken, needs ENABLED and
fairness, which are beyond the prover.  What a sum comes to is proved no further
than that it is a natural number.

## 5. Not modelled, and why

* Prompts, personas, PDF and card rendering: data and layout.  Neither is how
  much of a diff fits into the reviewer's prompt; its verdict may be any.
* Progress posts and play-by-play: they change no state, and an inbox written
  during one is as if written before it.
* The estimate is a constant of the workflows, with and without its gate; its
  prices are in `CodingFunds`.
* Durations: every timeout may strike at any time, so that nothing is said about
  which of two timeouts is shorter.  The preview's commands may take longer
  than their activity, and `await_ci` blocks the worker's event loop while it
  polls (both in `PROJECT.json`'s hazards).
* `cli/trace.py` prints; project profiles are static; evals share no state with
  the system.
* Temporal's own replay: the models take its guarantees (an activity's result
  is recorded once, signals are not lost while the run is open) as given.

## 6. Plan

1. The workflows, their abstract specification, and the modules of the
   activities, retries and human I/O: done.
2. The theorems of section 4, for every safety and action property, the
   refinements of `GatedDelivery` and `CheckedPr`, and the bounds on the steps of
   workflows, pod, panel and handlers: done.
