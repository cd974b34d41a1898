# Harbor: a verification development

Harbor keeps a plan (a sailing, a truck slot, a relief mission, a fleet board)
honest while the world changes under it. Agents propose, deterministic code
verifies, one authoritative state decides. This directory holds TLA+ models of
that machinery, the TLC runs that check them on small instances, and TLAPS
proofs of most of the same properties for every size. `PROJECT.json` maps each
definition to the source lines it stands for. Paths below are relative to `src/`.

Contents: [the system](#the-system) · [what is hard](#what-is-hard-here) ·
[modules](#modules-and-how-they-correspond-to-the-code) · [runs](#runs) ·
[fairness](#fairness) · [assumptions that are needed](#assumptions-that-are-needed-and-what-happens-without-them) ·
[proofs](#proofs) · [not modelled](#what-is-not-modelled) · [plan](#plan)

## The system

| component | state it keeps | operations | talks to | what makes it correct |
|---|---|---|---|---|
| in-memory store (`app/core/store.py`, `models.py`) | revision; event ledger (`pending_events` with lease and attempt, `processed_events`); plans; commitment; work items; trace | `advance_revision`, `complete_event`, `abandon_event`, `add_plan`, `mark_verified`, `reject_plan`, `commit_plan`, `revoke_commit`, `revoke_if_revision_current`, `revoke_if_stale`, `rebind_plan`, `create_work`, `claim`, `release` | everybody, each operation under one lock | an event moves the world once; an application has one owner at a time; only a verified, fresh plan is committed |
| Firestore store (`app/core/firestore_store.py`) | the same as documents; a read model per instance; a monotonic trace clock per process | the same, each one a transaction, then a refresh | Firestore | transactions do what the locked store does; claims are answered truthfully; the read model lags but never runs ahead; the trace is shown in order |
| membrane (`app/core/verify.py`) | none | `verify_and_commit`, `reverify_committed`: several store calls with no lock between them; `check_trace_integrity` | store | a commitment was passed by the verifier in the world it is bound to; a stale verdict withdraws nothing |
| harborwindow, stormslot (`app/scenarios/`) | none | `run` (seed, claim, propose, verify), `disrupt` (advance, re-verify, replan, complete or abandon) | membrane, store, weather | when everything is at rest the commitment reflects the last event |
| relief run (`app/scenarios/reliefrun.py`) | none; the clock is an argument | `run`, `disrupt`, `observe` with the roll of the service day | the same | no mission stands whose hour has passed; none is given up needlessly |
| relief fleet (`app/scenarios/relieffleet.py`) | failed edges, folded from the trace | `run`, `disrupt`, planner, verifier | the same | planner and verifier agree; one id names one assignment; nothing crosses a failed edge |
| run lifecycle (`app/runner.py`) | registry of runs | `start_run`, `apply_disruption` with its classification of the outcome | scenarios, store | the outcome reported is the one that happened |
| push endpoint (`app/api.py`) | none | `pubsub_push`: 2xx ends redelivery, 409 and 500 ask for it | Pub/Sub, run lifecycle | a failure is never acknowledged; everything applied in the end |
| sentinel (`app/sentinel.py`) | last fingerprint, in memory only | `tick`, restart with `--run-id` | weather, scenarios | where it rests, the commitment was judged on the forecast in force |
| portal (`app/portal.py`) | registry of runs | `create_relief_run`, `observe`, called by an outside clock | relief run | the same, without a memory |
| actor toolkit (`app/agents/tools.py`) | the revision its actor last read; its own plan ids, counted from one | `claim_work`, `read_facts`, `propose_plan`, called by a model in any order | store | a proposal is bound to what its author saw; no tool touches the commitment |
| shift (`app/geap/runtime_app.py`, `run_shift`) and probe (`app/agents/probe.py`) | none | open and seed a run, let one actor act, put its last proposal before the verifier; as a control, let new truth land in between | toolkit, store, membrane's rules | the stale control is refused, always |
| ADK actors, execution lane | sessions, outside the authoritative state | a turn of the model with the toolkit | model API | a failing turn leaves candidates at most |
| weather provider (`app/providers/weather.py`), route and seismic providers | none | HTTP fetch, translation into clock hours, fixtures | outside services | a missing reading is never read as safe; an hour is the hour meant |
| gates (`app/gate.py`, `app/live_gate.py`) | none | drive the scenarios, check the outcome against the observations | everything above | accept what the verifier accepts |
| metrics, demos, configuration, dashboards, deployment scripts | none that decides anything | reading, printing, wiring | | |

How they interact: a delivery (push message, observation, tick, direct trigger)
reaches `disrupt`, which fetches a forecast, calls `advance_revision` to order
the event, re-verifies the commitment through the membrane, replans if nothing
stands, and completes the event. All of that is some ten calls on the store,
each atomic, none atomic together. Calls carry a *fence* (event and attempt):
the store refuses a call whose attempt has been replaced, and ignores it quietly
once its event is applied.

## What is hard here

* **Interleaving between store calls.** No caller holds a lock between two
  calls. Revision, commitment and plans are read at one step and used at another.
* **At-least-once delivery.** Messages are delivered again, concurrently too;
  a 60 s lease decides that an attempt is dead when it may only be slow.
* **Partial failure.** Any call may raise, any process may die, and the event
  must be resumed rather than lost or declared applied.
* **Optimistic transactions.** Firestore aborts, retries, and may lose the
  answer of a commit that landed.
* **Wall clocks.** They order a trace across processes, expire leases, and
  decide whether a departure has passed, across midnight.
* **Identity.** Events named by content, plans named by position or by two
  separate reads.

`PROJECT.json` lists each hazard at its line with the properties aimed at it.

## Modules and how they correspond to the code

```
AbsorbOnce                          abstract ledger
   ^  refinement: proved (StateStoreProofs) and checked (run membrane_serial)
StateStore ------------------------ the locked store; every module below uses it
   ^ FirestoreStore (refines it)       ReadModel        Sentinel
   ^ Membrane (refines it) <- Delivery (adds requests and acknowledgements)
   |                       <- Shift    (adds a model with its toolkit)
   ^ ReliefFleet (with FleetPlanning)
Forecast <- ServiceDay              readings, verifiers, the clock
TraceOrder                          keys and display order
MC*                                 constants for TLC
*Proofs                             theorems (see Proofs)
```

**AbsorbOnce** says what the ledger promises: the world moves one revision at a
time, an event moves it at most once and owns that revision for ever, and is
applied at most once, after it was absorbed. No leases, attempts or failures.

**StateStore** is `InMemoryStateStore`: one action per mutator, whole, with its
fence check, early returns and refusals. A ledger entry is `unseen`,
`in_progress`, `lapsed` (in progress, lease over), `abandoned` or `applied`,
with the revision it owns and its attempt. `LeaseLapses` is the passing of time.
A plan is its verdict, the revision it is bound to and an opaque proposal. The
trace is append-only and no operation reads it, so it is left out here.
A call whose fence is refused raises and one whose event is applied is a no-op:
both change nothing, and the action is then disabled or a stutter. `StoreNext`
lets arbitrary clients call anything with any fence ever handed out.

**Membrane** is `run` and `disrupt` of harborwindow and stormslot with
`verify_and_commit` and `reverify_committed`, store call by store call. A worker
has a program counter and the locals the Python frames hold (event, fence,
forecast, plan, the revision it observed). Each unlocked read is a step of its
own. The verifiers are pure functions of the forecast and of immutable facts, so
they are a table `FeasibleUnder`. Plan ids are per scenario `...-plan-n` for the
n-th departure, so id and proposal are the same number. `Fails`, `Breaks` and
`Dies` are an exception inside the `try`, one outside it, and the loss of the
process. `Traffic` is the assumption on how events arrive (see below). Every delivery
fetches its forecast anew (`config.make_weather` builds a provider per call of
the runner), so a redelivery may judge on another one at the same revision:
`ForecastOf[e]` is a set. Within one delivery the provider answers again what it
answered once (`weather.py:265`, `Answers`). Two history variables say who knew
what: `truth[r]` collects the forecasts fetched by those who brought the world to
r and by those who took over from them, `concluded` is the forecast of the
attempt that completed its event last. The table of the instances is not
invented: MCForecast derives it from the verifier (see Forecast).

**Delivery** composes Membrane with `apply_disruption` and `pubsub_push`: a
desk receives a message, notes what the runner reads before the dispatch, lets
the worker run, reads again, classifies, and acknowledges or asks for
redelivery. Unacknowledged messages come again. `Interference` is what happens
beside the requests: direct triggers and other clients' claims.

**Shift** puts a model to work around the workers of Membrane. `run_shift` opens
and seeds a run (claiming every item but the one its agent must claim), and the
agent then calls `claim_work`, `read_facts` and `propose_plan` in any order with
any arguments. What it reads is a copy of the state that may lag (`Glimpse`: on
Firestore the copy is reloaded after one's own mutations only). Its last
proposal is judged as `verify_and_commit` judges, on the forecast of the seeding;
a *control* shift first lets marine truth land and judges on that. Anything may
raise anywhere, and nothing abandons the control's event. A run id is named again
only to repeat a shift that failed: the modules assume that of the callers, and
the properties of a shift speak of the first one (`Alone`).

**FirestoreStore** is the durable store, transaction by transaction: documents
read one at a time, a decision on the copies, buffered writes that land together
unless a document read was written since. Aborts at any time (conflict or lock
timeout), `txn_max_attempts`, lost answers, `claim`'s own retries and its fresh
read at the end are all there. The client library is external and modelled from
its use. Documents are read in any order, a superset of the code's orders; a
transaction known to be doomed stops reading.

**ReadModel** is `self.state` of an instance: each mutation is a transaction
(atomic here, which FirestoreStore justifies) followed by a refresh and a patch
under `_cache_lock`, with nothing holding the two together.

**Sentinel** is `tick`, `main --run-id` and the portal's `observe` as a watcher:
an event is a forecast, because its id is the digest of the forecast. The
disruption path is three steps here (absorb, judge, complete); Membrane has it
in full. Forecasts change and come back at any time and a watcher is restarted
at any moment; the history variables `returned` and `hasty` only record that it
happened.

**FleetPlanning** holds the fleet's planner (a recursive function over the missions) and
verifier as operators on hours, capacities, beds and road edges. **ReliefFleet**
is `run` and `disrupt` of the fleet over StateStore: ids made of two reads,
vehicles as work items, road failures appended to the trace after the revision
has moved and folded from it at every verdict. Of the trace it keeps these edges.
The plan that is weighed is the object fetched two steps earlier.

**Forecast** is what the numbers say, as operators: the provider's translation
of hourly entries into clock hours (units, absent values, the site's clock
against UTC, first occurrence wins), the hours a crossing is exposed to, the
verifiers of harborwindow and stormslot, and the live gate's check of a committed
departure. MCForecast writes the service's answers out for four days of weather
and *assumes* (`VerifierAssumption`, evaluated by TLC in every run of Membrane,
Delivery and Shift) that the table these runs use is what the verifier makes of
them.

**ServiceDay** is the standing mission of `reliefrun.py` against the clock, with
one whole observation as one action and no two calls at once: hours of the day,
the roll to tomorrow, a forecast that reaches `horizon` hours ahead and has no
date, content-and-hour-addressed event ids. The day a departure is meant for is a
history variable: the code does not keep it.

**TraceOrder** is `_monotonic_ns`, `_event_key`, `trace()` and
`check_trace_integrity`: keys minted inside a transaction from a clock that may
be stepped, landing later, displayed in key order. A transaction runs again only
if a document it has *read* was written since (`ReadBy`, `WrittenBy`). `add_plan`
reads none, so an id proposed again lands with the key it minted, and may be
displayed before a verdict that landed before it: within one process the keys
are minted in order (`firestore_store.py:99-100`), the events need not land in it.

Definitions marked `Fault` are plausible wrong versions of a definition that
follows; no specification uses them. They show that each property can fail.

## Runs

Sizes are distinct states. Each run takes two and a half minutes at most, with two workers.

| run | checks | instance and why it is enough |
|---|---|---|
| `membrane_serial` (955 k) | type, CommittedStandsVerified, CommittedHoldsInItsWorld, SettledIsHonest, MembraneUsesTheStore, WithdrawnBeforeReplaced, LivingAttemptIsNotEvicted, StoreAbsorbsOnce, HandoverNeedsSilence | one event at a time, deliveries of it overlapping, two attempts, failures and deaths; the second event's deliveries may each read either of two forecasts, one of which rules everything out; a direct trigger; two departures so that replanning has a choice. Workers are symmetric |
| `membrane_overlap` (423 k) | EventsOwnTheirRevisions, OnlyPresentVerdictsWithdraw, CommitCarriesAPass | everything overlaps: two events (ownership relates two), a trigger, the planner, an outsider at the work item, exceptions outside the `try`; one attempt each. What still holds there. Workers are symmetric |
| `membrane_evidence` (violation) | CommittedHoldsInItsWorld | the same property with two overlapping events, no failure at all: a plan judged on the older event's forecast is bound to the newer event's revision |
| `delivery` (319 k) | type, NoAckForAFailure, DeliveredToTheEnd | two requests at once for one message, a breakdown of any kind anywhere, a trigger that moves the revision beside them, a foreign claim, one resumption. A failure is never acknowledged; where nothing overlaps, the event is applied and acknowledged in the end |
| `shift` (1.67 M) | type, ControlIsRefused, PlanningIsNeverTurnedAway, AgentCommitsInTheWorldItRead, ProposingLeavesTheCommitment, EveryCommitCarriesAPass | a shift of either kind and its repetition, two proposals (the last one counts), two work items of which the agent must claim one, one event besides the control's and a planner around it; only the booked departure can sail at first and only the other after the event |
| `firestore` (679 k) | type with budgets, ClaimAnswersAreTrue, FirestoreMirrorsTheStore, NoLateEffect | two clients (a conflict needs two), two tries and one round of retries (a further one begins like the first), each behaviour with one of three repertoires: the ledger of an event with fenced writes; a plan and the commitment under a moving world; a contended item. Plan operations with a fence use the fence check that the first repertoire exercises |
| `read_model` (2.3 M) | ReadModelOnlyLags, ReadModelMovesForward | two threads share an instance (refreshes race), a third is elsewhere (the cache goes stale) |
| `sentinel_watch` (421 k) | RestIsExplained, SkyIsJudgedInTheEnd | three forecasts that change and come back, three mishaps, restarts at any moment; sentinel and portal |
| `sentinel_returns` (violation) | RestIsEarned | nothing fails, but an earlier forecast comes back |
| `fleet_serial` (680 k) | SettledRoadsHold, PlannersPlanPasses, OneIdOneProposal, CommitPassesOnTheRecord | the seeded fleet and the demonstration's forecasts, two events that each fail an edge, two attempts, six plans (two by `run`, one per attempt), a rival agency that may take the helicopter before `run` does |
| `service_day` (187 k) | NoPassedMissionStands, TodaysMissionIsRead, OnlyABlockedDayIsGivenUp | the seeded windows, six forecasts in any order, horizons of 9 hours (short of the day) and 24 (the provider's most), an observation in every hour of three days: two midnights and two rolls, from every hour of creation |
| `trace_one` (523 k) | CausesAreShownFirst, NoFalseAlarm | one process, two threads (a transaction is overtaken by one other), two plans, four events (propose, verify, and a commit or a second proposal that races with it), a clock that jumps between two readings |

The store and the modules composed with it stop at `MaxRevision` and
`MaxAttempt`; nothing compares two revisions except for equality and order of
the last two, so three revisions show what more would. `store.cfg` runs StateStore
alone under arbitrary clients (56 k states) with the five properties that are
proved for it.

### What the properties say

* *HandoverNeedsSilence*, *LivingAttemptIsNotEvicted*: an application passes to
  another attempt only after failure or silence; a late failure of a replaced
  attempt does not reopen the event under its replacement.
* *StoreAbsorbsOnce*, *EventsOwnTheirRevisions*: leases, attempts, late calls and
  redelivery never make an event move the world twice, nor two share a revision.
* *CommittedHoldsInItsWorld*: a commitment is feasible under a forecast that an
  attempt of the event which moved the world to its revision has fetched, not
  merely under one carried there from another revision.
* *SettledIsHonest*: once every event is applied and nobody is at work, a
  commitment that stands is bound to the present and feasible under the forecast
  of the attempt that finished the event, whatever earlier attempts had read and
  committed; and if none stands, that forecast rules every departure out.
* *OnlyPresentVerdictsWithdraw*: the loser of a race never withdraws what the
  winner repaired.
* *NoAckForAFailure*: acknowledging ends redelivery, the only repair there is. A
  message whose event is not applied yet is acknowledged at most by a request
  that another attempt turned away; never by one whose own attempt failed or was
  superseded. That much survives any overlap; more does not (see below).
* *DeliveredToTheEnd*: in a behaviour in which requests and planners never overlap
  (`NeverTwoAtWork`), every event is applied and acknowledged in the end.
* *NoLateEffect*, *FirestoreMirrorsTheStore*: between the check of a fence and
  the write it guards nothing happens; a transaction is one store operation.
* *ClaimAnswersAreTrue*: "won" means owned until released, and whoever was
  refused or told "undecided" does not own the item, lost answers included.
* *RestIsExplained*: a sentinel rests on a commitment judged on another forecast
  for two reasons only: this one was applied, overtaken and has come back; or its
  attempt died and the sentinel was restarted before the lease was over.
  *RestIsEarned* (never) is what the code means, and `sentinel_returns` refutes it.
* *SkyIsJudgedInTheEnd*: a forecast that is new and stays comes to be judged,
  whatever raised, died or came back before.
* *SettledRoadsHold*, *CommitPassesOnTheRecord*: no worker's early verdict
  survives a road that failed later.
* *NoPassedMissionStands*: on the day a departure was meant for, which the code
  does not record, it is still ahead.
* *TodaysMissionIsRead*: each hour of today's mission has a reading, and the
  reading is of today, although a forecast knows clock hours only.
* *OnlyABlockedDayIsGivenUp*: neither a stale commitment nor the order of the
  search hides an open window.
* *ControlIsRefused*: truth that lands after the proposal leaves it stale, in
  every interleaving with other truth, failures and lagging reads.
* *AgentCommitsInTheWorldItRead*: an actor that read at R and slept through R+1
  cannot commit, whatever its copy of the state said in between.
* *ProposingLeavesTheCommitment*: the strongest move of a model is a candidate.
* *EveryCommitCarriesAPass*: planner or agent, who commits has seen that very
  proposal pass.
* *PlanningIsNeverTurnedAway*: planner, seeding and toolkit claim each item in one
  and the same name, so nobody is refused and no event is declared applied for
  lack of a claim.
* *CausesAreShownFirst*, *NoFalseAlarm*: on one instance, with a clock stepped at
  will, an event is shown after those whose writes its transaction had before it,
  and the integrity check is silent, though an id proposed again may be shown
  before verdicts that landed before it.

## Fairness

* `DeliverySpec`: weak fairness of every thread's own step and of time (leases
  lapse), strong fairness of receiving: Pub/Sub redelivers what was not
  acknowledged, though a busy desk may turn a delivery away now and then.
  Breakdowns are never obliged and bounded by `MaxMishaps`: eventual success
  needs failures to stop, as it does in the code.
* `WatchSpec`: weak fairness of a tick (the interval loop, or the portal's
  outside scheduler), of the restart (an operator, or the platform, as the
  README of the repository describes), and of lapses.
* The other specifications state none; their properties are safety.

## Assumptions that are needed, and what happens without them

Some promises hold only under an assumption on the traffic, and for each there is
an instance without it that ends in a counterexample. Two of these are runs of the project; the others
(`.cfg` files named here, run with the MC module in the second column) are kept
for readers of the code and can be run in seconds to a minute.

| assumption | instance without it | what happens |
|---|---|---|
| one event at a time (`Traffic`) | `membrane_evidence`, MCMembrane | the forecast is fetched before `advance_revision` orders the event and `run` binds candidates to the revision it reads later (`harborwindow.py:178`, `verify.py:55`): evidence and revision cross |
| the same | `membrane_settled`, MCMembrane (SettledIsCurrent) | `add_plan` replaces the plan that is committed under the same id (`store.py:470`): both events end applied with a rejected plan of an older revision left committed |
| one request at a time (`NeverTwoAtWork`) | `delivery_race`, MCDelivery (AckOnlyWhenApplied) | `apply_disruption` takes the revision another request moved for its own doing (`runner.py:96-106`) and an application still under way is acknowledged; the deployed service admits 20 requests at once (`deploy/service.yaml`). Likewise a message whose attempt died is acknowledged when another event moves the world meanwhile, and nobody resumes it. DeliveredToTheEnd therefore speaks of behaviours that never do; NoAckForAFailure needs no assumption |
| a forecast does not return | `sentinel_returns`, Sentinel (RestIsEarned) | the content-addressed id is spent, the event is dismissed as a duplicate, nothing is re-verified (`sentinel.py:100,128`). RestIsExplained holds with and without |
| the sentinel is restarted after its lease | `sentinel_restart`, Sentinel (NewForecastIsJudged) | the dismissal "in flight" is remembered as applied and this forecast is never looked at again (`sentinel.py:128`). RestIsExplained holds with and without |
| an absorber refreshes before its event is resumed and completed | `read_pending`, MCReadModel (ProcessedIsNotPending) | the late patch shows an applied event as pending for good in this instance's read model (`firestore_store.py:668-675`) |
| one fleet event at a time (`Serial`) | `fleet_ids`, MCReliefFleet (OneIdOneProposal) | revision and number of plans are two reads (`relieffleet.py:377-380`): two assignments get one id |
| no rival holds a vehicle | `fleet_vehicles`, MCReliefFleet (AllocatedIsHeld) | `run` aborts on a refused claim, but the next `disrupt` replans without claiming (`relieffleet.py:376`) |
| an observation in every hour (`Attentive`) | `service_gap`, MCServiceDay (NoPassedMissionStands) | plans hold hours without a date: yesterday's 15:00 is reaffirmed after midnight (`reliefrun.py:123`) |
| a day ahead is read a day ahead (nothing ensures it) | `service_tomorrow`, MCServiceDay (TomorrowsMissionIsRead) | at the hour of the roll (15:00) a forecast of 24 hours still describes today's 15:00 and 16:00; tomorrow's last window is judged on them, against the comment at `reliefrun.py:341` |
| a run id is named once (`Alone`) | `shift_again`, MCShift (CommittedStandsVerified) | a repeated shift resumes the run (`runtime_app.py:341`) with a toolkit that counts from one (`tools.py:115`) and proposes over the plan that is committed. A repeated control, moreover, resumes its unfinished event, which moves nothing, so a proposal made after it is not stale and can be accepted |
| no event during a plain shift | `shift_evidence`, MCShift (CommittedHoldsInItsWorld) | the shift judges on the forecast of its seeding (`runtime_app.py:383`) a proposal bound to a world its actor read later: the same crossing of evidence and revision as in `membrane_evidence` |
| (none suffices) | `service_roll`, MCServiceDay (WithdrawnForCause) | after the roll, tomorrow's mission is judged by today's hour, revoked and planned anew at every observation until midnight (`reliefrun.py:360`) |
| one instance writes the trace | `trace_skew`, MCTraceOrder (EmptyMeansConsistent) | `check_trace_integrity` keeps the first event of a kind per plan id (`verify.py:109`): with skewed clocks and a reused id, a commit shown before its verification goes unnoticed |

In all models `disrupt` also declares an event applied when its replanning was
aborted by a refused claim; the code means it so (ABORT), hence SettledIsHonest
is checked without outsiders.

## Proofs

Every theorem holds for any sets and bounds that satisfy the named assumptions of
its modules (the `No...` values are not members of their sets, `Unclaimed` and
`NotCreated` are no actors, bounds are positive, tables have the shape the code
gives them); TLC evaluates these in every run. What a theorem assumes beyond that
is in its statement and in the last column.

| module | theorems | inductive invariant and argument | assumes besides |
|---|---|---|---|
| `StateStoreProofs` | `StoreTypeOK`, `StoreOwnership`, `StoreHandover`, `StoreImplementsAbsorbOnce`; `StoreCommitsFresh` for the modules that refine the store | TypeOK is inductive; ownership with it, because absorbed revisions lie in `1..revision` and a fresh one therefore differs. The refinement maps `clock` to the revision, `absorbed[e]` to the revision e owns, `applied` to the applied events: each ledger step is a `FirstDelivery`, an `Apply`, a `WorldMoves` or a stutter | - |
| `MembraneProofs` | `MembraneTyped`, `MembraneRefinesTheStore`, `MembraneInheritsTheStore`, `EveryCommitHasItsPass`, `OnlyPresentVerdictsEverWithdraw`, `LivingAttemptIsNeverEvicted` | `MembraneInv`: types; what each program counter implies about the locals (`LocalOK`: a worker at `commit` has weighed its plan, at `withdraw` has a negative verdict); no two workers hold the same attempt (`FencesAreOwn`); plans carry the proposal they are named for. A step is a call on the store with a minted fence or leaves the store alone, so the store's theorems carry over | - (any `Traffic`) |
| `SerialProofs`, first part | `CommitmentIsVerified`, `CommitmentHoldsInItsWorld`, `SettledIsAlwaysHonest`, `AlwaysWithdrawnBeforeReplaced` | `SerialInv`. The fence leaves at most one *owner*, a worker whose calls still take effect, and the world stands still while there is one: so what an owner read is still so (`OwnersKnow`), and others change nothing. Then verified, true to its world and honest are each preserved by the owner's next call | `Traffic = "one_at_a_time"`; for `SettledIsAlwaysHonest` also `Uncontested`: no outsider, one name per item, the departures are all there is to propose |
| `SerialProofs`, second part | `DeliveryTyped`, `DeliveryUsesTheMembrane`, `DeliveryInheritsTheStore`, `NoFailureIsAcknowledged` | `AckInv`: how an errand ended is true of the ledger, and who holds no fence at the end of a request was turned away by an event already absorbed. So a request that returns has applied its event or was turned away, whatever other requests did to the revision it compares | - (any number of requests) |
| `ShiftProofs` | `ShiftTyped`, `ShiftUsesTheStore`, `ControlIsAlwaysRefused`, `AgentCommitsWhatItRead`, `ProposingChangesNothing`, `EveryCommitHasAPass`, `PlanningIsNeverRefused` | `ShiftInv`: `MembraneInv`, what a shift's station implies about its locals (`ShiftOK`), and, for the first shift of a run, `FirstOK`: until it reports, the ids of its toolkit are no one else's, so no worker binds its proposals anew or commits them; the basis of its last proposal is no later than the world it read and than its copy of the state; the control's event is unseen until the shift lands it, and after that the basis lies behind the world for good | that nobody else delivers the control's event is in the model (`Around`); the last theorem: `OneNamePerItem` |
| `FirestoreProofs`, first part | `FirestoreTyped`, `ClaimsAreToldTheTruth`, `FirestoreImplementsTheStore`, `FirestoreInheritsTheStore`, `FencedWritesAreNeverLate` | `FirestoreInv`: a transaction not doomed holds copies equal to the documents it read, as nothing it read was written since. Hence its buffered writes are a function of the documents as they stand when it lands; one lemma per operation shows that this function is the store's action. `Stored` instantiates the theorems about the store on the documents | - |
| `FirestoreProofs`, second part (TraceOrder) | `OneProcessShowsCausesFirst`, `OneProcessRaisesNoAlarm` | `TraceInv`: `last` bounds every key minted, and a key lies above those of all events that had landed when it was minted (`SeenIsBelow`). Who is overtaken does not land, so what wrote the documents a transaction read is below it (`CausesAreBelow`); what a document says has its event (`OnRecord`), so each event has what it needs below it (`Founded`), and the first of a kind has too | `OneProcess` (`trace_skew`) |
| `MemoryProofs`, first part | `ReadTyped`, `ReadModelIsNeverAhead`, `ReadModelNeverGoesBack` | `ReadInv`: what a thread still has to patch is true of the store, a reload in progress is under the lock, and the store itself only moves forward | - |
| `MemoryProofs`, second part | `WatchTyped`, `RestIsAlwaysExplained` | `WatchInv`: a forecast that was never in force is unseen in the ledger, and the last forecast a sentinel remembers is accounted for (`LastIsAccountedFor`): applied, or left behind by an attempt that died before a hasty restart | - (forecasts return, restarts come at any moment) |
| `ServiceDayProofs` | `NoPassedMissionEverStands`, `TodaysMissionIsAlwaysRead`, `OnlyABlockedDayIsEverGivenUp` | `DayInv`: no hour is missed, so a standing departure lies ahead of the last look and its hours were read in this very hour | `Attentive` (`service_gap`); for the last: the windows lie within the mission's limits |
| the same, on `Forecast` | `HarborSatisfiesTheGate`, `StormSatisfiesTheGateIfCovered`, `FullDayIsCovered`, `HourAheadIsReadToday`, `NoReadingIsDropped` | arithmetic on clock hours. stormslot lets an hour without a reading pass and the gate does not: what it passes satisfies the gate once the port's hours are covered, which a horizon of a day ensures | as stated |
| `FleetProofs`, the planner | `PlannerAndVerifierAgree`, `LeftOutForCause` | each board of the planner's recursion fits (`Fits`: what is placed holds and is placed once) and keeps order (what is left out was taken by those before). The induction over the missions takes the first board that would not: `WFMin` on the natural numbers, a theorem without an operator parameter | the first: `BedsSuffice` and no mission left out, both checked by the verifier and not by the planner |
| `FleetProofs`, any schedule | `FleetTyped`, `FleetUsesTheStore`, `FleetInheritsTheStore` | `FleetInv`: types, what each step implies about the locals (`LocalOK`), no two workers hold the same attempt. A step is a call on the store with a minted fence, or leaves the store alone | - |
| `FleetProofs`, in order | `FleetKeepsOffFailedRoads`, `PlannedPlansPass`, `FleetIdsAreUnique`, `FleetCommitsOnTheRecord` | `SerialInv` (`FleetRunsInOrder`). At most one owner; who is about works for the one pending event (`OneAtATime`); `run` is over before the first event (`RunComesFirst`); an event's edges are on the record once its worker is past `emit` (`RoadsRecorded`); the next id lies above every id proposed (`ProposedAreCounted`); a plan under verification is what its worker proposed, and nobody else's (`VerifiesItsOwn`, `ProposalsAreOwn`). Hence what the owner knows is still so when it acts (`Knows`), and a verdict it reached holds on the record at its commit | `Serial` (`fleet_ids` shows why for the ids); `PlannedPlansPass` also `BedsSuffice` |

Only model-checked:

* liveness (`DeliveredToTheEnd`, `SkyIsJudgedInTheEnd`): fairness and ENABLED are
  beyond the prover;
* what the runs that end in a counterexample show.

Every other property of a run is stated by a theorem. `SerialInv` and its parts
were model-checked on the instance of `fleet_serial` before they were proved.

No module with a theorem, nor any module it uses, declares a RECURSIVE operator.

## What is not modelled

* Trace events other than road failures and the kinds `check_trace_integrity`
  reads; wording, formatting, logging, log scrubbing, dashboards; the metrics, a
  fold over the trace that people read and nothing acts on.
* What a model says: in Shift it may call any tool with any argument, so prompts,
  sessions and the mediation of model calls are left out.
* Of the providers: HTTP, routes and seismic events. A route is a table, a
  forecast is what the service answered; which answer it gives is free.
* Of the live gate: everything but its check of a committed departure against
  the observations. The gates drive the system and assert on what came out.
* The tables that find a run by its id (`runner.py`, `portal.py`): the models are
  about one run, and runs share no state.
* HTTP routes that only read, parsing of envelopes, configuration, demos,
  registration with the managed runtime, deployment and evidence scripts: no
  state that decides anything.

Abstractions that matter: time is the `lapsed` stage (any attempt may be silent
for a lease at any moment) and hours in ServiceDay; a restart of a process
forgets `_LAST_NS`, which TraceOrder leaves out; revisions, attempts, plans and
trace length are bounded in guards by `Max...` constants; `seed`'s claims are in
Membrane and Shift only.

## Plan

Done, in this order: the core (AbsorbOnce, StateStore and its proofs, Membrane,
Delivery); the durable store (FirestoreStore, ReadModel); the watchers
(Sentinel); the relief scenarios (FleetPlanning, ReliefFleet, ServiceDay); the
trace (TraceOrder); the toolkit and the shift (Shift); readings and verifiers
(Forecast); the theorems listed above.

What would come next:

1. A restart in TraceOrder, after which `_LAST_NS` begins again from the clock.
2. stormslot's and reliefrun's forecasts written out as harborwindow's are in
   MCForecast.
