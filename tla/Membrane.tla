------------------------------ MODULE Membrane ------------------------------
(***************************************************************************)
(* Workers carrying evidence through the verification membrane:            *)
(* app/core/verify.py (verify_and_commit, reverify_committed) called by    *)
(* disrupt() and run() of app/scenarios/harborwindow.py and stormslot.py,  *)
(* over one StateStore.                                                    *)
(*                                                                         *)
(* A worker is one thread inside run() (start_run, fenced UNFENCED) or     *)
(* inside disrupt() (one delivery of an event).  It holds no lock between  *)
(* two store calls, so every store call and every unlocked read of the     *)
(* state is a step of its own.  The verifier is a pure function of the     *)
(* forecast the worker has fetched and of facts that never change:         *)
(* Feasible(forecast, proposal).  A worker has a weather provider of its   *)
(* own, which answers again what it answered once; but every delivery has  *)
(* a fresh one, so a redelivery may judge on another forecast.             *)
(*                                                                         *)
(* Both scenarios name the plan that proposes the n-th departure "-plan-n" *)
(* and derive the departures from immutable facts, so the plan id and the  *)
(* proposal are the same number here: 1 is the booked slot, 2.. the others *)
(* in order of their distance from it.                                     *)
(***************************************************************************)
EXTENDS StateStore, Sequences

CONSTANTS
  Workers,
  Candidates,           \* number of departures run() will try
  Forecasts,            \* what a weather fetch can answer
  NoForecast,
  FirstForecasts,       \* what start_run's fetch can be answered
  ForecastOf,           \* ForecastOf[e]: what a fetch for e can be answered
  FeasibleUnder,        \* FeasibleUnder[x]: the departures the verifier passes
  Agenda,               \* the work items run() creates, then claims, in order
  Crew,                 \* Crew[k]: the actor that claims Agenda[k]
  Outsiders,            \* actors of other store clients
  TriggerForecasts,     \* bound: the same for a trigger with no event id
  Mishaps,              \* bound: the breakdowns workers may suffer
  Traffic               \* assumption on how events arrive, see Admitted

ASSUME CandidatesAssumption == /\ Candidates \in Nat \ {0}
                               /\ 1..Candidates \subseteq PlanIds
                               /\ 1..Candidates \subseteq Proposals
ASSUME ForecastAssumption == /\ FirstForecasts \subseteq Forecasts
                             /\ NoForecast \notin Forecasts
                             /\ ForecastOf \in [Events -> SUBSET Forecasts]
                             /\ FeasibleUnder \in [Forecasts -> SUBSET Proposals]
ASSUME AgendaAssumption == /\ Agenda \in Seq(WorkItems)
                           /\ Len(Agenda) > 0
                           /\ Crew \in [1..Len(Agenda) -> Actors]
                           /\ Outsiders \subseteq Actors
ASSUME TrafficAssumption == /\ Traffic \in {"any", "after_planning", "one_at_a_time"}
                            /\ TriggerForecasts \subseteq Forecasts
                            /\ Mishaps \subseteq {"fails", "breaks", "dies"}

VARIABLES
  pc,         \* pc[w]: where worker w stands
  worker,     \* worker[w]: its local variables
  launched,   \* start_run has registered the run
  truth,      \* history: truth[r] are the forecasts fetched by those who
              \* brought the world to r, and by those who took over from them
  concluded   \* history: the forecast of the event that was completed last

workerVars == <<pc, worker>>
history == <<truth, concluded>>
vars == <<storeVars, workerVars, launched, history>>

Feasible(forecast, proposal) == proposal \in FeasibleUnder[forecast]

-----------------------------------------------------------------------------
(* Workers *)

\* Steps inside verify_and_commit, reverify_committed and seed that pass
\* _require_fence.
FencedSteps == {"revoke", "rebind", "revoke_stale", "create", "claim", "propose",
                "reject", "mark", "commit"}
ReadSteps == {"committed", "observe", "judge", "run", "fetch", "weigh"}
Steps == {"idle", "advance", "complete", "abandon", "done"} \cup FencedSteps \cup ReadSteps

\* How disrupt() left: by returning (after an application, or because
\* advance_revision answered None) or by raising.
Endings == {"none", "applied", "dismissed", "superseded", "already_applied", "failed"}

Idle == [event |-> NoEvent, fence |-> Unfenced, moved |-> 0, forecast |-> NoForecast,
         plan |-> NoPlan, rev |-> 0, n |-> 0, basis |-> 0, ending |-> "none"]

Fence(w) == worker[w].fence
Forecast(w) == worker[w].forecast

\* Goto with the worker's locals unchanged.
Goto(w, step) == pc' = [pc EXCEPT ![w] = step] /\ UNCHANGED worker

End(w, ending) ==
  /\ pc' = [pc EXCEPT ![w] = "done"]
  /\ worker' = [worker EXCEPT ![w].ending = ending]

\* What seed() is answered: what disrupt() fetched already, if it did.
Answers(w) == IF Forecast(w) = NoForecast THEN FirstForecasts ELSE {Forecast(w)}

MembraneInit ==
  /\ StoreInit
  /\ pc = [w \in Workers |-> "idle"]
  /\ worker = [w \in Workers |-> Idle]
  /\ launched = FALSE
  /\ truth = [r \in 0..MaxRevision |-> {}]
  /\ concluded = NoForecast

\* A step that touches nothing shared.
LocalOnly == UNCHANGED <<storeVars, launched, history>>
\* A store call: the rest of the shared state stays.
StoreOnly == UNCHANGED <<launched, history>>

\* Worker w holds the forecast x about the world at revision r.
Learns(r, x) == truth' = [truth EXCEPT ![r] = @ \cup {x}] /\ UNCHANGED concluded

-----------------------------------------------------------------------------
(* Starting: start_run and the fetch that opens disrupt *)

\* The run is registered before it is planned, so events may already arrive.
StartRun(w) ==
  /\ pc[w] = "idle"
  /\ ~launched
  /\ launched' = TRUE
  /\ pc' = [pc EXCEPT ![w] = "run"]
  /\ worker' = [worker EXCEPT ![w] = Idle]
  /\ UNCHANGED <<storeVars, history>>

\* A worker that can no longer change anything: its event is applied.
Finished(v) == worker[v].event # NoEvent /\ ledger[worker[v].event].stage = "applied"

\* A worker whose writes carry no delivery identity: start_run or a trigger.
Unidentified(v) == pc[v] # "idle" /\ worker[v].event = NoEvent

\* "after_planning": start_run is over before the first event comes, as it is
\* for a client that learns the run id from the answer.  "one_at_a_time": an
\* event is let in only when every other one is applied and nothing
\* unidentified is running; deliveries of the same event may still overlap,
\* and superseded or late workers may still be about.
Admitted(e) ==
  CASE Traffic = "any" -> TRUE
    [] Traffic = "after_planning" -> \A v \in Workers : ~Unidentified(v)
    [] Traffic = "one_at_a_time" ->
         /\ \A v \in Workers : pc[v] = "idle" \/ Finished(v) \/ (e # NoEvent /\ worker[v].event = e)
         /\ \A d \in Events \ {e} : ledger[d].stage \notin Pending

\* disrupt fetches a forecast before it asks the store anything.
Begin(w, e, forecast) ==
  /\ pc[w] = "idle"
  /\ launched
  /\ Admitted(e)
  /\ pc' = [pc EXCEPT ![w] = "advance"]
  /\ worker' = [worker EXCEPT ![w] = [Idle EXCEPT !.event = e, !.forecast = forecast]]
  /\ LocalOnly

Deliver(w, e) == \E x \in ForecastOf[e] : Begin(w, e, x)
Trigger(w) == \E x \in TriggerForecasts : Begin(w, NoEvent, x)

-----------------------------------------------------------------------------
(* disrupt: advance_revision and what it answers *)

\* The lease carries the fence of the attempt that was just begun and the
\* revision of its event.
TakeLease(w) ==
  LET entry == ledger'[worker[w].event] IN
  /\ worker' = [worker EXCEPT
       ![w].fence = [event |-> worker[w].event, attempt |-> entry.attempt],
       ![w].moved = entry.revision]
  /\ Learns(entry.revision, Forecast(w))

Absorb(w) ==
  /\ pc[w] = "advance"
  /\ worker[w].event # NoEvent
  /\ AbsorbEvent(worker[w].event)
  /\ TakeLease(w)
  /\ pc' = [pc EXCEPT ![w] = "committed"]
  /\ UNCHANGED launched

Resume(w) ==
  /\ pc[w] = "advance"
  /\ worker[w].event # NoEvent
  /\ ResumeEvent(worker[w].event)
  /\ TakeLease(w)
  /\ pc' = [pc EXCEPT ![w] = "committed"]
  /\ UNCHANGED launched

AbsorbTrigger(w) ==
  /\ pc[w] = "advance"
  /\ worker[w].event = NoEvent
  /\ AbsorbUnidentified
  /\ pc' = [pc EXCEPT ![w] = "committed"]
  /\ worker' = [worker EXCEPT ![w].moved = revision']
  /\ Learns(revision', Forecast(w))
  /\ UNCHANGED launched

Dismiss(w) ==
  /\ pc[w] = "advance"
  /\ worker[w].event # NoEvent
  /\ Dismissed(worker[w].event)
  /\ End(w, "dismissed")
  /\ LocalOnly

-----------------------------------------------------------------------------
(* reverify_committed *)

ReadCommitted(w) ==
  /\ pc[w] = "committed"
  /\ pc' = [pc EXCEPT ![w] = IF committed = NoPlan THEN "run" ELSE "observe"]
  /\ worker' = [worker EXCEPT ![w].plan = committed]
  /\ LocalOnly

\* observed = store.state.revision, before the verifier runs.
Observe(w) ==
  /\ pc[w] = "observe"
  /\ pc' = [pc EXCEPT ![w] = "judge"]
  /\ worker' = [worker EXCEPT ![w].rev = revision]
  /\ LocalOnly

\* Fault: the standing plan is reaffirmed without asking the verifier.
JudgeLeniently(w) ==
  /\ pc[w] = "judge"
  /\ Goto(w, "rebind")
  /\ LocalOnly

\* Fault: a refuted commitment is replanned without being withdrawn.
JudgeWithoutRevoking(w) ==
  /\ pc[w] = "judge"
  /\ Goto(w, IF Feasible(Forecast(w), plans[worker[w].plan].proposal) THEN "rebind" ELSE "run")
  /\ LocalOnly

Judge(w) ==
  /\ pc[w] = "judge"
  /\ Goto(w, IF Feasible(Forecast(w), plans[worker[w].plan].proposal) THEN "rebind" ELSE "revoke")
  /\ LocalOnly

Revoke(w) ==
  /\ pc[w] = "revoke"
  /\ RevokeIfRevisionCurrent(worker[w].plan, worker[w].rev, Fence(w))
  /\ Goto(w, "run")
  /\ StoreOnly

\* Re-bound and reaffirmed: disrupt has nothing left but complete_event.
Rebind(w) ==
  /\ pc[w] = "rebind"
  /\ RebindPlan(worker[w].plan, worker[w].rev, Fence(w))
  /\ Goto(w, IF WorldStandsAt(worker[w].rev) THEN "complete" ELSE "revoke_stale")
  /\ StoreOnly

RevokeStale(w) ==
  /\ pc[w] = "revoke_stale"
  /\ RevokeIfStale(worker[w].plan, Fence(w))
  /\ Goto(w, "run")
  /\ StoreOnly

-----------------------------------------------------------------------------
(* run: seed the work items, then try the departures one by one *)

\* Every plan below binds to the revision read here, and is judged on the
\* forecast seed() asks for next.
ReadWorld(w) ==
  /\ pc[w] = "run"
  /\ pc' = [pc EXCEPT ![w] = "create"]
  /\ \E x \in Answers(w) :
       /\ worker' = [worker EXCEPT ![w].rev = revision, ![w].n = 1, ![w].forecast = x]
       /\ Learns(worker[w].moved, x)
  /\ UNCHANGED <<storeVars, launched>>

\* To the next item of the agenda, or on to the next phase.
NextItem(w, again, onward) ==
  IF worker[w].n < Len(Agenda)
    THEN /\ pc' = [pc EXCEPT ![w] = again]
         /\ worker' = [worker EXCEPT ![w].n = @ + 1]
    ELSE /\ pc' = [pc EXCEPT ![w] = onward]
         /\ worker' = [worker EXCEPT ![w].n = 1]

SeedCreate(w) ==
  /\ pc[w] = "create"
  /\ CreateWork(Agenda[worker[w].n], Fence(w))
  /\ NextItem(w, "create", "claim")
  /\ StoreOnly

\* A refused claim aborts the planning, and disrupt still completes the event.
SeedClaim(w) ==
  /\ pc[w] = "claim"
  /\ LET i == Agenda[worker[w].n]
         a == Crew[worker[w].n]
     IN  /\ Claim(i, a, Fence(w))
         /\ IF Claimable(i, a) THEN NextItem(w, "claim", "propose") ELSE Goto(w, "complete")
  /\ StoreOnly

\* Fault: the plan is bound to the revision after the one run() read.
ProposeAhead(w) ==
  /\ pc[w] = "propose"
  /\ AddPlan(worker[w].n, worker[w].n, worker[w].rev + 1, Fence(w))
  /\ Goto(w, "fetch")
  /\ StoreOnly

Propose(w) ==
  /\ pc[w] = "propose"
  /\ AddPlan(worker[w].n, worker[w].n, worker[w].rev, Fence(w))
  /\ Goto(w, "fetch")
  /\ StoreOnly

\* Fault: one departure too many.
NextCandidatePastTheEnd(w) ==
  IF worker[w].n <= Candidates
    THEN /\ pc' = [pc EXCEPT ![w] = "propose"]
         /\ worker' = [worker EXCEPT ![w].n = @ + 1]
    ELSE Goto(w, "complete")

\* A candidate that did not commit: the next one, or NO_FEASIBLE_PLAN.
NextCandidate(w) ==
  IF worker[w].n < Candidates
    THEN /\ pc' = [pc EXCEPT ![w] = "propose"]
         /\ worker' = [worker EXCEPT ![w].n = @ + 1]
    ELSE Goto(w, "complete")

-----------------------------------------------------------------------------
(* verify_and_commit *)

FetchPlan(w) ==
  /\ pc[w] = "fetch"
  /\ pc' = [pc EXCEPT ![w] = "weigh"]
  /\ worker' = [worker EXCEPT ![w].basis = plans[worker[w].n].basis]
  /\ LocalOnly

\* Fault: the staleness check stands in for the verifier.
WeighStalenessOnly(w) ==
  /\ pc[w] = "weigh"
  /\ Goto(w, IF WorldStandsAt(worker[w].basis) THEN "mark" ELSE "reject")
  /\ LocalOnly

\* Staleness first, then the verifier.
Weigh(w) ==
  /\ pc[w] = "weigh"
  /\ Goto(w, IF WorldStandsAt(worker[w].basis) /\ Feasible(Forecast(w), worker[w].n)
               THEN "mark" ELSE "reject")
  /\ LocalOnly

Reject(w) ==
  /\ pc[w] = "reject"
  /\ RejectPlan(worker[w].n, Fence(w))
  /\ NextCandidate(w)
  /\ StoreOnly

Mark(w) ==
  /\ pc[w] = "mark"
  /\ MarkVerified(worker[w].n, Fence(w))
  /\ IF BoundToWorld(worker[w].n) THEN Goto(w, "commit") ELSE NextCandidate(w)
  /\ StoreOnly

Commit(w) ==
  /\ pc[w] = "commit"
  /\ CommitPlan(worker[w].n, Fence(w))
  /\ IF Committable(worker[w].n) THEN Goto(w, "complete") ELSE NextCandidate(w)
  /\ StoreOnly

-----------------------------------------------------------------------------
(* Leaving disrupt *)

\* An application with no event id has nothing to complete, and complete_event
\* on an event that was applied meanwhile is a silent no-op.
Complete(w) ==
  /\ pc[w] = "complete"
  /\ LET e == worker[w].event IN
       \/ /\ e # NoEvent /\ ~Finished(w) /\ CompleteEvent(e, Fence(w))
          /\ concluded' = Forecast(w)
       \/ (e = NoEvent \/ Finished(w)) /\ UNCHANGED <<storeVars, concluded>>
  /\ End(w, "applied")
  /\ UNCHANGED <<launched, truth>>

\* A store call of a superseded attempt raises SupersededWorkerError, which
\* disrupt passes on; from complete_event and abandon_event it escapes too.
Evicted(w) ==
  /\ pc[w] \in FencedSteps \cup {"complete", "abandon"}
  /\ Superseded(Fence(w))
  /\ End(w, "superseded")
  /\ LocalOnly

\* A store call for an event that is already applied raises
\* EventAlreadyAppliedError, which the broad except clause catches.
Outlived(w) ==
  /\ pc[w] \in FencedSteps
  /\ AlreadyApplied(Fence(w))
  /\ pc' = [pc EXCEPT ![w] = "abandon"]
  /\ worker' = [worker EXCEPT ![w].ending = "already_applied"]
  /\ LocalOnly

\* Fault: the event is completed in a finally clause.
FailsCompleting(w) ==
  /\ "fails" \in Mishaps
  /\ pc[w] \in FencedSteps \cup ReadSteps
  /\ pc' = [pc EXCEPT ![w] = "complete"]
  /\ worker' = [worker EXCEPT ![w].ending = "failed"]
  /\ LocalOnly

\* Anything else raises inside the try block: a provider, the network.
Fails(w) ==
  /\ "fails" \in Mishaps
  /\ pc[w] \in FencedSteps \cup ReadSteps
  /\ pc' = [pc EXCEPT ![w] = "abandon"]
  /\ worker' = [worker EXCEPT ![w].ending = "failed"]
  /\ LocalOnly

\* The calls outside the try block raise with nothing marked.
Breaks(w) ==
  /\ "breaks" \in Mishaps
  /\ pc[w] \in {"advance", "complete", "abandon"}
  /\ End(w, "failed")
  /\ LocalOnly

\* abandon_event, a no-op for an event applied meanwhile and for no event at
\* all; then the exception goes on its way.  (It is a no-op for an event marked
\* abandoned as well, but no other worker can have marked this attempt.)
Abandon(w) ==
  /\ pc[w] = "abandon"
  /\ LET e == worker[w].event IN
       \/ e # NoEvent /\ ~Finished(w) /\ AbandonEvent(e, Fence(w))
       \/ (e = NoEvent \/ Finished(w)) /\ UNCHANGED storeVars
  /\ pc' = [pc EXCEPT ![w] = "done"]
  /\ UNCHANGED worker
  /\ StoreOnly

\* The process is lost: no exception handler runs, the marker stays behind.
Dies(w) ==
  /\ "dies" \in Mishaps
  /\ pc[w] \notin {"idle", "done"}
  /\ pc' = [pc EXCEPT ![w] = "idle"]
  /\ worker' = [worker EXCEPT ![w] = Idle]
  /\ LocalOnly

Retire(w) ==
  /\ pc[w] = "done"
  /\ pc' = [pc EXCEPT ![w] = "idle"]
  /\ worker' = [worker EXCEPT ![w] = Idle]
  /\ LocalOnly

-----------------------------------------------------------------------------
\* Another client of the same store claims a work item in its own name.
OutsiderClaims(i) ==
  /\ \E a \in Outsiders : Claim(i, a, Unfenced)
  /\ UNCHANGED <<workerVars, launched, history>>

\* The silent attempt's lease runs out; its worker may be dead or only slow.
Silence(e) ==
  /\ LeaseLapses(e)
  /\ UNCHANGED <<workerVars, launched, history>>

Reverify(w) ==
  ReadCommitted(w) \/ Observe(w) \/ Judge(w) \/ Revoke(w) \/ Rebind(w) \/ RevokeStale(w)

Run(w) ==
  \/ ReadWorld(w) \/ SeedCreate(w) \/ SeedClaim(w) \/ Propose(w)
  \/ FetchPlan(w) \/ Weigh(w) \/ Reject(w) \/ Mark(w) \/ Commit(w)

Advance(w) == Absorb(w) \/ Resume(w) \/ AbsorbTrigger(w) \/ Dismiss(w)

\* What a worker does when nothing goes wrong, or when the store refuses it.
Works(w) ==
  Advance(w) \/ Reverify(w) \/ Run(w) \/ Complete(w) \/ Evicted(w) \/ Outlived(w) \/ Abandon(w)

Breakdown(w) == Fails(w) \/ Breaks(w) \/ Dies(w)

Environment ==
  \/ \E w \in Workers : StartRun(w) \/ Trigger(w)
  \/ \E w \in Workers, e \in Events : Deliver(w, e)
  \/ \E i \in WorkItems : OutsiderClaims(i)
  \/ \E e \in Events : Silence(e)

MembraneNext ==
  \/ Environment
  \/ \E w \in Workers : Works(w) \/ Breakdown(w) \/ Retire(w)

MembraneSpec == MembraneInit /\ [][MembraneNext]_vars

-----------------------------------------------------------------------------
(* Properties *)

\* Every local a worker carries between two store calls stays in range, along
\* with the store itself: verify.py and the scenarios' disrupt() and run().
MembraneTypeOK ==
  /\ TypeOK
  /\ pc \in [Workers -> Steps]
  /\ worker \in [Workers -> [event : Events \cup {NoEvent}, fence : Fences,
                             moved : 0..MaxRevision, forecast : Forecasts \cup {NoForecast},
                             plan : PlanIds \cup {NoPlan}, rev : 0..MaxRevision,
                             n : (0..Candidates) \cup (1..Len(Agenda)), basis : 0..MaxRevision, ending : Endings]]
  /\ launched \in BOOLEAN
  /\ truth \in [0..MaxRevision -> SUBSET Forecasts]
  /\ concluded \in Forecasts \cup {NoForecast}

\* Workers reach the store only through its operations, with fences it handed
\* out and plans bound to revisions it has reached; so what holds of the store
\* under arbitrary clients holds under these.
MembraneUsesTheStore == StoreSpec

\* A worker that is carrying an event inside its lease is not pushed out of it
\* by anyone else: not by a superseded attempt that fails late and reports the
\* event abandoned, nor by one that finishes late (store.py, abandon_event).
LivingAttemptIsNotEvicted ==
  [][\A w \in Workers :
       /\ Fence(w) # Unfenced /\ CurrentAttempt(Fence(w))
       /\ ledger[Fence(w).event].stage = "in_progress"
       /\ pc'[w] = pc[w] /\ worker'[w] = worker[w]
       => \/ ledger'[Fence(w).event] = ledger[Fence(w).event]
          \/ ledger'[Fence(w).event] = [ledger[Fence(w).event] EXCEPT !.stage = "lapsed"]]_vars

\* A commitment bound to the world as it stands is withdrawn only on a negative
\* verdict that was reached in this very world: the loser of a race does not
\* undo the winner (store.py, revoke_if_revision_current and revoke_if_stale).
OnlyPresentVerdictsWithdraw ==
  [][committed # NoPlan /\ committed' = NoPlan /\ BoundToWorld(committed) =>
       \E w \in Workers :
         /\ pc[w] = "revoke" /\ pc'[w] = "run"
         /\ worker[w].plan = committed /\ worker[w].rev = revision]_vars

\* Whatever the interleaving, the worker whose step commits a plan has itself
\* seen that proposal pass the verifier under the forecast it carries: nothing
\* becomes the commitment because somebody said so (verify.py:14).
CommitCarriesAPass ==
  [][committed' \notin {committed, NoPlan} =>
       \E w \in Workers :
         /\ pc[w] = "commit" /\ pc'[w] = "complete"
         /\ worker[w].n = committed'
         /\ Feasible(Forecast(w), plans[committed'].proposal)]_vars

\* The standing commitment is a plan that verification passed: never a
\* candidate and never a rejected plan (verify.py:12).
CommittedStandsVerified == committed # NoPlan => plans[committed].verdict = "verified"

\* The standing commitment is feasible under a forecast that somebody fetched
\* for the revision it is bound to, not merely under one that a worker carried
\* there from another (store.py, rebind_plan).
CommittedHoldsInItsWorld ==
  committed # NoPlan =>
    \E x \in truth[plans[committed].basis] : Feasible(x, plans[committed].proposal)

\* The last truth to arrive was an event, its application is finished, and
\* nobody is at work who could still change anything.
Settled ==
  /\ \A w \in Workers : pc[w] = "idle" \/ Finished(w)
  /\ \E e \in Events : ledger[e].stage = "applied" /\ ledger[e].revision = revision
  /\ \A e \in Events : ledger[e].stage \notin Pending

\* Once the dust has settled, whatever attempts failed, died or were replaced on
\* the way and whatever they had committed: a commitment is bound to the latest
\* truth and feasible under the forecast of the attempt that finished the event,
\* and no commitment means that no departure is (scenarios' disrupt and run).
SettledIsHonest ==
  Settled =>
    IF committed = NoPlan
      THEN \A q \in Proposals : ~Feasible(concluded, q)
      ELSE /\ BoundToWorld(committed)
           /\ Feasible(concluded, plans[committed].proposal)

\* After all applications finished, the commitment that stands is bound to the
\* world as it stands (test_stale_plan.py).
SettledIsCurrent == Settled /\ committed # NoPlan => BoundToWorld(committed)

\* A commitment is never silently exchanged for another plan: it is withdrawn
\* first, on the record (verify.py, reverify_committed).
WithdrawnBeforeReplaced == [][committed # NoPlan => committed' \in {committed, NoPlan}]_vars
=============================================================================
