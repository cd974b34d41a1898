---------------------------- MODULE ReliefFleet ----------------------------
(***************************************************************************)
(* The fleet scenario, app/scenarios/relieffleet.py: run() and disrupt()   *)
(* over one StateStore, with the planner and verifier of FleetPlanning.    *)
(*                                                                         *)
(* What sets it apart from the scenarios of Membrane: a plan's id is made  *)
(* of two separate reads of the store (the revision and the number of      *)
(* plans), the vehicles are the work items, disrupt() replans without      *)
(* seeding, and part of the truth the verifier judges by, the failed road  *)
(* edges, is not fetched by the worker but folded from the trace each time *)
(* it is needed.  Of the trace the model keeps just that: the edges some   *)
(* EDGE_FAILED event names.                                                *)
(***************************************************************************)
EXTENDS StateStore, FleetPlanning, FiniteSets

CONSTANTS
  Workers,
  Forecasts,       \* the hazard readings a fetch can answer
  NoForecast,
  FailedBy,        \* FailedBy[e]: failed_edges of a delivery of e
  TeamOf,          \* ACTOR_WORK: the team that claims vehicle v
  Rivals,          \* actors of other agencies
  Wanted,          \* bound: the vehicles they may claim
  MaxPlans,        \* bound: plans of one run
  Serial           \* assumption: one event at a time, once run() is over

ASSUME RunAssumption ==
  /\ PlanIds = (0..MaxRevision) \X (1..MaxPlans)
  /\ MaxPlans \in Nat \ {0, 1}    \* run() may make two
  /\ Proposals = Assignments
  /\ WorkItems = Vehicles
  /\ TeamOf \in [Vehicles -> Actors] /\ Rivals \subseteq Actors /\ Wanted \subseteq Vehicles
  /\ Forecasts \subseteq Hazards /\ NoForecast \notin Forecasts
  \* At most one edge, so that emitting failed_edges is one append.
  /\ \A e \in Events : FailedBy[e] \subseteq Edges /\ Cardinality(FailedBy[e]) <= 1

VARIABLES
  pc,
  worker,
  failed     \* the edges named by the EDGE_FAILED events on the trace

fleetVars == <<storeVars, pc, worker, failed>>

Idle == [event |-> NoEvent, fence |-> Unfenced, hazard |-> NoForecast, plan |-> NoPlan,
         rev |-> 0, k |-> 1, proposal |-> NoProposal, basis |-> 0]

FleetInit ==
  /\ StoreInit
  /\ pc = [w \in Workers |-> "idle"]
  /\ worker = [w \in Workers |-> Idle]
  /\ failed = {}

Fence(w) == worker[w].fence
Me(w) == worker[w]
Goto(w, step) == pc' = [pc EXCEPT ![w] = step] /\ UNCHANGED worker
Leaves(w) == pc' = [pc EXCEPT ![w] = "idle"] /\ worker' = [worker EXCEPT ![w] = Idle]
Reads(w, step, locals) ==
  /\ pc' = [pc EXCEPT ![w] = step]
  /\ worker' = [worker EXCEPT ![w] = locals]
  /\ UNCHANGED <<storeVars, failed>>

-----------------------------------------------------------------------------
(* run *)

Planning(w) == pc[w] # "idle" /\ Me(w).event = NoEvent
Finished(w) == Me(w).event # NoEvent /\ ledger[Me(w).event].stage = "applied"

\* run() is called once, by whoever created the store, before any event.
StartRun(w, x) ==
  /\ pc[w] = "idle" /\ \A v \in Workers : ~Planning(v)
  /\ revision = 0 /\ \A v \in Vehicles : ~Created(v)
  /\ Reads(w, "create", [Idle EXCEPT !.hazard = x, !.rev = revision])

CreateVehicle(w) ==
  /\ pc[w] = "create"
  /\ CreateWork(VehicleOrder[Me(w).k], Fence(w))
  /\ IF Me(w).k < Len(VehicleOrder)
       THEN worker' = [worker EXCEPT ![w].k = @ + 1] /\ UNCHANGED pc
       ELSE worker' = [worker EXCEPT ![w].k = 1] /\ pc' = [pc EXCEPT ![w] = "claim"]
  /\ UNCHANGED failed

\* A vehicle somebody else holds aborts the planning.
ClaimVehicle(w) ==
  /\ pc[w] = "claim"
  /\ LET v == VehicleOrder[Me(w).k] IN
       /\ Claim(v, TeamOf[v], Fence(w))
       /\ IF ~Claimable(v, TeamOf[v])
            THEN Leaves(w)
          ELSE IF Me(w).k < Len(VehicleOrder)
            THEN worker' = [worker EXCEPT ![w].k = @ + 1] /\ UNCHANGED pc
            ELSE /\ worker' = [worker EXCEPT ![w].plan = <<Me(w).rev, 1>>,
                                             ![w].proposal = NaiveAssignment]
                 /\ pc' = [pc EXCEPT ![w] = "propose"]
  /\ UNCHANGED failed

\* A plan that did not commit: run() replans once, after the naive board.
Onward(w) ==
  IF Me(w).event = NoEvent /\ Me(w).plan = <<Me(w).rev, 1>>
    THEN /\ worker' = [worker EXCEPT ![w].plan = <<Me(w).rev, 2>>]
         /\ pc' = [pc EXCEPT ![w] = "survey"]
    ELSE (IF Me(w).event = NoEvent THEN Leaves(w) ELSE Goto(w, "complete"))

-----------------------------------------------------------------------------
(* disrupt *)

Others(w, e) == \A v \in Workers \ {w} : pc[v] = "idle" \/ Finished(v) \/ Me(v).event = e

\* Every delivery fetches the hazard anew, before it asks the store anything.
Deliver(w, e, x) ==
  /\ pc[w] = "idle"
  /\ Created(VehicleOrder[1]) /\ \A v \in Workers : ~Planning(v)
  /\ Serial => Others(w, e) /\ \A d \in Events \ {e} : ledger[d].stage \notin Pending
  /\ Reads(w, "advance", [Idle EXCEPT !.event = e, !.hazard = x])

\* The world moves, or an unfinished application is taken over.
Advance(w) ==
  /\ pc[w] = "advance"
  /\ AbsorbEvent(Me(w).event) \/ ResumeEvent(Me(w).event)
  /\ worker' = [worker EXCEPT ![w].fence = [event |-> Me(w).event,
                                            attempt |-> ledger'[Me(w).event].attempt]]
  /\ pc' = [pc EXCEPT ![w] = "emit"]
  /\ UNCHANGED failed

Dismiss(w) ==
  /\ pc[w] = "advance" /\ Dismissed(Me(w).event)
  /\ Leaves(w)
  /\ UNCHANGED <<storeVars, failed>>

\* Fault: an event that is absorbed leaves its edges to the next one.
EmitNothing(w) ==
  /\ pc[w] = "emit"
  /\ Goto(w, "committed")
  /\ UNCHANGED <<storeVars, failed>>

\* emit asks for no fence: a superseded worker's failures count as well.
EmitFailures(w) ==
  /\ pc[w] = "emit"
  /\ failed' = failed \cup FailedBy[Me(w).event]
  /\ Goto(w, "committed")
  /\ UNCHANGED storeVars

\* reverify_committed.
ReadCommitted(w) ==
  /\ pc[w] = "committed"
  /\ Reads(w, IF committed = NoPlan THEN "replan" ELSE "observe",
              [Me(w) EXCEPT !.plan = committed])

Observe(w) == pc[w] = "observe" /\ Reads(w, "judge", [Me(w) EXCEPT !.rev = revision])

Judge(w) ==
  /\ pc[w] = "judge"
  /\ Reads(w, IF Verdict(plans[Me(w).plan].proposal, Me(w).hazard, failed) THEN "rebind" ELSE "revoke",
              Me(w))

Rebind(w) ==
  /\ pc[w] = "rebind"
  /\ RebindPlan(Me(w).plan, Me(w).rev, Fence(w))
  /\ Goto(w, IF WorldStandsAt(Me(w).rev) THEN "complete" ELSE "revoke_stale")
  /\ UNCHANGED failed

Withdraws(w) ==
  /\ \/ pc[w] = "revoke" /\ RevokeIfRevisionCurrent(Me(w).plan, Me(w).rev, Fence(w))
     \/ pc[w] = "revoke_stale" /\ RevokeIfStale(Me(w).plan, Fence(w))
  /\ Goto(w, "replan")
  /\ UNCHANGED failed

-----------------------------------------------------------------------------
(* Replanning: the id and the roads are read first *)

ReadWorld(w) == pc[w] = "replan" /\ Reads(w, "count", [Me(w) EXCEPT !.rev = revision])

Proposed == {p \in PlanIds : Known(p)}

\* Fault: proposals are numbered within the revision's own attempt.
NumberAlways(w) ==
  pc[w] = "count" /\ Reads(w, "survey", [Me(w) EXCEPT !.plan = <<Me(w).rev, 1>>])

Number(w) ==
  /\ pc[w] = "count"
  /\ Cardinality(Proposed) < MaxPlans
  /\ Reads(w, "survey", [Me(w) EXCEPT !.plan = <<Me(w).rev, Cardinality(Proposed) + 1>>])

Survey(w) ==
  pc[w] = "survey" /\ Reads(w, "propose", [Me(w) EXCEPT !.proposal = Assignment(Me(w).hazard, failed)])

Propose(w) ==
  /\ pc[w] = "propose"
  /\ AddPlan(Me(w).plan, Me(w).proposal, Me(w).rev, Fence(w))
  /\ Goto(w, "fetch")
  /\ UNCHANGED failed

-----------------------------------------------------------------------------
(* verify_and_commit: the plan object fetched here is the one judged later, *)
(* whatever has taken its id meanwhile                                      *)

FetchPlan(w) ==
  /\ pc[w] = "fetch"
  /\ Reads(w, "stale", [Me(w) EXCEPT !.proposal = plans[Me(w).plan].proposal,
                                     !.basis = plans[Me(w).plan].basis])

CheckStale(w) ==
  pc[w] = "stale" /\ Reads(w, IF WorldStandsAt(Me(w).basis) THEN "weigh" ELSE "reject", Me(w))

\* Fault: the staleness check stands in for the verifier.
WeighNothing(w) == pc[w] = "weigh" /\ Reads(w, "mark", Me(w))

Weigh(w) ==
  /\ pc[w] = "weigh"
  /\ Reads(w, IF Verdict(Me(w).proposal, Me(w).hazard, failed) THEN "mark" ELSE "reject", Me(w))

Reject(w) ==
  /\ pc[w] = "reject"
  /\ RejectPlan(Me(w).plan, Fence(w))
  /\ Onward(w)
  /\ UNCHANGED failed

Mark(w) ==
  /\ pc[w] = "mark"
  /\ MarkVerified(Me(w).plan, Fence(w))
  /\ IF BoundToWorld(Me(w).plan) THEN Goto(w, "commit") ELSE Onward(w)
  /\ UNCHANGED failed

Commit(w) ==
  /\ pc[w] = "commit"
  /\ CommitPlan(Me(w).plan, Fence(w))
  /\ IF Committable(Me(w).plan)
       THEN (IF Me(w).event = NoEvent THEN Leaves(w) ELSE Goto(w, "complete"))
       ELSE Onward(w)
  /\ UNCHANGED failed

-----------------------------------------------------------------------------
(* Leaving disrupt *)

Finish(w) ==
  /\ pc[w] = "complete"
  /\ IF Finished(w) THEN UNCHANGED storeVars ELSE CompleteEvent(Me(w).event, Fence(w))
  /\ Leaves(w)
  /\ UNCHANGED failed

FencedSteps == {"create", "claim", "rebind", "revoke", "revoke_stale", "propose",
                "reject", "mark", "commit"}

Evicted(w) ==
  /\ pc[w] \in FencedSteps \cup {"complete", "abandon"} /\ Superseded(Fence(w))
  /\ Leaves(w)
  /\ UNCHANGED <<storeVars, failed>>

Outlived(w) ==
  /\ pc[w] \in FencedSteps /\ AlreadyApplied(Fence(w))
  /\ Goto(w, "abandon")
  /\ UNCHANGED <<storeVars, failed>>

\* A store call raises inside the try block of disrupt.
Fails(w) ==
  /\ pc[w] \in FencedSteps \cup {"emit", "committed", "judge", "replan", "survey", "weigh"}
  /\ Me(w).event # NoEvent
  /\ Goto(w, "abandon")
  /\ UNCHANGED <<storeVars, failed>>

Abandon(w) ==
  /\ pc[w] = "abandon"
  /\ IF Finished(w) THEN UNCHANGED storeVars ELSE AbandonEvent(Me(w).event, Fence(w))
  /\ Leaves(w)
  /\ UNCHANGED failed

\* The process is lost in mid-application.
Dies(w) ==
  /\ pc[w] # "idle" /\ Me(w).event # NoEvent
  /\ Leaves(w)
  /\ UNCHANGED <<storeVars, failed>>

RivalClaims(v) ==
  /\ \E a \in Rivals : Claim(v, a, Unfenced)
  /\ UNCHANGED <<pc, worker, failed>>

Silence(e) == LeaseLapses(e) /\ UNCHANGED <<pc, worker, failed>>

-----------------------------------------------------------------------------
Reverify(w) == ReadCommitted(w) \/ Observe(w) \/ Judge(w) \/ Rebind(w) \/ Withdraws(w)
Replan(w) == ReadWorld(w) \/ Number(w) \/ Survey(w) \/ Propose(w)
Verify(w) == FetchPlan(w) \/ CheckStale(w) \/ Weigh(w) \/ Reject(w) \/ Mark(w) \/ Commit(w)
Seed(w) == CreateVehicle(w) \/ ClaimVehicle(w)
Leave(w) == Finish(w) \/ Evicted(w) \/ Outlived(w) \/ Abandon(w)

FleetNext ==
  \/ \E w \in Workers, x \in Forecasts : StartRun(w, x) \/ \E e \in Events : Deliver(w, e, x)
  \/ \E w \in Workers : \/ Seed(w) \/ Advance(w) \/ Dismiss(w) \/ EmitFailures(w)
                        \/ Reverify(w) \/ Replan(w) \/ Verify(w) \/ Leave(w)
                        \/ Fails(w) \/ Dies(w)
  \/ \E v \in Wanted : RivalClaims(v)
  \/ \E e \in Events : Silence(e)

FleetSpec == FleetInit /\ [][FleetNext]_fleetVars

-----------------------------------------------------------------------------
(* Properties *)

Locals == [event : Events \cup {NoEvent}, fence : Fences, hazard : Forecasts \cup {NoForecast},
           plan : PlanIds \cup {NoPlan}, rev : 0..MaxRevision, k : 1..Len(VehicleOrder),
           proposal : Assignments \cup {NoProposal}, basis : 0..MaxRevision]

Seeding == {"create", "claim"}
Reverifying == {"committed", "observe", "judge", "rebind", "revoke", "revoke_stale"}
Verifying == {"fetch", "stale", "weigh", "reject", "mark", "commit"}
Steps == {"idle", "advance", "emit", "replan", "count", "survey", "propose", "complete", "abandon"}
           \cup Seeding \cup Reverifying \cup Verifying

\* Locals and the record stay in range: fleet plan ids, assignments, the edges
\* current_edges folds (relieffleet.py:82-101).
FleetTypeOK ==
  /\ TypeOK
  /\ pc \in [Workers -> Steps]
  /\ worker \in [Workers -> Locals]
  /\ failed \subseteq Edges

\* An id, once proposed, keeps naming the assignment it was proposed with
\* (relieffleet.py:82-85, README.md:400), across redeliveries that read another
\* forecast, failures and late attempts.
OneIdOneProposal ==
  [][\A p \in PlanIds : Known(p) => plans'[p].proposal = plans[p].proposal]_fleetVars

\* What becomes the commitment passes the verifier at that very moment, on the
\* roads as the record has them then and the hazard its worker read, not merely
\* at some earlier one (verify.py:14-26, relieffleet.py:141-142).
CommitPassesOnTheRecord ==
  [][committed' \notin {committed, NoPlan} =>
       \E w \in Workers : /\ pc[w] = "commit" /\ pc'[w] # "commit"
                          /\ Me(w).plan = committed'
                          /\ Verdict(plans[committed'].proposal, Me(w).hazard, failed)]_fleetVars

Settled ==
  /\ \A w \in Workers : pc[w] = "idle" \/ Finished(w)
  /\ \A e \in Events : ledger[e].stage \notin Pending

Broken == UNION {FailedBy[e] : e \in {d \in Events : ledger[d].stage = "applied"}}

\* Once every event that came is applied, no truck of the standing assignment is
\* sent over an edge that any of them reported failed, whichever attempt did the
\* work and whatever became of the others (relieffleet.py:89-101, 343-351).
SettledRoadsHold ==
  Settled /\ committed # NoPlan =>
    LET a == plans[committed].proposal
    IN  \A m \in Missions : RouteOpen(m, Kind[a[m][1]], Broken)

\* The planner's own arithmetic agrees with the verifier's: an assignment in
\* which it placed every mission is refused only if the world moved meanwhile,
\* never on a limit the planner forgot (relieffleet.py:201-246 and 141-196).
PlannersPlanPasses ==
  \A w \in Workers :
    /\ pc[w] = "weigh" /\ Me(w).plan # <<0, 1>>
    /\ AllPlaced(Me(w).proposal) /\ WorldStandsAt(Me(w).basis)
    => Verdict(Me(w).proposal, Me(w).hazard, failed)

\* A standing assignment uses only vehicles its own teams hold (README.md:390-392:
\* "Two agencies cannot hold the same vehicle"; relieffleet.py:273: "whoever holds
\* the claim dispatches").
AllocatedIsHeld ==
  committed # NoPlan =>
    LET a == plans[committed].proposal
    IN  \A m \in Missions : work[a[m][1]] = TeamOf[a[m][1]]
=============================================================================
