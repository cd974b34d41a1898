---------------------------- MODULE ShiftProofs ----------------------------
(***************************************************************************)
(* A model at work in the operation, for any number of shifts, workers,    *)
(* events, departures and proposals: whatever tools it calls in whatever   *)
(* order, it uses the store only as its specification allows, and the      *)
(* first shift of a run commits only what it read and what passed.         *)
(***************************************************************************)
EXTENDS Shift, MembraneProofs

ShiftLocals ==
  [kind : Kinds, n : 1..Len(Agenda), view : 0..MaxRevision,
   observed : 0..Unread, proposed : 0..MaxProposals,
   forecast : Forecasts, fence : Fences, basis : 0..MaxRevision,
   proposal : Proposals \cup {NoProposal}, verdict : Verdict]

Deciding == {"fetch", "weigh", "reject", "mark", "commit"}
Reported == {"complete", "over"}
BeforeTheTruth == {"off", "create", "claim", "agent", "advance"}
Departures == 1..Candidates
Standing == Departures \cup {NoPlan}

\* What a shift at station st may carry in its locals x.
ShiftOK(st, x) ==
  /\ st \in Stations /\ x \in ShiftLocals
  /\ x.view <= revision
  /\ x.observed # Unread => x.observed <= revision
  /\ x.proposed > 0 => x.observed # Unread
  /\ Minted(x.fence)
  /\ st \in Deciding \cup {"advance"} => x.proposed > 0
  /\ st \in {"mark", "commit"} => Feasible(x.forecast, x.proposal)

\* The last proposal is bound to no later world than its author read, and stays
\* what the verifier was shown.
ProposalOK(st, x) ==
  x.proposed > 0 =>
    /\ plans[AgentPlan(x.proposed)].basis <= x.observed
    /\ plans[AgentPlan(x.proposed)].basis <= x.view
    /\ st \in Deciding \ {"fetch"} => plans[AgentPlan(x.proposed)].proposal = x.proposal

\* Until it reports, nobody but the planner has ever committed anything.
OnlyDeparturesStand ==
  /\ committed \in Standing
  /\ \A w \in Workers : worker[w].plan \in Standing

\* The control's truth lands after the proposal was made.
ControlOK(st, x) ==
  /\ x.verdict # "accepted"
  /\ st \in BeforeTheTruth => ledger[ControlEvent].stage = "unseen"
  /\ st \in Deciding => plans[AgentPlan(x.proposed)].basis < revision

\* What holds of the only shift a run has seen.
FirstOK(st, x) ==
  /\ st \notin Reported => OnlyDeparturesStand /\ ProposalOK(st, x)
  /\ x.kind = "control" => ControlOK(st, x)

NobodyElseDelivers == \A w \in Workers : worker[w].event # ControlEvent

ShiftInv ==
  /\ MembraneInv /\ NobodyElseDelivers
  /\ at \in [Shifts -> Stations] /\ shift \in [Shifts -> ShiftLocals]
  /\ \A s \in Shifts : /\ ShiftOK(at[s], shift[s])
                       /\ Alone(s) => FirstOK(at[s], shift[s])

LEMMA Bounds ==
  /\ MaxRevision \in Nat \ {0} /\ Unread \in Nat /\ Unread > MaxRevision
  /\ MaxProposals \in Nat \ {0} /\ Candidates \in Nat \ {0}
  /\ PlanIds = 1..(Candidates + MaxProposals)
  /\ ControlEvent \in Events /\ ControlForecast \in Forecasts /\ Agent \in Actors
  /\ Departures \subseteq PlanIds /\ NoPlan \notin PlanIds /\ NoEvent \notin Events
BY BoundAssumption, ShiftAssumption, CandidatesAssumption, NoPlanAssumption, NoEventAssumption
   DEF Unread, Departures

\* The toolkit's ids are nobody else's.
LEMMA AgentPlansAreApart ==
  ASSUME NEW k \in 0..MaxProposals, k > 0
  PROVE  AgentPlan(k) \in PlanIds \ Departures /\ AgentPlan(k) \notin Standing
BY Bounds DEF AgentPlan, Departures, Standing

\* Their bases are revisions.
LEMMA AgentBasis ==
  ASSUME TypeOK, NEW k \in 0..MaxProposals, k > 0
  PROVE  plans[AgentPlan(k)].basis \in Nat
<1>1. PICK p \in PlanIds : p = AgentPlan(k)
  BY AgentPlansAreApart
<1>2. plans[p] \in Plan
  BY DEF TypeOK
<1>3. plans[p].basis \in 0..MaxRevision
  BY <1>2 DEF Plan
<1> QED BY <1>1, <1>3, Bounds

\* What was in order stays in order while the world moves on.
LEMMA ShiftFrame ==
  ASSUME NEW st, NEW x, ShiftOK(st, x), TypeOK, TypeOK', revision <= revision',
         \A e \in Events : ledger[e].attempt <= ledger'[e].attempt
  PROVE  ShiftOK(st, x)'
<1>1. x \in ShiftLocals /\ Minted(x.fence)
  BY DEF ShiftOK
<1>2. x.view <= revision' /\ (x.observed # Unread => x.observed <= revision')
  BY <1>1, Bounds DEF ShiftOK, TypeOK, ShiftLocals
<1>3. Minted(x.fence)'
  BY <1>1, BoundAssumption DEF Minted, TypeOK, LedgerEntry, ShiftLocals, Fences
<1> QED BY <1>1, <1>2, <1>3 DEF ShiftOK

LEMMA ShiftOpens == ShiftInit => ShiftInv
<1> SUFFICES ASSUME ShiftInit PROVE ShiftInv
  OBVIOUS
<1>1. MembraneInv /\ TypeOK
  BY MembraneOpens DEF ShiftInit, MembraneInv, MembraneTypeOK
<1>2. PICK kind \in Kinds : shift = [s \in Shifts |-> Newcomer(kind)]
  BY DEF ShiftInit
<1>3. PICK x : x = Newcomer(kind)
  OBVIOUS
<1>4. x \in ShiftLocals /\ x.fence = Unfenced /\ x.view = 0 /\ x.proposed = 0 /\ x.observed = Unread
      /\ x.verdict = "none"
  BY <1>3, Bounds, AgendaItems, ForecastAssumption, ShiftAssumption
     DEF Newcomer, ShiftLocals, Fences, Verdict
<1>5. ShiftOK("off", x)
  BY <1>1, <1>4, Bounds DEF ShiftOK, Stations, Deciding, Minted, TypeOK
<1>6. \A s \in Shifts : at[s] = "off" /\ shift[s] = x
  BY <1>2, <1>3 DEF ShiftInit
<1>7. NobodyElseDelivers /\ OnlyDeparturesStand
  BY Bounds DEF ShiftInit, MembraneInit, StoreInit, NobodyElseDelivers, OnlyDeparturesStand,
                Idle, Standing
<1>8. ledger[ControlEvent].stage = "unseen"
  BY Bounds DEF ShiftInit, MembraneInit, StoreInit, UnseenEntry
<1>9. FirstOK("off", x)
  BY <1>4, <1>7, <1>8 DEF FirstOK, ProposalOK, ControlOK, Deciding
<1> QED BY <1>1, <1>2, <1>3, <1>4, <1>5, <1>6, <1>7, <1>9 DEF ShiftInv, ShiftInit, Stations

-----------------------------------------------------------------------------
(* What goes on around a shift *)

\* A worker's event and the plan it re-verifies come from nowhere else.
WorkerKeeps(w) ==
  /\ worker'[w].event \in {worker[w].event, NoEvent} \cup (Events \ {ControlEvent})
  /\ worker'[w].plan \in {worker[w].plan, committed, NoPlan}

LEMMA AroundKeepsWorkers ==
  ASSUME MembraneInv, Around
  PROVE  \A w \in Workers : WorkerKeeps(w)
<1>1. worker \in [Workers -> Locals]
  BY DEF MembraneInv, MembraneTypeOK, Locals
<1>2. SUFFICES ASSUME NEW w \in Workers PROVE WorkerKeeps(w)
  OBVIOUS
<1>3. ASSUME worker'[w] = worker[w] PROVE WorkerKeeps(w)
  BY <1>3 DEF WorkerKeeps
<1>4. ASSUME NEW v \in Workers, NEW y, worker' = [worker EXCEPT ![v] = y],
             y.event \in {worker[v].event, NoEvent} \cup (Events \ {ControlEvent}),
             y.plan \in {worker[v].plan, committed, NoPlan}
      PROVE  WorkerKeeps(w)
  <2>1. CASE w = v
    <3>1. worker'[w] = y
      BY <1>1, <1>4, <2>1
    <3> QED BY <1>4, <2>1, <3>1 DEF WorkerKeeps
  <2>2. CASE w # v
    <3>1. worker'[w] = worker[w]
      BY <1>1, <1>4, <2>2
    <3> QED BY <1>3, <3>1
  <2> QED BY <2>1, <2>2
<1>5. ASSUME NEW v \in Workers, StartRun(v) \/ Retire(v) \/ Dies(v)
      PROVE  WorkerKeeps(w)
  BY <1>4, <1>5 DEF StartRun, Retire, Dies, Idle
<1>6. ASSUME NEW v \in Workers, NEW e \in Events \ {ControlEvent}, Deliver(v, e)
      PROVE  WorkerKeeps(w)
  BY <1>4, <1>6 DEF Deliver, Begin, Idle
<1>7. ASSUME NEW v \in Workers, NEW a, NEW b, NEW c,
             \/ UNCHANGED worker
             \/ worker' = [worker EXCEPT ![v].fence = a, ![v].moved = b]
             \/ worker' = [worker EXCEPT ![v].moved = a]
             \/ worker' = [worker EXCEPT ![v].ending = a]
             \/ worker' = [worker EXCEPT ![v].rev = a]
             \/ worker' = [worker EXCEPT ![v].n = a]
             \/ worker' = [worker EXCEPT ![v].rev = a, ![v].n = b, ![v].forecast = c]
             \/ worker' = [worker EXCEPT ![v].basis = a]
             \/ worker' = [worker EXCEPT ![v].plan = committed]
      PROVE  WorkerKeeps(w)
  <2>1. PICK x \in Locals : x = worker[v]
    BY <1>1
  <2>2. CASE UNCHANGED worker
    BY <1>3, <2>2
  <2>3. ASSUME NEW y, worker' = [worker EXCEPT ![v] = y],
               y.event = x.event, y.plan \in {x.plan, committed}
        PROVE  WorkerKeeps(w)
    BY <1>4, <2>1, <2>3
  <2>4. CASE worker' = [worker EXCEPT ![v].plan = committed]
    <3>1. PICK y : y = [x EXCEPT !.plan = committed]
      OBVIOUS
    <3>2. y.event = x.event /\ y.plan = committed
      BY <3>1 DEF Locals
    <3> QED BY <2>1, <2>3, <2>4, <3>1, <3>2
  <2>5. ASSUME NEW y, worker' = [worker EXCEPT ![v] = y],
               \/ y = [x EXCEPT !.fence = a, !.moved = b] \/ y = [x EXCEPT !.moved = a]
               \/ y = [x EXCEPT !.ending = a] \/ y = [x EXCEPT !.rev = a] \/ y = [x EXCEPT !.n = a]
               \/ y = [x EXCEPT !.rev = a, !.n = b, !.forecast = c]
               \/ y = [x EXCEPT !.basis = a]
        PROVE  WorkerKeeps(w)
    <3>1. y.event = x.event /\ y.plan = x.plan
      BY <2>5 DEF Locals
    <3> QED BY <2>3, <2>5, <3>1
  <2> QED BY <1>1, <1>7, <2>1, <2>2, <2>4, <2>5
<1>8. ASSUME NEW v \in Workers, Advance(v) PROVE WorkerKeeps(w)
  <2>1. Absorb(v) \/ Resume(v) => \E a, b : worker' = [worker EXCEPT ![v].fence = a, ![v].moved = b]
    BY DEF Absorb, Resume, TakeLease
  <2>2. AbsorbTrigger(v) => \E a : worker' = [worker EXCEPT ![v].moved = a]
    BY DEF AbsorbTrigger
  <2>3. Dismiss(v) => \E a : worker' = [worker EXCEPT ![v].ending = a]
    BY DEF Dismiss, End
  <2> QED BY <1>7, <1>8, <2>1, <2>2, <2>3 DEF Advance
<1>9. ASSUME NEW v \in Workers, Reverify(v) PROVE WorkerKeeps(w)
  BY <1>7, <1>9 DEF Reverify, ReadCommitted, Observe, Judge, Revoke, Rebind, RevokeStale, Goto
<1>10. ASSUME NEW v \in Workers, Run(v) PROVE WorkerKeeps(w)
  <2>1. NextItem(v, "create", "claim") \/ NextItem(v, "claim", "propose") \/ NextCandidate(v)
          => WorkerKeeps(w)
    BY <1>7 DEF NextItem, NextCandidate, Goto
  <2>2. SeedCreate(v) \/ SeedClaim(v) \/ Propose(v) \/ Reject(v) \/ Mark(v) \/ Commit(v)
          => WorkerKeeps(w)
    BY <1>7, <2>1 DEF SeedCreate, SeedClaim, Propose, Reject, Mark, Commit, Goto
  <2>3. ReadWorld(v) \/ FetchPlan(v) \/ Weigh(v) => WorkerKeeps(w)
    <3>1. ASSUME ReadWorld(v) PROVE WorkerKeeps(w)
      <4>1. PICK x : worker' = [worker EXCEPT ![v].rev = revision, ![v].n = 1, ![v].forecast = x]
        BY <3>1 DEF ReadWorld
      <4> QED BY <1>7, <4>1
    <3>2. FetchPlan(v) => \E a : worker' = [worker EXCEPT ![v].basis = a]
      BY DEF FetchPlan
    <3>3. Weigh(v) => UNCHANGED worker
      BY DEF Weigh, Goto
    <3> QED BY <1>7, <3>1, <3>2, <3>3
  <2> QED BY <1>10, <2>2, <2>3 DEF Run
<1>11. ASSUME NEW v \in Workers,
              Complete(v) \/ Evicted(v) \/ Outlived(v) \/ Abandon(v) \/ Fails(v) \/ Breaks(v)
       PROVE  WorkerKeeps(w)
  BY <1>7, <1>11 DEF Complete, Evicted, Outlived, Abandon, Fails, Breaks, End
<1>12. ASSUME NEW e \in Events, Silence(e) PROVE WorkerKeeps(w)
  BY <1>3, <1>12 DEF Silence, workerVars
<1> QED BY <1>5, <1>6, <1>8, <1>9, <1>10, <1>11, <1>12 DEF Around, Works, Breakdown

\* A work item is held by the actor who answers for it, or by nobody.
KeptBy(k) == work[Agenda[k]] \in {NotCreated, Unclaimed, Crew[k]}
ItemsAreKept == \A k \in 1..Len(Agenda) : KeptBy(k)

\* Work items that are on the agenda twice are the same actor's both times.
OneNamePerItem ==
  \A j, k \in 1..Len(Agenda) : Agenda[j] = Agenda[k] => Crew[j] = Crew[k]

\* Seeding hands every item to its own actor.
LEMMA SeedingKeepsItems ==
  ASSUME OneNamePerItem, TypeOK, ItemsAreKept, NEW k \in 1..Len(Agenda), NEW f,
         CreateWork(Agenda[k], f) \/ Claim(Agenda[k], Crew[k], f)
  PROVE  ItemsAreKept'
<1>1. SUFFICES ASSUME NEW j \in 1..Len(Agenda) PROVE work'[Agenda[j]] \in {NotCreated, Unclaimed, Crew[j]}
  BY DEF ItemsAreKept, KeptBy
<1>2. /\ Agenda[j] \in WorkItems /\ Agenda[k] \in WorkItems
      /\ work \in [WorkItems -> Actors \cup {Unclaimed, NotCreated}]
      /\ work[Agenda[j]] \in {NotCreated, Unclaimed, Crew[j]}
  BY AgendaItems DEF TypeOK, ItemsAreKept, KeptBy
<1>3. CASE Agenda[j] = Agenda[k]
  <2>1. Crew[j] = Crew[k]
    BY <1>3 DEF OneNamePerItem
  <2> QED BY <1>2, <1>3, <2>1 DEF CreateWork, Claim, Created
<1>4. CASE Agenda[j] # Agenda[k]
  BY <1>2, <1>4 DEF CreateWork, Claim
<1> QED BY <1>3, <1>4

\* Workers leave the agent's proposals as they are and commit only departures,
\* for the plan they re-verify or commit is never the agent's.
LEMMA WorkersLeaveProposals ==
  ASSUME MembraneInv, OnlyDeparturesStand, NEW w \in Workers, Calls(w)
  PROVE  /\ committed' \in Standing
         /\ \A p \in PlanIds \ Departures :
              plans'[p].basis = plans[p].basis /\ plans'[p].proposal = plans[p].proposal
<1> DEFINE x == worker[w]
<1>0. /\ plans \in [PlanIds -> Plan] /\ LocalOK(pc[w], x) /\ committed \in Standing /\ x.plan \in Standing
  BY DEF MembraneInv, MembraneTypeOK, TypeOK, OnlyDeparturesStand
<1>1. SUFFICES ASSUME NEW p \in PlanIds \ Departures
               PROVE  /\ committed' \in Standing
                      /\ plans'[p].basis = plans[p].basis /\ plans'[p].proposal = plans[p].proposal
  <2>1. \E p \in PlanIds : p \notin Departures
    BY Bounds, AgentPlansAreApart DEF AgentPlan
  <2> QED BY <1>1, <2>1
<1>2. plans[p] \in Plan
  BY <1>0
<1>3. ASSUME NEW q, NEW v, plans' = [plans EXCEPT ![q].verdict = v]
      PROVE  plans'[p].basis = plans[p].basis /\ plans'[p].proposal = plans[p].proposal
  BY <1>0, <1>2, <1>3 DEF Plan
<1>4. CASE Revoke(w) \/ RevokeStale(w)
  <2>1. PICK c \in BOOLEAN : Withdraw(x.plan, Fence(w), c)
    BY <1>4 DEF Revoke, RevokeStale, RevokeIfRevisionCurrent, RevokeIfStale, WorldStandsAt, BoundToWorld
  <2> QED BY <1>0, <1>3, <2>1 DEF Withdraw, Standing
<1>5. CASE Rebind(w)
  <2>1. x.plan \in PlanIds
    BY <1>0, <1>5 DEF Rebind, LocalOK, Judging
  <2>2. x.plan # p
    BY <1>0, <2>1, Bounds DEF Standing
  <2> QED BY <1>0, <1>5, <2>2 DEF Rebind, RebindPlan
<1>6. CASE SeedCreate(w) \/ SeedClaim(w)
  BY <1>0, <1>6 DEF SeedCreate, SeedClaim, CreateWork, Claim
<1>7. CASE Propose(w)
  <2>1. x.n # p
    BY <1>0, <1>7 DEF Propose, LocalOK, Planning, Departures
  <2> QED BY <1>0, <1>7, <2>1 DEF Propose, AddPlan
<1>8. CASE Reject(w) \/ Mark(w)
  BY <1>0, <1>3, <1>8 DEF Reject, Mark, RejectPlan, MarkVerified
<1>9. CASE Commit(w)
  <2>1. x.n \in Departures
    BY <1>0, <1>9 DEF Commit, LocalOK, Planning, Departures
  <2> QED BY <1>0, <1>9, <2>1 DEF Commit, CommitPlan, Standing
<1> QED BY <1>4, <1>5, <1>6, <1>7, <1>8, <1>9 DEF Calls


\* The part of Around that is a step of the membrane.
LEMMA AroundIsMembrane ==
  ASSUME Around
  PROVE  MembraneNext /\ UNCHANGED shiftVars
BY DEF Around, MembraneNext, Environment

\* What the others do to the run while a shift is at work.
LEMMA AroundTouches ==
  ASSUME MembraneInv, NobodyElseDelivers, Around
  PROVE  /\ NobodyElseDelivers'
         /\ ledger[ControlEvent].stage = "unseen" => ledger'[ControlEvent].stage = "unseen"
         /\ OnlyDeparturesStand =>
              /\ OnlyDeparturesStand'
              /\ \A p \in PlanIds \ Departures :
                   plans'[p].basis = plans[p].basis /\ plans'[p].proposal = plans[p].proposal
         /\ OneNamePerItem /\ ItemsAreKept => ItemsAreKept'
<1>0. /\ TypeOK /\ worker \in [Workers -> Locals]
      /\ \A w \in Workers : LocalOK(pc[w], worker[w])
  BY DEF MembraneInv, MembraneTypeOK, Locals
<1>1. \A w \in Workers : WorkerKeeps(w)
  BY AroundKeepsWorkers
<1>2. NobodyElseDelivers'
  BY <1>1, Bounds DEF WorkerKeeps, NobodyElseDelivers
<1> DEFINE Leaves ==
      /\ committed' \in Standing
      /\ \A p \in PlanIds \ Departures :
           plans'[p].basis = plans[p].basis /\ plans'[p].proposal = plans[p].proposal
           Calm ==
      /\ ledger[ControlEvent].stage = "unseen" => ledger'[ControlEvent].stage = "unseen"
      /\ OnlyDeparturesStand => Leaves
      /\ OneNamePerItem /\ ItemsAreKept => ItemsAreKept'
<1>3. ASSUME UNCHANGED <<plans, committed, work>>,
             ledger[ControlEvent].stage = "unseen" => ledger'[ControlEvent].stage = "unseen"
      PROVE  Calm
  BY <1>3 DEF OnlyDeparturesStand, ItemsAreKept, KeptBy
<1>4. ASSUME NEW w \in Workers, Internal(w) PROVE Calm
  BY <1>3, <1>4, InternalStep DEF storeVars
<1>5. ASSUME NEW w \in Workers, Calls(w) PROVE Calm
  <2>1. UNCHANGED ledger
    BY <1>5, CallIsACall
  <2>2. OnlyDeparturesStand => Leaves
    BY <1>5, WorkersLeaveProposals
  <2>3. ASSUME OneNamePerItem, ItemsAreKept PROVE ItemsAreKept'
    <3>1. CASE SeedCreate(w) \/ SeedClaim(w)
      <4>1. worker[w].n \in 1..Len(Agenda)
        BY <1>0, <3>1 DEF SeedCreate, SeedClaim, LocalOK, Seeding
      <4> QED BY <1>0, <2>3, <3>1, <4>1, SeedingKeepsItems DEF SeedCreate, SeedClaim
    <3>2. CASE ~(SeedCreate(w) \/ SeedClaim(w))
      <4>1. UNCHANGED work
        BY <1>5, <3>2 DEF Calls, Revoke, Rebind, RevokeStale, Propose, Reject, Mark, Commit,
             RevokeIfRevisionCurrent, RevokeIfStale, Withdraw, RebindPlan, AddPlan, RejectPlan,
             MarkVerified, CommitPlan
      <4> QED BY <2>3, <4>1 DEF ItemsAreKept, KeptBy
    <3> QED BY <3>1, <3>2
  <2> QED BY <2>1, <2>2, <2>3
<1>6. ASSUME NEW w \in Workers, Absorb(w) \/ Resume(w) \/ AbsorbTrigger(w) PROVE Calm
  <2>1. UNCHANGED <<plans, committed, work>>
    BY <1>6 DEF Absorb, Resume, AbsorbTrigger, AbsorbEvent, ResumeEvent, AbsorbUnidentified
  <2>2. worker[w].event # ControlEvent
    BY DEF NobodyElseDelivers
  <2>3. ledger'[ControlEvent] = ledger[ControlEvent]
    BY <1>0, <1>6, <2>2, Bounds
       DEF TypeOK, Absorb, Resume, AbsorbTrigger, AbsorbEvent, ResumeEvent, AbsorbUnidentified
  <2> QED BY <1>3, <2>1, <2>3
<1>7. ASSUME NEW w \in Workers, Complete(w) \/ Abandon(w) PROVE Calm
  <2>1. UNCHANGED <<plans, committed, work>>
    BY <1>7 DEF Complete, Abandon, CompleteEvent, AbandonEvent, storeVars
  <2>2. ledger[ControlEvent].stage = "unseen" => ledger'[ControlEvent].stage = "unseen"
    BY <1>0, <1>7, Bounds DEF TypeOK, Complete, Abandon, CompleteEvent, AbandonEvent, Pending, storeVars
  <2> QED BY <1>3, <2>1, <2>2
<1>8. ASSUME NEW e \in Events, Silence(e) PROVE Calm
  <2>1. UNCHANGED <<plans, committed, work>>
    BY <1>8 DEF Silence, LeaseLapses
  <2>2. ledger[ControlEvent].stage = "unseen" => ledger'[ControlEvent].stage = "unseen"
    BY <1>0, <1>8, Bounds DEF TypeOK, Silence, LeaseLapses
  <2> QED BY <1>3, <2>1, <2>2
<1>9. ASSUME NEW w \in Workers, StartRun(w) \/ \E e \in Events : Deliver(w, e)
      PROVE  Internal(w)
  BY <1>9, ForecastAssumption DEF Deliver, Internal
<1>10. ASSUME NEW w \in Workers, Works(w) \/ Breakdown(w) \/ Retire(w)
       PROVE  \/ Internal(w) \/ Calls(w) \/ Absorb(w) \/ Resume(w) \/ AbsorbTrigger(w)
              \/ Complete(w) \/ Abandon(w)
  BY <1>10 DEF Works, Breakdown, Advance, Reverify, Run, Internal, Calls
<1>11. Calm
  <2> HIDE DEF Calm
  <2> QED BY <1>4, <1>5, <1>6, <1>7, <1>8, <1>9, <1>10 DEF Around
<1>12. ASSUME OnlyDeparturesStand PROVE OnlyDeparturesStand'
  BY <1>1, <1>11, <1>12 DEF WorkerKeeps, OnlyDeparturesStand, Standing
<1> QED BY <1>2, <1>11, <1>12

LEMMA AroundStep ==
  ASSUME ShiftInv, Around
  PROVE  ShiftInv'
<1>0. /\ MembraneInv /\ TypeOK /\ UnseenIsUntried /\ NobodyElseDelivers
      /\ at \in [Shifts -> Stations] /\ shift \in [Shifts -> ShiftLocals]
  BY DEF ShiftInv, MembraneInv, MembraneTypeOK
<1>1. MembraneInv' /\ [StoreNext]_storeVars /\ UNCHANGED <<at, shift>>
  BY <1>0, AroundIsMembrane, MembraneStep DEF shiftVars
<1>2. /\ TypeOK' /\ revision <= revision'
      /\ \A e \in Events : ledger[e].attempt <= ledger'[e].attempt
  BY <1>0, <1>1, AttemptsGrow
<1>3. ASSUME NEW s \in Shifts
      PROVE  /\ ShiftOK(at[s], shift[s])'
             /\ Alone(s)' => FirstOK(at[s], shift[s])'
  <2>1. PICK st \in Stations, x \in ShiftLocals : st = at[s] /\ x = shift[s]
    BY <1>0
  <2>2. ShiftOK(st, x)'
    BY <1>0, <1>2, <2>1, ShiftFrame DEF ShiftInv
  <2>3. ASSUME FirstOK(st, x)
        PROVE  FirstOK(st, x)'
    <3>1. AgentPlan(x.proposed) \in PlanIds \ Departures \/ ~(x.proposed > 0)
      BY <2>1, AgentPlansAreApart DEF ShiftLocals
    <3>2. st \in Deciding => x.proposed > 0
      BY <2>1 DEF ShiftInv, ShiftOK
    <3>3. st \notin Reported => OnlyDeparturesStand' /\ ProposalOK(st, x)'
      BY <1>0, <2>3, <3>1, AroundTouches DEF FirstOK, ProposalOK
    <3>4. x.kind = "control" => ControlOK(st, x)'
      <4> SUFFICES ASSUME x.kind = "control" PROVE ControlOK(st, x)'
        OBVIOUS
      <4>1. ControlOK(st, x)
        BY <2>3 DEF FirstOK
      <4>2. ASSUME st \in Deciding
            PROVE  plans'[AgentPlan(x.proposed)].basis < revision'
        <5>1. PICK p \in PlanIds \ Departures : p = AgentPlan(x.proposed)
          BY <3>1, <3>2, <4>2
        <5>2. plans'[p].basis = plans[p].basis
          BY <1>0, <2>3, <4>2, <5>1, AroundTouches DEF FirstOK, Deciding, Reported
        <5>3. plans[p].basis \in Nat /\ revision \in Nat /\ revision' \in Nat
          BY <1>0, <1>2, <5>1, Bounds DEF TypeOK, Plan
        <5> QED BY <1>2, <4>1, <4>2, <5>1, <5>2, <5>3 DEF ControlOK
      <4> QED BY <1>0, <4>1, <4>2, AroundTouches DEF ControlOK
    <3> QED BY <3>3, <3>4 DEF FirstOK
  <2>4. Alone(s)' => Alone(s)
    BY <1>1 DEF Alone
  <2> QED BY <1>1, <2>1, <2>2, <2>3, <2>4 DEF ShiftInv
<1> QED BY <1>0, <1>1, <1>3, AroundTouches DEF ShiftInv

-----------------------------------------------------------------------------
(* A shift's own steps *)

\* Shift s goes on at st with locals x, and nobody at work moves.
Goes(s, st, x) ==
  /\ at' = [at EXCEPT ![s] = st] /\ shift' = [shift EXCEPT ![s] = x]
  /\ st # "off"
  /\ UNCHANGED workerVars

LEMMA ShiftMoves ==
  ASSUME ShiftInv, NEW s \in Shifts, NEW st, NEW x, Goes(s, st, x),
         [StoreNext]_storeVars, launched' \in BOOLEAN,
         HistoryOK', PlansAreNamed',
         ShiftOK(st, x)', Alone(s) => FirstOK(st, x)'
  PROVE  ShiftInv'
<1>0. /\ MembraneInv /\ TypeOK /\ UnseenIsUntried /\ NobodyElseDelivers /\ FencesAreOwn
      /\ at \in [Shifts -> Stations] /\ shift \in [Shifts -> ShiftLocals]
  BY DEF ShiftInv, MembraneInv, MembraneTypeOK
<1>1. MembraneInv'
  <2>1. FencesAreOwn'
    BY <1>0 DEF Goes, FencesAreOwn, Fence, workerVars
  <2> QED BY <1>0, <2>1, KeepsInv DEF Goes
<1>2. /\ TypeOK' /\ revision <= revision'
      /\ \A e \in Events : ledger[e].attempt <= ledger'[e].attempt
  BY <1>0, AttemptsGrow
<1>3. st \in Stations /\ x \in ShiftLocals
  BY DEF ShiftOK
<1>4. /\ at' \in [Shifts -> Stations] /\ shift' \in [Shifts -> ShiftLocals]
      /\ at'[s] = st /\ shift'[s] = x
      /\ \A t \in Shifts \ {s} : at'[t] = at[t] /\ shift'[t] = shift[t]
  BY <1>0, <1>3 DEF Goes
<1>5. ASSUME NEW t \in Shifts \ {s}
      PROVE  ShiftOK(at[t], shift[t])' /\ ~Alone(t)'
  <2>1. PICK su, y : su = at[t] /\ y = shift[t]
    OBVIOUS
  <2>2. ShiftOK(su, y)'
    BY <1>0, <1>2, <2>1, ShiftFrame DEF ShiftInv
  <2> QED BY <1>4, <2>1, <2>2 DEF Alone, Goes
<1>6. Alone(s)' => Alone(s)
  BY <1>4 DEF Alone
<1>7. NobodyElseDelivers'
  BY <1>0 DEF Goes, NobodyElseDelivers, workerVars
<1> QED BY <1>1, <1>4, <1>5, <1>6, <1>7 DEF ShiftInv

\* A step that leaves the store alone needs its new locals in order, no more.
LEMMA QuietlyMoves ==
  ASSUME ShiftInv, NEW s \in Shifts, NEW st, NEW x, Goes(s, st, x),
         UNCHANGED storeVars, launched' \in BOOLEAN, HistoryOK',
         ShiftOK(st, x), Alone(s) => FirstOK(st, x)
  PROVE  ShiftInv'
<1>1. PlansAreNamed'
  BY DEF ShiftInv, MembraneInv, PlansAreNamed, NamedIn, Known, storeVars
<1>2. ShiftOK(st, x)'
  BY DEF ShiftOK, Minted, storeVars
<1>3. FirstOK(st, x) => FirstOK(st, x)'
  BY DEF FirstOK, OnlyDeparturesStand, ProposalOK, ControlOK, Goes, storeVars, workerVars
<1> QED BY <1>1, <1>2, <1>3, ShiftMoves

\* A shift that ends keeps nothing but its kind and its verdict.
LEMMA EndsInOrder ==
  ASSUME ShiftInv, NEW s \in Shifts, NEW v \in Verdict, Ends(s, v), UNCHANGED workerVars
  PROVE  \E x \in ShiftLocals :
           /\ Goes(s, "over", x) /\ x.kind = shift[s].kind /\ x.verdict = v
           /\ ShiftOK("over", x)
<1>0. TypeOK /\ shift[s] \in ShiftLocals /\ shift \in [Shifts -> ShiftLocals]
  BY DEF ShiftInv, MembraneInv, MembraneTypeOK
<1>1. PICK kind \in Kinds : kind = shift[s].kind
  BY <1>0 DEF ShiftLocals
<1>2. PICK x : x = [Newcomer(kind) EXCEPT !.verdict = v]
  OBVIOUS
<1>3. /\ x \in ShiftLocals /\ x.kind = kind /\ x.verdict = v /\ x.fence = Unfenced
      /\ x.view = 0 /\ x.proposed = 0 /\ x.observed = Unread
  BY <1>2, Bounds, AgendaItems, ForecastAssumption, ShiftAssumption DEF Newcomer, ShiftLocals, Fences
<1>4. ShiftOK("over", x)
  BY <1>0, <1>3, Bounds DEF ShiftOK, Stations, Deciding, Minted, TypeOK
<1>5. Goes(s, "over", x)
  BY <1>0, <1>1, <1>2 DEF Ends, Goes
<1> QED BY <1>1, <1>3, <1>4, <1>5

\* What FirstOK asks of a shift that has ended.
LEMMA EndedFirst ==
  ASSUME NEW st \in Reported, NEW x, x.kind = "control" => x.verdict # "accepted"
  PROVE  FirstOK(st, x)
BY DEF FirstOK, ControlOK, Reported, Deciding, BeforeTheTruth

\* A later look at the world: same locals but for the count and the view.
LaterLook(x, y) ==
  /\ y \in ShiftLocals /\ x.view <= y.view /\ y.view <= revision
  /\ y.kind = x.kind /\ y.observed = x.observed /\ y.proposed = x.proposed
  /\ y.forecast = x.forecast /\ y.fence = x.fence /\ y.proposal = x.proposal
  /\ y.verdict = x.verdict

LEMMA SeedsInOrder ==
  ASSUME NEW st \in {"off", "create", "claim"}, NEW x, ShiftOK(st, x), TypeOK,
         NEW onward \in {"create", "claim", "agent"}, NEW y, LaterLook(x, y)
  PROVE  ShiftOK(onward, y) /\ (FirstOK(st, x) => FirstOK(onward, y))
<1>1. ShiftOK(onward, y)
  BY DEF ShiftOK, LaterLook, Stations, Deciding
<1>2. ASSUME FirstOK(st, x) PROVE FirstOK(onward, y)
  <2>1. /\ OnlyDeparturesStand /\ ProposalOK(st, x) /\ (x.kind = "control" => ControlOK(st, x))
    BY <1>2 DEF FirstOK, Reported
  <2>2. ProposalOK(onward, y)
    <3>1. ASSUME x.proposed > 0 PROVE plans[AgentPlan(x.proposed)].basis \in Nat
      <4>1. x.proposed \in 0..MaxProposals
        BY DEF ShiftOK, ShiftLocals
      <4> QED BY <3>1, <4>1, AgentBasis
    <3>2. x.view \in Nat /\ y.view \in Nat
      BY Bounds DEF ShiftOK, LaterLook, ShiftLocals
    <3> QED BY <2>1, <3>1, <3>2 DEF ProposalOK, LaterLook, Deciding
  <2>3. x.kind = "control" => ControlOK(onward, y)
    BY <2>1 DEF ControlOK, LaterLook, Deciding, BeforeTheTruth
  <2> QED BY <2>1, <2>2, <2>3 DEF FirstOK, LaterLook
<1> QED BY <1>1, <1>2

\* To the next item of the agenda, or on with the seeding.
LEMMA SeededInOrder ==
  ASSUME ShiftInv, NEW s \in Shifts, at[s] \in {"create", "claim"}, UNCHANGED revision,
         NEW again \in {"create", "claim"}, NEW onward \in {"claim", "agent"},
         Seeded(s, again, onward), UNCHANGED workerVars
  PROVE  \E st \in {"create", "claim", "agent"}, x \in ShiftLocals :
           /\ Goes(s, st, x) /\ ShiftOK(st, x) /\ (Alone(s) => FirstOK(st, x))
<1>1. PICK x \in ShiftLocals : x = shift[s]
  BY DEF ShiftInv
<1>2. TypeOK /\ ShiftOK(at[s], x) /\ (Alone(s) => FirstOK(at[s], x)) /\ shift \in [Shifts -> ShiftLocals]
  BY <1>1 DEF ShiftInv, MembraneInv, MembraneTypeOK
<1>3. /\ x.n \in 1..Len(Agenda) /\ Len(Agenda) \in Nat \ {0}
      /\ revision \in 0..MaxRevision /\ x.view <= revision
  BY <1>2, AgendaItems DEF ShiftLocals, TypeOK, ShiftOK
<1>4. PICK st \in {again, onward}, k \in 1..Len(Agenda) :
        at' = [at EXCEPT ![s] = st] /\ shift' = [shift EXCEPT ![s].n = k, ![s].view = revision]
  <2>1. CASE x.n < Len(Agenda)
    <3>1. x.n + 1 \in 1..Len(Agenda)
      BY <1>3, <2>1
    <3> QED BY <1>1, <1>2, <2>1, <3>1 DEF Seeded
  <2>2. CASE ~(x.n < Len(Agenda))
    BY <1>1, <1>3, <2>2 DEF Seeded
  <2> QED BY <2>1, <2>2
<1>5. PICK y : y = [x EXCEPT !.n = k, !.view = revision]
  OBVIOUS
<1>6. LaterLook(x, y)
  <2>1. y \in ShiftLocals /\ y.view = revision
    BY <1>3, <1>5 DEF ShiftLocals
  <2>2. /\ y.kind = x.kind /\ y.observed = x.observed /\ y.proposed = x.proposed
        /\ y.forecast = x.forecast /\ y.fence = x.fence /\ y.proposal = x.proposal
        /\ y.verdict = x.verdict
    BY <1>3, <1>5 DEF ShiftLocals
  <2>3. x.view <= y.view /\ y.view <= revision
    BY <1>3, <2>1, Bounds
  <2> QED BY <2>1, <2>2, <2>3 DEF LaterLook
<1>7. shift' = [shift EXCEPT ![s] = y]
  BY <1>1, <1>2, <1>4, <1>5
<1>8. ShiftOK(st, y) /\ (FirstOK(at[s], x) => FirstOK(st, y))
  BY <1>2, <1>6, SeedsInOrder
<1>9. Goes(s, st, y) /\ st \in {"create", "claim", "agent"}
  BY <1>4, <1>7 DEF Goes
<1>10. y \in ShiftLocals
  BY <1>6 DEF LaterLook
<1> QED BY <1>2, <1>8, <1>9, <1>10

\* The steps that leave the store alone.
Quiet(s) ==
  \/ Open(s) \/ (ClaimForOthers(s) /\ UNCHANGED storeVars)
  \/ ReadFacts(s) \/ Concludes(s) \/ Fetch(s) \/ Scrutinise(s) \/ Raises(s)
  \/ (CompleteControl(s) /\ UNCHANGED storeVars)

LEMMA QuietStep ==
  ASSUME ShiftInv, NEW s \in Shifts, Quiet(s)
  PROVE  ShiftInv' /\ UNCHANGED storeVars
<1>1. PICK x \in ShiftLocals : x = shift[s]
  BY DEF ShiftInv
<1>2. /\ TypeOK /\ ShiftOK(at[s], x) /\ (Alone(s) => FirstOK(at[s], x))
      /\ at \in [Shifts -> Stations] /\ shift \in [Shifts -> ShiftLocals] /\ launched \in BOOLEAN
  BY <1>1 DEF ShiftInv, MembraneInv, MembraneTypeOK
<1>3. UNCHANGED <<storeVars, workerVars>> /\ launched' \in BOOLEAN /\ HistoryOK'
  <2>1. HistoryOK
    BY DEF ShiftInv, MembraneInv, MembraneTypeOK, HistoryOK
  <2>2. CASE Open(s)
    <3>1. HistoryOK'
      BY <2>1, <2>2, LearnsOK, Bounds, ShiftAssumption DEF Open
    <3> QED BY <2>2, <3>1 DEF Open
  <2>3. CASE CompleteControl(s) /\ UNCHANGED storeVars
    <3>1. concluded' \in {concluded, x.forecast} /\ UNCHANGED <<workerVars, launched, truth>>
      BY <1>1, <2>3 DEF CompleteControl
    <3>2. HistoryOK'
      BY <2>1, <3>1 DEF HistoryOK, ShiftLocals
    <3> QED BY <1>2, <2>3, <3>1, <3>2
  <2>4. CASE ~Open(s) /\ ~(CompleteControl(s) /\ UNCHANGED storeVars)
    <3>1. UNCHANGED <<storeVars, workerVars, launched, history>>
      BY <2>4 DEF Quiet, ClaimForOthers, ReadFacts, Concludes, Fetch, Scrutinise, Raises, OthersOnly
    <3> QED BY <1>2, <2>1, <3>1 DEF HistoryOK, history
  <2> QED BY <2>2, <2>3, <2>4 DEF Quiet
<1>4. UNCHANGED revision
  BY <1>3 DEF storeVars
<1> SUFFICES ShiftInv'
  BY <1>3
<1>5. ASSUME NEW st, NEW y, Goes(s, st, y), ShiftOK(st, y), Alone(s) => FirstOK(st, y)
      PROVE  ShiftInv'
  BY <1>3, <1>5, QuietlyMoves
<1>6. ASSUME NEW v \in Verdict, Ends(s, v), Alone(s) /\ x.kind = "control" => v # "accepted"
      PROVE  ShiftInv'
  BY <1>1, <1>3, <1>5, <1>6, EndsInOrder, EndedFirst DEF Reported
<1>7. ASSUME NEW st, Move(s, st), st # "off" PROVE Goes(s, st, x)
  BY <1>1, <1>2, <1>3, <1>7 DEF Move, Goes
<1>8. CASE Open(s)
  <2>1. PICK y : y = [x EXCEPT !.view = revision]
    OBVIOUS
  <2>2. Goes(s, "create", y)
    BY <1>1, <1>2, <1>3, <1>4, <1>8, <2>1 DEF Open, To, Goes
  <2>3. LaterLook(x, y)
    <3>1. x.view \in Nat /\ revision \in 0..MaxRevision /\ x.view <= revision
      BY <1>2, Bounds DEF ShiftOK, ShiftLocals, TypeOK
    <3>2. y \in ShiftLocals /\ y.view = revision
      BY <2>1, <3>1 DEF ShiftLocals
    <3>3. /\ y.kind = x.kind /\ y.observed = x.observed /\ y.proposed = x.proposed
          /\ y.forecast = x.forecast /\ y.fence = x.fence /\ y.proposal = x.proposal
          /\ y.verdict = x.verdict
      BY <2>1 DEF ShiftLocals
    <3>4. x.view <= y.view /\ y.view <= revision
      BY <3>1, <3>2, Bounds
    <3> QED BY <3>2, <3>3, <3>4 DEF LaterLook
  <2>4. ShiftOK("create", y) /\ (FirstOK("off", x) => FirstOK("create", y))
    BY <1>2, <1>8, <2>3, SeedsInOrder DEF Open
  <2> QED BY <1>2, <1>5, <1>8, <2>2, <2>4 DEF Open
<1>9. CASE ClaimForOthers(s) /\ UNCHANGED storeVars
  <2>1. at[s] = "claim" /\ (Seeded(s, "claim", "agent") \/ Ends(s, "failed"))
    BY <1>9 DEF ClaimForOthers
  <2>2. CASE Seeded(s, "claim", "agent")
    BY <1>3, <1>4, <1>5, <2>1, <2>2, SeededInOrder
  <2> QED BY <1>6, <2>1, <2>2 DEF Verdict
<1>10. CASE ReadFacts(s)
  <2>1. PICK r \in x.view..revision : shift' = [shift EXCEPT ![s].observed = r]
    BY <1>1, <1>10 DEF ReadFacts, Glimpse
  <2>2. PICK y : y = [x EXCEPT !.observed = r]
    OBVIOUS
  <2>3. at[s] = "agent" /\ at' = [at EXCEPT ![s] = "agent"] /\ shift' = [shift EXCEPT ![s] = y]
    BY <1>1, <1>2, <1>10, <2>1, <2>2 DEF ReadFacts
  <2>4. /\ x.view \in Nat /\ revision \in 0..MaxRevision /\ r \in 0..Unread
        /\ r <= revision /\ x.view <= r /\ r # Unread /\ r \in Nat
    <3>1. x.view \in 0..MaxRevision /\ revision \in 0..MaxRevision
      BY <1>2 DEF ShiftLocals, TypeOK
    <3> QED BY <2>1, <3>1, Bounds
  <2>5. /\ y \in ShiftLocals /\ y.observed = r /\ y.view = x.view /\ y.kind = x.kind
        /\ y.proposed = x.proposed /\ y.fence = x.fence /\ y.verdict = x.verdict
    BY <2>2, <2>4 DEF ShiftLocals
  <2>6. ShiftOK("agent", y)
    BY <1>2, <2>3, <2>4, <2>5 DEF ShiftOK, Deciding
  <2>7. ASSUME FirstOK("agent", x) PROVE FirstOK("agent", y)
    <3>1. ASSUME x.proposed > 0
          PROVE  /\ plans[AgentPlan(x.proposed)].basis <= r
                 /\ plans[AgentPlan(x.proposed)].basis <= x.view
      <4>1. plans[AgentPlan(x.proposed)].basis \in Nat
        <5>1. x.proposed \in 0..MaxProposals
          BY DEF ShiftLocals
        <5> QED BY <1>2, <3>1, <5>1, AgentBasis
      <4>2. plans[AgentPlan(x.proposed)].basis <= x.view
        BY <2>7, <3>1 DEF FirstOK, ProposalOK, Reported
      <4> QED BY <2>4, <4>1, <4>2
    <3> QED BY <2>5, <2>7, <3>1 DEF FirstOK, ProposalOK, ControlOK, Reported, Deciding
  <2> QED BY <1>2, <1>3, <1>5, <2>3, <2>6, <2>7 DEF Goes
<1>11. CASE Concludes(s)
  <2>1. CASE x.proposed = 0
    <3>1. Ends(s, "no proposal") /\ "no proposal" \in Verdict /\ "no proposal" # "accepted"
      BY <1>1, <1>11, <2>1 DEF Concludes, Verdict
    <3> QED BY <1>6, <3>1
  <2>2. CASE x.proposed # 0
    <3>1. x.proposed > 0
      BY <2>2, Bounds DEF ShiftLocals
    <3>2. PICK st \in {"advance", "fetch"} : Move(s, st) /\ (x.kind = "control" => st = "advance")
      BY <1>1, <1>11, <2>2 DEF Concludes
    <3>3. ShiftOK(st, x)
      BY <1>2, <3>1 DEF ShiftOK, Stations
    <3>4. at[s] = "agent"
      BY <1>11 DEF Concludes
    <3>5. FirstOK("agent", x) => FirstOK(st, x)
      BY <3>2 DEF FirstOK, ProposalOK, ControlOK, Reported, Deciding, BeforeTheTruth
    <3> QED BY <1>2, <1>5, <1>7, <3>2, <3>3, <3>4, <3>5
  <2> QED BY <2>1, <2>2
<1>12. CASE Fetch(s)
  <2>1. PICK p \in PlanIds : p = LastPlan(s) /\ p = AgentPlan(x.proposed)
    BY <1>1, <1>2, <1>12, AgentPlansAreApart DEF Fetch, ShiftOK, Deciding, ShiftLocals, LastPlan
  <2>2. PICK y : y = [x EXCEPT !.basis = plans[p].basis, !.proposal = plans[p].proposal]
    OBVIOUS
  <2>3. at[s] = "fetch" /\ Goes(s, "weigh", y)
    BY <1>1, <1>2, <1>3, <1>12, <2>1, <2>2 DEF Fetch, Goes
  <2>4. plans[p].basis \in 0..MaxRevision /\ plans[p].proposal \in Proposals \cup {NoProposal}
    BY <1>2 DEF TypeOK, Plan
  <2>5. /\ y \in ShiftLocals /\ y.observed = x.observed /\ y.view = x.view /\ y.kind = x.kind
        /\ y.proposed = x.proposed /\ y.fence = x.fence /\ y.verdict = x.verdict
        /\ y.proposal = plans[p].proposal
    BY <2>2, <2>4 DEF ShiftLocals
  <2>6. ShiftOK("weigh", y)
    BY <1>2, <2>3, <2>5 DEF ShiftOK, Stations, Deciding
  <2>7. FirstOK("fetch", x) => FirstOK("weigh", y)
    BY <2>1, <2>5 DEF FirstOK, ProposalOK, ControlOK, Reported, Deciding, BeforeTheTruth
  <2> QED BY <1>2, <1>5, <2>3, <2>6, <2>7
<1>13. CASE Scrutinise(s)
  <2>1. PICK st \in {"mark", "reject"} : /\ Move(s, st)
                                         /\ st = "mark" => Feasible(x.forecast, x.proposal)
    BY <1>1, <1>13 DEF Scrutinise
  <2>2. at[s] = "weigh"
    BY <1>13 DEF Scrutinise
  <2>3. ShiftOK(st, x)
    BY <1>2, <2>1, <2>2 DEF ShiftOK, Stations, Deciding
  <2>4. FirstOK("weigh", x) => FirstOK(st, x)
    BY DEF FirstOK, ProposalOK, ControlOK, Reported, Deciding, BeforeTheTruth
  <2> QED BY <1>2, <1>5, <1>7, <2>1, <2>2, <2>3, <2>4
<1>14. CASE Raises(s)
  BY <1>6, <1>14 DEF Raises, Verdict
<1>15. CASE CompleteControl(s) /\ UNCHANGED storeVars
  <2>1. Ends(s, x.verdict) /\ x.verdict \in Verdict
    BY <1>1, <1>15 DEF CompleteControl, ShiftLocals
  <2> QED BY <1>2, <1>6, <2>1 DEF FirstOK, ControlOK
<1> QED BY <1>8, <1>9, <1>10, <1>11, <1>12, <1>13, <1>14, <1>15 DEF Quiet

\* The steps that call the store and leave the ledger alone.
ShiftCalls(s) ==
  \/ OpenWork(s) \/ (ClaimForOthers(s) /\ ~UNCHANGED storeVars) \/ ClaimWork(s)
  \/ ProposePlan(s) \/ RejectProposal(s) \/ MarkProposal(s) \/ CommitProposal(s)

LEMMA ShiftCallIsACall ==
  ASSUME ShiftInv, NEW s \in Shifts, ShiftCalls(s)
  PROVE  /\ [StoreNext]_storeVars /\ PlansAreNamed'
         /\ UNCHANGED <<launched, history, revision, ledger, workerVars>>
<1> DEFINE x == shift[s]
<1>0. /\ TypeOK /\ PlansAreNamed /\ x \in ShiftLocals /\ ShiftOK(at[s], x)
  BY DEF ShiftInv, MembraneInv, MembraneTypeOK
<1>1. UNCHANGED <<launched, history, revision, ledger, workerVars>>
  BY DEF ShiftCalls, OpenWork, ClaimForOthers, ClaimWork, ProposePlan, RejectProposal, MarkProposal,
         CommitProposal, CreateWork, Claim, AddPlan, RejectPlan, MarkVerified, CommitPlan,
         OthersOnly, storeVars
<1> SUFFICES [StoreNext]_storeVars /\ PlansAreNamed'
  BY <1>1
<1>2. Unfenced \in Fences /\ Minted(Unfenced) /\ x.fence \in Fences /\ Minted(x.fence)
  BY <1>0 DEF Fences, Minted, ShiftOK, ShiftLocals
<1>3. ASSUME NEW i \in WorkItems, NEW a \in Actors, CreateWork(i, Unfenced) \/ Claim(i, a, Unfenced)
      PROVE  [StoreNext]_storeVars /\ PlansAreNamed'
  <2>1. [StoreNext]_storeVars
    BY <1>2, <1>3 DEF StoreNext, Call, WorkCall
  <2>2. UNCHANGED <<plans, committed>>
    BY <1>3 DEF CreateWork, Claim
  <2> QED BY <1>0, <2>1, <2>2 DEF PlansAreNamed, NamedIn, Known
<1>4. CASE OpenWork(s)
  <2>1. Agenda[x.n] \in WorkItems
    BY <1>0, AgendaItems DEF ShiftLocals
  <2> QED BY <1>3, <1>4, <2>1, Bounds DEF OpenWork
<1>5. CASE ClaimForOthers(s) /\ ~UNCHANGED storeVars
  <2>1. Agenda[x.n] \in WorkItems /\ Crew[x.n] \in Actors
    BY <1>0, AgendaItems DEF ShiftLocals
  <2> QED BY <1>3, <1>5, <2>1 DEF ClaimForOthers
<1>6. CASE ClaimWork(s)
  <2>1. Scope \subseteq WorkItems
    BY AgendaItems DEF Scope
  <2> QED BY <1>3, <1>6, <2>1, Bounds DEF ClaimWork
<1>7. CASE ProposePlan(s)
  <2>1. PICK k \in 0..MaxProposals : k = x.proposed + 1 /\ k > 0
    <3>1. x.proposed \in 0..MaxProposals
      BY <1>0 DEF ShiftLocals
    <3>2. x.proposed < MaxProposals
      BY <1>0, <1>7 DEF ProposePlan
    <3> QED BY <3>1, <3>2, Bounds
  <2>2. PICK p \in PlanIds \ Departures : p = AgentPlan(k)
    BY <2>1, AgentPlansAreApart
  <2>3. PICK r \in 0..revision : r = x.observed
    <3>1. x.observed \in 0..Unread /\ x.observed # Unread /\ revision \in 0..MaxRevision
      BY <1>0, <1>7 DEF ProposePlan, ShiftLocals, TypeOK
    <3>2. x.observed <= revision
      BY <1>0, <3>1 DEF ShiftOK
    <3> QED BY <3>1, <3>2, Bounds
  <2>4. PICK q \in Proposals : AddPlan(p, q, r, Unfenced)
    BY <1>7, <2>1, <2>2, <2>3 DEF ProposePlan
  <2>5. [StoreNext]_storeVars
    BY <1>2, <2>4 DEF StoreNext, Call, PlanCall
  <2>6. PlansAreNamed'
    BY <1>0, <2>4, Bounds DEF AddPlan, PlansAreNamed, NamedIn, Known, TypeOK, Departures
  <2> QED BY <2>5, <2>6
<1>8. CASE RejectProposal(s) \/ MarkProposal(s) \/ CommitProposal(s)
  <2>1. x.proposed \in 0..MaxProposals /\ x.proposed > 0
    BY <1>0, <1>8 DEF RejectProposal, MarkProposal, CommitProposal, ShiftOK, Deciding, ShiftLocals
  <2>2. PICK p \in PlanIds \ Departures : p = LastPlan(s)
    BY <2>1, AgentPlansAreApart DEF LastPlan
  <2>3. RejectPlan(p, x.fence) \/ MarkVerified(p, x.fence) \/ CommitPlan(p, x.fence)
    BY <1>8, <2>2 DEF RejectProposal, MarkProposal, CommitProposal
  <2>4. [StoreNext]_storeVars
    BY <1>2, <2>3 DEF StoreNext, Call, PlanCall
  <2>5. PlansAreNamed'
    <3>1. \A d \in 1..Candidates : d # p /\ d \in PlanIds
      BY Bounds DEF Departures
    <3>2. CASE CommitPlan(p, x.fence)
      BY <1>0, <3>2 DEF CommitPlan, PlansAreNamed, NamedIn, Known
    <3>3. CASE RejectPlan(p, x.fence) \/ MarkVerified(p, x.fence)
      <4>1. PICK v \in {"rejected", "verified"} :
              /\ plans' = [plans EXCEPT ![p].verdict = v] /\ UNCHANGED committed
        BY <3>3 DEF RejectPlan, MarkVerified
      <4> QED BY <1>0, <3>1, <4>1, Bounds DEF PlansAreNamed, NamedIn, Known, TypeOK, Plan
    <3> QED BY <2>3, <3>2, <3>3
  <2> QED BY <2>4, <2>5
<1> QED BY <1>4, <1>5, <1>6, <1>7, <1>8 DEF ShiftCalls

\* A verdict is in, and it is no acceptance of the control.
LEMMA DecidedInOrder ==
  ASSUME ShiftInv, NEW s \in Shifts, NEW v \in {"accepted", "rejected"}, Decided(s, v),
         UNCHANGED <<revision, ledger, workerVars>>,
         Alone(s) /\ shift[s].kind = "control" => v # "accepted"
  PROVE  \E st \in Reported, x \in ShiftLocals :
           Goes(s, st, x) /\ ShiftOK(st, x)' /\ (Alone(s) => FirstOK(st, x)')
<1>1. PICK x \in ShiftLocals : x = shift[s]
  BY DEF ShiftInv
<1>2. /\ TypeOK /\ ShiftOK(at[s], x) /\ shift \in [Shifts -> ShiftLocals]
  BY <1>1 DEF ShiftInv, MembraneInv, MembraneTypeOK
<1>3. ASSUME NEW st \in Reported, NEW y \in ShiftLocals, Goes(s, st, y), ShiftOK(st, y),
             y.kind = x.kind, y.verdict = v
      PROVE  Goes(s, st, y) /\ ShiftOK(st, y)' /\ (Alone(s) => FirstOK(st, y)')
  <2>1. ShiftOK(st, y)'
    BY <1>3 DEF ShiftOK, Minted
  <2>2. Alone(s) => FirstOK(st, y)'
    BY <1>1, <1>3 DEF FirstOK, ControlOK, Reported, Deciding, BeforeTheTruth
  <2> QED BY <1>3, <2>1, <2>2
<1>4. CASE x.kind = "control"
  <2>1. PICK y : y = [x EXCEPT !.verdict = v, !.view = revision]
    OBVIOUS
  <2>2. at' = [at EXCEPT ![s] = "complete"] /\ shift' = [shift EXCEPT ![s] = y]
    BY <1>1, <1>2, <1>4, <2>1 DEF Decided
  <2>3. /\ y \in ShiftLocals /\ y.view = revision /\ y.kind = x.kind /\ y.observed = x.observed
        /\ y.proposed = x.proposed /\ y.fence = x.fence /\ y.verdict = v
    BY <1>2, <2>1 DEF ShiftLocals, Verdict, TypeOK
  <2>4. ShiftOK("complete", y)
    BY <1>2, <2>3, Bounds DEF ShiftOK, Stations, Deciding, TypeOK
  <2>5. Goes(s, "complete", y)
    BY <2>2 DEF Goes
  <2> QED BY <1>3, <2>3, <2>4, <2>5 DEF Reported
<1>5. CASE x.kind # "control"
  <2>1. Ends(s, v) /\ v \in Verdict
    BY <1>1, <1>5 DEF Decided, Verdict
  <2>2. PICK y \in ShiftLocals :
          Goes(s, "over", y) /\ y.kind = x.kind /\ y.verdict = v /\ ShiftOK("over", y)
    BY <1>1, <2>1, EndsInOrder
  <2> QED BY <1>3, <2>2 DEF Reported
<1> QED BY <1>4, <1>5

\* Where a call leads that leaves every proposal as it is.
LEMMA CallsInOrder ==
  ASSUME ShiftInv, NEW s \in Shifts, ShiftCalls(s), NEW st, NEW x, Goes(s, st, x),
         ShiftOK(st, x), Alone(s) => FirstOK(st, x),
         UNCHANGED committed,
         \A p \in PlanIds : plans'[p].basis = plans[p].basis /\ plans'[p].proposal = plans[p].proposal
  PROVE  ShiftInv'
<1>1. /\ [StoreNext]_storeVars /\ PlansAreNamed'
      /\ UNCHANGED <<launched, history, revision, ledger, workerVars>>
  BY ShiftCallIsACall
<1>2. launched \in BOOLEAN /\ HistoryOK'
  BY <1>1 DEF ShiftInv, MembraneInv, MembraneTypeOK, HistoryOK, history
<1>3. ShiftOK(st, x)'
  BY <1>1 DEF ShiftOK, Minted
<1>4. ASSUME FirstOK(st, x) PROVE FirstOK(st, x)'
  <2>1. x.proposed > 0 =>
          /\ plans'[AgentPlan(x.proposed)].basis = plans[AgentPlan(x.proposed)].basis
          /\ plans'[AgentPlan(x.proposed)].proposal = plans[AgentPlan(x.proposed)].proposal
    BY AgentPlansAreApart DEF ShiftOK, ShiftLocals
  <2>2. st \in Deciding => x.proposed > 0
    BY DEF ShiftOK
  <2> QED BY <1>1, <1>4, <2>1, <2>2
          DEF FirstOK, OnlyDeparturesStand, ProposalOK, ControlOK, workerVars
<1> QED BY <1>1, <1>2, <1>3, <1>4, ShiftMoves

LEMMA CallStep ==
  ASSUME ShiftInv, NEW s \in Shifts, ShiftCalls(s)
  PROVE  ShiftInv'
<1>1. PICK x \in ShiftLocals : x = shift[s]
  BY DEF ShiftInv
<1>2. /\ TypeOK /\ ShiftOK(at[s], x) /\ (Alone(s) => FirstOK(at[s], x))
      /\ at \in [Shifts -> Stations] /\ shift \in [Shifts -> ShiftLocals]
      /\ launched \in BOOLEAN /\ HistoryOK
  BY <1>1 DEF ShiftInv, MembraneInv, MembraneTypeOK, HistoryOK
<1>3. /\ [StoreNext]_storeVars /\ PlansAreNamed'
      /\ UNCHANGED <<launched, history, revision, ledger, workerVars>>
  BY ShiftCallIsACall
<1>4. revision \in 0..MaxRevision /\ x.view \in Nat /\ x.view <= revision /\ HistoryOK'
  BY <1>2, <1>3, Bounds DEF TypeOK, ShiftOK, ShiftLocals, HistoryOK, history
<1>5. PICK seen : seen = [x EXCEPT !.view = revision]
  OBVIOUS
<1>6. /\ seen \in ShiftLocals /\ seen.view = revision /\ seen.kind = x.kind
      /\ seen.observed = x.observed /\ seen.proposed = x.proposed /\ seen.forecast = x.forecast
      /\ seen.fence = x.fence /\ seen.proposal = x.proposal /\ seen.verdict = x.verdict
  BY <1>4, <1>5 DEF ShiftLocals
<1>7. ASSUME NEW st, To(s, st), st # "off" PROVE Goes(s, st, seen)
  BY <1>1, <1>2, <1>3, <1>5, <1>7 DEF To, Goes
<1>8. ASSUME NEW st \in Stations, ShiftOK(st, x) PROVE ShiftOK(st, seen)
  BY <1>4, <1>6, <1>8 DEF ShiftOK
<1>9. ASSUME NEW st \in Stations, ShiftOK(st, x), FirstOK(st, x) PROVE FirstOK(st, seen)
  <2>1. ASSUME x.proposed > 0, ProposalOK(st, x) PROVE ProposalOK(st, seen)
    <3>1. PICK p \in PlanIds : p = AgentPlan(x.proposed)
      BY <2>1, AgentPlansAreApart DEF ShiftLocals
    <3>2. plans[p].basis \in Nat /\ plans[p].basis <= x.view
      BY <1>2, <2>1, <3>1, Bounds DEF TypeOK, Plan, ProposalOK
    <3>3. plans[p].basis <= revision
      BY <1>4, <3>2, Bounds
    <3> QED BY <1>6, <2>1, <3>1, <3>3 DEF ProposalOK
  <2> QED BY <1>6, <1>9, <2>1 DEF FirstOK, ProposalOK, ControlOK
<1>10. CASE OpenWork(s) \/ ClaimForOthers(s) \/ ClaimWork(s)
  <2>1. UNCHANGED <<plans, committed>>
    BY <1>10 DEF OpenWork, ClaimForOthers, ClaimWork, CreateWork, Claim, storeVars
  <2>2. ASSUME NEW st, NEW y, Goes(s, st, y), ShiftOK(st, y), Alone(s) => FirstOK(st, y)
        PROVE  ShiftInv'
    BY <2>1, <2>2, CallsInOrder
  <2>3. CASE Seeded(s, "create", "claim") /\ at[s] = "create"
    BY <1>3, <2>2, <2>3, SeededInOrder
  <2>4. CASE Seeded(s, "claim", "agent") /\ at[s] = "claim"
    BY <1>3, <2>2, <2>4, SeededInOrder
  <2>5. CASE Ends(s, "failed")
    <3>1. "failed" \in Verdict /\ "failed" # "accepted"
      BY DEF Verdict
    <3> QED BY <1>3, <2>2, <2>5, <3>1, EndsInOrder, EndedFirst DEF Reported
  <2>6. CASE ClaimWork(s)
    <3>1. at[s] = "agent" /\ To(s, "agent")
      BY <2>6 DEF ClaimWork
    <3>2. Goes(s, "agent", seen)
      BY <1>7, <3>1
    <3> QED BY <1>2, <1>8, <1>9, <2>2, <3>1, <3>2 DEF Stations
  <2> QED BY <1>10, <2>3, <2>4, <2>5, <2>6 DEF OpenWork, ClaimForOthers
<1>11. CASE ProposePlan(s)
  <2>1. PICK k \in 1..MaxProposals : k = x.proposed + 1
    BY <1>1, <1>2, <1>11, Bounds DEF ProposePlan, ShiftLocals
  <2>2. PICK p \in PlanIds \ Departures : p = AgentPlan(k)
    BY <2>1, AgentPlansAreApart, Bounds
  <2>3. PICK q \in Proposals : AddPlan(p, q, x.observed, Unfenced)
    BY <1>1, <1>11, <2>1, <2>2 DEF ProposePlan
  <2>4. PICK y : y = [x EXCEPT !.proposed = k, !.view = revision]
    OBVIOUS
  <2>5. at[s] = "agent" /\ x.observed # Unread /\ Goes(s, "agent", y)
    BY <1>1, <1>2, <1>3, <1>11, <2>1, <2>4 DEF ProposePlan, Goes
  <2>6. /\ y \in ShiftLocals /\ y.view = revision /\ y.proposed = k /\ y.kind = x.kind
        /\ y.observed = x.observed /\ y.fence = x.fence /\ y.verdict = x.verdict
    <3>1. k \in 0..MaxProposals
      BY <2>1, Bounds
    <3> QED BY <1>4, <2>4, <3>1 DEF ShiftLocals
  <2>7. ShiftOK("agent", y)'
    <3>1. y.view <= revision /\ (y.observed # Unread => y.observed <= revision) /\ y.observed # Unread
      BY <1>2, <1>4, <2>5, <2>6, Bounds DEF ShiftOK
    <3> QED BY <1>2, <1>3, <2>5, <2>6, <3>1 DEF ShiftOK, Stations, Deciding, Minted
  <2>8. ASSUME FirstOK("agent", x) PROVE FirstOK("agent", y)'
    <3>1. plans'[p].basis = x.observed
      BY <1>2, <2>3 DEF AddPlan, TypeOK
    <3>2. x.observed \in Nat /\ x.observed <= revision
      BY <1>2, <2>5, Bounds DEF ShiftOK, ShiftLocals
    <3>3. ProposalOK("agent", y)'
      BY <2>2, <2>6, <3>1, <3>2 DEF ProposalOK, Deciding
    <3>4. OnlyDeparturesStand'
      BY <1>3, <2>3, <2>8 DEF FirstOK, OnlyDeparturesStand, AddPlan, workerVars, Reported
    <3> QED BY <1>3, <2>6, <2>8, <3>3, <3>4 DEF FirstOK, ControlOK, Deciding
  <2> QED BY <1>2, <1>3, <1>4, <2>5, <2>7, <2>8, ShiftMoves
<1>12. CASE RejectProposal(s) \/ MarkProposal(s)
  <2>1. /\ at[s] \in {"reject", "mark"} /\ UNCHANGED committed
        /\ \E v : plans' = [plans EXCEPT ![LastPlan(s)].verdict = v]
    BY <1>12 DEF RejectProposal, MarkProposal, RejectPlan, MarkVerified
  <2>2. \A p \in PlanIds : plans'[p].basis = plans[p].basis /\ plans'[p].proposal = plans[p].proposal
    BY <1>2, <2>1 DEF TypeOK, Plan
  <2>3. CASE Decided(s, "rejected")
    BY <1>2, <1>3, <1>4, <2>3, DecidedInOrder, ShiftMoves
  <2>4. CASE MarkProposal(s) /\ To(s, "commit")
    <3>1. at[s] = "mark"
      BY <2>4 DEF MarkProposal
    <3>2. ShiftOK("commit", x) /\ (FirstOK("mark", x) => FirstOK("commit", x))
      BY <1>2, <3>1 DEF ShiftOK, Stations, Deciding, FirstOK, ProposalOK, ControlOK, Reported,
                        BeforeTheTruth
    <3>3. ShiftOK("commit", seen) /\ (Alone(s) => FirstOK("commit", seen))
      BY <1>2, <1>8, <1>9, <3>1, <3>2 DEF Stations
    <3>4. Goes(s, "commit", seen)
      BY <1>7, <2>4
    <3> QED BY <2>1, <2>2, <3>3, <3>4, CallsInOrder
  <2> QED BY <1>12, <2>3, <2>4 DEF RejectProposal, MarkProposal
<1>13. CASE CommitProposal(s)
  <2>1. PICK v \in {"accepted", "rejected"} :
          Decided(s, v) /\ (v = "accepted" => Committable(LastPlan(s)))
    BY <1>13 DEF CommitProposal
  <2>2. ASSUME Alone(s), x.kind = "control" PROVE v # "accepted"
    <3>1. plans[LastPlan(s)].basis < revision
      BY <1>1, <1>2, <1>13, <2>2 DEF CommitProposal, FirstOK, ControlOK, Deciding, LastPlan
    <3>2. plans[LastPlan(s)].basis # revision
      BY <1>4, <3>1, Bounds
    <3> QED BY <2>1, <3>2 DEF Committable, BoundToWorld, WorldStandsAt
  <2> QED BY <1>1, <1>2, <1>3, <1>4, <2>1, <2>2, DecidedInOrder, ShiftMoves
<1> QED BY <1>10, <1>11, <1>12, <1>13 DEF ShiftCalls

\* The control's truth lands after what was proposed, or is taken up again.
LEMMA TruthStep ==
  ASSUME ShiftInv, NEW s \in Shifts, LandTruth(s)
  PROVE  ShiftInv' /\ [StoreNext]_storeVars
<1>1. PICK x \in ShiftLocals : x = shift[s]
  BY DEF ShiftInv
<1>2. /\ TypeOK /\ UnseenIsUntried /\ PlansAreNamed /\ ShiftOK("advance", x) /\ at[s] = "advance"
      /\ Alone(s) => FirstOK("advance", x)
      /\ at \in [Shifts -> Stations] /\ shift \in [Shifts -> ShiftLocals]
      /\ launched \in BOOLEAN /\ HistoryOK
  BY <1>1 DEF ShiftInv, MembraneInv, MembraneTypeOK, HistoryOK, LandTruth
<1>3. /\ AbsorbEvent(ControlEvent) \/ ResumeEvent(ControlEvent)
      /\ UNCHANGED <<workerVars, launched, plans, committed>>
  BY DEF LandTruth, AbsorbEvent, ResumeEvent
<1>4. [StoreNext]_storeVars
  BY <1>3, Bounds DEF StoreNext, World
<1>5. TypeOK' /\ revision <= revision' /\ revision \in Nat /\ revision' \in 0..MaxRevision
  BY <1>2, <1>4, AttemptsGrow, Bounds DEF TypeOK
<1>6. ledger'[ControlEvent].attempt \in 1..MaxAttempt
  BY <1>2, <1>3, <1>5, Bounds, BoundAssumption
     DEF AbsorbEvent, ResumeEvent, TypeOK, LedgerEntry, UnseenIsUntried
<1>7. PICK f \in Fences : /\ f = [event |-> ControlEvent, attempt |-> ledger'[ControlEvent].attempt]
                          /\ f.event = ControlEvent /\ f.attempt = ledger'[ControlEvent].attempt
  <2>1. [event |-> ControlEvent, attempt |-> ledger'[ControlEvent].attempt] \in Fences
    BY <1>6, Bounds DEF Fences
  <2> QED BY <2>1
<1>8. PICK y : y = [x EXCEPT !.view = revision', !.forecast = ControlForecast, !.fence = f]
  OBVIOUS
<1>9. Goes(s, "fetch", y)
  BY <1>1, <1>2, <1>3, <1>7, <1>8 DEF LandTruth, Goes
<1>10. /\ y \in ShiftLocals /\ y.view = revision' /\ y.kind = x.kind /\ y.observed = x.observed
       /\ y.proposed = x.proposed /\ y.fence = f /\ y.verdict = x.verdict
  BY <1>5, <1>8, Bounds DEF ShiftLocals
<1>11. HistoryOK'
  <2>1. ledger'[ControlEvent].revision \in 0..MaxRevision
    BY <1>5, Bounds DEF TypeOK, LedgerEntry
  <2> QED BY <1>2, <2>1, Bounds, LearnsOK DEF LandTruth
<1>12. PlansAreNamed'
  BY <1>2, <1>3 DEF PlansAreNamed, NamedIn, Known
<1>13. x.proposed > 0 /\ x.observed # Unread /\ x.observed <= revision /\ x.view <= revision
       /\ x.observed \in Nat /\ x.view \in Nat
  BY <1>2, Bounds DEF ShiftOK, ShiftLocals
<1>14. ShiftOK("fetch", y)'
  <2>1. Minted(f)'
    BY <1>6, <1>7 DEF Minted
  <2>2. y.view <= revision' /\ y.observed <= revision'
    BY <1>5, <1>10, <1>13, Bounds
  <2> QED BY <1>10, <1>13, <2>1, <2>2 DEF ShiftOK, Stations, Deciding
<1>15. ASSUME Alone(s) PROVE FirstOK("fetch", y)'
  <2>1. OnlyDeparturesStand /\ ProposalOK("advance", x) /\ (x.kind = "control" => ControlOK("advance", x))
    BY <1>2, <1>15 DEF FirstOK, Reported
  <2>2. OnlyDeparturesStand'
    BY <1>3, <2>1 DEF OnlyDeparturesStand, workerVars
  <2>3. PICK p \in PlanIds : p = AgentPlan(x.proposed)
    BY <1>13, AgentPlansAreApart DEF ShiftLocals
  <2>4. /\ plans'[p] = plans[p] /\ plans[p].basis \in Nat
        /\ plans[p].basis <= x.observed /\ plans[p].basis <= revision
    <3>1. plans[p].basis \in Nat /\ plans[p].basis <= x.observed
      BY <1>2, <1>13, <2>1, <2>3, Bounds DEF TypeOK, Plan, ProposalOK
    <3> QED BY <1>3, <1>5, <1>13, <3>1
  <2>5. ProposalOK("fetch", y)'
    <3>1. plans[p].basis <= revision'
      BY <1>5, <2>4, Bounds
    <3> QED BY <1>10, <2>3, <2>4, <3>1 DEF ProposalOK, Deciding
  <2>6. ASSUME x.kind = "control" PROVE ControlOK("fetch", y)'
    <3>1. x.verdict # "accepted" /\ ledger[ControlEvent].stage = "unseen"
      BY <2>1, <2>6 DEF ControlOK, BeforeTheTruth
    <3>2. revision' = revision + 1
      BY <1>3, <3>1 DEF AbsorbEvent, ResumeEvent
    <3>3. plans'[p].basis < revision'
      BY <1>5, <2>4, <3>2
    <3> QED BY <1>10, <2>3, <3>1, <3>3 DEF ControlOK, BeforeTheTruth
  <2> QED BY <1>10, <2>2, <2>5, <2>6 DEF FirstOK
<1> QED BY <1>3, <1>4, <1>9, <1>11, <1>12, <1>14, <1>15, <1>2, ShiftMoves

\* complete_event for the control, by whoever holds its attempt.
LEMMA CompletionStep ==
  ASSUME ShiftInv, NEW s \in Shifts, CompleteControl(s), ~UNCHANGED storeVars
  PROVE  ShiftInv' /\ [StoreNext]_storeVars
<1>1. PICK x \in ShiftLocals : x = shift[s]
  BY DEF ShiftInv
<1>2. /\ TypeOK /\ UnseenIsUntried /\ PlansAreNamed /\ ShiftOK("complete", x) /\ at[s] = "complete"
      /\ Alone(s) => FirstOK("complete", x)
      /\ launched \in BOOLEAN /\ HistoryOK
  BY <1>1 DEF ShiftInv, MembraneInv, MembraneTypeOK, HistoryOK, CompleteControl
<1>3. /\ CompleteEvent(ControlEvent, x.fence) /\ UNCHANGED <<workerVars, launched, truth>>
      /\ concluded' = x.forecast /\ HistoryOK'
  BY <1>1, <1>2 DEF CompleteControl, HistoryOK, ShiftLocals
<1>4. [StoreNext]_storeVars
  BY <1>2, <1>3, Bounds DEF ShiftOK, ShiftLocals, StoreNext, Call
<1>5. PlansAreNamed'
  BY <1>2, <1>3 DEF CompleteEvent, PlansAreNamed, NamedIn, Known
<1>6. PICK y \in ShiftLocals :
        Goes(s, "over", y) /\ y.kind = x.kind /\ y.verdict = x.verdict /\ ShiftOK("over", y)
  <2>1. Ends(s, x.verdict) /\ x.verdict \in Verdict
    BY <1>1 DEF CompleteControl, ShiftLocals
  <2> QED BY <1>1, <1>3, <2>1, EndsInOrder
<1>7. ShiftOK("over", y)'
  BY <1>2, <1>4, <1>6, AttemptsGrow, ShiftFrame
<1>8. Alone(s) => FirstOK("over", y)'
  BY <1>2, <1>6 DEF FirstOK, ControlOK, Reported, Deciding, BeforeTheTruth
<1> QED BY <1>2, <1>3, <1>4, <1>5, <1>6, <1>7, <1>8, ShiftMoves

LEMMA ShiftKeeps ==
  ASSUME ShiftInv, [ShiftNext]_allVars
  PROVE  ShiftInv' /\ [StoreNext]_storeVars
<1>1. ASSUME NEW s \in Shifts, ShiftStep(s) PROVE ShiftInv' /\ [StoreNext]_storeVars
  <2>1. Quiet(s) \/ ShiftCalls(s) \/ LandTruth(s) \/ (CompleteControl(s) /\ ~UNCHANGED storeVars)
    BY <1>1 DEF ShiftStep, Toolkit, Decision, Quiet, ShiftCalls
  <2> QED BY <2>1, QuietStep, CallStep, ShiftCallIsACall, TruthStep, CompletionStep
<1>2. CASE Around
  <2>1. MembraneInv
    BY DEF ShiftInv
  <2> QED BY <1>2, <2>1, AroundStep, AroundIsMembrane, MembraneStep
<1>3. CASE UNCHANGED allVars
  <2>1. UNCHANGED <<vars, at, shift>>
    BY <1>3 DEF allVars
  <2>2. MembraneInv' /\ UNCHANGED storeVars
    BY <2>1, MembraneStep DEF vars, ShiftInv
  <2>3. NobodyElseDelivers'
    BY <2>1 DEF ShiftInv, NobodyElseDelivers, vars, workerVars
  <2>4. ASSUME NEW s \in Shifts
        PROVE  ShiftOK(at[s], shift[s])' /\ (Alone(s) => FirstOK(at[s], shift[s]))'
    BY <2>1 DEF ShiftInv, ShiftOK, Minted, Alone, FirstOK, OnlyDeparturesStand, ProposalOK,
                ControlOK, vars, storeVars, workerVars
  <2> QED BY <2>1, <2>2, <2>3, <2>4 DEF ShiftInv
<1> QED BY <1>1, <1>2, <1>3 DEF ShiftNext

-----------------------------------------------------------------------------
(* What holds of every shift *)

\* A shift's locals and its toolkit's stay in range, whatever the model calls and
\* whatever happens around it (app/agents/tools.py, app/agents/probe.py).
THEOREM ShiftTyped == ShiftSpec => []ShiftTypeOK
<1>1. ShiftInv /\ [ShiftNext]_allVars => ShiftInv'
  BY ShiftKeeps
<1>2. ShiftInv => ShiftTypeOK
  BY DEF ShiftInv, MembraneInv, ShiftTypeOK, ShiftLocals
<1> QED BY ShiftOpens, <1>1, <1>2, PTL DEF ShiftSpec

\* A model is a client of the store like every other: its tools hold no fence but
\* one the store minted and bind proposals to revisions that were reached, so what
\* StateStoreProofs proves of the store holds with a model at work
\* (app/agents/tools.py:8).
THEOREM ShiftUsesTheStore == ShiftSpec => MembraneUsesTheStore
<1>1. ShiftInit => StoreInit
  BY DEF ShiftInit, MembraneInit
<1>2. ShiftInv /\ [ShiftNext]_allVars => ShiftInv' /\ [StoreNext]_storeVars
  BY ShiftKeeps
<1> QED BY ShiftOpens, <1>1, <1>2, PTL DEF ShiftSpec, MembraneUsesTheStore, StoreSpec

\* On the first shift of a run, truth that lands after the proposal leaves it stale
\* for good: the control is refused whatever else lands, and by whatever
\* interleaving (probe.py, case_refuse).
THEOREM ControlIsAlwaysRefused == ShiftSpec => []ControlIsRefused
<1>1. ShiftInv /\ [ShiftNext]_allVars => ShiftInv'
  BY ShiftKeeps
<1>2. ShiftInv => ControlIsRefused
  BY DEF ShiftInv, ControlIsRefused, FirstOK, ControlOK
<1> QED BY ShiftOpens, <1>1, <1>2, PTL DEF ShiftSpec

\* The shift whose locals change is the one that steps.
LEMMA WhoSteps ==
  ASSUME ShiftInv, [ShiftNext]_allVars, NEW s \in Shifts,
         at'[s] # at[s] \/ shift'[s] # shift[s]
  PROVE  ShiftStep(s)
<1>1. at \in [Shifts -> Stations] /\ shift \in [Shifts -> ShiftLocals]
  BY DEF ShiftInv
<1>2. ASSUME NEW t \in Shifts, ShiftStep(t), t # s PROVE FALSE
  <2>1. \E st, x : at' = [at EXCEPT ![t] = st] /\ shift' = [shift EXCEPT ![t] = x]
    <3>1. shift' = shift => shift' = [shift EXCEPT ![t] = shift[t]]
      BY <1>1
    <3>2. at' = at => at' = [at EXCEPT ![t] = at[t]]
      BY <1>1
    <3>3. \A st, v : /\ Move(t, st) => at' = [at EXCEPT ![t] = st] /\ shift' = shift
                     /\ To(t, st) \/ Ends(t, v) \/ Decided(t, v) =>
                          \E su, x : at' = [at EXCEPT ![t] = su] /\ shift' = [shift EXCEPT ![t] = x]
      BY DEF Move, To, Ends, Decided
    <3>4. \A again, onward : Seeded(t, again, onward) =>
            \E su, x : at' = [at EXCEPT ![t] = su] /\ shift' = [shift EXCEPT ![t] = x]
      BY DEF Seeded
    <3>5. Open(t) \/ OpenWork(t) \/ ClaimForOthers(t) \/ Concludes(t) \/ Scrutinise(t)
            \/ RejectProposal(t) \/ MarkProposal(t) \/ CommitProposal(t) \/ CompleteControl(t)
            \/ Raises(t) \/ ClaimWork(t)
          => \E su, x : at' = [at EXCEPT ![t] = su] /\ shift' = [shift EXCEPT ![t] = x]
      BY <3>1, <3>3, <3>4
         DEF Open, OpenWork, ClaimForOthers, Concludes, Scrutinise, RejectProposal, MarkProposal,
             CommitProposal, CompleteControl, Raises, ClaimWork
    <3>6. ReadFacts(t) \/ ProposePlan(t) \/ LandTruth(t) \/ Fetch(t)
          => \E su, x : at' = [at EXCEPT ![t] = su] /\ shift' = [shift EXCEPT ![t] = x]
      BY <3>2 DEF ReadFacts, ProposePlan, LandTruth, Fetch
    <3> QED BY <1>2, <3>5, <3>6 DEF ShiftStep, Toolkit, Decision
  <2> QED BY <1>1, <1>2, <2>1
<1>3. ~(UNCHANGED shiftVars) /\ ~(UNCHANGED allVars)
  BY DEF shiftVars, allVars
<1> QED BY <1>2, <1>3 DEF ShiftNext, Around

\* The first shift of a run commits only in the world its author had read: what
\* was read is not newer than the proposal's basis, and a proposal commits only
\* in the world it is bound to (tools.py, _observed_revision).
THEOREM AgentCommitsWhatItRead == ShiftSpec => AgentCommitsInTheWorldItRead
<1>1. ASSUME ShiftInv, [ShiftNext]_allVars, NEW s \in Shifts,
             Alone(s), at[s] = "commit", at'[s] # "commit", committed' # committed
      PROVE  shift[s].observed = revision
  <2>1. PICK x \in ShiftLocals : x = shift[s]
    BY <1>1 DEF ShiftInv
  <2>2. /\ TypeOK /\ ShiftOK("commit", x) /\ ProposalOK("commit", x)
    BY <1>1, <2>1 DEF ShiftInv, MembraneInv, MembraneTypeOK, FirstOK, Reported
  <2>3. ShiftStep(s)
    BY <1>1, WhoSteps
  <2>4. CommitProposal(s)
    BY <1>1, <2>3 DEF ShiftStep, Toolkit, Decision, Open, OpenWork, ClaimForOthers, ClaimWork, ReadFacts,
       ProposePlan, Concludes, LandTruth, Fetch, Scrutinise, RejectProposal, MarkProposal,
       CompleteControl, Raises, storeVars
  <2>5. PICK p \in PlanIds : p = AgentPlan(x.proposed)
    BY <2>2, AgentPlansAreApart DEF ShiftOK, Deciding, ShiftLocals
  <2>6. plans[p].basis = revision
    BY <1>1, <2>1, <2>4, <2>5
       DEF CommitProposal, CommitPlan, LastPlan, Committable, BoundToWorld, WorldStandsAt
  <2>7. /\ x.proposed > 0 /\ x.observed \in Nat /\ x.observed <= revision /\ revision \in Nat
        /\ plans[p].basis <= x.observed
    BY <2>2, <2>5, Bounds DEF ShiftOK, Deciding, ShiftLocals, TypeOK, ProposalOK
  <2> QED BY <2>1, <2>6, <2>7
<1>2. ShiftInv /\ [ShiftNext]_allVars => ShiftInv'
  BY ShiftKeeps
<1>3. ShiftInv /\ [ShiftNext]_allVars =>
        [\A s \in Shifts :
           Alone(s) /\ at[s] = "commit" /\ at'[s] # "commit" /\ committed' # committed =>
             shift[s].observed = revision]_allVars
  BY <1>1
<1> QED BY ShiftOpens, <1>2, <1>3, PTL DEF ShiftSpec, AgentCommitsInTheWorldItRead

\* The strongest move of the first model on a run is a candidate: no tool touches
\* the commitment or the plan that stands, for their ids are apart (tools.py:8).
THEOREM ProposingChangesNothing == ShiftSpec => ProposingLeavesTheCommitment
<1>1. ASSUME ShiftInv, [ShiftNext]_allVars, NEW s \in Shifts,
             Alone(s), at[s] = "agent", shift'[s] # shift[s]
      PROVE  /\ committed' = committed
             /\ committed # NoPlan => plans'[committed] = plans[committed]
  <2>1. PICK x \in ShiftLocals : x = shift[s]
    BY <1>1 DEF ShiftInv
  <2>2. TypeOK /\ OnlyDeparturesStand
    BY <1>1 DEF ShiftInv, MembraneInv, MembraneTypeOK, FirstOK, Reported
  <2>3. ClaimWork(s) \/ ReadFacts(s) \/ ProposePlan(s) \/ Concludes(s) \/ Raises(s)
    BY <1>1, WhoSteps DEF ShiftStep, Toolkit, Decision, Open, OpenWork, ClaimForOthers, LandTruth,
       Fetch, Scrutinise, RejectProposal, MarkProposal, CommitProposal, CompleteControl
  <2>4. CASE ClaimWork(s) \/ ReadFacts(s) \/ Concludes(s) \/ Raises(s)
    BY <2>4 DEF ClaimWork, Claim, ReadFacts, Concludes, Raises, storeVars
  <2>5. CASE ProposePlan(s)
    <3>1. PICK k \in 1..MaxProposals : k = x.proposed + 1
      <4>1. x.proposed \in 0..MaxProposals
        BY DEF ShiftLocals
      <4>2. x.proposed < MaxProposals
        BY <2>1, <2>5 DEF ProposePlan
      <4> QED BY <4>1, <4>2, Bounds
    <3>2. PICK p \in PlanIds \ Departures : p = AgentPlan(k) /\ p \notin Standing
      BY <3>1, AgentPlansAreApart, Bounds
    <3>3. PICK q \in Proposals : AddPlan(p, q, x.observed, Unfenced)
      BY <2>1, <2>5, <3>1, <3>2 DEF ProposePlan
    <3> QED BY <2>2, <3>2, <3>3 DEF AddPlan, OnlyDeparturesStand, TypeOK
  <2> QED BY <2>3, <2>4, <2>5
<1>2. ShiftInv /\ [ShiftNext]_allVars => ShiftInv'
  BY ShiftKeeps
<1>3. ShiftInv /\ [ShiftNext]_allVars =>
        [\A s \in Shifts :
           Alone(s) /\ at[s] = "agent" /\ shift'[s] # shift[s] =>
             /\ committed' = committed
             /\ committed # NoPlan => plans'[committed] = plans[committed]]_allVars
  BY <1>1
<1> QED BY ShiftOpens, <1>2, <1>3, PTL DEF ShiftSpec, ProposingLeavesTheCommitment

\* Only commit_plan makes a shift's proposal the commitment.
LEMMA ShiftCommits ==
  ASSUME NEW s \in Shifts, ShiftStep(s), committed' # committed
  PROVE  CommitProposal(s)
BY DEF ShiftStep, Toolkit, Decision, Open, OpenWork, ClaimForOthers, ClaimWork, ReadFacts,
       ProposePlan, Concludes, LandTruth, Fetch, Scrutinise, RejectProposal, MarkProposal,
       CompleteControl, Raises, CreateWork, Claim, AddPlan, AbsorbEvent, ResumeEvent, RejectPlan,
       MarkVerified, CompleteEvent, storeVars

\* Whoever commits has seen that very proposal pass under the forecast it carries,
\* with models and workers on the same run (verify.py:14).
THEOREM EveryCommitHasAPass == ShiftSpec => EveryCommitCarriesAPass
<1> DEFINE Passed ==
      \/ \E w \in Workers :
           /\ pc[w] = "commit" /\ pc'[w] = "complete"
           /\ worker[w].n = committed'
           /\ Feasible(Forecast(w), plans[committed'].proposal)
      \/ \E s \in Shifts :
           /\ at[s] = "commit" /\ at'[s] # "commit"
           /\ Alone(s) => Feasible(shift[s].forecast, plans[committed'].proposal)
<1>1. ASSUME ShiftInv, NEW s \in Shifts, ShiftStep(s), committed' \notin {committed, NoPlan}
      PROVE  Passed
  <2>1. PICK x \in ShiftLocals : x = shift[s]
    BY <1>1 DEF ShiftInv
  <2>2. CommitProposal(s)
    BY <1>1, ShiftCommits
  <2>3. /\ at[s] = "commit" /\ ShiftOK("commit", x) /\ (Alone(s) => ProposalOK("commit", x))
        /\ at \in [Shifts -> Stations] /\ committed' = AgentPlan(x.proposed)
    BY <1>1, <2>1, <2>2
       DEF ShiftInv, FirstOK, Reported, CommitProposal, CommitPlan, LastPlan
  <2>4. at'[s] # "commit"
    <3>1. \A v : Decided(s, v) => \E st \in {"complete", "over"} : at' = [at EXCEPT ![s] = st]
      BY DEF Decided, Ends
    <3> QED BY <2>2, <2>3, <3>1 DEF CommitProposal
  <2>5. Alone(s) => Feasible(x.forecast, plans[AgentPlan(x.proposed)].proposal)
    BY <2>3 DEF ShiftOK, ProposalOK, Deciding
  <2> QED BY <2>1, <2>3, <2>4, <2>5
<1>2. ASSUME ShiftInv, Around, committed' \notin {committed, NoPlan}
      PROVE  Passed
  BY <1>2, AroundIsMembrane, CommitHasItsPass DEF ShiftInv
<1>3. ShiftInv /\ [ShiftNext]_allVars => ShiftInv'
  BY ShiftKeeps
<1>4. ShiftInv /\ [ShiftNext]_allVars => [committed' \notin {committed, NoPlan} => Passed]_allVars
  <2> HIDE DEF Passed
  <2> QED BY <1>1, <1>2 DEF ShiftNext
<1> QED BY ShiftOpens, <1>3, <1>4, PTL DEF ShiftSpec, EveryCommitCarriesAPass

\* Where every work item has one actor's name on it, planners, seedings and models
\* only ever claim it in that name, so no planning is aborted by a refused claim
\* (harborwindow.py:161; probe.py seeds before its model acts).
THEOREM PlanningIsNeverRefused ==
  ASSUME OneNamePerItem
  PROVE  ShiftSpec => []PlanningIsNeverTurnedAway
<1>1. ShiftInit => ItemsAreKept
  BY AgendaItems DEF ShiftInit, MembraneInit, StoreInit, ItemsAreKept, KeptBy
<1>2. ASSUME ShiftInv, ItemsAreKept, [ShiftNext]_allVars
      PROVE  ItemsAreKept'
  <2>1. TypeOK /\ MembraneInv /\ NobodyElseDelivers
    BY <1>2 DEF ShiftInv, MembraneInv, MembraneTypeOK
  <2>2. ASSUME UNCHANGED work PROVE ItemsAreKept'
    BY <1>2, <2>2 DEF ItemsAreKept, KeptBy
  <2>3. ASSUME NEW s \in Shifts, OpenWork(s) \/ ClaimForOthers(s) PROVE ItemsAreKept'
    <3>1. shift[s].n \in 1..Len(Agenda)
      BY <1>2 DEF ShiftInv, ShiftLocals
    <3>2. UNCHANGED work \/ \/ CreateWork(Agenda[shift[s].n], Unfenced)
                            \/ Claim(Agenda[shift[s].n], Crew[shift[s].n], Unfenced)
      BY <2>3 DEF OpenWork, ClaimForOthers, storeVars
    <3> QED BY <1>2, <2>1, <2>2, <3>1, <3>2, SeedingKeepsItems
  <2>4. ASSUME NEW s \in Shifts, ClaimWork(s) PROVE ItemsAreKept'
    <3>1. PICK k \in 1..Len(Agenda) : Crew[k] = Agent /\ Claim(Agenda[k], Agent, Unfenced)
      BY <2>4 DEF ClaimWork, Scope
    <3> QED BY <1>2, <2>1, <3>1, SeedingKeepsItems
  <2>5. ASSUME NEW s \in Shifts, ShiftStep(s), ~(OpenWork(s) \/ ClaimForOthers(s) \/ ClaimWork(s))
        PROVE  UNCHANGED work
    BY <2>5 DEF ShiftStep, Toolkit, Decision, Open, ReadFacts, ProposePlan, Concludes, LandTruth, Fetch,
       Scrutinise, RejectProposal, MarkProposal, CommitProposal, CompleteControl, Raises, AddPlan,
       AbsorbEvent, ResumeEvent, RejectPlan, MarkVerified, CommitPlan, CompleteEvent, storeVars
  <2>6. CASE Around
    BY <1>2, <2>1, <2>6, AroundTouches
  <2>7. CASE UNCHANGED allVars
    BY <2>2, <2>7 DEF allVars, vars, storeVars
  <2> QED BY <1>2, <2>2, <2>3, <2>4, <2>5, <2>6, <2>7 DEF ShiftNext
<1>3. ItemsAreKept => PlanningIsNeverTurnedAway
  BY DEF ItemsAreKept, KeptBy, PlanningIsNeverTurnedAway, Created, Claimable
<1>4. ShiftInv /\ [ShiftNext]_allVars => ShiftInv'
  BY ShiftKeeps
<1> QED BY ShiftOpens, <1>1, <1>2, <1>3, <1>4, PTL DEF ShiftSpec
=============================================================================
