--------------------------- MODULE MembraneProofs ---------------------------
(***************************************************************************)
(* The membrane for any number of workers, events, departures, forecasts   *)
(* and work items, whatever traffic is admitted and whatever breaks:       *)
(* workers use the store only as its specification allows, a commit        *)
(* carries the committing worker's own pass, only a present verdict        *)
(* withdraws, and a living attempt is never pushed out by another worker.  *)
(*                                                                         *)
(* What depends on how events arrive (SettledIsHonest and its kin) is in   *)
(* SerialProofs: it holds only under Traffic = "one_at_a_time".            *)
(***************************************************************************)
EXTENDS Membrane, StateStoreProofs

Locals == [event : Events \cup {NoEvent}, fence : Fences,
           moved : 0..MaxRevision, forecast : Forecasts \cup {NoForecast},
           plan : PlanIds \cup {NoPlan}, rev : 0..MaxRevision,
           n : (0..Candidates) \cup (1..Len(Agenda)), basis : 0..MaxRevision, ending : Endings]

Seeding == {"create", "claim"}
Planning == {"propose", "fetch", "weigh", "reject", "mark", "commit"}
Judging == {"observe", "judge", "revoke", "rebind", "revoke_stale"}

\* What a worker at step s may carry in its locals x.
LocalOK(s, x) ==
  /\ s \in Steps /\ x \in Locals
  /\ s \in Seeding => x.n \in 1..Len(Agenda)
  /\ s \in Planning => x.n \in 1..Candidates
  /\ s \in Judging => x.plan \in PlanIds
  /\ x.rev <= revision
  /\ Minted(x.fence)
  /\ x.fence # Unfenced => x.fence.event = x.event
  /\ x.event # NoEvent /\ s \notin {"idle", "advance", "done"} => x.fence # Unfenced
  /\ s = "advance" => x.forecast \in Forecasts
  /\ s \in {"mark", "commit"} => Feasible(x.forecast, x.n)

\* What was fetched, and for which revision.
HistoryOK ==
  truth \in [0..MaxRevision -> SUBSET Forecasts] /\ concluded \in Forecasts \cup {NoForecast}

\* No two workers hold the same attempt.
FencesAreOwn ==
  \A v, w \in Workers : v # w /\ Fence(v) # Unfenced => Fence(v) # Fence(w)

NamedIn(ids) == \A p \in ids : Known(p) => plans[p].proposal = p

\* Both scenarios name a plan after its departure; what is committed was added.
PlansAreNamed ==
  /\ NamedIn(1..Candidates)
  /\ committed # NoPlan => Known(committed)

MembraneInv ==
  /\ MembraneTypeOK
  /\ \A w \in Workers : LocalOK(pc[w], worker[w])
  /\ FencesAreOwn /\ PlansAreNamed /\ UnseenIsUntried

LEMMA LearnsOK ==
  ASSUME HistoryOK, NEW r \in 0..MaxRevision, NEW x \in Forecasts, Learns(r, x)
  PROVE  HistoryOK'
BY DEF HistoryOK, Learns

\* What a worker plans on is a forecast.
LEMMA AnswersAreForecasts ==
  ASSUME NEW w \in Workers, worker[w] \in Locals
  PROVE  Answers(w) \subseteq Forecasts
BY ForecastAssumption DEF Answers, Forecast, Locals

LEMMA AgendaItems ==
  /\ Len(Agenda) \in Nat \ {0} /\ Candidates \in Nat \ {0}
  /\ \A k \in 1..Len(Agenda) : Agenda[k] \in WorkItems /\ Crew[k] \in Actors
BY AgendaAssumption, CandidatesAssumption

\* Looking at the world and counting on keep a worker's locals in range.
LEMMA LooksAround ==
  ASSUME NEW x \in Locals, NEW r \in 0..MaxRevision
  PROVE  LET y == [x EXCEPT !.rev = r]
         IN y \in Locals /\ y.rev = r /\ y.fence = x.fence /\ y.event = x.event /\ y.plan = x.plan
BY DEF Locals

LEMMA CountsOn ==
  ASSUME NEW x \in Locals, NEW k \in (0..Candidates) \cup (1..Len(Agenda))
  PROVE  LET y == [x EXCEPT !.n = k]
         IN /\ y \in Locals /\ y.n = k /\ y.fence = x.fence /\ y.event = x.event
            /\ y.rev = x.rev /\ y.plan = x.plan /\ y.forecast = x.forecast /\ y.moved = x.moved
BY DEF Locals

\* What was in order stays in order while the world moves on.
LEMMA LocalFrame ==
  ASSUME NEW s, NEW x, LocalOK(s, x), TypeOK, TypeOK', revision <= revision',
         \A e \in Events : ledger[e].attempt <= ledger'[e].attempt
  PROVE  LocalOK(s, x)'
<1>1. x \in Locals /\ Minted(x.fence)
  BY DEF LocalOK
<1>2. x.rev <= revision'
  BY <1>1, BoundAssumption DEF LocalOK, TypeOK, Locals
<1>3. Minted(x.fence)'
  BY <1>1, BoundAssumption DEF Minted, TypeOK, LedgerEntry, Locals, Fences
<1> QED BY <1>1, <1>2, <1>3 DEF LocalOK

LEMMA IdleIsInOrder ==
  ASSUME TypeOK
  PROVE  LocalOK("idle", Idle)
BY BoundAssumption, AgendaItems, NoEventAssumption
   DEF LocalOK, Idle, Locals, Steps, Seeding, Planning, Judging, Endings, Minted, TypeOK, Fences

LEMMA MembraneOpens == MembraneInit => MembraneInv
<1> SUFFICES ASSUME MembraneInit PROVE MembraneInv
  OBVIOUS
<1>1. TypeOK
  BY BoundAssumption
  DEF MembraneInit, StoreInit, TypeOK, UnseenEntry, LedgerEntry, Stages, Pending, AbsentPlan, Plan, Verdicts
<1>2. \A w \in Workers : pc[w] = "idle" /\ worker[w] = Idle
  BY DEF MembraneInit
<1>3. \A w \in Workers : LocalOK(pc[w], worker[w])
  BY <1>1, <1>2, IdleIsInOrder
<1>4. HistoryOK
  BY DEF MembraneInit, HistoryOK
<1>5. MembraneTypeOK
  BY <1>1, <1>2, <1>3, <1>4 DEF MembraneInit, MembraneTypeOK, HistoryOK, LocalOK, Locals
<1>6. FencesAreOwn
  BY <1>2 DEF FencesAreOwn, Fence, Idle
<1>7. PlansAreNamed /\ UnseenIsUntried
  BY CandidatesAssumption
  DEF MembraneInit, StoreInit, PlansAreNamed, NamedIn, UnseenIsUntried, AbsentPlan, UnseenEntry, Known
<1> QED BY <1>3, <1>5, <1>6, <1>7 DEF MembraneInv

-----------------------------------------------------------------------------
(* One worker's steps *)

\* Nobody else's locals move, and w's own stay in order.
OnlyMoves(w) ==
  /\ \A v \in Workers \ {w} : pc'[v] = pc[v] /\ worker'[v] = worker[v]
  /\ pc' \in [Workers -> Steps] /\ worker' \in [Workers -> Locals]
  /\ LocalOK(pc[w], worker[w])'

LEMMA Moves ==
  ASSUME MembraneInv, NEW w \in Workers, NEW s, NEW x,
         pc' = [pc EXCEPT ![w] = s], worker' = [worker EXCEPT ![w] = x], LocalOK(s, x)'
  PROVE  OnlyMoves(w) /\ pc'[w] = s /\ worker'[w] = x
<1>1. pc \in [Workers -> Steps] /\ worker \in [Workers -> Locals]
  BY DEF MembraneInv, MembraneTypeOK, Locals
<1>2. s \in Steps /\ x \in Locals
  BY DEF LocalOK
<1>3. pc'[w] = s /\ worker'[w] = x
  BY <1>1
<1>4. pc' \in [Workers -> Steps] /\ worker' \in [Workers -> Locals]
  BY <1>1, <1>2
<1>5. \A v \in Workers \ {w} : pc'[v] = pc[v] /\ worker'[v] = worker[v]
  BY <1>1
<1> QED BY <1>3, <1>4, <1>5 DEF OnlyMoves

\* The steps that call nobody: reads of the state, verdicts, exceptions.
Internal(w) ==
  \/ StartRun(w) \/ Dismiss(w) \/ ReadCommitted(w) \/ Observe(w) \/ Judge(w)
  \/ ReadWorld(w) \/ FetchPlan(w) \/ Weigh(w) \/ Evicted(w) \/ Outlived(w)
  \/ Fails(w) \/ Breaks(w) \/ Dies(w) \/ Retire(w)
  \/ \E e \in Events \cup {NoEvent}, x \in Forecasts : Begin(w, e, x)

LEMMA InternalStep ==
  ASSUME MembraneInv, NEW w \in Workers, Internal(w)
  PROVE  /\ UNCHANGED storeVars /\ launched' \in BOOLEAN /\ HistoryOK'
         /\ OnlyMoves(w) /\ worker'[w].fence \in {worker[w].fence, Unfenced}
<1> DEFINE x == worker[w]
<1>0. /\ TypeOK /\ pc \in [Workers -> Steps] /\ worker \in [Workers -> Locals]
      /\ LocalOK(pc[w], x) /\ x \in Locals /\ launched \in BOOLEAN /\ HistoryOK
  BY DEF MembraneInv, MembraneTypeOK, HistoryOK, Locals
<1>1. UNCHANGED storeVars /\ launched' \in BOOLEAN /\ HistoryOK'
  <2>1. CASE ReadWorld(w)
    <3>1. PICK f \in Forecasts : Learns(x.moved, f)
      BY <1>0, <2>1, AnswersAreForecasts DEF ReadWorld
    <3>2. HistoryOK'
      BY <1>0, <3>1, LearnsOK DEF Locals
    <3> QED BY <1>0, <2>1, <3>2 DEF ReadWorld
  <2>2. CASE ~ReadWorld(w)
    <3>1. UNCHANGED <<storeVars, history>> /\ launched' \in BOOLEAN
      BY <1>0, <2>2 DEF Internal, StartRun, Dismiss, ReadCommitted, Observe, Judge, FetchPlan, Weigh,
             Evicted, Outlived, Fails, Breaks, Dies, Retire, Begin, LocalOnly
    <3> QED BY <1>0, <3>1 DEF HistoryOK, history
  <2> QED BY <2>1, <2>2
<1>2. UNCHANGED <<revision, ledger, plans, committed>> /\ TypeOK'
  BY <1>0, <1>1 DEF storeVars, TypeOK
<1> DEFINE Done(s, y) == /\ pc' = [pc EXCEPT ![w] = s] /\ worker' = [worker EXCEPT ![w] = y]
                         /\ LocalOK(s, y) /\ y.fence \in {x.fence, Unfenced}
<1>3. ASSUME NEW s, NEW y, Done(s, y)
      PROVE  OnlyMoves(w) /\ worker'[w].fence \in {x.fence, Unfenced}
  <2>1. LocalOK(s, y)'
    BY <1>2, <1>3, <1>0, LocalFrame, BoundAssumption DEF TypeOK, LedgerEntry
  <2>2. OnlyMoves(w) /\ worker'[w] = y
    BY <1>3, <2>1, Moves
  <2> QED BY <1>3, <2>2
<1>4. ASSUME NEW s \in Steps, pc' = [pc EXCEPT ![w] = s], UNCHANGED worker, LocalOK(s, x)
      PROVE  Done(s, x)
  BY <1>0, <1>4
<1>5. CASE StartRun(w)
  <2>1. LocalOK("run", Idle) /\ Idle.fence = Unfenced
    BY <1>0, IdleIsInOrder
       DEF LocalOK, Idle, Locals, Steps, ReadSteps, Seeding, Planning, Judging, Fences
  <2>2. Done("run", Idle)
    BY <1>5, <2>1 DEF StartRun
  <2> QED BY <1>1, <1>3, <2>2
<1>6. CASE \E e \in Events \cup {NoEvent}, f \in Forecasts : Begin(w, e, f)
  <2>1. PICK e \in Events \cup {NoEvent}, f \in Forecasts : Begin(w, e, f)
    BY <1>6
  <2> DEFINE y == [Idle EXCEPT !.event = e, !.forecast = f]
  <2>2. LocalOK("advance", y) /\ y.fence = Unfenced
    BY <1>0, IdleIsInOrder DEF LocalOK, Idle, Locals, Steps, ReadSteps, Seeding, Planning, Judging, Fences
  <2>3. Done("advance", y)
    BY <2>1, <2>2 DEF Begin
  <2> QED BY <1>1, <1>3, <2>3
<1>7. CASE Dies(w) \/ Retire(w)
  <2>1. LocalOK("idle", Idle) /\ Idle.fence = Unfenced
    BY <1>0, IdleIsInOrder DEF Idle
  <2>2. Done("idle", Idle)
    BY <1>7, <2>1 DEF Dies, Retire
  <2> QED BY <1>1, <1>3, <2>2
<1>8. CASE Dismiss(w) \/ Evicted(w) \/ Breaks(w)
  <2>1. PICK d \in Endings : pc' = [pc EXCEPT ![w] = "done"] /\ worker' = [worker EXCEPT ![w].ending = d]
    BY <1>8 DEF Dismiss, Evicted, Breaks, End, Endings
  <2> DEFINE y == [x EXCEPT !.ending = d]
  <2>2. LocalOK("done", y) /\ y.fence = x.fence
    BY <1>0 DEF LocalOK, Locals, Steps, FencedSteps, ReadSteps, Seeding, Planning, Judging
  <2>3. Done("done", y)
    BY <1>0, <2>1, <2>2
  <2> QED BY <1>1, <1>3, <2>3
<1>9. CASE Outlived(w) \/ Fails(w)
  <2>1. PICK d \in Endings : pc' = [pc EXCEPT ![w] = "abandon"] /\ worker' = [worker EXCEPT ![w].ending = d]
    BY <1>9 DEF Outlived, Fails, Endings
  <2> DEFINE y == [x EXCEPT !.ending = d]
  <2>2. pc[w] \notin {"idle", "advance", "done"}
    BY <1>9 DEF Outlived, Fails, FencedSteps, ReadSteps
  <2>3. LocalOK("abandon", y) /\ y.fence = x.fence
    BY <1>0, <2>2 DEF LocalOK, Locals, Steps, FencedSteps, ReadSteps, Seeding, Planning, Judging
  <2>4. Done("abandon", y)
    BY <1>0, <2>1, <2>3
  <2> QED BY <1>1, <1>3, <2>4
<1>10. CASE ReadCommitted(w)
  <2> DEFINE y == [x EXCEPT !.plan = committed]
             s == IF committed = NoPlan THEN "run" ELSE "observe"
  <2>1. LocalOK(s, y) /\ y.fence = x.fence
    BY <1>0, <1>10 DEF ReadCommitted, TypeOK, LocalOK, Locals, Steps, FencedSteps, ReadSteps,
                       Seeding, Planning, Judging
  <2>2. Done(s, y)
    BY <1>0, <1>10, <2>1 DEF ReadCommitted
  <2> QED BY <1>1, <1>3, <2>2
<1>11. CASE Observe(w)
  <2> DEFINE y == [x EXCEPT !.rev = revision]
  <2>1. /\ y \in Locals /\ y.rev <= revision /\ y.fence = x.fence
        /\ y.event = x.event /\ y.plan = x.plan
    BY <1>0, LooksAround, BoundAssumption DEF TypeOK
  <2>2. LocalOK("judge", y) /\ y.fence = x.fence
    <3> HIDE DEF y
    <3> QED BY <1>0, <1>11, <2>1
            DEF Observe, LocalOK, Steps, FencedSteps, ReadSteps, Seeding, Planning, Judging
  <2>3. Done("judge", y)
    BY <1>0, <1>11, <2>2 DEF Observe
  <2> QED BY <1>1, <1>3, <2>3
<1>12. CASE Judge(w)
  <2>1. PICK s \in {"rebind", "revoke"} : pc' = [pc EXCEPT ![w] = s] /\ UNCHANGED worker
    BY <1>12 DEF Judge, Goto
  <2>2. LocalOK(s, x)
    BY <1>0, <1>12, <2>1 DEF Judge, LocalOK, Steps, FencedSteps, ReadSteps, Seeding, Planning, Judging
  <2>3. Done(s, x)
    BY <1>0, <2>1, <2>2
  <2> QED BY <1>1, <1>3, <2>3
<1>13. CASE ReadWorld(w)
  <2>0. PICK f \in Forecasts : worker' = [worker EXCEPT ![w].rev = revision, ![w].n = 1, ![w].forecast = f]
    BY <1>0, <1>13, AnswersAreForecasts DEF ReadWorld
  <2> DEFINE y == [x EXCEPT !.rev = revision, !.n = 1, !.forecast = f]
  <2>1. revision \in 0..MaxRevision /\ 1 \in 1..Len(Agenda)
    BY <1>0, BoundAssumption, AgendaItems DEF TypeOK
  <2>2. /\ y \in Locals /\ y.rev = revision /\ y.fence = x.fence /\ y.event = x.event /\ y.n = 1
    BY <1>0, <2>1 DEF Locals
  <2>3. /\ y \in Locals /\ y.rev <= revision /\ y.fence = x.fence
        /\ y.event = x.event /\ y.n \in 1..Len(Agenda)
    BY <2>1, <2>2
  <2>4. LocalOK("create", y) /\ y.fence = x.fence
    <3> HIDE DEF y
    <3> QED BY <1>0, <1>13, <2>3
            DEF ReadWorld, LocalOK, Steps, FencedSteps, ReadSteps, Seeding, Planning, Judging
  <2>5. Done("create", y)
    BY <1>0, <1>13, <2>0, <2>4 DEF ReadWorld
  <2> QED BY <1>1, <1>3, <2>5
<1>14. CASE FetchPlan(w)
  <2> DEFINE y == [x EXCEPT !.basis = plans[x.n].basis]
  <2>1. x.n \in PlanIds
    BY <1>0, <1>14, CandidatesAssumption DEF FetchPlan, LocalOK, Planning
  <2>2. plans[x.n].basis \in 0..MaxRevision
    BY <1>0, <2>1 DEF TypeOK, Plan
  <2>3. LocalOK("weigh", y) /\ y.fence = x.fence
    BY <1>0, <1>14, <2>2
       DEF FetchPlan, LocalOK, Locals, Steps, FencedSteps, ReadSteps, Seeding, Planning, Judging
  <2>4. Done("weigh", y)
    BY <1>0, <1>14, <2>3 DEF FetchPlan
  <2> QED BY <1>1, <1>3, <2>4
<1>15. CASE Weigh(w)
  <2>1. PICK s \in {"mark", "reject"} : /\ pc' = [pc EXCEPT ![w] = s] /\ UNCHANGED worker
                                        /\ s = "mark" => Feasible(x.forecast, x.n)
    BY <1>15 DEF Weigh, Goto, Forecast
  <2>2. LocalOK(s, x)
    BY <1>0, <1>15, <2>1 DEF Weigh, LocalOK, Steps, FencedSteps, ReadSteps, Seeding, Planning, Judging
  <2>3. Done(s, x)
    BY <1>0, <2>1, <2>2
  <2> QED BY <1>1, <1>3, <2>3
<1> QED BY <1>5, <1>6, <1>7, <1>8, <1>9, <1>10, <1>11, <1>12, <1>13, <1>14, <1>15 DEF Internal

\* The store calls that leave the ledger alone.
Calls(w) ==
  \/ Revoke(w) \/ Rebind(w) \/ RevokeStale(w) \/ SeedCreate(w) \/ SeedClaim(w)
  \/ Propose(w) \/ Reject(w) \/ Mark(w) \/ Commit(w)

LEMMA CallIsACall ==
  ASSUME MembraneInv, NEW w \in Workers, Calls(w)
  PROVE  /\ Call(Fence(w)) /\ Fence(w) \in Fences /\ Minted(Fence(w))
         /\ UNCHANGED <<launched, history, revision, ledger>>
<1> DEFINE x == worker[w]
<1>0. /\ TypeOK /\ LocalOK(pc[w], x) /\ x \in Locals
  BY DEF MembraneInv, MembraneTypeOK, Locals
<1>1. Fence(w) \in Fences /\ Minted(Fence(w)) /\ x.rev \in 0..revision
  BY <1>0, BoundAssumption DEF LocalOK, Locals, Fence, TypeOK
<1>2. UNCHANGED <<launched, history, revision, ledger>>
  BY DEF Calls, StoreOnly, Revoke, Rebind, RevokeStale, SeedCreate, SeedClaim, Propose, Reject, Mark,
         Commit, RevokeIfRevisionCurrent, RebindPlan, RevokeIfStale, Withdraw, CreateWork, Claim,
         AddPlan, RejectPlan, MarkVerified, CommitPlan
<1>3. CASE Revoke(w) \/ Rebind(w) \/ RevokeStale(w)
  <2>1. x.plan \in PlanIds
    BY <1>0, <1>3 DEF Revoke, Rebind, RevokeStale, LocalOK, Judging
  <2>2. CommitmentCall(x.plan, Fence(w))
    BY <1>1, <1>3 DEF Revoke, Rebind, RevokeStale, CommitmentCall
  <2> QED BY <1>1, <1>2, <2>1, <2>2 DEF Call
<1>4. CASE SeedCreate(w) \/ SeedClaim(w)
  <2>1. x.n \in 1..Len(Agenda)
    BY <1>0, <1>4 DEF SeedCreate, SeedClaim, LocalOK, Seeding
  <2>2. Agenda[x.n] \in WorkItems /\ Crew[x.n] \in Actors
    BY <2>1, AgendaItems
  <2>3. WorkCall(Agenda[x.n], Fence(w))
    BY <1>4, <2>2 DEF SeedCreate, SeedClaim, WorkCall
  <2> QED BY <1>1, <1>2, <2>2, <2>3 DEF Call
<1>5. CASE Propose(w) \/ Reject(w) \/ Mark(w) \/ Commit(w)
  <2>1. x.n \in PlanIds /\ x.n \in Proposals
    BY <1>0, <1>5, CandidatesAssumption DEF Propose, Reject, Mark, Commit, LocalOK, Planning
  <2>2. PlanCall(x.n, Fence(w))
    BY <1>1, <1>5, <2>1 DEF Propose, Reject, Mark, Commit, PlanCall
  <2> QED BY <1>1, <1>2, <2>1, <2>2 DEF Call
<1> QED BY <1>3, <1>4, <1>5 DEF Calls

\* Plans keep their names, and the commitment stays one of them.
LEMMA CallKeepsNamed ==
  ASSUME MembraneInv, NEW w \in Workers, Calls(w), NEW ids \in SUBSET PlanIds, NamedIn(ids)
  PROVE  NamedIn(ids)' /\ (committed' # NoPlan => Known(committed)')
<1> DEFINE x == worker[w]
<1>0. /\ TypeOK /\ PlansAreNamed /\ LocalOK(pc[w], x)
  BY DEF MembraneInv, MembraneTypeOK
<1>1. CASE Revoke(w) \/ RevokeStale(w)
  <2>1. PICK c \in BOOLEAN : Withdraw(x.plan, Fence(w), c)
    BY <1>1 DEF Revoke, RevokeStale, RevokeIfRevisionCurrent, RevokeIfStale, WorldStandsAt, BoundToWorld
  <2>2. CASE committed = x.plan /\ c
    <3>1. x.plan \in PlanIds
      BY <1>0, <1>1 DEF Revoke, RevokeStale, LocalOK, Judging
    <3>2. plans' = [plans EXCEPT ![x.plan].verdict = "rejected"] /\ committed' = NoPlan
      BY <2>1, <2>2 DEF Withdraw
    <3>3. Known(x.plan)
      BY <1>0, <2>2, <3>1, NoPlanAssumption DEF NamedIn, PlansAreNamed
    <3> QED BY <1>0, <3>1, <3>2, <3>3 DEF NamedIn, PlansAreNamed, Known, TypeOK, Plan
  <2>3. CASE ~(committed = x.plan /\ c)
    BY <1>0, <2>1, <2>3 DEF Withdraw, NamedIn, PlansAreNamed, Known
  <2> QED BY <2>2, <2>3
<1>2. CASE Rebind(w)
  BY <1>0, <1>2 DEF Rebind, RebindPlan, NamedIn, PlansAreNamed, Known, TypeOK, Plan
<1>3. CASE SeedCreate(w) \/ SeedClaim(w)
  BY <1>0, <1>3 DEF SeedCreate, SeedClaim, CreateWork, Claim, NamedIn, PlansAreNamed, Known
<1>4. CASE Propose(w)
  BY <1>0, <1>4 DEF Propose, AddPlan, NamedIn, PlansAreNamed, Known, TypeOK, Plan
<1>5. CASE Reject(w) \/ Mark(w)
  <2>1. PICK v \in {"rejected", "verified"} :
          /\ Known(x.n) /\ plans' = [plans EXCEPT ![x.n].verdict = v] /\ UNCHANGED committed
    BY <1>5 DEF Reject, Mark, RejectPlan, MarkVerified
  <2> QED BY <1>0, <2>1 DEF NamedIn, PlansAreNamed, Known, TypeOK, Plan
<1>6. CASE Commit(w)
  BY <1>0, <1>6 DEF Commit, CommitPlan, NamedIn, PlansAreNamed, Known
<1> QED BY <1>1, <1>2, <1>3, <1>4, <1>5, <1>6 DEF Calls

LEMMA CallKeepsNames ==
  ASSUME MembraneInv, NEW w \in Workers, Calls(w)
  PROVE  PlansAreNamed'
BY CallKeepsNamed, CandidatesAssumption DEF MembraneInv, PlansAreNamed

\* After a call the worker goes on with locals in order.
LEMMA CallMoves ==
  ASSUME MembraneInv, NEW w \in Workers, Calls(w)
  PROVE  OnlyMoves(w) /\ worker'[w].fence = worker[w].fence
<1> DEFINE x == worker[w]
           At(s, y) == /\ pc' = [pc EXCEPT ![w] = s] /\ worker' = [worker EXCEPT ![w] = y]
                       /\ LocalOK(s, y) /\ y.fence = x.fence
<1>0. /\ TypeOK /\ pc \in [Workers -> Steps] /\ worker \in [Workers -> Locals]
      /\ LocalOK(pc[w], x) /\ x \in Locals
  BY DEF MembraneInv, MembraneTypeOK, Locals
<1>1. ASSUME NEW s, NEW y, At(s, y)
      PROVE  OnlyMoves(w) /\ worker'[w].fence = x.fence
  <2>1. UNCHANGED <<revision, ledger>> /\ Call(Fence(w)) /\ Fence(w) \in Fences /\ Minted(Fence(w))
    BY CallIsACall
  <2>2. TypeOK'
    BY <1>0, <2>1, StoreTypeStep DEF StoreNext
  <2>3. LocalOK(s, y)'
    BY <1>0, <1>1, <2>1, <2>2, LocalFrame, BoundAssumption DEF TypeOK, LedgerEntry
  <2>4. OnlyMoves(w) /\ worker'[w] = y
    BY <1>1, <2>3, Moves
  <2> QED BY <1>1, <2>4
<1>2. ASSUME NEW s \in Steps, Goto(w, s), LocalOK(s, x)
      PROVE  At(s, x)
  BY <1>0, <1>2 DEF Goto
<1>3. pc[w] \notin {"idle", "advance", "done"}
  BY DEF Calls, Revoke, Rebind, RevokeStale, SeedCreate, SeedClaim, Propose, Reject, Mark, Commit
<1>4. \A s \in {"run", "complete"} : s \in Steps /\ LocalOK(s, x)
  BY <1>0, <1>3 DEF LocalOK, Steps, FencedSteps, ReadSteps, Seeding, Planning, Judging
<1>5. CASE Revoke(w) \/ RevokeStale(w)
  BY <1>1, <1>2, <1>4, <1>5 DEF Revoke, RevokeStale
<1>6. CASE Rebind(w)
  <2>1. LocalOK("revoke_stale", x) /\ "revoke_stale" \in Steps
    BY <1>0, <1>6 DEF Rebind, LocalOK, Steps, FencedSteps, ReadSteps, Seeding, Planning, Judging
  <2> QED BY <1>1, <1>2, <1>4, <1>6, <2>1 DEF Rebind
<1>7. CASE SeedCreate(w) \/ SeedClaim(w)
  <2>1. \/ Goto(w, "complete")
        \/ \E s \in {"create", "claim", "propose"}, k \in (1..Len(Agenda)) \cup {1} :
             /\ s = "propose" => k = 1
             /\ pc' = [pc EXCEPT ![w] = s] /\ worker' = [worker EXCEPT ![w].n = k]
    <3>1. x.n \in 1..Len(Agenda)
      BY <1>0, <1>7 DEF SeedCreate, SeedClaim, LocalOK, Seeding
    <3>2. x.n < Len(Agenda) => x.n + 1 \in 1..Len(Agenda)
      BY <3>1, AgendaItems
    <3> QED BY <1>0, <1>7, <3>1, <3>2, AgendaItems DEF SeedCreate, SeedClaim, NextItem
  <2>2. CASE Goto(w, "complete")
    BY <1>1, <1>2, <1>4, <2>2
  <2>3. ASSUME NEW s \in {"create", "claim", "propose"}, NEW k \in (1..Len(Agenda)) \cup {1},
               s = "propose" => k = 1,
               pc' = [pc EXCEPT ![w] = s], worker' = [worker EXCEPT ![w].n = k]
        PROVE  OnlyMoves(w) /\ worker'[w].fence = x.fence
    <3> DEFINE y == [x EXCEPT !.n = k]
    <3>1. k \in 1..Len(Agenda) /\ (s = "propose" => k \in 1..Candidates)
      BY <2>3, AgendaItems
    <3>2. /\ y \in Locals /\ y.n = k /\ y.fence = x.fence /\ y.event = x.event /\ y.rev = x.rev
      BY <1>0, <3>1, CountsOn
    <3>3. LocalOK(s, y)
      <4> HIDE DEF y
      <4> QED BY <1>0, <1>3, <3>1, <3>2
              DEF LocalOK, Steps, FencedSteps, ReadSteps, Seeding, Planning, Judging
    <3>4. At(s, y)
      BY <1>0, <2>3, <3>2, <3>3
    <3> QED BY <1>1, <3>4
  <2> QED BY <2>1, <2>2, <2>3
<1>8. CASE Propose(w)
  <2>1. LocalOK("fetch", x) /\ "fetch" \in Steps
    BY <1>0, <1>8 DEF Propose, LocalOK, Steps, FencedSteps, ReadSteps, Seeding, Planning, Judging
  <2> QED BY <1>1, <1>2, <1>8, <2>1 DEF Propose
<1>9. ASSUME NextCandidate(w), pc[w] \in Planning
      PROVE  OnlyMoves(w) /\ worker'[w].fence = x.fence
  <2>1. x.n \in 1..Candidates
    BY <1>0, <1>9 DEF LocalOK
  <2>2. CASE x.n < Candidates
    <3> DEFINE y == [x EXCEPT !.n = x.n + 1]
    <3>1. x.n + 1 \in 1..Candidates /\ x.n + 1 \in 0..Candidates
      BY <2>1, <2>2, AgendaItems
    <3>2. /\ y \in Locals /\ y.n = x.n + 1 /\ y.fence = x.fence /\ y.event = x.event /\ y.rev = x.rev
      BY <1>0, <3>1, CountsOn
    <3>3. LocalOK("propose", y)
      <4> HIDE DEF y
      <4> QED BY <1>0, <1>3, <3>1, <3>2
              DEF LocalOK, Steps, FencedSteps, ReadSteps, Seeding, Planning, Judging
    <3>4. pc' = [pc EXCEPT ![w] = "propose"] /\ worker' = [worker EXCEPT ![w] = y]
      BY <1>0, <1>9, <2>2 DEF NextCandidate
    <3> QED BY <1>1, <3>2, <3>3, <3>4
  <2>3. CASE ~(x.n < Candidates)
    <3>1. Goto(w, "complete")
      BY <1>9, <2>3 DEF NextCandidate
    <3> QED BY <1>1, <1>2, <1>4, <3>1
  <2> QED BY <2>2, <2>3
<1>10. CASE Reject(w)
  BY <1>9, <1>10 DEF Reject, Planning
<1>11. CASE Mark(w)
  <2>1. LocalOK("commit", x) /\ "commit" \in Steps
    BY <1>0, <1>11 DEF Mark, LocalOK, Steps, FencedSteps, ReadSteps, Seeding, Planning, Judging
  <2> QED BY <1>1, <1>2, <1>9, <1>11, <2>1 DEF Mark, Planning
<1>12. CASE Commit(w)
  BY <1>1, <1>2, <1>4, <1>9, <1>12 DEF Commit, Planning
<1> QED BY <1>5, <1>6, <1>7, <1>8, <1>10, <1>11, <1>12 DEF Calls

\* advance_revision hands out a fence nobody holds.
LEMMA AbsorbsOrResumes ==
  ASSUME MembraneInv, NEW w \in Workers, Absorb(w) \/ Resume(w)
  PROVE  /\ World /\ OnlyMoves(w) /\ FencesAreOwn' /\ PlansAreNamed' /\ UNCHANGED launched
         /\ HistoryOK'
<1> DEFINE x == worker[w]
           e == x.event
<1>0. /\ TypeOK /\ pc \in [Workers -> Steps] /\ worker \in [Workers -> Locals]
      /\ LocalOK(pc[w], x) /\ x \in Locals /\ FencesAreOwn /\ PlansAreNamed /\ UnseenIsUntried
      /\ HistoryOK
  BY DEF MembraneInv, MembraneTypeOK, HistoryOK, Locals
<1>1. e \in Events
  BY <1>0 DEF Absorb, Resume, Locals
<1>2. World /\ UNCHANGED launched /\ UNCHANGED <<plans, committed>>
  BY <1>1 DEF Absorb, Resume, World, AbsorbEvent, ResumeEvent
<1>3. /\ TypeOK' /\ revision <= revision'
      /\ \A d \in Events : ledger[d].attempt <= ledger'[d].attempt
  BY <1>0, <1>2, AttemptsGrow DEF StoreNext
<1>4. /\ ledger'[e].attempt \in 1..MaxAttempt /\ ledger[e].attempt \in Nat
      /\ ledger[e].attempt < ledger'[e].attempt
  BY <1>0, <1>1, BoundAssumption
     DEF Absorb, Resume, AbsorbEvent, ResumeEvent, TypeOK, LedgerEntry, UnseenIsUntried
<1>5. PICK f \in Fences : /\ f = [event |-> e, attempt |-> ledger'[e].attempt]
                          /\ f # Unfenced /\ f.event = e /\ f.attempt = ledger'[e].attempt
  <2> DEFINE g == [event |-> e, attempt |-> ledger'[e].attempt]
  <2>1. g \in Fences /\ g.event = e /\ g.attempt = ledger'[e].attempt
    BY <1>1, <1>4 DEF Fences
  <2>2. g # Unfenced
    BY <1>1, NoEventAssumption DEF Unfenced
  <2> QED BY <2>1, <2>2
<1>6. PICK y : y = [x EXCEPT !.fence = f, !.moved = ledger'[e].revision]
  OBVIOUS
<1>7. /\ y \in Locals /\ y.fence = f /\ y.event = e /\ y.rev = x.rev
      /\ ledger'[e].revision \in 0..MaxRevision
  BY <1>0, <1>1, <1>3, <1>5, <1>6 DEF Locals, TypeOK, LedgerEntry
<1>8. LocalOK("committed", y)'
  <2>1. y.rev <= revision'
    BY <1>0, <1>3, <1>7, BoundAssumption DEF LocalOK, TypeOK, Locals
  <2>2. Minted(y.fence)'
    BY <1>1, <1>4, <1>5, <1>7 DEF Minted
  <2> QED BY <1>5, <1>7, <2>1, <2>2
          DEF LocalOK, Steps, FencedSteps, ReadSteps, Seeding, Planning, Judging
<1>9. OnlyMoves(w) /\ worker'[w] = y
  <2>1. pc' = [pc EXCEPT ![w] = "committed"] /\ worker' = [worker EXCEPT ![w] = y]
    BY <1>0, <1>5, <1>6 DEF Absorb, Resume, TakeLease
  <2> QED BY <1>8, <2>1, Moves
<1>10. \A v \in Workers : v # w => worker[v].fence # f
  <2> SUFFICES ASSUME NEW v \in Workers, v # w, worker[v].fence = f PROVE FALSE
    OBVIOUS
  <2>1. Minted(f)
    BY DEF MembraneInv, LocalOK
  <2> QED BY <1>4, <1>5, <2>1 DEF Minted
<1>11. FencesAreOwn'
  <2>1. worker'[w].fence = f /\ \A v \in Workers \ {w} : worker'[v] = worker[v]
    BY <1>7, <1>9 DEF OnlyMoves
  <2> QED BY <1>0, <1>10, <2>1 DEF FencesAreOwn, Fence
<1>12. PlansAreNamed'
  BY <1>0, <1>2 DEF PlansAreNamed, NamedIn, Known
<1>13. HistoryOK'
  <2>1. x.forecast \in Forecasts /\ Learns(ledger'[e].revision, x.forecast)
    BY <1>0 DEF Absorb, Resume, TakeLease, Forecast, LocalOK
  <2> QED BY <1>0, <1>7, <2>1, LearnsOK
<1> QED BY <1>2, <1>9, <1>11, <1>12, <1>13

\* complete_event and abandon_event, or nothing where there is nothing to mark.
LEMMA EndsIt ==
  ASSUME MembraneInv, NEW w \in Workers, Complete(w) \/ Abandon(w)
  PROVE  /\ \/ UNCHANGED storeVars
            \/ /\ Fence(w) \in Fences /\ Minted(Fence(w)) /\ CurrentAttempt(Fence(w))
               /\ worker[w].event \in Events /\ Fence(w).event = worker[w].event
               /\ \/ CompleteEvent(worker[w].event, Fence(w))
                  \/ AbandonEvent(worker[w].event, Fence(w))
         /\ UNCHANGED <<launched, truth>> /\ HistoryOK' /\ PlansAreNamed'
         /\ OnlyMoves(w) /\ pc'[w] = "done" /\ worker'[w].fence = worker[w].fence
<1> DEFINE x == worker[w]
           e == x.event
<1>0. /\ TypeOK /\ pc \in [Workers -> Steps] /\ worker \in [Workers -> Locals]
      /\ LocalOK(pc[w], x) /\ x \in Locals /\ PlansAreNamed /\ UnseenIsUntried /\ HistoryOK
  BY DEF MembraneInv, MembraneTypeOK, HistoryOK, Locals
<1>1. UNCHANGED <<launched, truth, revision, plans, committed>> /\ HistoryOK'
  <2>1. UNCHANGED <<launched, truth, revision, plans, committed>>
    BY DEF Complete, Abandon, StoreOnly, storeVars, history, CompleteEvent, AbandonEvent
  <2>2. concluded' \in {concluded, x.forecast}
    BY DEF Complete, Abandon, StoreOnly, history, Forecast
  <2> QED BY <1>0, <2>1, <2>2 DEF HistoryOK, Locals
<1>2. \/ UNCHANGED storeVars
      \/ /\ e # NoEvent
         /\ CompleteEvent(e, Fence(w)) \/ AbandonEvent(e, Fence(w))
  BY DEF Complete, Abandon
<1>3. ASSUME e # NoEvent
      PROVE  e \in Events /\ Fence(w) # Unfenced /\ Fence(w).event = e
             /\ Fence(w) \in Fences /\ Minted(Fence(w))
  BY <1>0, <1>3 DEF Complete, Abandon, LocalOK, Locals, Fence
<1>4. \/ UNCHANGED storeVars
      \/ /\ Fence(w) \in Fences /\ Minted(Fence(w)) /\ CurrentAttempt(Fence(w))
         /\ e \in Events /\ Fence(w).event = e
         /\ CompleteEvent(e, Fence(w)) \/ AbandonEvent(e, Fence(w))
  BY <1>2, <1>3 DEF CompleteEvent, AbandonEvent, FenceHolds
<1>5. [StoreNext]_storeVars
  BY <1>4 DEF StoreNext, Call
<1>6. PICK d \in Endings : /\ pc' = [pc EXCEPT ![w] = "done"]
                           /\ worker' = [worker EXCEPT ![w] = [x EXCEPT !.ending = d]]
  <2>1. CASE Complete(w)
    BY <1>0, <2>1 DEF Complete, End, Endings
  <2>2. CASE Abandon(w)
    <3>1. x = [x EXCEPT !.ending = x.ending] /\ x.ending \in Endings
      BY <1>0 DEF Locals
    <3>2. worker' = [worker EXCEPT ![w] = x] /\ pc' = [pc EXCEPT ![w] = "done"]
      BY <1>0, <2>2 DEF Abandon
    <3> QED BY <3>1, <3>2
  <2> QED BY <2>1, <2>2
<1>7. PICK y : y = [x EXCEPT !.ending = d]
  OBVIOUS
<1>8. LocalOK("done", y) /\ y.fence = x.fence
  BY <1>0, <1>7 DEF LocalOK, Locals, Steps, FencedSteps, ReadSteps, Seeding, Planning, Judging
<1>9. LocalOK("done", y)'
  BY <1>0, <1>5, <1>8, AttemptsGrow, LocalFrame
<1>10. OnlyMoves(w) /\ pc'[w] = "done" /\ worker'[w] = y
  BY <1>6, <1>7, <1>9, Moves
<1>11. PlansAreNamed'
  BY <1>0, <1>1 DEF PlansAreNamed, NamedIn, Known
<1> QED BY <1>1, <1>4, <1>8, <1>10, <1>11

-----------------------------------------------------------------------------
(* The invariant *)

LEMMA KeepsInv ==
  ASSUME MembraneInv, [StoreNext]_storeVars, launched' \in BOOLEAN,
         HistoryOK', FencesAreOwn', PlansAreNamed',
         UNCHANGED workerVars \/ \E w \in Workers : OnlyMoves(w)
  PROVE  MembraneInv'
<1>0. /\ TypeOK /\ UnseenIsUntried /\ pc \in [Workers -> Steps] /\ worker \in [Workers -> Locals]
      /\ \A v \in Workers : LocalOK(pc[v], worker[v])
  BY DEF MembraneInv, MembraneTypeOK, Locals
<1>1. /\ TypeOK' /\ UnseenIsUntried' /\ revision <= revision'
      /\ \A e \in Events : ledger[e].attempt <= ledger'[e].attempt
  BY <1>0, AttemptsGrow
<1>2. ASSUME NEW v \in Workers, pc'[v] = pc[v], worker'[v] = worker[v]
      PROVE  LocalOK(pc[v], worker[v])'
  <2>1. PICK s, x : s = pc[v] /\ x = worker[v]
    OBVIOUS
  <2>2. LocalOK(s, x)'
    BY <1>0, <1>1, <2>1, LocalFrame
  <2> QED BY <1>2, <2>1, <2>2
<1>3. /\ pc' \in [Workers -> Steps] /\ worker' \in [Workers -> Locals]
      /\ \A v \in Workers : LocalOK(pc[v], worker[v])'
  <2>1. CASE UNCHANGED workerVars
    BY <1>0, <1>2, <2>1 DEF workerVars
  <2>2. ASSUME NEW w \in Workers, OnlyMoves(w)
        PROVE  /\ pc' \in [Workers -> Steps] /\ worker' \in [Workers -> Locals]
               /\ \A v \in Workers : LocalOK(pc[v], worker[v])'
    BY <1>2, <2>2 DEF OnlyMoves
  <2> QED BY <2>1, <2>2
<1>4. MembraneTypeOK'
  BY <1>1, <1>3 DEF MembraneTypeOK, HistoryOK, Locals
<1> QED BY <1>1, <1>3, <1>4 DEF MembraneInv

\* A worker that gives its fence up, or keeps it, shares it with nobody.
LEMMA FencesStayOwn ==
  ASSUME MembraneInv, NEW w \in Workers, OnlyMoves(w),
         worker'[w].fence \in {worker[w].fence, Unfenced}
  PROVE  FencesAreOwn'
BY DEF MembraneInv, OnlyMoves, FencesAreOwn, Fence

LEMMA MembraneStep ==
  ASSUME MembraneInv, [MembraneNext]_vars
  PROVE  MembraneInv' /\ [StoreNext]_storeVars
<1>0. /\ TypeOK /\ PlansAreNamed /\ FencesAreOwn /\ UnseenIsUntried /\ launched \in BOOLEAN
      /\ pc \in [Workers -> Steps] /\ worker \in [Workers -> Locals]
      /\ \A w \in Workers : LocalOK(pc[w], worker[w])
  BY DEF MembraneInv, MembraneTypeOK, Locals
<1>h. HistoryOK /\ (UNCHANGED history => HistoryOK')
  BY DEF MembraneInv, MembraneTypeOK, HistoryOK, history
<1>1. ASSUME NEW w \in Workers, Internal(w)
      PROVE  MembraneInv' /\ [StoreNext]_storeVars
  <2>1. /\ UNCHANGED storeVars /\ launched' \in BOOLEAN /\ HistoryOK' /\ OnlyMoves(w)
        /\ worker'[w].fence \in {worker[w].fence, Unfenced}
    BY <1>1, InternalStep
  <2>2. PlansAreNamed'
    BY <1>0, <2>1 DEF PlansAreNamed, NamedIn, Known, storeVars
  <2> QED BY <1>0, <2>1, <2>2, FencesStayOwn, KeepsInv
<1>2. ASSUME NEW w \in Workers, Calls(w)
      PROVE  MembraneInv' /\ [StoreNext]_storeVars
  <2>1. /\ [StoreNext]_storeVars /\ UNCHANGED launched /\ HistoryOK'
    BY <1>2, <1>h, CallIsACall DEF StoreNext
  <2>2. OnlyMoves(w) /\ FencesAreOwn'
    BY <1>2, CallMoves, FencesStayOwn
  <2>3. PlansAreNamed'
    BY <1>2, CallKeepsNames
  <2> QED BY <1>0, <2>1, <2>2, <2>3, KeepsInv
<1>3. ASSUME NEW w \in Workers, Absorb(w) \/ Resume(w)
      PROVE  MembraneInv' /\ [StoreNext]_storeVars
  <2>1. /\ World /\ OnlyMoves(w) /\ FencesAreOwn' /\ PlansAreNamed' /\ UNCHANGED launched
        /\ HistoryOK'
    BY <1>3, AbsorbsOrResumes
  <2> QED BY <1>0, <2>1, KeepsInv DEF StoreNext
<1>4. ASSUME NEW w \in Workers, AbsorbTrigger(w)
      PROVE  MembraneInv' /\ [StoreNext]_storeVars
  <2>1. World /\ UNCHANGED <<launched, plans, committed, ledger>>
    BY <1>4 DEF AbsorbTrigger, AbsorbUnidentified, World
  <2>2. [StoreNext]_storeVars
    BY <2>1 DEF StoreNext
  <2>3. HistoryOK' /\ revision' \in 0..MaxRevision
    <3>1. worker[w].forecast \in Forecasts /\ Learns(revision', worker[w].forecast)
      BY <1>0, <1>4 DEF AbsorbTrigger, Forecast, LocalOK
    <3>2. revision' \in 0..MaxRevision
      BY <1>0, <2>2, AttemptsGrow DEF TypeOK
    <3> QED BY <1>h, <3>1, <3>2, LearnsOK
  <2>4. OnlyMoves(w) /\ worker'[w].fence = worker[w].fence
    <3>1. PICK x : x = [worker[w] EXCEPT !.moved = revision']
      OBVIOUS
    <3>0. /\ x \in Locals /\ x.fence = worker[w].fence
          /\ x.event = worker[w].event /\ x.rev = worker[w].rev
      BY <1>0, <2>3, <3>1 DEF Locals
    <3>2. LocalOK("committed", x) /\ x.fence = worker[w].fence
      BY <1>0, <1>4, <3>0
         DEF AbsorbTrigger, LocalOK, Steps, FencedSteps, ReadSteps, Seeding, Planning, Judging
    <3>3. LocalOK("committed", x)'
      BY <1>0, <2>2, <3>2, AttemptsGrow, LocalFrame
    <3>4. pc' = [pc EXCEPT ![w] = "committed"] /\ worker' = [worker EXCEPT ![w] = x]
      BY <1>0, <1>4, <3>1 DEF AbsorbTrigger
    <3>5. OnlyMoves(w) /\ worker'[w] = x
      BY <1>0, <3>3, <3>4, Moves
    <3> QED BY <3>2, <3>5
  <2>5. FencesAreOwn'
    BY <2>4, FencesStayOwn
  <2>6. PlansAreNamed'
    BY <1>0, <2>1 DEF PlansAreNamed, NamedIn, Known
  <2> QED BY <1>0, <2>1, <2>2, <2>3, <2>4, <2>5, <2>6, KeepsInv
<1>5. ASSUME NEW w \in Workers, Complete(w) \/ Abandon(w)
      PROVE  MembraneInv' /\ [StoreNext]_storeVars
  <2>1. /\ UNCHANGED launched /\ HistoryOK' /\ PlansAreNamed' /\ OnlyMoves(w)
        /\ worker'[w].fence = worker[w].fence
    BY <1>5, EndsIt
  <2>2. [StoreNext]_storeVars
    BY <1>5, EndsIt DEF StoreNext, Call
  <2> QED BY <1>0, <2>1, <2>2, FencesStayOwn, KeepsInv
<1>6. ASSUME NEW i \in WorkItems, OutsiderClaims(i)
      PROVE  MembraneInv' /\ [StoreNext]_storeVars
  <2>1. PICK a \in Actors : Claim(i, a, Unfenced)
    BY <1>6, AgendaAssumption DEF OutsiderClaims
  <2>2. [StoreNext]_storeVars
    <3>1. Unfenced \in Fences /\ Minted(Unfenced)
      BY DEF Fences, Minted
    <3> QED BY <2>1, <3>1 DEF StoreNext, Call, WorkCall
  <2>3. UNCHANGED <<workerVars, launched, history, plans, committed>>
    BY <1>6, <2>1 DEF OutsiderClaims, Claim
  <2>4. FencesAreOwn' /\ PlansAreNamed'
    BY <1>0, <2>3 DEF FencesAreOwn, Fence, PlansAreNamed, NamedIn, Known, workerVars
  <2> QED BY <1>0, <1>h, <2>2, <2>3, <2>4, KeepsInv
<1>7. ASSUME NEW e \in Events, Silence(e)
      PROVE  MembraneInv' /\ [StoreNext]_storeVars
  <2>1. [StoreNext]_storeVars /\ UNCHANGED <<workerVars, launched, history, plans, committed>>
    BY <1>7 DEF Silence, LeaseLapses, StoreNext, World
  <2>2. FencesAreOwn' /\ PlansAreNamed'
    BY <1>0, <2>1 DEF FencesAreOwn, Fence, PlansAreNamed, NamedIn, Known, workerVars
  <2> QED BY <1>0, <1>h, <2>1, <2>2, KeepsInv
<1>8. CASE UNCHANGED vars
  <2>1. UNCHANGED <<storeVars, workerVars, launched, history>>
    BY <1>8 DEF vars
  <2>2. FencesAreOwn' /\ PlansAreNamed'
    BY <1>0, <2>1 DEF FencesAreOwn, Fence, PlansAreNamed, NamedIn, Known, workerVars, storeVars
  <2> QED BY <1>0, <1>h, <2>1, <2>2, KeepsInv
<1>9. ASSUME NEW w \in Workers, StartRun(w) \/ Trigger(w) \/ \E e \in Events : Deliver(w, e)
      PROVE  Internal(w)
  BY <1>9, TrafficAssumption, ForecastAssumption DEF Trigger, Deliver, Internal
<1>10. ASSUME NEW w \in Workers, Works(w) \/ Breakdown(w) \/ Retire(w)
       PROVE  \/ Internal(w) \/ Calls(w) \/ Absorb(w) \/ Resume(w) \/ AbsorbTrigger(w)
              \/ Complete(w) \/ Abandon(w)
  BY <1>10 DEF Works, Breakdown, Advance, Reverify, Run, Internal, Calls
<1> QED
  BY <1>1, <1>2, <1>3, <1>4, <1>5, <1>6, <1>7, <1>8, <1>9, <1>10 DEF MembraneNext, Environment

\* Whatever workers do, die of or are refused, their locals and the store stay in
\* range (verify.py and the scenarios' disrupt and run).
THEOREM MembraneTyped == MembraneSpec => []MembraneTypeOK
<1>1. MembraneInv /\ [MembraneNext]_vars => MembraneInv'
  BY MembraneStep
<1>2. MembraneInv => MembraneTypeOK
  BY DEF MembraneInv
<1> QED BY MembraneOpens, <1>1, <1>2, PTL DEF MembraneSpec

\* The membrane implements the store under arbitrary clients: every worker holds
\* a fence the store minted and binds its plans to revisions that were reached,
\* so all that StateStoreProofs proves holds here.
THEOREM MembraneRefinesTheStore == MembraneSpec => MembraneUsesTheStore
<1>1. MembraneInit => StoreInit
  BY DEF MembraneInit
<1>2. MembraneInv /\ [MembraneNext]_vars => MembraneInv' /\ [StoreNext]_storeVars
  BY MembraneStep
<1> QED BY MembraneOpens, <1>1, <1>2, PTL DEF MembraneSpec, MembraneUsesTheStore, StoreSpec

\* What the store promises to anybody it promises to these workers: an event owns
\* its revision, changes hands only after silence, moves the world once, and what
\* becomes the commitment is verified and fresh (store.py).
THEOREM MembraneInheritsTheStore ==
  MembraneSpec => /\ []EventsOwnTheirRevisions /\ HandoverNeedsSilence
                  /\ StoreAbsorbsOnce /\ NoStaleCommit
<1>1. MembraneSpec => StoreSpec
  BY MembraneRefinesTheStore DEF MembraneUsesTheStore
<1> QED BY <1>1, StoreOwnership, StoreHandover, StoreImplementsAbsorbOnce, StoreCommitsFresh, PTL

-----------------------------------------------------------------------------
(* What a step may do to the commitment and to a living attempt *)

\* The three calls that touch the commitment.
LEMMA CommitmentCases ==
  ASSUME MembraneInv, [MembraneNext]_vars, committed' # committed
  PROVE  \E w \in Workers : Commit(w) \/ Revoke(w) \/ RevokeStale(w)
<1>1. ASSUME NEW w \in Workers, Works(w) \/ Breakdown(w) \/ Retire(w)
      PROVE  Commit(w) \/ Revoke(w) \/ RevokeStale(w)
  <2>1. CASE Advance(w) \/ Complete(w) \/ Evicted(w) \/ Outlived(w) \/ Abandon(w)
    BY <2>1 DEF Advance, Absorb, Resume, AbsorbTrigger, Dismiss, Complete, Evicted, Outlived, Abandon,
                AbsorbEvent, ResumeEvent, AbsorbUnidentified, CompleteEvent, AbandonEvent, LocalOnly,
                storeVars
  <2>2. CASE Breakdown(w) \/ Retire(w)
    BY <2>2 DEF Breakdown, Fails, Breaks, Dies, Retire, LocalOnly, storeVars
  <2>3. CASE Reverify(w)
    BY <2>3 DEF Reverify, ReadCommitted, Observe, Judge, Rebind, RebindPlan, LocalOnly, storeVars
  <2>4. CASE Run(w)
    BY <2>4 DEF Run, ReadWorld, SeedCreate, SeedClaim, Propose, FetchPlan, Weigh, Reject, Mark,
                CreateWork, Claim, AddPlan, RejectPlan, MarkVerified, LocalOnly, storeVars
  <2> QED BY <1>1, <2>1, <2>2, <2>3, <2>4 DEF Works
<1>2. CASE Environment
  BY <1>2 DEF Environment, StartRun, Trigger, Deliver, Begin, OutsiderClaims, Claim, Silence,
              LeaseLapses, LocalOnly, storeVars
<1>3. CASE UNCHANGED vars
  BY <1>3 DEF vars, storeVars
<1> QED BY <1>1, <1>2, <1>3 DEF MembraneNext

LEMMA CommitHasItsPass ==
  ASSUME MembraneInv, [MembraneNext]_vars, committed' \notin {committed, NoPlan}
  PROVE  \E w \in Workers :
           /\ pc[w] = "commit" /\ pc'[w] = "complete"
           /\ worker[w].n = committed'
           /\ Feasible(Forecast(w), plans[committed'].proposal)
<1>1. PICK w \in Workers : Commit(w) \/ Revoke(w) \/ RevokeStale(w)
  BY CommitmentCases
<1>2. Commit(w)
  BY <1>1 DEF Revoke, RevokeStale, RevokeIfRevisionCurrent, RevokeIfStale, Withdraw
<1>3. /\ LocalOK(pc[w], worker[w]) /\ PlansAreNamed /\ pc \in [Workers -> Steps]
  BY DEF MembraneInv, MembraneTypeOK
<1>4. Committable(worker[w].n) /\ committed' = worker[w].n /\ Goto(w, "complete")
  BY <1>2 DEF Commit, CommitPlan
<1>5. worker[w].n \in 1..Candidates /\ Feasible(worker[w].forecast, worker[w].n)
  BY <1>2, <1>3, CandidatesAssumption DEF Commit, LocalOK, Planning
<1>6. plans[worker[w].n].proposal = worker[w].n
  BY <1>3, <1>4, <1>5 DEF PlansAreNamed, NamedIn, Committable, Known
<1> QED BY <1>2, <1>3, <1>4, <1>5, <1>6 DEF Goto, Commit, Forecast

\* However workers overlap, whoever commits a plan has seen that very proposal
\* pass the verifier under the forecast it carries (verify.py:14).
THEOREM EveryCommitHasItsPass == MembraneSpec => CommitCarriesAPass
<1>1. MembraneInv /\ [MembraneNext]_vars => MembraneInv'
  BY MembraneStep
<1>2. MembraneInv /\ [MembraneNext]_vars =>
        [committed' \notin {committed, NoPlan} =>
           \E w \in Workers :
             /\ pc[w] = "commit" /\ pc'[w] = "complete"
             /\ worker[w].n = committed'
             /\ Feasible(Forecast(w), plans[committed'].proposal)]_vars
  BY CommitHasItsPass
<1> QED BY MembraneOpens, <1>1, <1>2, PTL DEF MembraneSpec, CommitCarriesAPass

\* A commitment that is bound to the present world falls only to a negative
\* verdict reached in this world, for any number of racing workers
\* (store.py, revoke_if_revision_current and revoke_if_stale).
THEOREM OnlyPresentVerdictsEverWithdraw == MembraneSpec => OnlyPresentVerdictsWithdraw
<1>1. ASSUME MembraneInv, [MembraneNext]_vars, committed # NoPlan, committed' = NoPlan,
             BoundToWorld(committed)
      PROVE  \E w \in Workers :
               /\ pc[w] = "revoke" /\ pc'[w] = "run"
               /\ worker[w].plan = committed /\ worker[w].rev = revision
  <2>1. PICK w \in Workers : Commit(w) \/ Revoke(w) \/ RevokeStale(w)
    BY <1>1, CommitmentCases
  <2>2. LocalOK(pc[w], worker[w]) /\ pc \in [Workers -> Steps]
    BY <1>1 DEF MembraneInv, MembraneTypeOK
  <2>3. CASE Commit(w)
    <3>1. worker[w].n \in PlanIds
      BY <2>2, <2>3, CandidatesAssumption DEF Commit, LocalOK, Planning
    <3> QED BY <1>1, <2>3, <3>1, NoPlanAssumption DEF Commit, CommitPlan
  <2>4. CASE RevokeStale(w)
    BY <1>1, <2>4 DEF RevokeStale, RevokeIfStale, Withdraw
  <2>5. CASE Revoke(w)
    BY <1>1, <2>2, <2>5 DEF Revoke, RevokeIfRevisionCurrent, Withdraw, WorldStandsAt, Goto
  <2> QED BY <2>1, <2>3, <2>4, <2>5
<1>2. MembraneInv /\ [MembraneNext]_vars => MembraneInv'
  BY MembraneStep
<1>3. MembraneInv /\ [MembraneNext]_vars =>
        [committed # NoPlan /\ committed' = NoPlan /\ BoundToWorld(committed) =>
           \E w \in Workers :
             /\ pc[w] = "revoke" /\ pc'[w] = "run"
             /\ worker[w].plan = committed /\ worker[w].rev = revision]_vars
  BY <1>1
<1> QED BY MembraneOpens, <1>2, <1>3, PTL DEF MembraneSpec, OnlyPresentVerdictsWithdraw

\* A step of another worker leaves the entry of a living attempt alone.
LEMMA LivingStep ==
  ASSUME MembraneInv, [MembraneNext]_vars, NEW w \in Workers,
         Fence(w) # Unfenced, CurrentAttempt(Fence(w)),
         ledger[Fence(w).event].stage = "in_progress",
         pc'[w] = pc[w], worker'[w] = worker[w]
  PROVE  \/ ledger'[Fence(w).event] = ledger[Fence(w).event]
         \/ ledger'[Fence(w).event] = [ledger[Fence(w).event] EXCEPT !.stage = "lapsed"]
<1> DEFINE e == Fence(w).event
<1>0. /\ TypeOK /\ FencesAreOwn /\ \A v \in Workers : worker[v] \in Locals
  BY DEF MembraneInv, MembraneTypeOK, Locals
<1>1. Fence(w) \in [event : Events, attempt : 1..MaxAttempt] /\ e \in Events
  BY <1>0 DEF Fence, Locals, Fences
<1>2. ASSUME NEW v \in Workers, Absorb(v) \/ Resume(v)
      PROVE  ledger'[e] = ledger[e]
  BY <1>0, <1>1, <1>2 DEF Absorb, Resume, AbsorbEvent, ResumeEvent, TypeOK
<1>3. ASSUME NEW v \in Workers, Complete(v) \/ Abandon(v)
      PROVE  ledger'[e] = ledger[e]
  <2>1. v # w
    BY <1>3, EndsIt DEF Complete, Abandon
  <2>2. CASE UNCHANGED storeVars
    BY <2>2 DEF storeVars
  <2>3. CASE /\ Fence(v) \in Fences /\ CurrentAttempt(Fence(v))
             /\ worker[v].event \in Events /\ Fence(v).event = worker[v].event
             /\ \/ CompleteEvent(worker[v].event, Fence(v))
                \/ AbandonEvent(worker[v].event, Fence(v))
    <3>1. Fence(v) # Fence(w)
      BY <1>0, <2>1 DEF FencesAreOwn
    <3>2. Fence(v) \in [event : Events, attempt : 1..MaxAttempt]
      BY <2>3, NoEventAssumption DEF Fences, Unfenced
    <3>3. Fence(v).event # e
      <4>1. Fence(v).event = e => Fence(v).attempt = Fence(w).attempt
        BY <2>3 DEF CurrentAttempt
      <4> QED BY <1>1, <3>1, <3>2, <4>1
    <3> QED BY <1>0, <1>1, <2>3, <3>3 DEF CompleteEvent, AbandonEvent, TypeOK
  <2> QED BY <1>3, <2>2, <2>3, EndsIt
<1>4. ASSUME NEW d \in Events, Silence(d)
      PROVE  \/ ledger'[e] = ledger[e]
             \/ ledger'[e] = [ledger[e] EXCEPT !.stage = "lapsed"]
  BY <1>0, <1>1, <1>4 DEF Silence, LeaseLapses, TypeOK
<1>5. ASSUME NEW v \in Workers, Internal(v) \/ Calls(v) \/ AbsorbTrigger(v)
      PROVE  ledger'[e] = ledger[e]
  BY <1>5, InternalStep, CallIsACall DEF AbsorbTrigger, AbsorbUnidentified, storeVars
<1>6. ASSUME NEW i \in WorkItems, OutsiderClaims(i)
      PROVE  ledger'[e] = ledger[e]
  BY <1>6 DEF OutsiderClaims, Claim
<1>7. CASE UNCHANGED vars
  BY <1>7 DEF vars, storeVars
<1>8. ASSUME NEW v \in Workers, StartRun(v) \/ Trigger(v) \/ \E d \in Events : Deliver(v, d)
      PROVE  Internal(v)
  BY <1>8, TrafficAssumption, ForecastAssumption DEF Trigger, Deliver, Internal
<1>9. ASSUME NEW v \in Workers, Works(v) \/ Breakdown(v) \/ Retire(v)
      PROVE  \/ Internal(v) \/ Calls(v) \/ Absorb(v) \/ Resume(v) \/ AbsorbTrigger(v)
             \/ Complete(v) \/ Abandon(v)
  BY <1>9 DEF Works, Breakdown, Advance, Reverify, Run, Internal, Calls
<1> QED
  BY <1>2, <1>3, <1>4, <1>5, <1>6, <1>7, <1>8, <1>9 DEF MembraneNext, Environment

\* A worker inside its lease is not pushed out of its event by any other one,
\* however late, failed or superseded (store.py, abandon_event and _require_fence).
THEOREM LivingAttemptIsNeverEvicted == MembraneSpec => LivingAttemptIsNotEvicted
<1>1. MembraneInv /\ [MembraneNext]_vars => MembraneInv'
  BY MembraneStep
<1>2. MembraneInv /\ [MembraneNext]_vars =>
        [\A w \in Workers :
           /\ Fence(w) # Unfenced /\ CurrentAttempt(Fence(w))
           /\ ledger[Fence(w).event].stage = "in_progress"
           /\ pc'[w] = pc[w] /\ worker'[w] = worker[w]
           => \/ ledger'[Fence(w).event] = ledger[Fence(w).event]
              \/ ledger'[Fence(w).event] = [ledger[Fence(w).event] EXCEPT !.stage = "lapsed"]]_vars
  BY LivingStep
<1> QED BY MembraneOpens, <1>1, <1>2, PTL DEF MembraneSpec, LivingAttemptIsNotEvicted
=============================================================================
