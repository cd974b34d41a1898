---------------------------- MODULE SerialProofs ----------------------------
(***************************************************************************)
(* What the membrane promises when events come one at a time: the          *)
(* commitment that stands is verified, holds in the world it is bound to,  *)
(* and reflects the last event once that is applied.  Deliveries of one    *)
(* event still overlap, attempts still fail, fall silent, die and come     *)
(* back late, for any number of workers, events and departures.            *)
(*                                                                         *)
(* The argument: the fence leaves one worker at a time who can write, the  *)
(* owner, and while there is an owner the world stands still; so what the  *)
(* owner has seen is still so when it writes.                              *)
(*                                                                         *)
(* Requests over the membrane come last, under any traffic: that Delivery  *)
(* refines it, and that overlapping requests acknowledge no failure.       *)
(***************************************************************************)
EXTENDS MembraneProofs, Delivery

\* A worker that may still write: past advance_revision, and its fence holds.
Owner(w) == pc[w] \notin {"idle", "advance", "done"} /\ FenceHolds(Fence(w))

Live(w) == pc[w] # "idle" /\ ~Finished(w)

\* Nobody but run claims, each item under one name, and run tries every proposal.
Uncontested ==
  /\ Outsiders = {}
  /\ \A j, k \in 1..Len(Agenda) : Agenda[j] = Agenda[k] => Crew[j] = Crew[k]
  /\ Proposals = 1..Candidates

\* What SettledIsHonest asks of the commitment, under the forecast x.
Honest(x) ==
  IF committed = NoPlan
    THEN \A q \in Proposals : ~Feasible(x, q)
    ELSE /\ BoundToWorld(committed)
         /\ Feasible(x, plans[committed].proposal)

\* What an owner at step s knows of the world from its locals x.
Knows(s, x) ==
  /\ s # "revoke_stale"
  /\ x.moved = revision
  /\ s \in {"committed"} \cup Judging \cup Seeding \cup Planning => x.forecast \in truth[revision]
  /\ s \in Judging => x.plan = committed
  /\ s \in Judging \ {"observe"} => x.rev = revision
  /\ s = "rebind" => Feasible(x.forecast, x.plan)
  /\ s \in {"run"} \cup Seeding \cup Planning => committed = NoPlan
  /\ s \in Seeding \cup Planning => x.rev = revision
  /\ s \in Planning => \A k \in 1..(x.n - 1) : ~Feasible(x.forecast, k)
  /\ s \in Planning \ {"propose"} => Known(x.n) /\ BoundToWorld(x.n)
  /\ s = "weigh" => x.basis = revision
  /\ s = "reject" => ~Feasible(x.forecast, x.n)
  /\ s = "commit" => plans[x.n].verdict = "verified"
  /\ s = "complete" /\ Uncontested => Honest(x.forecast)

\* Who is about belongs to one event, the only one that is pending, and the
\* world has not moved since that event moved it.
OneAtATime ==
  /\ \A v, w \in Workers : v # w /\ Live(v) /\ Live(w) =>
       worker[v].event = worker[w].event /\ worker[v].event # NoEvent
  /\ \A w \in Workers, e \in Events :
       Live(w) /\ ledger[e].stage \in Pending => worker[w].event = e
  /\ \A d, e \in Events : ledger[d].stage \in Pending /\ ledger[e].stage \in Pending => d = e
  /\ \A e \in Events : ledger[e].stage \in Pending => ledger[e].revision = revision
  /\ \A w \in Workers : Owner(w) /\ worker[w].event = NoEvent =>
       \A e \in Events : ledger[e].stage = "unseen" \/ ledger[e].revision # revision

NotYetLaunched ==
  ~launched =>
    /\ \A w \in Workers : pc[w] = "idle"
    /\ \A e \in Events : ledger[e].stage = "unseen"
    /\ revision = 0 /\ committed = NoPlan

OwnersKnow == \A w \in Workers : Owner(w) => Knows(pc[w], worker[w])

BasesAreReached == \A p \in PlanIds : plans[p].basis <= revision

ItemsAreTheCrews ==
  Uncontested =>
    \A k \in 1..Len(Agenda) : work[Agenda[k]] \in {NotCreated, Unclaimed, Crew[k]}

AppliedIsHonest ==
  Uncontested =>
    \A e \in Events : ledger[e].stage = "applied" /\ ledger[e].revision = revision =>
      Honest(concluded)

SerialInv ==
  /\ MembraneInv /\ EventsOwnTheirRevisions
  /\ OneAtATime /\ NotYetLaunched /\ OwnersKnow
  /\ BasesAreReached /\ NamedIn(PlanIds) /\ ItemsAreTheCrews
  /\ CommittedStandsVerified /\ CommittedHoldsInItsWorld /\ AppliedIsHonest

-----------------------------------------------------------------------------
(* Owners *)

\* What the invariant says of types, in the form the steps below use.
LEMMA InRange ==
  ASSUME SerialInv
  PROVE  /\ TypeOK /\ MembraneInv /\ UnseenIsUntried
         /\ pc \in [Workers -> Steps] /\ worker \in [Workers -> Locals]
         /\ \A w \in Workers : LocalOK(pc[w], worker[w])
         /\ revision \in 0..MaxRevision /\ revision \in Nat
         /\ truth \in [0..MaxRevision -> SUBSET Forecasts]
BY BoundAssumption DEF SerialInv, MembraneInv, MembraneTypeOK, Locals, TypeOK

\* An owner acts for nobody, or for the event whose living attempt it is.
LEMMA OwnerIsLive ==
  ASSUME SerialInv, NEW w \in Workers, Owner(w)
  PROVE  /\ Live(w)
         /\ worker[w].event # NoEvent =>
              /\ worker[w].event \in Events /\ Fence(w) # Unfenced
              /\ Fence(w).event = worker[w].event
              /\ CurrentAttempt(Fence(w)) /\ ledger[worker[w].event].stage \in Pending
<1>1. /\ LocalOK(pc[w], worker[w]) /\ worker[w] \in Locals
  BY InRange
<1>2. CASE worker[w].event = NoEvent
  BY <1>2 DEF Owner, Live, Finished
<1>3. CASE worker[w].event # NoEvent
  <2>1. /\ worker[w].event \in Events /\ Fence(w) # Unfenced /\ Fence(w).event = worker[w].event
    BY <1>1, <1>3 DEF Owner, LocalOK, Locals, Fence
  <2>2. CurrentAttempt(Fence(w)) /\ ledger[worker[w].event].stage \in Pending
    BY <2>1 DEF Owner, FenceHolds, CurrentAttempt
  <2>3. Live(w)
    BY <2>2 DEF Owner, Live, Finished, Pending
  <2> QED BY <2>1, <2>2, <2>3
<1> QED BY <1>2, <1>3

\* There is at most one.
LEMMA OneOwner ==
  ASSUME SerialInv, NEW v \in Workers, NEW w \in Workers, v # w, Owner(v), Owner(w)
  PROVE  FALSE
<1>1. worker[v].event = worker[w].event /\ worker[v].event # NoEvent
  BY OwnerIsLive DEF SerialInv, OneAtATime
<1>2. /\ Fence(v) # Unfenced /\ Fence(v).event = worker[v].event /\ CurrentAttempt(Fence(v))
      /\ Fence(w) # Unfenced /\ Fence(w).event = worker[w].event /\ CurrentAttempt(Fence(w))
  BY <1>1, OwnerIsLive
<1>3. Fence(v) \in Fences /\ Fence(w) \in Fences
  BY InRange DEF Locals, Fence
<1>4. Fence(v).attempt = Fence(w).attempt
  BY <1>1, <1>2 DEF CurrentAttempt
<1>5. Fence(v) = Fence(w)
  BY <1>1, <1>2, <1>3, <1>4 DEF Fences
<1> QED BY <1>2, <1>5 DEF SerialInv, MembraneInv, FencesAreOwn

\* While there is an owner, no event that owns the present revision is applied.
LEMMA OwnerIsUnsettled ==
  ASSUME SerialInv, NEW w \in Workers, Owner(w), NEW e \in Events, ledger[e].stage = "applied"
  PROVE  ledger[e].revision # revision
<1>1. CASE worker[w].event = NoEvent
  BY <1>1 DEF SerialInv, OneAtATime
<1>2. CASE worker[w].event # NoEvent
  <2>1. PICK d \in Events : d = worker[w].event /\ ledger[d].stage \in Pending
    BY <1>2, OwnerIsLive
  <2>2. ledger[d].revision = revision /\ d # e
    BY <2>1 DEF SerialInv, OneAtATime, Pending
  <2> QED BY <2>1, <2>2 DEF SerialInv, EventsOwnTheirRevisions, Pending
<1> QED BY <1>1, <1>2

\* While somebody waits to bring new truth, nobody else owns anything.
LEMMA NewTruthComesAlone ==
  ASSUME SerialInv, NEW w \in Workers, NEW v \in Workers, v # w, Owner(v), pc[w] = "advance",
         \/ worker[w].event = NoEvent
         \/ worker[w].event \in Events /\ ledger[worker[w].event].stage = "unseen"
  PROVE  FALSE
<1>1. Live(w) /\ Live(v)
  BY OwnerIsLive DEF Live, Finished
<1>2. worker[v].event = worker[w].event /\ worker[v].event # NoEvent
  BY <1>1 DEF SerialInv, OneAtATime
<1>3. ledger[worker[v].event].stage \in Pending
  BY <1>2, OwnerIsLive
<1> QED BY <1>2, <1>3 DEF Pending

\* Whoever does not move does not become an owner.
LEMMA OwnersStay ==
  ASSUME SerialInv, [MembraneNext]_vars, NEW v \in Workers,
         pc'[v] = pc[v], Fence(v)' = Fence(v), Owner(v)'
  PROVE  Owner(v)
<1>1. PICK f \in Fences : f = Fence(v) /\ Minted(f)
  BY InRange DEF LocalOK, Locals, Fence
<1>2. FenceHolds(f)'
  BY <1>1 DEF Owner
<1>3. TypeOK /\ UnseenIsUntried /\ [StoreNext]_storeVars
  BY InRange, MembraneStep
<1>4. FenceHolds(f)
  BY <1>1, <1>2, <1>3, FencesAreLostForGood
<1> QED BY <1>1, <1>4 DEF Owner

\* What was fetched for a revision stays on the record.
TruthGrows == \A r \in 0..MaxRevision : truth[r] \subseteq truth'[r]

LEMMA TruthIsKept ==
  ASSUME MembraneInv, [MembraneNext]_vars
  PROVE  TruthGrows
<1>0. truth \in [0..MaxRevision -> SUBSET Forecasts]
  BY DEF MembraneInv, MembraneTypeOK
<1>1. ASSUME NEW k, NEW x, Learns(k, x)
      PROVE  TruthGrows
  BY <1>0, <1>1 DEF Learns, TruthGrows
<1>2. ASSUME UNCHANGED truth
      PROVE  TruthGrows
  BY <1>2 DEF TruthGrows
<1>3. ASSUME NEW w \in Workers, Works(w) \/ Breakdown(w) \/ Retire(w)
      PROVE  TruthGrows
  <2>1. CASE Absorb(w) \/ Resume(w)
    BY <1>1, <2>1 DEF Absorb, Resume, TakeLease
  <2>2. CASE AbsorbTrigger(w)
    BY <1>1, <2>2 DEF AbsorbTrigger
  <2>3. CASE ReadWorld(w)
    BY <1>1, <2>3 DEF ReadWorld
  <2>4. CASE Reverify(w) \/ Dismiss(w) \/ Complete(w) \/ Evicted(w) \/ Outlived(w) \/ Abandon(w)
    BY <1>2, <2>4 DEF Reverify, ReadCommitted, Observe, Judge, Revoke, Rebind, RevokeStale,
         Dismiss, Complete, Evicted, Outlived, Abandon, LocalOnly, StoreOnly, history
  <2>5. CASE Breakdown(w) \/ Retire(w)
    BY <1>2, <2>5 DEF Breakdown, Fails, Breaks, Dies, Retire, LocalOnly, history
  <2>6. CASE Run(w) /\ ~ReadWorld(w)
    BY <1>2, <2>6 DEF Run, SeedCreate, SeedClaim, Propose, FetchPlan, Weigh, Reject, Mark, Commit,
         LocalOnly, StoreOnly, history
  <2> QED BY <1>3, <2>1, <2>2, <2>3, <2>4, <2>5, <2>6 DEF Works, Advance
<1>4. CASE Environment
  BY <1>2, <1>4 DEF Environment, StartRun, Trigger, Deliver, Begin, OutsiderClaims, Silence,
       LocalOnly, history
<1>5. CASE UNCHANGED vars
  BY <1>2, <1>5 DEF vars, history
<1> QED BY <1>3, <1>4, <1>5 DEF MembraneNext

LEMMA KnowsFrame ==
  ASSUME NEW s, NEW x, UNCHANGED <<revision, plans, committed>>,
         revision \in 0..MaxRevision, TruthGrows, Knows(s, x)
  PROVE  Knows(s, x)'
<1>1. truth[revision] \subseteq truth'[revision']
  BY DEF TruthGrows
<1> QED BY <1>1 DEF Knows, Honest, Known, BoundToWorld, WorldStandsAt

\* If nothing an owner knows of has changed, or nobody else is one, the others
\* still know what they knew.
LEMMA OthersKnow ==
  ASSUME SerialInv, [MembraneNext]_vars, NEW w \in Workers, OnlyMoves(w),
         \/ UNCHANGED <<revision, plans, committed>>
         \/ \A v \in Workers \ {w} : ~Owner(v),
         Owner(w)' => Knows(pc[w], worker[w])'
  PROVE  OwnersKnow'
<1>1. ASSUME NEW v \in Workers, v # w, Owner(v)'
      PROVE  Knows(pc[v], worker[v])'
  <2>1. pc'[v] = pc[v] /\ worker'[v] = worker[v]
    BY <1>1 DEF OnlyMoves
  <2>2. Owner(v)
    BY <1>1, <2>1, OwnersStay DEF Fence
  <2>3. PICK s, x : s = pc[v] /\ x = worker[v]
    OBVIOUS
  <2>4. Knows(s, x)
    BY <2>2, <2>3 DEF SerialInv, OwnersKnow
  <2>5. Knows(s, x)'
    BY <1>1, <2>2, <2>4, InRange, TruthIsKept, KnowsFrame
  <2> QED BY <2>1, <2>3, <2>5
<1> QED BY <1>1 DEF OwnersKnow

-----------------------------------------------------------------------------
(* What the steps do *)

\* The steps that call nobody, once a worker has set out.
Inward(w) ==
  \/ Dismiss(w) \/ ReadCommitted(w) \/ Observe(w) \/ Judge(w) \/ ReadWorld(w)
  \/ FetchPlan(w) \/ Weigh(w) \/ Evicted(w) \/ Outlived(w)
  \/ Fails(w) \/ Breaks(w) \/ Dies(w) \/ Retire(w)

Opens(w) == StartRun(w) \/ Trigger(w) \/ \E e \in Events : Deliver(w, e)

LEMMA SerialCases ==
  ASSUME [MembraneNext]_vars
  PROVE  \/ \E w \in Workers :
              \/ Inward(w) \/ Opens(w) \/ Calls(w) \/ Absorb(w) \/ Resume(w) \/ AbsorbTrigger(w)
              \/ Complete(w) \/ Abandon(w)
         \/ \E i \in WorkItems : OutsiderClaims(i)
         \/ \E e \in Events : Silence(e)
         \/ UNCHANGED vars
BY DEF MembraneNext, Environment, Works, Breakdown, Advance, Reverify, Run, Inward, Opens, Calls

LEMMA InwardIsInternal ==
  ASSUME MembraneInv, NEW w \in Workers, Inward(w)
  PROVE  /\ UNCHANGED <<storeVars, concluded, launched>> /\ OnlyMoves(w) /\ pc[w] # "idle"
         /\ worker'[w].fence \in {worker[w].fence, Unfenced}
<1>1. Internal(w) /\ UNCHANGED <<concluded, launched>> /\ pc[w] # "idle"
  BY DEF Inward, Internal, Dismiss, ReadCommitted, Observe, Judge, ReadWorld, Learns, FetchPlan, Weigh,
         Evicted, Outlived, Fails, Breaks, Dies, Retire, LocalOnly, history, FencedSteps, ReadSteps
<1> QED BY <1>1, InternalStep

\* A worker stays on its errand or gives it up.
OnErrand(w) ==
  \/ pc'[w] # "idle" /\ worker'[w].event = worker[w].event
  \/ pc'[w] = "idle" /\ worker'[w].event = NoEvent /\ worker'[w].fence = Unfenced

LEMMA InwardKeepsErrand ==
  ASSUME MembraneInv, NEW w \in Workers, Inward(w)
  PROVE  OnErrand(w) /\ (pc'[w] = "idle" \/ worker'[w].fence = worker[w].fence)
<1>0. pc \in [Workers -> Steps] /\ worker \in [Workers -> Locals] /\ worker[w] \in Locals
  BY DEF MembraneInv, MembraneTypeOK, Locals
<1>1. CASE Dies(w) \/ Retire(w)
  BY <1>0, <1>1 DEF Dies, Retire, Idle, OnErrand
<1>2. CASE Dismiss(w) \/ Evicted(w) \/ Breaks(w)
  BY <1>0, <1>2 DEF Dismiss, Evicted, Breaks, End, OnErrand, Locals
<1>3. CASE Outlived(w) \/ Fails(w) \/ ReadCommitted(w) \/ Observe(w)
  BY <1>0, <1>3 DEF Outlived, Fails, ReadCommitted, Observe, OnErrand, Locals
<1>4. CASE Judge(w) \/ Weigh(w)
  BY <1>0, <1>4 DEF Judge, Weigh, Goto, OnErrand
<1>5. CASE ReadWorld(w) \/ FetchPlan(w)
  BY <1>0, <1>5 DEF ReadWorld, FetchPlan, OnErrand, Locals
<1> QED BY <1>1, <1>2, <1>3, <1>4, <1>5 DEF Inward

\* A worker in the middle of its work.
GoesOn(w) == pc'[w] \notin {"idle", "advance", "abandon", "done"}

LEMMA CallKeepsErrand ==
  ASSUME MembraneInv, NEW w \in Workers, Calls(w)
  PROVE  OnErrand(w) /\ GoesOn(w)
<1>0. pc \in [Workers -> Steps] /\ worker \in [Workers -> Locals] /\ worker[w] \in Locals
  BY DEF MembraneInv, MembraneTypeOK, Locals
<1>1. ASSUME NEW s \in {"run", "complete", "revoke_stale", "fetch", "commit"}, Goto(w, s)
      PROVE  OnErrand(w) /\ GoesOn(w)
  BY <1>0, <1>1 DEF Goto, OnErrand, GoesOn
<1>2. ASSUME NEW s \in {"create", "claim", "propose"}, NEW k,
             pc' = [pc EXCEPT ![w] = s], worker' = [worker EXCEPT ![w].n = k]
      PROVE  OnErrand(w) /\ GoesOn(w)
  BY <1>0, <1>2 DEF OnErrand, GoesOn, Locals
<1>3. NextCandidate(w) => OnErrand(w) /\ GoesOn(w)
  BY <1>1, <1>2 DEF NextCandidate
<1>4. CASE Revoke(w) \/ Rebind(w) \/ RevokeStale(w) \/ Propose(w)
  BY <1>1, <1>4 DEF Revoke, Rebind, RevokeStale, Propose
<1>5. CASE SeedCreate(w) \/ SeedClaim(w)
  BY <1>1, <1>2, <1>5 DEF SeedCreate, SeedClaim, NextItem
<1>6. CASE Reject(w) \/ Mark(w) \/ Commit(w)
  BY <1>1, <1>3, <1>6 DEF Reject, Mark, Commit
<1> QED BY <1>4, <1>5, <1>6 DEF Calls

\* Who calls the store owns what it writes to.
LEMMA CallersOwn ==
  ASSUME SerialInv, NEW w \in Workers, Calls(w)
  PROVE  Owner(w) /\ Knows(pc[w], worker[w])
<1>1. FenceHolds(Fence(w))
  BY DEF Calls, Revoke, Rebind, RevokeStale, SeedCreate, SeedClaim, Propose, Reject, Mark,
         Commit, RevokeIfRevisionCurrent, RebindPlan, RevokeIfStale, Withdraw, CreateWork, Claim,
         AddPlan, RejectPlan, MarkVerified, CommitPlan
<1>2. pc[w] \notin {"idle", "advance", "done"}
  BY DEF Calls, Revoke, Rebind, RevokeStale, SeedCreate, SeedClaim, Propose, Reject, Mark, Commit
<1> QED BY <1>1, <1>2 DEF Owner, SerialInv, OwnersKnow

LEMMA EndsOnErrand ==
  ASSUME MembraneInv, NEW w \in Workers, Complete(w) \/ Abandon(w)
  PROVE  OnErrand(w)
<1>0. pc \in [Workers -> Steps] /\ worker \in [Workers -> Locals] /\ worker[w] \in Locals
  BY DEF MembraneInv, MembraneTypeOK, Locals
<1> QED BY <1>0 DEF Complete, Abandon, End, OnErrand, Locals

-----------------------------------------------------------------------------
(* Events come one at a time *)

\* No event opens or reopens.
EventsGoOn ==
  \A e \in Events :
    /\ ledger'[e].revision = ledger[e].revision
    /\ ledger'[e].stage \in Pending => ledger[e].stage \in Pending
    /\ ledger[e].stage = "applied" => ledger'[e].stage = "applied"
    /\ ledger[e].stage = "unseen" => ledger'[e].stage = "unseen"

\* Nothing new is brought: nobody sets out, no event opens, the world stands.
LEMMA ErrandsGoOn ==
  ASSUME SerialInv, [MembraneNext]_vars, UNCHANGED revision,
         \A v \in Workers : (pc'[v] = pc[v] /\ worker'[v] = worker[v]) \/ (OnErrand(v) /\ pc[v] # "idle"),
         \A v \in Workers : Owner(v)' /\ worker'[v].event = NoEvent => Owner(v),
         EventsGoOn
  PROVE  OneAtATime'
<1>0. worker \in [Workers -> Locals] /\ pc \in [Workers -> Steps]
  BY InRange
<1>1. \A v \in Workers : Live(v)' => Live(v) /\ worker'[v].event = worker[v].event
  <2> SUFFICES ASSUME NEW v \in Workers, Live(v)'
               PROVE  Live(v) /\ worker'[v].event = worker[v].event
    OBVIOUS
  <2>1. pc'[v] # "idle" /\ pc[v] # "idle" /\ worker'[v].event = worker[v].event
    BY DEF Live, OnErrand
  <2>2. worker[v].event \in Events \cup {NoEvent}
    BY <1>0 DEF Locals
  <2>3. ~Finished(v)
    BY <2>1, <2>2 DEF Live, Finished, EventsGoOn
  <2> QED BY <2>1, <2>3 DEF Live
<1>3. \A v \in Workers : Owner(v)' /\ worker'[v].event = NoEvent => worker[v].event = NoEvent
  BY DEF OnErrand, Owner
<1> USE DEF SerialInv, OneAtATime, EventsGoOn
<1>4. /\ \A v, w \in Workers : v # w /\ Live(v)' /\ Live(w)' =>
            worker'[v].event = worker'[w].event /\ worker'[v].event # NoEvent
      /\ \A w \in Workers, e \in Events :
            Live(w)' /\ ledger'[e].stage \in Pending => worker'[w].event = e
  BY <1>1
<1>5. /\ \A d, e \in Events : ledger'[d].stage \in Pending /\ ledger'[e].stage \in Pending => d = e
      /\ \A e \in Events : ledger'[e].stage \in Pending =>
            ledger'[e].revision = revision'
  OBVIOUS
<1>7. \A w \in Workers : Owner(w)' /\ worker'[w].event = NoEvent =>
        \A e \in Events : ledger'[e].stage = "unseen" \/ ledger'[e].revision # revision'
  BY <1>3
<1> QED BY <1>4, <1>5, <1>7

\* An event is let in when nothing else is about.
LEMMA OpensAlone ==
  ASSUME SerialInv, Traffic = "one_at_a_time", NEW w \in Workers, Opens(w)
  PROVE  OneAtATime' /\ OnlyMoves(w) /\ UNCHANGED <<storeVars, history>>
<1>0. /\ worker \in [Workers -> Locals] /\ pc \in [Workers -> Steps] /\ MembraneInv
      /\ \A v \in Workers : worker[v].event \in Events \cup {NoEvent}
  BY InRange DEF Locals
<1>1. PICK e \in Events \cup {NoEvent} :
        (StartRun(w) /\ e = NoEvent) \/ \E x \in Forecasts : Begin(w, e, x)
  <2>1. CASE StartRun(w)
    BY <2>1
  <2>2. CASE Trigger(w)
    BY <2>2, TrafficAssumption DEF Trigger
  <2>3. CASE \E e \in Events : Deliver(w, e)
    BY <2>3, ForecastAssumption DEF Deliver
  <2> QED BY <2>1, <2>2, <2>3 DEF Opens
<1>2. OnlyMoves(w) /\ UNCHANGED <<storeVars, history>>
  BY <1>0, <1>1, InternalStep DEF Internal, StartRun, Begin, LocalOnly
<1>3. /\ pc'[w] \in {"run", "advance"}
      /\ pc'[w] = "run" => StartRun(w)
      /\ worker'[w].event = e /\ worker'[w].fence = Unfenced
      /\ \A v \in Workers \ {w} : pc'[v] = pc[v] /\ worker'[v] = worker[v]
  <2>1. \A v \in Workers \ {w} : pc'[v] = pc[v] /\ worker'[v] = worker[v]
    BY <1>2 DEF OnlyMoves
  <2>2. CASE StartRun(w) /\ e = NoEvent
    BY <1>0, <2>1, <2>2 DEF StartRun, Idle
  <2>3. CASE \E x \in Forecasts : Begin(w, e, x)
    BY <1>0, <2>1, <2>3 DEF Begin, Idle
  <2> QED BY <1>1, <2>2, <2>3
<1>4. /\ \A v \in Workers : Live(v) => e # NoEvent /\ worker[v].event = e
      /\ \A d \in Events \ {e} : ledger[d].stage \notin Pending
  <2>1. CASE StartRun(w)
    BY <2>1 DEF StartRun, SerialInv, NotYetLaunched, Live, Pending
  <2>2. CASE \E x \in Forecasts : Begin(w, e, x)
    BY <2>2 DEF Begin, Admitted, Live
  <2> QED BY <1>1, <2>1, <2>2
<1>5. UNCHANGED <<ledger, revision>>
  BY <1>2 DEF storeVars
<1>6. \A v \in Workers : v # w /\ Live(v)' => Live(v) /\ worker'[v] = worker[v]
  BY <1>3, <1>5 DEF Live, Finished
<1> USE DEF SerialInv, OneAtATime
<1>7. \A u, v \in Workers : u # v /\ Live(u)' /\ Live(v)' =>
        worker'[u].event = worker'[v].event /\ worker'[u].event # NoEvent
  BY <1>3, <1>4, <1>6
<1>8. \A v \in Workers, d \in Events :
        Live(v)' /\ ledger'[d].stage \in Pending => worker'[v].event = d
  BY <1>3, <1>4, <1>5, <1>6
<1>10. \A v \in Workers : Owner(v)' /\ worker'[v].event = NoEvent =>
         \A d \in Events : ledger'[d].stage = "unseen" \/ ledger'[d].revision # revision'
  <2>1. CASE pc'[w] = "advance"
    <3> SUFFICES ASSUME NEW v \in Workers, Owner(v)', worker'[v].event = NoEvent
                 PROVE  \A d \in Events : ledger[d].stage = "unseen" \/ ledger[d].revision # revision
      BY <1>5
    <3>1. v # w
      BY <2>1 DEF Owner
    <3>2. worker[v].event = NoEvent /\ pc[v] = pc'[v] /\ FenceHolds(Fence(v))
      BY <1>3, <1>5, <3>1 DEF Owner, FenceHolds, CurrentAttempt, Fence
    <3> QED BY <3>2 DEF Owner
  <2>2. CASE pc'[w] = "run"
    BY <1>3, <1>5, <2>2 DEF StartRun, NotYetLaunched
  <2> QED BY <1>3, <2>1, <2>2
<1> QED BY <1>2, <1>5, <1>7, <1>8, <1>10

LEMMA LearntIsOnRecord ==
  ASSUME truth \in [0..MaxRevision -> SUBSET Forecasts], NEW r \in 0..MaxRevision, NEW x, Learns(r, x)
  PROVE  x \in truth'[r]
BY DEF Learns

\* New truth comes while no event is pending and nobody else owns anything.
LEMMA TruthMovesAlone ==
  ASSUME SerialInv, [MembraneNext]_vars, NEW w \in Workers, Absorb(w) \/ AbsorbTrigger(w)
  PROVE  /\ OneAtATime' /\ OnlyMoves(w) /\ OnErrand(w) /\ pc'[w] = "committed"
         /\ \A v \in Workers \ {w} : ~Owner(v)
         /\ revision' = revision + 1 /\ revision < MaxRevision
         /\ worker'[w].moved = revision' /\ worker'[w].forecast \in truth'[revision']
         /\ UNCHANGED <<plans, committed, work, launched>>
<1>0. /\ worker \in [Workers -> Locals] /\ pc \in [Workers -> Steps] /\ MembraneInv /\ TypeOK
      /\ worker[w] \in Locals /\ revision \in Nat
      /\ truth \in [0..MaxRevision -> SUBSET Forecasts]
  BY InRange
<1>1. CASE AbsorbTrigger(w)
  <2>1. /\ revision' = revision + 1 /\ revision < MaxRevision
        /\ Learns(revision', worker[w].forecast)
        /\ UNCHANGED <<plans, committed, work, launched, ledger>>
        /\ worker' = [worker EXCEPT ![w].moved = revision']
        /\ pc[w] = "advance" /\ pc' = [pc EXCEPT ![w] = "committed"] /\ worker[w].event = NoEvent
    BY <1>1 DEF AbsorbTrigger, AbsorbUnidentified, Forecast
  <2>2. /\ pc'[w] = "committed" /\ \A v \in Workers \ {w} : pc'[v] = pc[v] /\ worker'[v] = worker[v]
        /\ worker'[w].event = NoEvent /\ worker'[w].fence = worker[w].fence
        /\ worker'[w].moved = revision' /\ worker'[w].forecast = worker[w].forecast
    BY <1>0, <2>1 DEF Locals
  <2>10. worker'[w].forecast \in truth'[revision']
    <3>1. revision' \in 0..MaxRevision
      BY <1>0, <2>1, BoundAssumption
    <3> QED BY <1>0, <2>1, <2>2, <3>1, LearntIsOnRecord
  <2>3. OnlyMoves(w) /\ OnErrand(w)
    <3>1. MembraneInv' /\ LocalOK(pc[w], worker[w])'
      BY MembraneStep, <1>0 DEF MembraneInv
    <3>2. pc' \in [Workers -> Steps] /\ worker' \in [Workers -> Locals]
      BY <3>1 DEF MembraneInv, MembraneTypeOK, Locals
    <3> QED BY <1>0, <2>1, <2>2, <3>1, <3>2 DEF OnlyMoves, OnErrand
  <2>4. \A v \in Workers \ {w} : ~Owner(v)
    BY <2>1, NewTruthComesAlone
  <2>5. Live(w) /\ \A v \in Workers \ {w} : ~Live(v)
    <3>1. Live(w)
      BY <2>1 DEF Live, Finished
    <3> QED BY <2>1, <3>1 DEF SerialInv, OneAtATime
  <2>6. \A e \in Events : ledger[e].stage \notin Pending
    BY <2>1, <2>5, NoEventAssumption DEF SerialInv, OneAtATime
  <2>7. \A v \in Workers \ {w} : ~Live(v)' /\ ~Owner(v)'
    <3> SUFFICES ASSUME NEW v \in Workers, v # w PROVE ~Live(v)' /\ ~Owner(v)'
      OBVIOUS
    <3>1. ~Live(v)'
      BY <2>1, <2>2, <2>5 DEF Live, Finished
    <3>2. Owner(v)' => Owner(v)
      BY <2>1, <2>2, OwnersStay DEF Fence
    <3> QED BY <2>4, <3>1, <3>2
  <2>8. \A e \in Events : ledger[e].revision # revision + 1
    BY <1>0 DEF SerialInv, EventsOwnTheirRevisions
  <2>9. OneAtATime'
    BY <2>1, <2>6, <2>7, <2>8 DEF SerialInv, OneAtATime
  <2> QED BY <2>1, <2>2, <2>3, <2>4, <2>9, <2>10
<1>2. CASE Absorb(w)
  <2> DEFINE e == worker[w].event
  <2>1. /\ revision' = revision + 1 /\ revision < MaxRevision
        /\ UNCHANGED <<plans, committed, work, launched>>
        /\ pc[w] = "advance" /\ pc' = [pc EXCEPT ![w] = "committed"] /\ e \in Events
        /\ ledger[e].stage = "unseen"
        /\ ledger' = [ledger EXCEPT ![e] =
                        [stage |-> "in_progress", revision |-> revision + 1, attempt |-> 1]]
    BY <1>0, <1>2 DEF Absorb, AbsorbEvent, Locals
  <2>2. /\ ledger'[e].stage = "in_progress" /\ ledger'[e].revision = revision'
        /\ \A d \in Events \ {e} : ledger'[d] = ledger[d]
    BY <1>0, <2>1 DEF TypeOK
  <2>3. pc'[w] = "committed" /\ OnlyMoves(w) /\ OnErrand(w)
    <3>1. OnlyMoves(w)
      BY <1>0, <1>2, AbsorbsOrResumes
    <3>2. pc'[w] = "committed" /\ worker'[w].event = e
      BY <1>0, <1>2 DEF Absorb, TakeLease, Locals
    <3> QED BY <3>1, <3>2 DEF OnErrand
  <2>4. \A v \in Workers \ {w} : ~Owner(v)
    BY <2>1, NewTruthComesAlone
  <2>5. Live(w) /\ e # NoEvent
    BY <2>1, NoEventAssumption DEF Live, Finished
  <2>6. \A d \in Events : ledger[d].stage \notin Pending
    BY <2>1, <2>5 DEF SerialInv, OneAtATime, Pending
  <2>7. \A v \in Workers : Live(v)' => Live(v) /\ worker'[v].event = e
    <3> SUFFICES ASSUME NEW v \in Workers, v # w, Live(v)' PROVE Live(v) /\ worker'[v].event = e
      BY <2>3, <2>5 DEF OnErrand
    <3>1. pc'[v] = pc[v] /\ worker'[v] = worker[v] /\ worker[v].event \in Events \cup {NoEvent}
      BY <1>0, <2>3 DEF OnlyMoves, Locals
    <3>2. Live(v)
      BY <2>1, <2>2, <3>1 DEF Live, Finished
    <3> QED BY <2>5, <3>1, <3>2 DEF SerialInv, OneAtATime
  <2>8. \A v \in Workers \ {w} : ~Owner(v)'
    <3> SUFFICES ASSUME NEW v \in Workers, v # w, Owner(v)' PROVE FALSE
      OBVIOUS
    <3>1. pc'[v] = pc[v] /\ worker'[v] = worker[v]
      BY <2>3 DEF OnlyMoves
    <3> QED BY <2>4, <3>1, OwnersStay DEF Fence
  <2>9. worker'[w].moved = revision' /\ worker'[w].forecast \in truth'[revision']
    <3>1. revision' \in 0..MaxRevision
      BY <1>0, <2>1, BoundAssumption
    <3>2. /\ worker'[w].moved = revision' /\ worker'[w].forecast = worker[w].forecast
          /\ Learns(revision', worker[w].forecast)
      BY <1>0, <1>2, <2>2 DEF Absorb, TakeLease, Locals, Forecast
    <3> QED BY <1>0, <3>1, <3>2, LearntIsOnRecord
  <2>11. OneAtATime'
    BY <2>2, <2>3, <2>5, <2>6, <2>7, <2>8 DEF OneAtATime, OnErrand
  <2> QED BY <2>1, <2>3, <2>4, <2>9, <2>11
<1> QED BY <1>1, <1>2

LEMMA ResumesOnErrand ==
  ASSUME SerialInv, NEW w \in Workers, Resume(w)
  PROVE  /\ OnlyMoves(w) /\ OnErrand(w) /\ pc[w] = "advance" /\ pc'[w] = "committed"
         /\ worker[w].event \in Events /\ ledger[worker[w].event].stage \in Pending
         /\ ledger' = [ledger EXCEPT ![worker[w].event].stage = "in_progress",
                                     ![worker[w].event].attempt = @ + 1]
         /\ worker'[w].moved = revision /\ worker'[w].forecast \in truth'[revision]
         /\ UNCHANGED <<revision, concluded, plans, committed, work, launched>>
<1>0. /\ worker \in [Workers -> Locals] /\ pc \in [Workers -> Steps] /\ MembraneInv
      /\ worker[w] \in Locals /\ TypeOK /\ revision \in 0..MaxRevision
      /\ truth \in [0..MaxRevision -> SUBSET Forecasts]
  BY InRange
<1>1. OnlyMoves(w)
  BY <1>0, AbsorbsOrResumes
<1>2. /\ pc'[w] = "committed" /\ worker'[w].event = worker[w].event
      /\ worker'[w].forecast = worker[w].forecast
      /\ worker'[w].moved = ledger'[worker[w].event].revision
      /\ Learns(ledger'[worker[w].event].revision, worker[w].forecast)
  BY <1>0 DEF Resume, TakeLease, Locals, Forecast
<1>3. /\ pc[w] = "advance" /\ worker[w].event \in Events /\ ledger[worker[w].event].stage \in Pending
      /\ ledger' = [ledger EXCEPT ![worker[w].event].stage = "in_progress",
                                  ![worker[w].event].attempt = @ + 1]
      /\ UNCHANGED <<revision, plans, committed, work, launched>>
  BY <1>0 DEF Resume, ResumeEvent, Locals, Pending
<1>4. ledger'[worker[w].event].revision = revision
  <2>1. ledger'[worker[w].event].revision = ledger[worker[w].event].revision
    BY <1>0, <1>3 DEF TypeOK, LedgerEntry
  <2> QED BY <1>3, <2>1 DEF SerialInv, OneAtATime
<1>5. worker'[w].moved = revision /\ worker'[w].forecast \in truth'[revision] /\ UNCHANGED concluded
  BY <1>0, <1>2, <1>4, LearntIsOnRecord DEF Learns
<1> QED BY <1>1, <1>2, <1>3, <1>5 DEF OnErrand

LEMMA AnAttemptGoesOn ==
  ASSUME TypeOK, NEW e \in Events, ledger[e].stage \in Pending, NEW t,
         ledger' = [ledger EXCEPT ![e] = t],
         t.revision = ledger[e].revision, t.stage \in Pending \cup {"applied"}
  PROVE  EventsGoOn
<1>1. ledger'[e] = t /\ \A d \in Events \ {e} : ledger'[d] = ledger[d]
  BY DEF TypeOK
<1> QED BY <1>1 DEF EventsGoOn, Pending

LEMMA OneAtATimeStep ==
  ASSUME SerialInv, Traffic = "one_at_a_time", [MembraneNext]_vars
  PROVE  OneAtATime'
<1>0. MembraneInv /\ TypeOK /\ \A v \in Workers : worker[v].event \in Events \cup {NoEvent}
  BY InRange DEF Locals
<1>1. ASSUME NEW w \in Workers, OnlyMoves(w), OnErrand(w), pc[w] # "idle", UNCHANGED revision,
             Owner(w)' /\ worker'[w].event = NoEvent => Owner(w),
             EventsGoOn
      PROVE  OneAtATime'
  <2>1. \A v \in Workers : Owner(v)' /\ worker'[v].event = NoEvent => Owner(v)
    BY <1>1, OwnersStay DEF OnlyMoves, Fence
  <2> QED BY <1>1, <2>1, ErrandsGoOn DEF OnlyMoves
<1>2. ASSUME NEW w \in Workers, OnlyMoves(w), OnErrand(w), UNCHANGED <<revision, ledger>>,
             pc'[w] = "idle" \/ worker'[w].fence = worker[w].fence, pc[w] \notin {"idle", "advance", "done"}
      PROVE  OneAtATime'
  <2>1. Owner(w)' => Owner(w)
    BY <1>2 DEF Owner, FenceHolds, CurrentAttempt, Fence
  <2>2. EventsGoOn
    BY <1>2 DEF EventsGoOn
  <2> QED BY <1>1, <1>2, <2>1, <2>2
<1>3. ASSUME NEW w \in Workers, Inward(w)
      PROVE  OneAtATime'
  <2>1. /\ UNCHANGED <<ledger, revision>> /\ OnlyMoves(w) /\ OnErrand(w) /\ pc[w] # "idle"
        /\ pc'[w] = "idle" \/ worker'[w].fence = worker[w].fence
    BY <1>0, <1>3, InwardIsInternal, InwardKeepsErrand DEF storeVars
  <2>2. CASE pc[w] \notin {"idle", "advance", "done"}
    BY <1>2, <2>1, <2>2
  <2>3. CASE pc[w] \in {"advance", "done"}
    <3>1. pc \in [Workers -> Steps]
      BY InRange
    <3>2. pc'[w] \in {"done", "idle"}
      BY <1>3, <2>3, <3>1
         DEF Inward, Dismiss, ReadCommitted, Observe, Judge, ReadWorld, FetchPlan, Weigh,
             Evicted, Outlived, Fails, Breaks, Dies, Retire, End, FencedSteps, ReadSteps
    <3>3. EventsGoOn
      BY <2>1 DEF EventsGoOn
    <3>4. ~Owner(w)'
      BY <3>2 DEF Owner
    <3> QED BY <1>1, <2>1, <3>3, <3>4
  <2> QED BY <2>1, <2>2, <2>3
<1>4. ASSUME NEW w \in Workers, Calls(w)
      PROVE  OneAtATime'
  <2>1. /\ UNCHANGED <<ledger, revision>> /\ OnlyMoves(w) /\ OnErrand(w)
        /\ worker'[w].fence = worker[w].fence
    BY <1>0, <1>4, CallIsACall, CallMoves, CallKeepsErrand
  <2>2. pc[w] \notin {"idle", "advance", "done"}
    BY <1>4, CallersOwn DEF Owner
  <2> QED BY <1>2, <2>1, <2>2
<1>5. ASSUME NEW w \in Workers, Complete(w) \/ Abandon(w)
      PROVE  OneAtATime'
  <2>1. /\ UNCHANGED revision /\ OnlyMoves(w) /\ OnErrand(w) /\ pc[w] # "idle"
        /\ pc'[w] = "done"
    BY <1>0, <1>5, EndsIt, EndsOnErrand DEF Complete, Abandon, storeVars, CompleteEvent, AbandonEvent
  <2>2. EventsGoOn
    <3>1. CASE UNCHANGED storeVars
      BY <3>1 DEF storeVars, EventsGoOn
    <3>2. ASSUME NEW e \in Events, NEW f, CompleteEvent(e, f) \/ AbandonEvent(e, f)
          PROVE  EventsGoOn
      <4>1. PICK s \in {"applied", "abandoned"} :
              ledger[e].stage \in Pending /\ ledger' = [ledger EXCEPT ![e].stage = s]
        BY <3>2 DEF CompleteEvent, AbandonEvent, Pending
      <4>2. PICK t : t = [ledger[e] EXCEPT !.stage = s]
        OBVIOUS
      <4>3. t.revision = ledger[e].revision /\ t.stage \in Pending \cup {"applied"}
        BY <1>0, <4>2 DEF TypeOK, LedgerEntry, Pending
      <4>4. ledger' = [ledger EXCEPT ![e] = t]
        BY <1>0, <4>1, <4>2 DEF TypeOK
      <4> QED BY <1>0, <4>1, <4>3, <4>4, AnAttemptGoesOn
    <3> QED BY <1>0, <1>5, <3>1, <3>2, EndsIt
  <2>3. ~Owner(w)'
    BY <2>1 DEF Owner
  <2> QED BY <1>1, <2>1, <2>2, <2>3
<1>6. ASSUME NEW w \in Workers, Resume(w)
      PROVE  OneAtATime'
  <2>1. /\ OnlyMoves(w) /\ OnErrand(w) /\ pc[w] = "advance" /\ UNCHANGED revision
        /\ pc'[w] = "committed" /\ worker[w].event \in Events /\ ledger[worker[w].event].stage \in Pending
    BY <1>6, ResumesOnErrand
  <2>2. worker'[w].event # NoEvent
    BY <2>1, NoEventAssumption DEF OnErrand
  <2>3. EventsGoOn
    <3>1. PICK e \in Events : e = worker[w].event
      BY <2>1
    <3> DEFINE t == ledger'[e]
    <3>2. /\ ledger' = [ledger EXCEPT ![e].stage = "in_progress", ![e].attempt = @ + 1]
          /\ ledger[e] \in LedgerEntry
      BY <1>0, <1>6, <3>1, ResumesOnErrand DEF TypeOK
    <3>3. t.revision = ledger[e].revision /\ t.stage \in Pending \cup {"applied"}
      BY <1>0, <3>1, <3>2 DEF TypeOK, LedgerEntry, Pending
    <3>4. ledger' = [ledger EXCEPT ![e] = t]
      BY <1>0, <3>1, <3>2 DEF TypeOK
    <3> HIDE DEF t
    <3> QED BY <1>0, <2>1, <3>1, <3>3, <3>4, AnAttemptGoesOn
  <2> QED BY <1>1, <2>1, <2>2, <2>3
<1>7. ASSUME UNCHANGED <<revision, workerVars>>,
             EventsGoOn
      PROVE  OneAtATime'
  <2>1. \A v \in Workers : pc'[v] = pc[v] /\ worker'[v] = worker[v]
    BY <1>7 DEF workerVars
  <2>2. \A v \in Workers : Owner(v)' => Owner(v)
    BY <2>1, OwnersStay DEF Fence
  <2> QED BY <1>7, <2>1, <2>2, ErrandsGoOn
<1>8. ASSUME NEW e \in Events, Silence(e)
      PROVE  OneAtATime'
  BY <1>0, <1>7, <1>8 DEF Silence, LeaseLapses, Pending, TypeOK, LedgerEntry, EventsGoOn
<1>9. ASSUME NEW i \in WorkItems, OutsiderClaims(i)
      PROVE  OneAtATime'
  BY <1>7, <1>9 DEF OutsiderClaims, Claim, EventsGoOn
<1>10. CASE UNCHANGED vars
  BY <1>7, <1>10 DEF vars, storeVars, EventsGoOn
<1> QED
  BY <1>3, <1>4, <1>5, <1>6, <1>8, <1>9, <1>10, SerialCases, OpensAlone, TruthMovesAlone

-----------------------------------------------------------------------------
(* What the owner knows *)

LEMMA InwardOwnersKnow ==
  ASSUME SerialInv, [MembraneNext]_vars, NEW w \in Workers, Inward(w)
  PROVE  OwnersKnow'
<1> DEFINE x == worker[w]
           y == worker'[w]
<1>0. /\ pc \in [Workers -> Steps] /\ worker \in [Workers -> Locals] /\ x \in Locals
      /\ LocalOK(pc[w], x) /\ MembraneInv /\ PlansAreNamed /\ NamedIn(PlanIds)
      /\ revision \in 0..MaxRevision /\ truth \in [0..MaxRevision -> SUBSET Forecasts]
  BY InRange DEF MembraneInv, SerialInv
<1>1. /\ UNCHANGED <<revision, ledger, plans, committed>> /\ OnlyMoves(w)
      /\ truth[revision] \subseteq truth'[revision]
  BY <1>0, InwardIsInternal, TruthIsKept DEF storeVars, TruthGrows
<1>2. ASSUME Owner(w)'
      PROVE  Knows(pc[w], worker[w])'
  <2>1. /\ ~Dismiss(w) /\ ~Evicted(w) /\ ~Breaks(w) /\ ~Dies(w) /\ ~Retire(w)
    BY <1>0, <1>2 DEF Owner, Dismiss, Evicted, Breaks, Dies, Retire, End
  <2>2. Knows(pc[w], x) /\ FenceHolds(Fence(w))
    <3>1. pc[w] \notin {"idle", "advance", "done"} /\ y.fence = x.fence
      BY <1>0, <2>1 DEF Inward, ReadCommitted, Observe, Judge, ReadWorld, FetchPlan, Weigh, Outlived,
                        Fails, Goto, FencedSteps, ReadSteps, Locals
    <3>2. Owner(w)
      BY <1>1, <1>2, <3>1 DEF Owner, FenceHolds, CurrentAttempt, Fence
    <3> QED BY <3>2 DEF SerialInv, OwnersKnow, Owner
  <2> USE DEF Knows, Judging, Seeding, Planning
  <2>3. CASE Outlived(w)
    BY <2>2, <2>3 DEF Outlived, AlreadyApplied, FenceHolds, CurrentAttempt, Pending
  <2>4. CASE Fails(w)
    <3>1. pc'[w] = "abandon" /\ y.moved = x.moved
      BY <1>0, <2>4 DEF Fails, Locals
    <3> QED BY <1>1, <2>2, <3>1
  <2>5. CASE ReadCommitted(w)
    <3>1. /\ pc'[w] = IF committed = NoPlan THEN "run" ELSE "observe"
          /\ y.forecast = x.forecast /\ y.plan = committed /\ y.moved = x.moved
          /\ pc[w] = "committed"
      BY <1>0, <2>5 DEF ReadCommitted, Locals
    <3> QED BY <1>1, <2>2, <3>1
  <2>6. CASE Observe(w)
    <3>1. /\ pc[w] = "observe" /\ pc'[w] = "judge"
          /\ y.forecast = x.forecast /\ y.plan = x.plan /\ y.rev = revision /\ y.moved = x.moved
      BY <1>0, <2>6 DEF Observe, Locals
    <3> QED BY <1>1, <2>2, <3>1
  <2>7. CASE Judge(w)
    <3>1. /\ pc[w] = "judge" /\ y = x
          /\ pc'[w] = IF Feasible(x.forecast, plans[x.plan].proposal) THEN "rebind" ELSE "revoke"
      BY <1>0, <2>7 DEF Judge, Goto, Forecast
    <3>2. plans[x.plan].proposal = x.plan
      BY <1>0, <2>2, <3>1, NoPlanAssumption DEF PlansAreNamed, NamedIn, LocalOK
    <3> QED BY <1>1, <2>2, <3>1, <3>2
  <2>8. CASE ReadWorld(w)
    <3>1. PICK f \in Answers(w) :
            /\ worker' = [worker EXCEPT ![w].rev = revision, ![w].n = 1, ![w].forecast = f]
            /\ Learns(x.moved, f)
      BY <2>8 DEF ReadWorld
    <3>2. /\ pc[w] = "run" /\ pc'[w] = "create"
          /\ y.forecast = f /\ y.rev = revision /\ y.moved = x.moved
      BY <1>0, <2>8, <3>1 DEF ReadWorld, Locals
    <3>3. f \in truth'[revision]
      BY <1>0, <2>2, <3>1, LearntIsOnRecord
    <3> QED BY <1>1, <2>2, <3>2, <3>3
  <2>9. CASE FetchPlan(w)
    <3>1. /\ pc[w] = "fetch" /\ pc'[w] = "weigh"
          /\ y.forecast = x.forecast /\ y.rev = x.rev /\ y.n = x.n /\ y.basis = plans[x.n].basis
          /\ y.moved = x.moved
      BY <1>0, <2>9 DEF FetchPlan, Locals
    <3> QED BY <1>1, <2>2, <3>1 DEF Known, BoundToWorld, WorldStandsAt
  <2>10. CASE Weigh(w)
    <3>1. /\ pc[w] = "weigh" /\ y = x
          /\ pc'[w] = IF WorldStandsAt(x.basis) /\ Feasible(x.forecast, x.n) THEN "mark" ELSE "reject"
      BY <1>0, <2>10 DEF Weigh, Goto, Forecast
    <3> QED BY <1>1, <2>2, <3>1 DEF Known, BoundToWorld, WorldStandsAt
  <2> QED BY <2>1, <2>3, <2>4, <2>5, <2>6, <2>7, <2>8, <2>9, <2>10 DEF Inward
<1> QED BY <1>1, <1>2, OthersKnow

\* The last candidate refused, all have been: there is honestly none.
LEMMA TriedThemAll ==
  ASSUME NEW x, x.n = Candidates, \A k \in 1..(x.n - 1) : ~Feasible(x.forecast, k),
         ~Feasible(x.forecast, x.n), committed = NoPlan, Uncontested
  PROVE  Honest(x.forecast)
<1>1. \A k \in 1..Candidates : k \in 1..(Candidates - 1) \/ k = Candidates
  BY CandidatesAssumption
<1> QED BY <1>1 DEF Honest, Uncontested

LEMMA CallOwnersKnow ==
  ASSUME SerialInv, [MembraneNext]_vars, NEW w \in Workers, Calls(w)
  PROVE  OwnersKnow'
<1> DEFINE x == worker[w]
           y == worker'[w]
<1>0. /\ pc \in [Workers -> Steps] /\ worker \in [Workers -> Locals] /\ x \in Locals
      /\ LocalOK(pc[w], x) /\ MembraneInv /\ PlansAreNamed /\ TypeOK
      /\ Candidates \in Nat \ {0} /\ 1..Candidates \subseteq PlanIds /\ NamedIn(PlanIds)
  BY InRange, CandidatesAssumption DEF MembraneInv, SerialInv
<1>1. UNCHANGED <<revision, ledger, truth>> /\ OnlyMoves(w)
  BY <1>0, CallIsACall, CallMoves DEF history
<1>2. Owner(w) /\ Knows(pc[w], x)
  BY CallersOwn
<1>3. \A v \in Workers \ {w} : ~Owner(v)
  BY <1>2, OneOwner
<1> USE DEF Knows, Judging, Seeding, Planning
<1>4. ASSUME NextCandidate(w), pc[w] \in Planning, ~Feasible(x.forecast, x.n), committed' = NoPlan
      PROVE  Knows(pc[w], worker[w])'
  <2>1. x.n \in 1..Candidates
    BY <1>0, <1>4 DEF LocalOK
  <2>2. CASE x.n < Candidates
    <3>1. /\ pc'[w] = "propose" /\ y.forecast = x.forecast /\ y.rev = x.rev /\ y.n = x.n + 1
          /\ y.moved = x.moved
      BY <1>0, <1>4, <2>2 DEF NextCandidate, Locals
    <3>2. \A k \in 1..(y.n - 1) : k \in 1..(x.n - 1) \/ k = x.n
      BY <2>1, <3>1
    <3> QED BY <1>1, <1>2, <1>4, <3>1, <3>2
  <2>3. CASE ~(x.n < Candidates)
    <3>1. /\ pc'[w] = "complete" /\ y = x /\ x.n = Candidates
      BY <1>0, <1>4, <2>1, <2>3 DEF NextCandidate, Goto
    <3>2. Uncontested => Honest(x.forecast)'
      <4>1. committed = NoPlan
        BY <1>2, <1>4
      <4>2. Uncontested => Honest(x.forecast)
        BY <1>2, <1>4, <3>1, <4>1, TriedThemAll
      <4> QED BY <1>4, <3>1, <4>1, <4>2 DEF Honest
    <3> QED BY <1>1, <1>2, <3>1, <3>2 DEF Uncontested
  <2> QED BY <2>2, <2>3
<1>5. CASE Revoke(w)
  <2>1. pc[w] = "revoke" /\ pc'[w] = "run" /\ y = x /\ committed' = NoPlan
    BY <1>0, <1>2, <1>5 DEF Revoke, Goto, RevokeIfRevisionCurrent, Withdraw, WorldStandsAt
  <2>2. Knows(pc[w], worker[w])'
    BY <1>1, <1>2, <2>1
  <2> QED BY <1>1, <1>3, <2>2, OthersKnow
<1>6. CASE Rebind(w)
  <2>1. /\ pc[w] = "rebind" /\ pc'[w] = "complete" /\ y = x /\ x.rev = revision
    BY <1>0, <1>2, <1>6 DEF Rebind, Goto, WorldStandsAt
  <2>2. /\ plans' = [plans EXCEPT ![x.plan].basis = revision] /\ UNCHANGED committed
        /\ x.plan \in PlanIds /\ x.plan = committed /\ plans[x.plan].proposal = x.plan
    BY <1>0, <1>2, <1>6, <2>1, NoPlanAssumption DEF Rebind, RebindPlan, WorldStandsAt, LocalOK, PlansAreNamed, NamedIn
  <2>3. plans'[x.plan].basis = revision /\ plans'[x.plan].proposal = x.plan
    BY <1>0, <2>2 DEF TypeOK, Plan
  <2>4. Honest(x.forecast)'
    BY <1>1, <1>2, <2>1, <2>2, <2>3, NoPlanAssumption DEF Honest, BoundToWorld, WorldStandsAt
  <2>5. Knows(pc[w], worker[w])'
    BY <1>1, <1>2, <2>1, <2>4
  <2> QED BY <1>1, <1>3, <2>5, OthersKnow
<1>7. CASE RevokeStale(w)
  BY <1>2, <1>7 DEF RevokeStale
<1>8. CASE SeedCreate(w) \/ SeedClaim(w)
  <2>1. UNCHANGED <<plans, committed>>
    BY <1>8 DEF SeedCreate, SeedClaim, CreateWork, Claim
  <2>2. x.n \in 1..Len(Agenda)
    BY <1>0, <1>8 DEF SeedCreate, SeedClaim, LocalOK
  <2>3. Uncontested => ~(pc'[w] = "complete")
    <3> SUFFICES ASSUME Uncontested, pc'[w] = "complete" PROVE FALSE
      OBVIOUS
    <3>1. SeedClaim(w) /\ ~Claimable(Agenda[x.n], Crew[x.n]) /\ Created(Agenda[x.n])
      BY <1>0, <1>8 DEF SeedCreate, SeedClaim, NextItem, Claim, Goto
    <3> QED BY <2>2, <3>1 DEF SerialInv, ItemsAreTheCrews, Claimable, Created
  <2>4. \/ pc'[w] = "complete" /\ y = x
        \/ /\ pc'[w] \in {"create", "claim", "propose"} /\ y.rev = x.rev /\ y.forecast = x.forecast
           /\ pc'[w] = "propose" => y.n = 1
           /\ y.moved = x.moved
    BY <1>0, <1>8 DEF SeedCreate, SeedClaim, NextItem, Goto, Locals
  <2>5. pc[w] \in Seeding
    BY <1>8 DEF SeedCreate, SeedClaim
  <2>6. Knows(pc[w], worker[w])'
    BY <1>1, <1>2, <2>1, <2>3, <2>4, <2>5 DEF Uncontested
  <2> QED BY <1>1, <2>1, <2>6, OthersKnow
<1>9. CASE Propose(w)
  <2>1. /\ pc[w] = "propose" /\ pc'[w] = "fetch" /\ y = x /\ x.n \in PlanIds /\ UNCHANGED committed
        /\ plans' = [plans EXCEPT ![x.n] =
                       [verdict |-> "candidate", basis |-> revision, proposal |-> x.n]]
    BY <1>0, <1>2, <1>9 DEF Propose, Goto, AddPlan, LocalOK
  <2>2. plans'[x.n].verdict = "candidate" /\ plans'[x.n].basis = revision
    BY <1>0, <2>1 DEF TypeOK
  <2>3. Knows(pc[w], worker[w])'
    BY <1>1, <1>2, <2>1, <2>2 DEF Known, BoundToWorld, WorldStandsAt
  <2> QED BY <1>1, <1>3, <2>3, OthersKnow
<1>10. CASE Reject(w)
  <2>1. pc[w] = "reject" /\ UNCHANGED committed /\ NextCandidate(w)
    BY <1>10 DEF Reject, RejectPlan
  <2>2. Knows(pc[w], worker[w])'
    BY <1>2, <1>4, <2>1
  <2> QED BY <1>1, <1>3, <2>2, OthersKnow
<1>11. CASE Mark(w)
  <2>1. /\ pc[w] = "mark" /\ pc'[w] = "commit" /\ y = x /\ x.n \in PlanIds /\ UNCHANGED committed
        /\ plans' = [plans EXCEPT ![x.n].verdict = "verified"]
    BY <1>0, <1>2, <1>11 DEF Mark, MarkVerified, Goto, LocalOK
  <2>2. plans'[x.n].verdict = "verified" /\ plans'[x.n].basis = plans[x.n].basis
    BY <1>0, <2>1 DEF TypeOK, Plan
  <2>3. Knows(pc[w], worker[w])'
    BY <1>1, <1>2, <2>1, <2>2 DEF Known, BoundToWorld, WorldStandsAt
  <2> QED BY <1>1, <1>3, <2>3, OthersKnow
<1>12. CASE Commit(w)
  <2>1. /\ pc[w] = "commit" /\ Committable(x.n)
    BY <1>2, <1>12 DEF Commit, Committable
  <2>2. /\ pc'[w] = "complete" /\ y = x /\ x.n \in PlanIds /\ committed' = x.n /\ UNCHANGED plans
        /\ Feasible(x.forecast, x.n) /\ plans[x.n].proposal = x.n
    BY <1>0, <1>2, <1>12, <2>1 DEF Commit, CommitPlan, Goto, LocalOK, PlansAreNamed, NamedIn
  <2>3. Honest(x.forecast)'
    BY <1>1, <1>2, <2>1, <2>2, NoPlanAssumption DEF Honest, BoundToWorld, WorldStandsAt
  <2>4. Knows(pc[w], worker[w])'
    BY <1>1, <1>2, <2>2, <2>3
  <2> QED BY <1>1, <1>3, <2>4, OthersKnow
<1> QED
  BY <1>5, <1>6, <1>7, <1>8, <1>9, <1>10, <1>11, <1>12 DEF Calls

LEMMA OwnersKnowStep ==
  ASSUME SerialInv, Traffic = "one_at_a_time", [MembraneNext]_vars
  PROVE  OwnersKnow'
<1>0. /\ MembraneInv /\ TypeOK /\ pc \in [Workers -> Steps] /\ worker \in [Workers -> Locals]
      /\ revision \in Nat
  BY InRange
<1>1. ASSUME NEW w \in Workers, Absorb(w) \/ AbsorbTrigger(w)
      PROVE  OwnersKnow'
  <2>1. /\ OnlyMoves(w) /\ pc'[w] = "committed"
        /\ \A v \in Workers \ {w} : ~Owner(v)
        /\ worker'[w].moved = revision' /\ worker'[w].forecast \in truth'[revision']
    BY <1>1, TruthMovesAlone
  <2>3. Knows(pc[w], worker[w])'
    BY <2>1 DEF Knows, Judging, Seeding, Planning
  <2> QED BY <2>1, <2>3, OthersKnow
<1>2. ASSUME NEW w \in Workers, Resume(w)
      PROVE  OwnersKnow'
  <2>1. /\ OnlyMoves(w) /\ pc'[w] = "committed"
        /\ worker'[w].moved = revision /\ worker'[w].forecast \in truth'[revision]
        /\ UNCHANGED <<revision, plans, committed>>
    BY <1>2, ResumesOnErrand
  <2>3. Knows(pc[w], worker[w])'
    BY <2>1 DEF Knows, Judging, Seeding, Planning
  <2> QED BY <2>1, <2>3, OthersKnow
<1>3. ASSUME NEW w \in Workers, Opens(w)
      PROVE  OwnersKnow'
  <2>1. OnlyMoves(w) /\ UNCHANGED <<revision, plans, committed>>
    BY <1>3, OpensAlone DEF storeVars
  <2>2. Owner(w)' => Knows(pc[w], worker[w])'
    <3>1. CASE StartRun(w)
      <4>1. pc'[w] = "run" /\ worker'[w].moved = 0 /\ ~launched
        BY <1>0, <3>1 DEF StartRun, Idle
      <4>2. committed = NoPlan /\ revision = 0
        BY <4>1 DEF SerialInv, NotYetLaunched
      <4> QED BY <2>1, <4>1, <4>2 DEF Knows, Judging, Seeding, Planning
    <3>2. CASE ~StartRun(w)
      <4>1. pc'[w] = "advance"
        BY <1>0, <1>3, <3>2 DEF Opens, Trigger, Deliver, Begin
      <4> QED BY <4>1 DEF Owner
    <3> QED BY <3>1, <3>2
  <2> QED BY <2>1, <2>2, OthersKnow
<1>4. ASSUME NEW w \in Workers, Complete(w) \/ Abandon(w)
      PROVE  OwnersKnow'
  <2>1. OnlyMoves(w) /\ pc'[w] = "done" /\ UNCHANGED <<revision, plans, committed>>
    BY <1>0, <1>4, EndsIt DEF storeVars, CompleteEvent, AbandonEvent
  <2> QED BY <2>1, OthersKnow DEF Owner
<1>5. ASSUME UNCHANGED <<revision, plans, committed, workerVars>>
      PROVE  OwnersKnow'
  <2> SUFFICES ASSUME NEW v \in Workers, Owner(v)' PROVE Knows(pc[v], worker[v])'
    BY DEF OwnersKnow
  <2>1. pc'[v] = pc[v] /\ worker'[v] = worker[v]
    BY <1>5 DEF workerVars
  <2>2. PICK s, x : s = pc[v] /\ x = worker[v]
    OBVIOUS
  <2>3. Knows(s, x)
    BY <2>1, <2>2, OwnersStay DEF SerialInv, OwnersKnow, Fence
  <2> QED BY <1>5, <2>1, <2>2, <2>3, InRange, TruthIsKept, KnowsFrame
<1>6. ASSUME NEW e \in Events, Silence(e)
      PROVE  OwnersKnow'
  BY <1>5, <1>6 DEF Silence, LeaseLapses
<1>7. ASSUME NEW i \in WorkItems, OutsiderClaims(i)
      PROVE  OwnersKnow'
  BY <1>5, <1>7 DEF OutsiderClaims, Claim
<1>8. CASE UNCHANGED vars
  BY <1>5, <1>8 DEF vars, storeVars
<1> QED
  BY <1>1, <1>2, <1>3, <1>4, <1>6, <1>7, <1>8, SerialCases, InwardOwnersKnow, CallOwnersKnow

-----------------------------------------------------------------------------
(* The commitment *)

Standing == CommittedStandsVerified /\ CommittedHoldsInItsWorld /\ BasesAreReached

\* As long as plans and commitment are left alone, new truth takes nothing back.
LEMMA StandingFrame ==
  ASSUME SerialInv, UNCHANGED <<plans, committed>>, TruthGrows,
         revision' \in Nat, revision <= revision'
  PROVE  Standing'
<1>0. TypeOK /\ revision \in Nat
  BY InRange
<1>1. \A p \in PlanIds : plans[p].basis \in 0..MaxRevision /\ plans[p].basis <= revision
  BY <1>0 DEF TypeOK, Plan, SerialInv, BasesAreReached
<1>2. BasesAreReached'
  BY <1>0, <1>1, BoundAssumption DEF BasesAreReached
<1>3. CommittedHoldsInItsWorld'
  BY <1>0, <1>1 DEF SerialInv, CommittedHoldsInItsWorld, TruthGrows, Feasible, TypeOK
<1> QED BY <1>2, <1>3 DEF Standing, SerialInv, CommittedStandsVerified

LEMMA CallsKeepStanding ==
  ASSUME SerialInv, NEW w \in Workers, Calls(w)
  PROVE  Standing'
<1> DEFINE x == worker[w]
<1>0. /\ x \in Locals /\ LocalOK(pc[w], x) /\ MembraneInv /\ PlansAreNamed /\ TypeOK /\ revision \in Nat
      /\ Candidates \in Nat \ {0} /\ 1..Candidates \subseteq PlanIds /\ NamedIn(PlanIds)
  BY InRange, CandidatesAssumption DEF MembraneInv, SerialInv
<1>1. UNCHANGED <<revision, truth>> /\ TruthGrows
  BY <1>0, CallIsACall DEF history, TruthGrows
<1>2. Knows(pc[w], x)
  BY CallersOwn
<1>3. BasesAreReached /\ CommittedHoldsInItsWorld
  BY DEF SerialInv
<1> USE DEF Knows, Judging, Seeding, Planning
<1>4. ASSUME committed' = NoPlan, NEW p \in PlanIds, NEW q, q.basis <= revision,
             plans' = [plans EXCEPT ![p] = q]
      PROVE  Standing'
  <2>1. BasesAreReached'
    BY <1>0, <1>1, <1>3, <1>4 DEF BasesAreReached, TypeOK
  <2> QED BY <1>4, <2>1 DEF Standing, CommittedStandsVerified, CommittedHoldsInItsWorld
<1>5. CASE Revoke(w)
  <2>1. /\ committed' = NoPlan /\ x.plan \in PlanIds
        /\ plans' = [plans EXCEPT ![x.plan].verdict = "rejected"]
    BY <1>0, <1>2, <1>5 DEF Revoke, RevokeIfRevisionCurrent, Withdraw, WorldStandsAt, LocalOK
  <2>2. PICK q : q = [plans[x.plan] EXCEPT !.verdict = "rejected"]
    OBVIOUS
  <2>3. q.basis <= revision /\ plans' = [plans EXCEPT ![x.plan] = q]
    BY <1>0, <1>3, <2>1, <2>2 DEF TypeOK, Plan, BasesAreReached
  <2> QED BY <1>4, <2>1, <2>3
<1>6. CASE Rebind(w)
  <2>1. /\ x.plan \in PlanIds /\ x.plan = committed /\ plans[x.plan].proposal = x.plan
        /\ plans' = [plans EXCEPT ![x.plan].basis = revision] /\ UNCHANGED committed
        /\ Feasible(x.forecast, x.plan) /\ x.forecast \in truth[revision]
    BY <1>0, <1>2, <1>6, NoPlanAssumption DEF Rebind, RebindPlan, WorldStandsAt, LocalOK, PlansAreNamed, NamedIn
  <2>2. /\ plans'[x.plan].basis = revision /\ plans'[x.plan].proposal = x.plan
        /\ plans'[x.plan].verdict = plans[x.plan].verdict
        /\ \A p \in PlanIds \ {x.plan} : plans'[p] = plans[p]
    BY <1>0, <2>1 DEF TypeOK, Plan
  <2>3. BasesAreReached'
    BY <1>0, <1>1, <1>3, <2>2 DEF BasesAreReached
  <2> QED BY <1>1, <2>1, <2>2, <2>3
          DEF Standing, SerialInv, CommittedStandsVerified, CommittedHoldsInItsWorld
<1>7. CASE RevokeStale(w)
  BY <1>2, <1>7 DEF RevokeStale
<1>8. CASE SeedCreate(w) \/ SeedClaim(w)
  <2>1. UNCHANGED <<plans, committed>>
    BY <1>8 DEF SeedCreate, SeedClaim, CreateWork, Claim
  <2> QED BY <1>0, <1>1, <2>1, StandingFrame
<1>9. CASE Propose(w)
  <2>1. /\ x.n \in PlanIds /\ committed' = NoPlan
        /\ plans' = [plans EXCEPT ![x.n] =
                       [verdict |-> "candidate", basis |-> revision, proposal |-> x.n]]
    BY <1>0, <1>2, <1>9 DEF Propose, AddPlan, LocalOK
  <2>2. PICK q : q = [verdict |-> "candidate", basis |-> revision, proposal |-> x.n]
    OBVIOUS
  <2>3. q.basis <= revision
    BY <1>0, <2>2
  <2> QED BY <1>4, <2>1, <2>2, <2>3
<1>10. CASE Reject(w) \/ Mark(w)
  <2>1. PICK v \in {"rejected", "verified"} :
          /\ x.n \in PlanIds /\ committed' = NoPlan /\ plans' = [plans EXCEPT ![x.n].verdict = v]
    BY <1>0, <1>2, <1>10 DEF Reject, Mark, RejectPlan, MarkVerified, LocalOK
  <2>2. PICK q : q = [plans[x.n] EXCEPT !.verdict = v]
    OBVIOUS
  <2>3. q.basis <= revision /\ plans' = [plans EXCEPT ![x.n] = q]
    BY <1>0, <1>3, <2>1, <2>2 DEF TypeOK, Plan, BasesAreReached
  <2> QED BY <1>4, <2>1, <2>3
<1>11. CASE Commit(w)
  <2>1. Committable(x.n)
    BY <1>2, <1>11 DEF Commit, Committable
  <2>2. /\ committed' = x.n /\ UNCHANGED plans /\ plans[x.n].proposal = x.n
        /\ Feasible(x.forecast, x.n) /\ x.n \in PlanIds /\ x.forecast \in truth[revision]
    BY <1>0, <1>2, <1>11, <2>1 DEF Commit, CommitPlan, LocalOK, PlansAreNamed, NamedIn
  <2>3. BasesAreReached'
    BY <1>1, <1>3, <2>2 DEF BasesAreReached
  <2> QED BY <1>1, <2>1, <2>2, <2>3
          DEF Standing, CommittedStandsVerified, CommittedHoldsInItsWorld, Committable,
              BoundToWorld, WorldStandsAt
<1> QED BY <1>5, <1>6, <1>7, <1>8, <1>9, <1>10, <1>11 DEF Calls

LEMMA CallsKeepItems ==
  ASSUME SerialInv, NEW w \in Workers, Calls(w)
  PROVE  ItemsAreTheCrews'
<1> DEFINE x == worker[w]
<1>0. LocalOK(pc[w], x) /\ TypeOK
  BY InRange
<1>1. SUFFICES ASSUME Uncontested, NEW k \in 1..Len(Agenda)
               PROVE  work'[Agenda[k]] \in {NotCreated, Unclaimed, Crew[k]}
  BY DEF ItemsAreTheCrews, Uncontested
<1>2. work[Agenda[k]] \in {NotCreated, Unclaimed, Crew[k]} /\ Agenda[k] \in WorkItems
  BY <1>1, AgendaItems DEF SerialInv, ItemsAreTheCrews
<1>3. CASE SeedCreate(w) \/ SeedClaim(w)
  <2>1. x.n \in 1..Len(Agenda)
    BY <1>0, <1>3 DEF SeedCreate, SeedClaim, LocalOK, Seeding
  <2> QED BY <1>0, <1>1, <1>2, <1>3, <2>1
          DEF SeedCreate, SeedClaim, CreateWork, Claim, Uncontested, TypeOK
<1>4. CASE UNCHANGED work
  BY <1>2, <1>4
<1> QED
  BY <1>3, <1>4 DEF Calls, Revoke, Rebind, RevokeStale, Propose, Reject, Mark, Commit,
     RevokeIfRevisionCurrent, RebindPlan, RevokeIfStale, Withdraw, AddPlan, RejectPlan,
     MarkVerified, CommitPlan

-----------------------------------------------------------------------------
(* The invariant *)

LEMMA SerialOpens == MembraneInit => SerialInv
<1> SUFFICES ASSUME MembraneInit PROVE SerialInv
  OBVIOUS
<1>1. MembraneInv
  BY MembraneOpens
<1>2. /\ \A w \in Workers : pc[w] = "idle" /\ worker[w] = Idle
      /\ revision = 0 /\ committed = NoPlan /\ ~launched
      /\ \A e \in Events : ledger[e] = UnseenEntry
      /\ \A p \in PlanIds : plans[p] = AbsentPlan
      /\ \A i \in WorkItems : work[i] = NotCreated
  BY BoundAssumption DEF MembraneInit, StoreInit
<1>3. EventsOwnTheirRevisions /\ NotYetLaunched /\ AppliedIsHonest
  BY <1>2 DEF EventsOwnTheirRevisions, NotYetLaunched, AppliedIsHonest, UnseenEntry
<1>4. OneAtATime /\ OwnersKnow
  BY <1>2 DEF OneAtATime, OwnersKnow, Live, Owner, Idle, UnseenEntry, Pending
<1>5. BasesAreReached /\ NamedIn(PlanIds) /\ ItemsAreTheCrews
  BY <1>2, AgendaItems DEF BasesAreReached, NamedIn, Known, ItemsAreTheCrews, AbsentPlan
<1>6. CommittedStandsVerified /\ CommittedHoldsInItsWorld
  BY <1>2 DEF CommittedStandsVerified, CommittedHoldsInItsWorld
<1> QED BY <1>1, <1>3, <1>4, <1>5, <1>6 DEF SerialInv

\* Nobody is about before the run is launched.
LEMMA LaunchStep ==
  ASSUME SerialInv, [MembraneNext]_vars
  PROVE  NotYetLaunched'
<1>0. /\ MembraneInv /\ pc \in [Workers -> Steps]
  BY InRange
<1>1. SUFFICES ASSUME ~launched'
               PROVE  UNCHANGED <<pc, ledger, revision, committed, launched>>
  BY DEF NotYetLaunched, SerialInv
<1>2. ASSUME NEW w \in Workers, pc[w] # "idle"
      PROVE  launched
  BY <1>2 DEF SerialInv, NotYetLaunched
<1>3. ASSUME NEW w \in Workers, Inward(w)
      PROVE  FALSE
  BY <1>0, <1>1, <1>2, <1>3, InwardIsInternal
<1>4. ASSUME NEW w \in Workers, Opens(w)
      PROVE  FALSE
  <2>1. CASE StartRun(w)
    BY <1>1, <2>1 DEF StartRun
  <2>2. ASSUME NEW e, NEW x, Begin(w, e, x)
        PROVE  FALSE
    <3>1. launched /\ launched' = launched
      BY <2>2 DEF Begin, LocalOnly
    <3> QED BY <1>1, <3>1
  <2> QED BY <1>4, <2>1, <2>2 DEF Opens, Trigger, Deliver
<1>5. ASSUME NEW w \in Workers, Calls(w)
      PROVE  FALSE
  BY <1>0, <1>1, <1>2, <1>5, CallIsACall, CallersOwn DEF Owner
<1>6. ASSUME NEW w \in Workers, Absorb(w) \/ AbsorbTrigger(w) \/ Resume(w) \/ Complete(w) \/ Abandon(w)
      PROVE  FALSE
  BY <1>1, <1>2, <1>6 DEF Absorb, AbsorbTrigger, Resume, Complete, Abandon, StoreOnly
<1>7. ASSUME NEW e \in Events, Silence(e)
      PROVE  FALSE
  BY <1>1, <1>7 DEF Silence, LeaseLapses, SerialInv, NotYetLaunched
<1>8. ASSUME NEW i \in WorkItems, OutsiderClaims(i)
      PROVE  UNCHANGED <<pc, ledger, revision, committed, launched>>
  BY <1>8 DEF OutsiderClaims, Claim, workerVars
<1>9. CASE UNCHANGED vars
  BY <1>9 DEF vars, storeVars, workerVars
<1> QED BY <1>3, <1>4, <1>5, <1>6, <1>7, <1>8, <1>9, SerialCases

\* What is honest when an event is applied stays so until the next one comes.
LEMMA AppliedStep ==
  ASSUME SerialInv, Traffic = "one_at_a_time", [MembraneNext]_vars
  PROVE  AppliedIsHonest'
<1>0. /\ MembraneInv /\ TypeOK /\ revision \in Nat
  BY InRange
<1>1. SUFFICES ASSUME Uncontested, NEW e \in Events,
                      ledger'[e].stage = "applied", ledger'[e].revision = revision'
               PROVE  Honest(concluded)'
  BY DEF AppliedIsHonest, Uncontested
<1>2. ASSUME UNCHANGED <<revision, concluded, plans, committed>>,
             ledger[e].stage = "applied", ledger[e].revision = revision
      PROVE  Honest(concluded)'
  BY <1>1, <1>2 DEF SerialInv, AppliedIsHonest, Honest, BoundToWorld, WorldStandsAt
<1>3. ASSUME NEW w \in Workers, Calls(w)
      PROVE  Honest(concluded)'
  BY <1>0, <1>1, <1>3, CallIsACall, CallersOwn, OwnerIsUnsettled
<1>4. ASSUME NEW w \in Workers, Absorb(w) \/ AbsorbTrigger(w)
      PROVE  FALSE
  <2>1. revision' = revision + 1
    BY <1>4, TruthMovesAlone
  <2>2. ledger'[e] = ledger[e]
    BY <1>0, <1>1, <1>4 DEF Absorb, AbsorbTrigger, AbsorbEvent, AbsorbUnidentified, TypeOK
  <2>3. ledger[e].revision \in 1..revision
    BY <1>1, <2>2 DEF SerialInv, EventsOwnTheirRevisions
  <2> QED BY <1>0, <1>1, <2>1, <2>2, <2>3
<1>5. ASSUME NEW w \in Workers, Resume(w)
      PROVE  Honest(concluded)'
  <2>1. /\ UNCHANGED <<revision, concluded, plans, committed>>
        /\ ledger' = [ledger EXCEPT ![worker[w].event].stage = "in_progress",
                                    ![worker[w].event].attempt = @ + 1]
        /\ worker[w].event \in Events
    BY <1>5, ResumesOnErrand
  <2>2. ledger'[e] = ledger[e]
    BY <1>0, <1>1, <2>1 DEF TypeOK, LedgerEntry
  <2> QED BY <1>1, <1>2, <2>1, <2>2
<1>6. ASSUME NEW w \in Workers, Complete(w) \/ Abandon(w)
      PROVE  Honest(concluded)'
  <2>1. UNCHANGED <<revision, plans, committed>>
    BY <1>0, <1>6, EndsIt DEF storeVars, CompleteEvent, AbandonEvent
  <2>2. CASE ledger'[e] = ledger[e]
    <3>1. ledger[e].stage = "applied" /\ ledger[e].revision = revision
      BY <1>1, <2>1, <2>2
    <3>2. ~Owner(w)
      BY <3>1, OwnerIsUnsettled
    <3>3. UNCHANGED concluded
      BY <1>6, <3>2 DEF Complete, Abandon, Owner, CompleteEvent, StoreOnly, history
    <3> QED BY <1>2, <2>1, <3>1, <3>3
  <2>3. CASE ledger'[e] # ledger[e]
    <3>1. PICK d \in Events : /\ CurrentAttempt(Fence(w)) /\ Fence(w).event = d /\ d = worker[w].event
                              /\ CompleteEvent(d, Fence(w)) \/ AbandonEvent(d, Fence(w))
      BY <1>0, <1>6, <2>3, EndsIt DEF storeVars
    <3>2. CompleteEvent(e, Fence(w))
      BY <1>0, <1>1, <2>3, <3>1 DEF CompleteEvent, AbandonEvent, TypeOK, LedgerEntry
    <3>3. Complete(w)
      BY <1>0, <1>1, <1>6, <2>3, <3>1, <3>2 DEF Abandon, AbandonEvent, storeVars, TypeOK, LedgerEntry
    <3>4. pc[w] = "complete" /\ Owner(w)
      BY <3>2, <3>3 DEF Complete, Owner, CompleteEvent
    <3>5. Honest(worker[w].forecast)
      BY <1>1, <3>4 DEF SerialInv, OwnersKnow, Knows
    <3>6. concluded' = worker[w].forecast
      BY <2>3, <3>3 DEF Complete, storeVars, Forecast
    <3> QED BY <2>1, <3>5, <3>6 DEF Honest, BoundToWorld, WorldStandsAt
  <2> QED BY <2>2, <2>3
<1>7. ASSUME NEW d \in Events, Silence(d)
      PROVE  Honest(concluded)'
  BY <1>0, <1>1, <1>2, <1>7 DEF Silence, LeaseLapses, TypeOK, LedgerEntry, history
<1>8. ASSUME UNCHANGED <<revision, concluded, plans, committed, ledger>>
      PROVE  Honest(concluded)'
  BY <1>1, <1>2, <1>8
<1>9. ASSUME NEW w \in Workers, Inward(w) \/ Opens(w)
      PROVE  Honest(concluded)'
  BY <1>0, <1>8, <1>9, InwardIsInternal, OpensAlone DEF storeVars, history
<1>10. ASSUME NEW i \in WorkItems, OutsiderClaims(i)
       PROVE  Honest(concluded)'
  BY <1>8, <1>10 DEF OutsiderClaims, Claim, history
<1>11. CASE UNCHANGED vars
  BY <1>8, <1>11 DEF vars, storeVars, history
<1> QED BY <1>3, <1>4, <1>5, <1>6, <1>7, <1>9, <1>10, <1>11, SerialCases

LEMMA SerialStep ==
  ASSUME SerialInv, Traffic = "one_at_a_time", [MembraneNext]_vars
  PROVE  SerialInv'
<1>0. /\ MembraneInv /\ TypeOK /\ EventsOwnTheirRevisions
      /\ revision \in Nat /\ TruthGrows
  BY InRange, TruthIsKept DEF SerialInv
<1>1. MembraneInv' /\ EventsOwnTheirRevisions'
  BY <1>0, MembraneStep, OwnershipStep
<1>2. OneAtATime' /\ NotYetLaunched' /\ OwnersKnow' /\ AppliedIsHonest'
  BY OneAtATimeStep, LaunchStep, OwnersKnowStep, AppliedStep
<1>3. ASSUME UNCHANGED <<revision, plans, committed, work>>
      PROVE  Standing' /\ ItemsAreTheCrews'
  BY <1>0, <1>3, StandingFrame DEF SerialInv, ItemsAreTheCrews, Uncontested
<1>4. ASSUME NEW w \in Workers, Calls(w)
      PROVE  Standing' /\ ItemsAreTheCrews'
  BY <1>4, CallsKeepStanding, CallsKeepItems
<1>5. ASSUME NEW w \in Workers, Absorb(w) \/ AbsorbTrigger(w)
      PROVE  Standing' /\ ItemsAreTheCrews'
  <2>1. /\ UNCHANGED <<plans, committed, work>> /\ revision' = revision + 1 /\ revision < MaxRevision
    BY <1>5, TruthMovesAlone
  <2>2. Standing'
    BY <1>0, <2>1, StandingFrame
  <2> QED BY <2>1, <2>2 DEF SerialInv, ItemsAreTheCrews, Uncontested
<1>6. ASSUME NEW w \in Workers,
             Inward(w) \/ Opens(w) \/ Resume(w) \/ Complete(w) \/ Abandon(w)
      PROVE  UNCHANGED <<revision, plans, committed, work>>
  BY <1>0, <1>6, InwardIsInternal, OpensAlone, ResumesOnErrand, EndsIt
     DEF storeVars, CompleteEvent, AbandonEvent
<1>7. ASSUME NEW i \in WorkItems, OutsiderClaims(i)
      PROVE  Standing' /\ ItemsAreTheCrews'
  <2>1. UNCHANGED <<revision, plans, committed>> /\ ~Uncontested
    BY <1>7 DEF OutsiderClaims, Claim, Uncontested
  <2>2. Standing'
    BY <1>0, <2>1, StandingFrame
  <2> QED BY <2>1, <2>2 DEF ItemsAreTheCrews, Uncontested
<1>8. ASSUME NEW e \in Events, Silence(e)
      PROVE  UNCHANGED <<revision, plans, committed, work>>
  BY <1>8 DEF Silence, LeaseLapses
<1>9. ASSUME UNCHANGED vars
      PROVE  UNCHANGED <<revision, plans, committed, work>>
  BY <1>9 DEF vars, storeVars
<1>10. Standing' /\ ItemsAreTheCrews'
  BY <1>3, <1>4, <1>5, <1>6, <1>7, <1>8, <1>9, SerialCases
<1>11. NamedIn(PlanIds)'
  <2>1. CASE UNCHANGED plans
    BY <2>1 DEF SerialInv, NamedIn, Known
  <2>2. ASSUME NEW w \in Workers, Calls(w)
        PROVE  NamedIn(PlanIds)'
    BY <1>0, <2>2, CallKeepsNamed DEF SerialInv
  <2> QED BY <1>0, <1>6, <1>8, <1>9, <2>1, <2>2, SerialCases, TruthMovesAlone DEF OutsiderClaims, Claim
<1> QED BY <1>1, <1>2, <1>10, <1>11 DEF SerialInv, Standing

\* One event at a time, whatever attempts fail, die or come late: nobody is an
\* owner but one, and an owner's locals say what is so.
THEOREM SerialAlways ==
  ASSUME Traffic = "one_at_a_time"
  PROVE  MembraneSpec => []SerialInv
<1>1. SerialInv /\ [MembraneNext]_vars => SerialInv'
  BY SerialStep
<1> QED BY SerialOpens, <1>1, PTL DEF MembraneSpec

\* The commitment that stands is a plan the verifier passed: AddPlan, RejectPlan
\* and MarkVerified never hit it (verify.py:12, store.py:470).
THEOREM CommitmentIsVerified ==
  ASSUME Traffic = "one_at_a_time"
  PROVE  MembraneSpec => []CommittedStandsVerified
<1>1. SerialInv => CommittedStandsVerified
  BY DEF SerialInv
<1> QED BY SerialAlways, <1>1, PTL

\* And it can sail under a forecast that an attempt of the event which moved the
\* world to its revision has fetched: although every delivery fetches anew, no
\* forecast is carried to another event's revision (verify.py:55,
\* harborwindow.py:178, 216).
THEOREM CommitmentHoldsInItsWorld ==
  ASSUME Traffic = "one_at_a_time"
  PROVE  MembraneSpec => []CommittedHoldsInItsWorld
<1>1. SerialInv => CommittedHoldsInItsWorld
  BY DEF SerialInv
<1> QED BY SerialAlways, <1>1, PTL

\* When the last event is applied, what stands is bound to it and can sail under
\* the forecast of the attempt that finished it, whatever the attempts before it
\* had read and committed, and nothing stands only if nothing can sail; for any
\* number of departures and any crew that nobody contests (scenarios' disrupt and
\* run).
THEOREM SettledIsAlwaysHonest ==
  ASSUME Traffic = "one_at_a_time", Uncontested
  PROVE  MembraneSpec => []SettledIsHonest
<1>1. SerialInv => SettledIsHonest
  BY DEF SerialInv, AppliedIsHonest, SettledIsHonest, Settled, Honest
<1> QED BY SerialAlways, <1>1, PTL

\* A commitment is withdrawn before another takes its place, never exchanged
\* (verify.py, reverify_committed).
THEOREM AlwaysWithdrawnBeforeReplaced ==
  ASSUME Traffic = "one_at_a_time"
  PROVE  MembraneSpec => WithdrawnBeforeReplaced
<1>1. ASSUME SerialInv, [MembraneNext]_vars, committed # NoPlan, committed' # committed
      PROVE  committed' = NoPlan
  <2>1. PICK w \in Workers : Commit(w) \/ Revoke(w) \/ RevokeStale(w)
    BY <1>1, InRange, CommitmentCases
  <2>2. CASE Commit(w)
    <3>1. Knows(pc[w], worker[w]) /\ pc[w] = "commit"
      BY <1>1, <2>2, CallersOwn DEF Calls, Commit
    <3> QED BY <1>1, <3>1 DEF Knows, Planning
  <2>3. CASE Revoke(w) \/ RevokeStale(w)
    BY <1>1, <2>3 DEF Revoke, RevokeStale, RevokeIfRevisionCurrent, RevokeIfStale, Withdraw
  <2> QED BY <2>1, <2>2, <2>3
<1>2. SerialInv /\ [MembraneNext]_vars => [committed # NoPlan => committed' \in {committed, NoPlan}]_vars
  BY <1>1
<1> QED BY SerialAlways, <1>2, PTL DEF MembraneSpec, WithdrawnBeforeReplaced

-----------------------------------------------------------------------------
(* Requests add to the membrane what the endpoint reads and answers, and     *)
(* nothing a worker could not do without them.                               *)

\* What apply_disruption may have noted.
Notes == [event : Events \cup {NoEvent}, already : BOOLEAN, before : 0..MaxRevision, moved : BOOLEAN]

\* Every request that is being served is about a message.
RequestsAreNamed == \A w \in Workers : desk[w] # "free" => notes[w].event \in Events

DeliveryInv == DeliveryTypeOK /\ MembraneInv /\ RequestsAreNamed

LEMMA DeliveryOpens == DeliveryInit => DeliveryInv
<1> SUFFICES ASSUME DeliveryInit PROVE DeliveryInv
  OBVIOUS
<1>1. MembraneInv
  BY MembraneOpens DEF DeliveryInit
<1>2. DeliveryTypeOK
  BY <1>1, MishapAssumption, BoundAssumption DEF DeliveryInit, DeliveryTypeOK, MembraneInv, Desks, NoNotes
<1> QED BY <1>1, <1>2 DEF DeliveryInit, DeliveryInv, RequestsAreNamed

LEMMA DeliveryIsMembrane ==
  ASSUME DeliveryInv, [DeliveryNext]_deliveryVars
  PROVE  [MembraneNext]_vars
<1>1. ASSUME NEW w \in Workers, Dispatch(w)
      PROVE  MembraneNext
  <2>1. notes[w].event \in Events
    BY <1>1 DEF Dispatch, DeliveryInv, RequestsAreNamed
  <2> QED BY <1>1, <2>1 DEF Dispatch, MembraneNext, Environment
<1>2. ASSUME NEW w \in Workers, Works(w) \/ Planner(w) \/ Breakdown(w)
      PROVE  MembraneNext
  BY <1>2 DEF Planner, MembraneNext, Environment
<1>3. ASSUME NEW w \in Workers, AnswerReturn(w) \/ AnswerRaise(w)
      PROVE  MembraneNext
  BY <1>3 DEF AnswerReturn, AnswerRaise, Answer, MembraneNext
<1>4. ASSUME NEW w \in Workers, Assess(w) \/ ConnectionLost(w) \/ \E e \in Events : Receive(w, e)
      PROVE  UNCHANGED vars
  BY <1>4 DEF Assess, ConnectionLost, Receive
<1>5. ASSUME NEW e \in Events, TimePasses(e)
      PROVE  MembraneNext
  BY <1>5 DEF TimePasses, MembraneNext, Environment
<1>7. CASE Interference
  BY <1>7 DEF Interference, MembraneNext, Environment
<1>6. ASSUME UNCHANGED deliveryVars
      PROVE  UNCHANGED vars
  BY <1>6 DEF deliveryVars
<1> QED BY <1>1, <1>2, <1>3, <1>4, <1>5, <1>6, <1>7 DEF DeliveryNext, Serves, Mishap

LEMMA DeliveryStep ==
  ASSUME DeliveryInv, [DeliveryNext]_deliveryVars
  PROVE  DeliveryInv' /\ [MembraneNext]_vars
<1>1. [MembraneNext]_vars /\ MembraneInv'
  BY DeliveryIsMembrane, MembraneStep DEF DeliveryInv
<1>2. /\ desk \in [Workers -> Desks] /\ acked \subseteq Events /\ mishaps \in 0..MaxMishaps
      /\ notes \in [Workers -> Notes]
      /\ revision \in 0..MaxRevision /\ RequestsAreNamed
  BY DEF DeliveryInv, DeliveryTypeOK, MembraneTypeOK, TypeOK, Notes
<1> DEFINE Kept == /\ desk' \in [Workers -> Desks] /\ acked' \subseteq Events
                   /\ mishaps' \in 0..MaxMishaps
                   /\ notes' \in [Workers -> Notes]
                   /\ RequestsAreNamed'
<1> HIDE DEF Kept
<1>3. ASSUME NEW w \in Workers, NEW d \in Desks, NEW n \in Notes, d # "free" => n.event \in Events,
             desk' = [desk EXCEPT ![w] = d], notes' = [notes EXCEPT ![w] = n],
             acked' \subseteq Events, UNCHANGED mishaps
      PROVE  Kept
  BY <1>2, <1>3 DEF Kept, RequestsAreNamed
<1>4. ASSUME NEW w \in Workers, NEW e \in Events, Receive(w, e)
      PROVE  Kept
  <2>1. NoNotes \in Notes
    BY BoundAssumption DEF NoNotes, Notes
  <2>2. [NoNotes EXCEPT !.event = e] \in Notes /\ [NoNotes EXCEPT !.event = e].event = e
    BY <2>1 DEF Notes
  <2>3. PICK n \in Notes : n = [NoNotes EXCEPT !.event = e] /\ n.event = e
    BY <2>2, Zenon
  <2>4. PICK m \in BOOLEAN : m = Applied(e)
    BY DEF Applied
  <2>5. [n EXCEPT !.already = m] \in Notes /\ [n EXCEPT !.already = m].event = e
    BY <2>3 DEF Notes
  <2>6. notes' = [notes EXCEPT ![w] = [NoNotes EXCEPT !.event = e, !.already = m]]
    BY <1>4, <2>4 DEF Receive
  <2>7. [NoNotes EXCEPT !.event = e, !.already = m] = [n EXCEPT !.already = m]
    BY <2>3
  <2>8. notes' = [notes EXCEPT ![w] = [n EXCEPT !.already = m]]
    BY <2>6, <2>7
  <2> QED BY <1>2, <1>3, <1>4, <2>5, <2>8 DEF Receive, Desks
<1>5. ASSUME NEW w \in Workers, Dispatch(w) \/ Assess(w)
      PROVE  Kept
  <2>1. notes[w] \in Notes /\ notes[w].event \in Events
    BY <1>2, <1>5 DEF Dispatch, Assess, RequestsAreNamed
  <2>2. CASE Dispatch(w)
    <3>1. [notes[w] EXCEPT !.before = revision] \in Notes
      BY <1>2, <2>1 DEF Notes
    <3>2. notes' = [notes EXCEPT ![w] = [notes[w] EXCEPT !.before = revision]]
      BY <1>2, <2>2 DEF Dispatch
    <3>3. [notes[w] EXCEPT !.before = revision].event \in Events
      BY <2>1 DEF Notes
    <3> QED BY <1>2, <1>3, <2>2, <3>1, <3>2, <3>3 DEF Dispatch, Desks
  <2>3. CASE Assess(w)
    <3>0. PICK m \in BOOLEAN : m = ~WorldStandsAt(notes[w].before)
      OBVIOUS
    <3>1. [notes[w] EXCEPT !.moved = m] \in Notes
      BY <2>1, <3>0 DEF Notes
    <3>2. notes' = [notes EXCEPT ![w] = [notes[w] EXCEPT !.moved = m]]
      BY <1>2, <2>3, <3>0 DEF Assess
    <3>3. [notes[w] EXCEPT !.moved = m].event \in Events
      BY <2>1 DEF Notes
    <3> QED BY <1>2, <1>3, <2>3, <3>1, <3>2, <3>3 DEF Assess, Desks
  <2> QED BY <1>5, <2>2, <2>3
<1>6. ASSUME NEW w \in Workers, AnswerReturn(w) \/ AnswerRaise(w) \/ ConnectionLost(w)
      PROVE  Kept
  <2>1. /\ desk[w] # "free" /\ UNCHANGED mishaps
        /\ desk' = [desk EXCEPT ![w] = "free"] /\ notes' = [notes EXCEPT ![w] = NoNotes]
        /\ acked' \in {acked, acked \cup {notes[w].event}}
    BY <1>6 DEF AnswerReturn, AnswerRaise, Answer, ConnectionLost
  <2>2. NoNotes \in Notes
    BY BoundAssumption DEF NoNotes, Notes
  <2> QED BY <1>2, <1>3, <2>1, <2>2 DEF Desks, RequestsAreNamed
<1>7. ASSUME UNCHANGED <<desk, notes, acked>>, mishaps' \in 0..MaxMishaps
      PROVE  Kept
  BY <1>2, <1>7 DEF Kept, RequestsAreNamed
<1>8. ASSUME NEW w \in Workers, Mishap(w)
      PROVE  Kept
  BY <1>2, <1>7, <1>8, MishapAssumption DEF Mishap
<1>9. ASSUME UNCHANGED <<desk, notes, acked, mishaps>>
      PROVE  Kept
  BY <1>2, <1>7, <1>9
<1>10. Kept
  BY <1>4, <1>5, <1>6, <1>8, <1>9 DEF DeliveryNext, Serves, TimePasses, Interference, deliveryVars
<1> QED BY <1>1, <1>10 DEF Kept, Notes, DeliveryInv, DeliveryTypeOK, MembraneInv

\* The endpoint's notes, desks and acknowledgements stay in range, for any
\* number of workers, messages and breakdowns (api.py, runner.py).
THEOREM DeliveryTyped == DeliverySpec => []DeliveryTypeOK
<1>1. DeliveryInv /\ [DeliveryNext]_deliveryVars => DeliveryInv'
  BY DeliveryStep
<1>2. DeliveryInv => DeliveryTypeOK
  BY DEF DeliveryInv
<1> QED BY DeliveryOpens, <1>1, <1>2, PTL DEF DeliverySpec, DeliverySafety

\* Requests are a way to use the membrane: what is proved of it holds here.
THEOREM DeliveryUsesTheMembrane == DeliverySpec => MembraneSpec
<1>1. DeliveryInit => MembraneInit
  BY DEF DeliveryInit
<1>2. DeliveryInv /\ [DeliveryNext]_deliveryVars => DeliveryInv' /\ [MembraneNext]_vars
  BY DeliveryStep
<1> QED BY DeliveryOpens, <1>1, <1>2, PTL DEF DeliverySpec, DeliverySafety, MembraneSpec

\* Redelivery, failure and death at any point move the world once per event and
\* hand an event over only after silence or failure (api.py:182, store.py).
THEOREM DeliveryInheritsTheStore ==
  DeliverySpec => /\ []EventsOwnTheirRevisions /\ HandoverNeedsSilence /\ StoreAbsorbsOnce
<1> QED BY DeliveryUsesTheMembrane, MembraneInheritsTheStore, PTL

-----------------------------------------------------------------------------
(* Requests overlap freely: the runner's reads may have seen what others     *)
(* did, but a worker's own ending is always told as it was.                  *)

\* How worker w's errand has ended, or what it did not do yet.
EndingsAreTrue(w) ==
  /\ pc[w] = "advance" => Fence(w) = Unfenced
  /\ pc[w] = "abandon" => worker[w].ending \in {"failed", "already_applied"}
  /\ pc[w] = "done" /\ worker[w].ending = "applied" /\ worker[w].event # NoEvent =>
       Applied(worker[w].event)
  /\ pc[w] \in {"abandon", "done"} /\ worker[w].ending = "already_applied" =>
       worker[w].event # NoEvent /\ Applied(worker[w].event)
  /\ pc[w] = "done" /\ worker[w].ending = "dismissed" =>
       /\ worker[w].event # NoEvent /\ ledger[worker[w].event].stage # "unseen"
       /\ Fence(w) = Unfenced

\* What the notes of the request that w serves say of its errand.
NotesAreTrue(w) ==
  /\ desk[w] # "free" /\ notes[w].already => Applied(notes[w].event)
  /\ desk[w] = "received" => pc[w] = "idle"
  /\ desk[w] \in {"serving", "assessed"} /\ pc[w] # "idle" => worker[w].event = notes[w].event
  /\ desk[w] = "assessed" => Returned(w)

AckInv == DeliveryInv /\ \A w \in Workers : EndingsAreTrue(w) /\ NotesAreTrue(w)

\* What is applied stays applied.
LEMMA AppliedStays ==
  ASSUME TypeOK, [StoreNext]_storeVars, NEW e \in Events, Applied(e)
  PROVE  Applied(e)'
<1> USE DEF Applied, TypeOK, LedgerEntry
<1>1. CASE AbsorbUnidentified \/ UNCHANGED ledger
  BY <1>1 DEF AbsorbUnidentified
<1>2. ASSUME NEW d \in Events, AbsorbEvent(d) \/ ResumeEvent(d) \/ LeaseLapses(d)
      PROVE  Applied(e)'
  BY <1>2 DEF AbsorbEvent, ResumeEvent, LeaseLapses
<1>3. ASSUME NEW d \in Events, NEW f \in Fences, CompleteEvent(d, f) \/ AbandonEvent(d, f)
      PROVE  Applied(e)'
  BY <1>3 DEF CompleteEvent, AbandonEvent
<1> QED BY <1>1, <1>2, <1>3, LedgerCases

\* What has moved the world has done so for good.
LEMMA SeenStays ==
  ASSUME TypeOK, [StoreNext]_storeVars, NEW e \in Events, ledger[e].stage # "unseen"
  PROVE  ledger'[e].stage # "unseen"
<1> USE DEF TypeOK, LedgerEntry
<1>1. CASE AbsorbUnidentified \/ UNCHANGED ledger
  BY <1>1 DEF AbsorbUnidentified
<1>2. ASSUME NEW d \in Events, AbsorbEvent(d) \/ ResumeEvent(d) \/ LeaseLapses(d)
      PROVE  ledger'[e].stage # "unseen"
  BY <1>2 DEF AbsorbEvent, ResumeEvent, LeaseLapses
<1>3. ASSUME NEW d \in Events, NEW f \in Fences, CompleteEvent(d, f) \/ AbandonEvent(d, f)
      PROVE  ledger'[e].stage # "unseen"
  BY <1>3 DEF CompleteEvent, AbandonEvent
<1> QED BY <1>1, <1>2, <1>3, LedgerCases

\* One worker's step leaves every other worker's locals alone.
LEMMA OthersStayPut ==
  ASSUME MembraneInv, NEW v \in Workers, NEW w \in Workers \ {v},
         \/ Works(v) \/ Breakdown(v) \/ Retire(v) \/ StartRun(v) \/ Trigger(v)
         \/ \E e \in Events : Deliver(v, e)
  PROVE  pc'[w] = pc[w] /\ worker'[w] = worker[w]
<1>1. CASE AbsorbTrigger(v)
  BY <1>1 DEF AbsorbTrigger, MembraneInv, MembraneTypeOK
<1>2. CASE Internal(v) \/ Calls(v) \/ Absorb(v) \/ Resume(v) \/ Complete(v) \/ Abandon(v)
  BY <1>2, InternalStep, CallMoves, AbsorbsOrResumes, EndsIt DEF OnlyMoves
<1>3. \/ Internal(v) \/ Calls(v) \/ Absorb(v) \/ Resume(v) \/ AbsorbTrigger(v)
      \/ Complete(v) \/ Abandon(v)
  BY TrafficAssumption, ForecastAssumption
     DEF Trigger, Deliver, Works, Breakdown, Advance, Reverify, Run, Internal, Calls
<1> QED BY <1>1, <1>2, <1>3

\* What a worker's step does to its errand.
LEMMA EndingsStayTrue ==
  ASSUME MembraneInv, NEW w \in Workers, Works(w) \/ Breakdown(w), EndingsAreTrue(w)
  PROVE  /\ EndingsAreTrue(w)' /\ OnErrand(w)
         /\ pc[w] \notin {"idle", "done"}
<1>0. /\ pc \in [Workers -> Steps] /\ worker \in [Workers -> Locals] /\ worker[w] \in Locals
      /\ TypeOK /\ LocalOK(pc[w], worker[w])
  BY DEF MembraneInv, MembraneTypeOK, Locals
<1>1. [StoreNext]_storeVars
  BY MembraneStep DEF MembraneNext
<1>2. ASSUME OnErrand(w), pc[w] \notin {"idle", "done"},
             pc'[w] \notin {"advance", "abandon", "done"}
      PROVE  EndingsAreTrue(w)'
  BY <1>2 DEF EndingsAreTrue
<1>3. CASE ReadCommitted(w) \/ Observe(w) \/ Judge(w) \/ ReadWorld(w) \/ FetchPlan(w) \/ Weigh(w) \/ Dies(w)
  <2>1. OnErrand(w)
    BY <1>3, InwardKeepsErrand DEF Inward
  <2>2. pc[w] \notin {"idle", "done"} /\ pc'[w] \notin {"advance", "abandon", "done"}
    BY <1>0, <1>3 DEF ReadCommitted, Observe, Judge, ReadWorld, FetchPlan, Weigh, Dies, Goto
  <2> QED BY <1>2, <2>1, <2>2
<1>4. CASE Calls(w)
  <2>1. OnErrand(w) /\ GoesOn(w)
    BY <1>4, CallKeepsErrand
  <2>2. pc[w] \notin {"idle", "done"}
    BY <1>4 DEF Calls, Revoke, Rebind, RevokeStale, SeedCreate, SeedClaim, Propose, Reject, Mark, Commit
  <2> QED BY <1>2, <2>1, <2>2 DEF GoesOn
<1>5. CASE Absorb(w) \/ Resume(w) \/ AbsorbTrigger(w)
  <2>1. pc[w] = "advance" /\ pc'[w] = "committed"
    BY <1>0, <1>5 DEF Absorb, Resume, AbsorbTrigger, Goto
  <2>2. OnErrand(w)
    BY <1>0, <1>5, <2>1 DEF Absorb, Resume, AbsorbTrigger, TakeLease, OnErrand, Locals
  <2> QED BY <1>2, <2>1, <2>2
<1>6. CASE Dismiss(w) \/ Evicted(w) \/ Outlived(w) \/ Fails(w) \/ Breaks(w)
  <2>1. OnErrand(w) /\ UNCHANGED storeVars
    BY <1>6, InwardKeepsErrand, InwardIsInternal DEF Inward
  <2>2. CASE Dismiss(w)
    <3>1. /\ pc[w] = "advance" /\ pc'[w] = "done" /\ worker'[w].ending = "dismissed"
          /\ worker'[w].event = worker[w].event /\ worker'[w].fence = worker[w].fence
      BY <1>0, <2>2 DEF Dismiss, End, Locals
    <3>2. /\ worker[w].event # NoEvent /\ ledger[worker[w].event].stage # "unseen"
          /\ worker[w].fence = Unfenced
      BY <2>2, <3>1 DEF Dismiss, Dismissed, EndingsAreTrue, Fence
    <3> QED BY <2>1, <3>1, <3>2 DEF EndingsAreTrue, Fence, storeVars
  <2>3. CASE Evicted(w) \/ Breaks(w)
    <3>1. pc[w] \notin {"idle", "done"} /\ pc'[w] = "done" /\ worker'[w].ending \in {"superseded", "failed"}
      BY <1>0, <2>3 DEF Evicted, Breaks, End, Locals, FencedSteps
    <3> QED BY <2>1, <3>1 DEF EndingsAreTrue
  <2>4. CASE Fails(w)
    <3>1. pc[w] \notin {"idle", "done"} /\ pc'[w] = "abandon" /\ worker'[w].ending = "failed"
      BY <1>0, <2>4 DEF Fails, Locals, FencedSteps, ReadSteps
    <3> QED BY <2>1, <3>1 DEF EndingsAreTrue
  <2>5. CASE Outlived(w)
    <3>1. pc[w] \notin {"idle", "done"} /\ pc'[w] = "abandon" /\ worker'[w].ending = "already_applied"
      BY <1>0, <2>5 DEF Outlived, Locals, FencedSteps
    <3>2. worker[w].event # NoEvent /\ Applied(worker[w].event) /\ worker'[w].event = worker[w].event
      <4>1. Fence(w) # Unfenced /\ ledger[Fence(w).event].stage = "applied"
        BY <2>5 DEF Outlived, AlreadyApplied
      <4>2. Fence(w).event = worker[w].event /\ Fence(w).event \in Events
        BY <1>0, <4>1 DEF LocalOK, Locals, Fence, Fences
      <4> QED BY <2>1, <3>1, <4>1, <4>2, NoEventAssumption DEF Applied, OnErrand
    <3> QED BY <2>1, <3>1, <3>2 DEF EndingsAreTrue, Applied, storeVars
  <2> QED BY <1>6, <2>2, <2>3, <2>4, <2>5
<1>7. CASE Complete(w)
  <2>1. pc[w] = "complete" /\ pc'[w] = "done" /\ worker'[w].ending = "applied" /\ OnErrand(w)
    BY <1>0, <1>7, EndsOnErrand DEF Complete, End, Locals
  <2>2. worker'[w].event = worker[w].event
    BY <2>1 DEF OnErrand
  <2>3. ASSUME worker[w].event # NoEvent
        PROVE  ledger'[worker[w].event].stage = "applied"
    <3>1. worker[w].event \in Events
      BY <1>0, <2>3 DEF Locals
    <3>2. CASE Finished(w) /\ UNCHANGED storeVars
      BY <3>2 DEF Finished, storeVars
    <3>3. CASE CompleteEvent(worker[w].event, Fence(w))
      BY <1>0, <3>1, <3>3 DEF CompleteEvent, TypeOK, LedgerEntry
    <3> QED BY <1>7, <2>3, <3>2, <3>3 DEF Complete
  <2> QED BY <2>1, <2>2, <2>3 DEF EndingsAreTrue, Applied
<1>8. CASE Abandon(w)
  <2>1. pc[w] = "abandon" /\ pc'[w] = "done" /\ worker'[w] = worker[w] /\ OnErrand(w)
    BY <1>0, <1>8, EndsOnErrand DEF Abandon
  <2>2. worker[w].ending \in {"failed", "already_applied"}
    BY <2>1 DEF EndingsAreTrue
  <2>3. worker[w].ending = "already_applied" => worker[w].event \in Events /\ Applied(worker[w].event)
    BY <1>0, <2>1 DEF EndingsAreTrue, Locals
  <2>4. ASSUME NEW e \in Events, Applied(e) PROVE ledger'[e].stage = "applied"
    BY <1>0, <1>1, <2>4, AppliedStays DEF Applied
  <2> QED BY <1>0, <2>1, <2>2, <2>3, <2>4 DEF EndingsAreTrue, Applied
<1> QED BY <1>3, <1>4, <1>5, <1>6, <1>7, <1>8
        DEF Works, Breakdown, Advance, Reverify, Run, Calls

LEMMA AckStep ==
  ASSUME AckInv, [DeliveryNext]_deliveryVars
  PROVE  AckInv'
<1>1. /\ DeliveryInv' /\ [MembraneNext]_vars /\ [StoreNext]_storeVars
      /\ TypeOK /\ MembraneInv /\ RequestsAreNamed
  BY DeliveryStep, MembraneStep DEF AckInv, DeliveryInv, MembraneInv, MembraneTypeOK
<1>2. /\ desk \in [Workers -> Desks] /\ notes \in [Workers -> Notes] /\ acked \subseteq Events
      /\ pc \in [Workers -> Steps] /\ worker \in [Workers -> Locals]
  BY DEF AckInv, DeliveryInv, DeliveryTypeOK, MembraneTypeOK, Notes, Locals
<1>3. \A e \in Events : /\ Applied(e) => ledger'[e].stage = "applied"
                        /\ ledger[e].stage # "unseen" => ledger'[e].stage # "unseen"
  BY <1>1, AppliedStays, SeenStays DEF Applied
<1> DEFINE True(w) == EndingsAreTrue(w)' /\ NotesAreTrue(w)'
<1>4. ASSUME NEW w \in Workers,
             pc'[w] = pc[w], worker'[w] = worker[w], desk'[w] = desk[w], notes'[w] = notes[w]
      PROVE  True(w)
  <2>1. EndingsAreTrue(w) /\ NotesAreTrue(w) /\ worker[w].event \in Events \cup {NoEvent}
    BY <1>2 DEF AckInv, Locals
  <2>2. desk[w] # "free" => notes[w].event \in Events
    BY <1>1 DEF RequestsAreNamed
  <2>3. EndingsAreTrue(w)'
    BY <1>3, <1>4, <2>1 DEF EndingsAreTrue, Applied, Fence
  <2> QED BY <1>3, <1>4, <2>1, <2>2, <2>3 DEF NotesAreTrue, Returned, Applied
<1>5. ASSUME NEW w \in Workers, Works(w) \/ Breakdown(w), UNCHANGED <<desk, notes>>
      PROVE  True(w)
  <2>0. EndingsAreTrue(w) /\ NotesAreTrue(w)
    BY DEF AckInv
  <2>1. EndingsAreTrue(w)' /\ OnErrand(w) /\ pc[w] \notin {"idle", "done"}
    BY <1>1, <1>5, <2>0, EndingsStayTrue
  <2>2. desk[w] \in {"free", "serving"}
    BY <1>2, <2>0, <2>1 DEF NotesAreTrue, Returned, Desks
  <2>3. desk[w] = "serving" => notes[w].event \in Events
    BY <1>1 DEF RequestsAreNamed
  <2> QED BY <1>3, <1>5, <2>0, <2>1, <2>2, <2>3 DEF NotesAreTrue, OnErrand, Applied
<1>6. ASSUME NEW w \in Workers, Planner(w) \/ (desk[w] = "free" /\ Trigger(w)), UNCHANGED <<desk, notes>>
      PROVE  True(w)
  <2>1. CASE Planner(w)
    <3>1. desk'[w] = "free" /\ pc'[w] \in {"run", "idle"}
      BY <1>2, <1>6, <2>1 DEF Planner, StartRun, Retire
    <3> QED BY <3>1 DEF EndingsAreTrue, NotesAreTrue
  <2>2. CASE desk[w] = "free" /\ Trigger(w)
    <3>1. desk'[w] = "free" /\ pc'[w] = "advance" /\ worker'[w].fence = Unfenced
      BY <1>2, <1>6, <2>2 DEF Trigger, Begin, Idle
    <3> QED BY <3>1 DEF EndingsAreTrue, NotesAreTrue, Fence
  <2> QED BY <1>6, <2>1, <2>2
<1>7. ASSUME NEW w \in Workers, NEW e \in Events, Receive(w, e)
      PROVE  True(w)
  <2>1. /\ pc'[w] = "idle" /\ desk'[w] = "received" /\ UNCHANGED storeVars
        /\ notes'[w] = [NoNotes EXCEPT !.event = e, !.already = Applied(e)]
    BY <1>2, <1>7 DEF Receive, vars, workerVars
  <2>2. notes'[w].event = e /\ (notes'[w].already => Applied(e))
    BY <2>1 DEF NoNotes
  <2> QED BY <2>1, <2>2 DEF EndingsAreTrue, NotesAreTrue, Applied, storeVars
<1>8. ASSUME NEW w \in Workers, Dispatch(w)
      PROVE  True(w)
  <2>1. /\ pc'[w] = "advance" /\ desk'[w] = "serving" /\ UNCHANGED storeVars
        /\ worker'[w].event = notes[w].event /\ worker'[w].fence = Unfenced
    BY <1>2, <1>8 DEF Dispatch, Deliver, Begin, LocalOnly, Idle
  <2>2. notes'[w].event = notes[w].event /\ notes'[w].already = notes[w].already
    BY <1>2, <1>8 DEF Dispatch, Notes
  <2>3. desk[w] = "received" /\ NotesAreTrue(w)
    BY <1>8 DEF Dispatch, AckInv
  <2> QED BY <2>1, <2>2, <2>3 DEF EndingsAreTrue, NotesAreTrue, Fence, Applied, storeVars
<1>9. ASSUME NEW w \in Workers, Assess(w)
      PROVE  True(w)
  <2>0. EndingsAreTrue(w) /\ NotesAreTrue(w)
    BY DEF AckInv
  <2>1. /\ desk[w] = "serving" /\ Returned(w) /\ desk'[w] = "assessed"
        /\ UNCHANGED <<storeVars, pc, worker>>
    BY <1>2, <1>9 DEF Assess, vars, workerVars
  <2>2. notes'[w].event = notes[w].event /\ notes'[w].already = notes[w].already
    BY <1>2, <1>9 DEF Assess, Notes
  <2>3. EndingsAreTrue(w)' /\ Returned(w)'
    BY <2>0, <2>1 DEF EndingsAreTrue, Fence, Returned, Applied, storeVars
  <2> QED BY <2>0, <2>1, <2>2, <2>3 DEF NotesAreTrue, Returned, Applied, storeVars
<1>10. ASSUME NEW w \in Workers, AnswerReturn(w) \/ AnswerRaise(w) \/ ConnectionLost(w)
       PROVE  True(w)
  BY <1>2, <1>10 DEF AnswerReturn, AnswerRaise, Answer, Retire, ConnectionLost,
     EndingsAreTrue, NotesAreTrue, vars, workerVars
<1>11. ASSUME NEW v \in Workers, NEW w \in Workers \ {v}, UNCHANGED <<desk, notes>>,
              Works(v) \/ Breakdown(v) \/ Planner(v) \/ Trigger(v)
       PROVE  True(w)
  BY <1>1, <1>4, <1>11, OthersStayPut DEF Planner
<1>12. ASSUME NEW v \in Workers, NEW w \in Workers \ {v},
              Dispatch(v) \/ AnswerReturn(v) \/ AnswerRaise(v)
       PROVE  True(w)
  <2>1. desk'[w] = desk[w] /\ notes'[w] = notes[w]
    BY <1>2, <1>12 DEF Dispatch, AnswerReturn, AnswerRaise, Answer
  <2>2. Retire(v) \/ \E e \in Events : Deliver(v, e)
    BY <1>1, <1>12 DEF Dispatch, AnswerReturn, AnswerRaise, Answer, RequestsAreNamed
  <2> QED BY <1>1, <1>4, <2>1, <2>2, OthersStayPut
<1>13. ASSUME NEW v \in Workers, NEW w \in Workers \ {v},
              Assess(v) \/ ConnectionLost(v) \/ \E e \in Events : Receive(v, e)
       PROVE  True(w)
  BY <1>2, <1>4, <1>13 DEF Assess, ConnectionLost, Receive, vars, workerVars
<1>14. ASSUME NEW w \in Workers, UNCHANGED <<workerVars, desk, notes>>
       PROVE  True(w)
  BY <1>4, <1>14 DEF workerVars
<1>15. \A w \in Workers : True(w)
  <2>1. SUFFICES ASSUME NEW w \in Workers PROVE True(w)
    OBVIOUS
  <2> HIDE DEF True
  <2>2. ASSUME NEW v \in Workers, Serves(v) \/ Mishap(v) \/ \E e \in Events : Receive(v, e)
        PROVE  True(w)
    <3>1. CASE v = w
      BY <1>5, <1>6, <1>7, <1>8, <1>9, <1>10, <2>2, <3>1 DEF Serves, Mishap
    <3>2. CASE v # w
      BY <1>11, <1>12, <1>13, <2>2, <3>2 DEF Serves, Mishap
    <3> QED BY <3>1, <3>2
  <2>3. ASSUME NEW e \in Events, TimePasses(e) PROVE True(w)
    BY <1>14, <2>3 DEF TimePasses, Silence
  <2>4. CASE Interference
    <3>1. ASSUME NEW v \in Workers, desk[v] = "free", Trigger(v) PROVE True(w)
      BY <1>6, <1>11, <2>4, <3>1 DEF Interference
    <3>2. ASSUME NEW i \in WorkItems, OutsiderClaims(i) PROVE True(w)
      BY <1>14, <2>4, <3>2 DEF Interference, OutsiderClaims
    <3> QED BY <2>4, <3>1, <3>2 DEF Interference
  <2>5. ASSUME UNCHANGED deliveryVars PROVE True(w)
    BY <1>14, <2>5 DEF deliveryVars, vars
  <2> QED BY <2>2, <2>3, <2>4, <2>5 DEF DeliveryNext
<1> QED BY <1>1, <1>15 DEF AckInv

LEMMA AckedForAReason ==
  ASSUME AckInv, [DeliveryNext]_deliveryVars, NEW e \in acked' \ acked
  PROVE  \/ Applied(e)
         \/ /\ ledger[e].stage # "unseen"
            /\ \E w \in Workers :
                 /\ desk[w] = "assessed" /\ desk'[w] = "free"
                 /\ notes[w].event = e /\ Fence(w) = Unfenced
<1>1. PICK w \in Workers : AnswerReturn(w) \/ AnswerRaise(w)
  BY DEF DeliveryNext, Serves, Mishap, Dispatch, Assess, ConnectionLost, Receive, TimePasses,
         Interference, deliveryVars
<1>2. /\ desk \in [Workers -> Desks] /\ EndingsAreTrue(w) /\ NotesAreTrue(w)
      /\ notes[w].event \in Events \/ desk[w] = "free"
  BY DEF AckInv, DeliveryInv, DeliveryTypeOK, RequestsAreNamed
<1>3. /\ e = notes[w].event /\ pc[w] = "done" /\ desk'[w] = "free"
      /\ desk[w] \in {"serving", "assessed"}
  BY <1>1, <1>2 DEF AnswerReturn, AnswerRaise, Answer, Retire
<1>4. worker[w].event = e /\ e # NoEvent
  BY <1>2, <1>3, NoEventAssumption DEF NotesAreTrue
<1>5. CASE AnswerRaise(w)
  <2>1. worker[w].ending = "already_applied"
    BY <1>5 DEF AnswerRaise, Answer
  <2> QED BY <1>2, <1>3, <1>4, <2>1 DEF EndingsAreTrue
<1>6. CASE AnswerReturn(w)
  <2>1. desk[w] = "assessed" /\ worker[w].ending \in {"applied", "dismissed"}
    BY <1>2, <1>6 DEF AnswerReturn, NotesAreTrue, Returned
  <2> QED BY <1>2, <1>3, <1>4, <2>1 DEF EndingsAreTrue
<1> QED BY <1>1, <1>5, <1>6

\* However many requests overlap and whatever their reads have seen of each
\* other, no failed or superseded attempt acknowledges its message, and none is
\* acknowledged before its event has moved the world (runner.py:96, api.py).
THEOREM NoFailureIsAcknowledged == DeliverySpec => NoAckForAFailure
<1>1. DeliveryInit => AckInv
  <2>1. ASSUME DeliveryInit PROVE AckInv
    BY <2>1, DeliveryOpens
       DEF DeliveryInit, MembraneInit, AckInv, EndingsAreTrue, NotesAreTrue
  <2> QED BY <2>1
<1>2. AckInv /\ [DeliveryNext]_deliveryVars => AckInv'
  BY AckStep
<1>3. AckInv /\ [DeliveryNext]_deliveryVars =>
        [\A e \in acked' \ acked :
           \/ Applied(e)
           \/ /\ ledger[e].stage # "unseen"
              /\ \E w \in Workers :
                   /\ desk[w] = "assessed" /\ desk'[w] = "free"
                   /\ notes[w].event = e /\ Fence(w) = Unfenced]_deliveryVars
  BY AckedForAReason
<1> QED BY <1>1, <1>2, <1>3, PTL DEF DeliverySpec, DeliverySafety, NoAckForAFailure
=============================================================================
