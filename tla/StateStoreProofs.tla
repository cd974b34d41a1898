-------------------------- MODULE StateStoreProofs --------------------------
(***************************************************************************)
(* What holds of the state store for any number of events, plans, work     *)
(* items and actors, whoever calls it, in any order, with any fence it     *)
(* ever handed out.                                                        *)
(***************************************************************************)
EXTENDS StateStore, TLAPS

-----------------------------------------------------------------------------
(* Type correctness *)

\* Every call of the plan operations leaves a well-formed plan table.
LEMMA PlanCallTypeOK ==
  ASSUME TypeOK, NEW p \in PlanIds, NEW f \in Fences,
         PlanCall(p, f) \/ CommitmentCall(p, f)
  PROVE  TypeOK'
<1> USE BoundAssumption
<1>1. \A r \in 0..revision : r \in 0..MaxRevision
  BY DEF TypeOK
<1>2. ASSUME NEW q \in Proposals, NEW r \in 0..revision, AddPlan(p, q, r, f)
      PROVE  TypeOK'
  BY <1>1, <1>2 DEF TypeOK, AddPlan, Plan, Verdicts
<1>3. ASSUME MarkVerified(p, f) PROVE TypeOK'
  BY <1>3 DEF TypeOK, MarkVerified, Plan, Verdicts
<1>4. ASSUME RejectPlan(p, f) PROVE TypeOK'
  BY <1>4 DEF TypeOK, RejectPlan, Plan, Verdicts
<1>5. ASSUME CommitPlan(p, f) PROVE TypeOK'
  BY <1>5 DEF TypeOK, CommitPlan
<1>6. ASSUME NEW condition \in BOOLEAN, Withdraw(p, f, condition) PROVE TypeOK'
  <2>1. CASE committed = p /\ condition
    BY <1>6, <2>1 DEF TypeOK, Withdraw, Plan, Verdicts
  <2>2. CASE ~(committed = p /\ condition)
    BY <1>6, <2>2 DEF TypeOK, Withdraw
  <2> QED BY <2>1, <2>2
<1>7. ASSUME NEW r \in 0..revision, RebindPlan(p, r, f) PROVE TypeOK'
  BY <1>1, <1>7 DEF TypeOK, RebindPlan, Plan
<1>8. ASSUME RevokeCommit(p, f) PROVE TypeOK'
  BY <1>6, <1>8 DEF RevokeCommit
<1>9. ASSUME RevokeIfStale(p, f) PROVE TypeOK'
  BY <1>6, <1>9 DEF RevokeIfStale, BoundToWorld, WorldStandsAt
<1>10. ASSUME NEW r \in 0..revision, RevokeIfRevisionCurrent(p, r, f) PROVE TypeOK'
  BY <1>6, <1>10 DEF RevokeIfRevisionCurrent, WorldStandsAt
<1> QED
  BY <1>2, <1>3, <1>4, <1>5, <1>7, <1>8, <1>9, <1>10 DEF PlanCall, CommitmentCall

\* Every call on a work item leaves it open, held by an actor, or not created.
LEMMA WorkCallTypeOK ==
  ASSUME TypeOK, NEW i \in WorkItems, NEW f \in Fences, WorkCall(i, f)
  PROVE  TypeOK'
<1>1. ASSUME CreateWork(i, f) PROVE TypeOK'
  BY <1>1 DEF TypeOK, CreateWork
<1>2. ASSUME Release(i, f) PROVE TypeOK'
  BY <1>2 DEF TypeOK, Release
<1>3. ASSUME NEW a \in Actors, Claim(i, a, f) PROVE TypeOK'
  BY <1>3 DEF TypeOK, Claim
<1> QED
  BY <1>1, <1>2, <1>3 DEF WorkCall

\* Deliveries, lapses and the two endings of an application keep the ledger
\* well formed.
LEMMA LedgerTypeOK ==
  ASSUME TypeOK,
         World \/ \E e \in Events, f \in Fences : CompleteEvent(e, f) \/ AbandonEvent(e, f)
  PROVE  TypeOK'
<1> USE BoundAssumption
<1>1. ASSUME AbsorbUnidentified PROVE TypeOK'
  BY <1>1 DEF TypeOK, AbsorbUnidentified
<1>2. ASSUME NEW e \in Events, AbsorbEvent(e) PROVE TypeOK'
  BY <1>2 DEF TypeOK, AbsorbEvent, LedgerEntry, Stages, Pending
<1>3. ASSUME NEW e \in Events, ResumeEvent(e) PROVE TypeOK'
  BY <1>3 DEF TypeOK, ResumeEvent, LedgerEntry, Stages, Pending
<1>4. ASSUME NEW e \in Events, LeaseLapses(e) PROVE TypeOK'
  BY <1>4 DEF TypeOK, LeaseLapses, LedgerEntry, Stages, Pending
<1>5. ASSUME NEW e \in Events, NEW f \in Fences, CompleteEvent(e, f) PROVE TypeOK'
  BY <1>5 DEF TypeOK, CompleteEvent, LedgerEntry, Stages, Pending
<1>6. ASSUME NEW e \in Events, NEW f \in Fences, AbandonEvent(e, f) PROVE TypeOK'
  BY <1>6 DEF TypeOK, AbandonEvent, LedgerEntry, Stages, Pending
<1> QED
  BY <1>1, <1>2, <1>3, <1>4, <1>5, <1>6 DEF World

\* Every step of the store leaves it well formed.
LEMMA StoreTypeStep == TypeOK /\ [StoreNext]_storeVars => TypeOK'
<1> SUFFICES ASSUME TypeOK, [StoreNext]_storeVars PROVE TypeOK'
  OBVIOUS
<1>1. CASE World
  BY <1>1, LedgerTypeOK
<1>2. ASSUME NEW f \in Fences, Call(f) PROVE TypeOK'
  <2>1. CASE \E e \in Events : CompleteEvent(e, f) \/ AbandonEvent(e, f)
    BY <2>1, LedgerTypeOK
  <2>2. CASE \E p \in PlanIds : PlanCall(p, f) \/ CommitmentCall(p, f)
    BY <2>2, PlanCallTypeOK
  <2>3. CASE \E i \in WorkItems : WorkCall(i, f)
    BY <2>3, WorkCallTypeOK
  <2> QED BY <1>2, <2>1, <2>2, <2>3 DEF Call
<1>3. CASE UNCHANGED storeVars
  BY <1>3 DEF TypeOK, storeVars
<1> QED BY <1>1, <1>2, <1>3 DEF StoreNext

\* The store's state is well formed for ever: store.py's mutators keep every
\* field of OperationalState in the range its readers rely on.
THEOREM StoreTypeOK == StoreSpec => []TypeOK
<1>1. StoreInit => TypeOK
  BY BoundAssumption
  DEF StoreInit, TypeOK, UnseenEntry, LedgerEntry, Stages, Pending, AbsentPlan, Plan, Verdicts
<1> QED
  BY <1>1, StoreTypeStep, PTL DEF StoreSpec

-----------------------------------------------------------------------------
(* The ledger *)

\* Calls about plans, the commitment and work items leave the ledger and the
\* revision alone: only advance_revision moves the world.
LEMMA OtherCallsLeaveLedger ==
  ASSUME NEW f \in Fences,
         \/ \E p \in PlanIds : PlanCall(p, f) \/ CommitmentCall(p, f)
         \/ \E i \in WorkItems : WorkCall(i, f)
  PROVE  UNCHANGED <<revision, ledger>>
<1>1. ASSUME NEW p \in PlanIds, PlanCall(p, f) PROVE UNCHANGED <<revision, ledger>>
  BY <1>1 DEF PlanCall, AddPlan, MarkVerified, RejectPlan, CommitPlan
<1>2. ASSUME NEW p \in PlanIds, CommitmentCall(p, f) PROVE UNCHANGED <<revision, ledger>>
  BY <1>2
  DEF CommitmentCall, RevokeCommit, RevokeIfStale, RevokeIfRevisionCurrent, RebindPlan, Withdraw
<1>3. ASSUME NEW i \in WorkItems, WorkCall(i, f) PROVE UNCHANGED <<revision, ledger>>
  BY <1>3 DEF WorkCall, CreateWork, Release, Claim
<1> QED
  BY <1>1, <1>2, <1>3

\* What a step does to the ledger and the revision, one case for each way an
\* event's application can begin, change hands or end.
LEMMA LedgerCases ==
  ASSUME [StoreNext]_storeVars
  PROVE  \/ AbsorbUnidentified
         \/ \E e \in Events : AbsorbEvent(e) \/ ResumeEvent(e) \/ LeaseLapses(e)
         \/ \E e \in Events, f \in Fences : CompleteEvent(e, f) \/ AbandonEvent(e, f)
         \/ UNCHANGED <<revision, ledger>>
<1>1. CASE World
  BY <1>1 DEF World
<1>2. ASSUME NEW f \in Fences, Call(f)
      PROVE  \/ \E e \in Events : CompleteEvent(e, f) \/ AbandonEvent(e, f)
             \/ UNCHANGED <<revision, ledger>>
  BY <1>2, OtherCallsLeaveLedger DEF Call
<1>3. CASE UNCHANGED storeVars
  BY <1>3 DEF storeVars
<1> QED
  BY <1>1, <1>2, <1>3 DEF StoreNext

\* An event keeps the revision it produced; only a fresh one is ever handed out.
LEMMA OwnershipStep ==
  TypeOK /\ EventsOwnTheirRevisions /\ [StoreNext]_storeVars => EventsOwnTheirRevisions'
<1> SUFFICES ASSUME TypeOK, EventsOwnTheirRevisions, [StoreNext]_storeVars
             PROVE  EventsOwnTheirRevisions'
  OBVIOUS
<1> USE BoundAssumption
<1>1. CASE AbsorbUnidentified
  BY <1>1 DEF AbsorbUnidentified, EventsOwnTheirRevisions, TypeOK, LedgerEntry
<1>2. ASSUME NEW e \in Events, AbsorbEvent(e) PROVE EventsOwnTheirRevisions'
  <2>1. /\ revision' = revision + 1
        /\ ledger' = [ledger EXCEPT ![e] =
             [stage |-> "in_progress", revision |-> revision + 1, attempt |-> 1]]
    BY <1>2 DEF AbsorbEvent
  <2>2. ledger'[e] = [stage |-> "in_progress", revision |-> revision + 1, attempt |-> 1]
    BY <2>1 DEF TypeOK
  <2>3. \A d \in Events \ {e} : ledger'[d] = ledger[d]
    BY <2>1 DEF TypeOK
  <2>4. \A d \in Events : ledger[d].revision \in 0..revision
    BY DEF EventsOwnTheirRevisions, TypeOK
  <2> QED
    BY <2>1, <2>2, <2>3, <2>4 DEF EventsOwnTheirRevisions, TypeOK, LedgerEntry
<1>3. ASSUME NEW e \in Events, ResumeEvent(e) PROVE EventsOwnTheirRevisions'
  BY <1>3 DEF ResumeEvent, EventsOwnTheirRevisions, TypeOK, LedgerEntry
<1>4. ASSUME NEW e \in Events, LeaseLapses(e) PROVE EventsOwnTheirRevisions'
  BY <1>4 DEF LeaseLapses, EventsOwnTheirRevisions, TypeOK, LedgerEntry
<1>5. ASSUME NEW e \in Events, NEW f \in Fences, CompleteEvent(e, f)
      PROVE  EventsOwnTheirRevisions'
  BY <1>5 DEF CompleteEvent, EventsOwnTheirRevisions, TypeOK, LedgerEntry, Pending
<1>6. ASSUME NEW e \in Events, NEW f \in Fences, AbandonEvent(e, f)
      PROVE  EventsOwnTheirRevisions'
  BY <1>6 DEF AbandonEvent, EventsOwnTheirRevisions, TypeOK, LedgerEntry
<1>7. CASE UNCHANGED <<revision, ledger>>
  BY <1>7 DEF EventsOwnTheirRevisions
<1> QED
  BY <1>1, <1>2, <1>3, <1>4, <1>5, <1>6, <1>7, LedgerCases

\* Every event that was seen owns one revision, shared with no other, however
\* deliveries, redeliveries, resumes and triggers interleave.
THEOREM StoreOwnership == StoreSpec => []EventsOwnTheirRevisions
<1>1. StoreInit => EventsOwnTheirRevisions
  BY DEF StoreInit, EventsOwnTheirRevisions, UnseenEntry
<1> QED
  BY <1>1, OwnershipStep, StoreTypeOK, PTL DEF StoreSpec

\* An application changes hands only when its attempt failed or fell silent, to
\* the next attempt, at the same revision: no caller can jump the lease.
THEOREM StoreHandover == StoreSpec => HandoverNeedsSilence
<1> DEFINE Handover ==
      \A e \in Events :
        ledger[e].attempt \notin {0, ledger'[e].attempt} =>
          /\ ledger[e].stage \in {"lapsed", "abandoned"}
          /\ ledger'[e].attempt = ledger[e].attempt + 1
          /\ ledger'[e].revision = ledger[e].revision
<1>1. TypeOK /\ EventsOwnTheirRevisions /\ [StoreNext]_storeVars => [Handover]_storeVars
  <2> SUFFICES ASSUME TypeOK, EventsOwnTheirRevisions, [StoreNext]_storeVars,
                      NEW d \in Events,
                      ledger[d].attempt \notin {0, ledger'[d].attempt}
               PROVE  /\ ledger[d].stage \in {"lapsed", "abandoned"}
                      /\ ledger'[d].attempt = ledger[d].attempt + 1
                      /\ ledger'[d].revision = ledger[d].revision
    OBVIOUS
  <2>1. CASE AbsorbUnidentified
    BY <2>1 DEF AbsorbUnidentified
  <2>2. ASSUME NEW e \in Events, AbsorbEvent(e) PROVE FALSE
    BY <2>2 DEF AbsorbEvent, EventsOwnTheirRevisions, TypeOK
  <2>3. ASSUME NEW e \in Events, ResumeEvent(e)
        PROVE  /\ ledger[d].stage \in {"lapsed", "abandoned"}
               /\ ledger'[d].attempt = ledger[d].attempt + 1
               /\ ledger'[d].revision = ledger[d].revision
    BY <2>3 DEF ResumeEvent, TypeOK, LedgerEntry
  <2>4. ASSUME NEW e \in Events, LeaseLapses(e) PROVE FALSE
    BY <2>4 DEF LeaseLapses, TypeOK, LedgerEntry
  <2>5. ASSUME NEW e \in Events, NEW f \in Fences, CompleteEvent(e, f) \/ AbandonEvent(e, f)
        PROVE  FALSE
    BY <2>5 DEF CompleteEvent, AbandonEvent, TypeOK, LedgerEntry
  <2>6. CASE UNCHANGED <<revision, ledger>>
    BY <2>6
  <2> QED
    BY <2>1, <2>2, <2>3, <2>4, <2>5, <2>6, LedgerCases
<1> QED
  BY <1>1, StoreTypeOK, StoreOwnership, PTL DEF StoreSpec, HandoverNeedsSilence

-----------------------------------------------------------------------------
(* Attempts and their fences *)

UnseenIsUntried == \A e \in Events : ledger[e].stage = "unseen" => ledger[e].attempt = 0

\* The world and the attempts only grow.
LEMMA AttemptsGrow ==
  ASSUME TypeOK, UnseenIsUntried, [StoreNext]_storeVars
  PROVE  /\ TypeOK' /\ UnseenIsUntried' /\ revision <= revision'
         /\ \A e \in Events : ledger[e].attempt <= ledger'[e].attempt
<1> USE BoundAssumption DEF UnseenIsUntried, TypeOK, LedgerEntry
<1>1. TypeOK'
  BY StoreTypeStep
<1>2. CASE AbsorbUnidentified
  BY <1>1, <1>2 DEF AbsorbUnidentified
<1>3. ASSUME NEW e \in Events, AbsorbEvent(e) \/ ResumeEvent(e) \/ LeaseLapses(e)
      PROVE  /\ UnseenIsUntried' /\ revision <= revision'
             /\ \A d \in Events : ledger[d].attempt <= ledger'[d].attempt
  BY <1>3 DEF AbsorbEvent, ResumeEvent, LeaseLapses
<1>4. ASSUME NEW e \in Events, NEW f \in Fences, CompleteEvent(e, f) \/ AbandonEvent(e, f)
      PROVE  /\ UnseenIsUntried' /\ revision <= revision'
             /\ \A d \in Events : ledger[d].attempt <= ledger'[d].attempt
  BY <1>4 DEF CompleteEvent, AbandonEvent
<1>5. CASE UNCHANGED <<revision, ledger>>
  BY <1>1, <1>5
<1> QED BY <1>1, <1>2, <1>3, <1>4, <1>5, LedgerCases

\* A fence that was lost does not come back.
LEMMA FencesAreLostForGood ==
  ASSUME TypeOK, UnseenIsUntried, [StoreNext]_storeVars,
         NEW f \in Fences, Minted(f), FenceHolds(f)'
  PROVE  FenceHolds(f)
<1> USE BoundAssumption
<1>1. CASE f = Unfenced
  BY <1>1 DEF FenceHolds
<1>2. CASE f # Unfenced
  <2>1. f.event \in Events /\ f.attempt \in 1..MaxAttempt /\ f.attempt \in 1..ledger[f.event].attempt
    BY <1>2 DEF Fences, Minted
  <2>2. ledger'[f.event].stage \in Pending /\ ledger'[f.event].attempt = f.attempt
    BY <1>2 DEF FenceHolds, CurrentAttempt
  <2>3. ledger[f.event] \in LedgerEntry
    BY <2>1 DEF TypeOK
  <2>4. CASE UNCHANGED ledger
    BY <2>2, <2>4 DEF FenceHolds, CurrentAttempt
  <2>5. ASSUME NEW e \in Events, AbsorbEvent(e) \/ ResumeEvent(e) \/ LeaseLapses(e)
        PROVE  FenceHolds(f)
    BY <2>1, <2>2, <2>3, <2>5
       DEF AbsorbEvent, ResumeEvent, LeaseLapses, FenceHolds, CurrentAttempt, Pending, TypeOK,
           LedgerEntry, UnseenIsUntried
  <2>6. ASSUME NEW e \in Events, NEW g \in Fences, CompleteEvent(e, g) \/ AbandonEvent(e, g)
        PROVE  FenceHolds(f)
    BY <2>1, <2>2, <2>3, <2>6
       DEF CompleteEvent, AbandonEvent, FenceHolds, CurrentAttempt, Pending, TypeOK, LedgerEntry
  <2> QED BY <2>4, <2>5, <2>6, LedgerCases DEF AbsorbUnidentified
<1> QED BY <1>1, <1>2

-----------------------------------------------------------------------------
(* The ledger implements AbsorbOnce *)

\* A step of the store is a step of AbsorbOnce, or invisible there.
LEMMA AbsorptionStep ==
  ASSUME TypeOK, EventsOwnTheirRevisions, [StoreNext]_storeVars
  PROVE  [Absorption!AbsorbNext]_(Absorption!absorbVars)
<1> USE DEF Absorption!AbsorbNext, Absorption!absorbVars
<1> DEFINE absorbed == [e \in Events |-> ledger[e].revision]
           applied == {e \in Events : ledger[e].stage = "applied"}
<1>1. CASE AbsorbUnidentified
  BY <1>1 DEF AbsorbUnidentified, Absorption!WorldMoves
<1>2. ASSUME NEW e \in Events, AbsorbEvent(e) PROVE Absorption!FirstDelivery(e)
  <2>1. ledger[e].revision = 0
    BY <1>2 DEF AbsorbEvent, EventsOwnTheirRevisions
  <2>2. /\ ledger'[e] = [stage |-> "in_progress", revision |-> revision + 1, attempt |-> 1]
        /\ \A d \in Events \ {e} : ledger'[d] = ledger[d]
        /\ revision' = revision + 1
    BY <1>2 DEF AbsorbEvent, TypeOK
  <2>3. absorbed' = [absorbed EXCEPT ![e] = revision + 1]
    <3>1. \A d \in Events : ledger'[d].revision = IF d = e THEN revision + 1 ELSE ledger[d].revision
      BY <2>2
    <3> QED BY <3>1
  <2>4. applied' = applied
    BY <1>2, <2>2 DEF AbsorbEvent
  <2> QED
    BY <2>1, <2>2, <2>3, <2>4 DEF Absorption!FirstDelivery
<1>3. ASSUME NEW e \in Events, NEW f \in Fences, CompleteEvent(e, f)
      PROVE  Absorption!Apply(e)
  <2>1. /\ ledger'[e] = [ledger[e] EXCEPT !.stage = "applied"]
        /\ \A d \in Events \ {e} : ledger'[d] = ledger[d]
        /\ revision' = revision
        /\ ledger[e].stage \in Pending
    BY <1>3 DEF CompleteEvent, TypeOK
  <2>2. ledger[e].revision # 0 /\ ledger[e].stage # "applied"
    BY <2>1 DEF EventsOwnTheirRevisions, Pending, TypeOK
  <2>3. absorbed' = absorbed
    BY <2>1 DEF TypeOK, LedgerEntry
  <2>4. applied' = applied \cup {e}
    BY <2>1 DEF TypeOK, LedgerEntry
  <2> QED
    BY <2>1, <2>2, <2>3, <2>4 DEF Absorption!Apply
<1>4. ASSUME NEW e \in Events, NEW f \in Fences,
             ResumeEvent(e) \/ LeaseLapses(e) \/ AbandonEvent(e, f)
      PROVE  UNCHANGED <<revision, absorbed, applied>>
  <2>1. /\ ledger'[e].revision = ledger[e].revision
        /\ ledger[e].stage # "applied" /\ ledger'[e].stage # "applied"
        /\ \A d \in Events \ {e} : ledger'[d] = ledger[d]
        /\ revision' = revision
    BY <1>4 DEF ResumeEvent, LeaseLapses, AbandonEvent, TypeOK, LedgerEntry
  <2> QED
    BY <2>1
<1>5. CASE UNCHANGED <<revision, ledger>>
  BY <1>5
<1> QED
  <2>1. Unfenced \in Fences
    BY DEF Fences
  <2> QED
    BY <1>1, <1>2, <1>3, <1>4, <1>5, <2>1, LedgerCases

\* Under any mix of deliveries, failures, lapses and late calls, an event moves
\* the world at most once and is declared applied at most once, for good.
THEOREM StoreImplementsAbsorbOnce == StoreSpec => StoreAbsorbsOnce
<1>1. StoreInit => Absorption!AbsorbInit
  BY DEF StoreInit, UnseenEntry, Absorption!AbsorbInit
<1>2. TypeOK /\ EventsOwnTheirRevisions /\ [StoreNext]_storeVars
        => [Absorption!AbsorbNext]_(Absorption!absorbVars)
  BY AbsorptionStep
<1> QED
  BY <1>1, <1>2, StoreTypeOK, StoreOwnership, PTL
  DEF StoreSpec, StoreAbsorbsOnce, Absorption!AbsorbSpec

-----------------------------------------------------------------------------
(* The commitment *)

\* A plan becomes the commitment only verified and bound to the present world,
\* whoever calls commit_plan, when and with what fence.
THEOREM StoreCommitsFresh == StoreSpec => NoStaleCommit
<1> DEFINE Fresh ==
      committed' \notin {committed, NoPlan} =>
        /\ plans'[committed'].verdict = "verified"
        /\ plans'[committed'].basis = revision'
<1>1. TypeOK /\ [StoreNext]_storeVars => [Fresh]_storeVars
  <2> SUFFICES ASSUME [StoreNext]_storeVars, committed' \notin {committed, NoPlan}
               PROVE  /\ plans'[committed'].verdict = "verified"
                      /\ plans'[committed'].basis = revision'
    OBVIOUS
  <2>1. ASSUME NEW f \in Fences, NEW p \in PlanIds, PlanCall(p, f) \/ CommitmentCall(p, f)
        PROVE  /\ plans'[committed'].verdict = "verified"
               /\ plans'[committed'].basis = revision'
    <3>1. CASE CommitPlan(p, f)
      BY <3>1 DEF CommitPlan, Committable, BoundToWorld, WorldStandsAt
    <3>2. CASE PlanCall(p, f) /\ ~CommitPlan(p, f)
      BY <3>2 DEF PlanCall, AddPlan, MarkVerified, RejectPlan
    <3>3. CASE CommitmentCall(p, f)
      BY <3>3
      DEF CommitmentCall, RevokeCommit, RevokeIfStale, RevokeIfRevisionCurrent, RebindPlan, Withdraw
    <3> QED BY <2>1, <3>1, <3>2, <3>3
  <2>2. CASE World
    BY <2>2 DEF World, AbsorbUnidentified, AbsorbEvent, ResumeEvent, LeaseLapses
  <2>3. ASSUME NEW f \in Fences, NEW e \in Events, CompleteEvent(e, f) \/ AbandonEvent(e, f)
        PROVE  FALSE
    BY <2>3 DEF CompleteEvent, AbandonEvent
  <2>4. ASSUME NEW f \in Fences, NEW i \in WorkItems, WorkCall(i, f)
        PROVE  FALSE
    BY <2>4 DEF WorkCall, CreateWork, Release, Claim
  <2>5. CASE UNCHANGED storeVars
    BY <2>5 DEF storeVars
  <2> QED
    BY <2>1, <2>2, <2>3, <2>4, <2>5 DEF StoreNext, Call
<1> QED
  BY <1>1, StoreTypeOK, PTL DEF StoreSpec, NoStaleCommit
=============================================================================
