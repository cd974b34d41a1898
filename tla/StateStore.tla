----------------------------- MODULE StateStore -----------------------------
(***************************************************************************)
(* The authoritative state of one run: app/core/store.py, class            *)
(* InMemoryStateStore over app/core/models.py, class OperationalState.     *)
(*                                                                         *)
(* Every mutator of the store holds one lock for its whole body, so every  *)
(* mutator is one action here.  An authoritative mutator first passes      *)
(* _require_fence; the two ways it can refuse (the event is already        *)
(* applied, the attempt was superseded) change nothing but the trace and   *)
(* raise, so they are predicates that a caller's model branches on.  In    *)
(* the same way the value an operation returns is a predicate of the state *)
(* it was called in (WorldStandsAt, Committable, ...).                     *)
(*                                                                         *)
(* The trace (event log) is append-only and no operation of the store      *)
(* reads it: it is left out.  Wall-clock time appears only in the question *)
(* "has this attempt been silent for longer than its lease", which is the  *)
(* stage "lapsed" of the ledger.                                           *)
(***************************************************************************)
EXTENDS Naturals

CONSTANTS
  Events,        \* external event ids
  NoEvent,       \* event_id = None: truth with no delivery identity
  PlanIds,       \* candidate plan ids
  NoPlan,        \* committed_plan_id = None
  Proposals,     \* what a plan proposes (its actions): the departure
  NoProposal,
  WorkItems,     \* work item ids
  Actors,        \* who may claim a work item
  Unclaimed,     \* claimed_by = None of an open item
  NotCreated,    \* an id that is no key of state.work
  MaxRevision,   \* bound: how often the world may move
  MaxAttempt     \* bound: how often one event's application may be started

ASSUME NoEventAssumption == NoEvent \notin Events
ASSUME NoPlanAssumption == NoPlan \notin PlanIds
ASSUME NoProposalAssumption == NoProposal \notin Proposals
ASSUME WorkAssumption == /\ Unclaimed \notin Actors
                         /\ NotCreated \notin Actors
                         /\ NotCreated # Unclaimed
ASSUME BoundAssumption == /\ MaxRevision \in Nat \ {0}
                          /\ MaxAttempt \in Nat \ {0}

VARIABLES
  revision,    \* state.revision
  ledger,      \* state.pending_events and state.processed_events, by event
  plans,       \* state.plans
  committed,   \* state.committed_plan_id
  work         \* state.work

storeVars == <<revision, ledger, plans, committed, work>>

-----------------------------------------------------------------------------
(* Types *)

\* "in_progress" and "lapsed" are the marker's state in_progress, within its
\* lease and silent past it; "applied" is a key of processed_events.
Pending == {"in_progress", "lapsed", "abandoned"}
Stages == {"unseen", "applied"} \cup Pending

\* attempt is kept after the event is applied, where the code drops the marker:
\* it counts the fences that were ever minted for the event.
LedgerEntry == [stage : Stages, revision : 0..MaxRevision, attempt : 0..MaxAttempt]
UnseenEntry == [stage |-> "unseen", revision |-> 0, attempt |-> 0]

\* verified = True is "verified"; verified = False is "candidate" while there is
\* no rejection_reason and "rejected" once there is one.
Verdicts == {"absent", "candidate", "verified", "rejected"}
Plan == [verdict : Verdicts, basis : 0..MaxRevision, proposal : Proposals \cup {NoProposal}]
AbsentPlan == [verdict |-> "absent", basis |-> 0, proposal |-> NoProposal]

\* The fence of a write: an attempt of an event, or UNFENCED.
Unfenced == [event |-> NoEvent, attempt |-> 0]
Fences == [event : Events, attempt : 1..MaxAttempt] \cup {Unfenced}

-----------------------------------------------------------------------------
(* _require_fence *)

AlreadyApplied(f) == f # Unfenced /\ ledger[f.event].stage = "applied"

CurrentAttempt(f) ==
  /\ ledger[f.event].stage \in Pending
  /\ ledger[f.event].attempt = f.attempt

\* Fault: the store does not ask whose attempt a write belongs to.
AnyFence(f) == TRUE

FenceHolds(f) == f # Unfenced => CurrentAttempt(f)

Superseded(f) == ~FenceHolds(f) /\ ~AlreadyApplied(f)

\* A fence some caller can hold: one the ledger has handed out.
Minted(f) == f # Unfenced => f.attempt \in 1..ledger[f.event].attempt

Known(p) == plans[p].verdict # "absent"
Created(i) == work[i] # NotCreated
WorldStandsAt(r) == revision = r
BoundToWorld(p) == WorldStandsAt(plans[p].basis)
Committable(p) == plans[p].verdict = "verified" /\ BoundToWorld(p)

-----------------------------------------------------------------------------
StoreInit ==
  /\ revision = 0
  /\ ledger = [e \in Events |-> UnseenEntry]
  /\ plans = [p \in PlanIds |-> AbsentPlan]
  /\ committed = NoPlan
  /\ work = [i \in WorkItems |-> NotCreated]

-----------------------------------------------------------------------------
(* advance_revision: the deduplication point *)

\* Fault: the first delivery opens a marker but does not move the world.
AbsorbWithoutAdvance(e) ==
  /\ ledger[e].stage = "unseen"
  /\ ledger' = [ledger EXCEPT ![e] = [stage |-> "in_progress", revision |-> revision, attempt |-> 1]]
  /\ UNCHANGED <<revision, plans, committed, work>>

\* First delivery of e: the world moves and attempt 1 begins.
AbsorbEvent(e) ==
  /\ ledger[e].stage = "unseen"
  /\ revision < MaxRevision
  /\ revision' = revision + 1
  /\ ledger' = [ledger EXCEPT ![e] =
                  [stage |-> "in_progress", revision |-> revision + 1, attempt |-> 1]]
  /\ UNCHANGED <<plans, committed, work>>

\* Fault: redelivery of an unfinished event counts as new truth.
ResumeAdvancing(e) ==
  /\ ledger[e].stage \in {"lapsed", "abandoned"}
  /\ ledger[e].attempt < MaxAttempt
  /\ revision < MaxRevision
  /\ revision' = revision + 1
  /\ ledger' = [ledger EXCEPT ![e] = [stage |-> "in_progress", revision |-> revision + 1,
                                      attempt |-> @.attempt + 1]]
  /\ UNCHANGED <<plans, committed, work>>

\* Fault: an attempt still inside its lease is taken over.
ResumeTheLiving(e) ==
  /\ ledger[e].stage \in Pending
  /\ ledger[e].attempt < MaxAttempt
  /\ ledger' = [ledger EXCEPT ![e].stage = "in_progress", ![e].attempt = @ + 1]
  /\ UNCHANGED <<revision, plans, committed, work>>

\* Redelivery of an event whose worker failed or fell silent: the work is
\* redone at the same revision, by a new attempt.
ResumeEvent(e) ==
  /\ ledger[e].stage \in {"lapsed", "abandoned"}
  /\ ledger[e].attempt < MaxAttempt
  /\ ledger' = [ledger EXCEPT ![e].stage = "in_progress", ![e].attempt = @ + 1]
  /\ UNCHANGED <<revision, plans, committed, work>>

\* advance_revision answers None: applied already, or an attempt is alive.
Dismissed(e) == ledger[e].stage \in {"in_progress", "applied"}

\* event_id = None always advances and is not remembered.
AbsorbUnidentified ==
  /\ revision < MaxRevision
  /\ revision' = revision + 1
  /\ UNCHANGED <<ledger, plans, committed, work>>

\* Time: the attempt has been silent for longer than event_lease_seconds.
LeaseLapses(e) ==
  /\ ledger[e].stage = "in_progress"
  /\ ledger' = [ledger EXCEPT ![e].stage = "lapsed"]
  /\ UNCHANGED <<revision, plans, committed, work>>

-----------------------------------------------------------------------------
(* complete_event and abandon_event *)

CompleteEvent(e, f) ==
  /\ ledger[e].stage \in Pending
  /\ FenceHolds(f)
  /\ ledger' = [ledger EXCEPT ![e].stage = "applied"]
  /\ UNCHANGED <<revision, plans, committed, work>>

\* Fault: a superseded attempt may still mark the event abandoned.
AbandonUnguarded(e, f) ==
  /\ ledger[e].stage \in {"in_progress", "lapsed"}
  /\ ledger' = [ledger EXCEPT ![e].stage = "abandoned"]
  /\ UNCHANGED <<revision, plans, committed, work>>

AbandonEvent(e, f) ==
  /\ ledger[e].stage \in {"in_progress", "lapsed"}
  /\ FenceHolds(f)
  /\ ledger' = [ledger EXCEPT ![e].stage = "abandoned"]
  /\ UNCHANGED <<revision, plans, committed, work>>

-----------------------------------------------------------------------------
(* Work items *)

CreateWork(i, f) ==
  /\ FenceHolds(f)
  /\ work' = [work EXCEPT ![i] = IF Created(i) THEN @ ELSE Unclaimed]
  /\ UNCHANGED <<revision, ledger, plans, committed>>

\* What claim returns: the item is the actor's own, or free.
Claimable(i, a) == work[i] \in {a, Unclaimed}

Claim(i, a, f) ==
  /\ FenceHolds(f)
  /\ Created(i)
  /\ work' = [work EXCEPT ![i] = IF Claimable(i, a) THEN a ELSE @]
  /\ UNCHANGED <<revision, ledger, plans, committed>>

\* release asks neither who holds the item nor who releases it.
Release(i, f) ==
  /\ FenceHolds(f)
  /\ Created(i)
  /\ work' = [work EXCEPT ![i] = Unclaimed]
  /\ UNCHANGED <<revision, ledger, plans, committed>>

-----------------------------------------------------------------------------
(* Candidate plans and the commitment *)

\* Fault: the plan is bound to the revision after the one it was computed at.
AddPlanAhead(p, proposal, basis, f) ==
  /\ FenceHolds(f)
  /\ plans' = [plans EXCEPT ![p] =
                 [verdict |-> "candidate", basis |-> basis + 1, proposal |-> proposal]]
  /\ UNCHANGED <<revision, ledger, committed, work>>

\* A plan under an existing id replaces it, the committed one included.
AddPlan(p, proposal, basis, f) ==
  /\ FenceHolds(f)
  /\ plans' = [plans EXCEPT ![p] =
                 [verdict |-> "candidate", basis |-> basis, proposal |-> proposal]]
  /\ UNCHANGED <<revision, ledger, committed, work>>

\* Returns BoundToWorld(p); a stale plan is refused and marked so.
MarkVerified(p, f) ==
  /\ FenceHolds(f)
  /\ Known(p)
  /\ plans' = [plans EXCEPT ![p].verdict = IF BoundToWorld(p) THEN "verified" ELSE "rejected"]
  /\ UNCHANGED <<revision, ledger, committed, work>>

RejectPlan(p, f) ==
  /\ FenceHolds(f)
  /\ Known(p)
  /\ plans' = [plans EXCEPT ![p].verdict = "rejected"]
  /\ UNCHANGED <<revision, ledger, committed, work>>

\* Fault: commit_plan trusts the verdict and forgets the world.
CommitIfVerified(p, f) ==
  /\ FenceHolds(f)
  /\ Known(p)
  /\ committed' = IF plans[p].verdict = "verified" THEN p ELSE committed
  /\ UNCHANGED <<revision, ledger, plans, work>>

\* Returns Committable(p).
CommitPlan(p, f) ==
  /\ FenceHolds(f)
  /\ Known(p)
  /\ committed' = IF Committable(p) THEN p ELSE committed
  /\ UNCHANGED <<revision, ledger, plans, work>>

\* The withdrawal the three revocations share; refused without effect when p
\* is not the commitment or the revocation's own condition fails.
Withdraw(p, f, condition) ==
  /\ FenceHolds(f)
  /\ IF committed = p /\ condition
       THEN /\ plans' = [plans EXCEPT ![p].verdict = "rejected"]
            /\ committed' = NoPlan
       ELSE UNCHANGED <<plans, committed>>
  /\ UNCHANGED <<revision, ledger, work>>

RevokeCommit(p, f) == Withdraw(p, f, TRUE)

\* Fault: a negative verdict withdraws whatever the world has become.
RevokeOnAnyVerdict(p, expected, f) == Withdraw(p, f, TRUE)

\* A negative verdict counts only in the world it was reached in.
RevokeIfRevisionCurrent(p, expected, f) == Withdraw(p, f, WorldStandsAt(expected))

\* Fault: losing the re-bind race withdraws unconditionally.
RevokeRepaired(p, f) == Withdraw(p, f, TRUE)

\* A commitment someone re-verified in the present world is left alone.
RevokeIfStale(p, f) == Withdraw(p, f, ~BoundToWorld(p))

\* Returns WorldStandsAt(expected).
RebindPlan(p, expected, f) ==
  /\ FenceHolds(f)
  /\ Known(p)
  /\ plans' = [plans EXCEPT ![p].basis = IF WorldStandsAt(expected) THEN expected ELSE @]
  /\ UNCHANGED <<revision, ledger, committed, work>>

-----------------------------------------------------------------------------
(* The store under arbitrary clients: anyone may call any operation with any *)
(* fence the store has ever handed out, dead or alive, and with any plan     *)
(* computed at a revision the world has already reached.                     *)

PlanCall(p, f) ==
  \/ \E q \in Proposals, r \in 0..revision : AddPlan(p, q, r, f)
  \/ MarkVerified(p, f)
  \/ RejectPlan(p, f)
  \/ CommitPlan(p, f)

CommitmentCall(p, f) ==
  \/ RevokeCommit(p, f)
  \/ RevokeIfStale(p, f)
  \/ \E r \in 0..revision : RevokeIfRevisionCurrent(p, r, f) \/ RebindPlan(p, r, f)

WorkCall(i, f) ==
  \/ CreateWork(i, f)
  \/ Release(i, f)
  \/ \E a \in Actors : Claim(i, a, f)

Call(f) ==
  \/ \E e \in Events : CompleteEvent(e, f) \/ AbandonEvent(e, f)
  \/ \E p \in PlanIds : PlanCall(p, f) \/ CommitmentCall(p, f)
  \/ \E i \in WorkItems : WorkCall(i, f)

World ==
  \/ AbsorbUnidentified
  \/ \E e \in Events : AbsorbEvent(e) \/ ResumeEvent(e) \/ LeaseLapses(e)

StoreNext == World \/ \E f \in Fences : Minted(f) /\ Call(f)

StoreSpec == StoreInit /\ [][StoreNext]_storeVars

-----------------------------------------------------------------------------
(* Properties *)

\* Every field of the state stays in the range its readers rely on: the
\* markers of OperationalState.pending_events / processed_events, the plans'
\* basis_revision, the commitment and the claims.
TypeOK ==
  /\ revision \in 0..MaxRevision
  /\ ledger \in [Events -> LedgerEntry]
  /\ plans \in [PlanIds -> Plan]
  /\ committed \in PlanIds \cup {NoPlan}
  /\ work \in [WorkItems -> Actors \cup {Unclaimed, NotCreated}]

\* An event that was seen owns exactly one revision, reached and shared with
\* no other event, whatever mix of first deliveries, redeliveries, resumes and
\* unidentified triggers moved the world (store.py, advance_revision).
EventsOwnTheirRevisions ==
  /\ \A e \in Events :
       IF ledger[e].stage = "unseen"
         THEN ledger[e].revision = 0 /\ ledger[e].attempt = 0
         ELSE ledger[e].revision \in 1..revision /\ ledger[e].attempt > 0
  /\ \A d, e \in Events :
       d # e /\ ledger[d].stage # "unseen" => ledger[d].revision # ledger[e].revision

Absorption ==
  INSTANCE AbsorbOnce WITH
    clock <- revision,
    absorbed <- [e \in Events |-> ledger[e].revision],
    applied <- {e \in Events : ledger[e].stage = "applied"}

\* The ledger implements AbsorbOnce: no sequence of deliveries, failures,
\* lapses and late calls moves the world twice for one event or re-opens an
\* event that was applied (test_event_idempotency.py).
StoreAbsorbsOnce == Absorption!AbsorbSpec

\* Whoever calls what, in whatever order and with whatever fence: a plan that
\* becomes the commitment is verified and bound to the world as it stands, so a
\* verdict from before the last event cannot commit (test_stale_plan.py).
NoStaleCommit ==
  [][committed' \notin {committed, NoPlan} =>
       /\ plans'[committed'].verdict = "verified"
       /\ plans'[committed'].basis = revision']_storeVars

\* An application changes hands only after its attempt failed or fell silent
\* past the lease, never once it is finished, to exactly the next attempt, and
\* at the revision the event already owns (advance_revision, the resume branch).
HandoverNeedsSilence ==
  [][\A e \in Events :
       ledger[e].attempt \notin {0, ledger'[e].attempt} =>
         /\ ledger[e].stage \in {"lapsed", "abandoned"}
         /\ ledger'[e].attempt = ledger[e].attempt + 1
         /\ ledger'[e].revision = ledger[e].revision]_storeVars
=============================================================================
