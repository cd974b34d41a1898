--------------------------- MODULE FirestoreStore ---------------------------
(***************************************************************************)
(* The durable state of one run: app/core/firestore_store.py, class        *)
(* FirestoreStateStore, whose operations are transactions over documents.  *)
(*                                                                         *)
(* A transaction reads documents one at a time, decides on the copies it   *)
(* read, and its buffered writes land together only if no document it read *)
(* was written since.  Otherwise, or when the service gives up on a lock,  *)
(* the client library runs it again, up to txn_max_attempts times.  The    *)
(* answer of a commit that landed may be lost, and then it runs again too. *)
(* claim puts its own retries on top, and one fresh read after them.       *)
(*                                                                         *)
(* Documents are read here in any order: a superset of the code's orders.  *)
(* A transaction that raises rolls back and leaves no write.               *)
(***************************************************************************)
EXTENDS Naturals

CONSTANTS
  Events, NoEvent, PlanIds, NoPlan, Proposals, NoProposal,
  WorkItems, Unclaimed, NotCreated, MaxRevision, MaxAttempt,  \* as in StateStore
  Clients,       \* threads with a call to make; each claims as the actor it is
  Repertoires,   \* bound: the sets of operations a behaviour is made of
  MaxTries,      \* txn_max_attempts
  ClaimRetries   \* HARBOR_CLAIM_RETRIES

ASSUME NamesAssumption == /\ NoEvent \notin Events /\ NoPlan \notin PlanIds
                          /\ NoProposal \notin Proposals /\ NotCreated # Unclaimed
                          /\ Clients \cap {Unclaimed, NotCreated} = {}
ASSUME LimitsAssumption == MaxRevision \in Nat \ {0} /\ MaxAttempt \in Nat \ {0}
ASSUME TriesAssumption == MaxTries \in Nat \ {0} /\ ClaimRetries \in Nat

VARIABLES
  docs,      \* the documents under runs/{run_id}
  silent,    \* the events whose started_at is older than the lease
  tx,        \* each client's call in progress
  told,      \* the answer each client's last claim got, until a release
  ops        \* the operations the clients call, the same all along

fsVars == <<docs, silent, tx, told, ops>>

-----------------------------------------------------------------------------
(* The documents, and the store they stand for *)

Run == <<"run">>
EventDoc(e) == <<"events_seen", e>>
PlanDoc(p) == <<"plans", p>>
WorkDoc(i) == <<"work", i>>

DocIds == {Run} \cup {EventDoc(e) : e \in Events}
                \cup {PlanDoc(p) : p \in PlanIds} \cup {WorkDoc(i) : i \in WorkItems}

\* A marker that says in_progress is lapsed once its started_at is too old.
Aged(e) == LET m == docs[EventDoc(e)]
           IN IF m.stage = "in_progress" /\ e \in silent THEN [m EXCEPT !.stage = "lapsed"] ELSE m

Mirror ==
  INSTANCE StateStore WITH
    Actors <- Clients,
    revision <- docs[Run].revision,
    committed <- docs[Run].committed,
    ledger <- [e \in Events |-> Aged(e)],
    plans <- [p \in PlanIds |-> docs[PlanDoc(p)]],
    work <- [i \in WorkItems |-> docs[WorkDoc(i)]]

Unfenced == Mirror!Unfenced
Open == {"in_progress", "abandoned"}   \* a marker that is not complete

-----------------------------------------------------------------------------
(* Calls *)

\* A caller holds a fence the store has handed out, and reasons about a
\* revision the world has reached.
Handed == {f \in Mirror!Fences : Mirror!Minted(f)}
Reached == 0..docs[Run].revision

Calls ==
  [op : {"trigger"}, fence : {Unfenced}]        \* advance_revision with no event id
  \cup [op : {"advance"}, event : Events, fence : {Unfenced}]
  \cup [op : {"complete", "abandon"}, event : Events, fence : Handed]
  \cup [op : {"create", "claim", "release"}, item : WorkItems, fence : Handed]
  \cup [op : {"mark", "reject", "commit", "revoke", "revoke_stale"}, plan : PlanIds, fence : Handed]
  \cup [op : {"rebind", "revoke_current"}, plan : PlanIds, revision : Reached, fence : Handed]
  \cup [op : {"add"}, plan : PlanIds, proposal : Proposals, revision : Reached, fence : Handed]

FenceReads(call) == IF call.fence = Unfenced THEN {} ELSE {EventDoc(call.fence.event)}

\* The documents a transaction gets; add_plan and release write blindly.
OwnReads(call) ==
  CASE call.op = "trigger" -> {Run}
    [] call.op = "advance" -> {Run, EventDoc(call.event)}
    [] call.op \in {"complete", "abandon"} -> {EventDoc(call.event)}
    [] call.op \in {"create", "claim"} -> {WorkDoc(call.item)}
    [] call.op \in {"add", "release"} -> {}
    [] call.op = "reject" -> {PlanDoc(call.plan)}
    [] call.op = "revoke" -> {Run}
    [] OTHER -> {PlanDoc(call.plan), Run}

Reads(call) == FenceReads(call) \cup OwnReads(call)

\* Fault: the fence is read outside the transaction it guards.
TrackedWithoutFence(call) == OwnReads(call)

\* Fault: the revision is read outside the transaction that advances it.
TrackedWithoutRun(call) == Reads(call) \ {Run}

\* The reads made with transaction=txn, which a later write by another aborts.
Tracked(call) == Reads(call)

-----------------------------------------------------------------------------
(* What a transaction decides from the copies v it read *)

FenceLost(call, v) ==
  /\ call.fence # Unfenced
  /\ LET m == v[EventDoc(call.fence.event)]
     IN m.stage = "applied" \/ m.attempt # call.fence.attempt

\* complete_event and abandon_event look at the event before the fence.
NothingToDo(call, v) ==
  \/ call.op = "complete" /\ v[EventDoc(call.event)].stage \notin Open
  \/ call.op = "abandon" /\ v[EventDoc(call.event)].stage # "in_progress"

Missing(call, v) ==
  \/ /\ call.op \in {"mark", "reject", "commit", "rebind"}
     /\ v[PlanDoc(call.plan)].verdict = "absent"
  \/ call.op = "claim" /\ v[WorkDoc(call.item)] = NotCreated

Raises(call, v) == ~NothingToDo(call, v) /\ (FenceLost(call, v) \/ Missing(call, v))

\* Documents and what is written to them: none, one, or those of w over those of v.
NoWrites == [d \in {} |-> {}]
Only(doc, content) == [d \in {doc} |-> content]
Over(w, v) == [d \in DOMAIN w \cup DOMAIN v |-> IF d \in DOMAIN w THEN w[d] ELSE v[d]]

MovedOn(run) == [run EXCEPT !.revision = @ + 1]

AdvanceWrites(e, v) ==
  LET m == v[EventDoc(e)]
      first == [stage |-> "in_progress", revision |-> v[Run].revision + 1, attempt |-> 1]
      next == [m EXCEPT !.stage = "in_progress", !.attempt = @ + 1]
  IN CASE m.stage = "unseen" -> Over(Only(Run, MovedOn(v[Run])), Only(EventDoc(e), first))
       [] m.stage = "abandoned" \/ (m.stage = "in_progress" /\ e \in silent) ->
            Only(EventDoc(e), next)
       [] OTHER -> NoWrites

MarkerWrites(call, v) ==
  IF NothingToDo(call, v) THEN NoWrites
  ELSE Only(EventDoc(call.event),
            [v[EventDoc(call.event)] EXCEPT
               !.stage = IF call.op = "complete" THEN "applied" ELSE "abandoned"])

\* release updates blindly, and the service refuses to update what is not there.
WorkWrites(c, call, v) ==
  LET doc == WorkDoc(call.item)
  IN CASE call.op = "create" /\ v[doc] = NotCreated -> Only(doc, Unclaimed)
       [] call.op = "claim" /\ v[doc] = Unclaimed -> Only(doc, c)
       [] call.op = "release" /\ docs[doc] # NotCreated -> Only(doc, Unclaimed)
       [] OTHER -> NoWrites

\* Fault: a plan is held against the world its caller last heard of.
BoundOnHearsay(call, v) == TRUE

Bound(call, v) == v[PlanDoc(call.plan)].basis = v[Run].revision

PlanWrites(call, v) ==
  LET doc == PlanDoc(call.plan)
  IN CASE call.op = "add" ->
            Only(doc, [verdict |-> "candidate", basis |-> call.revision, proposal |-> call.proposal])
       [] call.op = "mark" ->
            Only(doc, [v[doc] EXCEPT !.verdict = IF Bound(call, v) THEN "verified" ELSE "rejected"])
       [] call.op = "reject" -> Only(doc, [v[doc] EXCEPT !.verdict = "rejected"])
       [] call.op = "rebind" /\ v[Run].revision = call.revision ->
            Only(doc, [v[doc] EXCEPT !.basis = call.revision])
       [] call.op = "commit" /\ v[doc].verdict = "verified" /\ Bound(call, v) ->
            Only(Run, [v[Run] EXCEPT !.committed = call.plan])
       [] OTHER -> NoWrites

Withdrawable(call, v) ==
  /\ v[Run].committed = call.plan
  /\ call.op = "revoke_current" => v[Run].revision = call.revision
  /\ call.op = "revoke_stale" => ~Bound(call, v)

\* The verdict is updated field by field: revoke_commit has not read the plan.
RevokeWrites(call, v) ==
  IF Withdrawable(call, v)
    THEN Over(Only(Run, [v[Run] EXCEPT !.committed = NoPlan]),
              Only(PlanDoc(call.plan), [docs[PlanDoc(call.plan)] EXCEPT !.verdict = "rejected"]))
    ELSE NoWrites

Writes(c, call, v) ==
  CASE call.op = "trigger" -> Only(Run, MovedOn(v[Run]))
    [] call.op = "advance" -> AdvanceWrites(call.event, v)
    [] call.op \in {"complete", "abandon"} -> MarkerWrites(call, v)
    [] call.op \in {"create", "claim", "release"} -> WorkWrites(c, call, v)
    [] call.op \in {"revoke", "revoke_stale", "revoke_current"} -> RevokeWrites(call, v)
    [] OTHER -> PlanWrites(call, v)

-----------------------------------------------------------------------------
(* One client's call: a transaction, run until it lands, raises or gives up *)

Idle == [phase |-> "idle"]

\* Kept only for the properties: what the last claim was told about its item.
Untold == [answer |-> "none"]
Answers == {"won", "refused", "undecided", "unknown"}
Tell(c, answer) ==
  told' = IF tx[c].call.op = "claim"
            THEN [told EXCEPT ![c] = [answer |-> answer, item |-> tx[c].call.item]]
            ELSE told

Running(c) == tx[c].phase = "running"
Ready(c) == Running(c) /\ DOMAIN tx[c].view = Reads(tx[c].call) /\ ~tx[c].dirty
Intended(c) == Writes(c, tx[c].call, tx[c].view)

FirestoreInit ==
  /\ docs = [d \in DocIds |->
               CASE d = Run -> [revision |-> 0, committed |-> NoPlan]
                 [] d[1] = "events_seen" -> [stage |-> "unseen", revision |-> 0, attempt |-> 0]
                 [] d[1] = "plans" -> [verdict |-> "absent", basis |-> 0, proposal |-> NoProposal]
                 [] OTHER -> NotCreated]
  /\ silent = {}
  /\ tx = [c \in Clients |-> Idle]
  /\ told = [c \in Clients |-> Untold]
  /\ ops \in Repertoires

Fresh(call, tries, rounds) ==
  [phase |-> "running", call |-> call, view |-> NoWrites, dirty |-> FALSE,
   tries |-> tries, rounds |-> rounds]

Begin(c) ==
  /\ tx[c] = Idle
  /\ \E call \in Calls :
       /\ call.op \in ops
       /\ tx' = [tx EXCEPT ![c] = Fresh(call, 1, 0)]
       /\ told' = IF call.op = "claim" THEN [told EXCEPT ![c] = Untold] ELSE told
  /\ UNCHANGED <<docs, silent>>

\* What a transaction reads after a conflict cannot land: it need not go on.
Read(c) ==
  /\ Running(c)
  /\ ~tx[c].dirty
  /\ \E d \in Reads(tx[c].call) \ DOMAIN tx[c].view :
       tx' = [tx EXCEPT ![c].view = Over(Only(d, docs[d]), @)]
  /\ UNCHANGED <<docs, silent, told>>

\* Bound: the world and the attempts stop where StateStore's do.
WithinBounds(w) ==
  /\ Run \in DOMAIN w => w[Run].revision <= MaxRevision
  /\ \A e \in Events : EventDoc(e) \in DOMAIN w => w[EventDoc(e)].attempt <= MaxAttempt

\* The writes land at once; whoever had read what they change cannot land.
Land(c, w, after) ==
  /\ WithinBounds(w)
  /\ docs' = Over(w, docs)
  /\ silent' = IF tx[c].call.op = "advance"
                 THEN silent \ {e \in Events : EventDoc(e) \in DOMAIN w} ELSE silent
  /\ tx' = [k \in Clients |->
              IF k = c THEN after
              ELSE IF Running(k) /\ DOMAIN w \cap DOMAIN tx[k].view \cap Tracked(tx[k].call) # {}
                THEN [tx[k] EXCEPT !.dirty = TRUE, !.view = NoWrites]
                ELSE tx[k]]

\* A release takes back what earlier claims were told.
Released(i) ==
  told' = [k \in Clients |-> IF told[k].answer = "won" /\ told[k].item = i THEN Untold ELSE told[k]]

Commit(c) ==
  /\ Ready(c)
  /\ ~Raises(tx[c].call, tx[c].view)
  /\ Land(c, Intended(c), Idle)
  /\ CASE tx[c].call.op = "claim" ->
            Tell(c, IF tx[c].view[WorkDoc(tx[c].call.item)] \in {c, Unclaimed}
                      THEN "won" ELSE "refused")
       [] tx[c].call.op = "release" -> Released(tx[c].call.item)
       [] OTHER -> UNCHANGED told

Raise(c) ==
  /\ Ready(c)
  /\ Raises(tx[c].call, tx[c].view)
  /\ tx' = [tx EXCEPT ![c] = Idle]
  /\ UNCHANGED <<docs, silent, told>>

\* Fault: the budget is checked after it is overdrawn.
RunAgainOnceTooOften(t) == Fresh(t.call, t.tries + 1, t.rounds)

\* Aborted: run again; a claim out of tries backs off and starts over, and
\* reads the item afresh once its own retries are spent.  Others raise.
RunAgain(t) ==
  CASE t.tries < MaxTries -> Fresh(t.call, t.tries + 1, t.rounds)
    [] t.tries >= MaxTries /\ t.call.op = "claim" /\ t.rounds < ClaimRetries ->
         Fresh(t.call, 1, t.rounds + 1)
    [] t.tries >= MaxTries /\ t.call.op = "claim" /\ t.rounds >= ClaimRetries ->
         [phase |-> "rereading", call |-> t.call]
    [] OTHER -> Idle

\* A conflict, or a lock that timed out.
Abort(c) ==
  /\ Running(c)
  /\ tx' = [tx EXCEPT ![c] = RunAgain(@)]
  /\ UNCHANGED <<docs, silent, told>>

\* The commit lands, the client hears of an abort.
ResponseLost(c) ==
  /\ Ready(c)
  /\ ~Raises(tx[c].call, tx[c].view)
  /\ Intended(c) # NoWrites
  /\ Land(c, Intended(c), RunAgain(tx[c]))
  /\ IF tx[c].call.op = "release" THEN Released(tx[c].call.item) ELSE UNCHANGED told

\* Fault: spent retries are taken for a refusal.
RereadNothing(c) ==
  /\ tx[c].phase = "rereading"
  /\ Tell(c, "refused")
  /\ tx' = [tx EXCEPT ![c] = Idle]
  /\ UNCHANGED <<docs, silent>>

\* Spent retries are no answer about ownership: ask the item itself.
Reread(c) ==
  /\ tx[c].phase = "rereading"
  /\ Tell(c, LET owner == docs[WorkDoc(tx[c].call.item)]
             IN CASE owner = c -> "won"
                  [] owner \in Clients \ {c} -> "refused"
                  [] owner = Unclaimed -> "undecided"
                  [] owner = NotCreated -> "unknown")
  /\ tx' = [tx EXCEPT ![c] = Idle]
  /\ UNCHANGED <<docs, silent>>

RereadFails(c) ==
  /\ tx[c].phase = "rereading"
  /\ Tell(c, "unknown")
  /\ tx' = [tx EXCEPT ![c] = Idle]
  /\ UNCHANGED <<docs, silent>>

\* Time: an attempt outlives its lease.
FallSilent(e) ==
  /\ docs[EventDoc(e)].stage = "in_progress"
  /\ e \notin silent
  /\ silent' = silent \cup {e}
  /\ UNCHANGED <<docs, tx, told>>

Step(c) == Read(c) \/ Commit(c) \/ Raise(c) \/ Abort(c) \/ Reread(c)

FirestoreNext ==
  /\ \/ \E c \in Clients : Begin(c) \/ Step(c) \/ ResponseLost(c) \/ RereadFails(c)
     \/ \E e \in Events : FallSilent(e)
  /\ UNCHANGED ops

FirestoreSpec == FirestoreInit /\ [][FirestoreNext]_fsVars

-----------------------------------------------------------------------------
(* Properties *)

\* The documents and the calls in progress keep their shape, and no call runs
\* more transactions than its budget (txn_max_attempts, HARBOR_CLAIM_RETRIES).
FirestoreTypeOK ==
  /\ Mirror!TypeOK
  /\ \A e \in Events : docs[EventDoc(e)].stage # "lapsed"
  /\ silent \subseteq Events
  /\ \A c \in Clients :
       /\ told[c] # Untold => told[c].answer \in Answers /\ told[c].item \in WorkItems
       /\ tx[c].phase \in {"idle", "running", "rereading"}
       /\ Running(c) =>
            /\ DOMAIN tx[c].view \subseteq Reads(tx[c].call)
            /\ tx[c].tries \in 1..MaxTries
            /\ tx[c].rounds \in 0..ClaimRetries

\* Transactions that interleave read by read, conflict, run again and lose
\* their answers do what InMemoryStateStore does under one lock, operation by
\* operation ("mirrors InMemoryStateStore semantics exactly").
FirestoreMirrorsTheStore == Mirror!StoreSpec

\* A fenced effect lands only while its attempt holds the event: no resume and
\* no completion comes between the check of the fence and the write it guards
\* (_require_fence, "inside the caller's transaction").
NoLateEffect ==
  [][\A c \in Clients :
       /\ docs' # docs
       /\ Ready(c)
       /\ ~(tx'[c].phase = "running" /\ tx'[c].dirty)
       /\ tx'[c] # tx[c]
       /\ tx[c].call.fence # Unfenced
       => LET f == tx[c].call.fence
          IN /\ docs[EventDoc(f.event)].stage \in Open
             /\ docs[EventDoc(f.event)].attempt = f.attempt]_fsVars

\* However often a claim was run again, a winner owns the item until somebody
\* releases it, and whoever was refused or told that nothing was decided does
\* not own it (claim, _resolve_claim_after_exhaustion).
ClaimAnswersAreTrue ==
  \A c \in Clients :
    /\ told[c].answer = "won" => docs[WorkDoc(told[c].item)] = c
    /\ told[c].answer \in {"refused", "undecided"} => docs[WorkDoc(told[c].item)] # c
=============================================================================
