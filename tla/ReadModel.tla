------------------------------ MODULE ReadModel ------------------------------
(***************************************************************************)
(* The read model of FirestoreStateStore (app/core/firestore_store.py):    *)
(* self.state of one instance, shared by the threads that serve requests   *)
(* on it.  Every mutation is a transaction, then a refresh that reloads    *)
(* the documents and patches in what the transaction did to the event      *)
(* ledger, which a refresh does not reload.  The reload and the patch hold *)
(* the instance's _cache_lock; nothing holds the transaction and the       *)
(* refresh together.                                                       *)
(*                                                                         *)
(* The transactions are StateStore's operations, each one step, which is   *)
(* what FirestoreStore shows of them.                                      *)
(***************************************************************************)
EXTENDS StateStore

CONSTANTS
  Instances,      \* processes that serve the run
  Threads,
  Home,           \* Home[t]: the instance thread t runs on
  NoThread

ASSUME HomeAssumption == Home \in [Threads -> Instances] /\ NoThread \notin Threads

VARIABLES
  cache,     \* self.state of each instance: what it says of the event ledger
  lock,      \* who holds the instance's _cache_lock
  thread     \* what each thread is doing

readVars == <<revision, ledger, plans, committed, work, cache, lock, thread>>

Marks == {"none", "in_progress", "abandoned"}
Cache == [revision : 0..MaxRevision, processed : SUBSET Events, pending : [Events -> Marks]]

\* A thread that has a transaction behind it owes the cache a refresh.
Kinds == {"nothing", "began", "applied", "abandoned"}
Phases == {"idle", "owing", "loading", "working"}
Thread == [phase : Phases, fence : Fences, patch : Kinds, loaded : 0..MaxRevision]
IdleThread == [phase |-> "idle", fence |-> Unfenced, patch |-> "nothing", loaded |-> 0]

\* _materialise(load_seen=True): what opening the store loads of the ledger.
Loaded ==
  [revision |-> revision,
   processed |-> {e \in Events : ledger[e].stage = "applied"},
   pending |-> [e \in Events |->
                  CASE ledger[e].stage \in {"in_progress", "lapsed"} -> "in_progress"
                    [] ledger[e].stage = "abandoned" -> "abandoned"
                    [] OTHER -> "none"]]

\* Fault: abandon_event pops the marker as complete_event does.
PatchedAlike(c, t) ==
  LET e == thread[t].fence.event
  IN CASE thread[t].patch = "began" -> [c EXCEPT !.pending[e] = "in_progress"]
       [] thread[t].patch \in {"applied", "abandoned"} ->
            [c EXCEPT !.processed = @ \cup {e}, !.pending[e] = "none"]
       [] OTHER -> c

\* What the thread's transaction lets its patch say of the event.
Patched(c, t) ==
  LET e == thread[t].fence.event
  IN CASE thread[t].patch = "began" -> [c EXCEPT !.pending[e] = "in_progress"]
       [] thread[t].patch = "applied" ->
            [c EXCEPT !.processed = @ \cup {e}, !.pending[e] = "none"]
       [] thread[t].patch = "abandoned" ->
            [c EXCEPT !.pending[e] = IF @ = "none" THEN @ ELSE "abandoned"]
       [] OTHER -> c

ReadInit ==
  /\ StoreInit
  /\ cache = [n \in Instances |-> Loaded]
  /\ lock = [n \in Instances |-> NoThread]
  /\ thread = [t \in Threads |-> IdleThread]

-----------------------------------------------------------------------------
Owes(t, fence, patch) ==
  thread' = [thread EXCEPT ![t] = [phase |-> "owing", fence |-> fence, patch |-> patch, loaded |-> 0]]

\* advance_revision's transaction: absorbed, resumed or dismissed.
Absorbs(t, e) ==
  /\ thread[t].phase = "idle"
  /\ \/ /\ AbsorbEvent(e) \/ ResumeEvent(e)
        /\ Owes(t, [event |-> e, attempt |-> ledger'[e].attempt], "began")
     \/ /\ Dismissed(e)
        /\ Owes(t, Unfenced, "nothing")
        /\ UNCHANGED storeVars
  /\ UNCHANGED <<cache, lock>>

RaisesSuperseded(t) ==
  /\ Superseded(thread[t].fence)
  /\ thread' = [thread EXCEPT ![t] = IdleThread]
  /\ UNCHANGED storeVars

\* complete_event: an event applied already is left alone, fence or no fence.
Completes(t) ==
  LET f == thread[t].fence
  IN /\ thread[t].phase = "working"
     /\ \/ CompleteEvent(f.event, f) /\ Owes(t, f, "applied")
        \/ AlreadyApplied(f) /\ Owes(t, f, "nothing") /\ UNCHANGED storeVars
        \/ RaisesSuperseded(t)
     /\ UNCHANGED <<cache, lock>>

\* abandon_event patches the cache also when the transaction found nothing to do.
Abandons(t) ==
  LET f == thread[t].fence
  IN /\ thread[t].phase = "working"
     /\ \/ AbandonEvent(f.event, f) /\ Owes(t, f, "abandoned")
        \/ /\ ledger[f.event].stage \in {"applied", "abandoned"}
           /\ Owes(t, f, "abandoned")
           /\ UNCHANGED storeVars
        \/ RaisesSuperseded(t) /\ ledger[f.event].stage # "abandoned"
     /\ UNCHANGED <<cache, lock>>

\* Fault: the refresh takes no lock.
ReloadsUnlocked(t) ==
  /\ thread[t].phase = "owing"
  /\ thread' = [thread EXCEPT ![t].phase = "loading", ![t].loaded = revision]
  /\ UNCHANGED <<storeVars, cache, lock>>

Reloads(t) ==
  /\ thread[t].phase = "owing"
  /\ lock[Home[t]] = NoThread
  /\ lock' = [lock EXCEPT ![Home[t]] = t]
  /\ thread' = [thread EXCEPT ![t].phase = "loading", ![t].loaded = revision]
  /\ UNCHANGED <<storeVars, cache>>

\* The event ledger of the cache is carried over, the rest comes from documents.
Assigns(t) ==
  LET n == Home[t]
  IN /\ thread[t].phase = "loading"
     /\ cache' = [cache EXCEPT ![n] = Patched([@ EXCEPT !.revision = thread[t].loaded], t)]
     /\ lock' = [lock EXCEPT ![n] = NoThread]
     /\ thread' = [thread EXCEPT ![t] = IF @.patch = "began"
                                          THEN [@ EXCEPT !.phase = "working", !.patch = "nothing", !.loaded = 0]
                                          ELSE IdleThread]
     /\ UNCHANGED storeVars

\* The process ends with its threads; the next one opens the run afresh.
Restarts(n) ==
  /\ cache' = [cache EXCEPT ![n] = Loaded]
  /\ lock' = [lock EXCEPT ![n] = NoThread]
  /\ thread' = [t \in Threads |-> IF Home[t] = n THEN IdleThread ELSE thread[t]]
  /\ UNCHANGED storeVars

Lapses(e) == LeaseLapses(e) /\ UNCHANGED <<cache, lock, thread>>

Serves(t) ==
  \/ \E e \in Events : Absorbs(t, e)
  \/ Completes(t) \/ Abandons(t) \/ Reloads(t) \/ Assigns(t)

ReadNext ==
  \/ \E t \in Threads : Serves(t)
  \/ \E n \in Instances : Restarts(n)
  \/ \E e \in Events : Lapses(e)

ReadSpec == ReadInit /\ [][ReadNext]_readVars

-----------------------------------------------------------------------------
(* Properties *)

\* The store, the read models and the threads keep their shape.
ReadTypeOK ==
  /\ TypeOK
  /\ cache \in [Instances -> Cache]
  /\ lock \in [Instances -> Threads \cup {NoThread}]
  /\ thread \in [Threads -> Thread]

\* Threads of one instance refresh and patch in any order and none discards
\* what another patched: an event once shown as processed stays so, and the
\* revision shown never goes back (__init__, refresh).
ReadModelMovesForward ==
  [][\A n \in Instances :
       /\ cache[n].revision <= cache'[n].revision
       /\ cache[n].processed \subseteq cache'[n].processed]_readVars

\* A read model lags behind and never runs ahead: what it shows as processed is
\* applied, what it shows as pending was absorbed.
ReadModelOnlyLags ==
  \A n \in Instances :
    /\ cache[n].revision <= revision
    /\ \A e \in Events :
         /\ e \in cache[n].processed => ledger[e].stage = "applied"
         /\ cache[n].pending[e] # "none" => ledger[e].stage # "unseen"

\* An event that was applied is not shown as pending as well: pending_events
\* are "events whose revision advanced but whose application has not finished".
ProcessedIsNotPending ==
  \A n \in Instances : \A e \in cache[n].processed : cache[n].pending[e] = "none"
=============================================================================
