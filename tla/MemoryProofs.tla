---------------------------- MODULE MemoryProofs ----------------------------
(***************************************************************************)
(* What a process remembers of the store: the read model of an instance,   *)
(* for any number of instances, threads and events, and the baseline of a  *)
(* sentinel, for any number of forecasts, leases, failures and restarts.   *)
(*                                                                         *)
(* The read model lags behind the store, never runs ahead of it, and never *)
(* goes back.  ReadInv is inductive: what it adds to the two properties is *)
(* what the patch of a thread may claim, and what _cache_lock is held for. *)
(*                                                                         *)
(* A sentinel rests on a judgement of the forecast in force, or there is   *)
(* an explanation on record: the forecast came back after it had been      *)
(* applied, or a restart came too soon after a death.  WatchInv is         *)
(* inductive: it ties the ledger to the watcher, for as long as nobody     *)
(* restarts too soon what is in progress is what the sentinel is applying, *)
(* a forecast that is new and was applied is the one the commitment was    *)
(* judged on, and what the sentinel remembers is judged, applied or owed.  *)
(***************************************************************************)
EXTENDS ReadModel, Sentinel, StateStoreProofs

-----------------------------------------------------------------------------
(* The read model *)

\* A patch that is on its way tells the truth about its event.
PatchesAreTrue ==
  \A t \in Threads :
    LET e == thread[t].fence.event
    IN /\ thread[t].phase = "working" \/ thread[t].patch # "nothing" => e \in Events
       /\ thread[t].patch = "began" => ledger[e].stage # "unseen"
       /\ thread[t].patch = "applied" => ledger[e].stage = "applied"

\* From reload to assignment the thread holds the lock, so that nobody assigns
\* to the cache in between.
LoadsUnderLock ==
  \A t \in Threads : thread[t].phase = "loading" =>
    /\ lock[Home[t]] = t
    /\ cache[Home[t]].revision <= thread[t].loaded /\ thread[t].loaded <= revision

ReadInv == ReadTypeOK /\ PatchesAreTrue /\ LoadsUnderLock /\ ReadModelOnlyLags

LedgerOp ==
  \/ \E e \in Events : AbsorbEvent(e) \/ ResumeEvent(e) \/ LeaseLapses(e)
  \/ \E e \in Events, f \in Fences : CompleteEvent(e, f) \/ AbandonEvent(e, f)
  \/ UNCHANGED storeVars

\* The store's clock and an event's fate move in one direction.
LEMMA LedgerMovesForward ==
  ASSUME TypeOK, LedgerOp
  PROVE  /\ TypeOK' /\ revision <= revision' /\ revision \in Nat /\ revision' \in Nat
         /\ \A e \in Events : /\ ledger[e].stage = "applied" => ledger'[e].stage = "applied"
                              /\ ledger[e].stage # "unseen" => ledger'[e].stage # "unseen"
<1> USE BoundAssumption
<1>1. TypeOK'
  BY LedgerTypeOK DEF LedgerOp, World, TypeOK, storeVars
<1>2. ASSUME NEW e \in Events, AbsorbEvent(e) \/ ResumeEvent(e) \/ LeaseLapses(e)
      PROVE  /\ revision <= revision'
             /\ \A d \in Events : /\ ledger[d].stage = "applied" => ledger'[d].stage = "applied"
                                  /\ ledger[d].stage # "unseen" => ledger'[d].stage # "unseen"
  BY <1>2 DEF AbsorbEvent, ResumeEvent, LeaseLapses, TypeOK, LedgerEntry
<1>3. ASSUME NEW e \in Events, NEW f \in Fences, CompleteEvent(e, f) \/ AbandonEvent(e, f)
      PROVE  /\ revision <= revision'
             /\ \A d \in Events : /\ ledger[d].stage = "applied" => ledger'[d].stage = "applied"
                                  /\ ledger[d].stage # "unseen" => ledger'[d].stage # "unseen"
  BY <1>3 DEF CompleteEvent, AbandonEvent, TypeOK, LedgerEntry
<1>4. revision \in Nat /\ revision' \in Nat
  BY <1>1 DEF TypeOK
<1> QED BY <1>1, <1>2, <1>3, <1>4 DEF LedgerOp, TypeOK, storeVars

\* What opening the run loads is well formed and as far as the store is.
LEMMA LoadedIsTheStore ==
  ASSUME TypeOK
  PROVE  /\ Loaded \in Cache /\ Loaded.revision = revision
         /\ \A e \in Events : /\ e \in Loaded.processed <=> ledger[e].stage = "applied"
                              /\ Loaded.pending[e] # "none" => ledger[e].stage # "unseen"
<1>1. /\ Loaded.revision = revision /\ revision \in 0..MaxRevision
      /\ Loaded.processed = {e \in Events : ledger[e].stage = "applied"}
  BY DEF Loaded, TypeOK
<1>2. \A e \in Events :
        Loaded.pending[e] = CASE ledger[e].stage \in {"in_progress", "lapsed"} -> "in_progress"
                              [] ledger[e].stage = "abandoned" -> "abandoned"
                              [] OTHER -> "none"
  BY DEF Loaded
<1>3. Loaded.pending \in [Events -> Marks]
  BY DEF Loaded, Marks
<1>4. Loaded \in Cache
  BY <1>1, <1>3 DEF Loaded, Cache
<1> QED BY <1>1, <1>2, <1>4

\* A patch keeps the cache well formed and behind the store.
LEMMA PatchedLags ==
  ASSUME NEW t \in Threads, NEW c \in Cache, ReadTypeOK, PatchesAreTrue,
         \A e \in Events : /\ e \in c.processed => ledger[e].stage = "applied"
                           /\ c.pending[e] # "none" => ledger[e].stage # "unseen"
  PROVE  /\ Patched(c, t) \in Cache /\ Patched(c, t).revision = c.revision
         /\ c.processed \subseteq Patched(c, t).processed
         /\ \A e \in Events :
              /\ e \in Patched(c, t).processed => ledger[e].stage = "applied"
              /\ Patched(c, t).pending[e] # "none" => ledger[e].stage # "unseen"
<1> DEFINE e0 == thread[t].fence.event
<1>1. thread[t].patch \in Kinds
  BY DEF ReadTypeOK, Thread
<1>2. CASE thread[t].patch = "began"
  <2>1. e0 \in Events /\ ledger[e0].stage # "unseen"
    BY <1>2 DEF PatchesAreTrue
  <2>2. Patched(c, t) = [c EXCEPT !.pending[e0] = "in_progress"]
    BY <1>2 DEF Patched
  <2> HIDE DEF e0
  <2> QED BY <2>1, <2>2 DEF Cache, Marks
<1>3. CASE thread[t].patch = "applied"
  <2>1. e0 \in Events /\ ledger[e0].stage = "applied"
    BY <1>3 DEF PatchesAreTrue
  <2> DEFINE q == c.processed \cup {e0}
             r == [c.pending EXCEPT ![e0] = "none"]
  <2>2. Patched(c, t) = [c EXCEPT !.processed = q, !.pending = r]
    BY <1>3 DEF Patched, Cache
  <2>3. q \in SUBSET Events /\ c.processed \subseteq q
    BY <2>1 DEF Cache
  <2>4. r \in [Events -> Marks] /\ \A e \in Events : r[e] # "none" => c.pending[e] # "none"
    BY <2>1 DEF Cache, Marks
  <2>5. \A e \in Events : e \in q => ledger[e].stage = "applied"
    BY <2>1
  <2> HIDE DEF e0, q, r
  <2> QED BY <2>2, <2>3, <2>4, <2>5 DEF Cache
<1>4. CASE thread[t].patch = "abandoned"
  <2>1. e0 \in Events
    BY <1>4 DEF PatchesAreTrue
  <2> DEFINE m == IF c.pending[e0] = "none" THEN "none" ELSE "abandoned"
  <2>2. /\ m \in Marks
        /\ m # "none" => c.pending[e0] # "none"
    BY DEF Marks
  <2>3. Patched(c, t) = [c EXCEPT !.pending[e0] = m]
    BY <1>4 DEF Patched
  <2> HIDE DEF e0, m
  <2> QED BY <2>1, <2>2, <2>3 DEF Cache
<1>5. CASE thread[t].patch = "nothing"
  BY <1>5 DEF Patched
<1> QED BY <1>1, <1>2, <1>3, <1>4, <1>5 DEF Kinds

\* A run that opens has a read model of the store and threads that owe nothing.
LEMMA ReadOpens == ReadInit => ReadInv
<1> SUFFICES ASSUME ReadInit PROVE ReadInv
  OBVIOUS
<1> USE HomeAssumption, BoundAssumption
<1>1. TypeOK
  BY DEF ReadInit, StoreInit, TypeOK, UnseenEntry, LedgerEntry, Stages, Pending,
         AbsentPlan, Plan, Verdicts
<1>2. \A t \in Threads : thread[t] = IdleThread
  BY DEF ReadInit
<1>3. IdleThread \in Thread
  BY DEF IdleThread, Thread, Phases, Kinds, Fences
<1>4. \A n \in Instances : cache[n] = Loaded
  BY DEF ReadInit
<1>5. ReadTypeOK
  BY <1>1, <1>3, LoadedIsTheStore DEF ReadInit, ReadTypeOK
<1>6. PatchesAreTrue /\ LoadsUnderLock
  BY <1>2 DEF PatchesAreTrue, LoadsUnderLock, IdleThread
<1>7. ReadModelOnlyLags
  BY <1>1, <1>4, LoadedIsTheStore DEF ReadModelOnlyLags, TypeOK
<1> QED BY <1>5, <1>6, <1>7 DEF ReadInv

\* The reload, the patch and the restart never show less than was shown.
Forward ==
  \A n \in Instances : /\ cache[n].revision <= cache'[n].revision
                       /\ cache[n].processed \subseteq cache'[n].processed

\* What a transaction may leave a thread with: no loaded documents yet, and a
\* patch that is true of the ledger the transaction wrote.
Truthful(x) ==
  /\ x \in Thread /\ x.phase # "loading"
  /\ x.phase = "working" \/ x.patch # "nothing" => x.fence.event \in Events
  /\ x.patch = "began" => ledger'[x.fence.event].stage # "unseen"
  /\ x.patch = "applied" => ledger'[x.fence.event].stage = "applied"

LEMMA IdleIsTruthful == Truthful(IdleThread)
BY BoundAssumption DEF Truthful, IdleThread, Thread, Phases, Kinds, Fences

\* The step of every transaction: the ledger moves, one thread at most changes.
LEMMA TransactionStep ==
  ASSUME ReadInv, LedgerOp, UNCHANGED <<cache, lock>>,
         \A u \in Threads : thread'[u] = thread[u] \/ Truthful(thread'[u]),
         thread' \in [Threads -> Thread]
  PROVE  ReadInv' /\ Forward
<1> USE DEF ReadInv
<1>1. /\ TypeOK' /\ revision <= revision' /\ revision \in Nat /\ revision' \in Nat
      /\ \A e \in Events : /\ ledger[e].stage = "applied" => ledger'[e].stage = "applied"
                           /\ ledger[e].stage # "unseen" => ledger'[e].stage # "unseen"
  BY LedgerMovesForward DEF ReadTypeOK
<1>2. \A n \in Instances : cache[n].revision \in Nat
  BY BoundAssumption DEF ReadTypeOK, Cache
<1>3. \A u \in Threads : thread[u].loaded \in Nat
  BY BoundAssumption DEF ReadTypeOK, Thread
<1>4. ReadTypeOK'
  BY <1>1 DEF ReadTypeOK
<1>5. PatchesAreTrue'
  <2> SUFFICES ASSUME NEW u \in Threads
               PROVE  LET e == thread'[u].fence.event
                      IN /\ thread'[u].phase = "working" \/ thread'[u].patch # "nothing" => e \in Events
                         /\ thread'[u].patch = "began" => ledger'[e].stage # "unseen"
                         /\ thread'[u].patch = "applied" => ledger'[e].stage = "applied"
    BY DEF PatchesAreTrue
  <2>1. CASE thread'[u] = thread[u]
    BY <2>1, <1>1 DEF PatchesAreTrue
  <2>2. CASE Truthful(thread'[u])
    BY <2>2 DEF Truthful
  <2> QED BY <2>1, <2>2
<1>6. LoadsUnderLock'
  <2> SUFFICES ASSUME NEW u \in Threads, thread'[u].phase = "loading"
               PROVE  /\ lock'[Home[u]] = u
                      /\ cache'[Home[u]].revision <= thread'[u].loaded
                      /\ thread'[u].loaded <= revision'
    BY DEF LoadsUnderLock
  <2>1. thread'[u] = thread[u]
    BY DEF Truthful
  <2>2. /\ lock[Home[u]] = u /\ cache[Home[u]].revision <= thread[u].loaded
        /\ thread[u].loaded <= revision
    BY <2>1 DEF LoadsUnderLock
  <2> QED BY <1>1, <1>3, <2>1, <2>2
<1>7. ReadModelOnlyLags'
  BY <1>1, <1>2 DEF ReadModelOnlyLags
<1>8. Forward
  BY <1>2 DEF Forward
<1> QED BY <1>4, <1>5, <1>6, <1>7, <1>8

LEMMA AbsorbsStep ==
  ASSUME ReadInv, NEW t \in Threads, NEW e \in Events, Absorbs(t, e)
  PROVE  ReadInv' /\ Forward
<1> DEFINE x == thread'[t]
<1>0. TypeOK /\ thread \in [Threads -> Thread]
  BY DEF ReadInv, ReadTypeOK
<1>1. LedgerOp /\ UNCHANGED <<cache, lock>>
  BY DEF Absorbs, LedgerOp
<1>2. CASE /\ AbsorbEvent(e) \/ ResumeEvent(e)
           /\ Owes(t, [event |-> e, attempt |-> ledger'[e].attempt], "began")
  <2>1. ledger'[e].attempt \in 1..MaxAttempt /\ ledger'[e].stage = "in_progress"
    BY <1>0, <1>2, BoundAssumption DEF AbsorbEvent, ResumeEvent, TypeOK, LedgerEntry
  <2>2. /\ x = [phase |-> "owing", fence |-> [event |-> e, attempt |-> ledger'[e].attempt],
               patch |-> "began", loaded |-> 0]
        /\ \A u \in Threads \ {t} : thread'[u] = thread[u]
    BY <1>0, <1>2 DEF Owes
  <2>3. x \in Thread
    BY <2>1, <2>2, BoundAssumption DEF Thread, Phases, Kinds, Fences
  <2>4. thread' \in [Threads -> Thread]
    BY <1>0, <1>2, <2>2, <2>3 DEF Owes
  <2>5. Truthful(x)
    BY <2>1, <2>2, <2>3 DEF Truthful
  <2> QED BY <1>1, <2>2, <2>4, <2>5, TransactionStep
<1>3. CASE Owes(t, Unfenced, "nothing")
  <2>2. /\ x = [phase |-> "owing", fence |-> Unfenced, patch |-> "nothing", loaded |-> 0]
        /\ \A u \in Threads \ {t} : thread'[u] = thread[u]
    BY <1>0, <1>3 DEF Owes
  <2>3. x \in Thread
    BY <2>2, BoundAssumption DEF Thread, Phases, Kinds, Fences
  <2>4. thread' \in [Threads -> Thread]
    BY <1>0, <1>3, <2>2, <2>3 DEF Owes
  <2>5. Truthful(x)
    BY <2>2, <2>3 DEF Truthful
  <2> QED BY <1>1, <2>2, <2>4, <2>5, TransactionStep
<1> QED BY <1>2, <1>3 DEF Absorbs

\* complete_event and abandon_event: what the thread then owes is true.
LEMMA EndsStep ==
  ASSUME ReadInv, NEW t \in Threads, Completes(t) \/ Abandons(t)
  PROVE  ReadInv' /\ Forward
<1> DEFINE f == thread[t].fence
           x == thread'[t]
<1>0. TypeOK /\ thread \in [Threads -> Thread]
  BY DEF ReadInv, ReadTypeOK
<1>1. f.event \in Events /\ f \in Fences
  BY <1>0 DEF Completes, Abandons, ReadInv, PatchesAreTrue, Thread
<1>2. LedgerOp /\ UNCHANGED <<cache, lock>>
  BY <1>1 DEF Completes, Abandons, LedgerOp, RaisesSuperseded
<1>3. CASE \E k \in {"nothing", "abandoned"} : Owes(t, f, k)
  <2>1. PICK k \in {"nothing", "abandoned"} : Owes(t, f, k)
    BY <1>3
  <2>2. /\ x = [phase |-> "owing", fence |-> f, patch |-> k, loaded |-> 0]
        /\ \A u \in Threads \ {t} : thread'[u] = thread[u]
    BY <1>0, <2>1 DEF Owes
  <2>3. x \in Thread
    BY <1>1, <2>2, BoundAssumption DEF Thread, Phases, Kinds
  <2>4. thread' \in [Threads -> Thread]
    BY <1>0, <2>1, <2>2, <2>3 DEF Owes
  <2>5. Truthful(x)
    BY <1>1, <2>2, <2>3 DEF Truthful
  <2> QED BY <1>2, <2>2, <2>4, <2>5, TransactionStep
<1>4. CASE CompleteEvent(f.event, f) /\ Owes(t, f, "applied")
  <2>1. ledger'[f.event].stage = "applied"
    BY <1>0, <1>1, <1>4 DEF CompleteEvent, TypeOK, LedgerEntry
  <2>2. /\ x = [phase |-> "owing", fence |-> f, patch |-> "applied", loaded |-> 0]
        /\ \A u \in Threads \ {t} : thread'[u] = thread[u]
    BY <1>0, <1>4 DEF Owes
  <2>3. x \in Thread
    BY <1>1, <2>2, BoundAssumption DEF Thread, Phases, Kinds
  <2>4. thread' \in [Threads -> Thread]
    BY <1>0, <1>4, <2>2, <2>3 DEF Owes
  <2>5. Truthful(x)
    BY <1>1, <2>1, <2>2, <2>3 DEF Truthful
  <2> QED BY <1>2, <2>2, <2>4, <2>5, TransactionStep
<1>5. CASE thread' = [thread EXCEPT ![t] = IdleThread]
  <2>1. Truthful(IdleThread)
    BY IdleIsTruthful
  <2>2. x = IdleThread /\ \A u \in Threads \ {t} : thread'[u] = thread[u]
    BY <1>0, <1>5
  <2>3. thread' \in [Threads -> Thread]
    BY <1>0, <1>5, <2>1 DEF Truthful
  <2> QED BY <1>2, <2>1, <2>2, <2>3, TransactionStep
<1> QED BY <1>3, <1>4, <1>5 DEF Completes, Abandons, RaisesSuperseded

\* The clock is no thread's: a lease lapses under every read model alike.
LEMMA LapsesStep ==
  ASSUME ReadInv, NEW e \in Events, Lapses(e)
  PROVE  ReadInv' /\ Forward
<1>1. LedgerOp /\ UNCHANGED <<cache, lock>> /\ UNCHANGED thread
  BY DEF Lapses, LedgerOp
<1> QED BY <1>1, TransactionStep DEF ReadInv, ReadTypeOK

\* The reload takes the lock: nobody else is between reload and assignment.
LEMMA ReloadsStep ==
  ASSUME ReadInv, NEW t \in Threads, Reloads(t)
  PROVE  ReadInv' /\ Forward
<1> USE HomeAssumption, BoundAssumption DEF Reloads
<1>0. /\ TypeOK /\ thread \in [Threads -> Thread] /\ cache \in [Instances -> Cache]
      /\ lock \in [Instances -> Threads \cup {NoThread}] /\ revision \in 0..MaxRevision
  BY DEF ReadInv, ReadTypeOK, TypeOK
<1>1. TypeOK'
  BY <1>0 DEF TypeOK, storeVars
<1>2. /\ thread'[t] = [thread[t] EXCEPT !.phase = "loading", !.loaded = revision]
      /\ \A u \in Threads \ {t} : thread'[u] = thread[u]
  BY <1>0
<1>3. /\ thread'[t] \in Thread
      /\ thread'[t].phase = "loading" /\ thread'[t].loaded = revision
      /\ thread'[t].patch = thread[t].patch /\ thread'[t].fence = thread[t].fence
  <2> DEFINE x == thread[t]
  <2>1. x \in Thread /\ thread'[t] = [x EXCEPT !.phase = "loading", !.loaded = revision]
    BY <1>0, <1>2
  <2> HIDE DEF x
  <2>2. /\ thread'[t] \in Thread
        /\ thread'[t].phase = "loading" /\ thread'[t].loaded = revision
        /\ thread'[t].patch = x.patch /\ thread'[t].fence = x.fence
    <3>1. revision \in 0..MaxRevision /\ "loading" \in Phases
      BY <1>0 DEF Phases
    <3>2. thread'[t] \in Thread
      <4>1. PICK y : y = [x EXCEPT !.phase = "loading"]
        OBVIOUS
      <4>2. y \in Thread
        BY <2>1, <3>1, <4>1 DEF Thread
      <4>3. thread'[t] = [y EXCEPT !.loaded = revision]
        BY <2>1, <4>1 DEF Thread
      <4>4. PICK r \in 0..MaxRevision : r = revision
        BY <3>1
      <4>5. PICK z : z = [y EXCEPT !.loaded = r]
        OBVIOUS
      <4>6. z \in Thread
        BY <4>2, <4>5 DEF Thread
      <4> QED BY <4>3, <4>4, <4>5, <4>6
    <3>3. /\ thread'[t].phase = "loading" /\ thread'[t].loaded = revision
          /\ thread'[t].patch = x.patch /\ thread'[t].fence = x.fence
      BY <2>1 DEF Thread
    <3> QED BY <3>2, <3>3
  <2> QED BY <2>2 DEF x
<1>4. thread' \in [Threads -> Thread]
  BY <1>0, <1>2, <1>3
<1>5. ReadTypeOK'
  BY <1>0, <1>1, <1>4 DEF ReadTypeOK
<1>6. PatchesAreTrue'
  <2>1. UNCHANGED ledger
    BY DEF storeVars
  <2>2. \A u \in Threads : /\ thread'[u].patch = thread[u].patch /\ thread'[u].fence = thread[u].fence
                           /\ thread'[u].phase = "working" => thread[u].phase = "working"
    BY <1>2, <1>3
  <2> SUFFICES ASSUME NEW u \in Threads, NEW e, e = thread'[u].fence.event
               PROVE  /\ thread'[u].phase = "working" \/ thread'[u].patch # "nothing" => e \in Events
                      /\ thread'[u].patch = "began" => ledger'[e].stage # "unseen"
                      /\ thread'[u].patch = "applied" => ledger'[e].stage = "applied"
    BY DEF PatchesAreTrue
  <2>3. e = thread[u].fence.event
    BY <2>2
  <2>4. /\ thread[u].phase = "working" \/ thread[u].patch # "nothing" => e \in Events
        /\ thread[u].patch = "began" => ledger[e].stage # "unseen"
        /\ thread[u].patch = "applied" => ledger[e].stage = "applied"
    BY <2>3 DEF ReadInv, PatchesAreTrue
  <2> QED BY <2>1, <2>2, <2>4
<1>7. LoadsUnderLock'
  <2> SUFFICES ASSUME NEW u \in Threads, thread'[u].phase = "loading"
               PROVE  /\ lock'[Home[u]] = u
                      /\ cache'[Home[u]].revision <= thread'[u].loaded
                      /\ thread'[u].loaded <= revision'
    BY DEF LoadsUnderLock
  <2>1. CASE u = t
    <3>1. cache[Home[t]].revision <= revision /\ Home[t] \in Instances
      BY DEF ReadInv, ReadModelOnlyLags
    <3> QED BY <1>0, <1>3, <2>1, <3>1 DEF storeVars
  <2>2. CASE u # t
    <3>1. /\ lock[Home[u]] = u /\ cache[Home[u]].revision <= thread[u].loaded
          /\ thread[u].loaded <= revision /\ thread'[u] = thread[u]
      BY <1>2, <2>2 DEF ReadInv, LoadsUnderLock
    <3>2. Home[u] # Home[t]
      BY <3>1
    <3> QED BY <1>0, <3>1, <3>2 DEF storeVars
  <2> QED BY <2>1, <2>2
<1>8. ReadModelOnlyLags'
  BY DEF ReadInv, ReadModelOnlyLags, storeVars
<1>9. Forward
  BY <1>0 DEF Forward, Cache
<1> QED BY <1>5, <1>6, <1>7, <1>8, <1>9 DEF ReadInv

\* The assignment puts what was loaded under the lock, and the thread's patch.
LEMMA AssignsStep ==
  ASSUME ReadInv, NEW t \in Threads, Assigns(t)
  PROVE  ReadInv' /\ Forward
<1> USE HomeAssumption, BoundAssumption
<1> DEFINE n == Home[t]
<1>0. /\ TypeOK /\ thread \in [Threads -> Thread] /\ cache \in [Instances -> Cache]
      /\ lock \in [Instances -> Threads \cup {NoThread}] /\ n \in Instances
      /\ thread[t].phase = "loading" /\ thread[t].loaded \in 0..MaxRevision
  BY DEF ReadInv, ReadTypeOK, Assigns, Thread
<1>1. TypeOK' /\ UNCHANGED <<revision, ledger>>
  BY <1>0 DEF TypeOK, storeVars, Assigns
<1>2. /\ lock[n] = t /\ cache[n].revision <= thread[t].loaded /\ thread[t].loaded <= revision
  BY <1>0 DEF ReadInv, LoadsUnderLock
<1>3. PICK c \in Cache : /\ c = [cache[n] EXCEPT !.revision = thread[t].loaded]
                         /\ c.revision = thread[t].loaded
                         /\ c.processed = cache[n].processed /\ c.pending = cache[n].pending
  <2> DEFINE d == [cache[n] EXCEPT !.revision = thread[t].loaded]
  <2>1. PICK old \in Cache : old = cache[n]
    BY <1>0
  <2>2. PICK r \in 0..MaxRevision : r = thread[t].loaded
    BY <1>0
  <2>3. PICK new : new = [old EXCEPT !.revision = r]
    OBVIOUS
  <2>4. new \in Cache
    BY <2>3 DEF Cache
  <2>5. new.revision = r /\ new.processed = old.processed /\ new.pending = old.pending
    BY <2>3 DEF Cache
  <2>6. new = d
    BY <2>1, <2>2, <2>3
  <2> HIDE DEF d
  <2> QED BY <2>1, <2>2, <2>4, <2>5, <2>6 DEF d
<1>4. \A e \in Events : /\ e \in c.processed => ledger[e].stage = "applied"
                        /\ c.pending[e] # "none" => ledger[e].stage # "unseen"
  BY <1>0, <1>3 DEF ReadInv, ReadModelOnlyLags
<1>5. /\ Patched(c, t) \in Cache /\ Patched(c, t).revision = thread[t].loaded
      /\ cache[n].processed \subseteq Patched(c, t).processed
      /\ \A e \in Events :
           /\ e \in Patched(c, t).processed => ledger[e].stage = "applied"
           /\ Patched(c, t).pending[e] # "none" => ledger[e].stage # "unseen"
  <2>1. ReadTypeOK /\ PatchesAreTrue
    BY DEF ReadInv
  <2>2. c \in Cache
    BY <1>3
  <2>3. /\ Patched(c, t) \in Cache /\ Patched(c, t).revision = c.revision
        /\ c.processed \subseteq Patched(c, t).processed
        /\ \A e \in Events :
             /\ e \in Patched(c, t).processed => ledger[e].stage = "applied"
             /\ Patched(c, t).pending[e] # "none" => ledger[e].stage # "unseen"
    BY <1>4, <2>1, <2>2, PatchedLags
  <2> QED BY <1>3, <2>3
<1>6. /\ cache' \in [Instances -> Cache] /\ cache'[n] = Patched(c, t)
      /\ \A m \in Instances \ {n} : cache'[m] = cache[m]
  <2>1. cache' = [cache EXCEPT ![n] = Patched(c, t)]
    BY <1>0, <1>3 DEF Assigns
  <2> QED BY <1>0, <1>5, <2>1
<1>7. /\ \A u \in Threads \ {t} : thread'[u] = thread[u]
      /\ thread'[t] = IF thread[t].patch = "began"
                        THEN [thread[t] EXCEPT !.phase = "working", !.patch = "nothing", !.loaded = 0]
                        ELSE IdleThread
  BY <1>0 DEF Assigns
<1>8. /\ thread'[t] \in Thread /\ thread'[t].phase # "loading" /\ thread'[t].patch = "nothing"
      /\ thread'[t].phase = "working" => thread'[t].fence.event \in Events
  <2>1. CASE thread[t].patch = "began"
    <3>1. thread[t].fence.event \in Events
      BY <2>1 DEF ReadInv, PatchesAreTrue
    <3> DEFINE x == thread[t]
    <3>2. /\ x \in Thread /\ x.fence.event \in Events
          /\ thread'[t] = [x EXCEPT !.phase = "working", !.patch = "nothing", !.loaded = 0]
      BY <1>0, <1>7, <2>1, <3>1
    <3> HIDE DEF x
    <3>3. thread'[t] = [phase |-> "working", fence |-> x.fence, patch |-> "nothing", loaded |-> 0]
      BY <3>2 DEF Thread
    <3>4. x.fence \in Fences
      BY <3>2 DEF Thread
    <3> QED BY <3>2, <3>3, <3>4 DEF Thread, Phases, Kinds
  <2>2. CASE thread[t].patch # "began"
    BY <1>7, <2>2 DEF IdleThread, Thread, Phases, Kinds, Fences
  <2> QED BY <2>1, <2>2
<1>9. ReadTypeOK'
  <2>1. thread' \in [Threads -> Thread]
    BY <1>0, <1>7, <1>8 DEF Assigns
  <2>2. lock' \in [Instances -> Threads \cup {NoThread}]
    BY <1>0 DEF Assigns
  <2> QED BY <1>1, <1>6, <2>1, <2>2 DEF ReadTypeOK
<1>10. PatchesAreTrue'
  BY <1>1, <1>7, <1>8 DEF ReadInv, PatchesAreTrue
<1>11. LoadsUnderLock'
  <2> SUFFICES ASSUME NEW u \in Threads, thread'[u].phase = "loading"
               PROVE  /\ lock'[Home[u]] = u
                      /\ cache'[Home[u]].revision <= thread'[u].loaded
                      /\ thread'[u].loaded <= revision'
    BY DEF LoadsUnderLock
  <2>1. u # t /\ thread'[u] = thread[u]
    BY <1>7, <1>8
  <2>2. /\ lock[Home[u]] = u /\ cache[Home[u]].revision <= thread[u].loaded
        /\ thread[u].loaded <= revision
    BY <2>1 DEF ReadInv, LoadsUnderLock
  <2>3. Home[u] # n
    BY <1>2, <2>1, <2>2
  <2> QED BY <1>0, <1>1, <1>6, <2>1, <2>2, <2>3 DEF Assigns
<1>12. ReadModelOnlyLags'
  <2> SUFFICES ASSUME NEW m \in Instances
               PROVE  /\ cache'[m].revision <= revision
                      /\ \A e \in Events :
                           /\ e \in cache'[m].processed => ledger[e].stage = "applied"
                           /\ cache'[m].pending[e] # "none" => ledger[e].stage # "unseen"
    BY <1>1 DEF ReadModelOnlyLags
  <2>1. CASE m = n
    BY <1>2, <1>5, <1>6, <2>1
  <2>2. CASE m # n
    BY <1>6, <2>2 DEF ReadInv, ReadModelOnlyLags
  <2> QED BY <2>1, <2>2
<1>13. Forward
  <2> SUFFICES ASSUME NEW m \in Instances
               PROVE  /\ cache[m].revision <= cache'[m].revision
                      /\ cache[m].processed \subseteq cache'[m].processed
    BY DEF Forward
  <2>1. CASE m = n
    BY <1>2, <1>5, <1>6, <2>1
  <2>2. CASE m # n
    BY <1>0, <1>6, <2>2 DEF Cache
  <2> QED BY <2>1, <2>2
<1> QED BY <1>9, <1>10, <1>11, <1>12, <1>13 DEF ReadInv

\* The process that takes over opens the run as far as the store is.
LEMMA RestartsStep ==
  ASSUME ReadInv, NEW n \in Instances, Restarts(n)
  PROVE  ReadInv' /\ Forward
<1> USE HomeAssumption, BoundAssumption
<1>0. /\ TypeOK /\ thread \in [Threads -> Thread] /\ cache \in [Instances -> Cache]
      /\ lock \in [Instances -> Threads \cup {NoThread}] /\ revision \in 0..MaxRevision
  BY DEF ReadInv, ReadTypeOK, TypeOK
<1>1. TypeOK' /\ UNCHANGED <<revision, ledger>>
  BY <1>0 DEF TypeOK, storeVars, Restarts
<1>2. /\ Loaded \in Cache /\ Loaded.revision = revision
      /\ \A e \in Events : /\ e \in Loaded.processed <=> ledger[e].stage = "applied"
                           /\ Loaded.pending[e] # "none" => ledger[e].stage # "unseen"
  BY <1>0, LoadedIsTheStore
<1>3. /\ cache' \in [Instances -> Cache] /\ cache'[n] = Loaded
      /\ \A m \in Instances \ {n} : cache'[m] = cache[m]
  BY <1>0, <1>2 DEF Restarts
<1>4. \A u \in Threads : thread'[u] = IF Home[u] = n THEN IdleThread ELSE thread[u]
  BY DEF Restarts
<1>5. IdleThread \in Thread /\ IdleThread.phase = "idle" /\ IdleThread.patch = "nothing"
  BY DEF IdleThread, Thread, Phases, Kinds, Fences
<1>6. ReadTypeOK'
  BY <1>0, <1>1, <1>3, <1>5 DEF ReadTypeOK, Restarts
<1>7. PatchesAreTrue'
  BY <1>1, <1>4, <1>5 DEF ReadInv, PatchesAreTrue
<1>8. LoadsUnderLock'
  <2> SUFFICES ASSUME NEW u \in Threads, thread'[u].phase = "loading"
               PROVE  /\ lock'[Home[u]] = u
                      /\ cache'[Home[u]].revision <= thread'[u].loaded
                      /\ thread'[u].loaded <= revision'
    BY DEF LoadsUnderLock
  <2>1. Home[u] # n /\ thread'[u] = thread[u]
    BY <1>4, <1>5
  <2>2. /\ lock[Home[u]] = u /\ cache[Home[u]].revision <= thread[u].loaded
        /\ thread[u].loaded <= revision
    BY <2>1 DEF ReadInv, LoadsUnderLock
  <2> QED BY <1>0, <1>1, <1>3, <2>1, <2>2 DEF Restarts
<1>9. ReadModelOnlyLags'
  <2> SUFFICES ASSUME NEW m \in Instances
               PROVE  /\ cache'[m].revision <= revision
                      /\ \A e \in Events :
                           /\ e \in cache'[m].processed => ledger[e].stage = "applied"
                           /\ cache'[m].pending[e] # "none" => ledger[e].stage # "unseen"
    BY <1>1 DEF ReadModelOnlyLags
  <2>1. CASE m = n
    BY <1>0, <1>2, <1>3, <2>1
  <2>2. CASE m # n
    BY <1>3, <2>2 DEF ReadInv, ReadModelOnlyLags
  <2> QED BY <2>1, <2>2
<1>10. Forward
  <2> SUFFICES ASSUME NEW m \in Instances
               PROVE  /\ cache[m].revision <= cache'[m].revision
                      /\ cache[m].processed \subseteq cache'[m].processed
    BY DEF Forward
  <2>1. CASE m = n
    BY <1>0, <1>2, <1>3, <2>1 DEF ReadInv, ReadModelOnlyLags, Cache
  <2>2. CASE m # n
    BY <1>0, <1>3, <2>2 DEF Cache
  <2> QED BY <2>1, <2>2
<1> QED BY <1>6, <1>7, <1>8, <1>9, <1>10 DEF ReadInv

-----------------------------------------------------------------------------
LEMMA ReadStep ==
  ASSUME ReadInv, [ReadNext]_readVars
  PROVE  ReadInv' /\ Forward
<1>1. ASSUME NEW t \in Threads, Serves(t) PROVE ReadInv' /\ Forward
  BY <1>1, AbsorbsStep, EndsStep, ReloadsStep, AssignsStep DEF Serves
<1>2. ASSUME NEW n \in Instances, Restarts(n) PROVE ReadInv' /\ Forward
  BY <1>2, RestartsStep
<1>3. ASSUME NEW e \in Events, Lapses(e) PROVE ReadInv' /\ Forward
  BY <1>3, LapsesStep
<1>4. CASE UNCHANGED readVars
  <2>1. LedgerOp /\ UNCHANGED <<cache, lock>> /\ UNCHANGED thread
    BY <1>4 DEF readVars, storeVars, LedgerOp
  <2> QED BY <2>1, TransactionStep DEF ReadInv, ReadTypeOK
<1> QED BY <1>1, <1>2, <1>3, <1>4 DEF ReadNext

\* firestore_store.py keeps its read model, its lock and the debts of its
\* threads well formed however requests, reloads and restarts interleave.
THEOREM ReadTyped == ReadSpec => []ReadTypeOK
<1>1. ReadInv /\ [ReadNext]_readVars => ReadInv'
  BY ReadStep
<1>2. ReadInv => ReadTypeOK
  BY DEF ReadInv
<1> QED BY ReadOpens, <1>1, <1>2, PTL DEF ReadSpec

\* An instance never shows a revision, a processed or a pending event that the
\* store does not hold: the cache patches of advance_revision, complete_event
\* and abandon_event follow their transactions and never precede them.
THEOREM ReadModelIsNeverAhead == ReadSpec => []ReadModelOnlyLags
<1>1. ReadInv /\ [ReadNext]_readVars => ReadInv'
  BY ReadStep
<1>2. ReadInv => ReadModelOnlyLags
  BY DEF ReadInv
<1> QED BY ReadOpens, <1>1, <1>2, PTL DEF ReadSpec

\* Refreshes of several threads and restarts never take back what an instance
\* has shown: this is what _cache_lock is held for from reload to patch.
THEOREM ReadModelNeverGoesBack == ReadSpec => ReadModelMovesForward
<1>1. ReadInv /\ [ReadNext]_readVars => ReadInv'
  BY ReadStep
<1>2. ReadInv /\ [ReadNext]_readVars =>
        [\A n \in Instances :
           /\ cache[n].revision <= cache'[n].revision
           /\ cache[n].processed \subseteq cache'[n].processed]_readVars
  BY ReadStep DEF Forward
<1> QED BY ReadOpens, <1>1, <1>2, PTL DEF ReadSpec, ReadModelMovesForward

-----------------------------------------------------------------------------
(* The sentinel *)

Busy == watcher.phase \in {"applying", "closing"}

\* Only forecasts that were in force are known to the store or to the watcher.
OnlyThePastIsKnown ==
  /\ \A e \in Events : ledger[e].stage # "unseen" => e \in past
  /\ watcher.last \in past \cup {NoEvent}

OneApplicationAtATime ==
  watcher.kind = "sentinel" /\ watcher.phase # "down" /\ ~hasty =>
    \A e \in Events : ledger[e].stage = "in_progress" => Busy /\ watcher.fence.event = e

\* While an older forecast is being applied, nobody has applied the new one.
NewSkyWaits ==
  Busy /\ watcher.fence.event # sky /\ ~returned => ledger[sky].stage = "unseen"

AppliedIsJudged ==
  /\ ledger[sky].stage = "applied" /\ ~returned => judged = sky
  /\ watcher.phase = "closing" => judged = watcher.fence.event

PortalForgets == watcher.kind # "sentinel" => watcher.last = NoEvent

\* The forecast a sentinel remembers was judged last, or is applied, or its
\* attempt died and the sentinel came back too soon.
LastIsAccountedFor ==
  watcher.phase = "watching" /\ watcher.last # NoEvent =>
    \/ judged = watcher.last
    \/ ledger[watcher.last].stage = "applied"
    \/ ledger[watcher.last].stage \in {"in_progress", "lapsed"} /\ hasty

WatchInv ==
  /\ WatchTypeOK /\ OnlyThePastIsKnown /\ OneApplicationAtATime
  /\ NewSkyWaits /\ AppliedIsJudged /\ PortalForgets /\ LastIsAccountedFor

LEMMA WatchInitTypeOK == WatchInit => WatchTypeOK
<1> SUFFICES ASSUME WatchInit PROVE WatchTypeOK
  OBVIOUS
<1>1. TypeOK
  BY BoundAssumption
  DEF WatchInit, StoreInit, TypeOK, UnseenEntry, LedgerEntry, Stages, Pending, AbsentPlan,
      Plan, Verdicts
<1>2. sky \in past /\ past \subseteq Events /\ judged \in Events /\ mishaps \in 0..MaxMishaps
  BY WatchAssumption DEF WatchInit
<1>3. returned \in BOOLEAN /\ hasty \in BOOLEAN
  BY Zenon DEF WatchInit
<1>4. watcher \in Watcher /\ watcher.phase = "watching"
  BY DEF WatchInit, Watcher, WatchPhases, Fences
<1> QED BY <1>1, <1>2, <1>3, <1>4 DEF WatchTypeOK

\* What an event's ledger entry can look like after a delivery.
LEMMA Delivered ==
  ASSUME TypeOK, NEW e \in Events, AbsorbEvent(e) \/ ResumeEvent(e)
  PROVE  /\ TypeOK'
         /\ ledger'[e].stage = "in_progress" /\ ledger'[e].attempt \in 1..MaxAttempt
         /\ \A d \in Events \ {e} : ledger'[d] = ledger[d]
         /\ ledger[e].stage \in {"unseen", "lapsed", "abandoned"}
<1>1. TypeOK'
  BY LedgerTypeOK DEF World
<1>2. CASE AbsorbEvent(e)
  BY <1>1, <1>2, BoundAssumption DEF AbsorbEvent, TypeOK, LedgerEntry
<1>3. CASE ResumeEvent(e)
  BY <1>1, <1>3, BoundAssumption DEF ResumeEvent, TypeOK, LedgerEntry
<1> QED BY <1>1, <1>2, <1>3

LEMMA Ended ==
  ASSUME TypeOK, NEW e \in Events, NEW f \in Fences, NEW stage,
         \/ CompleteEvent(e, f) /\ stage = "applied"
         \/ AbandonEvent(e, f) /\ stage = "abandoned"
  PROVE  /\ TypeOK'
         /\ ledger'[e].stage = stage
         /\ \A d \in Events \ {e} : ledger'[d] = ledger[d]
<1>1. TypeOK'
  BY LedgerTypeOK
<1> QED BY <1>1 DEF CompleteEvent, AbandonEvent, TypeOK, LedgerEntry

LEMMA WatchStepTypeOK ==
  ASSUME WatchTypeOK, [WatchNext]_watchVars
  PROVE  WatchTypeOK'
<1> USE DEF WatchTypeOK
<1>1. ASSUME UNCHANGED storeVars
      PROVE  TypeOK' /\ \A f \in Fences : CurrentAttempt(f)' = CurrentAttempt(f)
  BY <1>1 DEF storeVars, TypeOK, CurrentAttempt
<1>2. CASE SkyChanges
  BY <1>1, <1>2 DEF SkyChanges, Watcher
<1>3. CASE Applies
  <2>1. sky \in Events /\ (AbsorbEvent(sky) \/ ResumeEvent(sky))
    BY <1>3 DEF Applies
  <2>2. TypeOK' /\ ledger'[sky].stage = "in_progress" /\ ledger'[sky].attempt \in 1..MaxAttempt
    BY <2>1, Delivered
  <2>3. [event |-> sky, attempt |-> ledger'[sky].attempt] \in Fences
    BY <2>1, <2>2 DEF Fences
  <2>4. /\ watcher' \in Watcher
        /\ watcher'.fence = [event |-> sky, attempt |-> ledger'[sky].attempt]
    BY <1>3, <2>3 DEF Applies, Watcher, WatchPhases
  <2>5. CurrentAttempt(watcher.fence)'
    BY <2>2, <2>4 DEF CurrentAttempt, Pending
  <2> QED BY <1>3, <2>2, <2>4, <2>5 DEF Applies, worldVars
<1>4. CASE Rests
  BY <1>1, <1>4 DEF Rests, watchVars, worldVars, Watcher, storeVars
<1>5. CASE Ignores
  BY <1>1, <1>5 DEF Ignores, Watches, worldVars, Watcher, WatchPhases, Fences
<1>6. CASE Judges
  <2>1. watcher.fence \in Fences /\ watcher.fence.event \in Events /\ watcher' \in Watcher
        /\ watcher'.fence = watcher.fence
    BY <1>6 DEF Judges, Watcher, WatchPhases
  <2> QED BY <1>1, <1>6, <2>1 DEF Judges, worldVars
<1>7. CASE Closes
  <2>1. TypeOK'
    BY <1>7, Ended DEF Closes, Watcher
  <2>2. watcher' \in Watcher /\ watcher'.phase = "watching"
    BY <1>7 DEF Closes, Watches, Watcher, WatchPhases, Fences
  <2> QED BY <1>7, <2>1, <2>2 DEF Closes, worldVars
<1>8. ASSUME watcher' = Down
      PROVE  watcher' \in Watcher /\ watcher'.phase = "down"
  BY <1>8 DEF Down, Watcher, WatchPhases, Fences
<1>9. ASSUME mishaps < MaxMishaps, mishaps' = mishaps + 1
      PROVE  mishaps' \in 0..MaxMishaps
  BY <1>9, WatchAssumption
<1>10. CASE Raises
  <2>1. TypeOK'
    BY <1>10, Ended DEF Raises, Watcher
  <2> QED BY <1>8, <1>9, <1>10, <2>1 DEF Raises, worldVars
<1>11. CASE Dies
  BY <1>1, <1>8, <1>9, <1>11 DEF Dies, worldVars
<1>12. CASE Attaches
  BY <1>1, <1>12 DEF Attaches, Watches, Watcher, WatchPhases, Fences
<1>13. ASSUME NEW e \in Events, LeaseEnds(e) PROVE WatchTypeOK'
  <2>1. TypeOK'
    BY <1>13, LedgerTypeOK DEF LeaseEnds, World
  <2>2. /\ \A d \in Events : ledger'[d].attempt = ledger[d].attempt
        /\ \A d \in Events : ledger[d].stage \in Pending => ledger'[d].stage \in Pending
    BY <1>13 DEF LeaseEnds, LeaseLapses, TypeOK, LedgerEntry, Pending
  <2> QED BY <1>13, <2>1, <2>2 DEF LeaseEnds, worldVars, CurrentAttempt
<1>14. CASE UNCHANGED watchVars
  BY <1>1, <1>14 DEF watchVars, worldVars, Watcher, storeVars
<1> QED
  BY <1>2, <1>3, <1>4, <1>5, <1>6, <1>7, <1>8, <1>10, <1>11, <1>12, <1>13, <1>14
  DEF WatchNext, Tick

\* The watch keeps its shape under any forecasts, failures and restarts.
THEOREM WatchTyped == WatchSpec => []WatchTypeOK
<1>1. WatchTypeOK /\ [WatchNext]_watchVars => WatchTypeOK'
  BY WatchStepTypeOK
<1> QED BY <1>1, WatchInitTypeOK, PTL DEF WatchSpec

-----------------------------------------------------------------------------
LEMMA WatchInitInv == WatchInit => WatchInv
<1> SUFFICES ASSUME WatchInit PROVE WatchInv
  OBVIOUS
<1>1. WatchTypeOK
  BY WatchInitTypeOK
<1>2. \A e \in Events : ledger[e].stage = "unseen"
  BY DEF WatchInit, StoreInit, UnseenEntry
<1>3. /\ watcher.phase = "watching" /\ watcher.kind \in Watchers
      /\ watcher.last \in {sky, NoEvent} /\ (watcher.last = NoEvent <=> watcher.kind = "portal")
      /\ judged = sky /\ past = {sky} /\ sky \in Events /\ returned = FALSE /\ hasty = FALSE
  BY DEF WatchInit
<1>4. OnlyThePastIsKnown /\ OneApplicationAtATime /\ NewSkyWaits
  BY <1>2, <1>3 DEF OnlyThePastIsKnown, OneApplicationAtATime, NewSkyWaits, Busy
<1>5. AppliedIsJudged /\ PortalForgets /\ LastIsAccountedFor
  BY <1>2, <1>3, WatchAssumption DEF AppliedIsJudged, PortalForgets, LastIsAccountedFor
<1> QED BY <1>1, <1>4, <1>5 DEF WatchInv

LEMMA WatchStepInv ==
  ASSUME WatchInv, [WatchNext]_watchVars
  PROVE  WatchInv'
<1> DEFINE Tied == /\ OnlyThePastIsKnown /\ OneApplicationAtATime /\ NewSkyWaits
                   /\ AppliedIsJudged /\ PortalForgets /\ LastIsAccountedFor
<1> USE DEF OnlyThePastIsKnown, OneApplicationAtATime, NewSkyWaits, AppliedIsJudged,
            PortalForgets, LastIsAccountedFor, Busy
<1>1. WatchTypeOK /\ Tied
  BY DEF WatchInv
<1>2. WatchTypeOK'
  BY <1>1, WatchStepTypeOK
<1> SUFFICES Tied'
  BY <1>2 DEF WatchInv
<1>3. /\ TypeOK /\ sky \in past /\ past \subseteq Events /\ watcher \in Watcher
      /\ Busy => watcher.fence.event \in Events
      /\ sky \in Events /\ NoEvent \notin Events /\ returned \in BOOLEAN /\ hasty \in BOOLEAN
  BY <1>1, NoEventAssumption DEF WatchTypeOK
<1>4. ASSUME NEW last \in Events \cup {NoEvent}, Watches(last)
      PROVE  /\ watcher'.phase = "watching" /\ watcher'.kind = watcher.kind
             /\ watcher'.last = IF watcher.kind = "sentinel" THEN last ELSE NoEvent
  BY <1>3, <1>4 DEF Watches, Watcher
<1>5. CASE SkyChanges
  <2>1. sky' \in Events /\ past' = past \cup {sky'} /\ (~returned' => sky' \notin past)
    BY <1>5 DEF SkyChanges
  <2>2. ~returned' => ledger[sky'].stage = "unseen"
    BY <1>1, <1>3, <2>1
  <2> QED BY <1>1, <1>5, <2>1, <2>2 DEF SkyChanges, storeVars
<1>6. CASE Applies
  <2>1. AbsorbEvent(sky) \/ ResumeEvent(sky)
    BY <1>6 DEF Applies
  <2>2. /\ ledger'[sky].stage = "in_progress"
        /\ \A d \in Events \ {sky} : ledger'[d] = ledger[d]
    BY <1>3, <2>1, Delivered
  <2>3. /\ watcher'.phase = "applying" /\ watcher'.kind = watcher.kind
        /\ watcher'.last = watcher.last /\ watcher'.fence.event = sky
        /\ watcher.phase = "watching" /\ UNCHANGED <<sky, past, judged, returned, hasty>>
    BY <1>3, <1>6 DEF Applies, Watcher, worldVars
  <2> QED BY <1>1, <1>3, <2>2, <2>3
<1>7. CASE Rests
  BY <1>1, <1>7 DEF Rests, watchVars, worldVars, storeVars
<1>8. CASE Ignores
  <2>1. watcher.phase = "watching" /\ ledger[sky].stage \in {"in_progress", "applied"}
        /\ UNCHANGED <<ledger, sky, past, judged, returned, hasty>> /\ Watches(sky)
    BY <1>8 DEF Ignores, Dismissed, storeVars, worldVars
  <2>2. watcher.kind = "sentinel" => ledger[sky].stage = "applied" \/ hasty
    BY <1>1, <1>3, <2>1
  <2> QED BY <1>1, <1>3, <1>4, <2>1, <2>2
<1>9. CASE Judges
  <2>1. /\ watcher.phase = "applying" /\ judged' = watcher.fence.event
        /\ watcher'.phase = "closing" /\ watcher'.kind = watcher.kind
        /\ watcher'.last = watcher.last /\ watcher'.fence = watcher.fence
        /\ UNCHANGED <<ledger, sky, past, returned, hasty>>
    BY <1>3, <1>9 DEF Judges, Watcher, storeVars, worldVars
  <2>2. ledger[sky].stage = "applied" /\ ~returned => judged' = sky
    BY <1>1, <1>3, <2>1
  <2> QED BY <1>1, <1>3, <2>1, <2>2
<1>10. CASE Closes
  <2> DEFINE e == watcher.fence.event
  <2>1. /\ watcher.phase = "closing" /\ e \in Events /\ watcher.fence \in Fences
        /\ CompleteEvent(e, watcher.fence) /\ Watches(e) /\ UNCHANGED <<sky, past, judged, returned, hasty>>
    BY <1>3, <1>10 DEF Closes, Watcher, worldVars
  <2>2. ledger'[e].stage = "applied" /\ \A d \in Events \ {e} : ledger'[d] = ledger[d]
    <3>1. PICK d \in Events, f \in Fences : d = e /\ f = watcher.fence
      BY <2>1
    <3>2. CompleteEvent(d, f)
      BY <2>1, <3>1
    <3>3. ledger'[d].stage = "applied" /\ \A c \in Events \ {d} : ledger'[c] = ledger[c]
      BY <1>3, <3>2, Ended
    <3> QED BY <3>1, <3>3
  <2>3. judged = e /\ ledger[e].stage # "unseen"
    BY <1>1, <2>1 DEF CompleteEvent, Pending
  <2>4. /\ watcher'.phase = "watching" /\ watcher'.kind = watcher.kind
        /\ watcher'.last = IF watcher.kind = "sentinel" THEN e ELSE NoEvent
    BY <1>4, <2>1
  <2> HIDE DEF e
  <2>5. \A d \in Events : watcher.kind = "sentinel" /\ ~hasty => ledger'[d].stage # "in_progress"
    BY <1>1, <2>1, <2>2 DEF e
  <2>6. ledger'[sky].stage = "applied" /\ ~returned => judged = sky
    BY <1>1, <1>3, <2>2, <2>3
  <2>7. e \in past
    BY <1>1, <2>1, <2>3
  <2> QED BY <1>1, <1>3, <2>1, <2>2, <2>3, <2>4, <2>5, <2>6, <2>7
<1>11. ASSUME watcher' = Down
       PROVE  watcher'.phase = "down" /\ watcher'.last = NoEvent /\ watcher'.kind = watcher.kind
  BY <1>3, <1>11 DEF Down, Watcher
<1>12. CASE Raises
  <2> DEFINE e == watcher.fence.event
  <2>1. /\ watcher.phase = "applying" /\ e \in Events /\ watcher.fence \in Fences
        /\ AbandonEvent(e, watcher.fence) /\ watcher' = Down
        /\ UNCHANGED <<sky, past, judged, returned, hasty>>
    BY <1>3, <1>12 DEF Raises, Watcher, worldVars
  <2>2. ledger'[e].stage = "abandoned" /\ \A d \in Events \ {e} : ledger'[d] = ledger[d]
    BY <1>3, <2>1, Ended
  <2>3. ledger[e].stage # "unseen"
    BY <2>1 DEF AbandonEvent
  <2> HIDE DEF e
  <2> QED BY <1>1, <1>3, <1>11, <2>1, <2>2, <2>3
<1>13. CASE Dies
  BY <1>1, <1>3, <1>11, <1>13 DEF Dies, storeVars, worldVars
<1>14. CASE Attaches
  <2>1. UNCHANGED <<ledger, sky, past, judged, returned>> /\ Watches(NoEvent)
    BY <1>14 DEF Attaches, storeVars
  <2>2. ~hasty' => ~hasty /\ (watcher.kind = "sentinel" => \A e \in Events : ledger[e].stage # "in_progress")
    BY <1>14 DEF Attaches
  <2> QED BY <1>1, <1>3, <1>4, <2>1, <2>2
<1>15. ASSUME NEW e \in Events, LeaseEnds(e) PROVE Tied'
  <2>1. /\ ledger'[e].stage = "lapsed" /\ ledger[e].stage = "in_progress"
        /\ \A d \in Events \ {e} : ledger'[d] = ledger[d]
        /\ UNCHANGED <<sky, past, judged, returned, hasty, watcher>>
    BY <1>3, <1>15 DEF LeaseEnds, LeaseLapses, TypeOK, LedgerEntry, worldVars
  <2> QED BY <1>1, <1>3, <2>1
<1>16. CASE UNCHANGED watchVars
  BY <1>1, <1>16 DEF watchVars, worldVars, storeVars
<1> QED
  BY <1>5, <1>6, <1>7, <1>8, <1>9, <1>10, <1>12, <1>13, <1>14, <1>15, <1>16
  DEF WatchNext, Tick

\* Whatever raised, died, lapsed, restarted or came back: a sentinel that rests on
\* another forecast's judgement rests on one that was applied before and has
\* returned, or on one whose attempt died before a restart that came too soon; a
\* new forecast is slept on in no other way (sentinel.py, tick and main).
THEOREM RestIsAlwaysExplained == WatchSpec => []RestIsExplained
<1>1. WatchInv /\ [WatchNext]_watchVars => WatchInv'
  BY WatchStepInv
<1>2. WatchInv => RestIsExplained
  <2>1. WatchInv => sky # NoEvent
    BY NoEventAssumption DEF WatchInv, WatchTypeOK
  <2> QED BY <2>1 DEF WatchInv, LastIsAccountedFor, AppliedIsJudged, RestIsExplained, AtRest
<1> QED BY <1>1, <1>2, WatchInitInv, PTL DEF WatchSpec
=============================================================================
