-------------------------- MODULE FirestoreProofs --------------------------
(***************************************************************************)
(* Proofs about FirestoreStore, for any number of clients, any repertoire  *)
(* of operations and any budget of retries: its interleaved transactions   *)
(* do what the store does under one lock, a fenced write lands only while  *)
(* its attempt holds the event, and a claim is told the truth.             *)
(*                                                                         *)
(* The argument is optimistic concurrency control's: a transaction that    *)
(* was not aborted has read nothing that was written since (Coherent), so  *)
(* what it decides on its copies it decides on the documents as they       *)
(* stand, and one lemma per operation shows that this decision is the      *)
(* store's own action.                                                     *)
(*                                                                         *)
(* The store's trace comes last (TraceOrder), for one instance with any    *)
(* number of threads, plans and events and a wall clock that is stepped at *)
(* will: what a transaction had before it is displayed before it, and the  *)
(* integrity check raises no alarm.  A key is minted above every key of    *)
(* the process before it, so above all that had landed when the            *)
(* transaction read; and what it read stands until it lands.               *)
(***************************************************************************)
EXTENDS FirestoreStore, TraceOrder, FiniteSetTheorems, SequenceTheorems, TLAPS

USE NamesAssumption, LimitsAssumption, TriesAssumption

-----------------------------------------------------------------------------
(* The documents' names, and what a write leaves behind *)

LEMMA DocsDistinct ==
  /\ Run \in DocIds
  /\ \A e \in Events : EventDoc(e) \in DocIds
  /\ \A p \in PlanIds : PlanDoc(p) \in DocIds
  /\ \A i \in WorkItems : WorkDoc(i) \in DocIds
  /\ \A x, y : /\ Run \notin {EventDoc(x), PlanDoc(x), WorkDoc(x)}
               /\ EventDoc(x) \notin {PlanDoc(y), WorkDoc(y)}
               /\ PlanDoc(x) # WorkDoc(y)
               /\ x # y => /\ EventDoc(x) # EventDoc(y)
                           /\ PlanDoc(x) # PlanDoc(y)
                           /\ WorkDoc(x) # WorkDoc(y)
BY DEF DocIds, Run, EventDoc, PlanDoc, WorkDoc

LEMMA Overwritten ==
  ASSUME NEW w, NEW v, DOMAIN v = DocIds, DOMAIN w \subseteq DocIds
  PROVE  /\ DOMAIN Over(w, v) = DocIds
         /\ Over(w, v) = [d \in DocIds |-> Over(w, v)[d]]
         /\ \A d \in DocIds : Over(w, v)[d] = IF d \in DOMAIN w THEN w[d] ELSE v[d]
BY DEF Over

LEMMA NothingWritten ==
  ASSUME NEW v, v = [d \in DocIds |-> v[d]]
  PROVE  Over(NoWrites, v) = v
BY DEF Over, NoWrites

\* One lemma for each shape of write: which documents change, and to what.

Others(u, v, run, e, p, i) ==
  /\ run => u[Run] = v[Run]
  /\ \A x \in Events \ e : u[EventDoc(x)] = v[EventDoc(x)]
  /\ \A x \in PlanIds \ p : u[PlanDoc(x)] = v[PlanDoc(x)]
  /\ \A x \in WorkItems \ i : u[WorkDoc(x)] = v[WorkDoc(x)]
  /\ u = [d \in DocIds |-> u[d]]

LEMMA RunWritten ==
  ASSUME NEW v, DOMAIN v = DocIds, NEW x
  PROVE  LET u == Over(Only(Run, x), v)
         IN u[Run] = x /\ Others(u, v, FALSE, {}, {}, {})
<1> DEFINE u == Over(Only(Run, x), v)
<1> DEFINE w == Only(Run, x)
<1>1. DOMAIN w = {Run} /\ w[Run] = x
  BY DEF Only
<1>2. u = Over(w, v) /\ Run \in DocIds
  BY DocsDistinct
<1> HIDE DEF w, u
<1>3. /\ u = [d \in DocIds |-> u[d]]
      /\ \A d \in DocIds : u[d] = IF d = Run THEN x ELSE v[d]
  BY <1>1, <1>2, Overwritten
<1>4. u[Run] = x /\ Others(u, v, FALSE, {}, {}, {})
  BY <1>3, DocsDistinct DEF Others
<1>5. QED
  BY <1>4 DEF u

LEMMA EventWritten ==
  ASSUME NEW v, DOMAIN v = DocIds, NEW x, NEW e \in Events
  PROVE  LET u == Over(Only(EventDoc(e), x), v)
         IN u[EventDoc(e)] = x /\ Others(u, v, TRUE, {e}, {}, {})
<1> DEFINE u == Over(Only(EventDoc(e), x), v)
<1> DEFINE w == Only(EventDoc(e), x)
<1>1. DOMAIN w = {EventDoc(e)} /\ w[EventDoc(e)] = x
  BY DEF Only
<1>2. u = Over(w, v) /\ EventDoc(e) \in DocIds
  BY DocsDistinct
<1> HIDE DEF w, u
<1>3. /\ u = [d \in DocIds |-> u[d]]
      /\ \A d \in DocIds : u[d] = IF d = EventDoc(e) THEN x ELSE v[d]
  BY <1>1, <1>2, Overwritten
<1>4. u[EventDoc(e)] = x /\ Others(u, v, TRUE, {e}, {}, {})
  BY <1>3, DocsDistinct DEF Others
<1>5. QED
  BY <1>4 DEF u

LEMMA PlanWritten ==
  ASSUME NEW v, DOMAIN v = DocIds, NEW x, NEW p \in PlanIds
  PROVE  LET u == Over(Only(PlanDoc(p), x), v)
         IN u[PlanDoc(p)] = x /\ Others(u, v, TRUE, {}, {p}, {})
<1> DEFINE u == Over(Only(PlanDoc(p), x), v)
<1> DEFINE w == Only(PlanDoc(p), x)
<1>1. DOMAIN w = {PlanDoc(p)} /\ w[PlanDoc(p)] = x
  BY DEF Only
<1>2. u = Over(w, v) /\ PlanDoc(p) \in DocIds
  BY DocsDistinct
<1> HIDE DEF w, u
<1>3. /\ u = [d \in DocIds |-> u[d]]
      /\ \A d \in DocIds : u[d] = IF d = PlanDoc(p) THEN x ELSE v[d]
  BY <1>1, <1>2, Overwritten
<1>4. u[PlanDoc(p)] = x /\ Others(u, v, TRUE, {}, {p}, {})
  BY <1>3, DocsDistinct DEF Others
<1>5. QED
  BY <1>4 DEF u

LEMMA WorkWritten ==
  ASSUME NEW v, DOMAIN v = DocIds, NEW x, NEW i \in WorkItems
  PROVE  LET u == Over(Only(WorkDoc(i), x), v)
         IN u[WorkDoc(i)] = x /\ Others(u, v, TRUE, {}, {}, {i})
<1> DEFINE u == Over(Only(WorkDoc(i), x), v)
<1> DEFINE w == Only(WorkDoc(i), x)
<1>1. DOMAIN w = {WorkDoc(i)} /\ w[WorkDoc(i)] = x
  BY DEF Only
<1>2. u = Over(w, v) /\ WorkDoc(i) \in DocIds
  BY DocsDistinct
<1> HIDE DEF w, u
<1>3. /\ u = [d \in DocIds |-> u[d]]
      /\ \A d \in DocIds : u[d] = IF d = WorkDoc(i) THEN x ELSE v[d]
  BY <1>1, <1>2, Overwritten
<1>4. u[WorkDoc(i)] = x /\ Others(u, v, TRUE, {}, {}, {i})
  BY <1>3, DocsDistinct DEF Others
<1>5. QED
  BY <1>4 DEF u

RunAndEvent(x, e, y) == Over(Only(Run, x), Only(EventDoc(e), y))
RunAndPlan(x, p, y) == Over(Only(Run, x), Only(PlanDoc(p), y))

LEMMA RunAndEventWritten ==
  ASSUME NEW v, DOMAIN v = DocIds, NEW x, NEW y, NEW e \in Events
  PROVE  LET u == Over(RunAndEvent(x, e, y), v)
         IN u[Run] = x /\ u[EventDoc(e)] = y /\ Others(u, v, FALSE, {e}, {}, {})
<1> DEFINE u == Over(RunAndEvent(x, e, y), v)
<1> DEFINE w == RunAndEvent(x, e, y)
<1>1. /\ DOMAIN w = {Run, EventDoc(e)}
      /\ w[Run] = x /\ w[EventDoc(e)] = y
  BY DocsDistinct DEF Over, Only, RunAndEvent
<1>2. u = Over(w, v) /\ {Run, EventDoc(e)} \subseteq DocIds
  BY DocsDistinct
<1> HIDE DEF w, u
<1>3. /\ u = [d \in DocIds |-> u[d]]
      /\ \A d \in DocIds : u[d] = IF d \in {Run, EventDoc(e)} THEN w[d] ELSE v[d]
  BY <1>1, <1>2, Overwritten
<1>4. u[Run] = x /\ u[EventDoc(e)] = y /\ Others(u, v, FALSE, {e}, {}, {})
  BY <1>1, <1>3, DocsDistinct DEF Others
<1>5. QED
  BY <1>4 DEF u

LEMMA RunAndPlanWritten ==
  ASSUME NEW v, DOMAIN v = DocIds, NEW x, NEW y, NEW p \in PlanIds
  PROVE  LET u == Over(RunAndPlan(x, p, y), v)
         IN u[Run] = x /\ u[PlanDoc(p)] = y /\ Others(u, v, FALSE, {}, {p}, {})
<1> DEFINE u == Over(RunAndPlan(x, p, y), v)
<1> DEFINE w == RunAndPlan(x, p, y)
<1>1. /\ DOMAIN w = {Run, PlanDoc(p)}
      /\ w[Run] = x /\ w[PlanDoc(p)] = y
  BY DocsDistinct DEF Over, Only, RunAndPlan
<1>2. u = Over(w, v) /\ {Run, PlanDoc(p)} \subseteq DocIds
  BY DocsDistinct
<1> HIDE DEF w, u
<1>3. /\ u = [d \in DocIds |-> u[d]]
      /\ \A d \in DocIds : u[d] = IF d \in {Run, PlanDoc(p)} THEN w[d] ELSE v[d]
  BY <1>1, <1>2, Overwritten
<1>4. u[Run] = x /\ u[PlanDoc(p)] = y
  BY <1>1, <1>3, DocsDistinct
<1>5. /\ \A z \in Events : u[EventDoc(z)] = v[EventDoc(z)]
      /\ \A z \in PlanIds \ {p} : u[PlanDoc(z)] = v[PlanDoc(z)]
      /\ \A z \in WorkItems : u[WorkDoc(z)] = v[WorkDoc(z)]
  BY <1>3, DocsDistinct
<1>6. u[Run] = x /\ u[PlanDoc(p)] = y /\ Others(u, v, FALSE, {}, {p}, {})
  BY <1>3, <1>4, <1>5 DEF Others
<1>7. QED
  BY <1>6 DEF u

-----------------------------------------------------------------------------
(* The documents' contents *)

StoredStages == {"unseen", "in_progress", "abandoned", "applied"}

RunDocs == [revision : 0..MaxRevision, committed : PlanIds \cup {NoPlan}]
EventDocs ==
  {m \in [stage : StoredStages, revision : 0..MaxRevision, attempt : 0..MaxAttempt] :
     m.stage = "unseen" => m.attempt = 0}
WorkDocs == Clients \cup {Unclaimed, NotCreated}

DocsTyped ==
  /\ docs = [d \in DocIds |-> docs[d]]
  /\ docs[Run] \in RunDocs
  /\ \A e \in Events : docs[EventDoc(e)] \in EventDocs
  /\ \A p \in PlanIds : docs[PlanDoc(p)] \in Mirror!Plan
  /\ \A i \in WorkItems : docs[WorkDoc(i)] \in WorkDocs
  /\ silent \subseteq Events

\* What may not go back, so that a fence once handed out and a revision once
\* reached stay so while a call is in progress.
OnlyForward ==
  /\ docs'[Run].revision >= docs[Run].revision
  /\ \A e \in Events : docs'[EventDoc(e)].attempt >= docs[EventDoc(e)].attempt

\* Who owns an item changes in three ways.
OwnersMove(c, call) ==
  \A i \in WorkItems :
    docs'[WorkDoc(i)] # docs[WorkDoc(i)] =>
      /\ i = call.item
      /\ \/ call.op = "create" /\ docs[WorkDoc(i)] = NotCreated /\ docs'[WorkDoc(i)] = Unclaimed
         \/ call.op = "claim" /\ docs[WorkDoc(i)] = Unclaimed /\ docs'[WorkDoc(i)] = c
         \/ call.op = "release" /\ docs'[WorkDoc(i)] = Unclaimed

\* A claim of a free item that lands takes it.
ClaimTakes(c, call) ==
  call.op = "claim" /\ docs[WorkDoc(call.item)] = Unclaimed => docs'[WorkDoc(call.item)] = c

StoreStep == [Mirror!StoreNext]_(Mirror!storeVars)

LEMMA SameDocs ==
  ASSUME DocsTyped, UNCHANGED <<docs, silent>>
  PROVE  DocsTyped' /\ OnlyForward /\ StoreStep
<1>1. DocsTyped'
  BY DEF DocsTyped
<1>2. OnlyForward
  BY DEF OnlyForward, DocsTyped, RunDocs, EventDocs
<1>3. StoreStep
  BY DEF StoreStep, Mirror!storeVars, Aged
<1>4. QED
  BY <1>1, <1>2, <1>3

LEMMA LedgerKept ==
  ASSUME \A e \in Events : docs'[EventDoc(e)] = docs[EventDoc(e)], silent' = silent
  PROVE  UNCHANGED [e \in Events |-> Aged(e)]
BY DEF Aged

LEMMA TriggerEffect ==
  ASSUME DocsTyped, docs' = Over(Only(Run, MovedOn(docs[Run])), docs), silent' = silent,
         docs'[Run].revision <= MaxRevision
  PROVE  DocsTyped' /\ OnlyForward /\ StoreStep
<1>0. DOMAIN docs = DocIds /\ docs[Run] \in RunDocs
  BY DEF DocsTyped
<1>1. docs'[Run] = MovedOn(docs[Run]) /\ Others(docs', docs, FALSE, {}, {}, {})
  BY <1>0, RunWritten
<1>2. /\ docs'[Run].revision = docs[Run].revision + 1
      /\ docs'[Run].committed = docs[Run].committed
      /\ docs[Run].revision < MaxRevision
      /\ docs'[Run] \in RunDocs
  BY <1>0, <1>1 DEF MovedOn, RunDocs
<1>3. DocsTyped'
  BY <1>1, <1>2 DEF DocsTyped, Others
<1>4. OnlyForward
  BY <1>0, <1>1, <1>2 DEF OnlyForward, DocsTyped, Others, RunDocs, EventDocs
<1>5. Mirror!AbsorbUnidentified
  BY <1>1, <1>2, LedgerKept DEF Mirror!AbsorbUnidentified, Others, DocsTyped
<1>6. QED
  BY <1>3, <1>4, <1>5 DEF StoreStep, Mirror!StoreNext, Mirror!World

\* What the proofs use of a document's type.
LEMMA Counted ==
  ASSUME DocsTyped
  PROVE  /\ docs[Run].revision \in 0..MaxRevision
         /\ \A e \in Events : docs[EventDoc(e)].attempt \in 0..MaxAttempt
BY DEF DocsTyped, RunDocs, EventDocs

\* What advance_revision, complete_event and abandon_event write to a marker.
FirstMark(r) == [stage |-> "in_progress", revision |-> r + 1, attempt |-> 1]
Resumed(m) == [m EXCEPT !.stage = "in_progress", !.attempt = @ + 1]

LEMMA AbsorbEffect ==
  ASSUME DocsTyped, NEW e \in Events, docs[EventDoc(e)].stage = "unseen",
         docs' = Over(RunAndEvent(MovedOn(docs[Run]), e, FirstMark(docs[Run].revision)), docs),
         silent' = silent \ {e}, docs'[Run].revision <= MaxRevision
  PROVE  DocsTyped' /\ OnlyForward /\ StoreStep
<1>0. /\ DOMAIN docs = DocIds /\ docs[Run] \in RunDocs
      /\ docs[EventDoc(e)] \in EventDocs
  BY DEF DocsTyped
<1>1. /\ docs'[Run] = MovedOn(docs[Run])
      /\ docs'[EventDoc(e)] = FirstMark(docs[Run].revision)
      /\ Others(docs', docs, FALSE, {e}, {}, {})
  <2> DEFINE x == MovedOn(docs[Run])
             y == FirstMark(docs[Run].revision)
             u == Over(RunAndEvent(x, e, y), docs)
  <2>1. docs' = u
    OBVIOUS
  <2> HIDE DEF x, y
  <2>2. u[Run] = x /\ u[EventDoc(e)] = y /\ Others(u, docs, FALSE, {e}, {}, {})
    BY <1>0, RunAndEventWritten
  <2> HIDE DEF u
  <2>3. docs'[Run] = x /\ docs'[EventDoc(e)] = y /\ Others(docs', docs, FALSE, {e}, {}, {})
    BY <2>1, <2>2
  <2>4. QED
    BY <2>3 DEF x, y
<1>2. /\ docs'[Run].revision = docs[Run].revision + 1
      /\ docs'[Run].committed = docs[Run].committed
      /\ docs[Run].revision < MaxRevision
      /\ docs'[Run] \in RunDocs
      /\ docs[EventDoc(e)].attempt = 0
  BY <1>0, <1>1 DEF MovedOn, RunDocs, EventDocs
<1>3. docs'[EventDoc(e)] \in EventDocs /\ docs'[EventDoc(e)].attempt = 1
  BY <1>0, <1>1, <1>2 DEF EventDocs, StoredStages, RunDocs, FirstMark
<1>4. DocsTyped'
  BY <1>1, <1>2, <1>3 DEF DocsTyped, Others
<1>5. OnlyForward
  BY <1>1, <1>2, <1>3, Counted DEF OnlyForward, Others
<1>6. Aged(e).stage = "unseen"
  BY DEF Aged
<1>7. [x \in Events |-> Aged(x)]' =
        [[x \in Events |-> Aged(x)] EXCEPT ![e] = FirstMark(docs[Run].revision)]
  BY <1>1 DEF Aged, Others
<1>8. Mirror!AbsorbEvent(e)
  BY <1>1, <1>2, <1>6, <1>7 DEF Mirror!AbsorbEvent, Others, FirstMark
<1>9. QED
  BY <1>4, <1>5, <1>8 DEF StoreStep, Mirror!StoreNext, Mirror!World

LEMMA ResumeEffect ==
  ASSUME DocsTyped, NEW e \in Events,
         \/ docs[EventDoc(e)].stage = "abandoned"
         \/ docs[EventDoc(e)].stage = "in_progress" /\ e \in silent,
         docs' = Over(Only(EventDoc(e), Resumed(docs[EventDoc(e)])), docs),
         silent' = silent \ {e}, docs'[EventDoc(e)].attempt <= MaxAttempt
  PROVE  DocsTyped' /\ OnlyForward /\ StoreStep
<1>0. /\ DOMAIN docs = DocIds
      /\ docs[EventDoc(e)] \in EventDocs
      /\ docs[EventDoc(e)].attempt \in 0..MaxAttempt
  BY Counted DEF DocsTyped
<1>1. docs'[EventDoc(e)] = Resumed(docs[EventDoc(e)]) /\ Others(docs', docs, TRUE, {e}, {}, {})
  BY <1>0, EventWritten
<1> DEFINE m == docs[EventDoc(e)]
<1>2. Resumed(m).attempt = m.attempt + 1
  BY <1>0 DEF EventDocs, Resumed
<1>3. m.attempt + 1 \in 0..MaxAttempt
  BY <1>0, <1>1, <1>2
<1>4. Resumed(m).stage = "in_progress" /\ Resumed(m) \in EventDocs
  BY <1>0, <1>3 DEF EventDocs, StoredStages, Resumed
<1>5. DocsTyped'
  BY <1>1, <1>4 DEF DocsTyped, Others
<1>6. OnlyForward
  BY <1>0, <1>1, <1>2, Counted DEF OnlyForward, Others
<1>7. Aged(e).stage \in {"lapsed", "abandoned"} /\ Aged(e).attempt = m.attempt
  BY <1>0 DEF Aged, EventDocs
<1>8. Aged(e)' = Resumed(m)
  BY <1>1, <1>4 DEF Aged
<1>9. Resumed(m) = [Aged(e) EXCEPT !.stage = "in_progress", !.attempt = @ + 1]
  BY <1>0 DEF Aged, EventDocs, Resumed
<1>10. \A x \in Events \ {e} : Aged(x)' = Aged(x)
  BY <1>1 DEF Aged, Others
<1>11. [x \in Events |-> Aged(x)]' =
         [[x \in Events |-> Aged(x)] EXCEPT ![e].stage = "in_progress", ![e].attempt = @ + 1]
  BY <1>8, <1>9, <1>10
<1>12. Mirror!ResumeEvent(e)
  BY <1>0, <1>1, <1>3, <1>7, <1>11 DEF Mirror!ResumeEvent, Others
<1>13. QED
  BY <1>5, <1>6, <1>12 DEF StoreStep, Mirror!StoreNext, Mirror!World

\* The caller's fence: handed out by the store, and still the event's.
HoldsFence(f) == f \in Mirror!Fences /\ Mirror!Minted(f) /\ Mirror!FenceHolds(f)

Marked(m, stage) == [m EXCEPT !.stage = stage]

LEMMA MarkEffect ==
  ASSUME DocsTyped, NEW e \in Events, NEW stage \in {"applied", "abandoned"},
         docs[EventDoc(e)].stage \in Open,
         docs' = Over(Only(EventDoc(e), Marked(docs[EventDoc(e)], stage)), docs), silent' = silent
  PROVE  /\ DocsTyped' /\ OnlyForward
         /\ Aged(e).stage \in {"in_progress", "lapsed", "abandoned"}
         /\ Aged(e).stage = "abandoned" <=> docs[EventDoc(e)].stage = "abandoned"
         /\ [x \in Events |-> Aged(x)]' = [[x \in Events |-> Aged(x)] EXCEPT ![e].stage = stage]
         /\ Others(docs', docs, TRUE, {e}, {}, {})
<1>0. /\ DOMAIN docs = DocIds
      /\ docs[EventDoc(e)] \in EventDocs
      /\ docs[EventDoc(e)].attempt \in 0..MaxAttempt
  BY Counted DEF DocsTyped
<1> DEFINE m == docs[EventDoc(e)]
<1>1. docs'[EventDoc(e)] = Marked(m, stage) /\ Others(docs', docs, TRUE, {e}, {}, {})
  BY <1>0, EventWritten
<1>2. /\ Marked(m, stage).stage = stage /\ Marked(m, stage) \in EventDocs
      /\ Marked(m, stage).attempt = m.attempt
  BY <1>0 DEF EventDocs, Marked, StoredStages
<1>3. DocsTyped'
  BY <1>1, <1>2 DEF DocsTyped, Others
<1>4. OnlyForward
  BY <1>0, <1>1, <1>2, Counted DEF OnlyForward, Others
<1>5. /\ Aged(e).stage \in {"in_progress", "lapsed", "abandoned"}
      /\ Aged(e).stage = "abandoned" <=> m.stage = "abandoned"
  BY <1>0 DEF Aged, EventDocs, Open
<1>6. Aged(e)' = Marked(m, stage)
  BY <1>1, <1>2 DEF Aged
<1>7. Marked(m, stage) = [Aged(e) EXCEPT !.stage = stage]
  BY <1>0 DEF Aged, EventDocs, Marked
<1>8. \A x \in Events \ {e} : Aged(x)' = Aged(x)
  BY <1>1 DEF Aged, Others
<1>9. [x \in Events |-> Aged(x)]' = [[x \in Events |-> Aged(x)] EXCEPT ![e].stage = stage]
  BY <1>6, <1>7, <1>8
<1>10. QED
  BY <1>1, <1>3, <1>4, <1>5, <1>9

LEMMA CompleteEffect ==
  ASSUME DocsTyped, NEW e \in Events, NEW f, HoldsFence(f), docs[EventDoc(e)].stage \in Open,
         docs' = Over(Only(EventDoc(e), Marked(docs[EventDoc(e)], "applied")), docs),
         silent' = silent
  PROVE  DocsTyped' /\ OnlyForward /\ StoreStep
<1>1. /\ DocsTyped' /\ OnlyForward /\ Others(docs', docs, TRUE, {e}, {}, {})
      /\ Aged(e).stage \in {"in_progress", "lapsed", "abandoned"}
      /\ [x \in Events |-> Aged(x)]' = [[x \in Events |-> Aged(x)] EXCEPT ![e].stage = "applied"]
  BY MarkEffect
<1>2. Mirror!CompleteEvent(e, f)
  BY <1>1 DEF Mirror!CompleteEvent, Mirror!Pending, HoldsFence, Others
<1>3. QED
  BY <1>1, <1>2 DEF StoreStep, Mirror!StoreNext, Mirror!Call, HoldsFence

LEMMA AbandonEffect ==
  ASSUME DocsTyped, NEW e \in Events, NEW f, HoldsFence(f), docs[EventDoc(e)].stage = "in_progress",
         docs' = Over(Only(EventDoc(e), Marked(docs[EventDoc(e)], "abandoned")), docs),
         silent' = silent
  PROVE  DocsTyped' /\ OnlyForward /\ StoreStep
<1>1. /\ DocsTyped' /\ OnlyForward /\ Others(docs', docs, TRUE, {e}, {}, {})
      /\ Aged(e).stage \in {"in_progress", "lapsed"}
      /\ [x \in Events |-> Aged(x)]' = [[x \in Events |-> Aged(x)] EXCEPT ![e].stage = "abandoned"]
  BY MarkEffect DEF Open
<1>2. Mirror!AbandonEvent(e, f)
  BY <1>1 DEF Mirror!AbandonEvent, HoldsFence, Others
<1>3. QED
  BY <1>1, <1>2 DEF StoreStep, Mirror!StoreNext, Mirror!Call, HoldsFence

\* Plans and work items: what is written is a plan, or an owner.

LEMMA PlanEffect ==
  ASSUME DocsTyped, NEW p \in PlanIds, NEW x \in Mirror!Plan,
         docs' = Over(Only(PlanDoc(p), x), docs), silent' = silent
  PROVE  /\ DocsTyped' /\ OnlyForward
         /\ [q \in PlanIds |-> docs[PlanDoc(q)]]' = [[q \in PlanIds |-> docs[PlanDoc(q)]] EXCEPT ![p] = x]
         /\ docs'[Run] = docs[Run]
         /\ UNCHANGED [e \in Events |-> Aged(e)]
         /\ UNCHANGED [i \in WorkItems |-> docs[WorkDoc(i)]]
<1>1. docs'[PlanDoc(p)] = x /\ Others(docs', docs, TRUE, {}, {p}, {})
  BY PlanWritten DEF DocsTyped
<1>2. DocsTyped'
  BY <1>1 DEF DocsTyped, Others
<1>3. OnlyForward
  BY <1>1, Counted DEF OnlyForward, Others
<1>4. [q \in PlanIds |-> docs[PlanDoc(q)]]' = [[q \in PlanIds |-> docs[PlanDoc(q)]] EXCEPT ![p] = x]
  BY <1>1 DEF Others
<1>5. docs'[Run] = docs[Run] /\ UNCHANGED [e \in Events |-> Aged(e)]
  BY <1>1, LedgerKept DEF Others
<1>6. UNCHANGED [i \in WorkItems |-> docs[WorkDoc(i)]]
  BY <1>1 DEF Others
<1>7. QED
  BY <1>2, <1>3, <1>4, <1>5, <1>6

LEMMA WorkEffect ==
  ASSUME DocsTyped, NEW i \in WorkItems, NEW x \in WorkDocs,
         docs' = Over(Only(WorkDoc(i), x), docs), silent' = silent
  PROVE  /\ DocsTyped' /\ OnlyForward
         /\ [j \in WorkItems |-> docs[WorkDoc(j)]]' = [[j \in WorkItems |-> docs[WorkDoc(j)]] EXCEPT ![i] = x]
         /\ docs'[Run] = docs[Run]
         /\ docs'[WorkDoc(i)] = x
         /\ \A j \in WorkItems \ {i} : docs'[WorkDoc(j)] = docs[WorkDoc(j)]
         /\ UNCHANGED [e \in Events |-> Aged(e)]
         /\ UNCHANGED [p \in PlanIds |-> docs[PlanDoc(p)]]
<1>1. docs'[WorkDoc(i)] = x /\ Others(docs', docs, TRUE, {}, {}, {i})
  BY WorkWritten DEF DocsTyped
<1>2. DocsTyped'
  BY <1>1 DEF DocsTyped, Others
<1>3. OnlyForward
  BY <1>1, Counted DEF OnlyForward, Others
<1>4. [j \in WorkItems |-> docs[WorkDoc(j)]]' = [[j \in WorkItems |-> docs[WorkDoc(j)]] EXCEPT ![i] = x]
  BY <1>1 DEF Others
<1>5. docs'[Run] = docs[Run] /\ UNCHANGED [e \in Events |-> Aged(e)]
  BY <1>1, LedgerKept DEF Others
<1>6. UNCHANGED [p \in PlanIds |-> docs[PlanDoc(p)]]
  BY <1>1 DEF Others
<1>7. QED
  BY <1>1, <1>2, <1>3, <1>4, <1>5, <1>6 DEF Others

\* A plan with another verdict or another basis is a plan.
Judged(x, verdict) == [x EXCEPT !.verdict = verdict]
Rebound(x, r) == [x EXCEPT !.basis = r]

LEMMA StillAPlan ==
  ASSUME NEW x \in Mirror!Plan, NEW r \in 0..MaxRevision, NEW verdict \in Mirror!Verdicts
  PROVE  /\ Judged(x, verdict) \in Mirror!Plan
         /\ Rebound(x, r) \in Mirror!Plan
BY DEF Mirror!Plan, Judged, Rebound

LEMMA AddEffect ==
  ASSUME DocsTyped, NEW p \in PlanIds, NEW q \in Proposals, NEW r \in Reached, NEW f, HoldsFence(f),
         docs' = Over(Only(PlanDoc(p), [verdict |-> "candidate", basis |-> r, proposal |-> q]), docs),
         silent' = silent
  PROVE  DocsTyped' /\ OnlyForward /\ StoreStep
<1> DEFINE x == [verdict |-> "candidate", basis |-> r, proposal |-> q]
<1>1. x \in Mirror!Plan /\ r \in 0..docs[Run].revision
  BY Counted DEF Mirror!Plan, Mirror!Verdicts, Reached
<1>2. docs' = Over(Only(PlanDoc(p), x), docs)
  OBVIOUS
<1> HIDE DEF x
<1>3. /\ DocsTyped' /\ OnlyForward
      /\ [z \in PlanIds |-> docs[PlanDoc(z)]]' = [[z \in PlanIds |-> docs[PlanDoc(z)]] EXCEPT ![p] = x]
      /\ docs'[Run] = docs[Run]
      /\ UNCHANGED [e \in Events |-> Aged(e)]
      /\ UNCHANGED [i \in WorkItems |-> docs[WorkDoc(i)]]
  BY <1>1, <1>2, PlanEffect
<1>4. Mirror!AddPlan(p, q, r, f)
  BY <1>3 DEF Mirror!AddPlan, HoldsFence, x
<1>5. QED
  BY <1>1, <1>3, <1>4 DEF StoreStep, Mirror!StoreNext, Mirror!Call, Mirror!PlanCall, HoldsFence

LEMMA MarkVerifiedEffect ==
  ASSUME DocsTyped, NEW p \in PlanIds, NEW f, HoldsFence(f), docs[PlanDoc(p)].verdict # "absent",
         docs' = Over(Only(PlanDoc(p),
                           Judged(docs[PlanDoc(p)],
                                  IF docs[PlanDoc(p)].basis = docs[Run].revision
                                    THEN "verified" ELSE "rejected")), docs),
         silent' = silent
  PROVE  DocsTyped' /\ OnlyForward /\ StoreStep
<1> DEFINE x == Judged(docs[PlanDoc(p)],
                       IF docs[PlanDoc(p)].basis = docs[Run].revision THEN "verified" ELSE "rejected")
<1>1. x \in Mirror!Plan
  BY StillAPlan DEF DocsTyped, Mirror!Verdicts
<1>2. docs' = Over(Only(PlanDoc(p), x), docs)
  OBVIOUS
<1> HIDE DEF x
<1>3. /\ DocsTyped' /\ OnlyForward
      /\ [z \in PlanIds |-> docs[PlanDoc(z)]]' = [[z \in PlanIds |-> docs[PlanDoc(z)]] EXCEPT ![p] = x]
      /\ docs'[Run] = docs[Run]
      /\ UNCHANGED [e \in Events |-> Aged(e)]
      /\ UNCHANGED [i \in WorkItems |-> docs[WorkDoc(i)]]
  BY <1>1, <1>2, PlanEffect
<1>4. Mirror!MarkVerified(p, f)
  BY <1>3 DEF Mirror!MarkVerified, HoldsFence, x, Judged, Mirror!Known,
              Mirror!BoundToWorld, Mirror!WorldStandsAt
<1>5. QED
  BY <1>3, <1>4 DEF StoreStep, Mirror!StoreNext, Mirror!Call, Mirror!PlanCall, HoldsFence

LEMMA RejectEffect ==
  ASSUME DocsTyped, NEW p \in PlanIds, NEW f, HoldsFence(f), docs[PlanDoc(p)].verdict # "absent",
         docs' = Over(Only(PlanDoc(p), Judged(docs[PlanDoc(p)], "rejected")), docs), silent' = silent
  PROVE  DocsTyped' /\ OnlyForward /\ StoreStep
<1>1. Judged(docs[PlanDoc(p)], "rejected") \in Mirror!Plan
  BY StillAPlan DEF DocsTyped, Mirror!Verdicts, Reached, LimitsAssumption
<1>2. /\ DocsTyped' /\ OnlyForward
      /\ [z \in PlanIds |-> docs[PlanDoc(z)]]'
           = [[z \in PlanIds |-> docs[PlanDoc(z)]] EXCEPT ![p] = Judged(docs[PlanDoc(p)], "rejected")]
      /\ docs'[Run] = docs[Run]
      /\ UNCHANGED [e \in Events |-> Aged(e)]
      /\ UNCHANGED [i \in WorkItems |-> docs[WorkDoc(i)]]
  BY <1>1, PlanEffect
<1>3. Mirror!RejectPlan(p, f)
  BY <1>2 DEF Mirror!RejectPlan, HoldsFence, Judged, Mirror!Known
<1>4. QED
  BY <1>2, <1>3 DEF StoreStep, Mirror!StoreNext, Mirror!Call, Mirror!PlanCall, HoldsFence

LEMMA RebindEffect ==
  ASSUME DocsTyped, NEW p \in PlanIds, NEW r \in Reached, NEW f, HoldsFence(f),
         docs[PlanDoc(p)].verdict # "absent", docs[Run].revision = r,
         docs' = Over(Only(PlanDoc(p), Rebound(docs[PlanDoc(p)], r)), docs), silent' = silent
  PROVE  DocsTyped' /\ OnlyForward /\ StoreStep
<1>1. Rebound(docs[PlanDoc(p)], r) \in Mirror!Plan
  BY StillAPlan, Counted DEF DocsTyped, Mirror!Verdicts
<1>2. /\ DocsTyped' /\ OnlyForward
      /\ [z \in PlanIds |-> docs[PlanDoc(z)]]'
           = [[z \in PlanIds |-> docs[PlanDoc(z)]] EXCEPT ![p] = Rebound(docs[PlanDoc(p)], r)]
      /\ docs'[Run] = docs[Run]
      /\ UNCHANGED [e \in Events |-> Aged(e)]
      /\ UNCHANGED [i \in WorkItems |-> docs[WorkDoc(i)]]
  BY <1>1, PlanEffect
<1>3. Mirror!RebindPlan(p, r, f)
  BY <1>2 DEF Mirror!RebindPlan, HoldsFence, Rebound, Mirror!Known, Mirror!WorldStandsAt
<1>4. r \in 0..docs[Run].revision
  BY DEF Reached
<1>5. QED
  BY <1>2, <1>3, <1>4 DEF StoreStep, Mirror!StoreNext, Mirror!Call, Mirror!CommitmentCall, HoldsFence

\* The commitment: the run's document, and for a withdrawal the plan's too.
Committing(r, p) == [r EXCEPT !.committed = p]

LEMMA CommitEffect ==
  ASSUME DocsTyped, NEW p \in PlanIds, NEW f, HoldsFence(f),
         docs[PlanDoc(p)].verdict = "verified", docs[PlanDoc(p)].basis = docs[Run].revision,
         docs' = Over(Only(Run, Committing(docs[Run], p)), docs), silent' = silent
  PROVE  DocsTyped' /\ OnlyForward /\ StoreStep
<1>0. DOMAIN docs = DocIds /\ docs[Run] \in RunDocs
  BY DEF DocsTyped
<1>1. docs'[Run] = Committing(docs[Run], p) /\ Others(docs', docs, FALSE, {}, {}, {})
  BY <1>0, RunWritten
<1>2. /\ docs'[Run].revision = docs[Run].revision
      /\ docs'[Run].committed = p
      /\ docs'[Run] \in RunDocs
  BY <1>0, <1>1 DEF Committing, RunDocs
<1>3. DocsTyped'
  BY <1>1, <1>2 DEF DocsTyped, Others
<1>4. OnlyForward
  BY <1>1, <1>2, Counted DEF OnlyForward, Others
<1>5. Mirror!CommitPlan(p, f)
  BY <1>1, <1>2, LedgerKept
     DEF Mirror!CommitPlan, HoldsFence, Mirror!Known, Mirror!Committable, Mirror!BoundToWorld,
         Mirror!WorldStandsAt, Others
<1>6. QED
  BY <1>3, <1>4, <1>5 DEF StoreStep, Mirror!StoreNext, Mirror!Call, Mirror!PlanCall, HoldsFence

LEMMA WithdrawEffect ==
  ASSUME DocsTyped, NEW p \in PlanIds,
         docs' = Over(RunAndPlan(Committing(docs[Run], NoPlan), p, Judged(docs[PlanDoc(p)], "rejected")),
                      docs),
         silent' = silent
  PROVE  /\ DocsTyped' /\ OnlyForward
         /\ [z \in PlanIds |-> docs[PlanDoc(z)]]'
              = [[z \in PlanIds |-> docs[PlanDoc(z)]] EXCEPT ![p].verdict = "rejected"]
         /\ docs'[Run].committed = NoPlan
         /\ docs'[Run].revision = docs[Run].revision
         /\ UNCHANGED [e \in Events |-> Aged(e)]
         /\ UNCHANGED [i \in WorkItems |-> docs[WorkDoc(i)]]
<1> DEFINE r == Committing(docs[Run], NoPlan)
           x == Judged(docs[PlanDoc(p)], "rejected")
           u == Over(RunAndPlan(r, p, x), docs)
<1>0. DOMAIN docs = DocIds /\ docs[Run] \in RunDocs /\ docs[PlanDoc(p)] \in Mirror!Plan
  BY DEF DocsTyped
<1>1. docs' = u
  OBVIOUS
<1>2. /\ r.revision = docs[Run].revision /\ r.committed = NoPlan /\ r \in RunDocs
      /\ x \in Mirror!Plan
  BY <1>0, StillAPlan DEF Committing, RunDocs, Mirror!Verdicts
<1>3. x = [docs[PlanDoc(p)] EXCEPT !.verdict = "rejected"]
  BY DEF Judged
<1> HIDE DEF r, x
<1>4. u[Run] = r /\ u[PlanDoc(p)] = x /\ Others(u, docs, FALSE, {}, {p}, {})
  BY <1>0, RunAndPlanWritten
<1> HIDE DEF u
<1>5. docs'[Run] = r /\ docs'[PlanDoc(p)] = x /\ Others(docs', docs, FALSE, {}, {p}, {})
  BY <1>1, <1>4
<1>6. DocsTyped'
  BY <1>2, <1>5 DEF DocsTyped, Others
<1>7. OnlyForward
  BY <1>2, <1>5, Counted DEF OnlyForward, Others
<1>8. [z \in PlanIds |-> docs[PlanDoc(z)]]'
        = [[z \in PlanIds |-> docs[PlanDoc(z)]] EXCEPT ![p].verdict = "rejected"]
  BY <1>3, <1>5 DEF Others
<1>9. /\ UNCHANGED [e \in Events |-> Aged(e)]
      /\ UNCHANGED [i \in WorkItems |-> docs[WorkDoc(i)]]
  BY <1>5, LedgerKept DEF Others
<1>10. QED
  BY <1>2, <1>5, <1>6, <1>7, <1>8, <1>9

\* Work items.
LEMMA CreateEffect ==
  ASSUME DocsTyped, NEW i \in WorkItems, NEW f, HoldsFence(f), docs[WorkDoc(i)] = NotCreated,
         docs' = Over(Only(WorkDoc(i), Unclaimed), docs), silent' = silent
  PROVE  DocsTyped' /\ OnlyForward /\ StoreStep
<1>1. /\ DocsTyped' /\ OnlyForward
      /\ [j \in WorkItems |-> docs[WorkDoc(j)]]'
           = [[j \in WorkItems |-> docs[WorkDoc(j)]] EXCEPT ![i] = Unclaimed]
      /\ docs'[Run] = docs[Run]
      /\ UNCHANGED [e \in Events |-> Aged(e)]
      /\ UNCHANGED [p \in PlanIds |-> docs[PlanDoc(p)]]
  BY WorkEffect DEF WorkDocs
<1>2. Mirror!CreateWork(i, f)
  BY <1>1 DEF Mirror!CreateWork, HoldsFence, Mirror!Created
<1>3. QED
  BY <1>1, <1>2 DEF StoreStep, Mirror!StoreNext, Mirror!Call, Mirror!WorkCall, HoldsFence

LEMMA ClaimEffect ==
  ASSUME DocsTyped, NEW c \in Clients, NEW i \in WorkItems, NEW f, HoldsFence(f),
         docs[WorkDoc(i)] = Unclaimed,
         docs' = Over(Only(WorkDoc(i), c), docs), silent' = silent
  PROVE  DocsTyped' /\ OnlyForward /\ StoreStep
<1>1. /\ DocsTyped' /\ OnlyForward
      /\ [j \in WorkItems |-> docs[WorkDoc(j)]]'
           = [[j \in WorkItems |-> docs[WorkDoc(j)]] EXCEPT ![i] = c]
      /\ docs'[Run] = docs[Run]
      /\ UNCHANGED [e \in Events |-> Aged(e)]
      /\ UNCHANGED [p \in PlanIds |-> docs[PlanDoc(p)]]
  BY WorkEffect DEF WorkDocs
<1>2. Mirror!Claim(i, c, f)
  BY <1>1 DEF Mirror!Claim, HoldsFence, Mirror!Created, Mirror!Claimable
<1>3. QED
  BY <1>1, <1>2 DEF StoreStep, Mirror!StoreNext, Mirror!Call, Mirror!WorkCall, HoldsFence

LEMMA ReleaseEffect ==
  ASSUME DocsTyped, NEW i \in WorkItems, NEW f, HoldsFence(f), docs[WorkDoc(i)] # NotCreated,
         docs' = Over(Only(WorkDoc(i), Unclaimed), docs), silent' = silent
  PROVE  DocsTyped' /\ OnlyForward /\ StoreStep
<1>1. /\ DocsTyped' /\ OnlyForward
      /\ [j \in WorkItems |-> docs[WorkDoc(j)]]'
           = [[j \in WorkItems |-> docs[WorkDoc(j)]] EXCEPT ![i] = Unclaimed]
      /\ docs'[Run] = docs[Run]
      /\ UNCHANGED [e \in Events |-> Aged(e)]
      /\ UNCHANGED [p \in PlanIds |-> docs[PlanDoc(p)]]
  BY WorkEffect DEF WorkDocs
<1>2. Mirror!Release(i, f)
  BY <1>1 DEF Mirror!Release, HoldsFence, Mirror!Created
<1>3. QED
  BY <1>1, <1>2 DEF StoreStep, Mirror!StoreNext, Mirror!Call, Mirror!WorkCall, HoldsFence

Revocations == {"revoke", "revoke_stale", "revoke_current"}

LEMMA RevokeEffect ==
  ASSUME DocsTyped, NEW p \in PlanIds, NEW f, HoldsFence(f), docs[Run].committed = p,
         NEW op \in Revocations, NEW r \in Reached,
         op = "revoke_current" => docs[Run].revision = r,
         op = "revoke_stale" => docs[PlanDoc(p)].basis # docs[Run].revision,
         docs' = Over(RunAndPlan(Committing(docs[Run], NoPlan), p, Judged(docs[PlanDoc(p)], "rejected")),
                      docs),
         silent' = silent
  PROVE  DocsTyped' /\ OnlyForward /\ StoreStep
<1>1. /\ DocsTyped' /\ OnlyForward
      /\ [z \in PlanIds |-> docs[PlanDoc(z)]]'
           = [[z \in PlanIds |-> docs[PlanDoc(z)]] EXCEPT ![p].verdict = "rejected"]
      /\ docs'[Run].committed = NoPlan
      /\ docs'[Run].revision = docs[Run].revision
      /\ UNCHANGED [e \in Events |-> Aged(e)]
      /\ UNCHANGED [i \in WorkItems |-> docs[WorkDoc(i)]]
  BY WithdrawEffect
<1>2. CASE op = "revoke"
  <2>1. Mirror!RevokeCommit(p, f)
    BY <1>1 DEF Mirror!RevokeCommit, Mirror!Withdraw, HoldsFence
  <2>2. QED
    BY <1>1, <2>1 DEF StoreStep, Mirror!StoreNext, Mirror!Call, Mirror!CommitmentCall, HoldsFence
<1>3. CASE op = "revoke_stale"
  <2>1. Mirror!RevokeIfStale(p, f)
    BY <1>1, <1>3 DEF Mirror!RevokeIfStale, Mirror!Withdraw, HoldsFence, Mirror!BoundToWorld,
                      Mirror!WorldStandsAt
  <2>2. QED
    BY <1>1, <2>1 DEF StoreStep, Mirror!StoreNext, Mirror!Call, Mirror!CommitmentCall, HoldsFence
<1>4. CASE op = "revoke_current"
  <2>1. Mirror!RevokeIfRevisionCurrent(p, r, f) /\ r \in 0..docs[Run].revision
    BY <1>1, <1>4 DEF Mirror!RevokeIfRevisionCurrent, Mirror!Withdraw, HoldsFence,
                      Mirror!WorldStandsAt, Reached
  <2>2. QED
    BY <1>1, <2>1 DEF StoreStep, Mirror!StoreNext, Mirror!Call, Mirror!CommitmentCall, HoldsFence
<1>5. QED
  BY <1>2, <1>3, <1>4 DEF Revocations

-----------------------------------------------------------------------------
(* Calls *)

LEMMA CallKinds ==
  ASSUME NEW call \in Calls
  PROVE  /\ call.op = "trigger" => call.fence = Unfenced
         /\ call.op = "advance" => call.fence = Unfenced /\ call.event \in Events
         /\ call.op \in {"complete", "abandon"} => call.event \in Events /\ call.fence \in Handed
         /\ call.op \in {"create", "claim", "release"} => call.item \in WorkItems /\ call.fence \in Handed
         /\ call.op \in {"mark", "reject", "commit", "revoke", "revoke_stale"} =>
              call.plan \in PlanIds /\ call.fence \in Handed
         /\ call.op \in {"rebind", "revoke_current"} =>
              call.plan \in PlanIds /\ call.revision \in Reached /\ call.fence \in Handed
         /\ call.op = "add" =>
              /\ call.plan \in PlanIds /\ call.proposal \in Proposals
              /\ call.revision \in Reached /\ call.fence \in Handed
         /\ call.op \in {"trigger", "advance", "complete", "abandon", "create", "claim", "release", "mark",
                         "reject", "commit", "revoke", "revoke_stale", "rebind", "revoke_current", "add"}
BY DEF Calls

LEMMA FenceKinds ==
  ASSUME NEW call \in Calls
  PROVE  /\ call.fence \in Mirror!Fences /\ Mirror!Minted(call.fence)
         /\ call.fence # Unfenced =>
              /\ call.fence.event \in Events
              /\ call.fence.attempt \in 1..Aged(call.fence.event).attempt
<1>1. call.fence \in Handed \/ call.fence = Unfenced
  BY CallKinds
<1>2. Unfenced \in Mirror!Fences /\ Mirror!Minted(Unfenced)
  BY DEF Mirror!Fences, Mirror!Minted, Unfenced
<1>3. call.fence \in Mirror!Fences /\ Mirror!Minted(call.fence)
  BY <1>1, <1>2 DEF Handed
<1>4. call.fence # Unfenced => call.fence.event \in Events
  BY <1>3 DEF Mirror!Fences, Unfenced
<1>5. QED
  BY <1>3, <1>4 DEF Mirror!Minted, Unfenced

Coherent(call, v) == \A d \in Reads(call) : v[d] = docs[d]

\* A fence that was not lost in the copies holds in the store.
LEMMA FenceStands ==
  ASSUME DocsTyped, NEW call \in Calls, NEW v, Coherent(call, v), ~FenceLost(call, v)
  PROVE  HoldsFence(call.fence)
<1>1. CASE call.fence = Unfenced
  BY <1>1, FenceKinds DEF HoldsFence, Mirror!FenceHolds, Unfenced
<1>2. CASE call.fence # Unfenced
  <2> DEFINE e == call.fence.event
  <2>1. /\ e \in Events /\ EventDoc(e) \in Reads(call)
        /\ call.fence.attempt \in 1..Aged(e).attempt
        /\ docs[EventDoc(e)] \in EventDocs
    BY <1>2, FenceKinds DEF Reads, FenceReads, DocsTyped
  <2>2. v[EventDoc(e)] = docs[EventDoc(e)]
    BY <2>1 DEF Coherent
  <2>3. docs[EventDoc(e)].stage # "applied" /\ docs[EventDoc(e)].attempt = call.fence.attempt
    BY <1>2, <2>2 DEF FenceLost
  <2>4. docs[EventDoc(e)].stage \in Open
    BY <2>1, <2>3 DEF EventDocs, StoredStages, Open
  <2>5. Aged(e).stage \in {"in_progress", "lapsed", "abandoned"} /\ Aged(e).attempt = call.fence.attempt
    BY <2>1, <2>3, <2>4 DEF Aged, Open, EventDocs
  <2>6. Mirror!FenceHolds(call.fence)
    BY <2>1, <2>5 DEF Mirror!FenceHolds, Mirror!CurrentAttempt, Mirror!Pending
  <2>7. QED
    BY <2>6, FenceKinds DEF HoldsFence
<1>3. QED
  BY <1>1, <1>2

-----------------------------------------------------------------------------
(* A transaction that lands, operation by operation *)

Lands(c, call, v) ==
  LET w == Writes(c, call, v)
  IN /\ ~Raises(call, v)
     /\ WithinBounds(w)
     /\ docs' = Over(w, docs)
     /\ silent' = IF call.op = "advance"
                    THEN silent \ {e \in Events : EventDoc(e) \in DOMAIN w} ELSE silent

LEMMA WritesNothing ==
  ASSUME DocsTyped, NEW c, NEW call, NEW v, Lands(c, call, v), Writes(c, call, v) = NoWrites
  PROVE  DocsTyped' /\ OnlyForward /\ StoreStep
<1>1. docs' = docs
  BY NothingWritten DEF Lands, DocsTyped
<1>2. silent' = silent
  BY DEF Lands, NoWrites
<1>3. QED
  BY <1>1, <1>2, SameDocs

LEMMA TriggerLands ==
  ASSUME DocsTyped, NEW c, NEW call \in Calls, NEW v, Coherent(call, v), Lands(c, call, v),
         call.op = "trigger"
  PROVE  DocsTyped' /\ OnlyForward /\ StoreStep
<1>1. v[Run] = docs[Run]
  BY DEF Coherent, Reads, OwnReads
<1>2. Writes(c, call, v) = Only(Run, MovedOn(docs[Run]))
  BY <1>1 DEF Writes
<1>3. docs' = Over(Only(Run, MovedOn(docs[Run])), docs) /\ silent' = silent
  BY <1>2 DEF Lands
<1>5. docs'[Run].revision <= MaxRevision
  <2>1. docs'[Run] = MovedOn(docs[Run])
    BY <1>3, RunWritten DEF DocsTyped
  <2>2. QED
    BY <1>2, <2>1 DEF Lands, WithinBounds, Only
<1>6. QED
  BY <1>3, <1>5, TriggerEffect

LEMMA AdvanceLands ==
  ASSUME DocsTyped, NEW c, NEW call \in Calls, NEW v, Coherent(call, v), Lands(c, call, v),
         call.op = "advance"
  PROVE  DocsTyped' /\ OnlyForward /\ StoreStep
<1> DEFINE e == call.event
           m == docs[EventDoc(e)]
<1>1. /\ e \in Events /\ v[Run] = docs[Run] /\ v[EventDoc(e)] = m
      /\ m \in EventDocs /\ DOMAIN docs = DocIds
  BY CallKinds DEF Coherent, Reads, OwnReads, DocsTyped
<1>2. Writes(c, call, v) = AdvanceWrites(e, v)
  BY DEF Writes
<1>3. CASE m.stage = "unseen"
  <2> DEFINE w == RunAndEvent(MovedOn(docs[Run]), e, FirstMark(docs[Run].revision))
  <2>1. Writes(c, call, v) = w
    BY <1>1, <1>2, <1>3 DEF AdvanceWrites, RunAndEvent, FirstMark
  <2>2. /\ DOMAIN w = {Run, EventDoc(e)}
        /\ w[Run] = MovedOn(docs[Run])
    BY DocsDistinct DEF RunAndEvent, Over, Only
  <2>3. \A x \in Events : EventDoc(x) \in DOMAIN w <=> x = e
    BY <1>1, <2>2, DocsDistinct
  <2>4. docs' = Over(w, docs) /\ silent' = silent \ {e} /\ w[Run].revision <= MaxRevision
    BY <1>1, <2>1, <2>2, <2>3 DEF Lands, WithinBounds
  <2>5. docs'[Run] = w[Run]
    BY <1>1, <2>2, <2>4, DocsDistinct, Overwritten
  <2>6. QED
    BY <1>1, <1>3, <2>4, <2>5, AbsorbEffect
<1>4. CASE m.stage = "abandoned" \/ (m.stage = "in_progress" /\ e \in silent)
  <2> DEFINE w == Only(EventDoc(e), Resumed(m))
  <2>1. Writes(c, call, v) = w
    BY <1>1, <1>2, <1>4 DEF AdvanceWrites, Resumed
  <2>2. DOMAIN w = {EventDoc(e)} /\ w[EventDoc(e)] = Resumed(m)
    BY DEF Only
  <2>3. \A x \in Events : EventDoc(x) \in DOMAIN w <=> x = e
    BY <1>1, <2>2, DocsDistinct
  <2>4. docs' = Over(w, docs) /\ silent' = silent \ {e} /\ w[EventDoc(e)].attempt <= MaxAttempt
    BY <1>1, <2>1, <2>2, <2>3 DEF Lands, WithinBounds
  <2>5. docs'[EventDoc(e)] = w[EventDoc(e)]
    BY <1>1, <2>2, <2>4, DocsDistinct, Overwritten
  <2>6. QED
    BY <1>1, <1>4, <2>4, <2>5, ResumeEffect
<1>5. CASE ~(m.stage = "unseen" \/ m.stage = "abandoned" \/ (m.stage = "in_progress" /\ e \in silent))
  <2>1. Writes(c, call, v) = NoWrites
    BY <1>1, <1>2, <1>5 DEF AdvanceWrites
  <2>2. QED
    BY <2>1, WritesNothing
<1>6. QED
  BY <1>3, <1>4, <1>5

LEMMA MarkerLands ==
  ASSUME DocsTyped, NEW c, NEW call \in Calls, NEW v, Coherent(call, v), Lands(c, call, v),
         call.op \in {"complete", "abandon"}
  PROVE  DocsTyped' /\ OnlyForward /\ StoreStep
<1> DEFINE e == call.event
           m == docs[EventDoc(e)]
           stage == IF call.op = "complete" THEN "applied" ELSE "abandoned"
<1>1. e \in Events /\ v[EventDoc(e)] = m
  BY CallKinds DEF Coherent, Reads, OwnReads
<1>2. Writes(c, call, v) = MarkerWrites(call, v)
  BY DEF Writes
<1>3. CASE NothingToDo(call, v)
  BY <1>2, <1>3, WritesNothing DEF MarkerWrites
<1>4. CASE ~NothingToDo(call, v)
  <2>1. HoldsFence(call.fence)
    BY <1>4, FenceStands DEF Lands, Raises
  <2>2. Writes(c, call, v) = Only(EventDoc(e), Marked(m, stage))
    BY <1>1, <1>2, <1>4 DEF MarkerWrites, Marked
  <2>3. docs' = Over(Only(EventDoc(e), Marked(m, stage)), docs) /\ silent' = silent
    BY <2>2 DEF Lands
  <2>4. CASE call.op = "complete"
    <3>1. m.stage \in Open
      BY <1>1, <1>4, <2>4 DEF NothingToDo
    <3>2. QED
      BY <1>1, <2>1, <2>3, <2>4, <3>1, CompleteEffect
  <2>5. CASE call.op = "abandon"
    <3>1. m.stage = "in_progress"
      BY <1>1, <1>4, <2>5 DEF NothingToDo
    <3>2. QED
      BY <1>1, <2>1, <2>3, <2>5, <3>1, AbandonEffect
  <2>6. QED
    BY <2>4, <2>5
<1>5. QED
  BY <1>3, <1>4

LEMMA WorkLands ==
  ASSUME DocsTyped, NEW c \in Clients, NEW call \in Calls, NEW v, Coherent(call, v),
         Lands(c, call, v), call.op \in {"create", "claim", "release"}
  PROVE  DocsTyped' /\ OnlyForward /\ StoreStep
<1> DEFINE i == call.item
<1>1. i \in WorkItems /\ (call.op # "release" => v[WorkDoc(i)] = docs[WorkDoc(i)])
  BY CallKinds DEF Coherent, Reads, OwnReads
<1>2. HoldsFence(call.fence)
  BY FenceStands DEF Lands, Raises, NothingToDo
<1>3. Writes(c, call, v) = WorkWrites(c, call, v)
  BY DEF Writes
<1>4. CASE call.op = "create" /\ docs[WorkDoc(i)] = NotCreated
  <2>1. Writes(c, call, v) = Only(WorkDoc(i), Unclaimed)
    BY <1>1, <1>3, <1>4 DEF WorkWrites
  <2>2. docs' = Over(Only(WorkDoc(i), Unclaimed), docs) /\ silent' = silent
    BY <1>4, <2>1 DEF Lands
  <2>3. QED
    BY <1>1, <1>2, <1>4, <2>2, CreateEffect
<1>5. CASE call.op = "claim" /\ docs[WorkDoc(i)] = Unclaimed
  <2>1. Writes(c, call, v) = Only(WorkDoc(i), c)
    BY <1>1, <1>3, <1>5 DEF WorkWrites
  <2>2. docs' = Over(Only(WorkDoc(i), c), docs) /\ silent' = silent
    BY <1>5, <2>1 DEF Lands
  <2>3. QED
    BY <1>1, <1>2, <1>5, <2>2, ClaimEffect
<1>6. CASE call.op = "release" /\ docs[WorkDoc(i)] # NotCreated
  <2>1. Writes(c, call, v) = Only(WorkDoc(i), Unclaimed)
    BY <1>1, <1>3, <1>6 DEF WorkWrites
  <2>2. docs' = Over(Only(WorkDoc(i), Unclaimed), docs) /\ silent' = silent
    BY <1>6, <2>1 DEF Lands
  <2>3. QED
    BY <1>1, <1>2, <1>6, <2>2, ReleaseEffect
<1>7. CASE /\ ~(call.op = "create" /\ docs[WorkDoc(i)] = NotCreated)
           /\ ~(call.op = "claim" /\ docs[WorkDoc(i)] = Unclaimed)
           /\ ~(call.op = "release" /\ docs[WorkDoc(i)] # NotCreated)
  <2>1. Writes(c, call, v) = NoWrites
    BY <1>1, <1>3, <1>7 DEF WorkWrites
  <2>2. QED
    BY <2>1, WritesNothing
<1>8. QED
  BY <1>4, <1>5, <1>6, <1>7

LEMMA PlanLands ==
  ASSUME DocsTyped, NEW c, NEW call \in Calls, NEW v, Coherent(call, v), Lands(c, call, v),
         call.op \in {"add", "mark", "reject", "rebind", "commit"}
  PROVE  DocsTyped' /\ OnlyForward /\ StoreStep
<1> DEFINE p == call.plan
           x == docs[PlanDoc(p)]
<1>1. /\ p \in PlanIds
      /\ call.op # "add" => v[PlanDoc(p)] = x
      /\ call.op \notin {"add", "reject"} => v[Run] = docs[Run]
  BY CallKinds DEF Coherent, Reads, OwnReads
<1>2. HoldsFence(call.fence)
  BY FenceStands DEF Lands, Raises, NothingToDo
<1>3. Writes(c, call, v) = PlanWrites(call, v)
  BY DEF Writes
<1>4. call.op # "add" => x.verdict # "absent"
  BY <1>1 DEF Lands, Raises, Missing, NothingToDo
<1>5. silent' = silent /\ docs' = Over(PlanWrites(call, v), docs)
  BY <1>3 DEF Lands
<1>6. CASE call.op = "add"
  <2>1. PlanWrites(call, v) =
          Only(PlanDoc(p), [verdict |-> "candidate", basis |-> call.revision, proposal |-> call.proposal])
    BY <1>6 DEF PlanWrites
  <2>2. QED
    BY <1>1, <1>2, <1>5, <1>6, <2>1, CallKinds, AddEffect
<1>7. CASE call.op = "mark"
  <2>1. PlanWrites(call, v) =
          Only(PlanDoc(p), Judged(x, IF x.basis = docs[Run].revision THEN "verified" ELSE "rejected"))
    BY <1>1, <1>7 DEF PlanWrites, Bound, Judged
  <2>2. QED
    BY <1>1, <1>2, <1>4, <1>5, <1>7, <2>1, MarkVerifiedEffect
<1>8. CASE call.op = "reject"
  <2>1. PlanWrites(call, v) = Only(PlanDoc(p), Judged(x, "rejected"))
    BY <1>1, <1>8 DEF PlanWrites, Judged
  <2>2. QED
    BY <1>1, <1>2, <1>4, <1>5, <1>8, <2>1, RejectEffect
<1>9. CASE call.op = "rebind" /\ docs[Run].revision = call.revision
  <2>1. PlanWrites(call, v) = Only(PlanDoc(p), Rebound(x, call.revision))
    BY <1>1, <1>9 DEF PlanWrites, Rebound
  <2>2. QED
    BY <1>1, <1>2, <1>4, <1>5, <1>9, <2>1, CallKinds, RebindEffect
<1>10. CASE call.op = "commit" /\ x.verdict = "verified" /\ x.basis = docs[Run].revision
  <2>1. PlanWrites(call, v) = Only(Run, Committing(docs[Run], p))
    BY <1>1, <1>10 DEF PlanWrites, Bound, Committing
  <2>2. QED
    BY <1>1, <1>2, <1>5, <1>10, <2>1, CommitEffect
<1>11. CASE /\ call.op \in {"rebind", "commit"}
            /\ ~(call.op = "rebind" /\ docs[Run].revision = call.revision)
            /\ ~(call.op = "commit" /\ x.verdict = "verified" /\ x.basis = docs[Run].revision)
  <2>1. Writes(c, call, v) = NoWrites
    BY <1>1, <1>3, <1>11 DEF PlanWrites, Bound
  <2>2. QED
    BY <2>1, WritesNothing
<1>12. QED
  BY <1>6, <1>7, <1>8, <1>9, <1>10, <1>11

LEMMA RevokeLands ==
  ASSUME DocsTyped, NEW c, NEW call \in Calls, NEW v, Coherent(call, v), Lands(c, call, v),
         call.op \in Revocations
  PROVE  DocsTyped' /\ OnlyForward /\ StoreStep
<1> DEFINE p == call.plan
           x == docs[PlanDoc(p)]
<1>1. /\ p \in PlanIds /\ v[Run] = docs[Run]
      /\ call.op # "revoke" => v[PlanDoc(p)] = x
  BY CallKinds DEF Coherent, Reads, OwnReads, Revocations
<1>2. HoldsFence(call.fence)
  BY FenceStands DEF Lands, Raises, NothingToDo, Revocations
<1>3. Writes(c, call, v) = RevokeWrites(call, v)
  BY DEF Writes, Revocations
<1>4. CASE Withdrawable(call, v)
  <2>1. /\ docs[Run].committed = p
        /\ call.op = "revoke_current" => docs[Run].revision = call.revision
        /\ call.op = "revoke_stale" => x.basis # docs[Run].revision
    BY <1>1, <1>4 DEF Withdrawable, Bound
  <2>2. Writes(c, call, v) = RunAndPlan(Committing(docs[Run], NoPlan), p, Judged(x, "rejected"))
    BY <1>1, <1>3, <1>4 DEF RevokeWrites, RunAndPlan, Committing, Judged
  <2>3. /\ docs' = Over(RunAndPlan(Committing(docs[Run], NoPlan), p, Judged(x, "rejected")), docs)
        /\ silent' = silent
    BY <2>2 DEF Lands, Revocations
  <2>4. PICK r \in Reached : call.op = "revoke_current" => docs[Run].revision = r
    <3>1. docs[Run].revision \in Reached
      BY Counted DEF Reached
    <3>2. QED
      BY <3>1
  <2>5. QED
    BY <1>1, <1>2, <2>1, <2>3, <2>4, RevokeEffect
<1>5. CASE ~Withdrawable(call, v)
  BY <1>3, <1>5, WritesNothing DEF RevokeWrites
<1>6. QED
  BY <1>4, <1>5

LEMMA EveryLanding ==
  ASSUME DocsTyped, NEW c \in Clients, NEW call \in Calls, NEW v, Coherent(call, v),
         Lands(c, call, v)
  PROVE  DocsTyped' /\ OnlyForward /\ StoreStep
BY CallKinds, TriggerLands, AdvanceLands, MarkerLands, WorkLands, PlanLands, RevokeLands
   DEF Revocations

-----------------------------------------------------------------------------
(* The inductive invariant *)

\* A call in progress is one a caller can make, within its budget; unless it
\* was told to start over, nothing it has read was written since.
RunningOK(t) ==
  /\ t = [phase |-> "running", call |-> t.call, view |-> t.view, dirty |-> t.dirty,
          tries |-> t.tries, rounds |-> t.rounds]
  /\ t.call \in Calls /\ t.dirty \in BOOLEAN
  /\ t.tries \in 1..MaxTries /\ t.rounds \in 0..ClaimRetries
  /\ DOMAIN t.view \subseteq Reads(t.call)
  /\ ~t.dirty => \A d \in DOMAIN t.view : t.view[d] = docs[d]

RereadingOK(t) ==
  /\ t = [phase |-> "rereading", call |-> t.call]
  /\ t.call \in Calls /\ t.call.op = "claim"

TxTyped ==
  /\ tx = [c \in Clients |-> tx[c]]
  /\ \A c \in Clients : tx[c] = Idle \/ RereadingOK(tx[c]) \/ RunningOK(tx[c])

\* Nobody has been told the answer of a claim that is still in progress.
ToldTyped ==
  /\ told = [c \in Clients |-> told[c]]
  /\ \A c \in Clients :
       /\ told[c] = Untold \/ told[c] \in [answer : Answers, item : WorkItems]
       /\ tx[c] # Idle /\ tx[c].call.op = "claim" => told[c] = Untold

FirestoreInv == DocsTyped /\ TxTyped /\ ToldTyped /\ ClaimAnswersAreTrue

LEMMA CallsKept ==
  ASSUME DocsTyped, DocsTyped', OnlyForward
  PROVE  Calls \subseteq Calls'
<1>1. Reached \subseteq Reached'
  BY Counted DEF Reached, OnlyForward, DocsTyped, RunDocs
<1>2. \A e \in Events : /\ Aged(e).attempt = docs[EventDoc(e)].attempt
                        /\ Aged(e)'.attempt = docs'[EventDoc(e)].attempt
                        /\ Aged(e).attempt \in Nat /\ Aged(e)'.attempt \in Nat
                        /\ Aged(e)'.attempt >= Aged(e).attempt
  BY DEF Aged, DocsTyped, EventDocs, OnlyForward
<1>3. Handed \subseteq Handed'
  BY <1>2 DEF Handed, Mirror!Minted, Mirror!Fences
<1>4. QED
  BY <1>1, <1>3 DEF Calls

LEMMA ReadsAreDocs ==
  ASSUME NEW call \in Calls
  PROVE  Reads(call) \subseteq DocIds
<1>1. FenceReads(call) \subseteq DocIds
  BY FenceKinds, DocsDistinct DEF FenceReads
<1>2. OwnReads(call) \subseteq DocIds
  BY CallKinds, DocsDistinct DEF OwnReads
<1>3. QED
  BY <1>1, <1>2 DEF Reads

LEMMA FreshOK ==
  ASSUME NEW call \in Calls, NEW tries \in 1..MaxTries, NEW rounds \in 0..ClaimRetries
  PROVE  RunningOK(Fresh(call, tries, rounds))
BY DEF RunningOK, Fresh, NoWrites

\* An aborted call runs again within its budget, or is over.
LEMMA RunAgainOK ==
  ASSUME NEW t, RunningOK(t)
  PROVE  /\ RunAgain(t) = Idle \/ RereadingOK(RunAgain(t)) \/ RunningOK(RunAgain(t))
         /\ RunAgain(t) # Idle => RunAgain(t).call = t.call
         /\ RunAgain(t).phase = "running" => DOMAIN RunAgain(t).view = {}
<1>1. t.call \in Calls /\ t.tries \in 1..MaxTries /\ t.rounds \in 0..ClaimRetries
  BY DEF RunningOK
<1>2. CASE t.tries < MaxTries
  <2>1. RunAgain(t) = Fresh(t.call, t.tries + 1, t.rounds) /\ t.tries + 1 \in 1..MaxTries
    BY <1>1, <1>2 DEF RunAgain
  <2>2. QED
    BY <1>1, <2>1, FreshOK DEF Fresh, NoWrites
<1>3. CASE t.tries >= MaxTries /\ t.call.op = "claim" /\ t.rounds < ClaimRetries
  <2>1. /\ RunAgain(t) = Fresh(t.call, 1, t.rounds + 1)
        /\ 1 \in 1..MaxTries /\ t.rounds + 1 \in 0..ClaimRetries
    BY <1>1, <1>3 DEF RunAgain
  <2>2. QED
    BY <1>1, <2>1, FreshOK DEF Fresh, NoWrites
<1>4. CASE t.tries >= MaxTries /\ t.call.op = "claim" /\ ~(t.rounds < ClaimRetries)
  <2>1. RunAgain(t) = [phase |-> "rereading", call |-> t.call]
    BY <1>1, <1>4 DEF RunAgain
  <2>2. QED
    BY <1>1, <1>4, <2>1 DEF RereadingOK
<1>5. CASE t.tries >= MaxTries /\ t.call.op # "claim"
  BY <1>1, <1>5 DEF RunAgain, Idle
<1>6. QED
  BY <1>1, <1>2, <1>3, <1>4, <1>5

\* The calls nobody disturbed: the documents they read have not been written.
LEMMA UndisturbedOK ==
  ASSUME DocsTyped, Calls \subseteq Calls', NEW t, RunningOK(t) \/ RereadingOK(t),
         \A d \in DocIds : t.phase = "running" /\ ~t.dirty /\ d \in DOMAIN t.view => docs'[d] = docs[d]
  PROVE  RunningOK(t)' \/ RereadingOK(t)'
<1>1. CASE RereadingOK(t)
  BY <1>1 DEF RereadingOK
<1>2. CASE RunningOK(t)
  <2>1. t.phase = "running" /\ t.call \in Calls /\ DOMAIN t.view \subseteq DocIds
    BY <1>2, ReadsAreDocs DEF RunningOK
  <2>2. ~t.dirty => \A d \in DOMAIN t.view : t.view[d] = docs'[d]
    BY <1>2, <2>1 DEF RunningOK
  <2>3. Reads(t.call)' = Reads(t.call)
    BY DEF Reads, FenceReads, OwnReads
  <2>4. QED
    BY <1>2, <2>2, <2>3 DEF RunningOK
<1>3. QED
  BY <1>1, <1>2

\* A call whose reads were overwritten starts from nothing.
Spoiled(call, tries, rounds) ==
  [phase |-> "running", call |-> call, view |-> NoWrites, dirty |-> TRUE,
   tries |-> tries, rounds |-> rounds]

LEMMA SpoiledOK ==
  ASSUME NEW call \in Calls', NEW tries \in 1..MaxTries, NEW rounds \in 0..ClaimRetries
  PROVE  /\ RunningOK(Spoiled(call, tries, rounds))'
         /\ Spoiled(call, tries, rounds).call = call
         /\ Spoiled(call, tries, rounds).phase = "running"
BY DEF RunningOK, Spoiled, NoWrites

LEMMA DisturbedOK ==
  ASSUME Calls \subseteq Calls', NEW t, RunningOK(t),
         NEW u, u = [t EXCEPT !.dirty = TRUE, !.view = NoWrites]
  PROVE  RunningOK(u)' /\ u.call = t.call /\ u.phase = "running"
<1>1. PICK call, view, dirty, tries, rounds :
        t = [phase |-> "running", call |-> call, view |-> view, dirty |-> dirty,
             tries |-> tries, rounds |-> rounds]
  BY DEF RunningOK
<1>2. u = Spoiled(call, tries, rounds)
  BY <1>1 DEF Spoiled
<1>3. call \in Calls' /\ tries \in 1..MaxTries /\ rounds \in 0..ClaimRetries /\ t.call = call
  BY <1>1 DEF RunningOK
<1>4. /\ RunningOK(Spoiled(call, tries, rounds))'
      /\ Spoiled(call, tries, rounds).call = call
      /\ Spoiled(call, tries, rounds).phase = "running"
  BY <1>3, SpoiledOK
<1>5. \A y : y = Spoiled(call, tries, rounds) /\ RunningOK(Spoiled(call, tries, rounds))'
               => RunningOK(y)'
  BY Zenon DEF RunningOK
<1>6. QED
  BY <1>2, <1>3, <1>4, <1>5, Zenon

\* Who owns an item changes only by a call about that item.
LEMMA OwnersKept ==
  ASSUME DocsTyped, NEW c, NEW call \in Calls, NEW v, Lands(c, call, v),
         call.op \notin {"create", "claim", "release"}, NEW i \in WorkItems
  PROVE  docs'[WorkDoc(i)] = docs[WorkDoc(i)]
<1>1. WorkDoc(i) \notin DOMAIN Writes(c, call, v)
  <2>1. CASE call.op \in {"trigger", "advance"}
    BY <2>1, DocsDistinct DEF Writes, AdvanceWrites, Only, Over, NoWrites
  <2>2. CASE call.op \in {"complete", "abandon"}
    BY <2>2, DocsDistinct DEF Writes, MarkerWrites, Only, NoWrites
  <2>3. CASE call.op \in Revocations
    BY <2>3, DocsDistinct DEF Writes, RevokeWrites, Only, Over, NoWrites, Revocations
  <2>4. CASE call.op \in {"add", "mark", "reject", "rebind", "commit"}
    BY <2>4, DocsDistinct DEF Writes, PlanWrites, Only, NoWrites
  <2>5. QED
    BY <2>1, <2>2, <2>3, <2>4, CallKinds DEF Revocations
<1>2. WorkDoc(i) \in DOMAIN docs
  BY DocsDistinct DEF DocsTyped
<1>3. QED
  BY <1>1, <1>2 DEF Lands, Over

LEMMA OwnersMoved ==
  ASSUME DocsTyped, NEW c \in Clients, NEW call \in Calls, NEW v, Coherent(call, v),
         Lands(c, call, v)
  PROVE  OwnersMove(c, call) /\ ClaimTakes(c, call)
<1>1. CASE call.op \notin {"create", "claim", "release"}
  BY <1>1, OwnersKept DEF OwnersMove, ClaimTakes
<1>2. CASE call.op \in {"create", "claim", "release"}
  <2> DEFINE i == call.item
  <2>1. /\ i \in WorkItems /\ (call.op # "release" => v[WorkDoc(i)] = docs[WorkDoc(i)])
        /\ DOMAIN docs = DocIds
    BY <1>2, CallKinds DEF Coherent, Reads, OwnReads, DocsTyped
  <2>2. docs' = Over(WorkWrites(c, call, v), docs)
    BY <1>2 DEF Lands, Writes
  <2>3. \A d \in DocIds : docs'[d] = IF d \in DOMAIN WorkWrites(c, call, v)
                                       THEN WorkWrites(c, call, v)[d] ELSE docs[d]
    BY <2>1, <2>2 DEF Over
  <2>4. /\ DOMAIN WorkWrites(c, call, v) \subseteq {WorkDoc(i)}
        /\ WorkDoc(i) \in DOMAIN WorkWrites(c, call, v) =>
             \/ /\ call.op = "create" /\ docs[WorkDoc(i)] = NotCreated
                /\ WorkWrites(c, call, v)[WorkDoc(i)] = Unclaimed
             \/ /\ call.op = "claim" /\ docs[WorkDoc(i)] = Unclaimed
                /\ WorkWrites(c, call, v)[WorkDoc(i)] = c
             \/ /\ call.op = "release"
                /\ WorkWrites(c, call, v)[WorkDoc(i)] = Unclaimed
    BY <1>2, <2>1 DEF WorkWrites, Only, NoWrites
  <2>5. OwnersMove(c, call)
    BY <2>1, <2>3, <2>4, DocsDistinct DEF OwnersMove
  <2>6. ClaimTakes(c, call)
    <3>1. SUFFICES ASSUME call.op = "claim", docs[WorkDoc(i)] = Unclaimed
                   PROVE  docs'[WorkDoc(i)] = c
      BY DEF ClaimTakes
    <3>2. WorkWrites(c, call, v) = Only(WorkDoc(i), c)
      BY <2>1, <3>1 DEF WorkWrites
    <3>3. QED
      BY <2>1, <2>3, <3>2, DocsDistinct DEF Only
  <2>7. QED
    BY <2>5, <2>6
<1>3. QED
  BY <1>1, <1>2

-----------------------------------------------------------------------------
(* Every step keeps the invariant *)

\* What is known of a call when its transaction lands.
LEMMA ReadyToLand ==
  ASSUME DocsTyped, TxTyped, NEW c \in Clients, Ready(c)
  PROVE  /\ RunningOK(tx[c]) /\ tx[c].call \in Calls
         /\ Coherent(tx[c].call, tx[c].view)
<1>1. RunningOK(tx[c])
  BY DEF TxTyped, RereadingOK, Ready, Running, Idle
<1>2. QED
  BY <1>1 DEF RunningOK, Ready, Coherent

LEMMA LandStep ==
  ASSUME DocsTyped, TxTyped, NEW c \in Clients, NEW after,
         Ready(c), ~Raises(tx[c].call, tx[c].view), Land(c, Intended(c), after)
  PROVE  /\ DocsTyped' /\ OnlyForward /\ StoreStep
         /\ OwnersMove(c, tx[c].call) /\ ClaimTakes(c, tx[c].call)
         /\ Calls \subseteq Calls'
         /\ \A k \in Clients \ {c} : tx'[k] = Idle \/ RereadingOK(tx[k])' \/ RunningOK(tx[k])'
         /\ \A k \in Clients \ {c} : /\ tx'[k] # Idle => tx[k] # Idle /\ tx'[k].call = tx[k].call
         /\ tx' = [k \in Clients |-> tx'[k]] /\ tx'[c] = after
<1> DEFINE call == tx[c].call
           v == tx[c].view
           w == Intended(c)
<1>1. call \in Calls /\ Coherent(call, v)
  BY ReadyToLand
<1>2. Lands(c, call, v)
  BY DEF Lands, Land, Intended
<1>3. /\ DocsTyped' /\ OnlyForward /\ StoreStep
      /\ OwnersMove(c, call) /\ ClaimTakes(c, call)
  BY <1>1, <1>2, EveryLanding, OwnersMoved
<1>4. Calls \subseteq Calls'
  BY <1>3, CallsKept
<1>5. tx' = [k \in Clients |->
              IF k = c THEN after
              ELSE IF Running(k) /\ DOMAIN w \cap DOMAIN tx[k].view \cap Tracked(tx[k].call) # {}
                THEN [tx[k] EXCEPT !.dirty = TRUE, !.view = NoWrites]
                ELSE tx[k]]
  BY DEF Land
<1>6. ASSUME NEW k \in Clients \ {c}
      PROVE  /\ tx'[k] = Idle \/ RereadingOK(tx[k])' \/ RunningOK(tx[k])'
             /\ tx'[k] # Idle => tx[k] # Idle /\ tx'[k].call = tx[k].call
  <2>0. tx[k] = Idle \/ RereadingOK(tx[k]) \/ RunningOK(tx[k])
    BY DEF TxTyped
  <2>1. CASE Running(k) /\ DOMAIN w \cap DOMAIN tx[k].view \cap Tracked(tx[k].call) # {}
    <3>1. RunningOK(tx[k])
      BY <2>0, <2>1 DEF Running, Idle, RereadingOK
    <3>2. PICK t : t = [tx[k] EXCEPT !.dirty = TRUE, !.view = NoWrites]
      OBVIOUS
    <3>3. tx'[k] = t
      BY <1>5, <2>1, <3>2
    <3>4. RunningOK(t)' /\ t.call = tx[k].call /\ t.phase = "running"
      BY <1>4, <3>1, <3>2, DisturbedOK
    <3>5. RunningOK(tx[k])'
      BY <3>3, <3>4 DEF RunningOK
    <3>6. tx[k] # Idle
      BY <2>1 DEF Running, Idle
    <3>7. QED
      BY <3>3, <3>4, <3>5, <3>6
  <2>2. CASE ~(Running(k) /\ DOMAIN w \cap DOMAIN tx[k].view \cap Tracked(tx[k].call) # {})
    <3>1. tx'[k] = tx[k]
      BY <1>5, <2>2
    <3>2. CASE tx[k] = Idle
      BY <3>1, <3>2
    <3>3. CASE RereadingOK(tx[k]) \/ RunningOK(tx[k])
      <4>1. ASSUME NEW d \in DocIds, tx[k].phase = "running", ~tx[k].dirty, d \in DOMAIN tx[k].view
            PROVE  docs'[d] = docs[d]
        <5>1. RunningOK(tx[k])
          BY <3>3, <4>1 DEF RereadingOK
        <5>2. d \notin DOMAIN w
          BY <2>2, <4>1, <5>1 DEF RunningOK, Running, Tracked
        <5>3. docs' = Over(w, docs) /\ d \in DOMAIN docs
          BY DEF Land, DocsTyped
        <5>4. QED
          BY <5>2, <5>3 DEF Over
      <4>2. PICK t : t = tx[k]
        OBVIOUS
      <4>3. RunningOK(t)' \/ RereadingOK(t)'
        BY <1>4, <3>3, <4>1, <4>2, UndisturbedOK
      <4>4. RunningOK(tx[k])' \/ RereadingOK(tx[k])'
        BY <3>1, <4>2, <4>3 DEF RunningOK, RereadingOK
      <4>5. tx[k] # Idle
        BY <3>3 DEF RunningOK, RereadingOK, Idle
      <4>6. QED
        BY <3>1, <4>4, <4>5
    <3>4. QED
      BY <2>0, <3>2, <3>3
  <2>3. QED
    BY <2>1, <2>2
<1>7. QED
  BY <1>3, <1>4, <1>5, <1>6

\* A step of one call that writes no document.
LEMMA OneMoves ==
  ASSUME DocsTyped, TxTyped, UNCHANGED <<docs, silent>>, NEW c \in Clients,
         NEW t, t = Idle \/ RereadingOK(t) \/ RunningOK(t), tx' = [tx EXCEPT ![c] = t]
  PROVE  /\ DocsTyped' /\ StoreStep /\ TxTyped'
<1>1. DocsTyped' /\ OnlyForward /\ StoreStep
  BY SameDocs
<1>2. Calls \subseteq Calls'
  BY <1>1, CallsKept
<1>3. \A u : RunningOK(u) \/ RereadingOK(u) => RunningOK(u)' \/ RereadingOK(u)'
  BY <1>2, UndisturbedOK
<1>4. tx' = [k \in Clients |-> tx'[k]] /\ tx'[c] = t /\ \A k \in Clients \ {c} : tx'[k] = tx[k]
  BY DEF TxTyped
<1>5. ASSUME NEW k \in Clients
      PROVE  tx'[k] = Idle \/ RereadingOK(tx[k])' \/ RunningOK(tx[k])'
  <2>1. PICK u : u = tx'[k]
    OBVIOUS
  <2>2. u = Idle \/ RereadingOK(u) \/ RunningOK(u)
    BY <1>4, <2>1 DEF TxTyped
  <2>3. u = Idle \/ RereadingOK(u)' \/ RunningOK(u)'
    BY <1>3, <2>2
  <2>4. QED
    BY <2>1, <2>3 DEF RereadingOK, RunningOK
<1>6. QED
  BY <1>1, <1>4, <1>5 DEF TxTyped

Truthful(c, a) ==
  /\ a.answer = "won" => docs[WorkDoc(a.item)] = c
  /\ a.answer \in {"refused", "undecided"} => docs[WorkDoc(a.item)] # c

LEMMA AnswersAreTruthful == ClaimAnswersAreTrue <=> \A c \in Clients : Truthful(c, told[c])
BY DEF ClaimAnswersAreTrue, Truthful

\* A landing leaves an answer true, unless it is its own client's claim, or it
\* releases an item that was won.
LEMMA StaysTruthful ==
  ASSUME DocsTyped, NEW c \in Clients, NEW call \in Calls, OwnersMove(c, call),
         NEW k \in Clients, NEW a, a = Untold \/ a \in [answer : Answers, item : WorkItems],
         Truthful(k, a), k # c \/ call.op # "claim" \/ a = Untold,
         call.op = "release" => ~(a.answer = "won" /\ a.item = call.item)
  PROVE  Truthful(k, a)'
<1>1. CASE a = Untold
  BY <1>1 DEF Truthful, Untold
<1>2. CASE a \in [answer : Answers, item : WorkItems] /\ a # Untold
  <2> DEFINE d == WorkDoc(a.item)
  <2>1. a.item \in WorkItems
    BY <1>2
  <2>2. CASE docs'[d] = docs[d]
    BY <2>2 DEF Truthful
  <2>3. CASE docs'[d] # docs[d]
    <3>1. a.answer # "won"
      BY <1>2, <2>1, <2>3, NamesAssumption DEF OwnersMove, Truthful
    <3>2. docs'[d] # k
      BY <1>2, <2>1, <2>3, NamesAssumption DEF OwnersMove
    <3>3. QED
      BY <3>1, <3>2 DEF Truthful
  <2>4. QED
    BY <2>2, <2>3
<1>3. QED
  BY <1>1, <1>2

LEMMA BeginStep ==
  ASSUME FirestoreInv, NEW c \in Clients, Begin(c)
  PROVE  FirestoreInv' /\ StoreStep
<1>1. PICK call \in Calls :
        /\ tx' = [tx EXCEPT ![c] = Fresh(call, 1, 0)]
        /\ told' = IF call.op = "claim" THEN [told EXCEPT ![c] = Untold] ELSE told
  BY DEF Begin
<1>2. UNCHANGED <<docs, silent>>
  BY DEF Begin
<1>3. RunningOK(Fresh(call, 1, 0))
  BY FreshOK, TriesAssumption
<1>4. DocsTyped' /\ StoreStep /\ TxTyped'
  BY <1>1, <1>2, <1>3, OneMoves DEF FirestoreInv
<1>5. \A k \in Clients : told'[k] = told[k] \/ told'[k] = Untold
  BY <1>1 DEF FirestoreInv, ToldTyped
<1>6. ToldTyped'
  <2>1. /\ told' = [k \in Clients |-> told'[k]]
        /\ \A k \in Clients : told'[k] = Untold \/ told'[k] \in [answer : Answers, item : WorkItems]
    BY <1>1, <1>5 DEF FirestoreInv, ToldTyped
  <2>2. \A k \in Clients \ {c} : tx'[k] = tx[k]
    BY <1>1 DEF FirestoreInv, TxTyped
  <2>3. tx'[c].call = call
    BY <1>1 DEF FirestoreInv, TxTyped, Fresh
  <2>4. call.op = "claim" => told'[c] = Untold
    BY <1>1 DEF FirestoreInv, ToldTyped
  <2>5. \A k \in Clients : tx'[k] # Idle /\ tx'[k].call.op = "claim" => told'[k] = Untold
    BY <1>5, <2>2, <2>3, <2>4 DEF FirestoreInv, ToldTyped
  <2>6. QED
    BY <2>1, <2>5 DEF ToldTyped
<1>7. ClaimAnswersAreTrue'
  BY <1>2, <1>5 DEF FirestoreInv, ClaimAnswersAreTrue, Untold
<1>8. QED
  BY <1>4, <1>6, <1>7 DEF FirestoreInv

\* Reading, aborting and raising change one call and nothing else.
LEMMA OnlyTheCall ==
  ASSUME FirestoreInv, UNCHANGED <<docs, silent, told>>, NEW c \in Clients,
         NEW t, t = Idle \/ RereadingOK(t) \/ RunningOK(t), tx' = [tx EXCEPT ![c] = t],
         t # Idle => tx[c] # Idle /\ t.call = tx[c].call
  PROVE  FirestoreInv' /\ StoreStep
<1>1. DocsTyped' /\ StoreStep /\ TxTyped'
  BY OneMoves DEF FirestoreInv
<1>2. /\ \A k \in Clients \ {c} : tx'[k] = tx[k]
      /\ tx'[c] = t
  BY DEF FirestoreInv, TxTyped
<1>3. ToldTyped'
  BY <1>2 DEF FirestoreInv, ToldTyped
<1>4. ClaimAnswersAreTrue'
  BY DEF FirestoreInv, ClaimAnswersAreTrue
<1>5. QED
  BY <1>1, <1>3, <1>4 DEF FirestoreInv

LEMMA IsRunning ==
  ASSUME TxTyped, NEW c \in Clients, Running(c)
  PROVE  RunningOK(tx[c]) /\ tx[c] # Idle
BY DEF TxTyped, RereadingOK, Running, Idle

\* A further copy is a copy of the document as it stands.
LEMMA ViewGrows ==
  ASSUME NEW t, RunningOK(t), ~t.dirty, NEW d \in Reads(t.call),
         NEW u, u = [t EXCEPT !.view = Over(Only(d, docs[d]), @)]
  PROVE  RunningOK(u) /\ u.call = t.call
<1>1. PICK call, view, dirty, tries, rounds :
        t = [phase |-> "running", call |-> call, view |-> view, dirty |-> dirty,
             tries |-> tries, rounds |-> rounds]
  BY DEF RunningOK
<1>2. PICK w : w = Over(Only(d, docs[d]), view)
  OBVIOUS
<1>3. t.view = view /\ t.call = call /\ t.dirty = dirty /\ t.tries = tries /\ t.rounds = rounds
  BY <1>1
<1>4. u = [phase |-> "running", call |-> call, view |-> w, dirty |-> dirty,
           tries |-> tries, rounds |-> rounds]
  BY <1>1, <1>2, <1>3
<1>5. /\ DOMAIN w = {d} \cup DOMAIN view
      /\ w[d] = docs[d]
      /\ \A e \in DOMAIN view \ {d} : w[e] = view[e]
  BY <1>2 DEF Over, Only
<1>6. /\ call \in Calls /\ dirty \in BOOLEAN /\ tries \in 1..MaxTries /\ rounds \in 0..ClaimRetries
      /\ DOMAIN view \subseteq Reads(call) /\ d \in Reads(call)
      /\ \A e \in DOMAIN view : view[e] = docs[e]
  BY <1>3 DEF RunningOK
<1>7. DOMAIN w \subseteq Reads(call) /\ \A e \in DOMAIN w : w[e] = docs[e]
  BY <1>5, <1>6
<1>8. /\ u.call = call /\ u.view = w /\ u.dirty = dirty /\ u.tries = tries /\ u.rounds = rounds
  BY <1>4
<1>9. RunningOK(u)
  BY <1>4, <1>6, <1>7, <1>8 DEF RunningOK
<1>10. QED
  BY <1>3, <1>8, <1>9

LEMMA ReadStep ==
  ASSUME FirestoreInv, NEW c \in Clients, Read(c)
  PROVE  FirestoreInv' /\ StoreStep
<1>1. RunningOK(tx[c]) /\ tx[c] # Idle /\ ~tx[c].dirty
  BY IsRunning DEF Read, FirestoreInv
<1>2. PICK d \in Reads(tx[c].call) : tx' = [tx EXCEPT ![c].view = Over(Only(d, docs[d]), @)]
  BY DEF Read
<1>3. PICK u : u = [tx[c] EXCEPT !.view = Over(Only(d, docs[d]), @)]
  OBVIOUS
<1>4. tx' = [tx EXCEPT ![c] = u]
  BY <1>2, <1>3
<1>5. RunningOK(u) /\ u.call = tx[c].call
  BY <1>1, <1>3, ViewGrows
<1>6. UNCHANGED <<docs, silent, told>>
  BY DEF Read
<1>7. QED
  BY <1>1, <1>4, <1>5, <1>6, OnlyTheCall

LEMMA RaiseStep ==
  ASSUME FirestoreInv, NEW c \in Clients, Raise(c)
  PROVE  FirestoreInv' /\ StoreStep
<1>1. tx' = [tx EXCEPT ![c] = Idle] /\ UNCHANGED <<docs, silent, told>>
  BY DEF Raise
<1>2. QED
  BY <1>1, OnlyTheCall

LEMMA AbortStep ==
  ASSUME FirestoreInv, NEW c \in Clients, Abort(c)
  PROVE  FirestoreInv' /\ StoreStep
<1>1. RunningOK(tx[c]) /\ tx[c] # Idle
  BY IsRunning DEF Abort, FirestoreInv
<1>2. PICK t : t = RunAgain(tx[c])
  OBVIOUS
<1>3. tx' = [tx EXCEPT ![c] = t] /\ UNCHANGED <<docs, silent, told>>
  BY <1>2 DEF Abort
<1>4. /\ t = Idle \/ RereadingOK(t) \/ RunningOK(t)
      /\ t # Idle => t.call = tx[c].call
  BY <1>1, <1>2, RunAgainOK
<1>5. QED
  BY <1>1, <1>3, <1>4, OnlyTheCall

\* An answer to a claim whose retries are spent.
LEMMA AnswerStep ==
  ASSUME FirestoreInv, NEW c \in Clients, tx[c].phase = "rereading",
         UNCHANGED <<docs, silent>>, tx' = [tx EXCEPT ![c] = Idle],
         NEW answer \in Answers, Tell(c, answer),
         Truthful(c, [answer |-> answer, item |-> tx[c].call.item])
  PROVE  FirestoreInv' /\ StoreStep
<1>1. RereadingOK(tx[c])
  BY DEF FirestoreInv, TxTyped, RunningOK, Idle
<1>2. tx[c].call.op = "claim" /\ tx[c].call.item \in WorkItems
  BY <1>1, CallKinds DEF RereadingOK
<1>3. DocsTyped' /\ StoreStep /\ TxTyped'
  BY OneMoves DEF FirestoreInv
<1> DEFINE a == [answer |-> answer, item |-> tx[c].call.item]
<1>4. told' = [told EXCEPT ![c] = a] /\ a \in [answer : Answers, item : WorkItems]
  BY <1>2 DEF Tell
<1> HIDE DEF a
<1>5. /\ told' = [k \in Clients |-> told'[k]] /\ told'[c] = a
      /\ \A k \in Clients \ {c} : told'[k] = told[k] /\ tx'[k] = tx[k]
      /\ tx'[c] = Idle
  BY <1>4 DEF FirestoreInv, ToldTyped, TxTyped
<1>6. ToldTyped'
  BY <1>4, <1>5 DEF FirestoreInv, ToldTyped
<1>7. ClaimAnswersAreTrue'
  BY <1>5 DEF FirestoreInv, ClaimAnswersAreTrue, Truthful, a
<1>8. QED
  BY <1>3, <1>6, <1>7 DEF FirestoreInv

LEMMA RereadStep ==
  ASSUME FirestoreInv, NEW c \in Clients, Reread(c) \/ RereadFails(c)
  PROVE  FirestoreInv' /\ StoreStep
<1>1. CASE RereadFails(c)
  <2>1. Truthful(c, [answer |-> "unknown", item |-> tx[c].call.item])
    BY DEF Truthful
  <2>2. QED
    BY <1>1, <2>1, AnswerStep DEF RereadFails, Answers
<1>2. CASE Reread(c)
  <2> DEFINE i == tx[c].call.item
             owner == docs[WorkDoc(i)]
             answer == CASE owner = c -> "won"
                         [] owner \in Clients \ {c} -> "refused"
                         [] owner = Unclaimed -> "undecided"
                         [] owner = NotCreated -> "unknown"
  <2>1. RereadingOK(tx[c])
    <3>1. tx[c] = Idle \/ RereadingOK(tx[c]) \/ RunningOK(tx[c])
      BY DEF FirestoreInv, TxTyped
    <3>2. tx[c].phase = "rereading"
      BY <1>2 DEF Reread
    <3>3. tx[c] # Idle
      BY <3>2 DEF Idle
    <3>4. ~RunningOK(tx[c])
      <4>1. ASSUME RunningOK(tx[c]) PROVE tx[c].phase = "running"
        BY <4>1 DEF RunningOK
      <4> QED BY <3>2, <4>1
    <3> QED BY <3>1, <3>3, <3>4
  <2>2. i \in WorkItems
    BY <2>1, CallKinds DEF RereadingOK
  <2>3. owner \in Clients \cup {Unclaimed, NotCreated}
    BY <2>2 DEF FirestoreInv, DocsTyped, WorkDocs
  <2>4. /\ answer \in Answers
        /\ answer = "won" => owner = c
        /\ answer \in {"refused", "undecided"} => owner # c
    BY <2>3, NamesAssumption DEF Answers
  <2>5. Tell(c, answer)
    BY <1>2 DEF Reread
  <2> HIDE DEF answer
  <2>6. Truthful(c, [answer |-> answer, item |-> i])
    BY <2>4 DEF Truthful
  <2>7. QED
    BY <1>2, <2>4, <2>5, <2>6, AnswerStep DEF Reread
<1>3. QED
  BY <1>1, <1>2

LEMMA FallSilentStep ==
  ASSUME FirestoreInv, NEW e \in Events, FallSilent(e)
  PROVE  FirestoreInv' /\ StoreStep
<1>1. /\ docs[EventDoc(e)].stage = "in_progress" /\ e \notin silent
      /\ silent' = silent \cup {e} /\ UNCHANGED <<docs, tx, told>>
      /\ docs[EventDoc(e)] \in EventDocs
  BY DEF FallSilent, FirestoreInv, DocsTyped
<1>2. DocsTyped'
  BY <1>1 DEF FirestoreInv, DocsTyped
<1>3. OnlyForward
  BY <1>1, Counted DEF OnlyForward, FirestoreInv
<1>4. Calls \subseteq Calls'
  BY <1>2, <1>3, CallsKept DEF FirestoreInv
<1>5. \A u : RunningOK(u) \/ RereadingOK(u) => RunningOK(u)' \/ RereadingOK(u)'
  BY <1>1, <1>4, UndisturbedOK DEF FirestoreInv
<1>6. ASSUME NEW k \in Clients
      PROVE  tx'[k] = Idle \/ RereadingOK(tx[k])' \/ RunningOK(tx[k])'
  <2>1. PICK u : u = tx[k] /\ u = tx'[k]
    BY <1>1
  <2>2. u = Idle \/ RereadingOK(u)' \/ RunningOK(u)'
    BY <1>5, <2>1 DEF FirestoreInv, TxTyped
  <2>3. QED
    BY <2>1, <2>2 DEF RereadingOK, RunningOK
<1>7. TxTyped' /\ ToldTyped' /\ ClaimAnswersAreTrue'
  BY <1>1, <1>6 DEF FirestoreInv, TxTyped, ToldTyped, ClaimAnswersAreTrue
<1>8. Mirror!LeaseLapses(e)
  <2>1. Aged(e).stage = "in_progress"
    BY <1>1 DEF Aged
  <2>2. Aged(e)' = [Aged(e) EXCEPT !.stage = "lapsed"] /\ \A x \in Events \ {e} : Aged(x)' = Aged(x)
    BY <1>1 DEF Aged
  <2>3. [x \in Events |-> Aged(x)]' = [[x \in Events |-> Aged(x)] EXCEPT ![e].stage = "lapsed"]
    BY <2>2
  <2>4. QED
    BY <1>1, <2>1, <2>3 DEF Mirror!LeaseLapses
<1>9. QED
  BY <1>2, <1>7, <1>8 DEF FirestoreInv, StoreStep, Mirror!StoreNext, Mirror!World

\* The answers after a landing: unchanged but for what a release takes back and
\* for what the landing client itself is told.
LEMMA AfterLanding ==
  ASSUME FirestoreInv, NEW c \in Clients, NEW after,
         Ready(c), ~Raises(tx[c].call, tx[c].view), Land(c, Intended(c), after),
         after = Idle \/ RereadingOK(after) \/ RunningOK(after),
         after # Idle => after.call = tx[c].call,
         after.phase = "running" => DOMAIN after.view = {},
         told' = [k \in Clients |-> told'[k]],
         \A k \in Clients :
           \/ told'[k] = Untold
           \/ /\ told'[k] = told[k]
              /\ tx[c].call.op = "release" => ~(told[k].answer = "won" /\ told[k].item = tx[c].call.item)
           \/ /\ k = c /\ after = Idle
              /\ told'[k] \in [answer : Answers, item : WorkItems]
              /\ OwnersMove(c, tx[c].call) /\ ClaimTakes(c, tx[c].call) => Truthful(k, told[k])'
  PROVE  FirestoreInv' /\ StoreStep
<1> DEFINE call == tx[c].call
<1>1. /\ DocsTyped' /\ OnlyForward /\ StoreStep
      /\ OwnersMove(c, call) /\ ClaimTakes(c, call)
      /\ Calls \subseteq Calls'
      /\ \A k \in Clients \ {c} : tx'[k] = Idle \/ RereadingOK(tx[k])' \/ RunningOK(tx[k])'
      /\ \A k \in Clients \ {c} : tx'[k] # Idle => tx[k] # Idle /\ tx'[k].call = tx[k].call
      /\ tx' = [k \in Clients |-> tx'[k]] /\ tx'[c] = after
  BY LandStep DEF FirestoreInv
<1>2. call \in Calls /\ tx[c] # Idle
  BY ReadyToLand DEF FirestoreInv, Ready, Running, Idle
<1>3. after = Idle \/ RereadingOK(after)' \/ RunningOK(after)'
  BY <1>1, UndisturbedOK DEF FirestoreInv
<1>4. RereadingOK(after)' \/ RunningOK(after)' => RereadingOK(tx[c])' \/ RunningOK(tx[c])'
  BY <1>1 DEF RereadingOK, RunningOK
<1>5. TxTyped'
  BY <1>1, <1>3, <1>4 DEF TxTyped
<1>6. ToldTyped'
  <2>1. ASSUME NEW k \in Clients
        PROVE  /\ told'[k] = Untold \/ told'[k] \in [answer : Answers, item : WorkItems]
               /\ tx'[k] # Idle /\ tx'[k].call.op = "claim" => told'[k] = Untold
    BY <1>1, <1>2 DEF FirestoreInv, ToldTyped
  <2>2. QED
    BY <2>1 DEF ToldTyped
<1>7. ASSUME NEW k \in Clients
      PROVE  Truthful(k, told[k])'
  <2>1. CASE told'[k] = Untold
    BY <2>1 DEF Truthful, Untold
  <2>2. CASE /\ told'[k] = told[k]
             /\ call.op = "release" => ~(told[k].answer = "won" /\ told[k].item = call.item)
    <3>1. PICK a : a = told[k]
      OBVIOUS
    <3>2. a = Untold \/ a \in [answer : Answers, item : WorkItems]
      BY <3>1 DEF FirestoreInv, ToldTyped
    <3>3. Truthful(k, a)
      BY <3>1, AnswersAreTruthful DEF FirestoreInv
    <3>4. k # c \/ call.op # "claim" \/ a = Untold
      BY <1>2, <3>1 DEF FirestoreInv, ToldTyped
    <3>5. Truthful(k, a)'
      BY <1>1, <1>2, <2>2, <3>1, <3>2, <3>3, <3>4, StaysTruthful DEF FirestoreInv
    <3>6. QED
      BY <2>2, <3>1, <3>5 DEF Truthful
  <2>3. CASE /\ k = c /\ after = Idle
             /\ OwnersMove(c, call) /\ ClaimTakes(c, call) => Truthful(k, told[k])'
    BY <1>1, <2>3
  <2>4. QED
    BY <2>1, <2>2, <2>3
<1>8. ClaimAnswersAreTrue'
  BY <1>7 DEF ClaimAnswersAreTrue, Truthful
<1>9. QED
  BY <1>1, <1>5, <1>6, <1>8 DEF FirestoreInv

LEMMA ReleasedAnswers ==
  ASSUME ToldTyped, NEW i, Released(i)
  PROVE  /\ told' = [k \in Clients |-> told'[k]]
         /\ \A k \in Clients : \/ told'[k] = Untold
                               \/ told'[k] = told[k] /\ ~(told[k].answer = "won" /\ told[k].item = i)
BY DEF Released, ToldTyped

LEMMA ResponseLostStep ==
  ASSUME FirestoreInv, NEW c \in Clients, ResponseLost(c)
  PROVE  FirestoreInv' /\ StoreStep
<1>1. RunningOK(tx[c])
  BY ReadyToLand DEF ResponseLost, FirestoreInv
<1>2. PICK after : after = RunAgain(tx[c])
  OBVIOUS
<1>3. /\ Ready(c) /\ ~Raises(tx[c].call, tx[c].view) /\ Land(c, Intended(c), after)
  BY <1>2 DEF ResponseLost
<1>4. /\ after = Idle \/ RereadingOK(after) \/ RunningOK(after)
      /\ after # Idle => after.call = tx[c].call
      /\ after.phase = "running" => DOMAIN after.view = {}
  BY <1>1, <1>2, RunAgainOK
<1>5. /\ told' = [k \in Clients |-> told'[k]]
      /\ \A k \in Clients :
           \/ told'[k] = Untold
           \/ /\ told'[k] = told[k]
              /\ tx[c].call.op = "release" => ~(told[k].answer = "won" /\ told[k].item = tx[c].call.item)
  <2>1. CASE tx[c].call.op = "release"
    BY <2>1, ReleasedAnswers DEF ResponseLost, FirestoreInv
  <2>2. CASE tx[c].call.op # "release"
    BY <2>2 DEF ResponseLost, FirestoreInv, ToldTyped
  <2>3. QED
    BY <2>1, <2>2
<1>6. QED
  BY <1>3, <1>4, <1>5, AfterLanding

LEMMA CommitStep ==
  ASSUME FirestoreInv, NEW c \in Clients, Commit(c)
  PROVE  FirestoreInv' /\ StoreStep
<1> DEFINE call == tx[c].call
           i == call.item
           v == tx[c].view
<1>1. call \in Calls /\ Coherent(call, v)
  BY ReadyToLand DEF Commit, FirestoreInv
<1>2. Ready(c) /\ ~Raises(call, v) /\ Land(c, Intended(c), Idle)
  BY DEF Commit
<1>3. /\ told' = [k \in Clients |-> told'[k]]
      /\ \A k \in Clients :
           \/ told'[k] = Untold
           \/ /\ told'[k] = told[k]
              /\ call.op = "release" => ~(told[k].answer = "won" /\ told[k].item = i)
           \/ /\ k = c
              /\ told'[k] \in [answer : Answers, item : WorkItems]
              /\ OwnersMove(c, call) /\ ClaimTakes(c, call) => Truthful(k, told[k])'
  <2>1. CASE call.op = "release"
    BY <2>1, ReleasedAnswers DEF Commit, FirestoreInv
  <2>2. CASE call.op \notin {"release", "claim"}
    BY <2>2 DEF Commit, FirestoreInv, ToldTyped
  <2>3. CASE call.op = "claim"
    <3>1. PICK a : a = [answer |-> IF v[WorkDoc(i)] \in {c, Unclaimed} THEN "won" ELSE "refused",
                        item |-> i]
      OBVIOUS
    <3>2. told' = [told EXCEPT ![c] = a]
      BY <2>3, <3>1 DEF Commit, Tell
    <3>3. i \in WorkItems /\ v[WorkDoc(i)] = docs[WorkDoc(i)]
      BY <1>1, <2>3, CallKinds DEF Coherent, Reads, OwnReads
    <3>4. a \in [answer : Answers, item : WorkItems]
      BY <3>1, <3>3 DEF Answers
    <3>5. told' = [k \in Clients |-> told'[k]] /\ told'[c] = a /\ \A k \in Clients \ {c} : told'[k] = told[k]
      BY <3>2 DEF FirestoreInv, ToldTyped
    <3>6. ASSUME OwnersMove(c, call), ClaimTakes(c, call)
          PROVE  /\ a.answer = "won" => docs'[WorkDoc(i)] = c
                 /\ a.answer = "refused" => docs'[WorkDoc(i)] # c
      BY <2>3, <3>1, <3>3, <3>6 DEF OwnersMove, ClaimTakes
    <3>7. a.item = i /\ a.answer \in {"won", "refused"}
      BY <3>1
    <3>8. OwnersMove(c, call) /\ ClaimTakes(c, call) => Truthful(c, told[c])'
      BY <3>5, <3>6, <3>7 DEF Truthful
    <3>9. QED
      BY <2>3, <3>4, <3>5, <3>8
  <2>4. QED
    BY <2>1, <2>2, <2>3
<1>4. Idle.phase # "running"
  BY DEF Idle
<1>5. QED
  BY <1>2, <1>3, <1>4, AfterLanding

-----------------------------------------------------------------------------
(* The theorems *)

LEMMA FirestoreStarts ==
  ASSUME FirestoreInit
  PROVE  FirestoreInv /\ Mirror!StoreInit
<1>1. /\ docs = [d \in DocIds |-> docs[d]]
      /\ docs[Run] = [revision |-> 0, committed |-> NoPlan]
      /\ \A e \in Events : docs[EventDoc(e)] = [stage |-> "unseen", revision |-> 0, attempt |-> 0]
      /\ \A p \in PlanIds : docs[PlanDoc(p)] = [verdict |-> "absent", basis |-> 0, proposal |-> NoProposal]
      /\ \A i \in WorkItems : docs[WorkDoc(i)] = NotCreated
  <2>1. \A x : /\ EventDoc(x)[1] = "events_seen" /\ PlanDoc(x)[1] = "plans" /\ WorkDoc(x)[1] = "work"
    BY DEF EventDoc, PlanDoc, WorkDoc
  <2>2. docs = [d \in DocIds |->
                  CASE d = Run -> [revision |-> 0, committed |-> NoPlan]
                    [] d[1] = "events_seen" -> [stage |-> "unseen", revision |-> 0, attempt |-> 0]
                    [] d[1] = "plans" -> [verdict |-> "absent", basis |-> 0, proposal |-> NoProposal]
                    [] OTHER -> NotCreated]
    BY DEF FirestoreInit
  <2>3. Run[1] = "run"
    BY DEF Run
  <2>4. docs = [d \in DocIds |-> docs[d]] /\ docs[Run] = [revision |-> 0, committed |-> NoPlan]
    BY <2>2, <2>3, DocsDistinct
  <2>5. \A e \in Events : docs[EventDoc(e)] = [stage |-> "unseen", revision |-> 0, attempt |-> 0]
    BY <2>1, <2>2, <2>3, DocsDistinct
  <2>6. \A p \in PlanIds : docs[PlanDoc(p)] = [verdict |-> "absent", basis |-> 0, proposal |-> NoProposal]
    BY <2>1, <2>2, <2>3, DocsDistinct
  <2>7. \A i \in WorkItems : docs[WorkDoc(i)] = NotCreated
    BY <2>1, <2>2, <2>3, DocsDistinct
  <2>8. QED
    BY <2>4, <2>5, <2>6, <2>7
<1>2. silent = {} /\ (\A c \in Clients : tx[c] = Idle /\ told[c] = Untold)
      /\ tx = [c \in Clients |-> tx[c]] /\ told = [c \in Clients |-> told[c]]
  BY DEF FirestoreInit
<1>3. DocsTyped
  BY <1>1, <1>2, LimitsAssumption
     DEF DocsTyped, RunDocs, EventDocs, StoredStages, WorkDocs, Mirror!Plan, Mirror!Verdicts
<1>4. TxTyped /\ ToldTyped
  BY <1>2 DEF TxTyped, ToldTyped
<1>5. ClaimAnswersAreTrue
  BY <1>2 DEF ClaimAnswersAreTrue, Untold
<1>6. Mirror!StoreInit
  <2>1. ASSUME NEW e \in Events
        PROVE  docs[EventDoc(e)].stage = "unseen"
    <3>1. docs[EventDoc(e)] = [stage |-> "unseen", revision |-> 0, attempt |-> 0]
      BY <1>1
    <3>2. QED
      BY <3>1
  <2>2. \A e \in Events : Aged(e) = docs[EventDoc(e)]
    BY <2>1 DEF Aged
  <2>3. \A e \in Events : Aged(e) = Mirror!UnseenEntry
    BY <1>1, <2>2 DEF Mirror!UnseenEntry
  <2>4. QED
    BY <1>1, <2>3 DEF Mirror!StoreInit, Mirror!AbsentPlan
<1>7. QED
  BY <1>3, <1>4, <1>5, <1>6 DEF FirestoreInv

LEMMA FirestoreStep ==
  ASSUME FirestoreInv, [FirestoreNext]_fsVars
  PROVE  FirestoreInv' /\ StoreStep
<1>1. CASE UNCHANGED fsVars
  <2>1. /\ docs' = docs /\ silent' = silent /\ tx' = tx /\ told' = told
    BY <1>1 DEF fsVars
  <2>2. DocsTyped' /\ OnlyForward /\ StoreStep
    BY <2>1, SameDocs DEF FirestoreInv
  <2>3. Calls \subseteq Calls'
    BY <2>2, CallsKept DEF FirestoreInv
  <2>4. \A u : RunningOK(u) \/ RereadingOK(u) => RunningOK(u)' \/ RereadingOK(u)'
    BY <2>1, <2>3, UndisturbedOK DEF FirestoreInv
  <2>5. ASSUME NEW k \in Clients
        PROVE  tx'[k] = Idle \/ RereadingOK(tx[k])' \/ RunningOK(tx[k])'
    <3>1. PICK u : u = tx[k] /\ u = tx'[k]
      BY <2>1
    <3>2. u = Idle \/ RereadingOK(u)' \/ RunningOK(u)'
      BY <2>4, <3>1 DEF FirestoreInv, TxTyped
    <3>3. QED
      BY <3>1, <3>2 DEF RereadingOK, RunningOK
  <2>6. TxTyped' /\ ToldTyped' /\ ClaimAnswersAreTrue'
    BY <2>1, <2>5 DEF FirestoreInv, TxTyped, ToldTyped, ClaimAnswersAreTrue
  <2>7. QED
    BY <2>2, <2>6 DEF FirestoreInv
<1>2. CASE FirestoreNext
  BY <1>2, BeginStep, ReadStep, CommitStep, RaiseStep, AbortStep, RereadStep, ResponseLostStep,
     FallSilentStep
     DEF FirestoreNext, Step
<1>3. QED
  BY <1>1, <1>2

\* Documents and transactions keep their types, and what a client has been told
\* of a contended item is so, at every step of every transaction, aborts, retries
\* and lost answers included. The theorems below rest on it.
THEOREM FirestoreAlways == FirestoreSpec => []FirestoreInv
<1>1. FirestoreInit => FirestoreInv
  BY FirestoreStarts
<1>2. FirestoreInv /\ [FirestoreNext]_fsVars => FirestoreInv'
  BY FirestoreStep
<1>3. QED
  BY <1>1, <1>2, PTL DEF FirestoreSpec

\* The documents and the calls in progress keep their shape and the calls their
\* budget, whatever the clients call (FirestoreStateStore).
THEOREM FirestoreTyped == FirestoreSpec => []FirestoreTypeOK
<1>1. FirestoreInv => FirestoreTypeOK
  <2> SUFFICES ASSUME FirestoreInv PROVE FirestoreTypeOK
    OBVIOUS
  <2>2. \A e \in Events : Aged(e) \in Mirror!LedgerEntry /\ docs[EventDoc(e)].stage # "lapsed"
    BY DEF FirestoreInv, DocsTyped, EventDocs, StoredStages, Aged, Mirror!LedgerEntry, Mirror!Stages,
           Mirror!Pending
  <2>3. Mirror!TypeOK
    BY <2>2 DEF FirestoreInv, DocsTyped, RunDocs, WorkDocs, Mirror!TypeOK
  <2>4. ASSUME NEW c \in Clients
        PROVE  /\ told[c] # Untold => told[c].answer \in Answers /\ told[c].item \in WorkItems
               /\ tx[c].phase \in {"idle", "running", "rereading"}
    BY DEF FirestoreInv, ToldTyped, TxTyped, RunningOK, RereadingOK, Idle
  <2>5. ASSUME NEW c \in Clients, Running(c)
        PROVE  /\ DOMAIN tx[c].view \subseteq Reads(tx[c].call)
               /\ tx[c].tries \in 1..MaxTries /\ tx[c].rounds \in 0..ClaimRetries
    BY <2>5, IsRunning DEF FirestoreInv, RunningOK
  <2>6. QED
    BY <2>2, <2>3, <2>4, <2>5 DEF FirestoreTypeOK, FirestoreInv, DocsTyped
<1>2. QED
  BY <1>1, FirestoreAlways, PTL

\* A claim is told the truth about its item, however often its transaction ran
\* and whatever answers were lost (claim, _resolve_claim_after_exhaustion).
THEOREM ClaimsAreToldTheTruth == FirestoreSpec => []ClaimAnswersAreTrue
<1>1. FirestoreInv => ClaimAnswersAreTrue
  BY DEF FirestoreInv
<1>2. QED
  BY <1>1, FirestoreAlways, PTL

\* Read by read, with conflicts, retries and lost answers, the transactions do
\* what InMemoryStateStore does under its lock: every theorem about StateStore
\* holds of the documents too.
THEOREM FirestoreImplementsTheStore == FirestoreSpec => FirestoreMirrorsTheStore
<1>1. FirestoreInit => Mirror!StoreInit
  BY FirestoreStarts
<1>2. FirestoreInv /\ [FirestoreNext]_fsVars => [Mirror!StoreNext]_(Mirror!storeVars)
  BY FirestoreStep DEF StoreStep
<1>3. QED
  BY <1>1, <1>2, FirestoreAlways, PTL DEF FirestoreSpec, FirestoreMirrorsTheStore, Mirror!StoreSpec

\* The documents as the store they stand for, and what is proved of that store.
Stored ==
  INSTANCE StateStoreProofs WITH
    Actors <- Clients,
    revision <- docs[Run].revision,
    committed <- docs[Run].committed,
    ledger <- [e \in Events |-> Aged(e)],
    plans <- [p \in PlanIds |-> docs[PlanDoc(p)]],
    work <- [i \in WorkItems |-> docs[WorkDoc(i)]]

LEMMA MirroredIsStored == FirestoreMirrorsTheStore => Stored!StoreSpec
<1>1. Mirror!StoreInit => Stored!StoreInit
  BY DEF Mirror!StoreInit, Stored!StoreInit, Mirror!UnseenEntry, Stored!UnseenEntry,
         Mirror!AbsentPlan, Stored!AbsentPlan
<1>2. [Mirror!StoreNext]_(Mirror!storeVars) => [Stored!StoreNext]_(Stored!storeVars)
  BY DEF
      Mirror!AbandonEvent, Stored!AbandonEvent, Mirror!AbsorbEvent, Stored!AbsorbEvent,
      Mirror!AbsorbUnidentified, Stored!AbsorbUnidentified, Mirror!AddPlan, Stored!AddPlan,
      Mirror!BoundToWorld, Stored!BoundToWorld, Mirror!Call, Stored!Call, Mirror!Claim,
      Stored!Claim, Mirror!Claimable, Stored!Claimable, Mirror!CommitPlan, Stored!CommitPlan,
      Mirror!CommitmentCall, Stored!CommitmentCall, Mirror!Committable, Stored!Committable,
      Mirror!CompleteEvent, Stored!CompleteEvent, Mirror!CreateWork, Stored!CreateWork,
      Mirror!Created, Stored!Created, Mirror!CurrentAttempt, Stored!CurrentAttempt,
      Mirror!FenceHolds, Stored!FenceHolds, Mirror!Fences, Stored!Fences, Mirror!Known,
      Stored!Known, Mirror!LeaseLapses, Stored!LeaseLapses, Mirror!MarkVerified,
      Stored!MarkVerified, Mirror!Minted, Stored!Minted, Mirror!Pending, Stored!Pending,
      Mirror!PlanCall, Stored!PlanCall, Mirror!RebindPlan, Stored!RebindPlan,
      Mirror!RejectPlan, Stored!RejectPlan, Mirror!Release, Stored!Release, Mirror!ResumeEvent,
      Stored!ResumeEvent, Mirror!RevokeCommit, Stored!RevokeCommit,
      Mirror!RevokeIfRevisionCurrent, Stored!RevokeIfRevisionCurrent, Mirror!RevokeIfStale,
      Stored!RevokeIfStale, Mirror!StoreNext, Stored!StoreNext, Mirror!Unfenced,
      Stored!Unfenced, Mirror!Withdraw, Stored!Withdraw, Mirror!WorkCall, Stored!WorkCall,
      Mirror!World, Stored!World, Mirror!WorldStandsAt, Stored!WorldStandsAt, Mirror!storeVars,
      Stored!storeVars
<1> QED BY <1>1, <1>2, PTL DEF FirestoreMirrorsTheStore, Mirror!StoreSpec, Stored!StoreSpec

\* Hence what holds of the locked store holds of the documents, whatever the
\* interleaving of transactions, retries and lost answers: an event moves the
\* world once and owns that revision, an application changes hands only after
\* silence or failure, and nothing commits on a verdict from before the last
\* event (firestore_store.py:3, "Mirrors InMemoryStateStore semantics exactly").
THEOREM FirestoreInheritsTheStore ==
  FirestoreSpec => /\ []Stored!EventsOwnTheirRevisions
                   /\ Stored!StoreAbsorbsOnce
                   /\ Stored!HandoverNeedsSilence
                   /\ Stored!NoStaleCommit
<1>1. Stored!StoreSpec => []Stored!EventsOwnTheirRevisions
  BY Stored!StoreOwnership
<1>2. Stored!StoreSpec => Stored!StoreAbsorbsOnce
  BY Stored!StoreImplementsAbsorbOnce
<1>3. Stored!StoreSpec => Stored!HandoverNeedsSilence
  BY Stored!StoreHandover
<1>4. Stored!StoreSpec => Stored!NoStaleCommit
  BY Stored!StoreCommitsFresh
<1> QED BY <1>1, <1>2, <1>3, <1>4, MirroredIsStored, FirestoreImplementsTheStore, PTL

\* Who lands: a client whose call ends or starts over while a document changes.
LEMMA WhoLands ==
  ASSUME FirestoreInv, FirestoreNext, docs' # docs, NEW c \in Clients,
         Ready(c), tx'[c] # tx[c], ~(tx'[c].phase = "running" /\ tx'[c].dirty)
  PROVE  ~Raises(tx[c].call, tx[c].view) /\ Intended(c) # NoWrites
<1>1. PICK k \in Clients :
        /\ Ready(k) /\ ~Raises(tx[k].call, tx[k].view)
        /\ \E after : Land(k, Intended(k), after)
  <2>1. PICK k \in Clients : Commit(k) \/ ResponseLost(k)
    BY DEF FirestoreNext, Step, Begin, Read, Raise, Abort, Reread, RereadFails, FallSilent
  <2>2. CASE Commit(k)
    BY <2>2 DEF Commit
  <2>3. CASE ResponseLost(k)
    BY <2>3 DEF ResponseLost
  <2>4. QED
    BY <2>1, <2>2, <2>3
<1>2. Intended(k) # NoWrites
  BY <1>1, NothingWritten DEF Land, FirestoreInv, DocsTyped
<1>3. CASE k = c
  BY <1>1, <1>2, <1>3
<1>4. CASE k # c
  <2>1. tx'[c] = [tx[c] EXCEPT !.dirty = TRUE, !.view = NoWrites]
    BY <1>1, <1>4 DEF Land
  <2>2. RunningOK(tx[c])
    BY ReadyToLand DEF FirestoreInv
  <2>3. PICK call, view, dirty, tries, rounds :
          tx[c] = [phase |-> "running", call |-> call, view |-> view, dirty |-> dirty,
                   tries |-> tries, rounds |-> rounds]
    BY <2>2 DEF RunningOK
  <2>4. tx'[c].phase = "running" /\ tx'[c].dirty
    BY <2>1, <2>3
  <2>5. QED
    BY <2>4
<1>5. QED
  BY <1>3, <1>4

\* A fenced write lands only while its attempt holds the event (_require_fence,
\* read inside the caller's transaction).
THEOREM FencedWritesAreNeverLate == FirestoreSpec => NoLateEffect
<1> DEFINE InTime(c) ==
      /\ docs' # docs
      /\ Ready(c)
      /\ ~(tx'[c].phase = "running" /\ tx'[c].dirty)
      /\ tx'[c] # tx[c]
      /\ tx[c].call.fence # Unfenced
      => LET f == tx[c].call.fence
         IN /\ docs[EventDoc(f.event)].stage \in Open
            /\ docs[EventDoc(f.event)].attempt = f.attempt
<1>1. ASSUME FirestoreInv, FirestoreNext, NEW c \in Clients
      PROVE  InTime(c)
  <2> SUFFICES ASSUME docs' # docs, Ready(c), ~(tx'[c].phase = "running" /\ tx'[c].dirty),
                      tx'[c] # tx[c], tx[c].call.fence # Unfenced
               PROVE  LET f == tx[c].call.fence
                      IN /\ docs[EventDoc(f.event)].stage \in Open
                         /\ docs[EventDoc(f.event)].attempt = f.attempt
    OBVIOUS
  <2> DEFINE call == tx[c].call
             v == tx[c].view
             f == call.fence
  <2>1. ~Raises(call, v) /\ Intended(c) # NoWrites
    BY <1>1, WhoLands
  <2>2. call \in Calls /\ Coherent(call, v)
    BY <1>1, ReadyToLand DEF FirestoreInv
  <2>3. ~NothingToDo(call, v)
    BY <2>1 DEF Intended, Writes, MarkerWrites, NothingToDo
  <2>4. ~FenceLost(call, v)
    BY <2>1, <2>3 DEF Raises
  <2>5. /\ f.event \in Events /\ f.attempt \in 1..Aged(f.event).attempt
        /\ EventDoc(f.event) \in Reads(call)
        /\ docs[EventDoc(f.event)] \in EventDocs
    BY <1>1, <2>2, FenceKinds DEF Reads, FenceReads, FirestoreInv, DocsTyped
  <2>6. docs[EventDoc(f.event)].stage # "applied" /\ docs[EventDoc(f.event)].attempt = f.attempt
    BY <2>2, <2>4, <2>5 DEF FenceLost, Coherent
  <2>7. docs[EventDoc(f.event)].stage \in Open
    BY <2>5, <2>6 DEF EventDocs, StoredStages, Open
  <2>8. QED
    BY <2>6, <2>7
<1>2. FirestoreInv /\ [FirestoreNext]_fsVars => [\A c \in Clients : InTime(c)]_fsVars
  BY <1>1
<1>3. QED
  BY <1>2, FirestoreAlways, PTL DEF FirestoreSpec, NoLateEffect

-----------------------------------------------------------------------------
(* The trace of one instance *)

OneProcess == \A p, q \in Processes : p = q

Transactions == [plan : Ids \cup {NoId}, kind : Kinds \cup {"none"}, ns : Nat, seen : Nat]
Landed == [ns : Nat, writer : Processes, kind : Kinds, plan : Ids]

TraceTypeOK ==
  /\ clock \in [Processes -> 0..MaxTime]
  /\ last \in [Processes -> Nat]
  /\ minted \in [Threads -> Transactions]
  /\ \A t \in Threads : minted[t] # NoTx => minted[t].plan \in Ids /\ minted[t].kind \in Kinds
  /\ document \in [Ids -> {"absent", "candidate", "verified"}]
  /\ committed \in Ids \cup {NoId}
  /\ landed \in Seq(Landed)

\* No key lies above the high-water mark.
KeysAreBehind ==
  /\ \A t \in Threads : minted[t].ns <= last[ProcessOf[t]]
  /\ \A n \in DOMAIN landed, p \in Processes : landed[n].ns <= last[p]

\* A key lies above those of the events that had landed when it was minted.
SeenIsBelow ==
  \A t \in Threads : minted[t] # NoTx =>
    /\ minted[t].seen <= Len(landed)
    /\ \A n \in DOMAIN landed : n <= minted[t].seen => landed[n].ns < minted[t].ns

CausesAreBelow ==
  \A m, n \in DOMAIN landed :
    m < n /\ WrittenBy(landed[m]) \cap ReadBy(landed[n]) # {} => landed[m].ns < landed[n].ns

Of(i, k) == {n \in EventsOf(i) : landed[n].kind = k}

\* The events that must have happened to a plan before an event of kind k.
Needed(k) ==
  {need \in {"PLAN_PROPOSED", "PLAN_VERIFIED"} :
     IF need = "PLAN_PROPOSED" THEN k # need ELSE k \in {"PLAN_COMMITTED", "COMMIT_REVOKED"}}

\* What event x needs is on the trace, under a smaller key.
Founded(x) == \A need \in Needed(x.kind) : \E m \in Of(x.plan, need) : landed[m].ns < x.ns

EventsAreFounded ==
  /\ \A n \in DOMAIN landed : Founded(landed[n])
  /\ \A t \in Threads : minted[t] # NoTx => Founded(minted[t])

\* What the documents say has its event.
OnRecord ==
  \A i \in Ids :
    /\ document[i] # "absent" \/ committed = i => Of(i, "PLAN_PROPOSED") # {}
    /\ document[i] = "verified" \/ committed = i => Of(i, "PLAN_VERIFIED") # {}

\* Of the events of a kind one has the smallest key.
ThereIsAFirst ==
  \A i \in Ids, k \in Kinds : Of(i, k) # {} =>
    \E n \in Of(i, k) : \A m \in Of(i, k) : landed[n].ns <= landed[m].ns

TraceInv ==
  /\ TraceTypeOK /\ KeysAreBehind /\ SeenIsBelow
  /\ CausesAreBelow /\ EventsAreFounded /\ OnRecord /\ ThereIsAFirst

-----------------------------------------------------------------------------
LEMMA NoTxIsNone == NoTx \in Transactions /\ NoTx.ns = 0 /\ NoTx.plan \notin Ids
BY TraceAssumption DEF NoTx, Transactions

LEMMA TraceOpens == TraceInit => TraceInv
<1> SUFFICES ASSUME TraceInit PROVE TraceInv
  OBVIOUS
<1>1. /\ landed = <<>> /\ DOMAIN landed = {} /\ \A i, k : Of(i, k) = {}
      /\ \A t \in Threads : minted[t] = NoTx
      /\ \A i \in Ids : document[i] = "absent" /\ committed # i
  BY TraceAssumption DEF TraceInit, EventsOf, Of
<1>2. TraceTypeOK
  BY <1>1, NoTxIsNone DEF TraceInit, TraceTypeOK
<1>3. KeysAreBehind
  BY <1>1, NoTxIsNone, TraceAssumption DEF TraceInit, KeysAreBehind
<1>4. SeenIsBelow /\ CausesAreBelow /\ EventsAreFounded /\ OnRecord /\ ThereIsAFirst
  BY <1>1 DEF SeenIsBelow, CausesAreBelow, EventsAreFounded, OnRecord, ThereIsAFirst
<1> QED BY <1>2, <1>3, <1>4 DEF TraceInv

LEMMA RecordsAreTyped ==
  ASSUME TraceTypeOK
  PROVE  /\ DOMAIN landed = 1..Len(landed) /\ Len(landed) \in Nat
         /\ \A n \in DOMAIN landed :
              /\ landed[n] \in Landed /\ landed[n].ns \in Nat
              /\ landed[n].writer \in Processes /\ landed[n].plan \in Ids /\ landed[n].kind \in Kinds
         /\ \A t \in Threads :
              /\ minted[t] \in Transactions /\ minted[t].ns \in Nat /\ minted[t].seen \in Nat
              /\ ProcessOf[t] \in Processes
         /\ \A p \in Processes : last[p] \in Nat
<1>1. ASSUME NEW n \in DOMAIN landed PROVE landed[n] \in Landed
  <2>1. landed \in Seq(Landed) /\ n \in 1..Len(landed)
    BY DEF TraceTypeOK
  <2> QED BY <2>1
<1>2. ASSUME NEW n \in DOMAIN landed
      PROVE  /\ landed[n].ns \in Nat /\ landed[n].writer \in Processes
             /\ landed[n].plan \in Ids /\ landed[n].kind \in Kinds
  BY <1>1 DEF Landed
<1>3. ASSUME NEW t \in Threads
      PROVE  /\ minted[t] \in Transactions /\ minted[t].ns \in Nat /\ minted[t].seen \in Nat
             /\ ProcessOf[t] \in Processes
  BY TraceAssumption DEF TraceTypeOK, Transactions
<1>4. \A p \in Processes : last[p] \in Nat
  BY DEF TraceTypeOK
<1>5. DOMAIN landed = 1..Len(landed) /\ Len(landed) \in Nat
  BY DEF TraceTypeOK
<1> QED BY <1>1, <1>2, <1>3, <1>4, <1>5

\* Nothing lands: what is said of the landed events and the documents stays.
LEMMA NothingLands ==
  ASSUME TraceInv, UNCHANGED <<document, committed, landed>>
  PROVE  /\ CausesAreBelow' /\ OnRecord' /\ ThereIsAFirst'
         /\ \A i, k : Of(i, k)' = Of(i, k)
         /\ \A x : Founded(x) => Founded(x)'
<1>1. \A i, k : Of(i, k)' = Of(i, k)
  BY DEF Of, EventsOf
<1>2. \A x : Founded(x) => Founded(x)'
  BY <1>1 DEF Founded
<1>3. CausesAreBelow'
  BY DEF TraceInv, CausesAreBelow
<1> QED BY <1>1, <1>2, <1>3 DEF TraceInv, OnRecord, ThereIsAFirst

\* The body of a transaction mints a key above all others.
LEMMA BodyKeeps ==
  ASSUME TraceInv, OneProcess, NEW t \in Threads, NEW i \in Ids, NEW k \in Kinds, Body(t, i, k)
  PROVE  TraceInv'
<1> DEFINE p == ProcessOf[t]
           ns == Monotonic(p)
           x == [plan |-> i, kind |-> k, ns |-> ns, seen |-> Len(landed)]
<1>0. TraceTypeOK /\ KeysAreBehind /\ SeenIsBelow /\ EventsAreFounded /\ OnRecord /\ p \in Processes
  BY TraceAssumption DEF TraceInv
<1>1. ns \in Nat /\ ns > last[p] /\ last[p] \in Nat
  <2>1. last[p] \in Nat /\ clock[p] \in 0..MaxTime
    BY <1>0 DEF TraceTypeOK
  <2>2. clock[p] \in Nat
    BY <2>1, TraceAssumption
  <2> QED BY <2>1, <2>2 DEF Monotonic
<1>2. /\ Permits(x) /\ last' = [last EXCEPT ![p] = ns] /\ minted' = [minted EXCEPT ![t] = x]
      /\ UNCHANGED <<clock, document, committed, landed>>
  BY DEF Body
<1>3. Len(landed) \in Nat /\ DOMAIN landed = 1..Len(landed)
  BY <1>0, RecordsAreTyped
<1> HIDE DEF ns
<1>4. x \in Transactions /\ x # NoTx /\ x.plan = i /\ x.kind = k /\ x.ns = ns /\ x.seen = Len(landed)
  BY <1>1, <1>3, TraceAssumption DEF Transactions, NoTx
<1>5. /\ k \in {"PLAN_VERIFIED", "VERIFY_REFUSED_STALE", "PLAN_REJECTED"} => document[i] # "absent"
      /\ k = "PLAN_COMMITTED" => document[i] = "verified"
      /\ k = "COMMIT_REVOKED" => committed = i
  BY <1>2, <1>4 DEF Permits
<1> HIDE DEF x
<1>6. TraceTypeOK'
  BY <1>0, <1>1, <1>2, <1>4 DEF TraceTypeOK
<1>7. /\ \A q \in Processes : last'[q] = ns /\ last[q] < ns
      /\ \A n \in DOMAIN landed : landed[n].ns < ns
  <2>1. \A q \in Processes : last'[q] = ns /\ last[q] < ns
    BY <1>0, <1>1, <1>2 DEF OneProcess, TraceTypeOK
  <2>2. ASSUME NEW n \in DOMAIN landed PROVE landed[n].ns < ns
    <3>1. landed[n].ns \in Nat /\ landed[n].ns <= last[p]
      BY <1>0, RecordsAreTyped DEF KeysAreBehind
    <3> QED BY <1>1, <3>1
  <2> QED BY <2>1, <2>2
<1>8. \A u \in Threads : minted'[u] = IF u = t THEN x ELSE minted[u]
  BY <1>0, <1>2 DEF TraceTypeOK
<1>9. KeysAreBehind'
  <2>1. ASSUME NEW u \in Threads PROVE minted'[u].ns <= last'[ProcessOf[u]]
    <3>1. ProcessOf[u] \in Processes /\ minted[u].ns \in Nat /\ minted[u].ns <= last[ProcessOf[u]]
      BY <1>0, TraceAssumption DEF TraceTypeOK, Transactions, KeysAreBehind
    <3>2. last[ProcessOf[u]] \in Nat
      BY <1>0, <3>1 DEF TraceTypeOK
    <3> QED BY <1>1, <1>4, <1>7, <1>8, <3>1, <3>2
  <2>2. ASSUME NEW n \in DOMAIN landed, NEW q \in Processes PROVE landed'[n].ns <= last'[q]
    <3>1. landed[n].ns \in Nat /\ landed[n].ns < ns
      BY <1>0, <1>7, RecordsAreTyped
    <3> QED BY <1>1, <1>2, <1>7, <3>1
  <2> QED BY <1>2, <2>1, <2>2 DEF KeysAreBehind
<1>10. SeenIsBelow'
  <2>1. ASSUME NEW u \in Threads, minted'[u] # NoTx
        PROVE  /\ minted'[u].seen <= Len(landed)
               /\ \A n \in DOMAIN landed : n <= minted'[u].seen => landed[n].ns < minted'[u].ns
    BY <1>0, <1>3, <1>4, <1>7, <1>8, <2>1 DEF SeenIsBelow
  <2> QED BY <1>2, <2>1 DEF SeenIsBelow
<1>11. Founded(x)
  <2>1. k # "PLAN_PROPOSED" => Of(i, "PLAN_PROPOSED") # {}
    BY <1>0, <1>5 DEF OnRecord, Kinds
  <2>2. k \in {"PLAN_COMMITTED", "COMMIT_REVOKED"} => Of(i, "PLAN_VERIFIED") # {}
    BY <1>0, <1>5 DEF OnRecord
  <2>3. \A need : \A m \in Of(i, need) : m \in DOMAIN landed
    BY DEF Of, EventsOf
  <2> QED BY <1>4, <1>7, <2>1, <2>2, <2>3 DEF Founded, Needed
<1>12. EventsAreFounded'
  <2>1. \A u \in Threads : minted'[u] # NoTx => Founded(minted'[u])
    BY <1>0, <1>8, <1>11 DEF EventsAreFounded
  <2>2. \A y : Founded(y) => (\A need \in Needed(y.kind) : \E m \in Of(y.plan, need)' : landed'[m].ns < y.ns)
    BY <1>2, NothingLands DEF Founded
  <2> QED BY <1>0, <1>2, <2>1, <2>2 DEF EventsAreFounded, Founded
<1> QED BY <1>2, <1>6, <1>9, <1>10, <1>12, NothingLands DEF TraceInv

\* Nothing lands and nothing is minted: the clock moves, or an operation is given up.
LEMMA IdleKeeps ==
  ASSUME TraceInv, UNCHANGED <<last, document, committed, landed>>,
         clock' \in [Processes -> 0..MaxTime], minted' \in [Threads -> Transactions],
         \A t \in Threads : minted'[t] = NoTx \/ minted'[t] = minted[t]
  PROVE  TraceInv'
<1>0. TraceTypeOK /\ KeysAreBehind /\ SeenIsBelow /\ EventsAreFounded
  BY DEF TraceInv
<1>1. TraceTypeOK'
  BY <1>0 DEF TraceTypeOK
<1>2. KeysAreBehind'
  <2>1. ASSUME NEW t \in Threads PROVE minted'[t].ns <= last[ProcessOf[t]]
    <3>1. last[ProcessOf[t]] \in Nat /\ minted[t].ns <= last[ProcessOf[t]]
      BY <1>0, RecordsAreTyped DEF KeysAreBehind
    <3> QED BY <3>1, NoTxIsNone
  <2> QED BY <1>0, <2>1 DEF KeysAreBehind
<1>3. SeenIsBelow'
  BY <1>0 DEF SeenIsBelow
<1>4. EventsAreFounded'
  <2>1. \A i, k : Of(i, k)' = Of(i, k)
    BY NothingLands
  <2> QED BY <1>0, <2>1 DEF EventsAreFounded, Founded
<1> QED BY <1>1, <1>2, <1>3, <1>4, NothingLands DEF TraceInv

\* An event lands: what its transaction read has stood since its key was minted.
LEMMA LandKeeps ==
  ASSUME TraceInv, OneProcess, NEW t \in Threads, Commits(t)
  PROVE  TraceInv'
<1>2. PICK i \in Ids, k \in Kinds : minted[t].plan = i /\ minted[t].kind = k
  BY DEF TraceInv, TraceTypeOK, Commits
<1> DEFINE N == Len(landed) + 1
           x == minted[t]
           e == [ns |-> x.ns, writer |-> ProcessOf[t], kind |-> k, plan |-> i]
<1>0. /\ TraceTypeOK /\ KeysAreBehind /\ SeenIsBelow /\ CausesAreBelow
      /\ EventsAreFounded /\ OnRecord /\ ThereIsAFirst
  BY DEF TraceInv
<1>1. /\ x # NoTx /\ ~Overtaken(t)
      /\ landed' = Append(landed, e)
      /\ document' = IF i \in WrittenBy(x) THEN [document EXCEPT ![i] = Outcome(x)] ELSE document
      /\ committed' = CASE k = "PLAN_COMMITTED" -> i
                        [] k = "COMMIT_REVOKED" -> NoId
                        [] OTHER -> committed
      /\ minted' = [minted EXCEPT ![t] = NoTx]
      /\ UNCHANGED <<clock, last>>
  BY <1>2 DEF Commits
<1>3. Founded(x)
  BY <1>0, <1>1 DEF EventsAreFounded
<1>4. e \in Landed /\ e.ns = x.ns /\ e.kind = k /\ e.plan = i /\ e.ns \in Nat
  BY <1>0, <1>2, RecordsAreTyped DEF Landed
<1>5. landed \in Seq(Landed) /\ Len(landed) \in Nat /\ DOMAIN landed = 1..Len(landed)
  BY <1>0 DEF TraceTypeOK
<1>50. ReadBy(e) = ReadBy(x)
  BY <1>2, <1>4 DEF ReadBy
<1> HIDE DEF e
<1>6. /\ landed' \in Seq(Landed) /\ DOMAIN landed' = 1..N /\ Len(landed') = N
      /\ \A n \in 1..Len(landed) : landed'[n] = landed[n]
      /\ landed'[N] = e
  BY <1>1, <1>4, <1>5
<1>7. \A n \in 1..N : n = N \/ (n \in 1..Len(landed) /\ n < N)
  BY <1>5
<1>8. /\ \A j, m : Of(j, m) \subseteq Of(j, m)' /\ Of(j, m) \subseteq 1..Len(landed)
      /\ \A j, m : ~(j = i /\ m = k) => Of(j, m)' = Of(j, m)
      /\ Of(i, k)' = Of(i, k) \cup {N}
  <2>1. \A j, m : Of(j, m)' = {n \in 1..N : landed'[n].plan = j /\ landed'[n].kind = m}
    BY <1>6 DEF Of, EventsOf
  <2>2. \A j, m : Of(j, m) = {n \in 1..Len(landed) : landed[n].plan = j /\ landed[n].kind = m}
    BY <1>5 DEF Of, EventsOf
  <2>3. N \in 1..N /\ \A n \in 1..Len(landed) : n \in 1..N
    BY <1>5
  <2> QED BY <1>4, <1>6, <1>7, <2>1, <2>2, <2>3
<1>9. \A u \in Threads : minted'[u] = NoTx \/ (u # t /\ minted'[u] = minted[u])
  BY <1>0, <1>1 DEF TraceTypeOK
<1>10. TraceTypeOK'
  <2>1. document' \in [Ids -> {"absent", "candidate", "verified"}]
    BY <1>0, <1>1, <1>2 DEF TraceTypeOK, Outcome
  <2>2. committed' \in Ids \cup {NoId}
    BY <1>0, <1>1, <1>2 DEF TraceTypeOK
  <2>3. minted' \in [Threads -> Transactions]
    BY <1>0, <1>1, NoTxIsNone DEF TraceTypeOK
  <2>4. \A u \in Threads : minted'[u] # NoTx => minted'[u].plan \in Ids /\ minted'[u].kind \in Kinds
    BY <1>0, <1>9 DEF TraceTypeOK
  <2> QED BY <1>0, <1>1, <1>6, <2>1, <2>2, <2>3, <2>4 DEF TraceTypeOK
<1>11. KeysAreBehind'
  <2>1. ASSUME NEW u \in Threads PROVE minted'[u].ns <= last'[ProcessOf[u]]
    BY <1>0, <1>1, <1>9, NoTxIsNone, RecordsAreTyped DEF KeysAreBehind
  <2>2. ASSUME NEW n \in 1..N, NEW q \in Processes PROVE landed'[n].ns <= last'[q]
    <3>1. CASE n = N
      <4>1. ProcessOf[t] \in Processes /\ q = ProcessOf[t]
        BY <1>0, RecordsAreTyped DEF OneProcess
      <4> QED BY <1>0, <1>1, <1>4, <1>6, <3>1, <4>1 DEF KeysAreBehind
    <3>2. CASE n # N
      <4>1. n \in 1..Len(landed)
        BY <1>7, <3>2
      <4> QED BY <1>0, <1>1, <1>5, <1>6, <4>1 DEF KeysAreBehind
    <3> QED BY <3>1, <3>2
  <2> QED BY <1>6, <2>1, <2>2 DEF KeysAreBehind
<1>12. SeenIsBelow'
  <2>1. ASSUME NEW u \in Threads, minted'[u] # NoTx
        PROVE  /\ minted'[u].seen <= N
               /\ \A n \in 1..N : n <= minted'[u].seen => landed'[n].ns < minted'[u].ns
    <3>1. minted'[u] = minted[u] /\ minted[u].seen \in Nat /\ minted[u].seen <= Len(landed)
      BY <1>0, <1>9, <2>1, RecordsAreTyped DEF SeenIsBelow
    <3>2. ~(N <= minted[u].seen)
      BY <1>5, <3>1
    <3> QED BY <1>0, <1>5, <1>6, <1>7, <2>1, <3>1, <3>2 DEF SeenIsBelow
  <2> QED BY <1>6, <2>1 DEF SeenIsBelow
<1>13. CausesAreBelow'
  <2>1. ASSUME NEW m \in 1..N, NEW n \in 1..N, m < n,
               WrittenBy(landed'[m]) \cap ReadBy(landed'[n]) # {}
        PROVE  landed'[m].ns < landed'[n].ns
    <3>1. m \in 1..Len(landed) /\ landed'[m] = landed[m]
      BY <1>5, <1>6, <1>7, <2>1
    <3>2. CASE n = N
      <4>1. WrittenBy(landed[m]) \cap ReadBy(x) # {}
        BY <1>6, <1>50, <2>1, <3>1, <3>2
      <4>2. ~(x.seen < m)
        BY <1>1, <1>5, <3>1, <4>1 DEF Overtaken
      <4>3. m <= x.seen
        BY <1>0, <3>1, <4>2, RecordsAreTyped
      <4>4. landed[m].ns < x.ns
        BY <1>0, <1>1, <1>5, <3>1, <4>3 DEF SeenIsBelow
      <4> QED BY <1>4, <1>6, <3>1, <3>2, <4>4
    <3>3. CASE n # N
      BY <1>0, <1>5, <1>6, <1>7, <2>1, <3>1, <3>3 DEF CausesAreBelow
    <3> QED BY <3>2, <3>3
  <2> QED BY <1>6, <2>1 DEF CausesAreBelow
<1>14. EventsAreFounded'
  <2>1. ASSUME NEW y, Founded(y) PROVE \A need \in Needed(y.kind) :
               \E m \in Of(y.plan, need)' : landed'[m].ns < y.ns
    BY <1>6, <1>8, <2>1 DEF Founded
  <2>2. ASSUME NEW n \in 1..N PROVE Founded(landed'[n])
    <3>1. CASE n = N
      BY <1>2, <1>3, <1>4, <1>6, <3>1 DEF Founded
    <3>2. CASE n # N
      BY <1>0, <1>5, <1>6, <1>7, <3>2 DEF EventsAreFounded
    <3> QED BY <3>1, <3>2
  <2>3. \A u \in Threads : minted'[u] # NoTx => Founded(minted'[u])
    BY <1>0, <1>9 DEF EventsAreFounded
  <2> QED BY <1>6, <2>1, <2>2, <2>3 DEF EventsAreFounded, Founded
<1>15. OnRecord'
  <2>1. k # "PLAN_PROPOSED" => Of(i, "PLAN_PROPOSED") # {}
    BY <1>2, <1>3 DEF Founded, Needed
  <2>2. k \in {"PLAN_COMMITTED", "COMMIT_REVOKED"} => Of(i, "PLAN_VERIFIED") # {}
    BY <1>2, <1>3 DEF Founded, Needed
  <2>3. Of(i, "PLAN_PROPOSED")' # {}
    BY <1>8, <2>1
  <2>4. k \in {"PLAN_COMMITTED", "PLAN_VERIFIED"} => Of(i, "PLAN_VERIFIED")' # {}
    BY <1>8, <2>2
  <2>5. /\ \A j \in Ids : j # i => document'[j] = document[j]
        /\ document'[i] = "verified" => k = "PLAN_VERIFIED" \/ document[i] = "verified"
    BY <1>0, <1>1, <1>2 DEF TraceTypeOK, Outcome
  <2>6. \A j \in Ids : committed' = j => (j = i /\ k = "PLAN_COMMITTED") \/ committed = j
    BY <1>1, TraceAssumption
  <2>7. \A j, m : Of(j, m) # {} => Of(j, m)' # {}
    BY <1>8
  <2>8. ASSUME NEW j \in Ids, document'[j] # "absent" \/ committed' = j
        PROVE  Of(j, "PLAN_PROPOSED")' # {}
    BY <1>0, <2>3, <2>5, <2>6, <2>7, <2>8 DEF OnRecord
  <2>9. ASSUME NEW j \in Ids, document'[j] = "verified" \/ committed' = j
        PROVE  Of(j, "PLAN_VERIFIED")' # {}
    BY <1>0, <2>4, <2>5, <2>6, <2>7, <2>9 DEF OnRecord
  <2> QED BY <2>8, <2>9 DEF OnRecord
<1>16. ThereIsAFirst'
  <2>1. SUFFICES ASSUME NEW j \in Ids, NEW m \in Kinds, Of(j, m)' # {}
                 PROVE  \E n \in Of(j, m)' : \A l \in Of(j, m)' : landed'[n].ns <= landed'[l].ns
    BY DEF ThereIsAFirst
  <2>2. \A l \in Of(j, m) : landed'[l] = landed[l] /\ landed[l].ns \in Nat
    BY <1>0, <1>5, <1>6, <1>8, RecordsAreTyped
  <2>3. CASE ~(j = i /\ m = k)
    <3>1. Of(j, m)' = Of(j, m)
      BY <1>8, <2>3
    <3> QED BY <1>0, <2>1, <2>2, <3>1 DEF ThereIsAFirst
  <2>4. CASE j = i /\ m = k /\ Of(i, k) = {}
    <3>1. Of(i, k)' = {N} /\ landed'[N].ns <= landed'[N].ns
      BY <1>4, <1>6, <1>8, <2>4
    <3> QED BY <2>4, <3>1
  <2>5. CASE j = i /\ m = k /\ Of(i, k) # {}
    <3>1. PICK n \in Of(i, k) : \A l \in Of(i, k) : landed[n].ns <= landed[l].ns
      BY <1>0, <1>2, <2>5 DEF ThereIsAFirst
    <3>2. landed'[N].ns = x.ns /\ x.ns \in Nat
      BY <1>4, <1>6
    <3>3. CASE landed[n].ns <= x.ns
      BY <1>8, <2>2, <2>5, <3>1, <3>2, <3>3
    <3>4. CASE ~(landed[n].ns <= x.ns)
      <4>1. \A l \in Of(i, k)' : landed'[N].ns <= landed'[l].ns
        BY <1>8, <2>2, <2>5, <3>1, <3>2, <3>4
      <4> QED BY <1>8, <2>5, <4>1
    <3> QED BY <3>3, <3>4
  <2> QED BY <2>3, <2>4, <2>5
<1> QED BY <1>10, <1>11, <1>12, <1>13, <1>14, <1>15, <1>16 DEF TraceInv

\* Every step keeps the invariant when one process writes the trace.
LEMMA TraceInvariant ==
  ASSUME OneProcess
  PROVE  TraceSpec => []TraceInv
<1>1. TraceInit => TraceInv
  BY TraceOpens
<1>2. ASSUME TraceInv, [TraceNext]_vars PROVE TraceInv'
  <2>0. clock \in [Processes -> 0..MaxTime] /\ minted \in [Threads -> Transactions]
    BY <1>2 DEF TraceInv, TraceTypeOK
  <2>1. ASSUME NEW p \in Processes, ClockMoves(p) PROVE TraceInv'
    <3>1. clock' \in [Processes -> 0..MaxTime]
      BY <2>0, <2>1 DEF ClockMoves
    <3> QED BY <1>2, <2>0, <2>1, <3>1, IdleKeeps DEF ClockMoves
  <2>2. ASSUME NEW t \in Threads, Commits(t) PROVE TraceInv'
    BY <1>2, <2>2, LandKeeps
  <2>3. ASSUME NEW t \in Threads, MintAgain(t) PROVE TraceInv'
    <3>1. PICK i \in Ids, k \in Kinds : minted[t].plan = i /\ minted[t].kind = k
      BY <1>2, <2>3 DEF TraceInv, TraceTypeOK, MintAgain, Overtaken
    <3>2. Body(t, i, k)
      BY <2>3, <3>1 DEF MintAgain
    <3> QED BY <1>2, <3>2, BodyKeeps
  <2>4. ASSUME NEW t \in Threads, GiveUp(t) PROVE TraceInv'
    <3>1. minted' = [minted EXCEPT ![t] = NoTx] /\ UNCHANGED <<clock, last, document, committed, landed>>
      BY <2>4 DEF GiveUp
    <3>2. /\ minted' \in [Threads -> Transactions]
          /\ \A u \in Threads : minted'[u] = NoTx \/ minted'[u] = minted[u]
      BY <2>0, <3>1, NoTxIsNone
    <3> QED BY <1>2, <2>0, <3>1, <3>2, IdleKeeps
  <2>5. ASSUME NEW t \in Threads, NEW i \in Ids, NEW k \in Kinds, Mint(t, i, k)
        PROVE  TraceInv'
    BY <1>2, <2>5, BodyKeeps DEF Mint
  <2>6. CASE UNCHANGED vars
    BY <1>2, <2>0, <2>6, IdleKeeps DEF vars
  <2> QED BY <1>2, <2>1, <2>2, <2>3, <2>4, <2>5, <2>6 DEF TraceNext
<1> QED BY <1>1, <1>2, PTL DEF TraceSpec

-----------------------------------------------------------------------------
LEMMA ShownCounts ==
  ASSUME TraceTypeOK, NEW n \in DOMAIN landed
  PROVE  /\ IsFiniteSet({m \in DOMAIN landed : Before(landed[m], landed[n])})
         /\ Shown(n) \in Nat /\ Shown(n) >= 1
<1> DEFINE B == {m \in DOMAIN landed : Before(landed[m], landed[n])}
<1>1. DOMAIN landed = 1..Len(landed) /\ Len(landed) \in Nat
  BY DEF TraceTypeOK
<1>2. B \in SUBSET (1..Len(landed))
  BY <1>1
<1>3. IsFiniteSet(1..Len(landed))
  BY <1>1, FS_Interval
<1>4. IsFiniteSet(B)
  BY <1>2, <1>3, FS_Subset
<1>5. Cardinality(B) \in Nat
  BY <1>4, FS_CardinalityType
<1> QED BY <1>4, <1>5 DEF Shown

\* A larger key is displayed later.
LEMMA LargerKeyIsLater ==
  ASSUME TraceTypeOK, NEW m \in DOMAIN landed, NEW n \in DOMAIN landed, landed[m].ns < landed[n].ns
  PROVE  Shown(m) < Shown(n)
<1> DEFINE A == {l \in DOMAIN landed : Before(landed[l], landed[m])}
           B == {l \in DOMAIN landed : Before(landed[l], landed[n])}
<1>1. A \in SUBSET B /\ m \in B /\ m \notin A
  <2>1. ASSUME NEW l \in A PROVE l \in B
    BY RecordsAreTyped DEF Before
  <2>2. landed[m].writer \in Nat
    BY RecordsAreTyped, TraceAssumption
  <2>3. ~Before(landed[m], landed[m])
    BY <2>2, RecordsAreTyped DEF Before
  <2>4. Before(landed[m], landed[n])
    BY DEF Before
  <2> QED BY <2>1, <2>3, <2>4
<1>2. IsFiniteSet(B) /\ IsFiniteSet(A)
  BY ShownCounts
<1>3. Cardinality(A) < Cardinality(B)
  <2>1. Cardinality(A) <= Cardinality(B) /\ (Cardinality(A) = Cardinality(B) => A = B)
    BY <1>1, <1>2, FS_Subset
  <2>2. Cardinality(A) \in Nat /\ Cardinality(B) \in Nat
    BY <1>2, FS_CardinalityType
  <2> QED BY <1>1, <2>1, <2>2
<1>4. Cardinality(A) \in Nat /\ Cardinality(B) \in Nat
  BY <1>2, FS_CardinalityType
<1> QED BY <1>3, <1>4 DEF Shown

\* Events of one writer under one key, if there were any, share their place.
LEMMA SameKeySamePlace ==
  ASSUME TraceTypeOK, OneProcess, NEW m \in DOMAIN landed, NEW n \in DOMAIN landed,
         landed[m].ns = landed[n].ns
  PROVE  Shown(m) = Shown(n)
<1>1. landed[m].writer = landed[n].writer
  BY RecordsAreTyped DEF OneProcess
<1>2. \A l \in DOMAIN landed : Before(landed[l], landed[m]) <=> Before(landed[l], landed[n])
  BY <1>1 DEF Before
<1>3. {l \in DOMAIN landed : Before(landed[l], landed[m])} =
      {l \in DOMAIN landed : Before(landed[l], landed[n])}
  BY <1>2
<1> QED BY <1>3 DEF Shown

LEMMA CausesAreDisplayed == TraceInv => CausesAreShownFirst
BY LargerKeyIsLater DEF TraceInv, CausesAreBelow, CausesAreShownFirst

\* The event of a kind with the smallest key is the kind's first on display.
LEMMA FirstIsShownFirst ==
  ASSUME TraceInv, OneProcess, NEW i \in Ids, NEW k \in Kinds, NEW f \in Of(i, k),
         \A n \in Of(i, k) : landed[f].ns <= landed[n].ns
  PROVE  FirstShown(i, k) = Shown(f) /\ Shown(f) \in Nat /\ Shown(f) >= 1
<1> DEFINE at == {Shown(n) : n \in Of(i, k)}
<1>1. \A n \in Of(i, k) : n \in EventsOf(i) /\ n \in DOMAIN landed /\ landed[n].ns \in Nat
  BY RecordsAreTyped DEF TraceInv, Of, EventsOf
<1>2. \A n \in Of(i, k) : Shown(n) \in Nat /\ Shown(n) >= 1
  BY <1>1, ShownCounts DEF TraceInv
<1>3. \A n \in Of(i, k) : Shown(f) <= Shown(n)
  <2>1. ASSUME NEW n \in Of(i, k) PROVE Shown(f) <= Shown(n)
    <3>1. CASE landed[n].ns = landed[f].ns
      BY <1>1, <1>2, <3>1, SameKeySamePlace DEF TraceInv
    <3>2. CASE landed[f].ns < landed[n].ns
      BY <1>1, <1>2, <3>2, LargerKeyIsLater DEF TraceInv
    <3> QED BY <1>1, <3>1, <3>2
  <2> QED BY <2>1
<1>4. FirstShown(i, k) = IF at = {} THEN 0 ELSE CHOOSE s \in at : \A r \in at : s <= r
  BY DEF FirstShown, Of
<1>5. Shown(f) \in at /\ at \subseteq Nat /\ \A r \in at : Shown(f) <= r
  BY <1>2, <1>3
<1> HIDE DEF at
<1>6. ASSUME NEW s \in at, \A r \in at : s <= r PROVE s = Shown(f)
  <2>1. s <= Shown(f) /\ Shown(f) <= s
    BY <1>5, <1>6
  <2>2. s \in Nat /\ Shown(f) \in Nat
    BY <1>5
  <2> HIDE DEF at
  <2> DEFINE S == Shown(f)
  <2>3. s <= S /\ S <= s /\ s \in Nat /\ S \in Nat
    BY <2>1, <2>2
  <2> HIDE DEF S
  <2>4. s = S
    BY <2>3
  <2> QED BY <2>4 DEF S
<1>7. (CHOOSE s \in at : \A r \in at : s <= r) = Shown(f)
  <2>1. \E s \in at : \A r \in at : s <= r
    BY <1>5
  <2>2. /\ (CHOOSE s \in at : \A r \in at : s <= r) \in at
        /\ \A q \in at : (CHOOSE s \in at : \A r \in at : s <= r) <= q
    BY <2>1, Zenon
  <2> QED BY <1>6, <2>2
<1> QED BY <1>2, <1>4, <1>5, <1>7

LEMMA NeverUnfounded ==
  ASSUME TraceInv, OneProcess, NEW i \in Ids, NEW k \in Kinds, NEW need \in Kinds,
         need \in Needed(k)
  PROVE  ~Unfounded(i, k, need)
<1>1. CASE Of(i, k) = {}
  <2>1. FirstShown(i, k) = 0
    BY <1>1 DEF FirstShown, Of
  <2> QED BY <2>1 DEF Unfounded
<1>2. CASE Of(i, k) # {}
  <2>1. PICK f \in Of(i, k) : \A n \in Of(i, k) : landed[f].ns <= landed[n].ns
    BY <1>2 DEF TraceInv, ThereIsAFirst
  <2>2. f \in DOMAIN landed /\ landed[f].plan = i /\ landed[f].kind = k
    BY DEF Of, EventsOf
  <2>3. PICK m \in Of(i, need) : landed[m].ns < landed[f].ns
    BY <2>2 DEF TraceInv, EventsAreFounded, Founded
  <2>4. PICK g \in Of(i, need) : \A n \in Of(i, need) : landed[g].ns <= landed[n].ns
    BY <2>3 DEF TraceInv, ThereIsAFirst
  <2>5. m \in DOMAIN landed /\ g \in DOMAIN landed
    BY DEF Of, EventsOf
  <2>6. landed[g].ns < landed[f].ns
    BY <2>2, <2>3, <2>4, <2>5, RecordsAreTyped DEF TraceInv
  <2>7. Shown(g) < Shown(f)
    BY <2>2, <2>5, <2>6, LargerKeyIsLater DEF TraceInv
  <2>8. /\ FirstShown(i, k) = Shown(f) /\ Shown(f) \in Nat
        /\ FirstShown(i, need) = Shown(g) /\ Shown(g) \in Nat /\ Shown(g) >= 1
    BY <2>1, <2>4, FirstIsShownFirst
  <2> QED BY <2>7, <2>8 DEF Unfounded
<1> QED BY <1>1, <1>2

LEMMA FoundedIsSilent ==
  ASSUME OneProcess
  PROVE  TraceInv => NoFalseAlarm
<1> SUFFICES ASSUME TraceInv PROVE Problems = {}
  BY DEF NoFalseAlarm
<1>1. ASSUME NEW i \in Ids, NEW k \in Kinds
      PROVE  /\ k \in {"PLAN_VERIFIED", "PLAN_COMMITTED", "PLAN_REJECTED"} =>
                   ~Unfounded(i, k, "PLAN_PROPOSED")
             /\ k \in {"PLAN_COMMITTED", "COMMIT_REVOKED"} => ~Unfounded(i, k, "PLAN_VERIFIED")
  <2>1. "PLAN_PROPOSED" \in Kinds /\ "PLAN_VERIFIED" \in Kinds
    BY DEF Kinds
  <2>2. /\ k \in {"PLAN_VERIFIED", "PLAN_COMMITTED", "PLAN_REJECTED"} =>
              "PLAN_PROPOSED" \in Needed(k)
        /\ k \in {"PLAN_COMMITTED", "COMMIT_REVOKED"} => "PLAN_VERIFIED" \in Needed(k)
    BY DEF Needed
  <2> QED BY <2>1, <2>2, NeverUnfounded
<1> QED BY <1>1 DEF Problems

\* On one instance, whatever the clock does and however long a key waits for its
\* transaction, an event is displayed after every event whose write its
\* transaction had before it (firestore_store.py:72-84, 99-100).
THEOREM OneProcessShowsCausesFirst ==
  ASSUME OneProcess
  PROVE  TraceSpec => []CausesAreShownFirst
BY TraceInvariant, CausesAreDisplayed, PTL

\* On one instance the integrity check raises no alarm over a trace the store
\* wrote, though proposals land under keys older than what landed before them
\* (verify.py:91-131).
THEOREM OneProcessRaisesNoAlarm ==
  ASSUME OneProcess
  PROVE  TraceSpec => []NoFalseAlarm
BY TraceInvariant, FoundedIsSilent, PTL
=============================================================================
