----------------------------- MODULE TraceOrder -----------------------------
(***************************************************************************)
(* The order in which the Firestore store displays its trace, and the      *)
(* check that reads it: _monotonic_ns, _event_key and trace() of           *)
(* app/core/firestore_store.py, check_trace_integrity of                   *)
(* app/core/verify.py.                                                     *)
(*                                                                         *)
(* An event gets its key inside the transaction that writes it, from the   *)
(* clock of the process, and lands when the transaction commits.  A        *)
(* transaction is run again, and mints another key, if a document it has   *)
(* read is written before it commits; add_plan reads no plan and no run,   *)
(* so a proposal lands with the key it has, however late.  The trace is    *)
(* displayed in key order.                                                 *)
(*                                                                         *)
(* Left out are the events that neither write these documents nor count    *)
(* for the check (refusals, PLAN_REBOUND), revisions, and with them which  *)
(* of its two answers mark_verified gives; and transactions run again for  *)
(* another reason, which leave nothing behind but a later mark in _LAST_NS.*)
(***************************************************************************)
EXTENDS Integers, Sequences, FiniteSets

CONSTANTS
  Processes,     \* instances of the service: 1..n, in the order of their tokens
  Threads,
  ProcessOf,     \* ProcessOf[t]
  Ids,
  NoId,
  MaxTime,       \* bound: readings of the wall clock are 0..MaxTime
  MaxEvents      \* bound: length of the trace

ASSUME TraceAssumption ==
  /\ Processes \subseteq Nat
  /\ ProcessOf \in [Threads -> Processes]
  /\ NoId \notin Ids
  /\ MaxTime \in Nat /\ MaxEvents \in Nat

VARIABLES
  clock,     \* clock[p]: what time.time_ns() answers in process p
  last,      \* last[p]: _LAST_NS
  minted,    \* minted[t]: the event thread t has in flight, with its key
  document,  \* document[i]: the plan document
  committed, \* committed_plan_id on the run document
  landed     \* history: the events in the order their transactions committed

vars == <<clock, last, minted, document, committed, landed>>

Kinds == {"PLAN_PROPOSED", "PLAN_VERIFIED", "VERIFY_REFUSED_STALE", "PLAN_REJECTED",
          "PLAN_COMMITTED", "COMMIT_REVOKED"}

\* The run document and the plan documents.
RunDoc == NoId

\* The documents that the transaction of event x reads.  (Two of the three ways
\* to revoke read the plan as well; revoke_commit does not.)
ReadBy(x) ==
  CASE x.kind = "PLAN_PROPOSED" -> {}
    [] x.kind = "PLAN_REJECTED" -> {x.plan}
    [] x.kind = "COMMIT_REVOKED" -> {RunDoc}
    [] OTHER -> {x.plan, RunDoc}

WrittenBy(x) ==
  CASE x.kind = "PLAN_COMMITTED" -> {RunDoc}
    [] x.kind = "COMMIT_REVOKED" -> {x.plan, RunDoc}
    [] OTHER -> {x.plan}

\* What the transaction must find to write its event.
Permits(x) ==
  /\ x.kind \in {"PLAN_VERIFIED", "VERIFY_REFUSED_STALE", "PLAN_REJECTED"} =>
       document[x.plan] # "absent"
  /\ x.kind = "PLAN_COMMITTED" => document[x.plan] = "verified"
  /\ x.kind = "COMMIT_REVOKED" => committed = x.plan

NoTx == [plan |-> NoId, kind |-> "none", ns |-> 0, seen |-> 0]

EventsOf(i) == {n \in DOMAIN landed : landed[n].plan = i}

TraceInit ==
  /\ clock \in [Processes -> 0..MaxTime]
  /\ last = [p \in Processes |-> 0]
  /\ minted = [t \in Threads |-> NoTx]
  /\ document = [i \in Ids |-> "absent"]
  /\ committed = NoId
  /\ landed = <<>>

-----------------------------------------------------------------------------
\* The wall clock goes on, or is stepped anywhere.
ClockMoves(p) ==
  /\ clock' \in {[clock EXCEPT ![p] = c] : c \in 0..MaxTime}
  /\ UNCHANGED <<last, minted, document, committed, landed>>

\* Fault: the wall clock as it is.
WallClock(p) == clock[p]

\* A high-water mark: never backwards within the process, never twice the same.
Monotonic(p) == IF clock[p] > last[p] THEN clock[p] ELSE last[p] + 1

\* The body of the transaction, from its first read to the key it mints.
Body(t, i, k) ==
  LET ns == Monotonic(ProcessOf[t])
      tx == [plan |-> i, kind |-> k, ns |-> ns, seen |-> Len(landed)]
  IN  /\ Permits(tx)
      /\ last' = [last EXCEPT ![ProcessOf[t]] = ns]
      /\ minted' = [minted EXCEPT ![t] = tx]
      /\ UNCHANGED <<clock, document, committed, landed>>

Mint(t, i, k) ==
  /\ minted[t] = NoTx
  /\ Len(landed) < MaxEvents
  /\ Body(t, i, k)

\* Fault: whoever has begun commits.
NeverOvertaken(t) == FALSE

\* A document that the transaction has read was written since.
Overtaken(t) ==
  \E n \in DOMAIN landed :
    minted[t].seen < n /\ minted[t] # NoTx /\ WrittenBy(landed[n]) \cap ReadBy(minted[t]) # {}

\* How the plan's document reads after event x.
Outcome(x) == IF x.kind = "PLAN_VERIFIED" THEN "verified" ELSE "candidate"

Commits(t) ==
  LET x == minted[t] IN
    /\ x # NoTx /\ ~Overtaken(t)
    /\ Len(landed) < MaxEvents
    /\ landed' = Append(landed, [ns |-> x.ns, writer |-> ProcessOf[t],
                                 kind |-> x.kind, plan |-> x.plan])
    /\ document' = IF x.plan \in WrittenBy(x)
                     THEN [document EXCEPT ![x.plan] = Outcome(x)] ELSE document
    /\ committed' = CASE x.kind = "PLAN_COMMITTED" -> x.plan
                      [] x.kind = "COMMIT_REVOKED" -> NoId
                      [] OTHER -> committed
    /\ minted' = [minted EXCEPT ![t] = NoTx]
    /\ UNCHANGED <<clock, last>>

MintAgain(t) == Overtaken(t) /\ Body(t, minted[t].plan, minted[t].kind)

\* The documents are no longer what the operation needs: it is refused.
GiveUp(t) ==
  /\ Overtaken(t) /\ ~Permits(minted[t])
  /\ minted' = [minted EXCEPT ![t] = NoTx]
  /\ UNCHANGED <<clock, last, document, committed, landed>>

TraceNext ==
  \/ \E p \in Processes : ClockMoves(p)
  \/ \E t \in Threads : Commits(t) \/ MintAgain(t) \/ GiveUp(t)
  \/ \E t \in Threads, i \in Ids, k \in Kinds : Mint(t, i, k)

TraceSpec == TraceInit /\ [][TraceNext]_vars

-----------------------------------------------------------------------------
(* trace() and check_trace_integrity *)

\* Keys sort by time, then by the writer's token.
Before(a, b) == a.ns < b.ns \/ (a.ns = b.ns /\ a.writer < b.writer)

\* The seq of the n-th event to land.
Shown(n) == 1 + Cardinality({m \in DOMAIN landed : Before(landed[m], landed[n])})

\* Fault: a plan's last event of a kind stands for the kind.
LastShown(i, k) ==
  LET at == {Shown(n) : n \in {n \in EventsOf(i) : landed[n].kind = k}}
  IN  IF at = {} THEN 0 ELSE CHOOSE s \in at : \A r \in at : s >= r

\* The seq of a plan's first event of a kind, 0 if there is none.
FirstShown(i, k) ==
  LET at == {Shown(n) : n \in {n \in EventsOf(i) : landed[n].kind = k}}
  IN  IF at = {} THEN 0 ELSE CHOOSE s \in at : \A r \in at : s <= r

\* The first k is displayed without, or before, the first event it needs.
Unfounded(i, k, need) ==
  FirstShown(i, k) # 0 /\ (FirstShown(i, need) = 0 \/ FirstShown(i, k) < FirstShown(i, need))

Problems ==
  LET Alarms(i, k) ==
        \/ /\ k \in {"PLAN_VERIFIED", "PLAN_COMMITTED", "PLAN_REJECTED"}
           /\ Unfounded(i, k, "PLAN_PROPOSED")
        \/ /\ k \in {"PLAN_COMMITTED", "COMMIT_REVOKED"}
           /\ Unfounded(i, k, "PLAN_VERIFIED")
  IN  {x \in Ids \X Kinds : Alarms(x[1], x[2])}

-----------------------------------------------------------------------------
(* Properties *)

\* An event is displayed after every event whose write its transaction had
\* before it: a verdict after the proposal it judges, a commitment after the
\* verdict it rests on, whatever the clock does and however long a key waits for
\* its transaction (firestore_store.py:72-84, 99-100).
CausesAreShownFirst ==
  \A m, n \in DOMAIN landed :
    m < n /\ WrittenBy(landed[m]) \cap ReadBy(landed[n]) # {} => Shown(m) < Shown(n)

\* On a single instance the check raises no alarm, though an id is proposed again
\* and that proposal is displayed before verdicts that landed before it
\* (firestore_store.py:109-113, verify.py:91-99).
NoFalseAlarm == Problems = {}

\* The pass a commit rests on: the plan's last verification before it.
RestsOn(n) == CHOOSE m \in EventsOf(landed[n].plan) :
  /\ m < n /\ landed[m].kind = "PLAN_VERIFIED"
  /\ \A l \in EventsOf(landed[n].plan) : l < n /\ landed[l].kind = "PLAN_VERIFIED" => l <= m

\* When the check is silent, no commit is displayed before the verification it
\* rests on (verify.py:101-102: "empty means the trace is self-consistent").
EmptyMeansConsistent ==
  Problems = {} =>
    \A n \in DOMAIN landed : landed[n].kind = "PLAN_COMMITTED" => Shown(RestsOn(n)) < Shown(n)
=============================================================================
