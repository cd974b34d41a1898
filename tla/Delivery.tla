------------------------------ MODULE Delivery ------------------------------
(***************************************************************************)
(* The push endpoint and the transport around the membrane: pubsub_push of *)
(* app/api.py and apply_disruption of app/runner.py, with Pub/Sub modelled *)
(* from how they use it: a message is delivered until it is acknowledged,  *)
(* possibly several times at once.                                         *)
(*                                                                         *)
(* apply_disruption decides what to answer from two reads taken before the *)
(* dispatch and two taken after it, none of them under the store's lock.   *)
(***************************************************************************)
EXTENDS Membrane

CONSTANT MaxMishaps   \* bound: how many breakdowns happen altogether

ASSUME MishapAssumption == MaxMishaps \in Nat

VARIABLES
  desk,      \* desk[w]: how far the request worker w serves has come
  notes,     \* notes[w]: what apply_disruption has read for it
  acked,     \* the events whose message was acknowledged
  mishaps    \* how many breakdowns have happened

deliveryVars == <<vars, desk, notes, acked, mishaps>>

Desks == {"free", "received", "serving", "assessed"}
NoNotes == [event |-> NoEvent, already |-> FALSE, before |-> 0, moved |-> FALSE]

DeliveryInit ==
  /\ MembraneInit
  /\ desk = [w \in Workers |-> "free"]
  /\ notes = [w \in Workers |-> NoNotes]
  /\ acked = {}
  /\ mishaps = 0

Applied(e) == ledger[e].stage = "applied"

-----------------------------------------------------------------------------
(* Serving a request *)

\* A message that was not acknowledged arrives; already = has_processed_event.
Receive(w, e) ==
  /\ launched
  /\ desk[w] = "free" /\ pc[w] = "idle"
  /\ e \notin acked
  /\ desk' = [desk EXCEPT ![w] = "received"]
  /\ notes' = [notes EXCEPT ![w] = [NoNotes EXCEPT !.event = e, !.already = Applied(e)]]
  /\ UNCHANGED <<vars, acked, mishaps>>

\* revision_before, and on to the scenario's disrupt.
Dispatch(w) ==
  /\ desk[w] = "received"
  /\ Deliver(w, notes[w].event)
  /\ desk' = [desk EXCEPT ![w] = "serving"]
  /\ notes' = [notes EXCEPT ![w].before = revision]
  /\ UNCHANGED <<acked, mishaps>>

Returned(w) == pc[w] = "done" /\ worker[w].ending \in {"applied", "dismissed"}

\* disrupt returned: has the world moved since revision_before?
Assess(w) ==
  /\ desk[w] = "serving"
  /\ Returned(w)
  /\ desk' = [desk EXCEPT ![w] = "assessed"]
  /\ notes' = [notes EXCEPT ![w].moved = ~WorldStandsAt(notes[w].before)]
  /\ UNCHANGED <<vars, acked, mishaps>>

\* The answer leaves and the request is over.
Answer(w, ack) ==
  /\ Retire(w)
  /\ desk' = [desk EXCEPT ![w] = "free"]
  /\ notes' = [notes EXCEPT ![w] = NoNotes]
  /\ acked' = IF ack THEN acked \cup {notes[w].event} ELSE acked
  /\ UNCHANGED mishaps

\* Fault: an in-flight duplicate is told apart from an application by nothing.
NeverInFlight(w) == FALSE

\* Advanced by nobody and closed by nobody: another delivery holds the lease.
InFlight(w) == ~notes[w].already /\ ~notes[w].moved /\ ~Applied(notes[w].event)

\* "applied" and "duplicate" answer 200, "in_flight" answers 409.
AnswerReturn(w) ==
  /\ desk[w] = "assessed"
  /\ Answer(w, ~InFlight(w))

\* Fault: a failed application is acknowledged, so nobody redelivers it.
AnswerRaiseAccepting(w) ==
  /\ desk[w] = "serving"
  /\ pc[w] = "done" /\ ~Returned(w)
  /\ Answer(w, TRUE)

\* EventAlreadyAppliedError answers 200; being superseded 409, anything else 500.
AnswerRaise(w) ==
  /\ desk[w] = "serving"
  /\ pc[w] = "done" /\ ~Returned(w)
  /\ Answer(w, worker[w].ending = "already_applied")

\* The worker died: the request times out unanswered.
ConnectionLost(w) ==
  /\ desk[w] = "serving"
  /\ pc[w] = "idle"
  /\ desk' = [desk EXCEPT ![w] = "free"]
  /\ notes' = [notes EXCEPT ![w] = NoNotes]
  /\ UNCHANGED <<vars, acked, mishaps>>

-----------------------------------------------------------------------------
\* A worker outside the endpoint.
Planner(w) == (StartRun(w) \/ Retire(w)) /\ desk[w] = "free"

Serves(w) ==
  \/ (Works(w) \/ Planner(w)) /\ UNCHANGED <<desk, notes, acked, mishaps>>
  \/ Dispatch(w) \/ Assess(w) \/ AnswerReturn(w) \/ AnswerRaise(w) \/ ConnectionLost(w)

Mishap(w) ==
  /\ mishaps < MaxMishaps
  /\ mishaps' = mishaps + 1
  /\ Breakdown(w)
  /\ UNCHANGED <<desk, notes, acked>>

TimePasses(e) == Silence(e) /\ UNCHANGED <<desk, notes, acked, mishaps>>

\* A direct trigger, which has no message, and another client's claim.
Interference ==
  /\ \/ \E w \in Workers : desk[w] = "free" /\ Trigger(w)
     \/ \E i \in WorkItems : OutsiderClaims(i)
  /\ UNCHANGED <<desk, notes, acked, mishaps>>

\* Everything is acknowledged and nobody is at work.
Quiet ==
  /\ launched
  /\ acked = Events
  /\ \A w \in Workers : pc[w] = "idle" /\ desk[w] = "free"

DeliveryNext ==
  \/ \E w \in Workers : Serves(w) \/ Mishap(w) \/ \E e \in Events : Receive(w, e)
  \/ \E e \in Events : TimePasses(e)
  \/ Interference
  \/ Quiet /\ UNCHANGED deliveryVars

DeliverySafety == DeliveryInit /\ [][DeliveryNext]_deliveryVars

\* Threads run, time passes, and the transport redelivers what was not
\* acknowledged until it is; nobody is obliged to break down.
Fairness ==
  /\ \A w \in Workers : WF_deliveryVars(Serves(w))
  /\ \A e \in Events : WF_deliveryVars(TimePasses(e))
  /\ \A e \in Events : SF_deliveryVars(\E w \in Workers : Receive(w, e))

DeliverySpec == DeliverySafety /\ Fairness

-----------------------------------------------------------------------------
(* Properties *)

\* The request's notes and the answers stay in range: runner.py, api.py.
DeliveryTypeOK ==
  /\ MembraneTypeOK
  /\ desk \in [Workers -> Desks]
  /\ notes \in [Workers -> [event : Events \cup {NoEvent}, already : BOOLEAN,
                            before : 0..MaxRevision, moved : BOOLEAN]]
  /\ acked \subseteq Events
  /\ mishaps \in 0..MaxMishaps

\* Acknowledging ends redelivery, the only repair of an application that fails.
\* So whatever the unlocked reads around the dispatch have seen of other
\* requests, a message whose event is not applied is acknowledged at most by a
\* request that another attempt turned away, never by one whose own attempt
\* failed or was superseded, nor before the event has moved the world
\* (runner.py:96, api.py).
NoAckForAFailure ==
  [][\A e \in acked' \ acked :
       \/ Applied(e)
       \/ /\ ledger[e].stage # "unseen"
          /\ \E w \in Workers :
               /\ desk[w] = "assessed" /\ desk'[w] = "free"
               /\ notes[w].event = e /\ Fence(w) = Unfenced]_deliveryVars

\* What the endpoint means to ensure and overlapping requests can defeat: a
\* message is acknowledged only once its event is applied (api.py:182).
AckOnlyWhenApplied == \A e \in acked : Applied(e)

AtWork(w) == pc[w] # "idle" \/ desk[w] # "free"
NeverTwoAtWork == [](\A v, w \in Workers : AtWork(v) /\ AtWork(w) => v = w)

\* Where requests and planners do not overlap, every event is applied and
\* acknowledged in the end, although workers fail and die on the way:
\* abandon_event, the lease and redelivery repair them all (api.py:173,
\* runner.py:102-114).
DeliveredToTheEnd == NeverTwoAtWork => \A e \in Events : <>[](Applied(e) /\ e \in acked)
=============================================================================
