----------------------------- MODULE AbsorbOnce -----------------------------
(***************************************************************************)
(* What the event ledger of the state store promises about external        *)
(* events, with leases, attempts, fences and crashes left out.             *)
(*                                                                         *)
(* The transport delivers every event at least once.  The world moves      *)
(* forward one revision at a time; an event moves it at most once, owns    *)
(* the revision it produced for ever, and is declared applied at most      *)
(* once, after it was absorbed.  StateStore is shown to implement this     *)
(* module (StateStoreProofs, theorem StoreImplementsAbsorbOnce).           *)
(***************************************************************************)
EXTENDS Naturals

CONSTANTS Events    \* external event ids (Pub/Sub message ids, forecast ids)

VARIABLES
  clock,      \* the revision the world stands at
  absorbed,   \* absorbed[e]: the revision e produced, 0 when e was never seen
  applied     \* the events whose application is finished

absorbVars == <<clock, absorbed, applied>>

AbsorbInit ==
  /\ clock = 0
  /\ absorbed = [e \in Events |-> 0]
  /\ applied = {}

\* Truth with no delivery identity: nothing to remember about it.
WorldMoves ==
  /\ clock' = clock + 1
  /\ UNCHANGED <<absorbed, applied>>

\* The first delivery of e, and only the first, moves the world.
FirstDelivery(e) ==
  /\ absorbed[e] = 0
  /\ clock' = clock + 1
  /\ absorbed' = [absorbed EXCEPT ![e] = clock + 1]
  /\ UNCHANGED applied

Apply(e) ==
  /\ absorbed[e] # 0
  /\ e \notin applied
  /\ applied' = applied \cup {e}
  /\ UNCHANGED <<clock, absorbed>>

AbsorbNext ==
  \/ WorldMoves
  \/ \E e \in Events : FirstDelivery(e) \/ Apply(e)

AbsorbSpec == AbsorbInit /\ [][AbsorbNext]_absorbVars
=============================================================================
