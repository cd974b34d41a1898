--------------------------- MODULE FleetPlanning ---------------------------
(***************************************************************************)
(* The planner and the verifier of app/scenarios/relieffleet.py as         *)
(* operators: propose_assignment, _naive_assignment and make_verifier over *)
(* the immutable facts of build_state.                                     *)
(*                                                                         *)
(* An assignment maps each mission to a slot <<vehicle, window>> or to     *)
(* NoSlot.  Being a function it cannot name an unknown mission or one      *)
(* mission twice; the verifier's checks for those are left out.            *)
(***************************************************************************)
EXTENDS Naturals, SequencesExt

CONSTANTS
  MissionOrder,    \* the missions, most casualties first
  BoardOrder,      \* the missions by id
  VehicleOrder,    \* the vehicles by id
  BiggestFirst,    \* the vehicles by capacity, largest first
  WindowOrder,     \* departure_windows
  Kind,            \* Kind[v]: "truck" or "heli"
  Capacity,        \* Capacity[v], in kg
  Payload,         \* Payload[m], in kg
  Casualties,      \* Casualties[m]
  Beds,            \* hospital_beds_free
  Route,           \* Route[m]: the edges a truck crosses to the mission's village
  ReadyHour, LatestHour, CutoffHour,
  Transit,         \* Transit[kind], in hours
  NoSlot

Missions == Range(MissionOrder)
Vehicles == Range(VehicleOrder)
Windows == Range(WindowOrder)
Edges == UNION {Route[m] : m \in Missions}

ASSUME FleetAssumption ==
  /\ MissionOrder \in Seq(Missions) /\ IsInjective(MissionOrder)
  /\ VehicleOrder \in Seq(Vehicles) /\ VehicleOrder # <<>>
  /\ WindowOrder \in Seq(Windows)
  /\ Range(BoardOrder) = Missions
  /\ Range(BiggestFirst) = Vehicles
  /\ Kind \in [Vehicles -> {"truck", "heli"}]
  /\ Windows \subseteq Nat /\ ReadyHour \in Windows
  /\ NoSlot \notin Vehicles \X Windows

Slots == Vehicles \X Windows
Assignments == [Missions -> Slots \cup {NoSlot}]
EmptyBoard == [m \in Missions |-> NoSlot]
AllPlaced(a) == \A m \in Missions : a[m] # NoSlot

\* A hazard reading, as the hours that are over each kind's limit or unread.
Hazards == [{"truck", "heli"} -> SUBSET (0..23)]

-----------------------------------------------------------------------------
(* Single slots *)

InDiscipline(window) == ReadyHour <= window /\ window <= LatestHour

\* Transit times are whole hours, so the span is the hours up to arrival.
TransitSpan(window, kind) == window..(window + Transit[kind] - 1)

RouteOpen(m, kind, failed) == kind = "truck" => Route[m] \cap failed = {}

SpanSafe(window, kind, hazard) == TransitSpan(window, kind) \cap hazard[kind] = {}

\* What planner and verifier ask of one mission in one slot.
SlotHolds(m, slot, hazard, failed) ==
  LET kind == Kind[slot[1]]
      window == slot[2]
  IN  /\ InDiscipline(window)
      /\ Payload[m] <= Capacity[slot[1]]
      /\ RouteOpen(m, kind, failed)
      /\ window + Transit[kind] <= CutoffHour
      /\ SpanSafe(window, kind, hazard)

-----------------------------------------------------------------------------
(* make_verifier *)

BedsSuffice == FoldLeft(LAMBDA sum, m : sum + Casualties[m], 0, MissionOrder) <= Beds

Verdict(a, hazard, failed) ==
  /\ AllPlaced(a)
  /\ \A m \in Missions : a[m][2] \in Windows /\ SlotHolds(m, a[m], hazard, failed)
  /\ \A m, k \in Missions : m # k => a[m] # a[k]
  /\ BedsSuffice

-----------------------------------------------------------------------------
(* propose_assignment and _naive_assignment *)

\* The slots still to be had for a mission, by the places of their window and
\* vehicle in the orders.
OpenSlots(board, m, hazard, failed) ==
  {i \in (DOMAIN WindowOrder) \X (DOMAIN VehicleOrder) :
     LET slot == <<VehicleOrder[i[2]], WindowOrder[i[1]]>>
     IN  slot \notin Range(board) /\ SlotHolds(m, slot, hazard, failed)}

\* Window by window, and within a window by vehicle id.
FirstSlot(open) ==
  LET w == Min({i[1] : i \in open})
      v == Min({i[2] : i \in {j \in open : j[1] = w}})
  IN  <<VehicleOrder[v], WindowOrder[w]>>

\* Fault: a slot may be promised twice.
PlaceAnyhow(board, m, hazard, failed) ==
  LET open == OpenSlots(EmptyBoard, m, hazard, failed)
  IN  IF open = {} THEN board ELSE [board EXCEPT ![m] = FirstSlot(open)]

\* The first slot that is free and holds; none, and the mission is left out.
Place(board, m, hazard, failed) ==
  LET open == OpenSlots(board, m, hazard, failed)
  IN  IF open = {} THEN board ELSE [board EXCEPT ![m] = FirstSlot(open)]

\* The board after the first k missions, most casualties first.
Assignment(hazard, failed) ==
  LET board[k \in 0..Len(MissionOrder)] ==
        IF k = 0 THEN EmptyBoard ELSE Place(board[k - 1], MissionOrder[k], hazard, failed)
  IN  board[Len(MissionOrder)]

\* Everything at first light, the missions in id order on the biggest vehicles.
NaiveAssignment ==
  [m \in Missions |-> LET i == CHOOSE i \in DOMAIN BoardOrder : BoardOrder[i] = m
                      IN  IF i \in DOMAIN BiggestFirst THEN <<BiggestFirst[i], ReadyHour>>
                                                       ELSE NoSlot]
=============================================================================
