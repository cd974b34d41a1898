---------------------------- MODULE FleetProofs ----------------------------
(***************************************************************************)
(* The relief fleet, for any number of workers, events, missions, vehicles *)
(* and windows, any fleet and any roads.                                   *)
(*                                                                         *)
(* The planner first: where it places a mission the verifier has no        *)
(* objection, and what it leaves out others needed more.  Its recursion    *)
(* over the missions is argued by the first mission that would be wrong.   *)
(*                                                                         *)
(* Then the fleet under any schedule: FleetInv is inductive, and the fleet *)
(* uses the store only as the store's specification allows.                *)
(*                                                                         *)
(* Then the fleet while events come one at a time: SerialInv is inductive. *)
(* The fence leaves at most one owner, a worker whose calls still take     *)
(* effect.  While there is an owner the world, the roads and its proposal  *)
(* change by no other hand; so what it has read is still so when it        *)
(* commits, and what stands once all is applied runs on open roads.        *)
(***************************************************************************)
EXTENDS ReliefFleet, StateStoreProofs, FiniteSetTheorems, WellFoundedInduction

-----------------------------------------------------------------------------
(* The planner *)

\* A set of numbers that is not empty has a least one.
LEMMA ThereIsALeast ==
  ASSUME NEW T, T \subseteq Nat, T # {}
  PROVE  \E n \in T : \A k \in T : n <= k
<1> DEFINE R == {ss \in Nat \X Nat : ss[1] < ss[2]}
<1>1. IsWellFoundedOn(R, Nat)
  BY NatLessThanWellFounded DEF OpToRel
<1> HIDE DEF R
<1>2. PICK n \in T : \A k \in T : <<k, n>> \notin R
  BY <1>1, WFMin
<1>3. ASSUME NEW k \in T
      PROVE  n <= k
  <2>1. k \in Nat /\ n \in Nat /\ <<k, n>> \notin R
    BY <1>2
  <2>2. ~(k < n)
    BY <2>1 DEF R
  <2> QED BY <2>1, <2>2
<1> QED BY <1>3

LEMMA MinIsLeast ==
  ASSUME NEW T, T \subseteq Nat, T # {}
  PROVE  Min(T) \in T /\ \A k \in T : Min(T) <= k
BY ThereIsALeast DEF Min

LEMMA OrdersAreCounted ==
  /\ Len(MissionOrder) \in Nat /\ DOMAIN MissionOrder = 1..Len(MissionOrder)
  /\ \A i \in DOMAIN MissionOrder : MissionOrder[i] \in Missions
  /\ \A m \in Missions : \E i \in DOMAIN MissionOrder : m = MissionOrder[i]
  /\ Len(VehicleOrder) \in Nat \ {0} /\ DOMAIN VehicleOrder = 1..Len(VehicleOrder)
  /\ \A v \in DOMAIN VehicleOrder : VehicleOrder[v] \in Vehicles
  /\ \A x \in Vehicles : \E v \in DOMAIN VehicleOrder : x = VehicleOrder[v]
  /\ DOMAIN WindowOrder = 1..Len(WindowOrder) /\ Len(WindowOrder) \in Nat
  /\ \A w \in DOMAIN WindowOrder : WindowOrder[w] \in Windows
  /\ \A x \in Windows : \E w \in DOMAIN WindowOrder : x = WindowOrder[w]
BY FleetAssumption DEF Missions, Vehicles, Windows, Range

\* What is chosen among open slots is one of them.
LEMMA FirstSlotIsOpen ==
  ASSUME NEW open, open \subseteq (DOMAIN WindowOrder) \X (DOMAIN VehicleOrder), open # {}
  PROVE  \E i \in open : FirstSlot(open) = <<VehicleOrder[i[2]], WindowOrder[i[1]]>>
<1> DEFINE windows == {i[1] : i \in open}
           w == Min(windows)
           vehicles == {i[2] : i \in {j \in open : j[1] = w}}
           v == Min(vehicles)
<1>1. windows \subseteq Nat /\ windows # {}
  BY OrdersAreCounted
<1>2. w \in windows
  <2> HIDE DEF windows
  <2> QED BY <1>1, MinIsLeast
<1>3. vehicles \subseteq Nat /\ vehicles # {}
  <2>1. PICK j \in open : j[1] = w
    BY <1>2
  <2>2. j[2] \in vehicles
    BY <2>1
  <2>3. \A i \in open : i[2] \in Nat
    BY OrdersAreCounted
  <2> QED BY <2>2, <2>3
<1>4. v \in vehicles
  <2> HIDE DEF vehicles
  <2> QED BY <1>3, MinIsLeast
<1>5. PICK i \in open : i[1] = w /\ i[2] = v
  BY <1>4
<1>6. FirstSlot(open) = <<VehicleOrder[v], WindowOrder[w]>>
  BY DEF FirstSlot
<1> QED BY <1>5, <1>6

\* A mission is given a slot that is free and holds, or there is none.
LEMMA PlaceFits ==
  ASSUME NEW board \in Assignments, NEW m \in Missions, NEW hazard, NEW roads
  PROVE  \/ /\ Place(board, m, hazard, roads) = board
            /\ \A s \in Slots : SlotHolds(m, s, hazard, roads) => \E k \in Missions : board[k] = s
         \/ \E s \in Slots :
              /\ Place(board, m, hazard, roads) = [board EXCEPT ![m] = s]
              /\ SlotHolds(m, s, hazard, roads) /\ \A k \in Missions : board[k] # s
<1> DEFINE open == OpenSlots(board, m, hazard, roads)
           At(i) == <<VehicleOrder[i[2]], WindowOrder[i[1]]>>
<1>1. \A s : s \in Range(board) <=> \E k \in Missions : board[k] = s
  BY DEF Assignments, Range
<1>2. open = {i \in (DOMAIN WindowOrder) \X (DOMAIN VehicleOrder) :
                At(i) \notin Range(board) /\ SlotHolds(m, At(i), hazard, roads)}
  BY DEF OpenSlots
<1>3. CASE open = {}
  <2>1. Place(board, m, hazard, roads) = board
    BY <1>3 DEF Place
  <2>2. ASSUME NEW s \in Slots, SlotHolds(m, s, hazard, roads)
        PROVE  \E k \in Missions : board[k] = s
    <3>1. PICK x \in Vehicles, y \in Windows : s = <<x, y>>
      BY DEF Slots
    <3>2. PICK v \in DOMAIN VehicleOrder : x = VehicleOrder[v]
      BY OrdersAreCounted
    <3>3. PICK w \in DOMAIN WindowOrder : y = WindowOrder[w]
      BY OrdersAreCounted
    <3>4. <<w, v>> \in (DOMAIN WindowOrder) \X (DOMAIN VehicleOrder) /\ At(<<w, v>>) = s
      BY <3>1, <3>2, <3>3
    <3> HIDE DEF At, open
    <3>5. s \in Range(board)
      BY <1>2, <1>3, <2>2, <3>4
    <3> QED BY <1>1, <3>5
  <2> QED BY <2>1, <2>2
<1>4. CASE open # {}
  <2>1. PICK i \in open : FirstSlot(open) = At(i)
    BY <1>2, <1>4, FirstSlotIsOpen
  <2>2. Place(board, m, hazard, roads) = [board EXCEPT ![m] = At(i)]
    BY <1>4, <2>1 DEF Place
  <2>3. At(i) \in Slots
    BY <1>2, <2>1, OrdersAreCounted DEF Slots
  <2>4. SlotHolds(m, At(i), hazard, roads) /\ At(i) \notin Range(board)
    <3> HIDE DEF At, open
    <3> QED BY <1>2, <2>1
  <2> HIDE DEF At, open
  <2> QED BY <1>1, <2>2, <2>3, <2>4
<1> QED BY <1>3, <1>4

\* The boards of a planning, one after another.
Boards(f, n, hazard, roads) ==
  f = [k \in 0..n |-> IF k = 0 THEN EmptyBoard
                               ELSE Place(f[k - 1], MissionOrder[k], hazard, roads)]

\* The planner comes to the n-th mission, whatever n: there is no first one it
\* does not come to.
LEMMA PlanningGoesThrough ==
  ASSUME NEW hazard, NEW roads, NEW n \in Nat
  PROVE  \E f : Boards(f, n, hazard, roads)
<1> DEFINE T == {k \in Nat : ~ \E f : Boards(f, k, hazard, roads)}
<1>1. ASSUME T # {} PROVE FALSE
  <2>1. T \subseteq Nat
    OBVIOUS
  <2>2. PICK k \in T : \A j \in T : k <= j
    BY <1>1, <2>1, ThereIsALeast
  <2>3. CASE k = 0
    <3> DEFINE f == [j \in 0..0 |-> EmptyBoard]
    <3>1. f = [j \in 0..0 |-> IF j = 0 THEN EmptyBoard
                                       ELSE Place(f[j - 1], MissionOrder[j], hazard, roads)]
      OBVIOUS
    <3>2. Boards(f, 0, hazard, roads)
      BY <3>1 DEF Boards
    <3> QED BY <2>2, <2>3, <3>2
  <2>4. CASE k # 0
    <3>1. k \in Nat /\ k - 1 \in Nat /\ k - 1 \notin T
      BY <2>2, <2>4
    <3>2. PICK g : Boards(g, k - 1, hazard, roads)
      BY <3>1
    <3> DEFINE f == [j \in 0..k |-> IF j = k THEN Place(g[k - 1], MissionOrder[k], hazard, roads)
                                             ELSE g[j]]
    <3>3. \A j \in 0..(k - 1) : g[j] = IF j = 0 THEN EmptyBoard
                                       ELSE Place(g[j - 1], MissionOrder[j], hazard, roads)
      BY <3>2 DEF Boards
    <3>4. \A j \in 0..k : f[j] = IF j = 0 THEN EmptyBoard
                                          ELSE Place(f[j - 1], MissionOrder[j], hazard, roads)
      <4> TAKE j \in 0..k
      <4>1. CASE j = k
        <5>1. f[k] = Place(g[k - 1], MissionOrder[k], hazard, roads) /\ f[k - 1] = g[k - 1]
          BY <3>1, <2>4
        <5> HIDE DEF f
        <5> QED BY <4>1, <2>4, <5>1
      <4>2. CASE j # k
        <5>1. j \in 0..(k - 1) /\ f[j] = g[j] /\ (j # 0 => f[j - 1] = g[j - 1])
          BY <3>1, <4>2
        <5> HIDE DEF f
        <5> QED BY <3>3, <5>1
      <4> QED BY <4>1, <4>2
    <3>5. DOMAIN f = 0..k /\ f = [j \in 0..k |-> f[j]]
      OBVIOUS
    <3>6. Boards(f, k, hazard, roads)
      <4> HIDE DEF f
      <4> QED BY <3>4, <3>5 DEF Boards
    <3> QED BY <2>2, <3>6
  <2> QED BY <2>3, <2>4
<1> QED BY <1>1

\* What Assignment computes is the last board of such a planning.
LEMMA AssignmentIsTheLastBoard ==
  ASSUME NEW hazard, NEW roads
  PROVE  \E f : Boards(f, Len(MissionOrder), hazard, roads)
                /\ Assignment(hazard, roads) = f[Len(MissionOrder)]
<1> DEFINE f == CHOOSE f : Boards(f, Len(MissionOrder), hazard, roads)
<1>1. Boards(f, Len(MissionOrder), hazard, roads)
  BY PlanningGoesThrough, OrdersAreCounted
<1>2. Assignment(hazard, roads) = f[Len(MissionOrder)]
  BY DEF Assignment, Boards
<1> QED BY <1>1, <1>2

\* A board on which every mission that was placed has a slot of its own that
\* holds for it.
Fits(board, hazard, roads) ==
  /\ board \in Assignments
  /\ \A m \in Missions : board[m] # NoSlot => SlotHolds(m, board[m], hazard, roads)
  /\ \A m, k \in Missions : m # k /\ board[m] # NoSlot => board[m] # board[k]

\* After n missions: those still to come have no slot, and whoever was left out
\* was left out for those before him.
InOrder(board, n, hazard, roads) ==
  /\ \A i \in DOMAIN MissionOrder : i > n => board[MissionOrder[i]] = NoSlot
  /\ \A i \in DOMAIN MissionOrder : i <= n /\ board[MissionOrder[i]] = NoSlot =>
       \A s \in Slots : SlotHolds(MissionOrder[i], s, hazard, roads) =>
         \E j \in 1..(i - 1) : board[MissionOrder[j]] = s

\* One mission more: what was placed still fits, and the new mission is left out
\* only if those before it hold every slot that would do.
LEMMA PlaceKeepsOrder ==
  ASSUME NEW board, NEW n \in DOMAIN MissionOrder, NEW hazard, NEW roads,
         Fits(board, hazard, roads), InOrder(board, n - 1, hazard, roads)
  PROVE  /\ Fits(Place(board, MissionOrder[n], hazard, roads), hazard, roads)
         /\ InOrder(Place(board, MissionOrder[n], hazard, roads), n, hazard, roads)
<1> DEFINE m == MissionOrder[n]
           next == Place(board, m, hazard, roads)
<1>1. /\ board \in Assignments /\ m \in Missions /\ n \in 1..Len(MissionOrder)
      /\ \A i \in DOMAIN MissionOrder : MissionOrder[i] \in Missions
      /\ DOMAIN MissionOrder = 1..Len(MissionOrder) /\ Len(MissionOrder) \in Nat
      /\ \A k \in Missions : \E i \in DOMAIN MissionOrder : k = MissionOrder[i]
  BY OrdersAreCounted DEF Fits
<1>2. \A i \in DOMAIN MissionOrder : MissionOrder[i] = m => i = n
  BY FleetAssumption DEF IsInjective
<1>3. board[m] = NoSlot
  BY <1>1 DEF InOrder
<1>4. CASE /\ next = board
           /\ \A s \in Slots : SlotHolds(m, s, hazard, roads) => \E k \in Missions : board[k] = s
  <2>1. ASSUME NEW s \in Slots, SlotHolds(m, s, hazard, roads)
        PROVE  \E j \in 1..(n - 1) : board[MissionOrder[j]] = s
    <3>1. PICK i \in DOMAIN MissionOrder : board[MissionOrder[i]] = s
      BY <1>1, <1>4, <2>1
    <3>2. s # NoSlot
      BY FleetAssumption DEF Slots
    <3>3. ~(i > n - 1)
      BY <3>1, <3>2 DEF InOrder
    <3> QED BY <1>1, <3>1, <3>3
  <2>2. \A i \in DOMAIN MissionOrder : i <= n => i = n \/ i <= n - 1
    BY <1>1
  <2>3. \A i \in DOMAIN MissionOrder : i > n => i > n - 1
    BY <1>1
  <2>4. InOrder(board, n, hazard, roads)
    BY <2>1, <2>2, <2>3 DEF InOrder
  <2> QED BY <1>4, <2>4
<1>5. ASSUME NEW s \in Slots, next = [board EXCEPT ![m] = s],
             SlotHolds(m, s, hazard, roads), \A k \in Missions : board[k] # s
      PROVE  Fits(next, hazard, roads) /\ InOrder(next, n, hazard, roads)
  <2>1. /\ next \in Assignments /\ next[m] = s
        /\ \A k \in Missions \ {m} : next[k] = board[k]
    BY <1>1, <1>5 DEF Assignments
  <2>2. s # NoSlot
    BY FleetAssumption DEF Slots
  <2> HIDE DEF next
  <2>3. Fits(next, hazard, roads)
    BY <1>1, <1>5, <2>1 DEF Fits
  <2>4. \A i \in DOMAIN MissionOrder : i # n => next[MissionOrder[i]] = board[MissionOrder[i]]
    BY <1>1, <1>2, <2>1
  <2>5. \A i \in DOMAIN MissionOrder : i > n => next[MissionOrder[i]] = NoSlot
    BY <1>1, <2>4 DEF InOrder
  <2>6. ASSUME NEW i \in DOMAIN MissionOrder, i <= n, next[MissionOrder[i]] = NoSlot,
               NEW t \in Slots, SlotHolds(MissionOrder[i], t, hazard, roads)
        PROVE  \E j \in 1..(i - 1) : next[MissionOrder[j]] = t
    <3>1. i # n
      BY <2>1, <2>2, <2>6
    <3>2. i <= n - 1 /\ board[MissionOrder[i]] = NoSlot
      BY <1>1, <2>4, <2>6, <3>1
    <3>3. PICK j \in 1..(i - 1) : board[MissionOrder[j]] = t
      BY <2>6, <3>2 DEF InOrder
    <3>4. j \in DOMAIN MissionOrder /\ j # n
      BY <1>1, <2>6, <3>1
    <3> QED BY <2>4, <3>3, <3>4
  <2> QED BY <2>3, <2>5, <2>6 DEF InOrder
<1>6. next = board \/ \E s \in Slots : next = [board EXCEPT ![m] = s]
  BY <1>1, PlaceFits
<1> HIDE DEF next
<1> QED BY <1>1, <1>4, <1>5, PlaceFits DEF next

\* So it stands with every board of a planning, the last included.
LEMMA BoardsKeepOrder ==
  ASSUME NEW hazard, NEW roads, NEW f, Boards(f, Len(MissionOrder), hazard, roads)
  PROVE  \A n \in 0..Len(MissionOrder) : Fits(f[n], hazard, roads) /\ InOrder(f[n], n, hazard, roads)
<1> DEFINE T == {n \in 0..Len(MissionOrder) :
                   ~(Fits(f[n], hazard, roads) /\ InOrder(f[n], n, hazard, roads))}
<1>1. ASSUME T # {} PROVE FALSE
  <2>1. T \subseteq Nat
    BY OrdersAreCounted
  <2>2. PICK n \in T : \A k \in T : n <= k
    BY <1>1, <2>1, ThereIsALeast
  <2>3. n \in 0..Len(MissionOrder) /\ Len(MissionOrder) \in Nat
    BY <2>2, OrdersAreCounted
  <2>4. f[n] = IF n = 0 THEN EmptyBoard ELSE Place(f[n - 1], MissionOrder[n], hazard, roads)
    BY <2>3 DEF Boards
  <2>5. CASE n = 0
    <3>1. Fits(EmptyBoard, hazard, roads)
      BY DEF Fits, EmptyBoard, Assignments
    <3>2. \A i \in DOMAIN MissionOrder : i > 0 /\ EmptyBoard[MissionOrder[i]] = NoSlot
      BY OrdersAreCounted DEF EmptyBoard
    <3>3. InOrder(EmptyBoard, 0, hazard, roads)
      BY <3>2, OrdersAreCounted DEF InOrder
    <3> QED BY <2>2, <2>4, <2>5, <3>1, <3>3
  <2>6. CASE n # 0
    <3>1. n - 1 \in 0..Len(MissionOrder) /\ n \in DOMAIN MissionOrder /\ n - 1 \notin T
      BY <2>2, <2>3, <2>6, OrdersAreCounted
    <3>2. Fits(f[n - 1], hazard, roads) /\ InOrder(f[n - 1], n - 1, hazard, roads)
      BY <3>1
    <3>3. Fits(f[n], hazard, roads) /\ InOrder(f[n], n, hazard, roads)
      BY <2>4, <2>6, <3>1, <3>2, PlaceKeepsOrder
    <3> QED BY <2>2, <3>3
  <2> QED BY <2>5, <2>6
<1> QED BY <1>1

\* So it is with the whole assignment, by the first board that would not fit.
LEMMA AssignmentFits ==
  ASSUME NEW hazard, NEW roads
  PROVE  /\ Assignment(hazard, roads) \in Assignments
         /\ Fits(Assignment(hazard, roads), hazard, roads)
         /\ InOrder(Assignment(hazard, roads), Len(MissionOrder), hazard, roads)
<1>1. PICK f : /\ Boards(f, Len(MissionOrder), hazard, roads)
               /\ Assignment(hazard, roads) = f[Len(MissionOrder)]
  BY AssignmentIsTheLastBoard
<1>2. Len(MissionOrder) \in 0..Len(MissionOrder)
  BY OrdersAreCounted
<1> QED BY <1>1, <1>2, BoardsKeepOrder DEF Fits

\* Whatever hazard and roads the planner reads: if it finds a slot for every
\* mission and the beds suffice, the verifier passes its assignment on the same
\* reading, for the two agree on every limit (relieffleet.py:201-246 and 141-196).
THEOREM PlannerAndVerifierAgree ==
  ASSUME NEW hazard, NEW roads, BedsSuffice, AllPlaced(Assignment(hazard, roads))
  PROVE  Verdict(Assignment(hazard, roads), hazard, roads)
<1> DEFINE a == Assignment(hazard, roads)
<1>1. Fits(a, hazard, roads)
  BY AssignmentFits
<1> HIDE DEF a
<1>2. \A m \in Missions : a[m] # NoSlot
  BY DEF AllPlaced, a
<1>3. \A m \in Missions : a[m][2] \in Windows
  BY <1>1, <1>2 DEF Fits, Assignments, Slots
<1> QED BY <1>1, <1>2, <1>3 DEF Fits, Verdict, AllPlaced, a

\* A mission is left out only for those with more casualties: every slot that
\* would hold for it was promised to one of them (relieffleet.py:209-238, "most
\* casualties first").
THEOREM LeftOutForCause ==
  ASSUME NEW hazard, NEW roads, NEW i \in DOMAIN MissionOrder,
         Assignment(hazard, roads)[MissionOrder[i]] = NoSlot,
         NEW s \in Slots, SlotHolds(MissionOrder[i], s, hazard, roads)
  PROVE  \E j \in 1..(i - 1) : Assignment(hazard, roads)[MissionOrder[j]] = s
<1>1. i <= Len(MissionOrder)
  BY OrdersAreCounted
<1> QED BY <1>1, AssignmentFits DEF InOrder

Planned == {"survey", "propose"} \cup Verifying
PastEmit == Reverifying \cup {"replan", "count", "complete"} \cup Planned

\* What a worker at step s may carry in its locals x.
LocalOK(s, x) ==
  /\ s \in Steps /\ x \in Locals
  /\ x.rev <= revision
  /\ s = "idle" => x = Idle
  /\ s # "idle" => x.hazard \in Forecasts
  /\ s # "idle" /\ x.event = NoEvent => s \in Seeding \cup Planned
  /\ x.event = NoEvent \/ s = "advance" => x.fence = Unfenced
  /\ x.event # NoEvent /\ s # "advance" =>
       s \notin Seeding /\ x.fence # Unfenced /\ x.fence.event = x.event
  /\ Minted(x.fence)
  /\ s \in (Reverifying \ {"committed"}) \cup Planned => x.plan \in PlanIds
  /\ s \in Planned => x.plan[1] = x.rev
  /\ s = "propose" => x.proposal \in Assignments

\* No two workers hold the same attempt.
FencesAreOwn ==
  \A v, w \in Workers : v # w /\ Fence(v) # Unfenced => Fence(v) # Fence(w)

FleetInv ==
  /\ FleetTypeOK /\ EventsOwnTheirRevisions
  /\ \A w \in Workers : LocalOK(pc[w], worker[w])
  /\ FencesAreOwn

\* The ids and vehicles run() uses exist.
LEMMA RunOrders ==
  /\ Len(VehicleOrder) \in Nat \ {0}
  /\ \A k \in 1..Len(VehicleOrder) : VehicleOrder[k] \in Vehicles
  /\ NaiveAssignment \in Assignments
  /\ 0 \in 0..MaxRevision /\ 1 \in 1..Len(VehicleOrder)
  /\ \A r \in 0..MaxRevision : <<r, 1>> \in PlanIds /\ <<r, 2>> \in PlanIds
<1>1. \A m \in Missions : \E i \in DOMAIN BoardOrder : BoardOrder[i] = m
  BY FleetAssumption DEF Range
<1>2. \A i \in DOMAIN BiggestFirst : <<BiggestFirst[i], ReadyHour>> \in Slots
  BY FleetAssumption DEF Slots, Vehicles, Range
<1>3. NaiveAssignment \in Assignments
  BY <1>2 DEF NaiveAssignment, Assignments
<1>4. 0 \in 0..MaxRevision /\ 1 \in 1..MaxPlans /\ 2 \in 1..MaxPlans
  BY RunAssumption, BoundAssumption
<1>5. 1 \in 1..Len(VehicleOrder) /\ Len(VehicleOrder) \in Nat \ {0}
  BY OrdersAreCounted
<1> QED BY <1>3, <1>4, <1>5, OrdersAreCounted, RunAssumption

\* The plans that were proposed can be counted.
LEMMA ProposedIsFinite ==
  IsFiniteSet(PlanIds) /\ IsFiniteSet(Proposed) /\ Cardinality(Proposed) \in Nat
<1>1. IsFiniteSet(0..MaxRevision) /\ IsFiniteSet(1..MaxPlans)
  BY FS_Interval, BoundAssumption, RunAssumption
<1>2. IsFiniteSet((0..MaxRevision) \X (1..MaxPlans))
  BY <1>1, FS_Product
<1>3. IsFiniteSet(PlanIds)
  BY <1>2, RunAssumption
<1>4. Proposed \subseteq PlanIds
  BY DEF Proposed
<1> QED BY <1>3, <1>4, FS_Subset, FS_CardinalityType

\* What was in order stays in order while the world moves on.
LEMMA LocalFrame ==
  ASSUME NEW s, NEW x, LocalOK(s, x), TypeOK, TypeOK', revision <= revision',
         \A e \in Events : ledger[e].attempt <= ledger'[e].attempt
  PROVE  LocalOK(s, x)'
<1>1. x \in Locals /\ Minted(x.fence)
  BY DEF LocalOK
<1>2. x.rev <= revision'
  BY <1>1, BoundAssumption DEF LocalOK, TypeOK, Locals
<1>3. Minted(x.fence)'
  BY <1>1, BoundAssumption DEF Minted, TypeOK, LedgerEntry, Locals, Fences
<1> QED BY <1>1, <1>2, <1>3 DEF LocalOK

\* A worker that leaves has nothing to keep in order.
LEMMA IdleIsInOrder ==
  ASSUME TypeOK
  PROVE  LocalOK("idle", Idle) /\ Idle \in Locals
BY BoundAssumption, RunOrders, NoEventAssumption
   DEF LocalOK, Idle, Locals, Steps, Seeding, Reverifying, Verifying, Planned, Minted, TypeOK, Fences

\* FleetInv at a glance: the ranges that arithmetic and the store's lemmas ask for.
LEMMA InRange ==
  ASSUME FleetInv
  PROVE  /\ TypeOK /\ UnseenIsUntried /\ revision \in 0..MaxRevision /\ revision \in Nat
         /\ pc \in [Workers -> Steps] /\ worker \in [Workers -> Locals]
         /\ \A w \in Workers : /\ LocalOK(pc[w], worker[w])
                               /\ worker[w] \in Locals /\ pc[w] \in Steps
                               /\ worker[w].event \in Events \cup {NoEvent}
                               /\ Fence(w) = worker[w].fence /\ Fence(w) \in Fences
BY BoundAssumption
   DEF FleetInv, FleetTypeOK, Locals, TypeOK, EventsOwnTheirRevisions, UnseenIsUntried, Fence

\* The initial state is in order.
LEMMA FleetOpens == FleetInit => FleetInv
<1> SUFFICES ASSUME FleetInit PROVE FleetInv
  OBVIOUS
<1>1. TypeOK /\ EventsOwnTheirRevisions
  BY BoundAssumption
  DEF FleetInit, StoreInit, TypeOK, UnseenEntry, LedgerEntry, Stages, Pending, AbsentPlan, Plan,
      Verdicts, EventsOwnTheirRevisions
<1>2. \A w \in Workers : pc[w] = "idle" /\ worker[w] = Idle
  BY DEF FleetInit
<1>3. \A w \in Workers : LocalOK(pc[w], worker[w])
  BY <1>1, <1>2, IdleIsInOrder
<1>4. FleetTypeOK
  BY <1>1, <1>2, IdleIsInOrder DEF FleetInit, FleetTypeOK, Steps
<1>5. FencesAreOwn
  BY <1>2 DEF FencesAreOwn, Fence, Idle
<1> QED BY <1>1, <1>3, <1>4, <1>5 DEF FleetInv

-----------------------------------------------------------------------------
(* One worker's steps *)

\* Worker w goes to step s with locals y.
To(w, s, y) == pc' = [pc EXCEPT ![w] = s] /\ worker' = [worker EXCEPT ![w] = y]

\* Nobody else's locals move, and w's own stay in order.
OnlyMoves(w) ==
  /\ \A v \in Workers \ {w} : pc'[v] = pc[v] /\ worker'[v] = worker[v]
  /\ pc' \in [Workers -> Steps] /\ worker' \in [Workers -> Locals]
  /\ LocalOK(pc[w], worker[w])'

\* A worker whose new locals are in order is the only one that moves.
LEMMA Moves ==
  ASSUME FleetInv, NEW w \in Workers, NEW s, NEW y, To(w, s, y), LocalOK(s, y)'
  PROVE  OnlyMoves(w) /\ pc'[w] = s /\ worker'[w] = y
<1>1. pc \in [Workers -> Steps] /\ worker \in [Workers -> Locals]
  BY InRange
<1>2. s \in Steps /\ y \in Locals
  BY DEF LocalOK
<1> QED BY <1>1, <1>2 DEF OnlyMoves, To

LEMMA MovesQuietly ==
  ASSUME FleetInv, NEW w \in Workers, NEW s, NEW y, To(w, s, y), LocalOK(s, y),
         UNCHANGED <<revision, ledger>>
  PROVE  OnlyMoves(w) /\ pc'[w] = s /\ worker'[w] = y
<1>1. LocalOK(s, y)'
  BY DEF LocalOK, Minted
<1> QED BY <1>1, Moves

LEMMA Stays ==
  ASSUME FleetInv, NEW w \in Workers, NEW s, pc' = [pc EXCEPT ![w] = s], UNCHANGED worker
  PROVE  To(w, s, worker[w])
BY InRange DEF To

\* The steps that call nobody: reads of the state, verdicts, exceptions.
Internal(w) ==
  \/ Dismiss(w) \/ ReadCommitted(w) \/ Observe(w) \/ Judge(w)
  \/ ReadWorld(w) \/ Number(w) \/ Survey(w) \/ FetchPlan(w) \/ CheckStale(w) \/ Weigh(w)
  \/ Evicted(w) \/ Outlived(w) \/ Fails(w) \/ Dies(w)

Opens(w) == \E x \in Forecasts : StartRun(w, x) \/ \E e \in Events : Deliver(w, e, x)

\* run and disrupt open with a reading of the hazard and leave the store alone.
LEMMA OpensMove ==
  ASSUME FleetInv, NEW w \in Workers, NEW x \in Forecasts, NEW e,
         StartRun(w, x) \/ (e \in Events /\ Deliver(w, e, x))
  PROVE  /\ UNCHANGED <<storeVars, failed>> /\ OnlyMoves(w) /\ worker'[w].fence = Unfenced
         /\ \/ /\ StartRun(w, x) /\ pc'[w] = "create" /\ worker'[w].event = NoEvent
               /\ worker'[w].rev = 0
            \/ /\ Deliver(w, e, x) /\ pc'[w] = "advance" /\ worker'[w].event = e
               /\ e \in Events
<1> USE DEF Idle
<1>1. TypeOK /\ LocalOK("idle", Idle) /\ Idle \in Locals
  BY InRange, IdleIsInOrder
<1>2. CASE StartRun(w, x)
  <2> DEFINE y == [Idle EXCEPT !.hazard = x, !.rev = revision]
  <2>1. To(w, "create", y) /\ UNCHANGED <<storeVars, failed>>
    BY <1>2 DEF StartRun, Reads, To
  <2>2. LocalOK("create", y) /\ y.event = NoEvent /\ y.rev = 0 /\ y.fence = Unfenced
    BY <1>1, <1>2 DEF StartRun, LocalOK, Locals, Steps, Seeding, Reverifying, Verifying, Planned, TypeOK
  <2> HIDE DEF y
  <2> QED BY <1>2, <2>1, <2>2, MovesQuietly DEF storeVars
<1>3. CASE e \in Events /\ Deliver(w, e, x)
  <2> DEFINE y == [Idle EXCEPT !.event = e, !.hazard = x]
  <2>1. To(w, "advance", y) /\ UNCHANGED <<storeVars, failed>>
    BY <1>3 DEF Deliver, Reads, To
  <2>2. LocalOK("advance", y) /\ y.event = e /\ y.fence = Unfenced
    BY <1>1, <1>3, NoEventAssumption
       DEF LocalOK, Locals, Steps, Seeding, Reverifying, Verifying, Planned
  <2> HIDE DEF y
  <2> QED BY <1>3, <2>1, <2>2, MovesQuietly DEF storeVars
<1> QED BY <1>2, <1>3

\* A worker that has set out stays on its errand or gives it up.
GoesOn(w, s, y) ==
  /\ pc[w] \notin {"idle", "advance"} /\ s \notin {"idle", "advance"}
  /\ y.event = worker[w].event /\ y.fence = worker[w].fence /\ y.hazard = worker[w].hazard

OnErrand(w) ==
  /\ pc[w] # "idle"
  /\ GoesOn(w, pc'[w], worker'[w]) \/ (pc'[w] = "idle" /\ worker'[w] = Idle)

LEMMA GoesOnQuietly ==
  ASSUME FleetInv, NEW w \in Workers, NEW s, NEW y, To(w, s, y), LocalOK(s, y), GoesOn(w, s, y),
         UNCHANGED <<revision, ledger>>
  PROVE  OnlyMoves(w) /\ OnErrand(w) /\ pc'[w] = s /\ worker'[w] = y
<1>1. OnlyMoves(w) /\ pc'[w] = s /\ worker'[w] = y
  BY MovesQuietly
<1>2. pc[w] # "idle"
  BY DEF GoesOn
<1> QED BY <1>1, <1>2 DEF OnErrand

LEMMA GivesUpQuietly ==
  ASSUME FleetInv, NEW w \in Workers, To(w, "idle", Idle), pc[w] # "idle",
         UNCHANGED <<revision, ledger>>
  PROVE  OnlyMoves(w) /\ OnErrand(w) /\ pc'[w] = "idle" /\ worker'[w] = Idle
<1>1. LocalOK("idle", Idle)
  BY InRange, IdleIsInOrder
<1>2. OnlyMoves(w) /\ pc'[w] = "idle" /\ worker'[w] = Idle
  BY <1>1, MovesQuietly
<1> QED BY <1>2 DEF OnErrand

\* What a worker reads or decides by itself leaves the store and the roads alone.
LEMMA InternalStep ==
  ASSUME FleetInv, NEW w \in Workers, Internal(w)
  PROVE  UNCHANGED <<storeVars, failed>> /\ OnlyMoves(w) /\ OnErrand(w)
<1> DEFINE x == worker[w]
<1>0. /\ TypeOK /\ LocalOK(pc[w], x) /\ x \in Locals /\ revision \in 0..MaxRevision
      /\ x.event \in Events \cup {NoEvent} /\ pc[w] \in Steps
      /\ pc \in [Workers -> Steps] /\ worker \in [Workers -> Locals]
  BY InRange
<1> USE DEF Steps, Seeding, Reverifying, Verifying, Planned
<1>1. UNCHANGED <<storeVars, failed>> /\ UNCHANGED <<revision, ledger>>
  BY DEF Internal, Dismiss, ReadCommitted, Observe, Judge, ReadWorld, Number, Survey, FetchPlan,
         CheckStale, Weigh, Evicted, Outlived, Fails, Dies, Reads, storeVars
<1>4. CASE Dismiss(w) \/ Evicted(w) \/ Dies(w)
  <2>1. To(w, "idle", Idle) /\ pc[w] # "idle"
    BY <1>4 DEF Dismiss, Evicted, Dies, Leaves, To, FencedSteps
  <2> QED BY <1>1, <2>1, GivesUpQuietly
<1>5. CASE Outlived(w) \/ Fails(w)
  <2>1. /\ pc' = [pc EXCEPT ![w] = "abandon"] /\ UNCHANGED worker
        /\ pc[w] \notin {"idle", "advance"} /\ x.event # NoEvent
    BY <1>0, <1>5 DEF Outlived, Fails, Goto, FencedSteps, AlreadyApplied, Me, Fence, LocalOK
  <2>2. LocalOK("abandon", x) /\ GoesOn(w, "abandon", x)
    BY <1>0, <2>1 DEF LocalOK, GoesOn
  <2>3. To(w, "abandon", x)
    BY <2>1, Stays
  <2> QED BY <1>1, <2>2, <2>3, GoesOnQuietly
<1>6. CASE ReadCommitted(w)
  <2>1. PICK p \in PlanIds \cup {NoPlan} : p = committed
    BY <1>0 DEF TypeOK
  <2> DEFINE y == [x EXCEPT !.plan = p]
             t == IF p = NoPlan THEN "replan" ELSE "observe"
  <2>3. To(w, t, y)
    BY <1>6, <2>1 DEF ReadCommitted, Reads, Me, To
  <2>4. y \in Locals /\ y.rev = x.rev /\ y.event = x.event /\ y.fence = x.fence
        /\ y.hazard = x.hazard /\ y.plan = p
    BY <1>0 DEF Locals
  <2>5. t \in {"replan", "observe"} /\ (t = "observe" => p \in PlanIds)
    OBVIOUS
  <2> HIDE DEF y, t
  <2>6. LocalOK(t, y) /\ GoesOn(w, t, y)
    BY <1>0, <1>6, <2>4, <2>5 DEF ReadCommitted, LocalOK, GoesOn
  <2> QED BY <1>1, <2>3, <2>6, GoesOnQuietly
<1>7. CASE Observe(w) \/ ReadWorld(w)
  <2>1. PICK r \in 0..MaxRevision : r = revision
    BY <1>0
  <2>2. PICK s : \/ pc[w] = "observe" /\ s = "judge" /\ To(w, s, [x EXCEPT !.rev = r])
                 \/ pc[w] = "replan" /\ s = "count" /\ To(w, s, [x EXCEPT !.rev = r])
    BY <1>7, <2>1 DEF Observe, ReadWorld, Reads, Me, To
  <2> DEFINE y == [x EXCEPT !.rev = r]
  <2>3. To(w, s, y)
    BY <2>2
  <2>4. y \in Locals /\ y.rev = r /\ y.event = x.event /\ y.fence = x.fence
        /\ y.hazard = x.hazard /\ y.plan = x.plan
    BY <1>0 DEF Locals
  <2> HIDE DEF y
  <2>5. r <= revision
    BY <2>1, <1>0, BoundAssumption
  <2>6. LocalOK(s, y) /\ GoesOn(w, s, y)
    BY <1>0, <2>2, <2>4, <2>5 DEF LocalOK, GoesOn
  <2> QED BY <1>1, <2>3, <2>6, GoesOnQuietly
<1>8. CASE Judge(w)
  <2>1. PICK s \in {"rebind", "revoke"} : To(w, s, x)
    BY <1>8 DEF Judge, Reads, Me, To
  <2>2. LocalOK(s, x) /\ GoesOn(w, s, x)
    BY <1>0, <1>8 DEF Judge, LocalOK, GoesOn
  <2> QED BY <1>1, <2>1, <2>2, GoesOnQuietly
<1>10. CASE Number(w)
  <2>0. Cardinality(Proposed) + 1 \in 1..MaxPlans
    BY <1>10, ProposedIsFinite, RunAssumption DEF Number
  <2>1. PICK n \in 1..MaxPlans : n = Cardinality(Proposed) + 1
    BY <2>0
  <2>2. To(w, "survey", [x EXCEPT !.plan = <<x.rev, n>>])
    BY <1>10, <2>1 DEF Number, Reads, Me, To
  <2> DEFINE q == <<x.rev, n>>
  <2>a. q \in (0..MaxRevision) \X (1..MaxPlans) /\ q[1] = x.rev
    BY <1>0 DEF Locals
  <2>b. q \in PlanIds
    BY <2>a, RunAssumption
  <2>3. PICK p \in PlanIds : p = <<x.rev, n>> /\ p[1] = x.rev
    BY <2>a, <2>b
  <2> DEFINE y == [x EXCEPT !.plan = p]
  <2>4. y \in Locals /\ y.rev = x.rev /\ y.event = x.event /\ y.fence = x.fence
        /\ y.hazard = x.hazard /\ y.plan = p
    BY <1>0 DEF Locals
  <2>5. To(w, "survey", y)
    BY <2>2, <2>3
  <2> HIDE DEF y
  <2>6. LocalOK("survey", y) /\ GoesOn(w, "survey", y)
    BY <1>0, <1>10, <2>3, <2>4 DEF Number, LocalOK, GoesOn
  <2> QED BY <1>1, <2>5, <2>6, GoesOnQuietly
<1>11. CASE Survey(w)
  <2>1. PICK a \in Assignments : a = Assignment(x.hazard, failed)
    BY AssignmentFits
  <2> DEFINE y == [x EXCEPT !.proposal = a]
  <2>2. To(w, "propose", y)
    BY <1>11, <2>1 DEF Survey, Reads, Me, To
  <2>3. y \in Locals /\ y.rev = x.rev /\ y.event = x.event /\ y.fence = x.fence
        /\ y.hazard = x.hazard /\ y.plan = x.plan /\ y.proposal = a
    BY <1>0 DEF Locals
  <2> HIDE DEF y
  <2>4. LocalOK("propose", y) /\ GoesOn(w, "propose", y)
    BY <1>0, <1>11, <2>3 DEF Survey, LocalOK, GoesOn
  <2> QED BY <1>1, <2>2, <2>4, GoesOnQuietly
<1>12. CASE FetchPlan(w)
  <2>1. x.plan \in PlanIds
    BY <1>0, <1>12 DEF FetchPlan, LocalOK
  <2>2. PICK a \in Assignments \cup {NoProposal}, b \in 0..MaxRevision :
          a = plans[x.plan].proposal /\ b = plans[x.plan].basis
    BY <1>0, <2>1, RunAssumption DEF TypeOK, Plan
  <2> DEFINE y == [x EXCEPT !.proposal = a, !.basis = b]
  <2>3. To(w, "stale", y)
    BY <1>12, <2>2 DEF FetchPlan, Reads, Me, To
  <2>4. y \in Locals /\ y.rev = x.rev /\ y.event = x.event /\ y.fence = x.fence
        /\ y.hazard = x.hazard /\ y.plan = x.plan
    BY <1>0 DEF Locals
  <2> HIDE DEF y
  <2>5. LocalOK("stale", y) /\ GoesOn(w, "stale", y)
    BY <1>0, <1>12, <2>4 DEF FetchPlan, LocalOK, GoesOn
  <2> QED BY <1>1, <2>3, <2>5, GoesOnQuietly
<1>13. CASE CheckStale(w) \/ Weigh(w)
  <2>1. PICK s \in {"weigh", "reject", "mark"} : To(w, s, x)
    BY <1>13 DEF CheckStale, Weigh, Reads, Me, To
  <2>2. LocalOK(s, x) /\ GoesOn(w, s, x)
    BY <1>0, <1>13 DEF CheckStale, Weigh, LocalOK, GoesOn
  <2> QED BY <1>1, <2>1, <2>2, GoesOnQuietly
<1> QED BY <1>1, <1>4, <1>5, <1>6, <1>7, <1>8, <1>10, <1>11, <1>12, <1>13 DEF Internal

\* The steps that call the store under the worker's fence.
Calls(w) ==
  \/ CreateVehicle(w) \/ ClaimVehicle(w) \/ Rebind(w) \/ Withdraws(w)
  \/ Propose(w) \/ Reject(w) \/ Mark(w) \/ Commit(w)

\* A call on plans and vehicles is one the store allows, under a fence it minted,
\* and neither moves the world nor touches the ledger.
LEMMA CallIsACall ==
  ASSUME FleetInv, NEW w \in Workers, Calls(w)
  PROVE  /\ Fence(w) \in Fences /\ Minted(Fence(w)) /\ FenceHolds(Fence(w)) /\ Call(Fence(w))
         /\ UNCHANGED <<revision, ledger, failed>>
         /\ (pc[w] \in Seeding => worker[w].event = NoEvent)
<1> DEFINE x == worker[w]
           f == Fence(w)
<1>0. /\ TypeOK /\ LocalOK(pc[w], x) /\ x \in Locals /\ revision \in 0..MaxRevision
      /\ f \in Fences /\ f = x.fence
  BY InRange
<1>1. Minted(f) /\ 0..MaxRevision \subseteq Nat /\ x.rev \in 0..revision
  BY <1>0, BoundAssumption DEF LocalOK, Locals
<1>2. pc[w] \in Seeding => worker[w].event = NoEvent
  BY <1>0 DEF LocalOK, Seeding
<1> USE DEF Me
<1>3. CASE CreateVehicle(w) \/ ClaimVehicle(w)
  <2>1. PICK v \in Vehicles : v = VehicleOrder[x.k]
    BY <1>0, RunOrders DEF Locals
  <2>2. CreateWork(v, f) \/ Claim(v, TeamOf[v], f)
    BY <1>3, <2>1 DEF CreateVehicle, ClaimVehicle
  <2>3. v \in WorkItems /\ TeamOf[v] \in Actors
    BY RunAssumption
  <2>4. WorkCall(v, f)
    BY <2>2, <2>3 DEF WorkCall
  <2>5. FenceHolds(f) /\ UNCHANGED <<revision, ledger>>
    BY <2>2 DEF CreateWork, Claim
  <2>6. UNCHANGED failed
    BY <1>3 DEF CreateVehicle, ClaimVehicle
  <2> QED BY <1>0, <1>1, <1>2, <2>3, <2>4, <2>5, <2>6 DEF Call
<1>4. CASE Rebind(w) \/ Withdraws(w)
  <2>1. x.plan \in PlanIds
    BY <1>0, <1>4 DEF LocalOK, Rebind, Withdraws, Reverifying
  <2>2. CommitmentCall(x.plan, f)
    BY <1>1, <1>4 DEF CommitmentCall, Rebind, Withdraws
  <2>3. FenceHolds(f) /\ UNCHANGED <<revision, ledger, failed>>
    BY <1>4 DEF Rebind, Withdraws, RebindPlan, RevokeIfRevisionCurrent, RevokeIfStale, Withdraw
  <2> QED BY <1>0, <1>1, <1>2, <2>1, <2>2, <2>3 DEF Call
<1>5. CASE Propose(w) \/ Reject(w) \/ Mark(w) \/ Commit(w)
  <2>1. x.plan \in PlanIds /\ (Propose(w) => x.proposal \in Proposals)
    BY <1>0, <1>5, RunAssumption
       DEF LocalOK, Propose, Reject, Mark, Commit, Planned, Verifying
  <2>2. PlanCall(x.plan, f)
    BY <1>1, <1>5, <2>1 DEF PlanCall, Propose, Reject, Mark, Commit
  <2>3. FenceHolds(f) /\ UNCHANGED <<revision, ledger, failed>>
    BY <1>5 DEF Propose, Reject, Mark, Commit, AddPlan, RejectPlan, MarkVerified, CommitPlan
  <2> QED BY <1>0, <1>1, <1>2, <2>1, <2>2, <2>3 DEF Call
<1> QED BY <1>3, <1>4, <1>5 DEF Calls

\* After a plan is settled: the next plan of run(), or the way out.
LEMMA OnwardMoves ==
  ASSUME FleetInv, NEW w \in Workers, Onward(w), pc[w] \in Verifying,
         UNCHANGED <<revision, ledger>>
  PROVE  /\ OnlyMoves(w) /\ OnErrand(w)
         /\ \/ pc'[w] = "idle" /\ worker'[w] = Idle /\ worker[w].event = NoEvent
            \/ pc'[w] = "complete" /\ worker'[w] = worker[w] /\ worker[w].event # NoEvent
            \/ /\ pc'[w] = "survey" /\ worker'[w].plan = <<worker[w].rev, 2>>
               /\ worker'[w].rev = worker[w].rev
               /\ worker[w].event = NoEvent /\ worker[w].plan = <<worker[w].rev, 1>>
<1> DEFINE x == worker[w]
<1>0. /\ LocalOK(pc[w], x) /\ x \in Locals
      /\ pc \in [Workers -> Steps] /\ worker \in [Workers -> Locals]
  BY InRange
<1> USE DEF Me
<1>1. CASE x.event = NoEvent /\ x.plan = <<x.rev, 1>>
  <2>1. PICK p \in PlanIds : p = <<x.rev, 2>> /\ p[1] = x.rev
    BY <1>0, RunOrders DEF Locals
  <2> DEFINE y == [x EXCEPT !.plan = p]
  <2>2. To(w, "survey", y)
    BY <1>0, <1>1, <2>1 DEF Onward, To
  <2>3. y \in Locals /\ y.rev = x.rev /\ y.event = x.event /\ y.fence = x.fence
        /\ y.hazard = x.hazard /\ y.plan = p
    BY <1>0 DEF Locals
  <2> HIDE DEF y
  <2>4. LocalOK("survey", y) /\ GoesOn(w, "survey", y)
    BY <1>0, <2>1, <2>3 DEF LocalOK, GoesOn, Steps, Seeding, Reverifying, Verifying, Planned
  <2>5. OnlyMoves(w) /\ OnErrand(w) /\ pc'[w] = "survey" /\ worker'[w] = y
    BY <2>2, <2>4, GoesOnQuietly
  <2> QED BY <1>1, <2>1, <2>3, <2>5
<1>2. CASE ~(x.event = NoEvent /\ x.plan = <<x.rev, 1>>) /\ x.event = NoEvent
  <2>1. To(w, "idle", Idle) /\ pc[w] # "idle"
    BY <1>2 DEF Onward, Leaves, To, Verifying
  <2> QED BY <1>2, <2>1, GivesUpQuietly
<1>3. CASE x.event # NoEvent
  <2>1. pc' = [pc EXCEPT ![w] = "complete"] /\ UNCHANGED worker
    BY <1>3 DEF Onward, Goto
  <2>2. LocalOK("complete", x) /\ GoesOn(w, "complete", x)
    BY <1>0, <1>3 DEF LocalOK, GoesOn, Steps, Seeding, Reverifying, Verifying, Planned
  <2> QED BY <1>3, <2>1, <2>2, Stays, GoesOnQuietly
<1> QED BY <1>1, <1>2, <1>3

\* A caller's locals stay in order, and it stays on its errand.
LEMMA CallMoves ==
  ASSUME FleetInv, NEW w \in Workers, Calls(w)
  PROVE  OnlyMoves(w) /\ OnErrand(w)
<1> DEFINE x == worker[w]
<1>0. /\ TypeOK /\ LocalOK(pc[w], x) /\ x \in Locals /\ revision \in 0..MaxRevision
      /\ pc \in [Workers -> Steps] /\ worker \in [Workers -> Locals]
      /\ UNCHANGED <<revision, ledger>> /\ (pc[w] \in Seeding => x.event = NoEvent)
  BY InRange, CallIsACall
<1> USE DEF Me
<1>1. CASE CreateVehicle(w) \/ ClaimVehicle(w)
  <2>1. x.k \in 1..Len(VehicleOrder) /\ Len(VehicleOrder) \in Nat \ {0}
    BY <1>0, RunOrders DEF Locals
  <2>2. pc[w] \in Seeding /\ pc[w] # "idle" /\ x.event = NoEvent
    BY <1>0, <1>1 DEF CreateVehicle, ClaimVehicle, Seeding
  <2>3. \/ Leaves(w)
        \/ \E s \in Seeding, k \in 1..Len(VehicleOrder) : To(w, s, [x EXCEPT !.k = k])
        \/ To(w, "propose", [x EXCEPT !.plan = <<x.rev, 1>>, !.proposal = NaiveAssignment])
    <3>1. CASE x.k < Len(VehicleOrder)
      <4>1. PICK k \in 1..Len(VehicleOrder) : k = x.k + 1
        BY <2>1, <3>1
      <4>2. pc = [pc EXCEPT ![w] = pc[w]]
        BY <1>0
      <4> QED BY <1>0, <1>1, <2>2, <3>1, <4>1, <4>2 DEF CreateVehicle, ClaimVehicle, To
    <3>2. CASE ~(x.k < Len(VehicleOrder))
      <4>1. 1 \in 1..Len(VehicleOrder)
        BY RunOrders
      <4> QED BY <1>0, <1>1, <3>2, <4>1 DEF CreateVehicle, ClaimVehicle, To, Seeding
    <3> QED BY <3>1, <3>2
  <2>4. CASE Leaves(w)
    BY <1>0, <2>2, <2>4, GivesUpQuietly DEF Leaves, To
  <2>5. ASSUME NEW s \in Seeding, NEW k \in 1..Len(VehicleOrder), To(w, s, [x EXCEPT !.k = k])
        PROVE  OnlyMoves(w) /\ OnErrand(w)
    <3> DEFINE y == [x EXCEPT !.k = k]
    <3>1. y \in Locals /\ y.rev = x.rev /\ y.event = x.event /\ y.fence = x.fence
          /\ y.hazard = x.hazard /\ y.plan = x.plan
      BY <1>0 DEF Locals
    <3>2. To(w, s, y)
      BY <2>5
    <3> HIDE DEF y
    <3>3. LocalOK(s, y) /\ GoesOn(w, s, y)
      BY <1>0, <2>2, <3>1 DEF LocalOK, GoesOn, Steps, Seeding, Reverifying, Verifying, Planned
    <3> QED BY <1>0, <3>2, <3>3, GoesOnQuietly
  <2>6. CASE To(w, "propose", [x EXCEPT !.plan = <<x.rev, 1>>, !.proposal = NaiveAssignment])
    <3>1. PICK p \in PlanIds : p = <<x.rev, 1>> /\ p[1] = x.rev
      BY <1>0, RunOrders DEF Locals
    <3> DEFINE y == [x EXCEPT !.plan = p, !.proposal = NaiveAssignment]
    <3>2. y \in Locals /\ y.rev = x.rev /\ y.event = x.event /\ y.fence = x.fence
          /\ y.hazard = x.hazard /\ y.plan = p /\ y.proposal = NaiveAssignment
      BY <1>0, RunOrders DEF Locals
    <3>3. To(w, "propose", y)
      BY <2>6, <3>1
    <3> HIDE DEF y
    <3>4. LocalOK("propose", y) /\ GoesOn(w, "propose", y)
      BY <1>0, <2>2, <3>1, <3>2, RunOrders
         DEF LocalOK, GoesOn, Steps, Seeding, Reverifying, Verifying, Planned
    <3> QED BY <1>0, <3>3, <3>4, GoesOnQuietly
  <2> QED BY <2>3, <2>4, <2>5, <2>6
<1>2. CASE Rebind(w) \/ Withdraws(w)
  <2>1. PICK s \in {"complete", "revoke_stale", "replan"} :
          pc' = [pc EXCEPT ![w] = s] /\ UNCHANGED worker
    BY <1>2 DEF Rebind, Withdraws, Goto
  <2>2. LocalOK(s, x) /\ GoesOn(w, s, x)
    BY <1>0, <1>2 DEF Rebind, Withdraws, LocalOK, GoesOn, Steps, Seeding, Reverifying, Verifying, Planned
  <2> QED BY <1>0, <2>1, <2>2, Stays, GoesOnQuietly
<1>3. CASE Propose(w)
  <2>1. pc' = [pc EXCEPT ![w] = "fetch"] /\ UNCHANGED worker
    BY <1>3 DEF Propose, Goto
  <2>2. LocalOK("fetch", x) /\ GoesOn(w, "fetch", x)
    BY <1>0, <1>3 DEF Propose, LocalOK, GoesOn, Steps, Seeding, Reverifying, Verifying, Planned
  <2> QED BY <1>0, <2>1, <2>2, Stays, GoesOnQuietly
<1>4. CASE Reject(w) \/ Mark(w) \/ Commit(w)
  <2>1. pc[w] \in Verifying /\ pc[w] # "idle"
    BY <1>4 DEF Reject, Mark, Commit, Verifying
  <2>2. CASE Onward(w)
    BY <1>0, <2>1, <2>2, OnwardMoves
  <2>3. CASE Leaves(w)
    BY <1>0, <2>1, <2>3, GivesUpQuietly DEF Leaves, To
  <2>4. CASE Goto(w, "commit") \/ (Goto(w, "complete") /\ x.event # NoEvent)
    <3>1. PICK s \in {"commit", "complete"} : /\ pc' = [pc EXCEPT ![w] = s] /\ UNCHANGED worker
                                              /\ s = "complete" => x.event # NoEvent
      BY <2>4 DEF Goto
    <3>2. LocalOK(s, x) /\ GoesOn(w, s, x)
      BY <1>0, <2>1, <3>1 DEF LocalOK, GoesOn, Steps, Seeding, Reverifying, Verifying, Planned
    <3> QED BY <1>0, <3>1, <3>2, Stays, GoesOnQuietly
  <2> QED BY <1>4, <2>2, <2>3, <2>4 DEF Reject, Mark, Commit
<1> QED BY <1>1, <1>2, <1>3, <1>4 DEF Calls

\* advance_revision hands out a fence nobody holds.
LEMMA Advances ==
  ASSUME FleetInv, NEW w \in Workers, Advance(w)
  PROVE  /\ AbsorbEvent(worker[w].event) \/ ResumeEvent(worker[w].event)
         /\ World /\ UNCHANGED <<plans, committed, work, failed>> /\ OnlyMoves(w)
         /\ \A v \in Workers : v # w => Fence(v) # Fence(w)'
         /\ pc[w] = "advance" /\ pc'[w] = "emit" /\ worker[w].event \in Events
         /\ worker'[w].event = worker[w].event /\ worker'[w].hazard = worker[w].hazard
         /\ worker'[w].fence = [event |-> worker[w].event,
                                attempt |-> ledger'[worker[w].event].attempt]
<1> DEFINE x == worker[w]
           e == x.event
<1>0. /\ TypeOK /\ UnseenIsUntried /\ LocalOK(pc[w], x) /\ x \in Locals
      /\ pc \in [Workers -> Steps] /\ worker \in [Workers -> Locals]
      /\ pc[w] = "advance" /\ e \in Events
  <2>1. LocalOK(pc[w], x) /\ x.event \in Events \cup {NoEvent} /\ pc[w] = "advance"
    BY InRange DEF Advance
  <2>2. e # NoEvent
    BY <2>1 DEF LocalOK, Seeding, Verifying, Planned
  <2> QED BY <2>1, <2>2, InRange
<1> USE DEF Me
<1>1. AbsorbEvent(e) \/ ResumeEvent(e)
  BY DEF Advance
<1>2. World /\ UNCHANGED <<plans, committed, work>> /\ UNCHANGED failed
  BY <1>0, <1>1 DEF World, AbsorbEvent, ResumeEvent, Advance
<1>3. /\ TypeOK' /\ revision <= revision'
      /\ \A d \in Events : ledger[d].attempt <= ledger'[d].attempt
  BY <1>0, <1>2, AttemptsGrow DEF StoreNext
<1>4. /\ ledger'[e].attempt \in 1..MaxAttempt /\ ledger[e].attempt \in Nat
      /\ ledger[e].attempt < ledger'[e].attempt
  BY <1>0, <1>1, BoundAssumption DEF AbsorbEvent, ResumeEvent, TypeOK, LedgerEntry, UnseenIsUntried
<1>5. PICK f \in Fences : /\ f = [event |-> e, attempt |-> ledger'[e].attempt]
                          /\ f # Unfenced /\ f.event = e /\ f.attempt = ledger'[e].attempt
  <2> DEFINE g == [event |-> e, attempt |-> ledger'[e].attempt]
  <2>1. g \in Fences /\ g.event = e /\ g.attempt = ledger'[e].attempt
    BY <1>0, <1>4 DEF Fences
  <2>2. g # Unfenced
    BY <1>0, NoEventAssumption DEF Unfenced
  <2> QED BY <2>1, <2>2
<1>6. PICK y : y = [x EXCEPT !.fence = f]
  OBVIOUS
<1>7. /\ y \in Locals /\ y.fence = f /\ y.event = e /\ y.rev = x.rev /\ y.hazard = x.hazard
  BY <1>0, <1>5, <1>6 DEF Locals
<1>8. LocalOK("emit", y)'
  <2>1. y.rev <= revision'
    BY <1>0, <1>3, <1>7, BoundAssumption DEF LocalOK, TypeOK, Locals
  <2>2. Minted(y.fence)'
    BY <1>0, <1>4, <1>5, <1>7 DEF Minted
  <2> QED BY <1>0, <1>5, <1>7, <2>1, <2>2, NoEventAssumption
          DEF LocalOK, Steps, Seeding, Reverifying, Verifying, Planned
<1>9. OnlyMoves(w) /\ pc'[w] = "emit" /\ worker'[w] = y
  <2>1. To(w, "emit", y)
    BY <1>0, <1>5, <1>6 DEF Advance, To
  <2> QED BY <1>8, <2>1, Moves
<1>10. \A v \in Workers : v # w => Fence(v) # f
  <2> SUFFICES ASSUME NEW v \in Workers, v # w, Fence(v) = f PROVE FALSE
    OBVIOUS
  <2>1. Minted(f)
    BY InRange DEF LocalOK, Fence
  <2> QED BY <1>4, <1>5, <2>1 DEF Minted
<1>11. Fence(w)' = f
  BY <1>7, <1>9 DEF Fence
<1> QED BY <1>0, <1>1, <1>2, <1>5, <1>7, <1>9, <1>10, <1>11

\* complete_event and abandon_event, or nothing where the event is applied.
LEMMA EndsIt ==
  ASSUME FleetInv, NEW w \in Workers, Finish(w) \/ Abandon(w)
  PROVE  /\ worker[w].event \in Events /\ Fence(w) \in Fences /\ Minted(Fence(w))
         /\ Fence(w) # Unfenced /\ Fence(w).event = worker[w].event
         /\ \/ UNCHANGED storeVars /\ ledger[worker[w].event].stage = "applied"
            \/ /\ FenceHolds(Fence(w)) /\ UNCHANGED <<revision, plans, committed, work>>
               /\ \/ Finish(w) /\ CompleteEvent(worker[w].event, Fence(w))
                  \/ Abandon(w) /\ AbandonEvent(worker[w].event, Fence(w))
         /\ UNCHANGED failed /\ OnlyMoves(w) /\ OnErrand(w) /\ pc'[w] = "idle"
<1> DEFINE x == worker[w]
           e == x.event
<1>0. /\ TypeOK /\ UnseenIsUntried /\ LocalOK(pc[w], x) /\ x \in Locals
      /\ pc \in [Workers -> Steps] /\ worker \in [Workers -> Locals]
      /\ pc[w] \in {"complete", "abandon"} /\ e \in Events
      /\ Fence(w) \in Fences /\ Fence(w) = x.fence
  <2>1. LocalOK(pc[w], x) /\ x.event \in Events \cup {NoEvent} /\ pc[w] \in {"complete", "abandon"}
    BY InRange DEF Finish, Abandon
  <2>2. e # NoEvent
    BY <2>1 DEF LocalOK, Seeding, Verifying, Planned
  <2> QED BY <2>1, <2>2, InRange
<1> USE DEF Me
<1>1. Minted(Fence(w)) /\ Fence(w) # Unfenced /\ Fence(w).event = e
  BY <1>0, NoEventAssumption DEF LocalOK
<1>2. \/ UNCHANGED storeVars /\ ledger[e].stage = "applied"
      \/ /\ FenceHolds(Fence(w)) /\ UNCHANGED <<revision, plans, committed, work>>
         /\ \/ Finish(w) /\ CompleteEvent(e, Fence(w))
            \/ Abandon(w) /\ AbandonEvent(e, Fence(w))
  BY DEF Finish, Abandon, Finished, CompleteEvent, AbandonEvent
<1>3. [StoreNext]_storeVars /\ UNCHANGED failed
  BY <1>0, <1>1, <1>2 DEF StoreNext, Call, Finish, Abandon
<1>4. TypeOK' /\ revision <= revision'
      /\ \A d \in Events : ledger[d].attempt <= ledger'[d].attempt
  BY <1>0, <1>3, AttemptsGrow
<1>5. LocalOK("idle", Idle) /\ Idle \in Locals
  BY <1>0, IdleIsInOrder
<1>6. LocalOK("idle", Idle)'
  BY <1>0, <1>4, <1>5, LocalFrame
<1>7. To(w, "idle", Idle) /\ pc[w] # "idle"
  BY <1>0 DEF Finish, Abandon, Leaves, To
<1>8. OnlyMoves(w) /\ pc'[w] = "idle" /\ worker'[w] = Idle
  BY <1>6, <1>7, Moves
<1> QED BY <1>0, <1>1, <1>2, <1>3, <1>7, <1>8 DEF OnErrand

\* The failed edges go on the record in one step, between advancing and judging.
LEMMA Emits ==
  ASSUME FleetInv, NEW w \in Workers, EmitFailures(w)
  PROVE  /\ UNCHANGED storeVars /\ OnlyMoves(w) /\ OnErrand(w)
         /\ pc[w] = "emit" /\ pc'[w] = "committed" /\ worker'[w] = worker[w]
         /\ worker[w].event \in Events
         /\ failed' = failed \cup FailedBy[worker[w].event] /\ failed' \subseteq Edges
<1> DEFINE x == worker[w]
<1>0. /\ LocalOK(pc[w], x) /\ x \in Locals /\ x.event \in Events \cup {NoEvent}
      /\ pc[w] = "emit" /\ failed \subseteq Edges
  BY InRange DEF EmitFailures, FleetInv, FleetTypeOK
<1>1. x.event # NoEvent
  BY <1>0 DEF LocalOK, Seeding, Verifying, Planned
<1>2. /\ UNCHANGED storeVars /\ UNCHANGED <<revision, ledger>>
      /\ pc' = [pc EXCEPT ![w] = "committed"] /\ UNCHANGED worker
      /\ failed' = failed \cup FailedBy[x.event]
  BY DEF EmitFailures, Goto, Me, storeVars
<1>3. LocalOK("committed", x) /\ GoesOn(w, "committed", x)
  BY <1>0, <1>1 DEF LocalOK, GoesOn, Steps, Seeding, Reverifying, Verifying, Planned
<1>4. OnlyMoves(w) /\ OnErrand(w) /\ pc'[w] = "committed" /\ worker'[w] = x
  BY <1>2, <1>3, Stays, GoesOnQuietly
<1> QED BY <1>0, <1>1, <1>2, <1>4, RunAssumption

\* What others do to the store: a rival's claim, a lease that runs out.
Outside == (\E v \in Wanted : RivalClaims(v)) \/ \E e \in Events : Silence(e)

\* A rival or a lapsing lease moves neither the world nor a plan nor a worker's locals.
LEMMA OutsideIsQuiet ==
  ASSUME FleetInv, Outside
  PROVE  [StoreNext]_storeVars /\ UNCHANGED <<revision, plans, committed, pc, worker, failed>>
<1>1. ASSUME NEW v \in Wanted, NEW a \in Rivals, Claim(v, a, Unfenced)
      PROVE  StoreNext /\ UNCHANGED <<revision, plans, committed>>
  <2>1. v \in WorkItems /\ a \in Actors /\ Unfenced \in Fences /\ Minted(Unfenced)
    BY RunAssumption DEF Fences, Minted
  <2>2. Call(Unfenced)
    BY <1>1, <2>1 DEF Call, WorkCall
  <2> QED BY <1>1, <2>1, <2>2 DEF StoreNext, Claim
<1>2. ASSUME NEW e \in Events, LeaseLapses(e)
      PROVE  StoreNext /\ UNCHANGED <<revision, plans, committed>>
  BY <1>2 DEF StoreNext, World, LeaseLapses
<1> QED BY <1>1, <1>2 DEF Outside, RivalClaims, Silence

\* The steps of the fleet, as the lemmas below take them.
LEMMA FleetCases ==
  ASSUME FleetNext
  PROVE  \/ \E w \in Workers, x \in Forecasts : StartRun(w, x) \/ \E e \in Events : Deliver(w, e, x)
         \/ \E w \in Workers : \/ Internal(w) \/ Calls(w) \/ Advance(w)
                               \/ Finish(w) \/ Abandon(w) \/ EmitFailures(w)
         \/ Outside
BY DEF FleetNext, Outside, Internal, Calls, Seed, Reverify, Replan, Verify, Leave

-----------------------------------------------------------------------------
(* Whatever the interleaving: the locals, the fences and the store *)

\* A call under a fence only the right way round: w's own, or a fresh one.
LEMMA FencesFrame ==
  ASSUME FleetInv, NEW w \in Workers, OnlyMoves(w),
         Fence(w)' = Unfenced \/ \A v \in Workers : v # w => Fence(v) # Fence(w)'
  PROVE  FencesAreOwn'
BY DEF FencesAreOwn, OnlyMoves, Fence, FleetInv

\* Who stays on its errand keeps its fence, so attempts remain distinct.
LEMMA ErrandKeepsFence ==
  ASSUME FleetInv, NEW w \in Workers, OnlyMoves(w), OnErrand(w)
  PROVE  FencesAreOwn'
<1>1. Fence(w)' = Fence(w) \/ Fence(w)' = Unfenced
  BY DEF OnErrand, GoesOn, Idle, Fence
<1>2. CASE Fence(w)' = Fence(w)
  BY <1>2 DEF FencesAreOwn, OnlyMoves, Fence, FleetInv
<1>3. CASE Fence(w)' = Unfenced
  BY <1>3, FencesFrame
<1> QED BY <1>1, <1>2, <1>3

\* A step of one worker under the store's specification keeps the fleet in order.
LEMMA MoveKeepsOrder ==
  ASSUME FleetInv, [StoreNext]_storeVars, failed' \subseteq Edges, NEW w \in Workers,
         OnlyMoves(w), FencesAreOwn'
  PROVE  FleetInv'
<1>1. /\ TypeOK /\ UnseenIsUntried /\ \A v \in Workers : LocalOK(pc[v], worker[v])
  BY InRange
<1>2. /\ TypeOK' /\ revision <= revision'
      /\ \A e \in Events : ledger[e].attempt <= ledger'[e].attempt
  BY <1>1, AttemptsGrow
<1>3. EventsOwnTheirRevisions'
  BY <1>1, OwnershipStep DEF FleetInv
<1>4. ASSUME NEW v \in Workers PROVE LocalOK(pc[v], worker[v])'
  <2>1. CASE v = w
    BY <2>1 DEF OnlyMoves
  <2>2. CASE v # w
    <3>1. PICK s, x : s = pc[v] /\ x = worker[v]
      OBVIOUS
    <3>2. LocalOK(s, x)
      BY <1>1, <3>1
    <3>3. LocalOK(s, x)'
      BY <1>1, <1>2, <3>2, LocalFrame
    <3>4. pc'[v] = s /\ worker'[v] = x
      BY <2>2, <3>1 DEF OnlyMoves
    <3> QED BY <3>3, <3>4
  <2> QED BY <2>1, <2>2
<1>5. FleetTypeOK'
  BY <1>2 DEF OnlyMoves, FleetTypeOK
<1> QED BY <1>3, <1>4, <1>5 DEF FleetInv

\* A step of the fleet is a step of the store, under a fence the store handed
\* out, and leaves every worker's locals in order.
LEMMA FleetStep ==
  ASSUME FleetInv, [FleetNext]_fleetVars
  PROVE  FleetInv' /\ [StoreNext]_storeVars
<1>0. failed \subseteq Edges /\ TypeOK /\ UnseenIsUntried
  BY InRange DEF FleetInv, FleetTypeOK
<1>1. ASSUME NEW w \in Workers, NEW x \in Forecasts, NEW e,
             StartRun(w, x) \/ (e \in Events /\ Deliver(w, e, x))
      PROVE  FleetInv' /\ [StoreNext]_storeVars
  <2>1. UNCHANGED <<storeVars, failed>> /\ OnlyMoves(w) /\ Fence(w)' = Unfenced
    BY <1>1, OpensMove DEF Fence
  <2> QED BY <1>0, <2>1, FencesFrame, MoveKeepsOrder
<1>2. ASSUME NEW w \in Workers, Internal(w)
      PROVE  FleetInv' /\ [StoreNext]_storeVars
  BY <1>0, <1>2, InternalStep, ErrandKeepsFence, MoveKeepsOrder
<1>3. ASSUME NEW w \in Workers, Calls(w)
      PROVE  FleetInv' /\ [StoreNext]_storeVars
  <2>1. StoreNext /\ UNCHANGED failed
    BY <1>3, CallIsACall DEF StoreNext
  <2> QED BY <1>0, <1>3, <2>1, CallMoves, ErrandKeepsFence, MoveKeepsOrder
<1>4. ASSUME NEW w \in Workers, Advance(w)
      PROVE  FleetInv' /\ [StoreNext]_storeVars
  <2>1. StoreNext /\ UNCHANGED failed /\ OnlyMoves(w)
        /\ \A v \in Workers : v # w => Fence(v) # Fence(w)'
    BY <1>4, Advances DEF StoreNext
  <2> QED BY <1>0, <2>1, FencesFrame, MoveKeepsOrder
<1>5. ASSUME NEW w \in Workers, Finish(w) \/ Abandon(w)
      PROVE  FleetInv' /\ [StoreNext]_storeVars
  <2>1. [StoreNext]_storeVars /\ UNCHANGED failed /\ OnlyMoves(w) /\ OnErrand(w)
    BY <1>5, EndsIt DEF StoreNext, Call
  <2> QED BY <1>0, <2>1, ErrandKeepsFence, MoveKeepsOrder
<1>6. ASSUME NEW w \in Workers, EmitFailures(w)
      PROVE  FleetInv' /\ [StoreNext]_storeVars
  BY <1>6, Emits, ErrandKeepsFence, MoveKeepsOrder
<1>7. CASE Outside \/ UNCHANGED fleetVars
  <2>1. [StoreNext]_storeVars /\ UNCHANGED <<pc, worker, failed>>
    BY <1>7, OutsideIsQuiet DEF fleetVars
  <2>2. TypeOK' /\ revision <= revision'
        /\ \A e \in Events : ledger[e].attempt <= ledger'[e].attempt
    BY <1>0, <2>1, AttemptsGrow
  <2>3. EventsOwnTheirRevisions'
    BY <1>0, <2>1, OwnershipStep DEF FleetInv
  <2>4. ASSUME NEW v \in Workers PROVE LocalOK(pc[v], worker[v])'
    <3>1. PICK s, x : s = pc[v] /\ x = worker[v]
      OBVIOUS
    <3>2. LocalOK(s, x)'
      BY <1>0, <2>2, <3>1, InRange, LocalFrame
    <3> QED BY <2>1, <3>1, <3>2
  <2>5. FleetTypeOK' /\ FencesAreOwn'
    BY <2>1, <2>2 DEF FleetInv, FleetTypeOK, FencesAreOwn, Fence
  <2> QED BY <2>1, <2>3, <2>4, <2>5 DEF FleetInv
<1>8. CASE FleetNext
  <2>1. ASSUME NEW w \in Workers, NEW x \in Forecasts,
               StartRun(w, x) \/ \E e \in Events : Deliver(w, e, x)
        PROVE  FleetInv' /\ [StoreNext]_storeVars
    BY <1>1, <2>1
  <2> QED BY <1>2, <1>3, <1>4, <1>5, <1>6, <1>7, <1>8, <2>1, FleetCases
<1> QED BY <1>7, <1>8

\* Locals and the record stay in range under every schedule of runs, deliveries,
\* redeliveries and failures; an assignment the planner computes is one.
THEOREM FleetTyped == FleetSpec => []FleetTypeOK
<1>1. FleetInit => FleetInv
  BY FleetOpens
<1>2. FleetInv /\ [FleetNext]_fleetVars => FleetInv'
  BY FleetStep
<1>3. FleetInv => FleetTypeOK
  BY DEF FleetInv
<1> QED BY <1>1, <1>2, <1>3, PTL DEF FleetSpec

\* The fleet implements the store under arbitrary clients: what run() and
\* disrupt() do to it, with whatever fence, is what StateStore allows.
THEOREM FleetUsesTheStore == FleetSpec => StoreSpec
<1>1. FleetInit => FleetInv /\ StoreInit
  BY FleetOpens DEF FleetInit
<1>2. FleetInv /\ [FleetNext]_fleetVars => FleetInv' /\ [StoreNext]_storeVars
  BY FleetStep
<1> QED BY <1>1, <1>2, PTL DEF FleetSpec, StoreSpec

\* Hence in the fleet, too, nothing commits on a verdict from before the last
\* event, an event moves the world once, and an application changes hands only
\* after a failure or a silence.
THEOREM FleetInheritsTheStore ==
  FleetSpec => NoStaleCommit /\ StoreAbsorbsOnce /\ HandoverNeedsSilence
BY FleetUsesTheStore, StoreCommitsFresh, StoreImplementsAbsorbOnce, StoreHandover, PTL

\* A worker that may still write: past advance_revision, and its fence holds.
Owner(w) == pc[w] \notin {"idle", "advance"} /\ FenceHolds(Fence(w))

Live(w) == pc[w] # "idle" /\ ~Finished(w)

\* Who is about belongs to one event, the only one that is pending, and the
\* world has not moved since that event moved it.
OneAtATime ==
  /\ \A v, w \in Workers : v # w /\ Live(v) /\ Live(w) =>
       worker[v].event = worker[w].event /\ worker[v].event # NoEvent
  /\ \A w \in Workers, e \in Events :
       Live(w) /\ ledger[e].stage \in Pending => worker[w].event = e
  /\ \A d, e \in Events : ledger[d].stage \in Pending /\ ledger[e].stage \in Pending => d = e
  /\ \A e \in Events : ledger[e].stage \in Pending => ledger[e].revision = revision

\* Nothing is delivered before run() has opened the first vehicle, nor while it
\* plans.
RunComesFirst ==
  /\ ~Created(VehicleOrder[1]) =>
       /\ \A w \in Workers : /\ worker[w].event = NoEvent
                             /\ pc[w] = "idle" \/ (pc[w] = "create" /\ worker[w].k = 1)
       /\ \A e \in Events : ledger[e].stage = "unseen"
       /\ revision = 0 /\ committed = NoPlan /\ Proposed = {}
  /\ \A w \in Workers : Planning(w) =>
       /\ \A v \in Workers \ {w} : pc[v] = "idle"
       /\ \A e \in Events : ledger[e].stage = "unseen"
       /\ revision = 0

RoadsRecorded ==
  /\ \A e \in Events : ledger[e].stage = "applied" => FailedBy[e] \subseteq failed
  /\ \A w \in Workers : worker[w].event # NoEvent /\ pc[w] \in PastEmit =>
       FailedBy[worker[w].event] \subseteq failed

ProposedAreCounted ==
  /\ \A p \in PlanIds : Known(p) => p[2] <= Cardinality(Proposed)
  /\ committed # NoPlan => Known(committed)

\* The plan under verification is what its worker proposed, at the revision of
\* its event, and nobody else's business.
VerifiesItsOwn(s, x) ==
  s \in Verifying =>
    /\ Known(x.plan) /\ x.plan # committed
    /\ plans[x.plan].proposal = x.proposal /\ plans[x.plan].basis = x.rev
    /\ s # "fetch" => x.basis = x.rev
    /\ x.event # NoEvent => ledger[x.event].revision = x.rev

ProposalsAreOwn ==
  \A v, w \in Workers :
    v # w /\ pc[v] \in Verifying /\ pc[w] \in Verifying => worker[v].plan # worker[w].plan

\* A proposal of the planner for the present revision was computed on the roads
\* as the record has them.
PlannedOnRecord(s, x, owns) ==
  x.plan # <<0, 1>> /\ x.rev = revision /\ (s \in Verifying \/ (s = "propose" /\ owns))
    => x.proposal = Assignment(x.hazard, failed)

RoadsOpen(a) == \A m \in Missions : RouteOpen(m, Kind[a[m][1]], failed)

CommittedRoadsOpen == committed # NoPlan => RoadsOpen(plans[committed].proposal)

\* What an owner at step s knows of the world from its locals x.
Knows(s, x) ==
  /\ s # "revoke_stale"
  /\ s \in Reverifying \ {"committed"} => x.plan = committed
  /\ s \in Reverifying \ {"committed", "observe"} => x.rev = revision
  /\ s = "rebind" => Verdict(plans[x.plan].proposal, x.hazard, failed)
  /\ s \in Seeding \cup {"replan", "count"} \cup Planned => committed = NoPlan
  /\ s \in {"count"} \cup Planned => x.rev = revision
  /\ s \in Seeding => Proposed = {}
  /\ s \in {"survey", "propose"} => x.plan[2] = Cardinality(Proposed) + 1
  /\ s \in Verifying => x.plan[2] = Cardinality(Proposed)
  /\ s \in {"mark", "commit"} => Verdict(x.proposal, x.hazard, failed)
  /\ s = "complete" => CommittedRoadsOpen

SettledRoads == (\A e \in Events : ledger[e].stage \notin Pending) => CommittedRoadsOpen

SerialInv ==
  /\ FleetInv /\ OneAtATime /\ RunComesFirst /\ RoadsRecorded /\ ProposedAreCounted
  /\ ProposalsAreOwn /\ SettledRoads
  /\ \A w \in Workers :
       /\ VerifiesItsOwn(pc[w], worker[w])
       /\ PlannedOnRecord(pc[w], worker[w], Owner(w))
       /\ Owner(w) => Knows(pc[w], worker[w])

\* An owner acts for run(), or for the event whose living attempt it is.
LEMMA OwnerIsLive ==
  ASSUME FleetInv, NEW w \in Workers, Owner(w)
  PROVE  /\ Live(w)
         /\ worker[w].event # NoEvent =>
              /\ worker[w].event \in Events /\ Fence(w) # Unfenced
              /\ Fence(w).event = worker[w].event
              /\ CurrentAttempt(Fence(w)) /\ ledger[worker[w].event].stage \in Pending
<1>1. LocalOK(pc[w], worker[w]) /\ worker[w].event \in Events \cup {NoEvent}
      /\ Fence(w) = worker[w].fence
  BY InRange
<1>2. CASE worker[w].event = NoEvent
  BY <1>2 DEF Owner, Live, Finished, Me
<1>3. CASE worker[w].event # NoEvent
  <2>1. /\ worker[w].event \in Events /\ Fence(w) # Unfenced /\ Fence(w).event = worker[w].event
    BY <1>1, <1>3 DEF Owner, LocalOK
  <2>2. CurrentAttempt(Fence(w)) /\ ledger[worker[w].event].stage \in Pending
    BY <2>1 DEF Owner, FenceHolds, CurrentAttempt
  <2>3. Live(w)
    BY <2>2 DEF Owner, Live, Finished, Me, Pending
  <2> QED BY <2>1, <2>2, <2>3
<1> QED BY <1>2, <1>3

\* There is at most one.
LEMMA OneOwner ==
  ASSUME FleetInv, OneAtATime, NEW v \in Workers, NEW w \in Workers, v # w, Owner(v), Owner(w)
  PROVE  FALSE
<1>1. worker[v].event = worker[w].event /\ worker[v].event # NoEvent
  BY OwnerIsLive DEF OneAtATime
<1>2. /\ Fence(v) # Unfenced /\ Fence(v).event = worker[v].event /\ CurrentAttempt(Fence(v))
      /\ Fence(w) # Unfenced /\ Fence(w).event = worker[w].event /\ CurrentAttempt(Fence(w))
  BY <1>1, OwnerIsLive
<1>3. Fence(v) \in Fences /\ Fence(w) \in Fences
  BY InRange
<1>4. Fence(v).attempt = Fence(w).attempt
  BY <1>1, <1>2 DEF CurrentAttempt
<1>5. Fence(v) = Fence(w)
  BY <1>1, <1>2, <1>3, <1>4 DEF Fences
<1> QED BY <1>2, <1>5 DEF FleetInv, FencesAreOwn

\* Whoever keeps its fence does not become an owner again.
LEMMA OwnersStay ==
  ASSUME FleetInv, [FleetNext]_fleetVars, NEW v \in Workers,
         pc[v] \notin {"idle", "advance"}, Fence(v)' = Fence(v), Owner(v)'
  PROVE  Owner(v)
<1>1. PICK f \in Fences : f = Fence(v) /\ Minted(f)
  BY InRange DEF LocalOK
<1>2. FenceHolds(f)'
  BY <1>1 DEF Owner
<1>3. TypeOK /\ UnseenIsUntried /\ [StoreNext]_storeVars
  BY InRange, FleetStep
<1>4. FenceHolds(f)
  BY <1>1, <1>2, <1>3, FencesAreLostForGood
<1> QED BY <1>1, <1>4 DEF Owner

\* An event somebody works on has been absorbed.
LEMMA WorkedOnIsSeen ==
  ASSUME FleetInv, NEW w \in Workers, worker[w].event # NoEvent, pc[w] # "advance"
  PROVE  /\ worker[w].event \in Events /\ ledger[worker[w].event].stage # "unseen"
         /\ ledger[worker[w].event] \in LedgerEntry
<1> DEFINE e == worker[w].event
<1>1. /\ LocalOK(pc[w], worker[w]) /\ TypeOK /\ UnseenIsUntried
      /\ e \in Events /\ worker[w].fence # Unfenced /\ worker[w].fence.event = e
  BY InRange DEF LocalOK
<1>2. worker[w].fence.attempt \in 1..ledger[e].attempt
  BY <1>1 DEF LocalOK, Minted
<1> QED BY <1>1, <1>2 DEF UnseenIsUntried, TypeOK

-----------------------------------------------------------------------------
(* Events come one at a time *)

\* No event opens or reopens.
EventsGoOn ==
  \A e \in Events :
    /\ ledger'[e].revision = ledger[e].revision
    /\ ledger'[e].stage \in Pending => ledger[e].stage \in Pending
    /\ ledger[e].stage = "applied" => ledger'[e].stage = "applied"
    /\ ledger[e].stage = "unseen" => ledger'[e].stage = "unseen"

\* An application that goes on under another attempt or stage is the same event's.
LEMMA AnAttemptGoesOn ==
  ASSUME TypeOK, NEW e \in Events, ledger[e].stage \in Pending, NEW t,
         ledger' = [ledger EXCEPT ![e] = t],
         t.revision = ledger[e].revision, t.stage \in Pending \cup {"applied"}
  PROVE  EventsGoOn
<1>1. ledger'[e] = t /\ \A d \in Events \ {e} : ledger'[d] = ledger[d]
  BY DEF TypeOK
<1> QED BY <1>1 DEF EventsGoOn, Pending

\* Nobody sets out on anything.
NobodySetsOut ==
  \A v \in Workers : pc'[v] # "idle" => pc[v] # "idle" /\ worker'[v].event = worker[v].event

\* Going on with an errand sets out for no other event.
LEMMA MoverOnErrand ==
  ASSUME FleetInv, NEW w \in Workers, OnlyMoves(w), OnErrand(w)
  PROVE  NobodySetsOut
BY DEF NobodySetsOut, OnlyMoves, OnErrand, GoesOn

\* While the world stands still and nobody sets out, events stay one at a time.
LEMMA ErrandsGoOn ==
  ASSUME FleetInv, OneAtATime, UNCHANGED revision, EventsGoOn, NobodySetsOut
  PROVE  OneAtATime'
<1>1. ASSUME NEW v \in Workers, Live(v)'
      PROVE  Live(v) /\ worker'[v].event = worker[v].event
  <2>1. pc'[v] # "idle" /\ pc[v] # "idle" /\ worker'[v].event = worker[v].event
    BY <1>1 DEF Live, NobodySetsOut
  <2>2. worker[v].event \in Events \cup {NoEvent}
    BY InRange
  <2>3. ~Finished(v)
    BY <1>1, <2>1, <2>2 DEF Live, Finished, Me, EventsGoOn
  <2> QED BY <2>1, <2>3 DEF Live
<1>2. /\ \A v, w \in Workers : v # w /\ Live(v)' /\ Live(w)' =>
            worker'[v].event = worker'[w].event /\ worker'[v].event # NoEvent
      /\ \A w \in Workers, e \in Events :
            Live(w)' /\ ledger'[e].stage \in Pending => worker'[w].event = e
  BY <1>1 DEF OneAtATime, EventsGoOn
<1>3. /\ \A d, e \in Events : ledger'[d].stage \in Pending /\ ledger'[e].stage \in Pending => d = e
      /\ \A e \in Events : ledger'[e].stage \in Pending => ledger'[e].revision = revision'
  BY DEF OneAtATime, EventsGoOn
<1> QED BY <1>2, <1>3 DEF OneAtATime

LEMMA LapsesGoOn ==
  ASSUME FleetInv, NEW e \in Events, Silence(e)
  PROVE  EventsGoOn
<1>1. TypeOK /\ ledger[e].stage = "in_progress"
  BY InRange DEF Silence, LeaseLapses
<1> DEFINE t == [ledger[e] EXCEPT !.stage = "lapsed"]
<1>2. ledger' = [ledger EXCEPT ![e] = t] /\ ledger[e] \in LedgerEntry
  BY <1>1 DEF Silence, LeaseLapses, TypeOK
<1>3. t.revision = ledger[e].revision /\ t.stage = "lapsed"
  BY <1>2 DEF LedgerEntry
<1> HIDE DEF t
<1> QED BY <1>1, <1>2, <1>3, AnAttemptGoesOn DEF Pending

LEMMA EndsGoOn ==
  ASSUME FleetInv, NEW w \in Workers, Finish(w) \/ Abandon(w)
  PROVE  EventsGoOn
<1> DEFINE e == worker[w].event
<1>0. TypeOK /\ e \in Events
  BY InRange, EndsIt
<1>1. CASE UNCHANGED ledger
  BY <1>1 DEF EventsGoOn
<1>2. CASE CompleteEvent(e, Fence(w)) \/ AbandonEvent(e, Fence(w))
  <2>1. PICK s \in {"applied", "abandoned"} : ledger' = [ledger EXCEPT ![e].stage = s]
    BY <1>2 DEF CompleteEvent, AbandonEvent
  <2> DEFINE t == [ledger[e] EXCEPT !.stage = s]
  <2>2. ledger' = [ledger EXCEPT ![e] = t] /\ ledger[e] \in LedgerEntry /\ ledger[e].stage \in Pending
    BY <1>0, <1>2, <2>1 DEF TypeOK, CompleteEvent, AbandonEvent, Pending
  <2>3. t.revision = ledger[e].revision /\ t.stage = s
    BY <2>2 DEF LedgerEntry
  <2> HIDE DEF t
  <2> QED BY <1>0, <2>2, <2>3, AnAttemptGoesOn DEF Pending
<1> QED BY <1>1, <1>2, EndsIt DEF storeVars

\* run() opens before anything else has happened.
LEMMA RunOpensAlone ==
  ASSUME SerialInv, NEW w \in Workers, NEW x \in Forecasts, StartRun(w, x)
  PROVE  OneAtATime' /\ RunComesFirst'
<1>0. \A v \in Workers : worker[v].event \in Events \cup {NoEvent}
  BY InRange DEF SerialInv
<1>1. /\ UNCHANGED <<storeVars, failed>> /\ OnlyMoves(w) /\ pc'[w] = "create"
      /\ worker'[w].event = NoEvent /\ worker'[w].k = 1
  <2> USE DEF Idle
  <2>1. /\ UNCHANGED <<storeVars, failed>> /\ OnlyMoves(w)
    BY OpensMove DEF SerialInv
  <2>2. pc' = [pc EXCEPT ![w] = "create"]
        /\ worker' = [worker EXCEPT ![w] = [Idle EXCEPT !.hazard = x, !.rev = revision]]
    BY DEF StartRun, Reads
  <2> QED BY <2>1, <2>2, InRange DEF SerialInv
<1>2. /\ VehicleOrder[1] \in Vehicles /\ ~Created(VehicleOrder[1]) /\ revision = 0
      /\ \A v \in Workers : ~Planning(v)
  BY RunOrders DEF StartRun
<1>3. /\ \A v \in Workers : worker[v].event = NoEvent /\ pc[v] = "idle"
      /\ \A e \in Events : ledger[e].stage = "unseen"
      /\ committed = NoPlan /\ Proposed = {}
  BY <1>2 DEF SerialInv, RunComesFirst, Planning, Me
<1>4. /\ UNCHANGED <<revision, ledger, plans, committed, work>>
      /\ \A v \in Workers \ {w} : pc'[v] = "idle" /\ worker'[v].event = NoEvent
  BY <1>1, <1>3 DEF storeVars, OnlyMoves
<1>5. OneAtATime'
  BY <1>3, <1>4 DEF OneAtATime, Live, Pending
<1>6. RunComesFirst'
  <2>1. UNCHANGED <<Created(VehicleOrder[1]), Proposed>>
    BY <1>4 DEF Created, Proposed, Known
  <2>2. \A v \in Workers : worker'[v].event = NoEvent
                            /\ (pc'[v] = "idle" \/ (pc'[v] = "create" /\ worker'[v].k = 1))
    BY <1>1, <1>4
  <2> QED BY <1>1, <1>2, <1>3, <1>4, <2>1, <2>2 DEF RunComesFirst, Planning
<1> QED BY <1>5, <1>6

\* A delivery comes in only where no other event is under way.
LEMMA DeliveryComesAlone ==
  ASSUME SerialInv, Serial, NEW w \in Workers, NEW x \in Forecasts, NEW e \in Events,
         Deliver(w, e, x)
  PROVE  OneAtATime' /\ RunComesFirst'
<1>1. /\ UNCHANGED <<storeVars, failed>> /\ OnlyMoves(w) /\ pc'[w] = "advance"
      /\ worker'[w].event = e
  <2>1. pc' = [pc EXCEPT ![w] = "advance"] /\ pc \in [Workers -> Steps]
    BY InRange DEF Deliver, Reads, SerialInv
  <2> QED BY <2>1, OpensMove DEF SerialInv
<1>2. /\ pc[w] = "idle" /\ Created(VehicleOrder[1]) /\ \A v \in Workers : ~Planning(v)
      /\ \A v \in Workers \ {w} : pc[v] = "idle" \/ Finished(v) \/ worker[v].event = e
      /\ \A d \in Events \ {e} : ledger[d].stage \notin Pending
  BY DEF Deliver, Others, Me
<1>3. /\ UNCHANGED <<revision, ledger, plans, committed, work>>
      /\ \A v \in Workers \ {w} : pc'[v] = pc[v] /\ worker'[v] = worker[v]
  BY <1>1 DEF storeVars, OnlyMoves
<1>4. \A v \in Workers : Live(v)' => worker'[v].event = e
  BY <1>1, <1>2, <1>3 DEF Live, Finished, Me
<1>5. OneAtATime'
  <2>1. e # NoEvent
    BY NoEventAssumption
  <2>2. \A d \in Events : ledger'[d].stage \in Pending => d = e /\ ledger'[d].revision = revision'
    BY <1>2, <1>3 DEF SerialInv, OneAtATime
  <2> QED BY <1>4, <2>1, <2>2 DEF OneAtATime
<1>6. RunComesFirst'
  <2>1. UNCHANGED Created(VehicleOrder[1])
    BY <1>3 DEF Created
  <2>2. \A v \in Workers : ~Planning(v)'
    BY <1>1, <1>2, <1>3, NoEventAssumption DEF Planning, Me
  <2> QED BY <1>2, <2>1, <2>2 DEF RunComesFirst
<1> QED BY <1>5, <1>6

\* A first delivery finds no event pending and nobody else at work.
LEMMA AbsorbsAlone ==
  ASSUME SerialInv, NEW w \in Workers, Advance(w), AbsorbEvent(worker[w].event)
  PROVE  OneAtATime' /\ \A v \in Workers \ {w} : ~Owner(v)
<1> DEFINE e == worker[w].event
<1>0. FleetInv /\ OneAtATime /\ TypeOK /\ revision \in Nat
  BY InRange DEF SerialInv
<1>1. /\ OnlyMoves(w) /\ pc[w] = "advance" /\ pc'[w] = "emit" /\ e \in Events
      /\ worker'[w].event = e
  BY <1>0, Advances
<1>2. /\ ledger[e].stage = "unseen" /\ revision' = revision + 1
      /\ ledger'[e] = [stage |-> "in_progress", revision |-> revision + 1, attempt |-> 1]
      /\ \A d \in Events \ {e} : ledger'[d] = ledger[d]
  BY <1>0, <1>1 DEF AbsorbEvent, TypeOK
<1>3. Live(w) /\ e # NoEvent
  BY <1>1, <1>2, NoEventAssumption DEF Live, Finished, Me
<1>4. \A v \in Workers : Live(v) => worker[v].event = e
  BY <1>0, <1>3 DEF OneAtATime
<1>5. \A d \in Events : ledger[d].stage \notin Pending
  BY <1>0, <1>2, <1>3 DEF OneAtATime, Pending
<1>6. ASSUME NEW v \in Workers, v # w, Owner(v) PROVE FALSE
  <2>1. Live(v) /\ (worker[v].event # NoEvent => ledger[worker[v].event].stage \in Pending)
        /\ (worker[v].event # NoEvent => worker[v].event \in Events)
    BY <1>0, <1>6, OwnerIsLive
  <2> QED BY <1>3, <1>4, <1>5, <2>1
<1>7. \A v \in Workers : Live(v)' => worker'[v].event = e
  <2> SUFFICES ASSUME NEW v \in Workers, v # w, Live(v)' PROVE worker'[v].event = e
    BY <1>1
  <2>1. pc'[v] = pc[v] /\ worker'[v] = worker[v]
    BY <1>1 DEF OnlyMoves
  <2>2. worker[v].event \in Events \cup {NoEvent}
    BY <1>0, InRange
  <2>3. CASE worker[v].event = e
    BY <2>1, <2>3
  <2>4. CASE worker[v].event # e
    <3>1. Live(v)
      BY <1>2, <2>1, <2>2, <2>4 DEF Live, Finished, Me
    <3> QED BY <1>4, <2>4, <3>1
  <2> QED BY <2>3, <2>4
<1>8. \A d \in Events : ledger'[d].stage \in Pending => d = e /\ ledger'[d].revision = revision'
  BY <1>2, <1>5
<1> QED BY <1>3, <1>6, <1>7, <1>8 DEF OneAtATime

\* A resumption is of the one event that is pending.
LEMMA ResumesInTurn ==
  ASSUME SerialInv, NEW w \in Workers, Advance(w), ResumeEvent(worker[w].event)
  PROVE  OneAtATime' /\ UNCHANGED revision /\ EventsGoOn
<1> DEFINE e == worker[w].event
           t == [ledger[e] EXCEPT !.stage = "in_progress", !.attempt = @ + 1]
<1>0. FleetInv /\ OneAtATime /\ TypeOK
  BY InRange DEF SerialInv
<1>1. /\ OnlyMoves(w) /\ pc[w] = "advance" /\ pc'[w] = "emit" /\ e \in Events
      /\ worker'[w].event = e
  BY <1>0, Advances
<1>2. ledger' = [ledger EXCEPT ![e] = t] /\ ledger[e] \in LedgerEntry /\ ledger[e].stage \in Pending
      /\ UNCHANGED revision
  BY <1>0, <1>1 DEF ResumeEvent, TypeOK, Pending
<1>3. t.revision = ledger[e].revision /\ t.stage = "in_progress"
  BY <1>2 DEF LedgerEntry
<1> HIDE DEF t
<1>4. EventsGoOn
  BY <1>0, <1>1, <1>2, <1>3, AnAttemptGoesOn DEF Pending
<1>5. NobodySetsOut
  BY <1>1 DEF NobodySetsOut, OnlyMoves
<1> QED BY <1>0, <1>2, <1>4, <1>5, ErrandsGoOn

\* Every step leaves events one at a time.
LEMMA OneAtATimeStep ==
  ASSUME SerialInv, Serial, [FleetNext]_fleetVars
  PROVE  OneAtATime'
<1>0. FleetInv /\ OneAtATime
  BY DEF SerialInv
<1>1. ASSUME NEW w \in Workers, NEW x \in Forecasts,
             StartRun(w, x) \/ \E e \in Events : Deliver(w, e, x)
      PROVE  OneAtATime'
  BY <1>1, RunOpensAlone, DeliveryComesAlone
<1>2. ASSUME NEW w \in Workers, OnlyMoves(w), OnErrand(w), UNCHANGED revision, EventsGoOn
      PROVE  OneAtATime'
  BY <1>0, <1>2, MoverOnErrand, ErrandsGoOn
<1>3. ASSUME UNCHANGED ledger PROVE EventsGoOn
  BY <1>3 DEF EventsGoOn
<1>4. ASSUME NEW w \in Workers, Internal(w) \/ Calls(w) \/ EmitFailures(w)
      PROVE  OneAtATime'
  <2>1. OnlyMoves(w) /\ OnErrand(w) /\ UNCHANGED <<revision, ledger>>
    BY <1>0, <1>4, InternalStep, CallMoves, CallIsACall, Emits DEF storeVars
  <2> QED BY <1>2, <1>3, <2>1
<1>5. ASSUME NEW w \in Workers, Advance(w)
      PROVE  OneAtATime'
  BY <1>0, <1>5, Advances, AbsorbsAlone, ResumesInTurn
<1>6. ASSUME NEW w \in Workers, Finish(w) \/ Abandon(w)
      PROVE  OneAtATime'
  <2>1. OnlyMoves(w) /\ OnErrand(w) /\ UNCHANGED revision
    BY <1>0, <1>6, EndsIt DEF storeVars
  <2> QED BY <1>0, <1>2, <1>6, <2>1, EndsGoOn
<1>7. CASE Outside \/ UNCHANGED fleetVars
  <2>1. UNCHANGED <<revision, pc, worker>>
    BY <1>0, <1>7, OutsideIsQuiet DEF fleetVars, storeVars
  <2>2. UNCHANGED ledger \/ \E e \in Events : Silence(e)
    BY <1>7 DEF Outside, RivalClaims, Claim, fleetVars, storeVars
  <2>3. EventsGoOn /\ NobodySetsOut
    BY <1>0, <1>3, <2>1, <2>2, LapsesGoOn DEF NobodySetsOut
  <2> QED BY <1>0, <2>1, <2>3, ErrandsGoOn
<1> QED BY <1>1, <1>4, <1>5, <1>6, <1>7, FleetCases

\* What was opened stays open, and known.
LEMMA OpenedStaysOpen ==
  ASSUME FleetInv, [FleetNext]_fleetVars
  PROVE  /\ \A i \in WorkItems : Created(i) => Created(i)'
         /\ \A p \in PlanIds : Known(p) => Known(p)'
<1>0. TypeOK /\ [StoreNext]_storeVars
  BY InRange, FleetStep
<1>1. ASSUME NEW f \in Fences, Call(f)
      PROVE  /\ \A i \in WorkItems : Created(i) => Created(i)'
             /\ \A p \in PlanIds : Known(p) => Known(p)'
  <2>1. CASE \E e \in Events : CompleteEvent(e, f) \/ AbandonEvent(e, f)
    BY <2>1 DEF CompleteEvent, AbandonEvent, Created, Known
  <2>2. ASSUME NEW p \in PlanIds, PlanCall(p, f)
        PROVE  /\ UNCHANGED work
               /\ \A q \in PlanIds : Known(q) => Known(q)'
    BY <1>0, <2>2 DEF PlanCall, AddPlan, MarkVerified, RejectPlan, CommitPlan, Known, TypeOK, Plan
  <2>3. ASSUME NEW p \in PlanIds, CommitmentCall(p, f)
        PROVE  /\ UNCHANGED work
               /\ \A q \in PlanIds : Known(q) => Known(q)'
    BY <1>0, <2>3 DEF CommitmentCall, RevokeCommit, RevokeIfStale, RevokeIfRevisionCurrent,
                      Withdraw, RebindPlan, Known, TypeOK, Plan
  <2>4. ASSUME NEW i \in WorkItems, WorkCall(i, f)
        PROVE  /\ UNCHANGED plans
               /\ \A j \in WorkItems : Created(j) => Created(j)'
    BY <1>0, <2>4, WorkAssumption
       DEF WorkCall, CreateWork, Claim, Release, Created, TypeOK
  <2> QED BY <1>1, <2>1, <2>2, <2>3, <2>4 DEF Call, Created, Known
<1>2. ASSUME World \/ UNCHANGED storeVars
      PROVE  UNCHANGED <<plans, work>>
  BY <1>2 DEF World, AbsorbUnidentified, AbsorbEvent, ResumeEvent, LeaseLapses, storeVars
<1> QED BY <1>0, <1>1, <1>2 DEF StoreNext, Created, Known

\* Before the first vehicle is there, nobody calls the store but to create it.
LEMMA BeforeTheRun ==
  ASSUME SerialInv, [FleetNext]_fleetVars, ~Created(VehicleOrder[1]),
         ~Created(VehicleOrder[1])'
  PROVE  /\ \A w \in Workers : /\ worker'[w].event = NoEvent
                               /\ pc'[w] = "idle" \/ (pc'[w] = "create" /\ worker'[w].k = 1)
         /\ UNCHANGED <<revision, ledger, plans, committed>>
<1>0. /\ FleetInv /\ pc \in [Workers -> Steps] /\ worker \in [Workers -> Locals]
      /\ \A w \in Workers : /\ worker[w].event = NoEvent
                            /\ pc[w] = "idle" \/ (pc[w] = "create" /\ worker[w].k = 1)
      /\ \A e \in Events : ledger[e].stage = "unseen"
  BY InRange DEF SerialInv, RunComesFirst
<1> USE DEF Idle
<1>1. ASSUME NEW w \in Workers, OnlyMoves(w), UNCHANGED <<revision, ledger, plans, committed>>,
             worker'[w].event = NoEvent,
             pc'[w] = "idle" \/ (pc'[w] = "create" /\ worker'[w].k = 1)
      PROVE  /\ \A v \in Workers : /\ worker'[v].event = NoEvent
                                   /\ pc'[v] = "idle" \/ (pc'[v] = "create" /\ worker'[v].k = 1)
             /\ UNCHANGED <<revision, ledger, plans, committed>>
  BY <1>0, <1>1 DEF OnlyMoves
<1>2. ASSUME NEW w \in Workers, NEW x \in Forecasts, StartRun(w, x)
      PROVE  worker'[w].k = 1
  BY <1>0, <1>2 DEF StartRun, Reads
<1>3. ASSUME NEW w \in Workers, NEW x \in Forecasts, NEW e,
             StartRun(w, x) \/ (e \in Events /\ Deliver(w, e, x))
      PROVE  /\ OnlyMoves(w) /\ UNCHANGED <<revision, ledger, plans, committed>>
             /\ worker'[w].event = NoEvent /\ pc'[w] = "create" /\ worker'[w].k = 1
  <2>1. ~Deliver(w, e, x)
    BY DEF Deliver
  <2> QED BY <1>0, <1>2, <1>3, <2>1, OpensMove DEF storeVars
<1>4. ASSUME NEW w \in Workers, Internal(w) \/ Advance(w) \/ Finish(w) \/ Abandon(w) \/ EmitFailures(w)
      PROVE  FALSE
  <2>1. pc[w] = "create" /\ worker[w].event = NoEvent /\ Fence(w) = Unfenced
    <3>1. pc[w] # "idle"
      BY <1>0, <1>4, InternalStep
         DEF Advance, Finish, Abandon, EmitFailures, OnErrand
    <3> QED BY <1>0, <3>1, InRange DEF LocalOK
  <2> QED BY <1>4, <2>1 DEF Advance, Finish, Abandon, EmitFailures, Internal, Dismiss, ReadCommitted,
               Observe, Judge, ReadWorld, Number, Survey, FetchPlan, CheckStale, Weigh,
               Evicted, Outlived, Fails, Dies, Superseded, FenceHolds, AlreadyApplied, Me
<1>5. ASSUME NEW w \in Workers, Calls(w)
      PROVE  FALSE
  <2>1. CreateVehicle(w) /\ worker[w].k = 1
    BY <1>0, <1>5 DEF Calls, CreateVehicle, ClaimVehicle, Rebind, Withdraws, Propose, Reject, Mark, Commit
  <2>2. VehicleOrder[1] \in WorkItems /\ TypeOK
    BY <1>0, InRange, RunOrders, RunAssumption
  <2>3. work'[VehicleOrder[1]] = Unclaimed
    BY <2>1, <2>2 DEF CreateVehicle, CreateWork, TypeOK, Me
  <2> QED BY <2>3, WorkAssumption DEF Created
<1>6. CASE Outside \/ UNCHANGED fleetVars
  <2>1. UNCHANGED <<revision, plans, committed, pc, worker>>
    BY <1>0, <1>6, OutsideIsQuiet DEF fleetVars, storeVars
  <2>2. UNCHANGED ledger
    BY <1>0, <1>6 DEF Outside, RivalClaims, Claim, Silence, LeaseLapses, fleetVars, storeVars
  <2> QED BY <1>0, <2>1, <2>2
<1>7. ASSUME NEW w \in Workers, NEW x \in Forecasts,
             StartRun(w, x) \/ \E e \in Events : Deliver(w, e, x)
      PROVE  /\ OnlyMoves(w) /\ UNCHANGED <<revision, ledger, plans, committed>>
             /\ worker'[w].event = NoEvent /\ pc'[w] = "create" /\ worker'[w].k = 1
  BY <1>3, <1>7
<1> QED BY <1>1, <1>4, <1>5, <1>6, <1>7, FleetCases

\* While run() plans, nobody else sets out and no event comes.
LEMMA PlanningIsLeftAlone ==
  ASSUME SerialInv, [FleetNext]_fleetVars, NEW w \in Workers, Planning(w)
  PROVE  /\ \A v \in Workers \ {w} : pc'[v] = "idle"
         /\ UNCHANGED <<revision, ledger>>
<1>0. /\ FleetInv /\ pc \in [Workers -> Steps] /\ pc[w] # "idle" /\ worker[w].event = NoEvent
      /\ \A v \in Workers \ {w} : pc[v] = "idle"
      /\ \A e \in Events : ledger[e].stage = "unseen"
  BY InRange DEF SerialInv, RunComesFirst, Planning, Me
<1>1. ASSUME NEW v \in Workers, Internal(v) \/ Calls(v) \/ Advance(v) \/ Finish(v) \/ Abandon(v)
                                \/ EmitFailures(v)
      PROVE  v = w
  <2>1. pc[v] # "idle"
    BY <1>0, <1>1, InternalStep, CallMoves DEF OnErrand, Advance, Finish, Abandon, EmitFailures
  <2> QED BY <1>0, <2>1
<1>2. ASSUME Advance(w) \/ Finish(w) \/ Abandon(w) \/ EmitFailures(w)
      PROVE  FALSE
  BY <1>0, <1>2, Advances, EndsIt, Emits, NoEventAssumption
<1>3. ASSUME Internal(w) \/ Calls(w)
      PROVE  OnlyMoves(w) /\ UNCHANGED <<revision, ledger>>
  BY <1>0, <1>3, InternalStep, CallMoves, CallIsACall DEF storeVars
<1>4. ASSUME NEW v \in Workers, NEW x \in Forecasts,
             StartRun(v, x) \/ \E e \in Events : Deliver(v, e, x)
      PROVE  FALSE
  BY <1>4 DEF StartRun, Deliver
<1>5. CASE Outside \/ UNCHANGED fleetVars
  <2>1. UNCHANGED <<revision, pc>>
    BY <1>0, <1>5, OutsideIsQuiet DEF fleetVars, storeVars
  <2>2. UNCHANGED ledger
    BY <1>0, <1>5 DEF Outside, RivalClaims, Claim, Silence, LeaseLapses, fleetVars, storeVars
  <2> QED BY <1>0, <2>1, <2>2
<1>6. OnlyMoves(w) => \A v \in Workers \ {w} : pc'[v] = "idle"
  BY <1>0 DEF OnlyMoves
<1> QED BY <1>1, <1>2, <1>3, <1>4, <1>5, <1>6, FleetCases

\* Every step leaves run() before the first event.
LEMMA RunComesFirstStep ==
  ASSUME SerialInv, Serial, [FleetNext]_fleetVars
  PROVE  RunComesFirst'
<1>0. FleetInv /\ RunComesFirst /\ VehicleOrder[1] \in WorkItems
  BY RunOrders, RunAssumption DEF SerialInv
<1>1. ASSUME NEW w \in Workers, NEW x \in Forecasts,
             StartRun(w, x) \/ \E e \in Events : Deliver(w, e, x)
      PROVE  RunComesFirst'
  BY <1>1, RunOpensAlone, DeliveryComesAlone
<1>2. CASE \A w \in Workers, x \in Forecasts :
             ~(StartRun(w, x) \/ \E e \in Events : Deliver(w, e, x))
  <2>1. ASSUME NEW w \in Workers, Planning(w)'
        PROVE  Planning(w)
    <3>1. pc'[w] # "idle" /\ worker'[w].event = NoEvent
      BY <2>1 DEF Planning, Me
    <3>2. ASSUME NEW v \in Workers, OnlyMoves(v), OnErrand(v) PROVE Planning(w)
      BY <1>0, <3>1, <3>2, MoverOnErrand DEF NobodySetsOut, Planning, Me
    <3>3. ASSUME NEW v \in Workers, Advance(v) PROVE Planning(w)
      <4>1. OnlyMoves(v) /\ worker'[v].event = worker[v].event /\ worker[v].event \in Events
        BY <1>0, <3>3, Advances
      <4>2. w # v
        BY <3>1, <4>1, NoEventAssumption
      <4> QED BY <3>1, <4>1, <4>2 DEF OnlyMoves, Planning, Me
    <3>4. CASE Outside \/ UNCHANGED fleetVars
      BY <1>0, <3>1, <3>4, OutsideIsQuiet DEF fleetVars, Planning, Me
    <3> QED BY <1>0, <1>2, <3>2, <3>3, <3>4, FleetCases, InternalStep, CallMoves, EndsIt, Emits
  <2>2. ASSUME NEW w \in Workers, Planning(w)'
        PROVE  /\ \A v \in Workers \ {w} : pc'[v] = "idle"
               /\ \A e \in Events : ledger'[e].stage = "unseen"
               /\ revision' = 0
    BY <1>0, <2>1, <2>2, PlanningIsLeftAlone DEF RunComesFirst
  <2>3. ASSUME ~Created(VehicleOrder[1])'
        PROVE  /\ \A w \in Workers :
                    /\ worker'[w].event = NoEvent
                    /\ pc'[w] = "idle" \/ (pc'[w] = "create" /\ worker'[w].k = 1)
               /\ \A e \in Events : ledger'[e].stage = "unseen"
               /\ revision' = 0 /\ committed' = NoPlan /\ Proposed' = {}
    <3>1. ~Created(VehicleOrder[1])
      BY <1>0, <2>3, OpenedStaysOpen
    <3>2. UNCHANGED <<revision, ledger, plans, committed>>
      BY <2>3, <3>1, BeforeTheRun
    <3>3. UNCHANGED Proposed
      BY <3>2 DEF Proposed, Known
    <3> QED BY <1>0, <2>3, <3>1, <3>2, <3>3, BeforeTheRun DEF RunComesFirst
  <2> QED BY <2>2, <2>3 DEF RunComesFirst
<1> QED BY <1>1, <1>2

-----------------------------------------------------------------------------
(* The roads on the record *)

\* Who gets past emit has emitted, or was past it.
LEMMA PastEmitStays ==
  ASSUME FleetInv, NEW w \in Workers, Internal(w) \/ Calls(w) \/ Finish(w) \/ Abandon(w),
         pc'[w] \in PastEmit, worker'[w].event # NoEvent
  PROVE  pc[w] \in PastEmit /\ worker'[w].event = worker[w].event
<1>0. pc \in [Workers -> Steps] /\ worker \in [Workers -> Locals]
  BY InRange
<1> USE DEF PastEmit, Reverifying, Planned, Verifying
<1>1. GoesOn(w, pc'[w], worker'[w])
  BY InternalStep, CallMoves, EndsIt DEF OnErrand
<1>2. worker'[w].event = worker[w].event
  BY <1>1 DEF GoesOn
<1>3. CASE Internal(w)
  BY <1>0, <1>1, <1>3 DEF GoesOn, Internal, Dismiss, ReadCommitted, Observe, Judge, ReadWorld, Number,
       Survey, FetchPlan, CheckStale, Weigh, Evicted, Outlived, Fails, Dies, Leaves, Goto
<1>4. CASE Calls(w)
  BY <1>2, <1>4, CallIsACall
     DEF Seeding, Calls, CreateVehicle, ClaimVehicle, Rebind, Withdraws, Propose, Reject, Mark, Commit
<1>5. CASE Finish(w) \/ Abandon(w)
  BY <1>1, <1>5, EndsIt DEF GoesOn
<1> QED BY <1>2, <1>3, <1>4, <1>5

\* Every step keeps the roads of applied events on the record, which only grows.
LEMMA RoadsRecordedStep ==
  ASSUME SerialInv, [FleetNext]_fleetVars
  PROVE  RoadsRecorded' /\ failed \subseteq failed'
<1>0. FleetInv /\ RoadsRecorded /\ TypeOK
  BY InRange DEF SerialInv
<1>1. ASSUME failed \subseteq failed',
             \A e \in Events : ledger'[e].stage = "applied" => ledger[e].stage = "applied"
                                                               \/ FailedBy[e] \subseteq failed,
             \A v \in Workers : worker'[v].event # NoEvent /\ pc'[v] \in PastEmit =>
               \/ worker[v].event = worker'[v].event /\ pc[v] \in PastEmit
               \/ FailedBy[worker'[v].event] \subseteq failed'
      PROVE  RoadsRecorded' /\ failed \subseteq failed'
  BY <1>0, <1>1 DEF RoadsRecorded
<1>2. ASSUME NEW w \in Workers, NEW x \in Forecasts, NEW e,
             StartRun(w, x) \/ (e \in Events /\ Deliver(w, e, x))
      PROVE  RoadsRecorded' /\ failed \subseteq failed'
  <2>1. UNCHANGED <<ledger, failed>> /\ OnlyMoves(w) /\ pc'[w] \notin PastEmit
    BY <1>0, <1>2, OpensMove DEF storeVars, PastEmit, Reverifying, Planned, Verifying
  <2> QED BY <1>1, <2>1 DEF OnlyMoves
<1>3. ASSUME NEW w \in Workers, Internal(w) \/ Calls(w)
      PROVE  RoadsRecorded' /\ failed \subseteq failed'
  <2>1. UNCHANGED <<ledger, failed>> /\ OnlyMoves(w)
    BY <1>0, <1>3, InternalStep, CallIsACall, CallMoves DEF storeVars
  <2> QED BY <1>0, <1>1, <1>3, <2>1, PastEmitStays DEF OnlyMoves
<1>4. ASSUME NEW w \in Workers, Advance(w)
      PROVE  RoadsRecorded' /\ failed \subseteq failed'
  <2>1. UNCHANGED failed /\ OnlyMoves(w) /\ pc'[w] \notin PastEmit
    BY <1>0, <1>4, Advances DEF PastEmit, Reverifying, Planned, Verifying
  <2>2. \A e \in Events : ledger'[e].stage = "applied" => ledger[e].stage = "applied"
    <3>1. PICK d \in Events : AbsorbEvent(d) \/ ResumeEvent(d)
      BY <1>0, <1>4, Advances
    <3>2. ledger'[d].stage = "in_progress" /\ \A e \in Events \ {d} : ledger'[e] = ledger[e]
      BY <1>0, <3>1 DEF AbsorbEvent, ResumeEvent, TypeOK, LedgerEntry
    <3> QED BY <3>2
  <2> QED BY <1>1, <2>1, <2>2 DEF OnlyMoves
<1>5. ASSUME NEW w \in Workers, Finish(w) \/ Abandon(w)
      PROVE  RoadsRecorded' /\ failed \subseteq failed'
  <2> DEFINE e == worker[w].event
  <2>1. /\ UNCHANGED failed /\ OnlyMoves(w) /\ pc'[w] \notin PastEmit /\ e \in Events
        /\ \/ UNCHANGED ledger
           \/ Finish(w) /\ CompleteEvent(e, Fence(w))
           \/ Abandon(w) /\ AbandonEvent(e, Fence(w))
    BY <1>0, <1>5, EndsIt DEF PastEmit, Reverifying, Planned, Verifying, storeVars
  <2>2. Finish(w) => FailedBy[e] \subseteq failed
    BY <1>0, <2>1, NoEventAssumption DEF Finish, RoadsRecorded, PastEmit
  <2>3. \A d \in Events : ledger'[d].stage = "applied" => ledger[d].stage = "applied"
                                                           \/ FailedBy[d] \subseteq failed
    BY <1>0, <2>1, <2>2 DEF CompleteEvent, AbandonEvent, TypeOK, LedgerEntry
  <2> QED BY <1>1, <2>1, <2>3 DEF OnlyMoves
<1>6. ASSUME NEW w \in Workers, EmitFailures(w)
      PROVE  RoadsRecorded' /\ failed \subseteq failed'
  <2>1. /\ UNCHANGED ledger /\ OnlyMoves(w) /\ worker'[w] = worker[w]
        /\ failed' = failed \cup FailedBy[worker[w].event]
    BY <1>0, <1>6, Emits DEF storeVars
  <2> QED BY <1>1, <2>1 DEF OnlyMoves
<1>7. CASE Outside \/ UNCHANGED fleetVars
  <2>1. UNCHANGED <<pc, worker, failed>>
    BY <1>0, <1>7, OutsideIsQuiet DEF fleetVars
  <2>2. \A e \in Events : ledger'[e].stage = "applied" => ledger[e].stage = "applied"
    BY <1>0, <1>7 DEF Outside, RivalClaims, Claim, Silence, LeaseLapses, fleetVars, storeVars,
                      TypeOK, LedgerEntry
  <2> QED BY <1>1, <2>1, <2>2
<1>8. ASSUME NEW w \in Workers, NEW x \in Forecasts,
             StartRun(w, x) \/ \E e \in Events : Deliver(w, e, x)
      PROVE  RoadsRecorded' /\ failed \subseteq failed'
  BY <1>2, <1>8
<1> QED BY <1>3, <1>4, <1>5, <1>6, <1>7, <1>8, FleetCases

\* The failures of an event reach the record while that event alone is pending.
LEMMA EmitsAlone ==
  ASSUME SerialInv, NEW w \in Workers, EmitFailures(w), failed' # failed
  PROVE  /\ worker[w].event \in Events /\ ledger[worker[w].event].stage \in Pending
         /\ ledger[worker[w].event].revision = revision
         /\ \A v \in Workers \ {w} :
              /\ worker[v].event = NoEvent => pc[v] = "idle"
              /\ Live(v) => worker[v].event = worker[w].event
              /\ worker[v].event = worker[w].event => pc[v] \notin PastEmit
<1> DEFINE e == worker[w].event
<1>0. FleetInv /\ TypeOK
  BY InRange DEF SerialInv
<1>1. /\ e \in Events /\ failed' = failed \cup FailedBy[e] /\ pc[w] = "emit"
  BY <1>0, Emits
<1>2. e # NoEvent /\ ~(FailedBy[e] \subseteq failed)
  BY <1>1, NoEventAssumption
<1>3. ledger[e].stage \in Pending
  <2>1. ledger[e].stage # "unseen" /\ ledger[e] \in LedgerEntry
    BY <1>0, <1>1, <1>2, WorkedOnIsSeen
  <2>2. ledger[e].stage # "applied"
    BY <1>1, <1>2 DEF SerialInv, RoadsRecorded
  <2> QED BY <2>1, <2>2 DEF LedgerEntry, Stages
<1>4. Live(w)
  BY <1>1, <1>3 DEF Live, Finished, Me, Pending
<1>5. ASSUME NEW v \in Workers, v # w
      PROVE  /\ worker[v].event = NoEvent => pc[v] = "idle"
             /\ Live(v) => worker[v].event = e
             /\ worker[v].event = e => pc[v] \notin PastEmit
  <2>1. worker[v].event = NoEvent => pc[v] = "idle"
    BY <1>1, <1>5 DEF SerialInv, RunComesFirst, Planning, Me
  <2>2. Live(v) => worker[v].event = e
    BY <1>4, <1>5 DEF SerialInv, OneAtATime
  <2>3. worker[v].event = e => pc[v] \notin PastEmit
    BY <1>2 DEF SerialInv, RoadsRecorded
  <2> QED BY <2>1, <2>2, <2>3
<1>6. ledger[e].revision = revision
  BY <1>1, <1>3 DEF SerialInv, OneAtATime
<1> QED BY <1>1, <1>3, <1>5, <1>6

-----------------------------------------------------------------------------
(* The plans on the record *)

\* Who calls the store owns what it writes to.
LEMMA CallersOwn ==
  ASSUME SerialInv, NEW w \in Workers, Calls(w)
  PROVE  /\ Owner(w) /\ Knows(pc[w], worker[w]) /\ VerifiesItsOwn(pc[w], worker[w])
         /\ \A v \in Workers \ {w} : ~Owner(v)
<1>0. FleetInv /\ OneAtATime
  BY DEF SerialInv
<1>1. FenceHolds(Fence(w))
  BY <1>0, CallIsACall
<1>2. pc[w] \notin {"idle", "advance"}
  BY DEF Calls, CreateVehicle, ClaimVehicle, Rebind, Withdraws, Propose, Reject, Mark, Commit
<1>3. Owner(w)
  BY <1>1, <1>2 DEF Owner
<1> QED BY <1>0, <1>3, OneOwner DEF SerialInv

\* What is written under an id keeps saying what it says.
KeepsWord(p) ==
  /\ Known(p)' <=> Known(p)
  /\ plans'[p].proposal = plans[p].proposal
  /\ p # committed => plans'[p].basis = plans[p].basis

\* A call proposes a plan under a fresh id, or leaves every plan its word; the
\* commitment moves to nothing, or to the caller's plan.
LEMMA PlansUnderCalls ==
  ASSUME SerialInv, NEW w \in Workers, Calls(w)
  PROVE  \/ /\ Propose(w) /\ committed = NoPlan /\ committed' = NoPlan
            /\ worker[w].plan \in PlanIds /\ ~Known(worker[w].plan)
            /\ worker[w].plan[2] = Cardinality(Proposed) + 1
            /\ plans'[worker[w].plan].verdict # "absent"
            /\ plans'[worker[w].plan].proposal = worker[w].proposal
            /\ plans'[worker[w].plan].basis = worker[w].rev
            /\ \A p \in PlanIds \ {worker[w].plan} : plans'[p] = plans[p]
         \/ /\ ~Propose(w) /\ \A p \in PlanIds : KeepsWord(p)
            /\ \/ committed' \in {committed, NoPlan}
               \/ /\ Commit(w) /\ Committable(worker[w].plan) /\ committed' = worker[w].plan
                  /\ Known(worker[w].plan) /\ worker[w].plan \in PlanIds
<1> DEFINE x == worker[w]
<1>0. /\ FleetInv /\ TypeOK /\ LocalOK(pc[w], x) /\ Knows(pc[w], x) /\ VerifiesItsOwn(pc[w], x)
      /\ ProposedAreCounted /\ x \in Locals
  BY InRange, CallersOwn DEF SerialInv
<1> USE DEF Me
<1>1. CASE Propose(w)
  <2>1. committed = NoPlan /\ x.plan \in PlanIds /\ x.plan[2] = Cardinality(Proposed) + 1
    BY <1>0, <1>1 DEF Propose, Knows, LocalOK, Planned, Verifying
  <2>2. ~Known(x.plan)
    BY <1>0, <2>1, ProposedIsFinite DEF ProposedAreCounted
  <2>3. /\ plans'[x.plan] = [verdict |-> "candidate", basis |-> x.rev, proposal |-> x.proposal]
        /\ \A p \in PlanIds \ {x.plan} : plans'[p] = plans[p]
        /\ committed' = committed
    BY <1>0, <1>1, <2>1 DEF Propose, AddPlan, TypeOK
  <2> QED BY <1>1, <2>1, <2>2, <2>3 DEF Known
<1>2. CASE CreateVehicle(w) \/ ClaimVehicle(w)
  <2>1. UNCHANGED <<plans, committed>> /\ ~Propose(w)
    BY <1>2 DEF CreateVehicle, ClaimVehicle, CreateWork, Claim, Propose
  <2> QED BY <2>1 DEF KeepsWord, Known
<1>3. CASE Rebind(w)
  <2>1. x.plan = committed /\ pc[w] = "rebind"
    BY <1>0, <1>3 DEF Rebind, Knows, Reverifying
  <2>2. PICK b : plans' = [plans EXCEPT ![x.plan].basis = b]
    BY <1>3 DEF Rebind, RebindPlan
  <2>3. \A p \in PlanIds : KeepsWord(p)
    BY <1>0, <2>1, <2>2 DEF KeepsWord, Known, TypeOK, Plan
  <2>4. committed' = committed
    BY <1>3 DEF Rebind, RebindPlan
  <2> QED BY <2>1, <2>3, <2>4 DEF Propose
<1>4. ASSUME NEW d \in Verdicts \ {"absent"}, NEW q, plans' = [plans EXCEPT ![q].verdict = d],
             q \in PlanIds => Known(q)
      PROVE  \A p \in PlanIds : KeepsWord(p)
  BY <1>0, <1>4 DEF KeepsWord, Known, TypeOK, Plan
<1>5. CASE Withdraws(w)
  <2>1. x.plan = committed => Known(committed)
    BY <1>0, <1>5, NoPlanAssumption DEF Withdraws, LocalOK, Reverifying, ProposedAreCounted
  <2>2. \/ UNCHANGED <<plans, committed>>
        \/ /\ committed = x.plan /\ plans' = [plans EXCEPT ![x.plan].verdict = "rejected"]
           /\ committed' = NoPlan
    BY <1>5 DEF Withdraws, RevokeIfRevisionCurrent, RevokeIfStale, Withdraw
  <2>3. pc[w] # "propose" /\ "rejected" \in Verdicts \ {"absent"}
    BY <1>5 DEF Withdraws, Verdicts
  <2>4. \A p \in PlanIds : KeepsWord(p)
    BY <1>4, <2>1, <2>2, <2>3 DEF KeepsWord, Known
  <2> QED BY <2>2, <2>3, <2>4 DEF Propose
<1>6. CASE Reject(w) \/ Mark(w)
  <2>1. PICK d \in {"verified", "rejected"} : plans' = [plans EXCEPT ![x.plan].verdict = d]
    BY <1>6 DEF Reject, Mark, RejectPlan, MarkVerified
  <2>2. Known(x.plan) /\ committed' = committed /\ ~Propose(w) /\ d \in Verdicts \ {"absent"}
    BY <1>6, <2>1 DEF Reject, Mark, RejectPlan, MarkVerified, Propose, Verdicts
  <2> QED BY <1>4, <2>1, <2>2
<1>7. CASE Commit(w)
  <2>1. x.plan \in PlanIds /\ UNCHANGED plans /\ Known(x.plan) /\ ~Propose(w)
        /\ committed' = IF Committable(x.plan) THEN x.plan ELSE committed
    BY <1>0, <1>7 DEF Commit, CommitPlan, LocalOK, Planned, Verifying, Propose
  <2> QED BY <1>7, <2>1 DEF KeepsWord, Known
<1> QED BY <1>1, <1>2, <1>3, <1>5, <1>6, <1>7 DEF Calls

\* Whatever else happens, nobody touches the plans.
LEMMA OthersLeaveThePlans ==
  ASSUME FleetInv, [FleetNext]_fleetVars, \A w \in Workers : ~Calls(w)
  PROVE  UNCHANGED <<plans, committed>>
<1>1. ASSUME NEW w \in Workers,
             \/ Internal(w) \/ Advance(w) \/ Finish(w) \/ Abandon(w) \/ EmitFailures(w)
      PROVE  UNCHANGED <<plans, committed>>
  BY <1>1, InternalStep, Advances, EndsIt, Emits DEF storeVars
<1>2. ASSUME NEW w \in Workers, NEW x \in Forecasts,
             StartRun(w, x) \/ \E e \in Events : Deliver(w, e, x)
      PROVE  UNCHANGED <<plans, committed>>
  BY <1>2 DEF StartRun, Deliver, Reads, storeVars
<1> QED BY <1>1, <1>2, FleetCases, OutsideIsQuiet DEF fleetVars, storeVars

\* Of all calls only a proposal adds a plan, and it adds the caller's.
LEMMA CountUnderCalls ==
  ASSUME SerialInv, NEW w \in Workers, Calls(w)
  PROVE  IF Propose(w) THEN Cardinality(Proposed)' = Cardinality(Proposed) + 1
                            /\ Proposed' = Proposed \cup {worker[w].plan}
                       ELSE Proposed' = Proposed
<1>1. CASE Propose(w)
  <2>1. /\ worker[w].plan \in PlanIds /\ ~Known(worker[w].plan)
        /\ plans'[worker[w].plan].verdict # "absent"
        /\ \A p \in PlanIds \ {worker[w].plan} : plans'[p] = plans[p]
    BY <1>1, PlansUnderCalls
  <2>2. Proposed' = Proposed \cup {worker[w].plan} /\ worker[w].plan \notin Proposed
    BY <2>1 DEF Proposed, Known
  <2>3. Cardinality(Proposed \cup {worker[w].plan}) = Cardinality(Proposed) + 1
    BY <2>2, ProposedIsFinite, FS_AddElement
  <2> QED BY <1>1, <2>2, <2>3
<1>2. CASE ~Propose(w)
  BY <1>2, PlansUnderCalls DEF KeepsWord, Proposed
<1> QED BY <1>1, <1>2

\* Every step keeps the ids within the count of plans.
LEMMA ProposedAreCountedStep ==
  ASSUME SerialInv, [FleetNext]_fleetVars
  PROVE  ProposedAreCounted'
<1>0. FleetInv /\ ProposedAreCounted /\ committed \in PlanIds \cup {NoPlan}
      /\ Cardinality(Proposed) \in Nat
  BY InRange, ProposedIsFinite DEF SerialInv, TypeOK
<1>1. ASSUME NEW w \in Workers, Calls(w)
      PROVE  ProposedAreCounted'
  <2>1. CASE Propose(w)
    <3>1. /\ committed' = NoPlan /\ worker[w].plan[2] = Cardinality(Proposed) + 1
          /\ \A p \in PlanIds \ {worker[w].plan} : plans'[p] = plans[p]
          /\ Cardinality(Proposed)' = Cardinality(Proposed) + 1
      BY <1>1, <2>1, PlansUnderCalls, CountUnderCalls
    <3>2. ASSUME NEW p \in PlanIds, Known(p)'
          PROVE  p[2] <= Cardinality(Proposed)'
      <4>1. CASE p = worker[w].plan
        BY <1>0, <3>1, <4>1
      <4>2. CASE p # worker[w].plan
        <5>1. Known(p) /\ p[2] \in Nat
          BY <3>1, <3>2, <4>2, RunAssumption DEF Known
        <5> QED BY <1>0, <3>1, <5>1 DEF ProposedAreCounted
      <4> QED BY <4>1, <4>2
    <3> QED BY <3>1, <3>2 DEF ProposedAreCounted
  <2>2. CASE ~Propose(w)
    <3>1. /\ \A p \in PlanIds : Known(p)' <=> Known(p)
          /\ committed' \in {committed, NoPlan} \/ (committed' \in PlanIds /\ Known(committed'))
          /\ Cardinality(Proposed)' = Cardinality(Proposed)
      BY <1>1, <2>2, PlansUnderCalls, CountUnderCalls DEF KeepsWord
    <3>2. committed' # NoPlan => committed' \in PlanIds /\ Known(committed')
      BY <1>0, <3>1 DEF ProposedAreCounted
    <3>3. ASSUME committed' # NoPlan PROVE plans'[committed'].verdict # "absent"
      <4>1. PICK p \in PlanIds : p = committed' /\ Known(p)
        BY <3>2, <3>3
      <4> QED BY <3>1, <4>1 DEF Known
    <3> QED BY <1>0, <3>1, <3>3 DEF ProposedAreCounted, Known
  <2> QED BY <2>1, <2>2
<1>2. CASE \A w \in Workers : ~Calls(w)
  <2>1. UNCHANGED <<plans, committed>>
    BY <1>0, <1>2, OthersLeaveThePlans
  <2> QED BY <1>0, <2>1 DEF ProposedAreCounted, Proposed, Known
<1> QED BY <1>1, <1>2

-----------------------------------------------------------------------------
(* The plan under verification *)

\* How a worker comes to verify, and goes on verifying.
LEMMA VerifyingMoves ==
  ASSUME FleetInv, NEW w \in Workers, Internal(w) \/ Calls(w), pc'[w] \in Verifying
  PROVE  /\ worker'[w].plan = worker[w].plan /\ worker'[w].rev = worker[w].rev
         /\ worker'[w].event = worker[w].event /\ worker'[w].hazard = worker[w].hazard
         /\ \/ Propose(w) /\ pc[w] = "propose" /\ pc'[w] = "fetch" /\ worker'[w] = worker[w]
            \/ /\ pc[w] = "fetch" /\ pc'[w] = "stale"
               /\ worker'[w].proposal = plans[worker[w].plan].proposal
               /\ worker'[w].basis = plans[worker[w].plan].basis
            \/ pc[w] \in Verifying \ {"fetch"} /\ pc'[w] # "fetch" /\ worker'[w] = worker[w]
<1>0. /\ pc \in [Workers -> Steps] /\ worker \in [Workers -> Locals] /\ worker[w] \in Locals
  BY InRange
<1> USE DEF Verifying, Me
<1>1. CASE Dismiss(w) \/ Evicted(w) \/ Dies(w) \/ Outlived(w) \/ Fails(w)
  BY <1>0, <1>1 DEF Dismiss, Evicted, Dies, Outlived, Fails, Leaves, Goto
<1>2. CASE ReadCommitted(w) \/ Observe(w) \/ Judge(w) \/ ReadWorld(w) \/ Number(w) \/ Survey(w)
  BY <1>0, <1>2 DEF ReadCommitted, Observe, Judge, ReadWorld, Number, Survey, Reads
<1>3. CASE FetchPlan(w)
  BY <1>0, <1>3 DEF FetchPlan, Reads, Locals
<1>4. CASE CheckStale(w) \/ Weigh(w)
  BY <1>0, <1>4 DEF CheckStale, Weigh, Reads
<1>5. CASE CreateVehicle(w) \/ ClaimVehicle(w) \/ Rebind(w) \/ Withdraws(w)
  BY <1>0, <1>5 DEF CreateVehicle, ClaimVehicle, Rebind, Withdraws, Leaves, Goto
<1>6. CASE Propose(w)
  BY <1>0, <1>6 DEF Propose, Goto
<1>7. Onward(w) /\ pc[w] \in Verifying => FALSE
  BY <1>0 DEF Onward, Leaves, Goto
<1>8. CASE Reject(w) \/ Mark(w) \/ Commit(w)
  BY <1>0, <1>7, <1>8 DEF Reject, Mark, Commit, Leaves, Goto
<1> QED BY <1>1, <1>2, <1>3, <1>4, <1>5, <1>6, <1>8 DEF Internal, Calls

\* A worker that verifies and does not move keeps what it verifies.
LEMMA VerifiedIsLeftAlone ==
  ASSUME SerialInv, [FleetNext]_fleetVars, NEW v \in Workers, pc[v] \in Verifying,
         pc'[v] = pc[v], worker'[v] = worker[v],
         \A w \in Workers : Calls(w) => w # v
  PROVE  VerifiesItsOwn(pc[v], worker[v])'
<1> DEFINE x == worker[v]
           p == x.plan
<1>0. /\ FleetInv /\ TypeOK /\ LocalOK(pc[v], x) /\ VerifiesItsOwn(pc[v], x)
      /\ [StoreNext]_storeVars /\ ProposedAreCounted /\ p \in PlanIds
  <2>1. LocalOK(pc[v], x) /\ FleetInv
    BY InRange DEF SerialInv
  <2> QED BY <2>1, FleetStep, InRange DEF SerialInv, LocalOK, Planned
<1>1. Known(p) /\ p # committed /\ plans[p].proposal = x.proposal /\ plans[p].basis = x.rev
  BY <1>0 DEF VerifiesItsOwn
<1>2. /\ plans'[p].verdict # "absent" /\ p # committed'
      /\ plans'[p].proposal = x.proposal /\ plans'[p].basis = x.rev
  <2>1. ASSUME NEW w \in Workers, Calls(w)
        PROVE  /\ plans'[p].verdict # "absent" /\ p # committed'
               /\ plans'[p].proposal = x.proposal /\ plans'[p].basis = x.rev
    <3>1. w # v
      BY <2>1
    <3>2. CASE Propose(w)
      BY <1>0, <1>1, <2>1, <3>2, PlansUnderCalls, NoPlanAssumption DEF Known
    <3>3. CASE ~Propose(w)
      <4>1. KeepsWord(p)
        BY <1>0, <2>1, <3>3, PlansUnderCalls
      <4>2. Commit(w) => worker[w].plan # p
        BY <3>1 DEF SerialInv, ProposalsAreOwn, Commit, Verifying
      <4>3. p # committed'
        BY <1>0, <1>1, <2>1, <3>3, <4>2, PlansUnderCalls, NoPlanAssumption
      <4> QED BY <1>1, <4>1, <4>3 DEF KeepsWord, Known
    <3> QED BY <3>2, <3>3
  <2>2. CASE \A w \in Workers : ~Calls(w)
    BY <1>0, <1>1, <2>2, OthersLeaveThePlans DEF Known
  <2> QED BY <2>1, <2>2
<1>3. ASSUME x.event # NoEvent
      PROVE  ledger'[x.event].revision = ledger[x.event].revision
  <2>1. x.event \in Events /\ ledger[x.event].stage # "unseen"
    BY <1>0, <1>3, WorkedOnIsSeen DEF Verifying
  <2>2. EventsOwnTheirRevisions /\ ledger[x.event].attempt # 0
    BY <1>0, <2>1 DEF FleetInv, EventsOwnTheirRevisions
  <2>3. CASE UNCHANGED <<revision, ledger>> \/ AbsorbUnidentified
    BY <2>3 DEF AbsorbUnidentified
  <2>4. ASSUME NEW e \in Events, AbsorbEvent(e) \/ ResumeEvent(e) \/ LeaseLapses(e)
        PROVE  ledger'[x.event].revision = ledger[x.event].revision
    BY <1>0, <2>1, <2>4 DEF AbsorbEvent, ResumeEvent, LeaseLapses, TypeOK, LedgerEntry
  <2>5. ASSUME NEW e \in Events, NEW f \in Fences, CompleteEvent(e, f) \/ AbandonEvent(e, f)
        PROVE  ledger'[x.event].revision = ledger[x.event].revision
    BY <1>0, <2>1, <2>5 DEF CompleteEvent, AbandonEvent, TypeOK, LedgerEntry
  <2> QED BY <1>0, <2>3, <2>4, <2>5, LedgerCases
<1>4. PICK s, y : s = pc[v] /\ y = worker[v]
  OBVIOUS
<1>5. VerifiesItsOwn(s, y)'
  BY <1>0, <1>2, <1>3, <1>4 DEF VerifiesItsOwn, Known
<1> QED BY <1>4, <1>5

\* Every step leaves a plan under verification as its worker proposed it.
LEMMA VerifiesItsOwnStep ==
  ASSUME SerialInv, [FleetNext]_fleetVars, NEW v \in Workers
  PROVE  VerifiesItsOwn(pc[v], worker[v])'
<1>0. FleetInv /\ VerifiesItsOwn(pc[v], worker[v]) /\ OneAtATime
  BY DEF SerialInv
<1>1. ASSUME pc'[v] = pc[v], worker'[v] = worker[v], \A w \in Workers : Calls(w) => w # v
      PROVE  VerifiesItsOwn(pc[v], worker[v])'
  <2>1. CASE pc[v] \in Verifying
    BY <1>1, <2>1, VerifiedIsLeftAlone
  <2>2. CASE pc[v] \notin Verifying
    BY <1>1, <2>2 DEF VerifiesItsOwn
  <2> QED BY <2>1, <2>2
<1>2. ASSUME pc'[v] \notin Verifying
      PROVE  VerifiesItsOwn(pc[v], worker[v])'
  BY <1>2 DEF VerifiesItsOwn
<1>3. ASSUME Internal(v), pc'[v] \in Verifying
      PROVE  VerifiesItsOwn(pc[v], worker[v])'
  <2>1. UNCHANGED <<plans, committed, ledger>>
    BY <1>0, <1>3, InternalStep DEF storeVars
  <2>2. ASSUME pc[v] = "propose" PROVE FALSE
    <3>1. Evicted(v) \/ Outlived(v) \/ Fails(v) \/ Dies(v)
      BY <1>3, <2>2 DEF Internal, Dismiss, ReadCommitted, Observe, Judge, ReadWorld, Number, Survey,
                        FetchPlan, CheckStale, Weigh
    <3> QED BY <1>0, <1>3, <3>1, InRange DEF Evicted, Outlived, Fails, Dies, Leaves, Goto, Verifying
  <2> QED BY <1>0, <1>3, <2>1, <2>2, VerifyingMoves DEF VerifiesItsOwn, Known, Verifying
<1>4. ASSUME Calls(v), pc'[v] \in Verifying
      PROVE  VerifiesItsOwn(pc[v], worker[v])'
  <2> DEFINE x == worker[v]
  <2>1. UNCHANGED ledger /\ Knows(pc[v], x)
    BY <1>0, <1>4, CallIsACall, CallersOwn
  <2>2. CASE Propose(v)
    <3>1. /\ pc'[v] = "fetch" /\ worker'[v] = x /\ committed' = NoPlan /\ x.plan \in PlanIds
          /\ plans'[x.plan].verdict # "absent" /\ plans'[x.plan].proposal = x.proposal
          /\ plans'[x.plan].basis = x.rev
      BY <1>0, <1>4, <2>2, VerifyingMoves, PlansUnderCalls DEF Propose, Verifying
    <3>2. x.event # NoEvent => ledger[x.event].revision = x.rev
      BY <1>0, <1>4, <2>1, <2>2, CallersOwn, OwnerIsLive DEF OneAtATime, Knows, Propose, Planned
    <3> QED BY <2>1, <3>1, <3>2, NoPlanAssumption DEF VerifiesItsOwn, Known
  <2>3. CASE ~Propose(v)
    <3>1. /\ pc[v] \in Verifying /\ worker'[v] = x /\ pc[v] # "fetch"
          /\ x.plan \in PlanIds /\ KeepsWord(x.plan) /\ x.plan # committed
      <4>1. pc[v] \in Verifying \ {"fetch"} /\ worker'[v] = x
        BY <1>0, <1>4, <2>3, VerifyingMoves
           DEF Calls, CreateVehicle, ClaimVehicle, Rebind, Withdraws, Reject, Mark, Commit
      <4>2. x.plan \in PlanIds /\ x.plan # committed
        BY <1>0, <4>1, InRange DEF LocalOK, Planned, VerifiesItsOwn
      <4> QED BY <1>4, <2>3, <4>1, <4>2, PlansUnderCalls
    <3>2. committed' # x.plan
      <4>1. ~Commit(v)
        BY <1>0, <1>4, InRange DEF Commit, Onward, Leaves, Goto, Verifying
      <4> QED BY <1>4, <2>3, <3>1, <4>1, PlansUnderCalls, NoPlanAssumption
    <3> QED BY <1>0, <2>1, <3>1, <3>2 DEF VerifiesItsOwn, KeepsWord, Known
  <2> QED BY <2>2, <2>3
<1>5. ASSUME NEW w \in Workers, w # v, OnlyMoves(w), \A u \in Workers : Calls(u) => u # v
      PROVE  VerifiesItsOwn(pc[v], worker[v])'
  BY <1>1, <1>5 DEF OnlyMoves
<1>6. CASE Calls(v)
  BY <1>2, <1>4, <1>6
<1>7. ASSUME ~Calls(v), NEW w \in Workers, OnlyMoves(w),
             w = v => Internal(v) \/ pc'[v] \notin Verifying
      PROVE  VerifiesItsOwn(pc[v], worker[v])'
  BY <1>2, <1>3, <1>5, <1>7
<1>8. CASE ~Calls(v)
  <2>1. ASSUME NEW w \in Workers, NEW x \in Forecasts, NEW e,
               StartRun(w, x) \/ (e \in Events /\ Deliver(w, e, x))
        PROVE  OnlyMoves(w) /\ pc'[w] \notin Verifying
    BY <1>0, <2>1, OpensMove DEF Verifying
  <2>2. ASSUME NEW w \in Workers, Advance(w) \/ Finish(w) \/ Abandon(w) \/ EmitFailures(w)
        PROVE  OnlyMoves(w) /\ pc'[w] \notin Verifying
    BY <1>0, <2>2, Advances, EndsIt, Emits DEF Verifying
  <2>3. ASSUME NEW w \in Workers, Internal(w) \/ Calls(w)
        PROVE  OnlyMoves(w)
    BY <1>0, <2>3, InternalStep, CallMoves
  <2>4. CASE Outside \/ UNCHANGED fleetVars
    <3>1. UNCHANGED <<plans, committed, pc, worker>>
      BY <1>0, <2>4, OutsideIsQuiet DEF fleetVars, storeVars
    <3>2. \A w \in Workers : Calls(w) => w # v
      BY <1>8
    <3> QED BY <1>1, <3>1, <3>2
  <2> QED BY <1>7, <1>8, <2>1, <2>2, <2>3, <2>4, FleetCases
<1> QED BY <1>6, <1>8

\* No step puts two workers on one plan.
LEMMA ProposalsAreOwnStep ==
  ASSUME SerialInv, [FleetNext]_fleetVars
  PROVE  ProposalsAreOwn'
<1>0. FleetInv /\ ProposalsAreOwn
  BY DEF SerialInv
<1>1. ASSUME NEW w \in Workers, OnlyMoves(w),
             pc'[w] \in Verifying => /\ worker'[w].plan = worker[w].plan
                                     /\ \/ pc[w] \in Verifying
                                        \/ \A v \in Workers \ {w} : pc[v] \in Verifying =>
                                             worker[v].plan # worker[w].plan
      PROVE  ProposalsAreOwn'
  BY <1>0, <1>1 DEF ProposalsAreOwn, OnlyMoves
<1>2. ASSUME NEW w \in Workers, NEW x \in Forecasts, NEW e,
             StartRun(w, x) \/ (e \in Events /\ Deliver(w, e, x))
      PROVE  OnlyMoves(w) /\ pc'[w] \notin Verifying
  BY <1>0, <1>2, OpensMove DEF Verifying
<1>3. ASSUME NEW w \in Workers, Advance(w) \/ Finish(w) \/ Abandon(w) \/ EmitFailures(w)
      PROVE  OnlyMoves(w) /\ pc'[w] \notin Verifying
  BY <1>0, <1>3, Advances, EndsIt, Emits DEF Verifying
<1>4. ASSUME NEW w \in Workers, Internal(w)
      PROVE  ProposalsAreOwn'
  <2>1. OnlyMoves(w)
    BY <1>0, <1>4, InternalStep
  <2>2. ASSUME pc'[w] \in Verifying
        PROVE  worker'[w].plan = worker[w].plan /\ pc[w] \in Verifying
    <3>1. pc[w] # "propose"
      <4>1. ASSUME pc[w] = "propose" PROVE Evicted(w) \/ Outlived(w) \/ Fails(w) \/ Dies(w)
        BY <1>4, <4>1 DEF Internal, Dismiss, ReadCommitted, Observe, Judge, ReadWorld, Number, Survey,
                          FetchPlan, CheckStale, Weigh
      <4> QED BY <1>0, <2>2, <4>1, InRange DEF Evicted, Outlived, Fails, Dies, Leaves, Goto, Verifying
    <3> QED BY <1>0, <1>4, <2>2, <3>1, VerifyingMoves DEF Verifying
  <2> QED BY <1>1, <2>1, <2>2
<1>5. ASSUME NEW w \in Workers, Calls(w)
      PROVE  ProposalsAreOwn'
  <2>1. OnlyMoves(w)
    BY <1>0, <1>5, CallMoves
  <2>2. ASSUME pc'[w] \in Verifying
        PROVE  /\ worker'[w].plan = worker[w].plan
               /\ pc[w] \in Verifying \/ ~Known(worker[w].plan)
    <3>1. Propose(w) => ~Known(worker[w].plan)
      BY <1>5, PlansUnderCalls
    <3> QED BY <1>0, <1>5, <2>2, <3>1, VerifyingMoves DEF Verifying
  <2>3. \A v \in Workers : pc[v] \in Verifying => Known(worker[v].plan)
    BY DEF SerialInv, VerifiesItsOwn
  <2> QED BY <1>1, <2>1, <2>2, <2>3
<1>6. CASE Outside \/ UNCHANGED fleetVars
  <2>1. UNCHANGED <<pc, worker>>
    BY <1>0, <1>6, OutsideIsQuiet DEF fleetVars
  <2> QED BY <1>0, <2>1 DEF ProposalsAreOwn
<1> QED BY <1>1, <1>2, <1>3, <1>4, <1>5, <1>6, FleetCases

-----------------------------------------------------------------------------
(* The planner and the roads *)

\* A proposal computed for the present revision was computed on the roads as the
\* record still has them.
LEMMA PlannedIsLeftAlone ==
  ASSUME SerialInv, [FleetNext]_fleetVars, NEW v \in Workers,
         pc'[v] = pc[v], worker'[v] = worker[v]
  PROVE  PlannedOnRecord(pc[v], worker[v], Owner(v))'
<1> DEFINE x == worker[v]
<1>0. /\ FleetInv /\ TypeOK /\ UnseenIsUntried /\ LocalOK(pc[v], x) /\ [StoreNext]_storeVars
      /\ PlannedOnRecord(pc[v], x, Owner(v)) /\ revision \in 0..MaxRevision
      /\ x \in Locals /\ x.event \in Events \cup {NoEvent}
  BY FleetStep, InRange DEF SerialInv
<1>1. SUFFICES ASSUME x.plan # <<0, 1>>, x.rev = revision',
                      pc[v] \in Verifying \/ (pc[v] = "propose" /\ Owner(v)')
               PROVE  x.proposal = Assignment(x.hazard, failed')
  BY DEF PlannedOnRecord
<1>2. x.rev = revision
  BY <1>0, <1>1, AttemptsGrow, BoundAssumption DEF LocalOK, Locals, TypeOK
<1>3. pc[v] \in Verifying \/ (pc[v] = "propose" /\ Owner(v))
  BY <1>0, <1>1, OwnersStay DEF Fence
<1>4. x.proposal = Assignment(x.hazard, failed)
  BY <1>0, <1>1, <1>2, <1>3 DEF PlannedOnRecord
<1>5. failed' = failed
  <2> SUFFICES ASSUME failed' # failed PROVE FALSE
    OBVIOUS
  <2>1. PICK w \in Workers : EmitFailures(w)
    <3>1. ASSUME NEW w \in Workers, \/ Internal(w) \/ Calls(w) \/ Advance(w) \/ Finish(w) \/ Abandon(w)
          PROVE  FALSE
      BY <1>0, <3>1, InternalStep, CallIsACall, Advances, EndsIt
    <3>2. ASSUME NEW w \in Workers, NEW y \in Forecasts,
                 StartRun(w, y) \/ \E e \in Events : Deliver(w, e, y)
          PROVE  FALSE
      BY <3>2 DEF StartRun, Deliver, Reads
    <3>3. ~Outside /\ ~UNCHANGED fleetVars
      BY <1>0, OutsideIsQuiet DEF fleetVars
    <3> QED BY <3>1, <3>2, <3>3, FleetCases
  <2> DEFINE e == worker[w].event
  <2>2. /\ e \in Events /\ ledger[e].stage \in Pending /\ ledger[e].revision = revision
        /\ \A u \in Workers \ {w} :
             /\ worker[u].event = NoEvent => pc[u] = "idle"
             /\ Live(u) => worker[u].event = e
             /\ worker[u].event = e => pc[u] \notin PastEmit
    BY <2>1, EmitsAlone
  <2>3. v # w
    BY <1>3, <2>1 DEF EmitFailures, Verifying
  <2>4. pc[v] \in PastEmit /\ pc[v] # "idle"
    BY <1>3 DEF PastEmit, Planned, Verifying
  <2>5. x.event # NoEvent /\ x.event # e
    BY <2>2, <2>3, <2>4
  <2>6. ~Live(v)
    BY <2>2, <2>3, <2>5
  <2>7. pc[v] \in Verifying
    BY <1>0, <1>3, <2>6, OwnerIsLive
  <2>8. ledger[x.event].revision = revision /\ x.event \in Events
    BY <1>0, <1>2, <2>5, <2>7 DEF SerialInv, VerifiesItsOwn
  <2> QED BY <1>0, <2>2, <2>5, <2>8 DEF FleetInv, EventsOwnTheirRevisions, Pending
<1> QED BY <1>4, <1>5

\* Every step leaves an owner's fresh proposal computed on the record's roads.
LEMMA PlannedOnRecordStep ==
  ASSUME SerialInv, [FleetNext]_fleetVars, NEW v \in Workers
  PROVE  PlannedOnRecord(pc[v], worker[v], Owner(v))'
<1> DEFINE x == worker[v]
           y == worker'[v]
<1>0. /\ FleetInv /\ LocalOK(pc[v], x) /\ pc \in [Workers -> Steps] /\ worker \in [Workers -> Locals]
      /\ x \in Locals /\ PlannedOnRecord(pc[v], x, Owner(v)) /\ VerifiesItsOwn(pc[v], x)
  BY InRange DEF SerialInv
<1>1. ASSUME pc'[v] \notin Verifying \cup {"propose"}
      PROVE  PlannedOnRecord(pc[v], worker[v], Owner(v))'
  BY <1>1 DEF PlannedOnRecord
<1>2. ASSUME pc'[v] = pc[v], worker'[v] = worker[v]
      PROVE  PlannedOnRecord(pc[v], worker[v], Owner(v))'
  BY <1>2, PlannedIsLeftAlone
<1>3. ASSUME Internal(v) \/ Calls(v), pc'[v] \in Verifying
      PROVE  PlannedOnRecord(pc[v], worker[v], Owner(v))'
  <2>1. UNCHANGED <<revision, failed>>
    BY <1>0, <1>3, InternalStep, CallIsACall DEF storeVars
  <2>2. /\ y.plan = x.plan /\ y.rev = x.rev /\ y.hazard = x.hazard /\ y.proposal = x.proposal
        /\ pc[v] \in Verifying \/ (pc[v] = "propose" /\ Owner(v))
    <3>1. Propose(v) => Owner(v)
      BY DEF Propose, AddPlan, Owner
    <3> QED BY <1>0, <1>3, <3>1, VerifyingMoves DEF VerifiesItsOwn, Verifying
  <2> QED BY <1>0, <2>1, <2>2 DEF PlannedOnRecord
<1>4. ASSUME Internal(v) \/ Calls(v), pc'[v] = "propose"
      PROVE  PlannedOnRecord(pc[v], worker[v], Owner(v))'
  <2>1. \/ /\ Survey(v) /\ UNCHANGED failed
           /\ worker' = [worker EXCEPT ![v] = [x EXCEPT !.proposal = Assignment(x.hazard, failed)]]
        \/ /\ ClaimVehicle(v)
           /\ worker' = [worker EXCEPT ![v].plan = <<x.rev, 1>>, ![v].proposal = NaiveAssignment]
    <3>1. CASE Dismiss(v) \/ Evicted(v) \/ Dies(v) \/ Outlived(v) \/ Fails(v)
      BY <1>0, <1>4, <3>1 DEF Dismiss, Evicted, Dies, Outlived, Fails, Leaves, Goto
    <3>2. CASE ReadCommitted(v) \/ Observe(v) \/ Judge(v) \/ ReadWorld(v) \/ Number(v) \/ FetchPlan(v)
               \/ CheckStale(v) \/ Weigh(v)
      BY <1>0, <1>4, <3>2
         DEF ReadCommitted, Observe, Judge, ReadWorld, Number, FetchPlan, CheckStale, Weigh, Reads
    <3>3. CASE Survey(v)
      BY <3>3 DEF Survey, Reads, Me
    <3>4. CASE CreateVehicle(v) \/ Rebind(v) \/ Withdraws(v) \/ Propose(v)
      BY <1>0, <1>4, <3>4 DEF CreateVehicle, Rebind, Withdraws, Propose, Goto
    <3>5. Onward(v) => FALSE
      BY <1>0, <1>4 DEF Onward, Leaves, Goto
    <3>6. CASE Reject(v) \/ Mark(v) \/ Commit(v)
      BY <1>0, <1>4, <3>5, <3>6 DEF Reject, Mark, Commit, Leaves, Goto
    <3>7. CASE ClaimVehicle(v)
      BY <1>0, <1>4, <3>7 DEF ClaimVehicle, Leaves, Me
    <3> QED BY <1>4, <3>1, <3>2, <3>3, <3>4, <3>6, <3>7 DEF Internal, Calls
  <2>2. CASE Survey(v) /\ UNCHANGED failed
             /\ worker' = [worker EXCEPT ![v] = [x EXCEPT !.proposal = Assignment(x.hazard, failed)]]
    <3>1. y.hazard = x.hazard /\ y.proposal = Assignment(x.hazard, failed)
      BY <1>0, <2>2 DEF Locals
    <3> QED BY <2>2, <3>1 DEF PlannedOnRecord
  <2>3. CASE ClaimVehicle(v)
             /\ worker' = [worker EXCEPT ![v].plan = <<x.rev, 1>>, ![v].proposal = NaiveAssignment]
    <3>1. x.rev = 0
      <4>1. Planning(v)
        BY <1>0, <2>3 DEF ClaimVehicle, Planning, Me, LocalOK, Seeding
      <4>2. revision = 0 /\ x.rev \in 0..MaxRevision /\ x.rev <= revision
        BY <1>0, <4>1 DEF SerialInv, RunComesFirst, LocalOK, Locals
      <4> QED BY <4>2, BoundAssumption
    <3>2. y.plan = <<x.rev, 1>>
      BY <1>0, <2>3 DEF Locals
    <3> QED BY <3>1, <3>2 DEF PlannedOnRecord
  <2> QED BY <2>1, <2>2, <2>3
<1>5. ASSUME Internal(v) \/ Calls(v)
      PROVE  PlannedOnRecord(pc[v], worker[v], Owner(v))'
  BY <1>1, <1>3, <1>4, <1>5
<1>6. ASSUME NEW w \in Workers, OnlyMoves(w),
             w = v => Internal(v) \/ Calls(v) \/ pc'[v] \notin Verifying \cup {"propose"}
      PROVE  PlannedOnRecord(pc[v], worker[v], Owner(v))'
  BY <1>1, <1>2, <1>5, <1>6 DEF OnlyMoves
<1>7. ASSUME NEW w \in Workers, NEW f \in Forecasts, NEW e,
             StartRun(w, f) \/ (e \in Events /\ Deliver(w, e, f))
      PROVE  OnlyMoves(w) /\ pc'[w] \notin Verifying \cup {"propose"}
  BY <1>0, <1>7, OpensMove DEF Verifying
<1>8. ASSUME NEW w \in Workers, Advance(w) \/ Finish(w) \/ Abandon(w) \/ EmitFailures(w)
      PROVE  OnlyMoves(w) /\ pc'[w] \notin Verifying \cup {"propose"}
  BY <1>0, <1>8, Advances, EndsIt, Emits DEF Verifying
<1>9. ASSUME NEW w \in Workers, Internal(w) \/ Calls(w)
      PROVE  OnlyMoves(w)
  BY <1>0, <1>9, InternalStep, CallMoves
<1>10. CASE Outside \/ UNCHANGED fleetVars
  <2>1. UNCHANGED <<pc, worker>>
    BY <1>0, <1>10, OutsideIsQuiet DEF fleetVars
  <2> QED BY <1>2, <2>1
<1> QED BY <1>6, <1>7, <1>8, <1>9, <1>10, FleetCases

-----------------------------------------------------------------------------
(* What owners know *)

\* What a worker knows is about the world, the plans and the roads only.
LEMMA KnowsFrame ==
  ASSUME NEW s, NEW x, UNCHANGED <<revision, plans, committed, failed>>, Knows(s, x)
  PROVE  Knows(s, x)'
<1>1. UNCHANGED Proposed
  BY DEF Proposed, Known
<1>2. CommittedRoadsOpen => CommittedRoadsOpen'
  BY DEF CommittedRoadsOpen, RoadsOpen
<1> QED BY <1>1, <1>2 DEF Knows

\* Before it has read the commitment, and once it has failed, a worker relies on
\* nothing.
LEMMA NothingToKnow ==
  ASSUME NEW s \in {"emit", "committed", "abandon"}, NEW x
  PROVE  Knows(s, x) /\ Knows(s, x)'
BY DEF Knows, Reverifying, Seeding, Planned, Verifying

\* Reading and judging, an owner learns what it will rely on.
LEMMA InternalOwnersKnow ==
  ASSUME SerialInv, [FleetNext]_fleetVars, NEW w \in Workers, Internal(w), Owner(w)'
  PROVE  Knows(pc[w], worker[w])'
<1> DEFINE x == worker[w]
<1>0. /\ FleetInv /\ LocalOK(pc[w], x) /\ pc \in [Workers -> Steps] /\ worker \in [Workers -> Locals]
      /\ x \in Locals /\ VerifiesItsOwn(pc[w], x) /\ OnErrand(w)
      /\ UNCHANGED <<revision, plans, committed, failed>>
  BY InternalStep, InRange DEF SerialInv, storeVars
<1>1. PICK s, y : s = pc'[w] /\ y = worker'[w]
  OBVIOUS
<1>2. GoesOn(w, s, y)
  BY <1>0, <1>1 DEF OnErrand, Owner
<1>3. Owner(w) /\ Knows(pc[w], x)
  <2>1. Owner(w)
    BY <1>0, <1>1, <1>2, OwnersStay DEF GoesOn, Fence
  <2> QED BY <2>1 DEF SerialInv
<1>4. SUFFICES Knows(s, y)
  BY <1>0, <1>1, KnowsFrame
<1> USE DEF Me, Reverifying, Seeding, Planned, Verifying
<1>5. CASE Dismiss(w) \/ Evicted(w) \/ Dies(w) \/ Outlived(w) \/ Fails(w)
  <2>1. s = "abandon"
    BY <1>0, <1>1, <1>2, <1>5 DEF Dismiss, Evicted, Dies, Outlived, Fails, Leaves, Goto, GoesOn
  <2> QED BY <2>1, NothingToKnow
<1>6. CASE ReadCommitted(w)
  <2>1. s = (IF committed = NoPlan THEN "replan" ELSE "observe") /\ y.plan = committed
    BY <1>0, <1>1, <1>6 DEF ReadCommitted, Reads, Locals
  <2> QED BY <2>1 DEF Knows
<1>7. CASE Observe(w)
  <2>1. pc[w] = "observe" /\ s = "judge" /\ y.plan = x.plan /\ y.rev = revision
    BY <1>0, <1>1, <1>7 DEF Observe, Reads, Locals
  <2> QED BY <1>3, <2>1 DEF Knows
<1>8. CASE Judge(w)
  <2>1. /\ pc[w] = "judge" /\ y = x
        /\ s = IF Verdict(plans[x.plan].proposal, x.hazard, failed) THEN "rebind" ELSE "revoke"
    BY <1>0, <1>1, <1>8 DEF Judge, Reads
  <2> QED BY <1>3, <2>1 DEF Knows
<1>9. CASE ReadWorld(w)
  <2>1. pc[w] = "replan" /\ s = "count" /\ y.rev = revision
    BY <1>0, <1>1, <1>9 DEF ReadWorld, Reads, Locals
  <2> QED BY <1>3, <2>1 DEF Knows
<1>10. CASE Number(w)
  <2>1. pc[w] = "count" /\ s = "survey" /\ y.rev = x.rev /\ y.plan = <<x.rev, Cardinality(Proposed) + 1>>
    BY <1>0, <1>1, <1>10 DEF Number, Reads, Locals
  <2> QED BY <1>3, <2>1 DEF Knows
<1>11. CASE Survey(w)
  <2>1. pc[w] = "survey" /\ s = "propose" /\ y.rev = x.rev /\ y.plan = x.plan
    BY <1>0, <1>1, <1>11 DEF Survey, Reads, Locals
  <2> QED BY <1>3, <2>1 DEF Knows
<1>12. CASE FetchPlan(w)
  <2>1. pc[w] = "fetch" /\ s = "stale" /\ y.rev = x.rev /\ y.plan = x.plan
    BY <1>0, <1>1, <1>12 DEF FetchPlan, Reads, Locals
  <2> QED BY <1>3, <2>1 DEF Knows
<1>13. CASE CheckStale(w)
  <2>1. pc[w] = "stale" /\ s \in {"weigh", "reject"} /\ y = x
    BY <1>0, <1>1, <1>13 DEF CheckStale, Reads
  <2> QED BY <1>3, <2>1 DEF Knows
<1>14. CASE Weigh(w)
  <2>1. /\ pc[w] = "weigh" /\ y = x
        /\ s = IF Verdict(x.proposal, x.hazard, failed) THEN "mark" ELSE "reject"
    BY <1>0, <1>1, <1>14 DEF Weigh, Reads
  <2> QED BY <1>3, <2>1 DEF Knows
<1> QED BY <1>5, <1>6, <1>7, <1>8, <1>9, <1>10, <1>11, <1>12, <1>13, <1>14 DEF Internal

\* Onward from a plan that did not commit.
LEMMA OnwardKnows ==
  ASSUME SerialInv, NEW w \in Workers, Calls(w), pc[w] \in {"reject", "mark", "commit"}, Onward(w),
         committed' = NoPlan, pc'[w] # "idle"
  PROVE  Knows(pc[w], worker[w])'
<1> DEFINE x == worker[w]
<1>0. /\ FleetInv /\ Knows(pc[w], x) /\ UNCHANGED <<revision, ledger>>
  BY CallersOwn, CallIsACall DEF SerialInv
<1> USE DEF Verifying, Planned, Reverifying, Seeding
<1>1. \/ pc'[w] = "complete"
      \/ pc'[w] = "survey" /\ worker'[w].plan = <<x.rev, 2>> /\ worker'[w].rev = x.rev /\ x.plan = <<x.rev, 1>>
  BY <1>0, OnwardMoves
<1>2. CASE pc'[w] = "complete"
  <2>1. PICK y : y = worker'[w]
    OBVIOUS
  <2>2. CommittedRoadsOpen'
    BY DEF CommittedRoadsOpen
  <2>3. Knows("complete", y)'
    BY <2>2 DEF Knows
  <2> QED BY <1>2, <2>1, <2>3
<1>3. CASE /\ pc'[w] = "survey" /\ worker'[w].plan = <<x.rev, 2>> /\ worker'[w].rev = x.rev
           /\ x.plan = <<x.rev, 1>>
  <2>1. PICK y : y = worker'[w]
    OBVIOUS
  <2>2. x.rev = revision /\ x.plan[2] = Cardinality(Proposed) /\ Proposed' = Proposed
    BY <1>0, CountUnderCalls DEF Knows, Propose
  <2>3. y.plan[2] = Cardinality(Proposed') + 1 /\ y.rev = revision'
    BY <1>0, <1>3, <2>1, <2>2
  <2>4. Knows("survey", y)'
    BY <2>3 DEF Knows
  <2> QED BY <1>3, <2>1, <2>4
<1> QED BY <1>1, <1>2, <1>3

\* A verdict is also about the roads.
LEMMA VerdictOpensRoads ==
  ASSUME NEW a, NEW hazard, Verdict(a, hazard, failed)
  PROVE  RoadsOpen(a)
BY DEF Verdict, SlotHolds, RoadsOpen

\* After its call an owner knows what its next step relies on.
LEMMA CallOwnersKnow ==
  ASSUME SerialInv, [FleetNext]_fleetVars, NEW w \in Workers, Calls(w), Owner(w)'
  PROVE  Knows(pc[w], worker[w])'
<1> DEFINE x == worker[w]
<1>0. /\ FleetInv /\ TypeOK /\ LocalOK(pc[w], x) /\ pc \in [Workers -> Steps] /\ worker \in [Workers -> Locals]
      /\ x \in Locals /\ VerifiesItsOwn(pc[w], x) /\ Knows(pc[w], x)
      /\ UNCHANGED <<revision, ledger, failed>> /\ pc'[w] # "idle"
  BY CallersOwn, CallIsACall, InRange DEF SerialInv, Owner
<1>1. PICK s, y : s = pc'[w] /\ y = worker'[w]
  OBVIOUS
<1>2. ASSUME UNCHANGED <<plans, committed>>, Knows(s, y)
      PROVE  Knows(pc[w], worker[w])'
  BY <1>0, <1>1, <1>2, KnowsFrame
<1>3. SUFFICES ASSUME ~(UNCHANGED <<plans, committed>> /\ Knows(s, y))
               PROVE  Knows(s, y)'
  BY <1>1, <1>2
<1> USE DEF Me, Reverifying, Seeding, Planned, Verifying
<1>4. CASE CreateVehicle(w)
  <2>1. UNCHANGED <<plans, committed>> /\ pc[w] = "create" /\ s \in {"create", "claim"}
    BY <1>0, <1>1, <1>4 DEF CreateVehicle, CreateWork
  <2> QED BY <1>0, <1>3, <2>1 DEF Knows
<1>5. CASE ClaimVehicle(w)
  <2>1. UNCHANGED <<plans, committed>> /\ pc[w] = "claim" /\ x.event = NoEvent
    BY <1>0, <1>5, CallIsACall DEF ClaimVehicle, Claim
  <2>2. \/ s = "claim"
        \/ s = "propose" /\ y.plan = <<x.rev, 1>> /\ y.rev = x.rev
    BY <1>0, <1>1, <1>5 DEF ClaimVehicle, Leaves, Locals
  <2>3. x.rev = revision
    <3>1. revision = 0
      BY <1>0, <2>1 DEF SerialInv, RunComesFirst, Planning
    <3>2. x.rev <= revision /\ x.rev \in Nat
      BY <1>0, BoundAssumption DEF LocalOK, Locals
    <3> QED BY <3>1, <3>2
  <2>4. committed = NoPlan /\ Cardinality(Proposed) = 0 /\ Proposed = {}
    BY <1>0, <2>1, FS_EmptySet DEF Knows
  <2>5. Knows(s, y)
    BY <2>2, <2>3, <2>4 DEF Knows
  <2> QED BY <1>3, <2>1, <2>5
<1>6. CASE Rebind(w)
  <2>1. /\ pc[w] = "rebind" /\ x.plan = committed /\ x.rev = revision
        /\ Verdict(plans[x.plan].proposal, x.hazard, failed) /\ x.plan \in PlanIds
    BY <1>0, <1>6 DEF Rebind, Knows, LocalOK
  <2>2. s = "complete" /\ committed' = committed
    BY <1>0, <1>1, <1>6, <2>1 DEF Rebind, RebindPlan, Goto, WorldStandsAt
  <2>3. ~Propose(w)
    BY <2>1 DEF Propose
  <2>4. plans'[x.plan].proposal = plans[x.plan].proposal
    BY <1>6, <2>1, <2>3, PlansUnderCalls DEF KeepsWord, Calls
  <2>5. CommittedRoadsOpen'
    BY <1>0, <2>1, <2>2, <2>4, VerdictOpensRoads DEF CommittedRoadsOpen, RoadsOpen
  <2>6. Knows("complete", y)'
    BY <2>5 DEF Knows
  <2> QED BY <2>2, <2>6
<1>7. CASE Withdraws(w)
  <2>1. pc[w] = "revoke" /\ x.plan = committed /\ x.rev = revision
    BY <1>0, <1>7 DEF Withdraws, Knows
  <2>2. committed' = NoPlan /\ s = "replan"
    BY <1>0, <1>1, <1>7, <2>1
       DEF Withdraws, RevokeIfRevisionCurrent, Withdraw, WorldStandsAt, Goto
  <2> QED BY <2>2 DEF Knows
<1>8. CASE Propose(w)
  <2>1. /\ pc[w] = "propose" /\ s = "fetch" /\ y = x /\ x.rev = revision
        /\ x.plan[2] = Cardinality(Proposed) + 1
    BY <1>0, <1>1, <1>8 DEF Propose, Goto, Knows
  <2>2. Cardinality(Proposed)' = Cardinality(Proposed) + 1 /\ committed' = NoPlan
    BY <1>8, CountUnderCalls, PlansUnderCalls DEF Calls
  <2>3. y.rev = revision' /\ y.plan[2] = Cardinality(Proposed)'
    BY <1>0, <2>1, <2>2
  <2>4. Knows("fetch", y)'
    BY <2>2, <2>3 DEF Knows
  <2> QED BY <2>1, <2>4
<1>9. CASE Reject(w) \/ (Mark(w) /\ ~BoundToWorld(x.plan)) \/ (Commit(w) /\ ~Committable(x.plan))
  <2>1. Onward(w) /\ pc[w] \in {"reject", "mark", "commit"} /\ committed' = NoPlan
    BY <1>0, <1>9 DEF Reject, Mark, Commit, RejectPlan, MarkVerified, CommitPlan, Knows
  <2> QED BY <1>0, <1>1, <2>1, OnwardKnows
<1>10. CASE Mark(w) /\ BoundToWorld(x.plan)
  <2>1. pc[w] = "mark" /\ s = "commit" /\ y = x /\ committed' = committed
    BY <1>0, <1>1, <1>10 DEF Mark, MarkVerified, Goto
  <2>2. /\ committed = NoPlan /\ x.rev = revision /\ x.plan[2] = Cardinality(Proposed)
        /\ Verdict(x.proposal, x.hazard, failed) /\ Proposed' = Proposed
    BY <1>0, <1>10, <2>1, CountUnderCalls DEF Knows, Calls, Propose
  <2>3. y.rev = revision' /\ y.plan[2] = Cardinality(Proposed') /\ Verdict(y.proposal, y.hazard, failed')
    BY <1>0, <2>1, <2>2
  <2>4. Knows("commit", y)'
    BY <2>1, <2>2, <2>3 DEF Knows
  <2> QED BY <2>1, <2>4
<1>11. CASE Commit(w) /\ Committable(x.plan)
  <2>1. /\ pc[w] = "commit" /\ s = "complete" /\ committed' = x.plan /\ UNCHANGED plans
    BY <1>0, <1>1, <1>11 DEF Commit, CommitPlan, Goto, Leaves
  <2>2. Verdict(plans[x.plan].proposal, x.hazard, failed)
    BY <1>0, <2>1 DEF Knows, VerifiesItsOwn
  <2>3. CommittedRoadsOpen'
    BY <1>0, <2>1, <2>2, VerdictOpensRoads DEF CommittedRoadsOpen, RoadsOpen
  <2>4. Knows("complete", y)'
    BY <2>3 DEF Knows
  <2> QED BY <2>1, <2>4
<1> QED BY <1>4, <1>5, <1>6, <1>7, <1>8, <1>9, <1>10, <1>11 DEF Calls

\* Whoever stays an owner while others move still knows what it knew.
LEMMA OthersKnow ==
  ASSUME SerialInv, [FleetNext]_fleetVars, NEW v \in Workers,
         pc'[v] = pc[v], worker'[v] = worker[v], Owner(v)',
         UNCHANGED <<revision, plans, committed, failed>> \/ ~Owner(v)
  PROVE  Knows(pc[v], worker[v])'
<1>1. Owner(v)
  BY OwnersStay DEF SerialInv, Owner, Fence
<1>2. PICK s, x : s = pc[v] /\ x = worker[v]
  OBVIOUS
<1>3. Knows(s, x)
  BY <1>1, <1>2 DEF SerialInv
<1>4. Knows(s, x)'
  BY <1>1, <1>3, KnowsFrame
<1> QED BY <1>2, <1>4

\* Whoever is an owner after a step knows what it relies on.
LEMMA OwnersKnowStep ==
  ASSUME SerialInv, Serial, [FleetNext]_fleetVars, NEW v \in Workers, Owner(v)'
  PROVE  Knows(pc[v], worker[v])'
<1>0. FleetInv /\ pc'[v] \notin {"idle", "advance"}
  BY DEF SerialInv, Owner
<1>1. PICK s, y : s = pc'[v] /\ y = worker'[v]
  OBVIOUS
<1>2. ASSUME NEW w \in Workers, w # v, OnlyMoves(w),
             UNCHANGED <<revision, plans, committed, failed>> \/ ~Owner(v)
      PROVE  Knows(pc[v], worker[v])'
  BY <1>2, OthersKnow DEF OnlyMoves
<1>3. ASSUME NEW w \in Workers, NEW x \in Forecasts,
             StartRun(w, x) \/ \E e \in Events : Deliver(w, e, x)
      PROVE  Knows(pc[v], worker[v])'
  <2>1. /\ OnlyMoves(w) /\ UNCHANGED <<revision, plans, committed, failed>>
        /\ pc'[w] = "advance" \/ (pc'[w] = "create" /\ StartRun(w, x))
    BY <1>0, <1>3, OpensMove DEF storeVars
  <2>2. CASE w = v
    <3>1. StartRun(v, x) /\ s = "create"
      BY <1>0, <1>1, <2>1, <2>2
    <3>2. committed = NoPlan /\ Proposed = {}
      BY <3>1, RunOrders DEF StartRun, SerialInv, RunComesFirst
    <3>3. Knows(s, y)
      BY <3>1, <3>2 DEF Knows, Reverifying, Seeding, Planned, Verifying
    <3> QED BY <1>1, <2>1, <3>3, KnowsFrame
  <2> QED BY <1>2, <2>1, <2>2
<1>4. ASSUME NEW w \in Workers, Internal(w)
      PROVE  Knows(pc[v], worker[v])'
  <2>1. OnlyMoves(w) /\ UNCHANGED <<revision, plans, committed, failed>>
    BY <1>0, <1>4, InternalStep DEF storeVars
  <2> QED BY <1>2, <1>4, <2>1, InternalOwnersKnow
<1>5. ASSUME NEW w \in Workers, Calls(w)
      PROVE  Knows(pc[v], worker[v])'
  <2>1. OnlyMoves(w) /\ \A u \in Workers \ {w} : ~Owner(u)
    BY <1>0, <1>5, CallMoves, CallersOwn
  <2> QED BY <1>2, <1>5, <2>1, CallOwnersKnow
<1>6. ASSUME NEW w \in Workers, Advance(w)
      PROVE  Knows(pc[v], worker[v])'
  <2>1. /\ OnlyMoves(w) /\ pc'[w] = "emit" /\ UNCHANGED <<plans, committed, failed>>
        /\ AbsorbEvent(worker[w].event) \/ ResumeEvent(worker[w].event)
    BY <1>0, <1>6, Advances
  <2>2. UNCHANGED revision \/ \A u \in Workers \ {w} : ~Owner(u)
    BY <1>6, <2>1, AbsorbsAlone, ResumesInTurn
  <2>3. CASE w = v
    BY <1>1, <2>1, <2>3, NothingToKnow
  <2> QED BY <1>2, <2>1, <2>2, <2>3
<1>7. ASSUME NEW w \in Workers, Finish(w) \/ Abandon(w)
      PROVE  Knows(pc[v], worker[v])'
  <2>1. OnlyMoves(w) /\ pc'[w] = "idle" /\ UNCHANGED <<revision, plans, committed, failed>>
    BY <1>0, <1>7, EndsIt DEF storeVars
  <2> QED BY <1>0, <1>2, <2>1
<1>8. ASSUME NEW w \in Workers, EmitFailures(w)
      PROVE  Knows(pc[v], worker[v])'
  <2>1. /\ OnlyMoves(w) /\ pc'[w] = "committed" /\ UNCHANGED <<revision, ledger, plans, committed>>
    BY <1>0, <1>8, Emits DEF storeVars
  <2>2. CASE w = v
    BY <1>1, <2>1, <2>2, NothingToKnow
  <2>3. CASE w # v /\ failed' # failed
    <3>1. pc'[v] = pc[v] /\ worker'[v] = worker[v]
      BY <2>1, <2>3 DEF OnlyMoves
    <3>2. Owner(v)
      BY <1>0, <3>1, OwnersStay DEF Owner, Fence
    <3>3. worker[v].event # NoEvent /\ pc[v] \notin PastEmit
      BY <1>0, <1>8, <2>3, <3>1, <3>2, OwnerIsLive, EmitsAlone
    <3>4. LocalOK(pc[v], worker[v])
      BY <1>0, InRange
    <3>5. s \in {"emit", "abandon"}
      BY <1>0, <1>1, <3>1, <3>3, <3>4
         DEF LocalOK, PastEmit, Reverifying, Planned, Verifying, Seeding, Steps
    <3> QED BY <1>1, <3>5, NothingToKnow
  <2> QED BY <1>2, <2>1, <2>2, <2>3
<1>9. CASE Outside \/ UNCHANGED fleetVars
  <2>1. UNCHANGED <<revision, plans, committed, failed, pc, worker>>
    BY <1>0, <1>9, OutsideIsQuiet DEF fleetVars, storeVars
  <2> QED BY <2>1, OthersKnow
<1> QED BY <1>3, <1>4, <1>5, <1>6, <1>7, <1>8, <1>9, FleetCases

\* When nothing is pending any more, the commitment is judged by the whole record.
LEMMA SettledRoadsStep ==
  ASSUME SerialInv, [FleetNext]_fleetVars
  PROVE  SettledRoads'
<1>0. FleetInv /\ SettledRoads /\ TypeOK
  BY InRange DEF SerialInv
<1>1. SUFFICES ASSUME \A e \in Events : ledger'[e].stage \notin Pending
               PROVE  CommittedRoadsOpen'
  BY DEF SettledRoads
<1>2. ASSUME UNCHANGED <<plans, committed, failed>>, CommittedRoadsOpen
      PROVE  CommittedRoadsOpen'
  BY <1>2 DEF CommittedRoadsOpen, RoadsOpen
<1>3. ASSUME UNCHANGED ledger PROVE CommittedRoadsOpen
  BY <1>0, <1>1, <1>3 DEF SettledRoads
<1>4. ASSUME NEW w \in Workers, NEW x \in Forecasts,
             StartRun(w, x) \/ \E e \in Events : Deliver(w, e, x)
      PROVE  CommittedRoadsOpen'
  BY <1>2, <1>3, <1>4 DEF StartRun, Deliver, Reads, storeVars
<1>5. ASSUME NEW w \in Workers, Internal(w)
      PROVE  CommittedRoadsOpen'
  BY <1>0, <1>2, <1>3, <1>5, InternalStep DEF storeVars
<1>6. ASSUME NEW w \in Workers, Calls(w)
      PROVE  CommittedRoadsOpen'
  <2> DEFINE x == worker[w]
  <2>1. /\ Owner(w) /\ Knows(pc[w], x) /\ VerifiesItsOwn(pc[w], x) /\ UNCHANGED <<ledger, failed>>
        /\ LocalOK(pc[w], x)
    BY <1>0, <1>6, CallersOwn, CallIsACall, InRange
  <2>2. x.event = NoEvent
    BY <1>0, <1>1, <2>1, OwnerIsLive
  <2>3. committed = NoPlan /\ pc[w] # "idle"
    BY <2>1, <2>2 DEF Knows, LocalOK, Owner
  <2>4. committed' = NoPlan \/ Commit(w)
    BY <1>6, <2>3, PlansUnderCalls
  <2>5. CASE Commit(w)
    <3>1. UNCHANGED plans /\ committed' \in {committed, x.plan} /\ pc[w] = "commit"
      BY <2>5 DEF Commit, CommitPlan, Me
    <3>2. Verdict(plans[x.plan].proposal, x.hazard, failed)
      BY <2>1, <3>1 DEF Knows, VerifiesItsOwn, Verifying
    <3> QED BY <2>1, <2>3, <3>1, <3>2, VerdictOpensRoads DEF CommittedRoadsOpen, RoadsOpen
  <2> QED BY <2>4, <2>5 DEF CommittedRoadsOpen
<1>7. ASSUME NEW w \in Workers, Advance(w)
      PROVE  FALSE
  <2>1. PICK e \in Events : AbsorbEvent(e) \/ ResumeEvent(e)
    BY <1>0, <1>7, Advances
  <2>2. ledger'[e].stage = "in_progress"
    BY <1>0, <2>1 DEF AbsorbEvent, ResumeEvent, TypeOK, LedgerEntry
  <2> QED BY <1>1, <2>2 DEF Pending
<1>8. ASSUME NEW w \in Workers, Finish(w) \/ Abandon(w)
      PROVE  CommittedRoadsOpen'
  <2> DEFINE e == worker[w].event
  <2>1. /\ UNCHANGED <<plans, committed, failed>> /\ e \in Events
        /\ \/ UNCHANGED ledger
           \/ Finish(w) /\ FenceHolds(Fence(w))
           \/ AbandonEvent(e, Fence(w))
    BY <1>0, <1>8, EndsIt DEF storeVars
  <2>2. CASE Finish(w) /\ FenceHolds(Fence(w))
    <3>1. pc[w] = "complete" /\ Owner(w)
      BY <2>2 DEF Finish, Owner
    <3> QED BY <1>2, <2>1, <3>1 DEF SerialInv, Knows
  <2>3. ~AbandonEvent(e, Fence(w))
    <3>1. AbandonEvent(e, Fence(w)) => ledger'[e].stage = "abandoned"
      BY <1>0, <2>1 DEF AbandonEvent, TypeOK, LedgerEntry
    <3> QED BY <1>1, <2>1, <3>1 DEF Pending
  <2> QED BY <1>2, <1>3, <2>1, <2>2, <2>3
<1>9. ASSUME NEW w \in Workers, EmitFailures(w)
      PROVE  CommittedRoadsOpen'
  <2>1. UNCHANGED <<plans, committed, ledger>>
    BY <1>0, <1>9, Emits DEF storeVars
  <2>2. failed' = failed
    BY <1>1, <1>9, <2>1, EmitsAlone
  <2> QED BY <1>2, <1>3, <2>1, <2>2
<1>10. CASE Outside \/ UNCHANGED fleetVars
  <2>1. UNCHANGED <<plans, committed, failed>>
    BY <1>0, <1>10, OutsideIsQuiet DEF fleetVars, storeVars
  <2>2. UNCHANGED ledger
    <3>1. ~\E e \in Events : Silence(e)
      BY <1>0, <1>1 DEF Silence, LeaseLapses, TypeOK, LedgerEntry, Pending
    <3> QED BY <1>10, <3>1 DEF Outside, RivalClaims, Claim, fleetVars, storeVars
  <2> QED BY <1>2, <1>3, <2>1, <2>2
<1> QED BY <1>4, <1>5, <1>6, <1>7, <1>8, <1>9, <1>10, FleetCases

-----------------------------------------------------------------------------
(* One event at a time *)

\* In the beginning there is nothing to be out of order.
LEMMA SerialOpens == FleetInit => SerialInv
<1> SUFFICES ASSUME FleetInit PROVE SerialInv
  OBVIOUS
<1>1. FleetInv
  BY FleetOpens
<1>2. /\ \A w \in Workers : pc[w] = "idle" /\ worker[w] = Idle
      /\ revision = 0 /\ committed = NoPlan /\ failed = {}
      /\ \A e \in Events : ledger[e].stage = "unseen"
      /\ \A p \in PlanIds : ~Known(p)
  BY DEF FleetInit, StoreInit, UnseenEntry, AbsentPlan, Known
<1>3. Idle.event = NoEvent
  BY DEF Idle
<1>4. OneAtATime /\ RoadsRecorded /\ ProposedAreCounted /\ SettledRoads
  BY <1>2, <1>3 DEF OneAtATime, RoadsRecorded, ProposedAreCounted, SettledRoads, CommittedRoadsOpen,
                    Live, Pending, PastEmit, Reverifying, Planned, Verifying
<1>5. RunComesFirst /\ ProposalsAreOwn
  BY <1>2, <1>3 DEF RunComesFirst, Planning, Proposed, ProposalsAreOwn, Verifying
<1>6. ASSUME NEW w \in Workers
      PROVE  /\ VerifiesItsOwn(pc[w], worker[w])
             /\ PlannedOnRecord(pc[w], worker[w], Owner(w))
             /\ ~Owner(w)
  BY <1>2 DEF VerifiesItsOwn, PlannedOnRecord, Owner, Verifying
<1> QED BY <1>1, <1>4, <1>5, <1>6 DEF SerialInv

\* SerialInv is inductive.
LEMMA SerialStep ==
  ASSUME SerialInv, Serial, [FleetNext]_fleetVars
  PROVE  SerialInv'
<1>1. FleetInv'
  BY FleetStep DEF SerialInv
<1>2. /\ OneAtATime' /\ RunComesFirst' /\ RoadsRecorded' /\ ProposedAreCounted'
      /\ ProposalsAreOwn' /\ SettledRoads'
  BY OneAtATimeStep, RunComesFirstStep, RoadsRecordedStep, ProposedAreCountedStep,
     ProposalsAreOwnStep, SettledRoadsStep
<1>3. \A w \in Workers :
        /\ VerifiesItsOwn(pc[w], worker[w])'
        /\ PlannedOnRecord(pc[w], worker[w], Owner(w))'
        /\ Owner(w)' => Knows(pc[w], worker[w])'
  BY VerifiesItsOwnStep, PlannedOnRecordStep, OwnersKnowStep
<1> QED BY <1>1, <1>2, <1>3 DEF SerialInv

\* While events come one at a time: what run() and disrupt() rely on, at every
\* step, under failures, lost workers, lapsed leases and late attempts.
THEOREM FleetRunsInOrder ==
  ASSUME Serial
  PROVE  FleetSpec => []SerialInv
<1>1. FleetInit => SerialInv
  BY SerialOpens
<1>2. SerialInv /\ [FleetNext]_fleetVars => SerialInv'
  BY SerialStep
<1> QED BY <1>1, <1>2, PTL DEF FleetSpec

\* Once every event that came is applied, no truck of the standing assignment
\* is sent over an edge one of them reported failed (relieffleet.py:343-351).
THEOREM FleetKeepsOffFailedRoads ==
  ASSUME Serial
  PROVE  FleetSpec => []SettledRoadsHold
<1>1. SerialInv => SettledRoadsHold
  <2> SUFFICES ASSUME SerialInv, Settled, committed # NoPlan, NEW m \in Missions
               PROVE  RouteOpen(m, Kind[plans[committed].proposal[m][1]], Broken)
    BY DEF SettledRoadsHold
  <2>1. RouteOpen(m, Kind[plans[committed].proposal[m][1]], failed)
    BY DEF SerialInv, SettledRoads, Settled, CommittedRoadsOpen, RoadsOpen
  <2>2. Broken \subseteq failed
    BY DEF SerialInv, RoadsRecorded, Broken
  <2> QED BY <2>1, <2>2 DEF RouteOpen
<1> QED BY <1>1, FleetRunsInOrder, PTL

\* An assignment in which the planner placed every mission passes the verifier
\* unless the world moved meanwhile, if the hospital has the beds: planner and
\* verifier agree on every limit (relieffleet.py:201-246 and 141-196).
THEOREM PlannedPlansPass ==
  ASSUME Serial, BedsSuffice
  PROVE  FleetSpec => []PlannersPlanPasses
<1>1. SerialInv => PlannersPlanPasses
  <2> SUFFICES ASSUME SerialInv, NEW w \in Workers, pc[w] = "weigh", worker[w].plan # <<0, 1>>,
                      AllPlaced(worker[w].proposal), WorldStandsAt(worker[w].basis)
               PROVE  Verdict(worker[w].proposal, worker[w].hazard, failed)
    BY DEF PlannersPlanPasses, Me
  <2>1. worker[w].basis = worker[w].rev
    BY DEF SerialInv, VerifiesItsOwn, Verifying
  <2>2. worker[w].proposal = Assignment(worker[w].hazard, failed)
    BY <2>1 DEF SerialInv, PlannedOnRecord, Verifying, WorldStandsAt
  <2> QED BY <2>2, PlannerAndVerifierAgree
<1> QED BY <1>1, FleetRunsInOrder, PTL

\* An id keeps naming the assignment it was first proposed with, across
\* redeliveries and late attempts (relieffleet.py:82-85).
THEOREM FleetIdsAreUnique ==
  ASSUME Serial
  PROVE  FleetSpec => OneIdOneProposal
<1> DEFINE Keep == \A p \in PlanIds : Known(p) => plans'[p].proposal = plans[p].proposal
<1>1. SerialInv /\ [FleetNext]_fleetVars => [Keep]_fleetVars
  <2> SUFFICES ASSUME SerialInv, [FleetNext]_fleetVars PROVE Keep
    OBVIOUS
  <2>1. ASSUME NEW w \in Workers, Calls(w) PROVE Keep
    BY <2>1, PlansUnderCalls DEF KeepsWord, Known
  <2>2. CASE \A w \in Workers : ~Calls(w)
    BY <2>2, OthersLeaveThePlans DEF SerialInv
  <2> QED BY <2>1, <2>2
<1> QED BY <1>1, FleetRunsInOrder, PTL DEF FleetSpec, OneIdOneProposal

\* What becomes the commitment passes the verifier at that very moment, on the
\* record's roads (verify.py:14-26, relieffleet.py:141-142).
THEOREM FleetCommitsOnTheRecord ==
  ASSUME Serial
  PROVE  FleetSpec => CommitPassesOnTheRecord
<1> DEFINE Passes ==
      committed' \notin {committed, NoPlan} =>
        \E w \in Workers : /\ pc[w] = "commit" /\ pc'[w] # "commit"
                           /\ Me(w).plan = committed'
                           /\ Verdict(plans[committed'].proposal, Me(w).hazard, failed)
<1>1. SerialInv /\ [FleetNext]_fleetVars => [Passes]_fleetVars
  <2> SUFFICES ASSUME SerialInv, [FleetNext]_fleetVars, committed' \notin {committed, NoPlan}
               PROVE  \E w \in Workers :
                        /\ pc[w] = "commit" /\ pc'[w] # "commit" /\ Me(w).plan = committed'
                        /\ Verdict(plans[committed'].proposal, Me(w).hazard, failed)
    OBVIOUS
  <2>1. PICK w \in Workers : Calls(w)
    BY OthersLeaveThePlans DEF SerialInv
  <2>2. Commit(w) /\ Committable(worker[w].plan) /\ committed' = worker[w].plan
    BY <2>1, PlansUnderCalls
  <2>3. pc[w] = "commit" /\ pc'[w] # "commit"
    <3>1. pc[w] = "commit" /\ (Leaves(w) \/ Goto(w, "complete"))
      BY <2>2 DEF Commit, Me
    <3> QED BY <3>1, InRange DEF Leaves, Goto, SerialInv
  <2>4. Verdict(plans[committed'].proposal, worker[w].hazard, failed)
    BY <2>1, <2>2, <2>3, CallersOwn DEF Knows, VerifiesItsOwn, Verifying
  <2> QED BY <2>2, <2>3, <2>4 DEF Me
<1> QED BY <1>1, FleetRunsInOrder, PTL DEF FleetSpec, CommitPassesOnTheRecord
=============================================================================
