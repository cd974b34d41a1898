--------------------------- MODULE MCReliefFleet ---------------------------
(***************************************************************************)
(* The fleet of build_state with the forecasts of app/fleet_demo.py.       *)
(* Hours outside 6..17 are unread, hence unsafe, and never asked for.      *)
(***************************************************************************)
EXTENDS ReliefFleet

CONSTANTS e1, e2, w1, w2, rival

Symmetry == Permutations({w1, w2})

MCMissions == <<"M1", "M2", "M3">>
MCVehicles == <<"HELI_1", "TRUCK_1", "TRUCK_2">>
MCBiggest == <<"TRUCK_1", "TRUCK_2", "HELI_1">>
MCVehicleSet == Range(MCVehicles)
MCWindows == <<6, 9, 12, 15>>
MCKind == [v \in MCVehicleSet |-> IF v = "HELI_1" THEN "heli" ELSE "truck"]
MCCapacity == [v \in MCVehicleSet |->
                 CASE v = "TRUCK_1" -> 600 [] v = "TRUCK_2" -> 400 [] v = "HELI_1" -> 200]
MCPayload == [m \in Range(MCMissions) |-> CASE m = "M1" -> 400 [] m = "M2" -> 180 [] m = "M3" -> 150]
MCCasualties == [m \in Range(MCMissions) |-> CASE m = "M1" -> 8 [] m = "M2" -> 3 [] m = "M3" -> 2]
MCRoute == [m \in Range(MCMissions) |->
              CASE m = "M1" -> {"RD2", "RD3"} [] m = "M2" -> {"BR1"} [] m = "M3" -> {"RD4"}]
MCTransit == [k \in {"truck", "heli"} |-> IF k = "truck" THEN 2 ELSE 1]
MCTeamOf == [v \in MCVehicleSet |-> CASE v = "TRUCK_1" -> "ground-team-1"
                                       [] v = "TRUCK_2" -> "ground-team-2"
                                       [] v = "HELI_1" -> "air-team"]
MCActors == {"ground-team-1", "ground-team-2", "air-team", rival}
MCAssignments == Assignments
MCPlanIds == (0..MaxRevision) \X (1..MaxPlans)

Hazard(truckHours, heliHours) ==
  [k \in {"truck", "heli"} |-> IF k = "truck" THEN truckHours ELSE heliHours]
Calm == Hazard({}, {})
Surge == Hazard({6, 7, 16}, {6, 16})
SecondSurge == Hazard((6..11) \cup {16}, {6, 16})
Flood == Hazard(6..17, {6, 16})

MCForecasts == {Surge, SecondSurge}
MCAllForecasts == {Calm, SecondSurge, Flood}

\* The bridge goes first, then the road to VILLAGE_Z.
MCFailedBy == [e \in Events |-> IF e = e1 THEN {"BR1"} ELSE {"RD4"}]
=============================================================================
