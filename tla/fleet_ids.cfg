\* Two events overlap.
SPECIFICATION FleetSpec
CONSTANTS
  e1 = e1
  e2 = e2
  w1 = w1
  w2 = w2
  rival = rival
  Events = {e1, e2}
  NoEvent = NoEvent
  PlanIds <- MCPlanIds
  NoPlan = NoPlan
  Proposals <- MCAssignments
  NoProposal = NoProposal
  WorkItems <- MCVehicleSet
  Actors <- MCActors
  Unclaimed = Unclaimed
  NotCreated = NotCreated
  MaxRevision = 2
  MaxAttempt = 1
  MaxPlans = 5
  MissionOrder <- MCMissions
  BoardOrder <- MCMissions
  VehicleOrder <- MCVehicles
  BiggestFirst <- MCBiggest
  WindowOrder <- MCWindows
  Kind <- MCKind
  Capacity <- MCCapacity
  Payload <- MCPayload
  Casualties <- MCCasualties
  Beds = 14
  Route <- MCRoute
  ReadyHour = 6
  LatestHour = 16
  CutoffHour = 18
  Transit <- MCTransit
  NoSlot = NoSlot
  Workers = {w1, w2}
  Forecasts <- MCForecasts
  NoForecast = NoForecast
  FailedBy <- MCFailedBy
  TeamOf <- MCTeamOf
  Rivals = {}
  Wanted = {"HELI_1"}
  Serial = FALSE
PROPERTY OneIdOneProposal
SYMMETRY Symmetry
