\* One event at a time, attempts that fail, die, fall silent and come back late, and
\* a rival who may take the helicopter first.
SPECIFICATION FleetSpec
CONSTANTS
  e1 = e1
  e2 = e2
  w1 = w1
  w2 = w2
  rival = rival
  Events = {e1, e2}
  NoEvent = NoEvent
  PlanIds <- MCPlanIds
  NoPlan = NoPlan
  Proposals <- MCAssignments
  NoProposal = NoProposal
  WorkItems <- MCVehicleSet
  Actors <- MCActors
  Unclaimed = Unclaimed
  NotCreated = NotCreated
  MaxRevision = 2
  MaxAttempt = 2
  MaxPlans = 6
  MissionOrder <- MCMissions
  BoardOrder <- MCMissions
  VehicleOrder <- MCVehicles
  BiggestFirst <- MCBiggest
  WindowOrder <- MCWindows
  Kind <- MCKind
  Capacity <- MCCapacity
  Payload <- MCPayload
  Casualties <- MCCasualties
  Beds = 14
  Route <- MCRoute
  ReadyHour = 6
  LatestHour = 16
  CutoffHour = 18
  Transit <- MCTransit
  NoSlot = NoSlot
  Workers = {w1, w2}
  Forecasts <- MCForecasts
  NoForecast = NoForecast
  FailedBy <- MCFailedBy
  TeamOf <- MCTeamOf
  Rivals = {rival}
  Wanted = {"HELI_1"}
  Serial = TRUE
INVARIANTS
  SettledRoadsHold
  PlannersPlanPasses
PROPERTIES
  OneIdOneProposal
  CommitPassesOnTheRecord
SYMMETRY Symmetry
