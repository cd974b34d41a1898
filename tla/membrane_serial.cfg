\* One event at a time: any number of deliveries, attempts, failures and deaths.
SPECIFICATION MembraneSpec
CONSTANTS
  e1 = e1
  e2 = e2
  item = item
  window = window
  outsider = outsider
  Events = {e1, e2}
  NoEvent = NoEvent
  PlanIds <- MCPlanIds
  NoPlan = NoPlan
  Proposals <- MCPlanIds
  NoProposal = NoProposal
  WorkItems = {item}
  Actors = {window, outsider}
  Unclaimed = Unclaimed
  NotCreated = NotCreated
  MaxRevision = 2
  MaxAttempt = 2
  Workers = {w1, w2}
  Candidates = 2
  Forecasts <- MCForecasts
  NoForecast = NoForecast
  FirstForecasts = {"fair"}
  ForecastOf <- MCUnsettled
  FeasibleUnder <- MCFeasibleUnder
  Agenda <- MCAgenda
  Crew <- MCCrew
  Outsiders = {}
  TriggerForecasts = {"storm"}
  Mishaps = {"fails", "dies"}
  Traffic = "one_at_a_time"
SYMMETRY MCSymmetry
INVARIANTS
  MembraneTypeOK
  CommittedStandsVerified
  CommittedHoldsInItsWorld
  SettledIsHonest
PROPERTIES
  MembraneUsesTheStore
  WithdrawnBeforeReplaced
  LivingAttemptIsNotEvicted
  StoreAbsorbsOnce
  HandoverNeedsSilence
