\* Two events and the planner overlap freely, one attempt each.
SPECIFICATION MembraneSpec
CONSTANTS
  e1 = e1
  e2 = e2
  item = item
  window = window
  outsider = outsider
  Events = {e1, e2}
  NoEvent = NoEvent
  PlanIds <- MCPlanIds
  NoPlan = NoPlan
  Proposals <- MCPlanIds
  NoProposal = NoProposal
  WorkItems = {item}
  Actors = {window, outsider}
  Unclaimed = Unclaimed
  NotCreated = NotCreated
  MaxRevision = 2
  MaxAttempt = 1
  Workers = {w1, w2}
  Candidates = 2
  Forecasts <- MCForecasts
  NoForecast = NoForecast
  FirstForecasts = {"fair"}
  ForecastOf <- MCForecastOf
  FeasibleUnder <- MCFeasibleUnder
  Agenda <- MCAgenda
  Crew <- MCCrew
  Outsiders = {}
  TriggerForecasts = {}
  Mishaps = {}
  Traffic = "after_planning"
INVARIANT CommittedHoldsInItsWorld
