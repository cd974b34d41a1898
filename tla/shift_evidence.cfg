\* One plain shift, and one event delivered while its actor is at work: the
\* proposal is bound to the event's world and judged on the forecast before it.
SPECIFICATION ShiftSpec
CONSTANTS
  e1 = e1
  ec = ec
  window = window
  load = load
  windowAgent = windowAgent
  cargoAgent = cargoAgent
  Events = {e1, ec}
  NoEvent = NoEvent
  PlanIds <- MCPlanIds
  NoPlan = NoPlan
  Proposals <- MCProposals
  NoProposal = NoProposal
  WorkItems = {window, load}
  Actors = {windowAgent, cargoAgent}
  Unclaimed = Unclaimed
  NotCreated = NotCreated
  MaxRevision = 2
  MaxAttempt = 2
  Workers = {w1}
  Candidates = 2
  Forecasts <- MCForecasts
  NoForecast = NoForecast
  FirstForecasts = {"booked_only"}
  ForecastOf <- MCForecastOf
  FeasibleUnder <- MCFeasibleUnder
  Agenda <- MCAgenda
  Crew <- MCCrew
  Outsiders = {}
  TriggerForecasts = {}
  Mishaps = {}
  Traffic = "any"
  Shifts = {s1}
  Agent = windowAgent
  MaxProposals = 2
  SeedForecast = "booked_only"
  ControlEvent = ec
  ControlForecast = "storm"
INVARIANT
  CommittedHoldsInItsWorld
