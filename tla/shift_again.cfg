\* A shift is repeated under its run id after the first one failed: its toolkit
\* counts from one again and proposes over the plan that stands.
SPECIFICATION ShiftSpec
CONSTANTS
  e1 = e1
  ec = ec
  window = window
  load = load
  windowAgent = windowAgent
  cargoAgent = cargoAgent
  Events = {e1, ec}
  NoEvent = NoEvent
  PlanIds <- MCPlanIds
  NoPlan = NoPlan
  Proposals <- MCProposals
  NoProposal = NoProposal
  WorkItems = {window, load}
  Actors = {windowAgent, cargoAgent}
  Unclaimed = Unclaimed
  NotCreated = NotCreated
  MaxRevision = 2
  MaxAttempt = 2
  Workers = {w1}
  Candidates = 2
  Forecasts <- MCForecasts
  NoForecast = NoForecast
  FirstForecasts = {"booked_only"}
  ForecastOf <- MCForecastOf
  FeasibleUnder <- MCFeasibleUnder
  Agenda <- MCAgenda
  Crew <- MCCrew
  Outsiders = {}
  TriggerForecasts = {}
  Mishaps = {}
  Traffic = "any"
  Shifts = {s1, s2}
  Agent = windowAgent
  MaxProposals = 2
  SeedForecast = "booked_only"
  ControlEvent = ec
  ControlForecast = "storm"
INVARIANT
  CommittedStandsVerified
