\* Two requests for the same message are served at once.
SPECIFICATION DeliverySafety
CONSTANTS
  e1 = e1
  e2 = e2
  item = item
  window = window
  outsider = outsider
  Events = {e1}
  NoEvent = NoEvent
  PlanIds <- MCPlanIds
  NoPlan = NoPlan
  Proposals <- MCPlanIds
  NoProposal = NoProposal
  WorkItems = {item}
  Actors = {window}
  Unclaimed = Unclaimed
  NotCreated = NotCreated
  MaxRevision = 2
  MaxAttempt = 3
  Workers = {w1, w2}
  Candidates = 2
  Forecasts <- MCForecasts
  NoForecast = NoForecast
  FirstForecasts = {"fair"}
  ForecastOf <- MCForecastOf
  FeasibleUnder <- MCFeasibleUnder
  Agenda <- MCAgenda
  Crew <- MCCrew
  TriggerForecasts = {}
  Mishaps = {}
  Traffic = "after_planning"
  Outsiders = {}
  MaxMishaps = 0
INVARIANT AckOnlyWhenApplied
