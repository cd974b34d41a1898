\* Two requests at once for one message, a breakdown anywhere, a trigger and a
\* foreign claim.
SPECIFICATION DeliverySpec
CONSTANTS
  e1 = e1
  e2 = e2
  item = item
  window = window
  outsider = outsider
  Events = {e1}
  NoEvent = NoEvent
  PlanIds <- MCPlanIds
  NoPlan = NoPlan
  Proposals <- MCPlanIds
  NoProposal = NoProposal
  WorkItems = {item}
  Actors = {window, outsider}
  Unclaimed = Unclaimed
  NotCreated = NotCreated
  MaxRevision = 2
  MaxAttempt = 2
  Workers = {w1, w2}
  Candidates = 2
  Forecasts <- MCForecasts
  NoForecast = NoForecast
  FirstForecasts = {"storm"}
  ForecastOf <- MCForecastOf
  FeasibleUnder <- MCFeasibleUnder
  Agenda <- MCAgenda
  Crew <- MCCrew
  Outsiders = {outsider}
  TriggerForecasts = {"storm"}
  Mishaps = {"fails", "breaks", "dies"}
  MaxMishaps = 1
  Traffic = "after_planning"
INVARIANT DeliveryTypeOK
PROPERTIES
  NoAckForAFailure
  DeliveredToTheEnd
