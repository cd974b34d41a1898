\* The sentinel killed and restarted within the lease of its own attempt.
SPECIFICATION WatchSpec
CONSTANTS
  Events = {fair, gusts, storm}
  NoEvent = NoEvent
  PlanIds = {}
  NoPlan = NoPlan
  Proposals = {}
  NoProposal = NoProposal
  WorkItems = {}
  Actors = {}
  Unclaimed = Unclaimed
  NotCreated = NotCreated
  MaxRevision = 3
  MaxAttempt = 4
  Watchers = {"sentinel"}
  MaxMishaps = 1
INVARIANT NewForecastIsJudged
