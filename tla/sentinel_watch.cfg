\* The sentinel and the portal, killed and restarted at any moment, under forecasts
\* that change and return.
SPECIFICATION WatchSpec
CONSTANTS
  Events = {fair, gusts, storm}
  NoEvent = NoEvent
  PlanIds = {}
  NoPlan = NoPlan
  Proposals = {}
  NoProposal = NoProposal
  WorkItems = {}
  Actors = {}
  Unclaimed = Unclaimed
  NotCreated = NotCreated
  MaxRevision = 3
  MaxAttempt = 4
  Watchers = {"sentinel", "portal"}
  MaxMishaps = 3
INVARIANTS RestIsExplained
PROPERTY SkyIsJudgedInTheEnd
