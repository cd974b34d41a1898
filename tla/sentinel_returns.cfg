\* The sentinel when an earlier forecast comes back; nothing fails.
SPECIFICATION WatchSpec
CONSTANTS
  Events = {fair, gusts, storm}
  NoEvent = NoEvent
  PlanIds = {}
  NoPlan = NoPlan
  Proposals = {}
  NoProposal = NoProposal
  WorkItems = {}
  Actors = {}
  Unclaimed = Unclaimed
  NotCreated = NotCreated
  MaxRevision = 3
  MaxAttempt = 4
  Watchers = {"sentinel"}
  MaxMishaps = 0
INVARIANT RestIsEarned
