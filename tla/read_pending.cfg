\* One instance, two threads, one event that is resumed while its first
\* absorber has not refreshed yet.
SPECIFICATION ReadSpec
CONSTANTS
  n1 = n1
  n2 = n2
  t1 = t1
  t2 = t2
  t3 = t3
  Events = {e1}
  NoEvent = NoEvent
  PlanIds = {}
  NoPlan = NoPlan
  Proposals = {}
  NoProposal = NoProposal
  WorkItems = {}
  Actors = {}
  Unclaimed = Unclaimed
  NotCreated = NotCreated
  MaxRevision = 2
  MaxAttempt = 2
  Instances = {n1}
  Threads = {t1, t2}
  Home <- MCOne
  NoThread = NoThread
INVARIANT ProcessedIsNotPending
