\* Two threads share an instance, a third runs on another one.
SPECIFICATION ReadSpec
CONSTANTS
  n1 = n1
  n2 = n2
  t1 = t1
  t2 = t2
  t3 = t3
  Events = {e1, e2}
  NoEvent = NoEvent
  PlanIds = {}
  NoPlan = NoPlan
  Proposals = {}
  NoProposal = NoProposal
  WorkItems = {}
  Actors = {}
  Unclaimed = Unclaimed
  NotCreated = NotCreated
  MaxRevision = 2
  MaxAttempt = 2
  Instances = {n1, n2}
  Threads = {t1, t2, t3}
  Home <- MCPair
  NoThread = NoThread
INVARIANTS
  ReadModelOnlyLags
PROPERTY ReadModelMovesForward
