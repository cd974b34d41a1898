\* Two events with two attempts each, unidentified triggers, a plan, a contended
\* work item, under every call with every live, superseded or absent fence.
SPECIFICATION StoreSpec
CONSTANTS
  Events = {e1, e2}
  NoEvent = NoEvent
  PlanIds = {p}
  NoPlan = NoPlan
  Proposals = {q}
  NoProposal = NoProposal
  WorkItems = {i}
  Actors = {a, b}
  Unclaimed = Unclaimed
  NotCreated = NotCreated
  MaxRevision = 3
  MaxAttempt = 2
INVARIANTS
  TypeOK
  EventsOwnTheirRevisions
PROPERTIES
  StoreAbsorbsOnce
  HandoverNeedsSilence
  NoStaleCommit
