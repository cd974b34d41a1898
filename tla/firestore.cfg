\* Two clients: on the ledger and fenced writes of an event, on a plan and the
\* commitment while the world moves, or contending for a work item.
SPECIFICATION FirestoreSpec
CONSTANTS
  Events = {e}
  NoEvent = NoEvent
  PlanIds = {p}
  NoPlan = NoPlan
  Proposals = {q}
  NoProposal = NoProposal
  WorkItems = {i}
  Unclaimed = Unclaimed
  NotCreated = NotCreated
  MaxRevision = 2
  MaxAttempt = 2
  Clients = {a, b}
  Repertoires = {
    {"trigger", "advance", "complete", "abandon", "create"},
    {"trigger", "add", "mark", "reject", "commit", "revoke", "revoke_stale", "revoke_current", "rebind"},
    {"create", "claim", "release"}}
  MaxTries = 2
  ClaimRetries = 1
INVARIANTS
  FirestoreTypeOK
  ClaimAnswersAreTrue
PROPERTIES
  FirestoreMirrorsTheStore
  NoLateEffect
