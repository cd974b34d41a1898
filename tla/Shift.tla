-------------------------------- MODULE Shift --------------------------------
(***************************************************************************)
(* A model at work in the operation: run_shift of app/geap/runtime_app.py  *)
(* and the two cases of app/agents/probe.py, which seed a run, let one     *)
(* actor's agent act through its ActorToolkit (app/agents/tools.py) in the *)
(* execution lane (app/agents/execution.py), and put its last proposal     *)
(* before the verifier.  Around it the workers of Membrane deliver events  *)
(* to the same run.                                                        *)
(*                                                                         *)
(* What the model will do is unknown: it calls the tools in any order with *)
(* any arguments.  A tool that refuses (out of scope, nothing read yet)    *)
(* raises, which ends the shift like every other exception.                *)
(*                                                                         *)
(* A plain shift judges the proposal on the forecast it was seeded with.   *)
(* A control shift first lets new marine truth land, and judges on that.   *)
(***************************************************************************)
EXTENDS Membrane

CONSTANTS
  Shifts,            \* invocations that name this run id
  Agent,             \* the actor the model plays
  MaxProposals,      \* bound: proposals per shift
  SeedForecast,      \* weather_fixture
  ControlEvent,      \* the id of the control's marine update
  ControlForecast    \* disrupted_weather_fixture

ASSUME ShiftAssumption ==
  /\ MaxProposals \in Nat \ {0}
  /\ PlanIds = 1..(Candidates + MaxProposals)
  /\ ControlEvent \in Events
  /\ SeedForecast \in Forecasts /\ ControlForecast \in Forecasts
  /\ Agent \in Actors

VARIABLES
  at,       \* at[s]: where shift s stands
  shift     \* shift[s]: its locals, its toolkit's among them

shiftVars == <<at, shift>>
allVars == <<vars, at, shift>>

Kinds == {"plain", "control"}
Verdict == {"none", "no proposal", "accepted", "rejected", "failed"}
Stations == {"off", "create", "claim", "agent", "advance", "fetch", "weigh",
             "reject", "mark", "commit", "complete", "over"}

\* _observed_revision = None.
Unread == MaxRevision + 1

Newcomer(kind) ==
  [kind |-> kind, n |-> 1, view |-> 0, observed |-> Unread, proposed |-> 0,
   forecast |-> SeedForecast, fence |-> Unfenced, basis |-> 0,
   proposal |-> NoProposal, verdict |-> "none"]

\* A retry repeats the call: every shift on the run is of one kind.
ShiftInit ==
  /\ MembraneInit
  /\ at = [s \in Shifts |-> "off"]
  /\ \E kind \in Kinds : shift = [s \in Shifts |-> Newcomer(kind)]

\* The toolkit of every shift counts from one under the same prefix.
AgentPlan(k) == Candidates + k

\* plan_ids[-1]
LastPlan(s) == AgentPlan(shift[s].proposed)

\* store.state is the store in memory; on Firestore it is a copy, reloaded
\* after each mutation of one's own, that may be behind.
Glimpse(s) == shift[s].view..revision

\* After a mutation of its own the shift has seen the world as it stands.
To(s, station) ==
  /\ at' = [at EXCEPT ![s] = station]
  /\ shift' = [shift EXCEPT ![s].view = revision']

Move(s, station) == at' = [at EXCEPT ![s] = station] /\ UNCHANGED shift

Ends(s, verdict) ==
  /\ at' = [at EXCEPT ![s] = "over"]
  /\ shift' = [shift EXCEPT ![s] = [Newcomer(@.kind) EXCEPT !.verdict = verdict]]

OthersOnly == UNCHANGED <<workerVars, launched, history>>

\* No other shift has ever named this run id.
Alone(s) == \A t \in Shifts \ {s} : at[t] = "off"

-----------------------------------------------------------------------------
(* Seeding *)

\* Assumption on the callers: a run id is named again only to repeat a shift
\* that failed, and not while that one is still at work.
Retry(s) == \A t \in Shifts \ {s} : at[t] = "off" \/ shift[t].verdict = "failed"

\* A run id that exists is resumed, one that does not is created; the weather
\* that is measured is that of the world before any event.
Open(s) ==
  /\ at[s] = "off"
  /\ Retry(s)
  /\ UNCHANGED <<storeVars, workerVars>>
  /\ launched' = TRUE
  /\ Learns(0, SeedForecast)
  /\ To(s, "create")

\* The next work item, or on with the seeding.
Seeded(s, again, onward) ==
  IF shift[s].n < Len(Agenda)
    THEN /\ at' = [at EXCEPT ![s] = again]
         /\ shift' = [shift EXCEPT ![s].n = @ + 1, ![s].view = revision]
    ELSE /\ at' = [at EXCEPT ![s] = onward]
         /\ shift' = [shift EXCEPT ![s].n = 1, ![s].view = revision]

OpenWork(s) ==
  /\ at[s] = "create"
  /\ CreateWork(Agenda[shift[s].n], Unfenced)
  /\ Seeded(s, "create", "claim")
  /\ OthersOnly

\* Every item is claimed for its actor but the one the model must claim.
ClaimForOthers(s) ==
  /\ at[s] = "claim"
  /\ LET i == Agenda[shift[s].n]
         a == Crew[shift[s].n]
     IN  \/ /\ a = Agent
            /\ UNCHANGED storeVars
            /\ Seeded(s, "claim", "agent")
         \/ /\ a # Agent
            /\ Claim(i, a, Unfenced)
            /\ IF Claimable(i, a) THEN Seeded(s, "claim", "agent") ELSE Ends(s, "failed")
  /\ OthersOnly

-----------------------------------------------------------------------------
(* ActorToolkit *)

Scope == {Agenda[k] : k \in {m \in 1..Len(Agenda) : Crew[m] = Agent}}

\* Fault: the claim is made in another name than the planner's for this actor.
ClaimInAnotherName(s) ==
  /\ at[s] = "agent"
  /\ \E i \in Scope, a \in Actors \ {Agent} : Claim(i, a, Unfenced)
  /\ To(s, "agent")
  /\ OthersOnly

ClaimWork(s) ==
  /\ at[s] = "agent"
  /\ \E i \in Scope : Claim(i, Agent, Unfenced)
  /\ To(s, "agent")
  /\ OthersOnly

ReadFacts(s) ==
  /\ at[s] = "agent"
  /\ \E r \in Glimpse(s) : shift' = [shift EXCEPT ![s].observed = r]
  /\ UNCHANGED <<at, storeVars>>
  /\ OthersOnly

\* Fault: a proposal is taken from an actor that has read nothing.
ProposeUnread(s) ==
  /\ at[s] = "agent"
  /\ shift[s].proposed < MaxProposals
  /\ \E q \in Proposals :
       AddPlan(AgentPlan(shift[s].proposed + 1), q, shift[s].observed, Unfenced)
  /\ shift' = [shift EXCEPT ![s].proposed = @ + 1, ![s].view = revision]
  /\ UNCHANGED at
  /\ OthersOnly

\* Fault: a proposal is stamped with the revision at propose time.
ProposeAsCurrent(s) ==
  /\ at[s] = "agent"
  /\ shift[s].observed # Unread
  /\ shift[s].proposed < MaxProposals
  /\ \E q \in Proposals : AddPlan(AgentPlan(shift[s].proposed + 1), q, revision, Unfenced)
  /\ shift' = [shift EXCEPT ![s].proposed = @ + 1, ![s].view = revision]
  /\ UNCHANGED at
  /\ OthersOnly

\* Fault: the agent's plans share the planner's prefix.
ProposeUnderPlannersIds(s) ==
  /\ at[s] = "agent"
  /\ shift[s].observed # Unread
  /\ shift[s].proposed < MaxProposals
  /\ \E q \in Proposals : AddPlan(shift[s].proposed + 1, q, shift[s].observed, Unfenced)
  /\ shift' = [shift EXCEPT ![s].proposed = @ + 1, ![s].view = revision]
  /\ UNCHANGED at
  /\ OthersOnly

\* Bound to what the actor read, under the toolkit's next id.
ProposePlan(s) ==
  /\ at[s] = "agent"
  /\ shift[s].observed # Unread
  /\ shift[s].proposed < MaxProposals
  /\ \E q \in Proposals :
       AddPlan(AgentPlan(shift[s].proposed + 1), q, shift[s].observed, Unfenced)
  /\ shift' = [shift EXCEPT ![s].proposed = @ + 1, ![s].view = revision]
  /\ UNCHANGED at
  /\ OthersOnly

\* The model answers without a tool call: run_actor returns.
Concludes(s) ==
  /\ at[s] = "agent"
  /\ IF shift[s].proposed = 0
       THEN Ends(s, "no proposal")
       ELSE Move(s, IF shift[s].kind = "control" THEN "advance" ELSE "fetch")
  /\ UNCHANGED storeVars
  /\ OthersOnly

-----------------------------------------------------------------------------
(* The control: new marine truth, and then the verifier *)

\* An answer of None is not expected: the shift raises.
LandTruth(s) ==
  /\ at[s] = "advance"
  /\ AbsorbEvent(ControlEvent) \/ ResumeEvent(ControlEvent)
  /\ Learns(ledger'[ControlEvent].revision, ControlForecast)
  /\ at' = [at EXCEPT ![s] = "fetch"]
  /\ shift' = [shift EXCEPT
       ![s].view = revision', ![s].forecast = ControlForecast,
       ![s].fence = [event |-> ControlEvent, attempt |-> ledger'[ControlEvent].attempt]]
  /\ UNCHANGED <<workerVars, launched>>

-----------------------------------------------------------------------------
(* verify_and_commit *)

Fetch(s) ==
  /\ at[s] = "fetch"
  /\ at' = [at EXCEPT ![s] = "weigh"]
  /\ shift' = [shift EXCEPT ![s].basis = plans[LastPlan(s)].basis,
                            ![s].proposal = plans[LastPlan(s)].proposal]
  /\ UNCHANGED storeVars
  /\ OthersOnly

\* Fault: the agent's word is taken for a verdict.
Trust(s) ==
  /\ at[s] = "weigh"
  /\ \E r \in Glimpse(s) : Move(s, IF shift[s].basis = r THEN "mark" ELSE "reject")
  /\ UNCHANGED storeVars
  /\ OthersOnly

\* Staleness first, against the world as the shift sees it.
Scrutinise(s) ==
  /\ at[s] = "weigh"
  /\ \E r \in Glimpse(s) :
       Move(s, IF shift[s].basis = r /\ Feasible(shift[s].forecast, shift[s].proposal)
                 THEN "mark" ELSE "reject")
  /\ UNCHANGED storeVars
  /\ OthersOnly

\* A verdict is in: the control completes its event before it reports.
Decided(s, verdict) ==
  IF shift[s].kind = "control"
    THEN /\ at' = [at EXCEPT ![s] = "complete"]
         /\ shift' = [shift EXCEPT ![s].verdict = verdict, ![s].view = revision]
    ELSE Ends(s, verdict)

RejectProposal(s) ==
  /\ at[s] = "reject"
  /\ RejectPlan(LastPlan(s), shift[s].fence)
  /\ Decided(s, "rejected")
  /\ OthersOnly

MarkProposal(s) ==
  /\ at[s] = "mark"
  /\ MarkVerified(LastPlan(s), shift[s].fence)
  /\ IF BoundToWorld(LastPlan(s)) THEN To(s, "commit") ELSE Decided(s, "rejected")
  /\ OthersOnly

CommitProposal(s) ==
  /\ at[s] = "commit"
  /\ CommitPlan(LastPlan(s), shift[s].fence)
  /\ Decided(s, IF Committable(LastPlan(s)) THEN "accepted" ELSE "rejected")
  /\ OthersOnly

\* complete_event has nothing to do for an event another attempt applied.
CompleteControl(s) ==
  /\ at[s] = "complete"
  /\ IF AlreadyApplied(shift[s].fence)
       THEN UNCHANGED <<storeVars, concluded>>
       ELSE /\ CompleteEvent(ControlEvent, shift[s].fence)
            /\ concluded' = shift[s].forecast
  /\ Ends(s, shift[s].verdict)
  /\ UNCHANGED <<workerVars, launched, truth>>

-----------------------------------------------------------------------------
\* Nothing in run_shift catches an exception, and nothing abandons the event:
\* a tool that refuses, a model that cannot be reached, a run without a model
\* turn, a lease of None, a fence that is superseded, the report that closes the
\* shift; or the process is lost.
Raises(s) ==
  /\ at[s] # "off" /\ shift[s].verdict # "failed"
  /\ Ends(s, "failed")
  /\ UNCHANGED storeVars
  /\ OthersOnly

Toolkit(s) == ClaimWork(s) \/ ReadFacts(s) \/ ProposePlan(s)

Decision(s) ==
  \/ LandTruth(s) \/ Fetch(s) \/ Scrutinise(s) \/ RejectProposal(s)
  \/ MarkProposal(s) \/ CommitProposal(s) \/ CompleteControl(s)

ShiftStep(s) ==
  \/ Open(s) \/ OpenWork(s) \/ ClaimForOthers(s) \/ Toolkit(s) \/ Concludes(s)
  \/ Decision(s) \/ Raises(s)

\* The rest of the system.  Nobody else delivers the control's event.
Around ==
  /\ \/ \E w \in Workers : StartRun(w) \/ Works(w) \/ Breakdown(w) \/ Retire(w)
     \/ \E w \in Workers, e \in Events \ {ControlEvent} : Deliver(w, e)
     \/ \E e \in Events : Silence(e)
  /\ UNCHANGED shiftVars

ShiftNext == Around \/ \E s \in Shifts : ShiftStep(s)

ShiftSpec == ShiftInit /\ [][ShiftNext]_allVars

-----------------------------------------------------------------------------
(* Properties *)

\* Every local of a shift and of its toolkit stays in range.
ShiftTypeOK ==
  /\ MembraneTypeOK
  /\ at \in [Shifts -> Stations]
  /\ shift \in [Shifts -> [kind : Kinds, n : 1..Len(Agenda), view : 0..MaxRevision,
                           observed : 0..Unread, proposed : 0..MaxProposals,
                           forecast : Forecasts, fence : Fences, basis : 0..MaxRevision,
                           proposal : Proposals \cup {NoProposal}, verdict : Verdict]]

\* A proposal commits only in the world its author had read before proposing
\* it: an actor that read at R and slept through R+1 cannot commit, whatever
\* its copy of the state said in between (tools.py, _observed_revision).
AgentCommitsInTheWorldItRead ==
  [][\A s \in Shifts :
       Alone(s) /\ at[s] = "commit" /\ at'[s] # "commit" /\ committed' # committed =>
         shift[s].observed = revision]_allVars

\* The control is always refused: truth that landed after the proposal leaves
\* it stale, in every interleaving with other truth (probe.py, case_refuse).
ControlIsRefused ==
  \A s \in Shifts : Alone(s) /\ shift[s].kind = "control" => shift[s].verdict # "accepted"

\* The strongest move of a model is a candidate: nothing it does through its
\* tools changes the commitment or what the committed plan says (tools.py:8).
ProposingLeavesTheCommitment ==
  [][\A s \in Shifts :
       Alone(s) /\ at[s] = "agent" /\ shift'[s] # shift[s] =>
         /\ committed' = committed
         /\ committed # NoPlan => plans'[committed] = plans[committed]]_allVars

\* Whoever commits has seen that very proposal pass under the forecast it
\* carries, be it a worker or a shift (verify.py:14).
EveryCommitCarriesAPass ==
  [][committed' \notin {committed, NoPlan} =>
       \/ \E w \in Workers :
            /\ pc[w] = "commit" /\ pc'[w] = "complete"
            /\ worker[w].n = committed'
            /\ Feasible(Forecast(w), plans[committed'].proposal)
       \/ \E s \in Shifts :
            /\ at[s] = "commit" /\ at'[s] # "commit"
            /\ Alone(s) => Feasible(shift[s].forecast, plans[committed'].proposal)]_allVars

\* A work item is held by the actor who answers for it or by nobody, so no
\* planner and no seeding is ever refused a claim (harborwindow.py:161).
PlanningIsNeverTurnedAway ==
  \A k \in 1..Len(Agenda) : Created(Agenda[k]) => Claimable(Agenda[k], Crew[k])
=============================================================================
