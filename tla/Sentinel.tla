------------------------------ MODULE Sentinel ------------------------------
(***************************************************************************)
(* The watch over one run: app/sentinel.py, and the /observe endpoint of   *)
(* app/portal.py, which an outside clock calls.                            *)
(*                                                                         *)
(* A watcher fetches the forecast and hands a new one to the scenario's    *)
(* disruption path under an event id that is a digest of the forecast, so  *)
(* an event here is a forecast.  The sentinel skips a forecast equal to    *)
(* the last one it handed over; the portal keeps no memory and leaves that *)
(* to the store.  An exception ends the sentinel's process (the portal's   *)
(* request); a process that attaches to the run again remembers nothing.   *)
(*                                                                         *)
(* The disruption path (Membrane) is three steps here: the event is        *)
(* absorbed, the commitment is judged and if need be replaced on its       *)
(* forecast, the event is completed.                                       *)
(***************************************************************************)
EXTENDS StateStore

CONSTANTS
  Watchers,         \* the processes a behaviour may be about
  MaxMishaps        \* bound: exceptions and deaths

ASSUME WatchAssumption ==
  /\ Watchers \subseteq {"sentinel", "portal"}
  /\ MaxMishaps \in Nat

VARIABLES
  sky,        \* the forecast in force
  past,       \* history: the forecasts that were in force
  returned,   \* history: the one in force had been in force before another
  hasty,      \* history: a sentinel was restarted within its last lease
  judged,     \* the forecast the commitment was last judged or made on
  watcher,    \* the watching process
  mishaps

worldVars == <<sky, past, returned, hasty>>
watchVars == <<storeVars, worldVars, judged, watcher, mishaps>>

WatchPhases == {"down", "watching", "applying", "closing"}
Watcher == [kind : Watchers, phase : WatchPhases, last : Events \cup {NoEvent}, fence : Fences]

WatchInit ==
  /\ StoreInit
  /\ sky \in Events
  /\ past = {sky}
  /\ returned = FALSE
  /\ hasty = FALSE
  /\ judged = sky
  /\ watcher \in [kind : Watchers, phase : {"watching"}, last : {sky, NoEvent}, fence : {Unfenced}]
  /\ watcher.last = NoEvent <=> watcher.kind = "portal"
  /\ mishaps = 0

SkyChanges ==
  /\ sky' \in Events \ {sky}
  /\ past' = past \cup {sky'}
  /\ returned' = (sky' \in past)
  /\ UNCHANGED <<storeVars, hasty, judged, watcher, mishaps>>

-----------------------------------------------------------------------------
Watches(last) ==
  watcher' = [watcher EXCEPT !.phase = "watching", !.fence = Unfenced,
                             !.last = IF watcher.kind = "sentinel" THEN last ELSE NoEvent]

\* A forecast unlike the last one goes to disrupt or observe.
Applies ==
  /\ watcher.phase = "watching"
  /\ sky # watcher.last
  /\ AbsorbEvent(sky) \/ ResumeEvent(sky)
  /\ watcher' = [watcher EXCEPT !.phase = "applying",
                                !.fence = [event |-> sky, attempt |-> ledger'[sky].attempt]]
  /\ UNCHANGED <<worldVars, judged, mishaps>>

\* The forecast is the one of the last tick.
Rests ==
  /\ watcher.phase = "watching"
  /\ sky = watcher.last
  /\ UNCHANGED watchVars

\* advance_revision answers None, disrupt returns and the tick is over.
Ignores ==
  /\ watcher.phase = "watching"
  /\ sky # watcher.last
  /\ Dismissed(sky)
  /\ Watches(sky)
  /\ UNCHANGED <<storeVars, worldVars, judged, mishaps>>

Judges ==
  /\ watcher.phase = "applying"
  /\ judged' = watcher.fence.event
  /\ watcher' = [watcher EXCEPT !.phase = "closing"]
  /\ UNCHANGED <<storeVars, worldVars, mishaps>>

Closes ==
  /\ watcher.phase = "closing"
  /\ CompleteEvent(watcher.fence.event, watcher.fence)
  /\ Watches(watcher.fence.event)
  /\ UNCHANGED <<worldVars, judged, mishaps>>

Down == [watcher EXCEPT !.phase = "down", !.last = NoEvent, !.fence = Unfenced]

\* Fault: a failed application is declared applied.
RaisesCompleting ==
  /\ mishaps < MaxMishaps
  /\ watcher.phase = "applying"
  /\ CompleteEvent(watcher.fence.event, watcher.fence)
  /\ watcher' = Down
  /\ mishaps' = mishaps + 1
  /\ UNCHANGED <<worldVars, judged>>

\* The judgement raises, disrupt abandons the event and the tick raises.
Raises ==
  /\ mishaps < MaxMishaps
  /\ watcher.phase = "applying"
  /\ AbandonEvent(watcher.fence.event, watcher.fence)
  /\ watcher' = Down
  /\ mishaps' = mishaps + 1
  /\ UNCHANGED <<worldVars, judged>>

\* Killed, or complete_event itself fails: nothing is abandoned.
Dies ==
  /\ mishaps < MaxMishaps
  /\ watcher.phase # "down"
  /\ watcher' = Down
  /\ mishaps' = mishaps + 1
  /\ UNCHANGED <<storeVars, worldVars, judged>>

\* Fault: a restarted sentinel takes the forecast in force for its baseline.
AttachesAssured ==
  /\ watcher.phase = "down"
  /\ Watches(sky)
  /\ UNCHANGED <<storeVars, worldVars, judged, mishaps>>

\* Attached to the run again, with no baseline (main, --run-id), whether or not
\* the store still waits for the attempt that died.  A portal instance is there
\* whenever it is called.
Attaches ==
  /\ watcher.phase = "down"
  /\ Watches(NoEvent)
  /\ hasty' = \/ hasty
              \/ watcher.kind = "sentinel" /\ \E e \in Events : ledger[e].stage = "in_progress"
  /\ UNCHANGED <<storeVars, sky, past, returned, judged, mishaps>>

LeaseEnds(e) == LeaseLapses(e) /\ UNCHANGED <<worldVars, judged, watcher, mishaps>>

Tick == Applies \/ Rests \/ Ignores \/ Judges \/ Closes

WatchNext ==
  \/ SkyChanges
  \/ Tick \/ Raises \/ Dies \/ Attaches
  \/ \E e \in Events : LeaseEnds(e)

WatchSpec ==
  /\ WatchInit
  /\ [][WatchNext]_watchVars
  /\ WF_watchVars(Tick)
  /\ WF_watchVars(Attaches)
  /\ \A e \in Events : WF_watchVars(LeaseEnds(e))

-----------------------------------------------------------------------------
(* Properties *)

\* The store, the watcher and the sky keep their shape, and a watcher that
\* applies an event does so as the event's current attempt.
WatchTypeOK ==
  /\ TypeOK
  /\ sky \in past
  /\ past \subseteq Events
  /\ returned \in BOOLEAN /\ hasty \in BOOLEAN
  /\ judged \in Events
  /\ watcher \in Watcher
  /\ watcher.phase \in {"applying", "closing"} =>
       watcher.fence.event \in Events /\ CurrentAttempt(watcher.fence)
  /\ mishaps \in 0..MaxMishaps

AtRest == watcher.phase = "watching" /\ watcher.last = sky

\* A sentinel that rests, because the forecast is the one it saw last, rests
\* on a commitment that was judged on this forecast: "keep the committed plan
\* honest" (tick).
RestIsEarned == AtRest => judged = sky

\* Where the commitment was judged on another forecast, a sentinel rests for one
\* of two reasons only: this one was applied before another took its place, and
\* has come back with its event id spent; or the attempt that was to apply it
\* died, nothing has been heard of it, and the sentinel was restarted too soon
\* to take it over (tick and main, "seen -> already applied").
RestIsExplained ==
  AtRest /\ judged # sky =>
    \/ ledger[sky].stage = "applied" /\ returned
    \/ ledger[sky].stage \in {"in_progress", "lapsed"} /\ hasty

\* The same for a forecast that is in force for the first time.
NewForecastIsJudged == AtRest /\ ~returned => judged = sky

\* Once a forecast stays that had not been in force before, the commitment comes
\* to be judged on it for good, whatever raised or died on the way and whatever
\* came back before it, unless a sentinel was restarted too soon (tick, observe,
\* main).
SkyIsJudgedInTheEnd == <>[]~returned /\ []~hasty => <>[](judged = sky)
=============================================================================
