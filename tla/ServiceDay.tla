----------------------------- MODULE ServiceDay -----------------------------
(***************************************************************************)
(* The standing mission against the clock: run, disrupt and observe of     *)
(* app/scenarios/reliefrun.py as the live portal calls them                *)
(* (app/portal.py, create_relief_run and observe), with no two calls in    *)
(* flight at once; what overlap does to them is Membrane's and Sentinel's  *)
(* subject.  One observation is therefore one action.                      *)
(*                                                                         *)
(* Hours are hours of the local day.  A plan holds nothing but its         *)
(* departure hour: the day it was meant for is the history variable        *)
(* meantFor, which the code does not have.  Nor has a reading a day: the   *)
(* forecast rolls, and an hour of the clock is read where it next occurs,  *)
(* if the horizon reaches that far.                                        *)
(***************************************************************************)
EXTENDS Forecast, FiniteSetsExt

CONSTANTS
  Windows,         \* departure_windows
  Booked,          \* booked_departure_hour
  ReadyHour, LatestHour, CutoffHour, Transit,
  Skies,           \* forecasts, each the set of unsafe hours of the day
  Horizons,        \* values of FORECAST_HOURS, in hours
  Days,            \* bound: the days the clock runs
  Attentive        \* assumption: the scheduler misses no hour

ASSUME DayAssumption ==
  /\ Windows \subseteq 0..23 /\ Booked \in Windows
  /\ Skies \subseteq SUBSET (0..23)
  /\ Horizons \subseteq HorizonsAllowed
  /\ Transit \in Nat
  /\ Days \in Nat \ {0}

None == 24         \* no commitment: no hour of the day

VARIABLES
  clock,       \* hours since the first midnight
  horizon,     \* settings.forecast_hours
  sky,         \* the forecast in force
  launched,    \* create_relief_run has answered
  standing,    \* the departure of the committed plan
  seen,        \* event ids applied in this hour, by their forecast
  meantFor,    \* history: the day the standing departure was planned for
  verdict,     \* the last re-verification on the trace
  looked       \* history: the hour of the last observation that was applied

vars == <<clock, horizon, sky, launched, standing, seen, meantFor, verdict, looked>>

Day == clock \div 24
Hour == clock % 24

DayInit ==
  /\ clock \in 0..23
  /\ horizon \in Horizons
  /\ sky \in Skies
  /\ launched = FALSE
  /\ standing = None
  /\ seen = {}
  /\ meantFor = 0
  /\ verdict = "none"
  /\ looked = 0

-----------------------------------------------------------------------------
(* make_verifier: now is the hour departures must lie after, or None *)

\* Fault: a departure in the present hour has not passed yet.
PassedBefore(depart, now) == now # None /\ depart < now

Passed(depart, now) == now # None /\ depart <= now

Span(depart) == Exposed(depart, 60 * Transit)

\* Fault: an hour without a reading is fair.
SafeAsFarAsKnown(depart) == Span(depart) \cap Covered(clock, horizon) \cap sky = {}

\* Every hour has a reading, and a fair one.
Safe(depart) == Span(depart) \subseteq Covered(clock, horizon) \ sky

Feasible(depart, now) ==
  /\ ~Passed(depart, now)
  /\ ReadyHour <= depart /\ depart <= LatestHour
  /\ depart \in Windows
  /\ depart + Transit <= CutoffHour
  /\ Safe(depart)

-----------------------------------------------------------------------------
(* run: the booked departure, then the others by their distance from it *)

Distance(h) == IF h >= Booked THEN h - Booked ELSE Booked - h

Sooner(h, k) == Distance(h) < Distance(k) \/ (Distance(h) = Distance(k) /\ h < k)

Candidates == {h \in Windows : ReadyHour <= h /\ h <= LatestHour}

Open(now) == {h \in Candidates \cup {Booked} : Feasible(h, now)}

First(open) ==
  IF open = {} THEN {None} ELSE {h \in open : \A k \in open \ {h} : Sooner(h, k)}

\* Fault: the last candidate of the list is left out.
PlanAllButLast(now) == First(Open(now) \ {Max(Candidates)})

\* The first candidate in that order that the verifier passes, and no other.
Plan(now) == First(Open(now))

\* From the hour of the last window on, planning is for tomorrow.
DayOver == Hour >= Max(Windows)
PlanningHour == IF DayOver THEN None ELSE Hour
PlannedDay == IF DayOver THEN Day + 1 ELSE Day

-----------------------------------------------------------------------------
Create ==
  /\ ~launched
  /\ launched' = TRUE
  /\ standing' \in Plan(PlanningHour)
  /\ meantFor' = PlannedDay
  /\ looked' = clock
  /\ UNCHANGED <<clock, horizon, sky, seen, verdict>>

\* Fault: the clock is left out of the standing mission's verdict.
ReaffirmedByWeather == standing # None /\ Feasible(standing, None)

\* reverify_committed, against the real clock even after the last window.
Reaffirmed == standing # None /\ Feasible(standing, Hour)

Reaffirm == verdict' = "COMMIT_REAFFIRMED" /\ UNCHANGED <<standing, meantFor>>

Replan ==
  /\ verdict' = IF standing = None THEN "none" ELSE "COMMIT_REVOKED"
  /\ standing' \in Plan(PlanningHour)
  /\ meantFor' = PlannedDay

\* The event id is the hour and the digest of the forecast: an id that was
\* applied is dismissed, and nothing changes.
Observe ==
  /\ launched
  /\ sky \notin seen
  /\ seen' = seen \cup {sky}
  /\ looked' = clock
  /\ IF Reaffirmed THEN Reaffirm ELSE Replan
  /\ UNCHANGED <<clock, horizon, sky, launched>>

SkyChanges ==
  /\ sky' \in Skies \ {sky}
  /\ UNCHANGED <<clock, horizon, launched, standing, seen, meantFor, verdict, looked>>

\* Ids of another hour are other ids.
HourPasses ==
  /\ clock < 24 * Days - 1
  /\ Attentive /\ launched => looked = clock
  /\ clock' = clock + 1
  /\ seen' = {}
  /\ UNCHANGED <<horizon, sky, launched, standing, meantFor, verdict, looked>>

DayNext == Create \/ Observe \/ SkyChanges \/ HourPasses

DaySpec == DayInit /\ [][DayNext]_vars

-----------------------------------------------------------------------------
(* Properties *)

Departure == 24 * meantFor + standing

\* In the hour of an applied observation no mission stands whose departure is
\* not still ahead, on the day it was meant for, at any hour, across midnight
\* and the roll (reliefrun.py:110-113, portal.py:163-166).
NoPassedMissionStands ==
  launched /\ looked = clock /\ standing # None => Departure > clock

\* The mission of the day stands on readings of its very hours: none of them
\* lies beyond the forecast, and none was read on another day (weather.py:116-120,
\* reliefrun.py:92-94).
TodaysMissionIsRead ==
  launched /\ looked = clock /\ standing # None /\ meantFor = Day =>
    \A h \in Span(standing) : 24 * meantFor + h \in Rolling(clock, horizon)

\* So does the mission that is planned for tomorrow: once the day is over, "the
\* forecast's small hours genuinely describe tomorrow" (reliefrun.py:341).
TomorrowsMissionIsRead ==
  launched /\ looked = clock /\ standing # None /\ meantFor > Day =>
    \A h \in Span(standing) : 24 * meantFor + h \in Rolling(clock, horizon)

\* An observation leaves the village without a mission only when no window that
\* is still to come, today or after the roll tomorrow, has safe hours: neither a
\* stale commitment nor the order of the search hides one (reliefrun.py:244-263).
OnlyABlockedDayIsGivenUp ==
  [][looked' # looked /\ standing' = None =>
       \A h \in Windows : (Hour < h \/ Max(Windows) <= Hour) => ~Safe(h)]_vars

\* A standing mission is withdrawn only because the forecast turned against its
\* hours or because its departure, on the day it was meant for, has passed
\* (README.md:350-353: "most observations confirm the commitment against the real
\* forecast, and a moved forecast revokes it"; reliefrun.py:110-113).
WithdrawnForCause ==
  [][seen' \ seen # {} /\ verdict' = "COMMIT_REVOKED" =>
       ~Safe(standing) \/ Departure <= clock]_vars
=============================================================================
