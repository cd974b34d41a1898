-------------------------- MODULE ServiceDayProofs --------------------------
(***************************************************************************)
(* The standing mission and the clock, for every service day, every set of *)
(* forecasts and every horizon, as long as no hour goes without an applied *)
(* observation.                                                            *)
(*                                                                         *)
(* DayInv is inductive.  Its core says that a standing departure lies      *)
(* after the last applied observation, which is at most an hour ago.       *)
(*                                                                         *)
(* The forecast itself comes first: what the verifiers of harborwindow and *)
(* stormslot owe the live gate, and what a rolling horizon of at most a    *)
(* day means for an hour of the clock.                                     *)
(***************************************************************************)
EXTENDS ServiceDay, TLAPS

-----------------------------------------------------------------------------
(* Forecasts *)

\* Whatever harborwindow commits, the live gate finds consistent with the
\* readings: a sailing passes only over hours both ends have a fair reading for
\* (harborwindow.py:49-59, live_gate.py:246-252).
THEOREM HarborSatisfiesTheGate ==
  ASSUME NEW depart, NEW f, NEW sites, HarborPasses(depart, f, sites)
  PROVE  Consistent(Exposed(depart, f.minutes), MarineHours(sites, f), sites)
<1>1. \A h \in Exposed(depart, f.minutes) : ~Unsafe(h, sites, f)
  BY DEF HarborPasses
<1>2. Exposed(depart, f.minutes) \cap MarineHours(sites, f) = {}
  BY <1>1 DEF MarineHours
<1>3. Uncovered(Exposed(depart, f.minutes), sites) = {}
  BY <1>1 DEF Uncovered, Unsafe
<1> QED BY <1>2, <1>3 DEF Consistent

\* What stormslot commits satisfies the gate exactly when the forecast covers
\* the transit: its verifier reads an hour without a reading as fair
\* (stormslot.py:75, live_gate.py:246-252).
THEOREM StormSatisfiesTheGateIfCovered ==
  ASSUME NEW depart, NEW f, NEW port, NEW route, StormPasses(depart, f, port, route)
  PROVE  Consistent(Exposed(depart, route[depart].minutes), StormHours(port, f), {port})
           <=> Exposed(depart, route[depart].minutes) \subseteq DOMAIN port
<1>1. Exposed(depart, route[depart].minutes) \cap StormHours(port, f) = {}
  BY DEF StormPasses
<1>2. Uncovered(Exposed(depart, route[depart].minutes), {port}) = {}
        <=> Exposed(depart, route[depart].minutes) \subseteq DOMAIN port
  BY DEF Uncovered
<1> QED BY <1>1, <1>2 DEF Consistent

\* A horizon of a full day covers every hour of the clock, whenever it is asked.
THEOREM FullDayIsCovered ==
  ASSUME NEW asked \in Nat
  PROVE  Covered(asked, 24) = ClockHours
<1>1. Covered(asked, 24) \subseteq ClockHours
  BY DEF Covered, Rolling, ClockHours
<1>2. ASSUME NEW h \in ClockHours
      PROVE  h \in Covered(asked, 24)
  <2>1. PICK d \in Nat, m \in 0..23 : asked = 24 * d + m
    <3>1. /\ asked = 24 * (asked \div 24) + (asked % 24)
          /\ asked \div 24 \in Nat /\ asked % 24 \in 0..23
      OBVIOUS
    <3> QED BY <3>1
  <2> DEFINE t == IF h >= m THEN 24 * d + h ELSE 24 * d + 24 + h
  <2>2. h \in 0..23
    BY DEF ClockHours
  <2>3. t \in asked..(asked + 24 - 1)
    BY <2>1, <2>2
  <2>4. t % 24 = h
    BY <2>1, <2>2
  <2> HIDE DEF t
  <2> QED BY <2>3, <2>4 DEF Covered, Rolling
<1> QED BY <1>1, <1>2

\* Two times in one stretch of a day, the later one not earlier on the clock,
\* belong to one day.
LEMMA LaterOnTheSameDay ==
  ASSUME NEW d \in Nat, NEW e \in Nat, NEW m \in 0..23, NEW n \in 0..23,
         24 * d + m <= 24 * e + n, 24 * e + n < 24 * d + m + 24, m <= n
  PROVE  d = e
OBVIOUS

\* Within a day's horizon an hour that is still to come is read from today.
THEOREM HourAheadIsReadToday ==
  ASSUME NEW asked \in Nat, NEW hours \in HorizonsAllowed,
         NEW t \in Rolling(asked, hours), t % 24 >= asked % 24
  PROVE  t = 24 * (asked \div 24) + (t % 24)
<1>1. /\ asked = 24 * (asked \div 24) + (asked % 24)
      /\ asked \div 24 \in Nat /\ asked % 24 \in 0..23
  OBVIOUS
<1>2. t \in Nat /\ asked <= t /\ t < asked + 24
  BY DEF HorizonsAllowed, Rolling
<1>3. t = 24 * (t \div 24) + (t % 24) /\ t \div 24 \in Nat /\ t % 24 \in 0..23
  BY <1>2
<1> DEFINE d == asked \div 24
           m == asked % 24
           e == t \div 24
           n == t % 24
<1>4. /\ d \in Nat /\ e \in Nat /\ m \in 0..23 /\ n \in 0..23 /\ m <= n
      /\ asked = 24 * d + m /\ t = 24 * e + n
  BY <1>1, <1>3
<1> HIDE DEF d, m, e, n
<1>5. 24 * d + m <= 24 * e + n /\ 24 * e + n < 24 * d + m + 24
  BY <1>2, <1>4
<1>6. d = e
  BY <1>4, <1>5, LaterOnTheSameDay
<1>7. t = 24 * d + n
  BY <1>4, <1>6
<1> QED BY <1>7 DEF d, n

\* Two times less than a day apart that share their clock hour are one.
LEMMA SameHourSameDay ==
  ASSUME NEW a \in Nat, NEW b \in Nat, a - b < 24, b - a < 24, a % 24 = b % 24
  PROVE  a = b
<1>1. a = 24 * (a \div 24) + (a % 24) /\ a \div 24 \in Nat /\ a % 24 \in 0..23
  OBVIOUS
<1>2. b = 24 * (b \div 24) + (b % 24) /\ b \div 24 \in Nat
  OBVIOUS
<1> DEFINE d == a \div 24
           e == b \div 24
           m == a % 24
<1>3. d \in Nat /\ e \in Nat /\ m \in 0..23 /\ a = 24 * d + m /\ b = 24 * e + m
  BY <1>1, <1>2
<1> HIDE DEF d, e, m
<1> QED BY <1>3

\* Entries of one translation lie less than a day apart.
LEMMA EntriesWithinADay ==
  ASSUME NEW asked \in Nat, NEW hours \in 1..24, NEW i \in 1..hours, NEW j \in 1..hours
  PROVE  /\ asked + i - 1 \in Nat /\ asked + j - 1 \in Nat
         /\ (asked + i - 1) - (asked + j - 1) < 24
         /\ (asked + j - 1) - (asked + i - 1) < 24
OBVIOUS

\* Translating a rolling forecast drops nothing: within 24 entries no clock hour
\* occurs twice, so the first occurrence is the only one (weather.py:116-120).
THEOREM NoReadingIsDropped ==
  ASSUME NEW entries, NEW asked \in Nat, NEW hours \in HorizonsAllowed,
         DOMAIN entries = 1..hours,
         \A i \in 1..hours : HourOf(entries, i) = (asked + i - 1) % 24,
         NEW i \in 1..hours
  PROVE  FirstOf(entries, HourOf(entries, i)) = i
<1>1. \A j \in 1..hours : HourOf(entries, j) = HourOf(entries, i) => j = i
  <2> SUFFICES ASSUME NEW j \in 1..hours, HourOf(entries, j) = HourOf(entries, i)
               PROVE  j = i
    OBVIOUS
  <2>1. hours \in 1..24
    BY DEF HorizonsAllowed
  <2>2. (asked + j - 1) % 24 = (asked + i - 1) % 24
    OBVIOUS
  <2> DEFINE a == asked + i - 1
             b == asked + j - 1
  <2>3. a \in Nat /\ b \in Nat /\ a - b < 24 /\ b - a < 24
    BY <2>1, EntriesWithinADay
  <2>4. a % 24 = b % 24
    BY <2>2
  <2> HIDE DEF a, b
  <2>5. a = b
    BY <2>3, <2>4, SameHourSameDay, Zenon
  <2> QED BY <2>1, <2>5 DEF a, b
<1> DEFINE Earliest(k) == /\ HourOf(entries, k) = HourOf(entries, i)
                          /\ \A j \in DOMAIN entries :
                               HourOf(entries, j) = HourOf(entries, i) => k <= j
<1>2. Earliest(i)
  BY <1>1
<1>3. \A k \in DOMAIN entries : Earliest(k) => k = i
  BY <1>1
<1>4. (CHOOSE k \in DOMAIN entries : Earliest(k)) = i
  BY <1>2, <1>3
<1> QED BY <1>4 DEF FirstOf

-----------------------------------------------------------------------------
(* The service day *)

Departures == Windows \cup {Booked}

DayTypeOK ==
  /\ clock \in Nat /\ looked \in Nat /\ meantFor \in Nat
  /\ horizon \in Horizons
  /\ standing \in Departures \cup {None}
  /\ launched \in BOOLEAN

NoHourMissed == launched => looked <= clock /\ clock <= looked + 1

AheadOfTheLastLook == launched /\ standing # None => Departure > looked

ReadInThisHour ==
  launched /\ looked = clock /\ standing # None => Span(standing) \subseteq Covered(clock, horizon)

DayInv == DayTypeOK /\ NoHourMissed /\ AheadOfTheLastLook /\ ReadInThisHour

\* A plan is a departure that passes the verifier, or there is none.
LEMMA PlanPasses ==
  ASSUME NEW now, NEW h \in Plan(now)
  PROVE  h = None \/ (h \in Departures /\ Feasible(h, now))
BY DEF Plan, First, Open, Candidates, Departures

\* Planning in the present hour yields a departure that is ahead on its day.
LEMMA PlannedAhead ==
  ASSUME DayTypeOK, NEW h \in Plan(PlanningHour)
  PROVE  /\ h \in Departures \cup {None}
         /\ h # None => /\ 24 * PlannedDay + h > clock
                        /\ Span(h) \subseteq Covered(clock, horizon)
<1>1. h = None \/ (h \in Departures /\ Feasible(h, PlanningHour))
  BY PlanPasses
<1>2. CASE h = None
  BY <1>2
<1>3. CASE h # None
  <2>1. h \in 0..23 /\ h \in Departures
    BY <1>1, <1>3, DayAssumption DEF Departures
  <2>2. Span(h) \subseteq Covered(clock, horizon)
    BY <1>1, <1>3 DEF Feasible, Safe
  <2>3. clock \in Nat /\ clock = 24 * Day + Hour /\ Day \in Nat /\ Hour \in 0..23
    BY DEF DayTypeOK, Day, Hour
  <2>4. CASE DayOver
    BY <2>1, <2>2, <2>3, <2>4 DEF PlannedDay
  <2>5. CASE ~DayOver
    <3>1. PlanningHour = Hour /\ PlannedDay = Day
      BY <2>5 DEF PlanningHour, PlannedDay
    <3>2. ~Passed(h, Hour)
      BY <1>1, <1>3, <3>1 DEF Feasible
    <3>3. h > Hour
      BY <2>1, <2>3, <3>2 DEF Passed, None
    <3> QED BY <2>1, <2>2, <2>3, <3>1, <3>3
  <2> QED BY <2>4, <2>5
<1> QED BY <1>2, <1>3

LEMMA DayInitInv == DayInit => DayInv
<1> SUFFICES ASSUME DayInit PROVE DayInv
  OBVIOUS
<1>1. DayTypeOK
  <2>1. clock \in Nat /\ looked \in Nat /\ meantFor \in Nat
    BY DEF DayInit
  <2>2. horizon \in Horizons /\ launched \in BOOLEAN /\ standing \in Departures \cup {None}
    BY Zenon DEF DayInit
  <2> QED BY <2>1, <2>2 DEF DayTypeOK
<1> QED BY <1>1 DEF DayInit, DayInv, NoHourMissed, AheadOfTheLastLook, ReadInThisHour

\* What stands after planning in this hour satisfies the invariant.
LEMMA PlanningKeepsInv ==
  ASSUME DayTypeOK, standing' \in Plan(PlanningHour), meantFor' = PlannedDay,
         looked' = clock, launched' = TRUE, UNCHANGED <<clock, horizon>>
  PROVE  DayInv'
<1>1. /\ standing' \in Departures \cup {None}
      /\ standing' # None => /\ 24 * PlannedDay + standing' > clock
                             /\ Span(standing') \subseteq Covered(clock, horizon)
  BY PlannedAhead
<1>2. PlannedDay \in Nat /\ clock \in Nat
  BY DEF PlannedDay, DayTypeOK, Day
<1>3. DayTypeOK'
  BY <1>1, <1>2 DEF DayTypeOK
<1>4. NoHourMissed' /\ AheadOfTheLastLook'
  BY <1>1, <1>2 DEF NoHourMissed, AheadOfTheLastLook, Departure
<1>5. ReadInThisHour'
  BY <1>1 DEF ReadInThisHour, Span, Exposed, Covered, Rolling
<1> QED BY <1>3, <1>4, <1>5 DEF DayInv

LEMMA DayStepInv ==
  ASSUME Attentive, DayInv, [DayNext]_vars
  PROVE  DayInv'
<1> USE DEF DayInv
<1>1. CASE Create
  BY <1>1, PlanningKeepsInv DEF Create
<1>2. CASE Observe
  <2>1. CASE Reaffirmed
    <3>1. UNCHANGED <<standing, meantFor, clock, horizon, launched>> /\ looked' = clock
      BY <1>2, <2>1 DEF Observe, Reaffirm
    <3>2. DayTypeOK'
      BY <3>1 DEF DayTypeOK
    <3>3. standing # None /\ ~Passed(standing, Hour) /\ Span(standing) \subseteq Covered(clock, horizon)
      BY <2>1 DEF Reaffirmed, Feasible, Safe
    <3>4. standing \in 0..23 /\ clock \in Nat /\ looked \in Nat /\ meantFor \in Nat
      BY <3>3, DayAssumption DEF DayTypeOK, Departures
    <3>5. clock = 24 * Day + Hour /\ Day \in Nat /\ Hour \in 0..23
      BY <3>4 DEF Day, Hour
    <3>6. standing > Hour
      BY <3>3, <3>4, <3>5 DEF Passed, None
    <3>7. launched
      BY <1>2 DEF Observe
    <3>8. 24 * meantFor + standing > looked /\ clock <= looked + 1
      BY <3>3, <3>7 DEF AheadOfTheLastLook, Departure, NoHourMissed
    <3>9. meantFor >= Day
      BY <3>4, <3>5, <3>8
    <3>10. 24 * meantFor + standing > clock
      BY <3>4, <3>5, <3>6, <3>9
    <3>11. NoHourMissed' /\ AheadOfTheLastLook'
      BY <3>1, <3>4, <3>10 DEF NoHourMissed, AheadOfTheLastLook, Departure
    <3>12. ReadInThisHour'
      BY <3>1, <3>3 DEF ReadInThisHour, Span, Exposed, Covered, Rolling
    <3> QED BY <3>2, <3>11, <3>12
  <2>2. CASE ~Reaffirmed
    <3>1. /\ standing' \in Plan(PlanningHour) /\ meantFor' = PlannedDay /\ looked' = clock
          /\ launched' = TRUE /\ UNCHANGED <<clock, horizon>>
      BY <1>2, <2>2 DEF Observe, Replan, DayTypeOK
    <3> QED BY <3>1, PlanningKeepsInv
  <2> QED BY <2>1, <2>2
<1>3. CASE SkyChanges
  BY <1>3 DEF SkyChanges, DayTypeOK, NoHourMissed, AheadOfTheLastLook, Departure,
              ReadInThisHour, Span, Exposed, Covered, Rolling
<1>4. CASE HourPasses
  <2>1. DayTypeOK'
    BY <1>4 DEF HourPasses, DayTypeOK
  <2>2. NoHourMissed' /\ AheadOfTheLastLook' /\ (launched' => looked' # clock')
    BY <1>4 DEF HourPasses, DayTypeOK, NoHourMissed, AheadOfTheLastLook, Departure
  <2> QED BY <2>1, <2>2 DEF ReadInThisHour
<1>5. CASE UNCHANGED vars
  BY <1>5 DEF vars, DayTypeOK, NoHourMissed, AheadOfTheLastLook, Departure,
              ReadInThisHour, Span, Exposed, Covered, Rolling
<1> QED BY <1>1, <1>2, <1>3, <1>4, <1>5 DEF DayNext

\* The day is typed, no hour is missed, and the standing mission was ahead of the
\* clock, and read in full, at the last observation (reliefrun.py, observe).
THEOREM DayInvariant == ASSUME Attentive PROVE DaySpec => []DayInv
<1>1. DayInv /\ [DayNext]_vars => DayInv'
  BY DayStepInv
<1> QED BY <1>1, DayInitInv, PTL DEF DaySpec

\* In the hour of an applied observation no mission stands whose departure lies
\* behind, whatever the windows, the forecasts and the horizon
\* (reliefrun.py:110-113, portal.py:163-166).
THEOREM NoPassedMissionEverStands ==
  ASSUME Attentive PROVE DaySpec => []NoPassedMissionStands
<1>1. DayInv => NoPassedMissionStands
  BY DEF DayInv, AheadOfTheLastLook, NoPassedMissionStands
<1> QED BY <1>1, DayInvariant, PTL

\* The mission of the day has a reading of each of its very hours, whatever the
\* horizon (weather.py:116-120).
THEOREM TodaysMissionIsAlwaysRead ==
  ASSUME Attentive PROVE DaySpec => []TodaysMissionIsRead
<1>1. DayInv => TodaysMissionIsRead
  <2> SUFFICES ASSUME DayInv, launched, looked = clock, standing # None, meantFor = Day,
                      NEW h \in Span(standing)
               PROVE  24 * meantFor + h \in Rolling(clock, horizon)
    BY DEF TodaysMissionIsRead
  <2>1. standing \in 0..23 /\ clock \in Nat /\ horizon \in HorizonsAllowed
    BY DayAssumption DEF DayInv, DayTypeOK, Departures
  <2>2. 24 * Day + standing > clock
    BY DEF DayInv, AheadOfTheLastLook, Departure
  <2>3. clock = 24 * Day + (clock % 24) /\ Day \in Nat
    BY <2>1 DEF Day
  <2>4. h \in Int /\ h >= standing
    BY <2>1, DayAssumption DEF Span, Exposed
  <2>5. PICK t \in Rolling(clock, horizon) : t % 24 = h
    BY DEF DayInv, ReadInThisHour, Covered
  <2>6. t % 24 >= clock % 24
    BY <2>1, <2>2, <2>3, <2>4, <2>5
  <2>7. t = 24 * (clock \div 24) + (t % 24)
    BY <2>1, <2>6, HourAheadIsReadToday
  <2> QED BY <2>5, <2>7 DEF Day
<1> QED BY <1>1, DayInvariant, PTL

LEMMA DayTyped == DaySpec => []DayTypeOK
<1>1. DayInit => DayTypeOK
  BY DayInitInv DEF DayInv
<1>2. ASSUME DayTypeOK, [DayNext]_vars PROVE DayTypeOK'
  <2>1. ASSUME standing' \in Plan(PlanningHour), meantFor' = PlannedDay
        PROVE  standing' \in Departures \cup {None} /\ meantFor' \in Nat
    BY <1>2, <2>1, PlanPasses DEF DayTypeOK, PlannedDay, Day
  <2>2. CASE Create
    BY <1>2, <2>1, <2>2 DEF Create, DayTypeOK
  <2>3. CASE Observe
    BY <1>2, <2>1, <2>3 DEF Observe, Reaffirm, Replan, DayTypeOK
  <2>4. CASE SkyChanges
    BY <1>2, <2>4 DEF SkyChanges, DayTypeOK
  <2>5. CASE HourPasses
    BY <1>2, <2>5 DEF HourPasses, DayTypeOK
  <2>6. CASE UNCHANGED vars
    BY <1>2, <2>6 DEF vars, DayTypeOK
  <2> QED BY <1>2, <2>2, <2>3, <2>4, <2>5, <2>6 DEF DayNext
<1> QED BY <1>1, <1>2, PTL DEF DaySpec

\* If every window respects the limits of the mission, an observation leaves the
\* village without one only when no window still to come has safe hours: the
\* search skips none, with or without missed hours (reliefrun.py:244-263).
THEOREM OnlyABlockedDayIsEverGivenUp ==
  ASSUME \A h \in Windows : ReadyHour <= h /\ h <= LatestHour /\ h + Transit <= CutoffHour
  PROVE  DaySpec => OnlyABlockedDayIsGivenUp
<1> DEFINE Blocked == \A h \in Windows : (Hour < h \/ Max(Windows) <= Hour) => ~Safe(h)
<1>1. ASSUME DayTypeOK, None \in Plan(PlanningHour)
      PROVE  Blocked
  <2>1. Open(PlanningHour) = {}
    BY <1>1, DayAssumption DEF Plan, First, Open, Candidates, None
  <2> SUFFICES ASSUME NEW h \in Windows, Hour < h \/ Max(Windows) <= Hour
               PROVE  ~Safe(h)
    OBVIOUS
  <2>2. h \in 0..23 /\ Hour \in 0..23
    BY <1>1, DayAssumption DEF DayTypeOK, Hour
  <2>3. ~Passed(h, PlanningHour)
    BY <2>2 DEF Passed, PlanningHour, DayOver
  <2>4. h \in Candidates /\ ~Feasible(h, PlanningHour)
    BY <2>1 DEF Open, Candidates
  <2> QED BY <2>3, <2>4 DEF Feasible
<1>2. ASSUME DayTypeOK, [DayNext]_vars, looked' # looked, standing' = None
      PROVE  Blocked
  <2>1. CASE Create
    BY <1>1, <1>2, <2>1 DEF Create
  <2>2. CASE Observe
    BY <1>1, <1>2, <2>2 DEF Observe, Reaffirm, Replan, Reaffirmed
  <2> QED BY <1>2, <2>1, <2>2 DEF DayNext, SkyChanges, HourPasses, vars
<1> QED BY <1>2, DayTyped, PTL DEF DaySpec, OnlyABlockedDayIsGivenUp
=============================================================================
