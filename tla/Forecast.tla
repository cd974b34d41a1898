------------------------------ MODULE Forecast ------------------------------
(***************************************************************************)
(* What a forecast says about an hour, and what the scenarios make of it:  *)
(* GoogleWeatherProvider.translate (app/providers/weather.py), the         *)
(* verifiers of harborwindow and stormslot, and the check by which the     *)
(* live gate (app/live_gate.py) accepts their decisions afterwards.        *)
(*                                                                         *)
(* A table gives the readings of one site by clock hour; an hour that no   *)
(* reading describes is outside its DOMAIN.  Departures are whole hours,   *)
(* durations minutes.                                                      *)
(***************************************************************************)
EXTENDS Integers, Sequences

ClockHours == 0..23

\* MAX_FORECAST_HOURS: the provider refuses to be asked for more.
HorizonsAllowed == 1..24

-----------------------------------------------------------------------------
(* The provider *)

Absent == -1

\* Hundredths of a unit, rounded after conversion to metric; a value the
\* service leaves out reads as calm.
Metric(q, num, den) ==
  IF q.value = Absent THEN 0
  ELSE IF q.imperial THEN (2 * q.value * num + den) \div (2 * den)
  ELSE q.value

\* 1.609344 kilometres per mile and 25.4 millimetres per inch.
WindOf(e) == Metric(e.wind, 25146, 15625)
RainOf(e) == Metric(e.rain, 127, 5)

\* The hour on the site's own clock, or else the hour in UTC.
HourOf(entries, i) ==
  IF entries[i].display # Absent THEN entries[i].display ELSE entries[i].start % 24

\* One point per clock hour; the first occurrence wins.
FirstOf(entries, h) ==
  CHOOSE i \in DOMAIN entries :
    /\ HourOf(entries, i) = h
    /\ \A j \in DOMAIN entries : HourOf(entries, j) = h => i <= j

Translate(entries) ==
  [h \in {HourOf(entries, i) : i \in DOMAIN entries} |->
     LET e == entries[FirstOf(entries, h)]
     IN  [wind |-> WindOf(e), rain |-> RainOf(e)]]

\* forecast/hours:lookup, asked at an hour counted from some midnight.
Rolling(clock, horizon) == clock..(clock + horizon - 1)
Covered(clock, horizon) == {t % 24 : t \in Rolling(clock, horizon)}

-----------------------------------------------------------------------------
(* The scenarios *)

\* crossing_hours and transit_hours: departure included, arrival rounded up.
Exposed(depart, minutes) == depart..(depart + (minutes + 59) \div 60 - 1)

Over(reading, f) == reading.wind > f.maxWind \/ reading.rain > f.maxRain

\* harborwindow, _unsafe_reason: an hour without a reading is unsafe.
Unsafe(h, sites, f) == \E s \in sites : h \notin DOMAIN s \/ Over(s[h], f)

HarborPasses(depart, f, sites) ==
  /\ f.cargo <= f.capacity
  /\ f.ready <= depart /\ depart <= f.latest
  /\ depart \in f.slots
  /\ 60 * depart + f.minutes <= 60 * f.cutoff
  /\ \A h \in Exposed(depart, f.minutes) : ~Unsafe(h, sites, f)

\* stormslot, severe_hours: an hour without a reading is not among them.
StormHours(port, f) == {h \in DOMAIN port : port[h].rain >= f.threshold}

StormPasses(depart, f, port, route) ==
  LET arrival == 60 * depart + route[depart].minutes
  IN  /\ f.ready <= depart /\ depart <= f.deadline
      /\ depart \in f.handover
      /\ route[depart].feasible
      /\ Exposed(depart, route[depart].minutes) \cap StormHours(port, f) = {}
      /\ arrival <= 60 * f.close
      /\ 60 * f.open <= arrival
      /\ arrival \div 60 # f.shiftChange

-----------------------------------------------------------------------------
(* The live gate: is the outcome consistent with the observations? *)

MarineHours(sites, f) ==
  {h \in UNION {DOMAIN s : s \in sites} : (\A s \in sites : h \in DOMAIN s) /\ Unsafe(h, sites, f)}

Uncovered(exposure, sites) == {h \in exposure : \E s \in sites : h \notin DOMAIN s}

Consistent(exposure, severe, sites) ==
  exposure \cap severe = {} /\ Uncovered(exposure, sites) = {}
=============================================================================
