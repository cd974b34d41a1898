----------------------------- MODULE MCForecast -----------------------------
(***************************************************************************)
(* The departures of harborwindow.build_state under four forecasts of the  *)
(* same day, each named for what its verifier lets sail:  proposal 1 is    *)
(* the booked departure at 12, proposal 2 the next slot.                   *)
(***************************************************************************)
EXTENDS Forecast

Facts == [cargo |-> 320, capacity |-> 500, ready |-> 12, latest |-> 17, minutes |-> 90,
          slots |-> {12, 14, 16}, cutoff |-> 18, maxWind |-> 3500, maxRain |-> 2000]

MCForecasts == {"fair", "storm", "booked_only", "hurricane"}

Gale(x) == CASE x = "fair"        -> {}
             [] x = "storm"       -> {12, 13}
             [] x = "booked_only" -> 14..17
             [] x = "hurricane"   -> 12..17

\* What the service answers at 07:00: wind in hundredths of a mile per hour.
Payload(x) ==
  [i \in 1..24 |->
     LET h == (i + 6) % 24
     IN  [display |-> IF i = 1 THEN Absent ELSE h, start |-> h,
          wind |-> [value |-> IF h \in Gale(x) THEN 2500 ELSE 900, imperial |-> TRUE],
          rain |-> [value |-> Absent, imperial |-> FALSE]]]

\* Both ends of the crossing have the same weather, but the island's service
\* repeats its first hour.
Sites(x) == {Translate(Payload(x)), Translate(Append(Payload(x), Payload("fair")[6]))}

SailingsUnder(departures) ==
  [x \in MCForecasts |->
     {q \in DOMAIN departures : HarborPasses(departures[q], Facts, Sites(x))}]

MCFeasibleUnder ==
  [x \in MCForecasts |-> CASE x = "fair"        -> {1, 2}
                           [] x = "storm"       -> {2}
                           [] x = "booked_only" -> {1}
                           [] x = "hurricane"   -> {}]
MCFeasibleForOne == [x \in MCForecasts |-> MCFeasibleUnder[x] \cap {1}]

\* The table is what the verifier makes of the service's answer.
ASSUME VerifierAssumption == MCFeasibleUnder = SailingsUnder(<<12, 14>>)
=============================================================================
