----------------------------- MODULE MCDelivery -----------------------------
(***************************************************************************)
(* Instances of Delivery, with the forecasts of MCForecast.                *)
(***************************************************************************)
EXTENDS Delivery, MCForecast, TLC

CONSTANTS e1, e2, item, window, outsider

MCPlanIds == 1..Candidates
MCAgenda == <<item>>
MCCrew == <<window>>

\* No worker is special: they differ in what they carry.
MCSymmetry == Permutations(Workers)

\* The booked departure falls to a storm, the next slot to what follows it.
MCForecastOf == [e \in Events |-> IF e = e1 THEN {"storm"} ELSE {"booked_only"}]
=============================================================================
