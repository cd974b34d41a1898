----------------------------- MODULE MCMembrane -----------------------------
(***************************************************************************)
(* Instances of Membrane: the departures and forecasts of MCForecast, and  *)
(* one work item, which "window" claims in run().                          *)
(***************************************************************************)
EXTENDS Membrane, MCForecast, TLC

CONSTANTS e1, e2, item, window, outsider

MCPlanIds == 1..Candidates
MCAgenda == <<item>>
MCCrew == <<window>>

\* No worker is special: they differ in what they carry.
MCSymmetry == Permutations(Workers)

\* The booked departure falls to a storm, the next slot to what follows it.
MCForecastOf == [e \in Events |-> IF e = e1 THEN {"storm"} ELSE {"booked_only"}]

\* The service may answer each fetch for the later event in another way.
MCUnsettled == [MCForecastOf EXCEPT ![e2] = {"booked_only", "hurricane"}]
=============================================================================
