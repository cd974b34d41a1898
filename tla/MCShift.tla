------------------------------ MODULE MCShift -------------------------------
(***************************************************************************)
(* Instances of Shift, with the forecasts of MCForecast: the run begins    *)
(* when only the booked departure can sail, and every later forecast is a  *)
(* storm in which only the other can.  The model may propose either, and   *)
(* the work item "window" is its own to claim.                             *)
(***************************************************************************)
EXTENDS Shift, MCForecast

CONSTANTS e1, ec, window, load, windowAgent, cargoAgent

MCPlanIds == 1..(Candidates + MaxProposals)
MCProposals == 1..2
MCAgenda == <<window, load>>
MCCrew == <<windowAgent, cargoAgent>>
MCForecastOf == [e \in Events |-> {"storm"}]
=============================================================================
