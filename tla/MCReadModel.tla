----------------------------- MODULE MCReadModel -----------------------------
(***************************************************************************)
(* Two threads of one instance, or of two, for the read-model runs.        *)
(***************************************************************************)
EXTENDS ReadModel, TLC

CONSTANTS n1, n2, t1, t2, t3

MCPair == t1 :> n1 @@ t2 :> n1 @@ t3 :> n2
MCOne == t1 :> n1 @@ t2 :> n1
==============================================================================
