---------------------------- MODULE MCTraceOrder ----------------------------
(***************************************************************************)
(* Instances of TraceOrder: two threads of one process, or of two.         *)
(***************************************************************************)
EXTENDS TraceOrder

MCOneProcess == [t \in Threads |-> 1]
MCOneEach == [t \in Threads |-> IF t = "a" THEN 1 ELSE 2]
=============================================================================
