---------------------------- MODULE MCServiceDay ----------------------------
(***************************************************************************)
(* The windows and limits of reliefrun.build_state under six forecasts:    *)
(* calm, unsafe dawn, unsafe morning, only the noon window open, only the  *)
(* last one open, all shut.                                                *)
(***************************************************************************)
EXTENDS ServiceDay

MCSkies == {{}, {6, 7, 16}, 6..11, (0..23) \ {12, 13}, 0..14, 0..23}
=============================================================================
