--------------------------- MODULE MCLoadDetector ---------------------------
(***************************************************************************)
(* LoadDetector with a ring of four entries and a window of three ticks;   *)
(* the configurations choose where the tick counter wraps.                 *)
(***************************************************************************)
EXTENDS LoadDetector
=============================================================================
