----------------------------- MODULE MCSoftTimer -----------------------------
(***************************************************************************)
(* SoftTimer with the static timer of the load detectors, which two of     *)
(* them share, and a one-shot timer of half its period.  The tick wraps    *)
(* after 10.                                                               *)
(***************************************************************************)
EXTENDS SoftTimer, TLC

CONSTANTS lodet, once

MCTimers == {lodet, once}
MCPeriod == (lodet :> 2) @@ (once :> 1)
MCUsers == <<lodet, once, lodet>>
=============================================================================
