------------------------------ MODULE MCQueue ------------------------------
(***************************************************************************)
(* Queue with two producers that push twice each.                          *)
(***************************************************************************)
EXTENDS Queue

CONSTANTS p1, p2

MCProducers == {p1, p2}
=============================================================================
