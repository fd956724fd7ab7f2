------------------------------ MODULE MCCplxAt ------------------------------
(***************************************************************************)
(* CplxAt with the main thread, the shell and a third thread, so that      *)
(* components of other types live while two threads make their own.        *)
(***************************************************************************)
EXTENDS CplxAt, TLC

CONSTANTS main, tshell, low, Basic, Http, Mqtt

MCMakers == {main, tshell, low}
MCTypes == {Basic, Http, Mqtt}

\* The threads are alike, and so are the two types with URCs.
MCSymmetry == Permutations(MCMakers) \cup Permutations({Http, Mqtt})
=============================================================================
