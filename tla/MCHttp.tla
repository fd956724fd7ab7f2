------------------------------- MODULE MCHttp -------------------------------
(***************************************************************************)
(* Http with the one slot of the code: the main thread sends two requests, *)
(* the shell one, and each answer has two lines.                           *)
(***************************************************************************)
EXTENDS Http, TLC

CONSTANTS main, tshell, slot0

MCCallers == {main, tshell}
MCMaxSends == (main :> 2) @@ (tshell :> 1)
=============================================================================
