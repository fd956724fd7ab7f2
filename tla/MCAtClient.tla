----------------------------- MODULE MCAtClient -----------------------------
(***************************************************************************)
(* AtClient with the main thread making two calls and the shell one.        *)
(***************************************************************************)
EXTENDS AtClient, TLC

CONSTANTS main, tshell

MCCallers == {main, tshell}

MCMaxCalls == (main :> 2) @@ (tshell :> 1)
=============================================================================
