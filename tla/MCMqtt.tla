------------------------------- MODULE MCMqtt -------------------------------
(***************************************************************************)
(* Mqtt with the one slot of the code: the main thread makes two Clients,  *)
(* the shell one.                                                          *)
(***************************************************************************)
EXTENDS Mqtt, TLC

CONSTANTS main, tshell, slot0

MCCallers == {main, tshell}
MCMaxMakes == (main :> 2) @@ (tshell :> 1)
=============================================================================
