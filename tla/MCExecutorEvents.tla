-------------------------- MODULE MCExecutorEvents --------------------------
(***************************************************************************)
(* ExecutorEvents with two clients and sets of three bits. Client c1 posts *)
(* a job that blocks and calls exec again from inside, and one that does   *)
(* neither; client c2 posts one.                                           *)
(***************************************************************************)
EXTENDS ExecutorEvents, TLC

CONSTANTS c1, c2, write, flush1, flush2, nested, s1, s2, s3, s4

MCClients == {c1, c2}
MCJobs == {write, flush1, flush2, nested}
MCCaller == (write :> c1) @@ (flush1 :> c1) @@ (flush2 :> c2) @@ (nested :> Poller)
MCInner == [j \in MCJobs |-> IF j = write THEN {nested} ELSE {}]
MCSets == {s1, s2, s3, s4}
=============================================================================
