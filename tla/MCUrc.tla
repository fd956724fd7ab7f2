------------------------------- MODULE MCUrc -------------------------------
(***************************************************************************)
(* Urc with two threads, the two types of the Air302 that have URCs and a  *)
(* third one.  The pieces of a line are each a number or a word, and there *)
(* are lines too short, too long and without numbers.                      *)
(***************************************************************************)
EXTENDS Urc, TLC

CONSTANTS main, tshell, Http, MqttFactory, Other

MCUrcs == (Http :> {"HTTPRESPC"}) @@ (MqttFactory :> {"ECMTRECV", "ECMTCONN"})
              @@ (Other :> {})

Pieces(lengths) == UNION {[1 .. n -> {"0", "word"}] : n \in lengths}

MCLines == [prefix : {"HTTPRESPC"}, pieces : Pieces({1, 4, 5, 6})]
               \cup [prefix : {"ECMTRECV"}, pieces : Pieces(3 .. 5)]
               \cup [prefix : {"ECMTCONN"}, pieces : Pieces(1 .. 4)]
=============================================================================
