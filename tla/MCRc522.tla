------------------------------ MODULE MCRc522 ------------------------------
(***************************************************************************)
(* Rc522 with two cards, three changes of the field and two faults.        *)
(***************************************************************************)
EXTENDS Rc522
=============================================================================
