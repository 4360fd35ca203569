-------------------------------- MODULE MCSql --------------------------------
(***************************************************************************)
(* Sql for TLC, on its own: one process.                                   *)
(***************************************************************************)
EXTENDS Sql

CONSTANT p

MCLists == {<<"m1">>}
==============================================================================
