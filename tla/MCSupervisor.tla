---------------------------- MODULE MCSupervisor -----------------------------
(***************************************************************************)
(* Supervisor for TLC: two services, web declared `after` db.              *)
(***************************************************************************)
EXTENDS Supervisor

CONSTANTS db, web

MCAfter == [s \in Services |-> IF s = web THEN <<db>> ELSE <<>>]
==============================================================================
