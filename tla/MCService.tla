------------------------------ MODULE MCService ------------------------------
(***************************************************************************)
(* Service for TLC: a service `solo` on its own, and two services, web     *)
(* declared `after` db.  The services of `acting` run; a behaviour is of   *)
(* the one part or of the other, since solo shares nothing with the pair.  *)
(* The config accepts a list that names a service twice; here it stands    *)
(* for a list of two, whose second wait may find its event set, or unset   *)
(* again.                                                                  *)
(***************************************************************************)
EXTENDS Service

CONSTANTS solo, db, web, Parts

VARIABLE acting

MCAfter == [s \in Services |-> IF s = web THEN <<db, db>> ELSE <<>>]

PartInit ==
  /\ Init /\ acting \in Parts
  /\ \A s \in Services \ acting : gates[s] = "open"

PartNext == (\E s \in acting : ServiceStep(s)) /\ UNCHANGED acting

PartSpec == PartInit /\ [][PartNext]_<<vars, acting>>

\* The fairness of FairSpec, for the services the temporal properties are about.
PartFairSpec ==
  /\ PartSpec
  /\ \A s \in Gated :
       /\ WF_vars(s \in acting /\ LoopStep(s))
       /\ WF_vars(s \in acting /\ gates[s] = "closed" /\ GateCloses(s))
       /\ WF_vars(s \in acting /\ StopEnds(s)) /\ WF_vars(s \in acting /\ RestartEscalates(s))
       /\ WF_vars(s \in acting /\ GateWatchEnds(s)) /\ WF_vars(s \in acting /\ PathWatchEnds(s))
       /\ WF_vars(s \in acting /\ sig[s] = "kill" /\ ProcessExit(s))
==============================================================================
