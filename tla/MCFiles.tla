------------------------------ MODULE MCFiles --------------------------------
(***************************************************************************)
(* What jetty keeps in files that others may use at the same time, for     *)
(* TLC: the orchestrator's record in the registry (two pids, each used for *)
(* two processes at most) and the filesystem module (two threads on two    *)
(* paths, two contents, and two sets of bits of which the umask leaves     *)
(* one).  They share no state: `part` says which one a behaviour is of.    *)
(***************************************************************************)
EXTENDS Registry, LocalFs, TLC

CONSTANTS p1, p2, t1, t2, a, b, x, y, m644, m666

VARIABLE part

MCUmask == [m \in Modes |-> IF m = m666 THEN m644 ELSE m]
Symmetry == Permutations(Pids) \cup Permutations(Threads) \cup Permutations(Paths)
              \cup Permutations(Contents)

FilesInit ==
  /\ part \in {"registry", "filesystem"}
  /\ RegInit /\ LocalInit
  /\ part = "filesystem" \/ files = [q \in Paths |-> NoFile]

FilesNext ==
  \/ part = "registry" /\ RegNext /\ UNCHANGED <<part, fsVars>>
  \/ part = "filesystem" /\ LocalNext /\ UNCHANGED <<part, regVars>>

FilesSpec == FilesInit /\ [][FilesNext]_<<part, regVars, fsVars>>
==============================================================================
