----------------------------- MODULE MCBinCache ------------------------------
(***************************************************************************)
(* BinCache for TLC, on its own: two supervisors share ~/.jetty/bin.       *)
(***************************************************************************)
EXTENDS BinCache

CONSTANTS p, q
==============================================================================
