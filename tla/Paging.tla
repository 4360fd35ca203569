------------------------------- MODULE Paging --------------------------------
(***************************************************************************)
(* The lists the in-memory drivers show in pages: rows.sort(key=...), and  *)
(* offset tokens into the rows as they are when the page is asked for.     *)
(***************************************************************************)
EXTENDS Naturals, Sequences, SequencesExt, FiniteSets

\* The order of rows with different keys.
Comes(x, y, descending) == IF descending THEN x > y ELSE x < y

\* rows.sort(key, reverse): each of ids once, in the order of their keys.
Listings(ids, key, descending) ==
  {q \in [1 .. Cardinality(ids) -> ids] :
     /\ ToSet(q) = ids
     /\ \A i, j \in DOMAIN q : i < j => Comes(key[q[i]], key[q[j]], descending)}
==============================================================================
