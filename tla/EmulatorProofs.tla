---------------------------- MODULE EmulatorProofs ----------------------------
(***************************************************************************)
(* Proofs about the two emulated surfaces: the chat (module Chat) and the  *)
(* issue tracker (IssueTracker), over their in-memory drivers, for every   *)
(* value of the constants.                                                 *)
(*                                                                         *)
(* The tables of each have an inductive invariant, with a lemma for each   *)
(* request. The clients that follow page tokens have one of their own,     *)
(* which rests on the rank of a row: the number of rows that do not come   *)
(* after it in the sorted list. A page token is an offset into the list as *)
(* it is when the page is asked for; as long as no rank becomes less while *)
(* others write, the rows up to the offset are rows the client has seen.   *)
(***************************************************************************)
EXTENDS Chat, IssueTracker, FiniteSetTheorems, SequenceTheorems, TLAPS

-----------------------------------------------------------------------------
\* Sorted lists and their pages.

\* The rows that do not come after x, x among them.
Upto(ids, key, x, descending) == {y \in ids : y = x \/ Comes(key[y], key[x], descending)}

\* The number of the row that shows x.
Rank(ids, key, x, descending) == Cardinality(Upto(ids, key, x, descending))

\* rows[offset : offset + size], the page _paginate cuts out.
PageOf(rows, offset, size) ==
  SubSeq(rows, offset + 1, IF offset + size < Len(rows) THEN offset + size ELSE Len(rows))

\* Every row is at its rank, and every one of ids has a row.
Ranked(rows, ids, key, descending) ==
  /\ rows \in Seq(ids) /\ Len(rows) = Cardinality(ids) /\ Len(rows) \in Nat
  /\ \A k \in 1 .. Len(rows) : rows[k] \in ids /\ Rank(ids, key, rows[k], descending) = k
  /\ \A x \in ids : /\ Rank(ids, key, x, descending) \in 1 .. Len(rows)
                    /\ rows[Rank(ids, key, x, descending)] = x

\* rows.sort(key=...): the row of x is the one whose number is the rank of x.
LEMMA ListingRows ==
  ASSUME NEW ids, IsFiniteSet(ids), NEW key \in [ids -> Nat], NEW desc \in BOOLEAN,
         NEW rows \in Listings(ids, key, desc)
  PROVE  Ranked(rows, ids, key, desc)
PROOF
  <1>. DEFINE n == Cardinality(ids)
  <1>1. n \in Nat
    BY FS_CardinalityType
  <1>2. /\ rows \in [1 .. n -> ids] /\ ToSet(rows) = ids
        /\ \A i, j \in DOMAIN rows : i < j => Comes(key[rows[i]], key[rows[j]], desc)
    BY DEF Listings
  <1>. HIDE DEF n
  <1>3. /\ DOMAIN rows = 1 .. n /\ \A i \in 1 .. n : rows[i] \in ids /\ key[rows[i]] \in Nat
        /\ \A i, j \in 1 .. n : i < j => Comes(key[rows[i]], key[rows[j]], desc)
    <2>1. DOMAIN rows = 1 .. n /\ \A i \in 1 .. n : rows[i] \in ids
      BY <1>2
    <2>. QED BY <1>2, <2>1
  <1>4. rows \in Seq(ids) /\ Len(rows) = n
    BY <1>1, <1>2
  <1>5. ASSUME NEW i \in 1 .. n, NEW j \in 1 .. n, rows[i] = rows[j] PROVE i = j
    <2>1. ~(i < j)
      BY <1>3, <1>5 DEF Comes
    <2>2. ~(j < i)
      BY <1>3, <1>5 DEF Comes
    <2>. QED BY <1>1, <2>1, <2>2
  <1>6. ASSUME NEW k \in 1 .. n PROVE Rank(ids, key, rows[k], desc) = k
    <2>. DEFINE U == Upto(ids, key, rows[k], desc)
                f == [i \in 1 .. k |-> rows[i]]
    <2>0. k \in Nat /\ \A i \in 1 .. k : i \in 1 .. n
      BY <1>1
    <2>1. \A i \in 1 .. k : rows[i] \in U
      <3>. SUFFICES ASSUME NEW i \in 1 .. k PROVE rows[i] \in U OBVIOUS
      <3>1. i = k \/ i < k OBVIOUS
      <3>. QED BY <1>3, <2>0, <3>1 DEF Upto
    <2>2. \A y \in U : \E i \in 1 .. k : rows[i] = y
      <3>. SUFFICES ASSUME NEW y \in U PROVE \E i \in 1 .. k : rows[i] = y OBVIOUS
      <3>1. y \in ids /\ (y = rows[k] \/ Comes(key[y], key[rows[k]], desc))
        BY DEF Upto
      <3>2. PICK j \in 1 .. n : rows[j] = y
        BY <1>2, <1>3, <3>1 DEF ToSet
      <3>3. CASE j =< k
        BY <1>1, <3>2, <3>3
      <3>4. CASE k < j
        <4>1. Comes(key[rows[k]], key[rows[j]], desc)
          BY <1>3, <3>4
        <4>2. key[rows[k]] \in Nat /\ key[rows[j]] \in Nat
          BY <1>3
        <4>3. FALSE
          BY <3>1, <3>2, <4>1, <4>2 DEF Comes
        <4>. QED BY <4>3
      <3>. QED BY <1>1, <3>3, <3>4
    <2>. HIDE DEF U
    <2>3. f \in [1 .. k -> U]
      BY <2>1
    <2>4. IsInjective(f)
      BY <1>5, <2>0 DEF IsInjective
    <2>5. \A y \in U : \E i \in 1 .. k : f[i] = y
      BY <2>2
    <2>. HIDE DEF f
    <2>6. f \in Bijection(1 .. k, U)
      BY <2>3, <2>4, <2>5 DEF Bijection, Injection, Surjection
    <2>7. ExistsBijection(1 .. k, U)
      BY <2>6 DEF ExistsBijection
    <2>8. Cardinality(U) = k
      BY <2>0, <2>7, FS_CountingElements
    <2>. QED BY <2>8 DEF Rank, U
  <1>7. ASSUME NEW x \in ids
        PROVE  Rank(ids, key, x, desc) \in 1 .. n /\ rows[Rank(ids, key, x, desc)] = x
    <2>1. PICK k \in 1 .. n : rows[k] = x
      BY <1>2, <1>3 DEF ToSet
    <2>2. Rank(ids, key, x, desc) = k
      BY <1>6, <2>1
    <2>. QED BY <2>1, <2>2
  <1>8. Len(rows) = Cardinality(ids)
    BY <1>4 DEF n
  <1>. QED BY <1>1, <1>3, <1>4, <1>6, <1>7, <1>8 DEF Ranked

\* The rows of a list of numbers are numbers.
LEMMA RowsType ==
  ASSUME NEW ids, ids \subseteq Nat, NEW rows \in Seq(ids)
  PROVE  rows \in Seq(Nat)
PROOF
  <1>1. \A i \in 1 .. Len(rows) : rows[i] \in ids OBVIOUS
  <1>2. \A i \in 1 .. Len(rows) : rows[i] \in Nat
    BY <1>1
  <1>. QED BY <1>2

\* When a list grows, a row's number does not become less; it stays what it
\* was when everything new comes after it.
LEMMA RankStays ==
  ASSUME NEW ids, NEW more, ids \subseteq more, IsFiniteSet(more), NEW desc,
         NEW key, NEW key2, \A x \in ids : key2[x] = key[x], NEW x \in ids
  PROVE  /\ Rank(ids, key, x, desc) \in Nat /\ Rank(more, key2, x, desc) \in Nat
         /\ Rank(ids, key, x, desc) =< Rank(more, key2, x, desc)
         /\ (\A y \in more \ ids : ~Comes(key2[y], key2[x], desc))
              => Rank(ids, key, x, desc) = Rank(more, key2, x, desc)
PROOF
  <1>1. Upto(ids, key, x, desc) \subseteq Upto(more, key2, x, desc)
    BY DEF Upto
  <1>2. IsFiniteSet(Upto(more, key2, x, desc))
    <2>1. Upto(more, key2, x, desc) \in SUBSET more
      BY DEF Upto
    <2>. QED BY <2>1, FS_Subset
  <1>3. IsFiniteSet(Upto(ids, key, x, desc))
    BY <1>1, <1>2, FS_Subset
  <1>4. (\A y \in more \ ids : ~Comes(key2[y], key2[x], desc))
          => Upto(ids, key, x, desc) = Upto(more, key2, x, desc)
    BY DEF Upto
  <1>5. Cardinality(Upto(ids, key, x, desc)) =< Cardinality(Upto(more, key2, x, desc))
    BY <1>1, <1>2, FS_Subset
  <1>. QED BY <1>2, <1>3, <1>4, <1>5, FS_CardinalityType DEF Rank

\* What is in two sequences is in their concatenation, and nothing else is.
LEMMA ToSetConcat ==
  ASSUME NEW S, NEW s \in Seq(S), NEW t \in Seq(S)
  PROVE  s \o t \in Seq(S) /\ ToSet(s \o t) = ToSet(s) \cup ToSet(t)
PROOF
  <1>1. /\ s \o t \in Seq(S) /\ Len(s \o t) = Len(s) + Len(t) /\ Len(s) \in Nat /\ Len(t) \in Nat
        /\ \A i \in 1 .. Len(s) + Len(t) : (s \o t)[i] = IF i <= Len(s) THEN s[i] ELSE t[i - Len(s)]
        /\ DOMAIN s = 1 .. Len(s) /\ DOMAIN t = 1 .. Len(t) /\ DOMAIN (s \o t) = 1 .. Len(s \o t)
    <2>1. s \o t \in Seq(S) /\ Len(s \o t) = Len(s) + Len(t)
      BY ConcatProperties
    <2>. QED BY <2>1, ConcatProperties
  <1>2. ASSUME NEW x \in ToSet(s \o t) PROVE x \in ToSet(s) \cup ToSet(t)
    <2>1. PICK i \in 1 .. Len(s) + Len(t) : x = (s \o t)[i]
      BY <1>1 DEF ToSet
    <2>2. CASE i <= Len(s)
      <3>1. i \in 1 .. Len(s) /\ x = s[i]
        BY <1>1, <2>1, <2>2
      <3>. QED BY <1>1, <3>1 DEF ToSet
    <2>3. CASE ~(i <= Len(s))
      <3>1. i - Len(s) \in 1 .. Len(t) /\ x = t[i - Len(s)]
        BY <1>1, <2>1, <2>3
      <3>. QED BY <1>1, <3>1 DEF ToSet
    <2>. QED BY <2>2, <2>3
  <1>3. ASSUME NEW i \in 1 .. Len(s) PROVE s[i] \in ToSet(s \o t)
    <2>1. i \in 1 .. Len(s) + Len(t) /\ (s \o t)[i] = s[i]
      BY <1>1
    <2>. QED BY <1>1, <2>1 DEF ToSet
  <1>4. ASSUME NEW i \in 1 .. Len(t) PROVE t[i] \in ToSet(s \o t)
    <2>1. Len(s) + i \in 1 .. Len(s) + Len(t) /\ ~(Len(s) + i <= Len(s)) /\ (Len(s) + i) - Len(s) = i
      BY <1>1
    <2>2. (s \o t)[Len(s) + i] = t[i]
      BY <1>1, <2>1
    <2>. QED BY <1>1, <2>1, <2>2 DEF ToSet
  <1>5. \A x \in ToSet(s) \cup ToSet(t) : x \in ToSet(s \o t)
    BY <1>1, <1>3, <1>4 DEF ToSet
  <1>. QED BY <1>1, <1>2, <1>5

\* What rows[offset : offset + size] has in it.
LEMMA PageRows ==
  ASSUME NEW S, NEW rows \in Seq(S), NEW offset \in Nat, NEW size \in Nat \ {0}
  PROVE  LET p == PageOf(rows, offset, size)
         IN  /\ p \in Seq(S) /\ Len(p) \in Nat
             /\ \A i \in 1 .. Len(p) : i =< size /\ offset + i \in 1 .. Len(rows) /\ p[i] = rows[offset + i]
             /\ \A k \in 1 .. Len(rows) : offset < k /\ k =< offset + size =>
                  k - offset \in 1 .. Len(p) /\ p[k - offset] = rows[k]
             /\ offset =< Len(rows) =>
                  Len(p) = IF offset + size < Len(rows) THEN size ELSE Len(rows) - offset
PROOF
  <1>. DEFINE end == IF offset + size < Len(rows) THEN offset + size ELSE Len(rows)
              p == PageOf(rows, offset, size)
  <1>1. Len(rows) \in Nat /\ size \in Nat /\ 0 < size /\ \A i \in 1 .. Len(rows) : rows[i] \in S OBVIOUS
  <1>2. end \in Nat /\ end =< Len(rows) /\ end =< offset + size
    BY <1>1
  <1>3. offset + 1 \in Int /\ end \in Int /\ \A i \in offset + 1 .. end : rows[i] \in S
    <2>1. \A i \in offset + 1 .. end : i \in 1 .. Len(rows)
      BY <1>1, <1>2
    <2>. QED BY <1>1, <1>2, <2>1
  <1>4. p = SubSeq(rows, offset + 1, end)
    BY DEF PageOf
  <1>. HIDE DEF p, end
  <1>5. /\ p \in Seq(S) /\ Len(p) = (IF offset + 1 <= end THEN end - (offset + 1) + 1 ELSE 0)
        /\ \A i \in 1 .. end - (offset + 1) + 1 : p[i] = rows[(offset + 1) + i - 1]
    BY <1>3, <1>4, SubSeqProperties
  <1>6. /\ end - (offset + 1) + 1 = end - offset /\ \A i \in Nat : (offset + 1) + i - 1 = offset + i
    BY <1>2
  <1>7. \A i \in 1 .. end - offset : p[i] = rows[offset + i]
    BY <1>5, <1>6
  <1>8. Len(p) = IF offset + 1 <= end THEN end - offset ELSE 0
    BY <1>5, <1>6
  <1>9. \A i \in 1 .. Len(p) : i =< size /\ offset + i \in 1 .. Len(rows) /\ i \in 1 .. end - offset
    BY <1>1, <1>2, <1>8
  <1>10. ASSUME NEW k \in 1 .. Len(rows), offset < k, k =< offset + size
         PROVE  k - offset \in 1 .. Len(p) /\ p[k - offset] = rows[k]
    <2>1. k =< end
      BY <1>1, <1>10 DEF end
    <2>2. k - offset \in 1 .. end - offset /\ offset + (k - offset) = k /\ offset + 1 <= end
      BY <1>1, <1>2, <1>10, <2>1
    <2>. QED BY <1>7, <1>8, <2>2
  <1>11. offset =< Len(rows) => Len(p) = IF offset + size < Len(rows) THEN size ELSE Len(rows) - offset
    BY <1>1, <1>8 DEF end
  <1>12. Len(p) \in Nat
    BY <1>5
  <1>13. \A i \in 1 .. Len(p) : p[i] = rows[offset + i]
    BY <1>7, <1>9
  <1>. QED BY <1>5, <1>9, <1>10, <1>11, <1>12, <1>13 DEF p

\* A client that has seen every row up to its offset has, after one more
\* page, seen every row up to its next offset; and without a nextPageToken,
\* all of them.
LEMMA PageShows ==
  ASSUME NEW ids, ids \subseteq Nat, IsFiniteSet(ids), NEW key \in [ids -> Nat], NEW desc \in BOOLEAN,
         NEW rows \in Listings(ids, key, desc), NEW offset \in Nat, NEW size \in Nat \ {0},
         NEW seen \in Seq(Nat), NEW steady, steady \subseteq ids,
         \A x \in steady : Rank(ids, key, x, desc) =< offset => x \in ToSet(seen)
  PROVE  LET after == seen \o PageOf(rows, offset, size)
         IN  /\ after \in Seq(Nat)
             /\ \A x \in steady : Rank(ids, key, x, desc) =< offset + size => x \in ToSet(after)
             /\ ~(offset + size < Len(rows)) => steady \subseteq ToSet(after)
PROOF
  <1>. DEFINE p == PageOf(rows, offset, size)
  <1>1. /\ rows \in Seq(ids) /\ Len(rows) \in Nat
        /\ \A x \in ids : Rank(ids, key, x, desc) \in 1 .. Len(rows) /\ rows[Rank(ids, key, x, desc)] = x
    <2>1. Ranked(rows, ids, key, desc)
      BY ListingRows
    <2>. QED BY <2>1 DEF Ranked
  <1>2. rows \in Seq(Nat)
    BY <1>1, RowsType
  <1>3. /\ p \in Seq(Nat) /\ DOMAIN p = 1 .. Len(p)
        /\ \A k \in 1 .. Len(rows) : offset < k /\ k =< offset + size =>
             k - offset \in 1 .. Len(p) /\ p[k - offset] = rows[k]
    <2>1. /\ p \in Seq(Nat) /\ Len(p) \in Nat
          /\ \A i \in 1 .. Len(p) : i =< size /\ offset + i \in 1 .. Len(rows) /\ p[i] = rows[offset + i]
          /\ \A k \in 1 .. Len(rows) : offset < k /\ k =< offset + size =>
               k - offset \in 1 .. Len(p) /\ p[k - offset] = rows[k]
          /\ offset =< Len(rows) =>
               Len(p) = IF offset + size < Len(rows) THEN size ELSE Len(rows) - offset
      BY <1>2, PageRows, Zenon
    <2>. HIDE DEF p
    <2>. QED BY <2>1
  <1>. HIDE DEF p
  <1>4. seen \o p \in Seq(Nat) /\ ToSet(seen \o p) = ToSet(seen) \cup ToSet(p)
    BY <1>3, ToSetConcat
  <1>5. ASSUME NEW x \in steady, Rank(ids, key, x, desc) =< offset + size PROVE x \in ToSet(seen \o p)
    <2>. DEFINE k == Rank(ids, key, x, desc)
    <2>1. k \in 1 .. Len(rows) /\ rows[k] = x
      BY <1>1
    <2>2. CASE k =< offset
      BY <1>4, <2>2
    <2>3. CASE offset < k
      <3>1. k - offset \in 1 .. Len(p) /\ p[k - offset] = x
        BY <1>3, <1>5, <2>1, <2>3
      <3>2. x \in ToSet(p)
        BY <1>3, <3>1 DEF ToSet
      <3>. QED BY <1>4, <3>2
    <2>. QED BY <1>1, <2>1, <2>2, <2>3
  <1>6. ~(offset + size < Len(rows)) => steady \subseteq ToSet(seen \o p)
    <2>. SUFFICES ASSUME ~(offset + size < Len(rows)), NEW x \in steady PROVE x \in ToSet(seen \o p)
      OBVIOUS
    <2>1. Rank(ids, key, x, desc) \in 1 .. Len(rows)
      BY <1>1
    <2>2. Rank(ids, key, x, desc) =< offset + size
      BY <1>1, <2>1
    <2>. QED BY <1>5, <2>2
  <1>. QED BY <1>4, <1>5, <1>6 DEF p

\* A client that has seen only rows up to its offset, none twice, gets none
\* twice with the next page.
LEMMA PageOnce ==
  ASSUME NEW ids, ids \subseteq Nat, IsFiniteSet(ids), NEW key \in [ids -> Nat], NEW desc \in BOOLEAN,
         NEW rows \in Listings(ids, key, desc), NEW offset \in Nat, NEW size \in Nat \ {0},
         NEW seen \in Seq(Nat), IsInjective(seen),
         \A x \in ToSet(seen) : x \in ids /\ Rank(ids, key, x, desc) =< offset
  PROVE  LET after == seen \o PageOf(rows, offset, size)
         IN  /\ IsInjective(after)
             /\ \A x \in ToSet(after) : x \in ids /\ Rank(ids, key, x, desc) =< offset + size
PROOF
  <1>. DEFINE p == PageOf(rows, offset, size)
              rk(x) == Rank(ids, key, x, desc)
  <1>1. /\ rows \in Seq(ids) /\ Len(rows) \in Nat
        /\ \A k \in 1 .. Len(rows) : rows[k] \in ids /\ rk(rows[k]) = k
        /\ \A x \in ids : rk(x) \in 1 .. Len(rows)
    <2>1. Ranked(rows, ids, key, desc)
      BY ListingRows
    <2>. QED BY <2>1 DEF Ranked
  <1>2. rows \in Seq(Nat)
    BY <1>1, RowsType
  <1>3. /\ p \in Seq(Nat) /\ Len(p) \in Nat /\ DOMAIN p = 1 .. Len(p)
        /\ \A i \in 1 .. Len(p) : i =< size /\ offset + i \in 1 .. Len(rows) /\ p[i] = rows[offset + i]
    <2>1. /\ p \in Seq(Nat) /\ Len(p) \in Nat
          /\ \A i \in 1 .. Len(p) : i =< size /\ offset + i \in 1 .. Len(rows) /\ p[i] = rows[offset + i]
          /\ \A k \in 1 .. Len(rows) : offset < k /\ k =< offset + size =>
               k - offset \in 1 .. Len(p) /\ p[k - offset] = rows[k]
          /\ offset =< Len(rows) =>
               Len(p) = IF offset + size < Len(rows) THEN size ELSE Len(rows) - offset
      BY <1>2, PageRows, Zenon
    <2>. HIDE DEF p
    <2>. QED BY <2>1
  <1>. HIDE DEF p, rk
  <1>4. \A i \in 1 .. Len(p) : p[i] \in ids /\ rk(p[i]) = offset + i
    BY <1>1, <1>3
  <1>5. /\ Len(seen) \in Nat /\ DOMAIN seen = 1 .. Len(seen)
        /\ \A i \in 1 .. Len(seen) : seen[i] \in ids /\ rk(seen[i]) \in Nat /\ rk(seen[i]) =< offset
    <2>1. Len(seen) \in Nat /\ DOMAIN seen = 1 .. Len(seen) OBVIOUS
    <2>2. \A i \in 1 .. Len(seen) : seen[i] \in ToSet(seen)
      BY <2>1 DEF ToSet
    <2>3. \A i \in 1 .. Len(seen) : seen[i] \in ids /\ rk(seen[i]) =< offset
      BY <2>2 DEF rk
    <2>. QED BY <1>1, <2>1, <2>3
  <1>6. /\ seen \o p \in Seq(Nat) /\ DOMAIN (seen \o p) = 1 .. Len(seen) + Len(p)
        /\ \A i \in 1 .. Len(seen) + Len(p) : (seen \o p)[i] = IF i <= Len(seen) THEN seen[i] ELSE p[i - Len(seen)]
    <2>1. seen \o p \in Seq(Nat) /\ Len(seen \o p) = Len(seen) + Len(p)
      BY <1>3, ConcatProperties
    <2>. QED BY <1>3, <2>1, ConcatProperties
  <1>7. ASSUME NEW i \in 1 .. Len(seen) + Len(p), NEW j \in 1 .. Len(seen) + Len(p),
               (seen \o p)[i] = (seen \o p)[j], i # j
        PROVE  FALSE
    <2>0. ASSUME NEW a \in 1 .. Len(seen) + Len(p), ~(a <= Len(seen))
          PROVE  /\ a - Len(seen) \in 1 .. Len(p)
                 /\ rk((seen \o p)[a]) = offset + (a - Len(seen))
      <3>1. a - Len(seen) \in 1 .. Len(p)
        BY <1>3, <1>5, <2>0
      <3>2. (seen \o p)[a] = p[a - Len(seen)]
        BY <1>6, <2>0
      <3>. QED BY <1>4, <3>1, <3>2
    <2>1. CASE i <= Len(seen) /\ j <= Len(seen)
      <3>1. i \in 1 .. Len(seen) /\ j \in 1 .. Len(seen)
        BY <1>5, <2>1
      <3>2. seen[i] = seen[j]
        BY <1>6, <1>7, <2>1
      <3>. QED BY <1>5, <1>7, <3>1, <3>2 DEF IsInjective
    <2>2. ASSUME NEW a \in 1 .. Len(seen) + Len(p), NEW b \in 1 .. Len(seen) + Len(p),
                 a <= Len(seen), ~(b <= Len(seen)), (seen \o p)[a] = (seen \o p)[b]
          PROVE  FALSE
      <3>1. a \in 1 .. Len(seen) /\ (seen \o p)[a] = seen[a]
        BY <1>5, <1>6, <2>2
      <3>2. rk((seen \o p)[a]) \in Nat /\ rk((seen \o p)[a]) =< offset
        BY <1>5, <3>1
      <3>3. b - Len(seen) \in 1 .. Len(p) /\ rk((seen \o p)[b]) = offset + (b - Len(seen))
        BY <2>0, <2>2
      <3>4. rk((seen \o p)[a]) = rk((seen \o p)[b])
        BY <2>2
      <3>. HIDE DEF p
      <3>5. b - Len(seen) \in Nat /\ 1 =< b - Len(seen)
        BY <1>3, <3>3
      <3>. QED BY <3>2, <3>3, <3>4, <3>5
    <2>3. CASE ~(i <= Len(seen)) /\ ~(j <= Len(seen))
      <3>1. offset + (i - Len(seen)) = offset + (j - Len(seen))
        BY <1>7, <2>0, <2>3
      <3>. QED BY <1>3, <1>5, <1>7, <3>1
    <2>. QED BY <1>7, <2>1, <2>2, <2>3
  <1>8. IsInjective(seen \o p)
    BY <1>6, <1>7 DEF IsInjective
  <1>9. ASSUME NEW x \in ToSet(seen \o p) PROVE x \in ids /\ rk(x) =< offset + size
    <2>1. ToSet(seen \o p) = ToSet(seen) \cup ToSet(p)
      BY <1>3, ToSetConcat
    <2>2. CASE x \in ToSet(seen)
      <3>1. PICK i \in 1 .. Len(seen) : x = seen[i]
        BY <1>5, <2>2 DEF ToSet
      <3>. QED BY <1>5, <3>1
    <2>3. CASE x \in ToSet(p)
      <3>1. PICK i \in 1 .. Len(p) : x = p[i]
        BY <1>3, <2>3 DEF ToSet
      <3>2. rk(x) = offset + i /\ i =< size /\ i \in Nat
        BY <1>3, <1>4, <3>1
      <3>. QED BY <1>4, <3>1, <3>2
    <2>. QED BY <2>1, <2>2, <2>3
  <1>. QED BY <1>8, <1>9 DEF p, rk

\* Rows are numbered from 1.
LEMMA RankPositive ==
  ASSUME NEW ids, IsFiniteSet(ids), NEW key, NEW desc, NEW x \in ids
  PROVE  Rank(ids, key, x, desc) \in Nat \ {0}
PROOF
  <1>1. Upto(ids, key, x, desc) \in SUBSET ids /\ x \in Upto(ids, key, x, desc)
    BY DEF Upto
  <1>2. IsFiniteSet(Upto(ids, key, x, desc))
    BY <1>1, FS_Subset
  <1>3. Cardinality(Upto(ids, key, x, desc)) # 0
    BY <1>1, <1>2, FS_EmptySet
  <1>. QED BY <1>2, <1>3, FS_CardinalityType DEF Rank

\* What a client has seen stays a sequence of ids.
LEMMA PageType ==
  ASSUME NEW ids, ids \subseteq Nat, IsFiniteSet(ids), NEW key \in [ids -> Nat], NEW desc \in BOOLEAN,
         NEW rows \in Listings(ids, key, desc), NEW offset \in Nat, NEW size \in Nat \ {0},
         NEW seen \in Seq(Nat)
  PROVE  seen \o PageOf(rows, offset, size) \in Seq(Nat)
PROOF
  <1>. DEFINE none == {}
  <1>1. none \subseteq ids OBVIOUS
  <1>2. \A x \in none : Rank(ids, key, x, desc) =< offset => x \in ToSet(seen) OBVIOUS
  <1>. HIDE DEF none
  <1>. QED BY <1>1, <1>2, PageShows

-----------------------------------------------------------------------------
\* Chat: the driver's tables.

\* Ids in the order in which the counter gave them out.
Ascending(q) == \A i, j \in DOMAIN q : i < j => q[i] < q[j]

\* What a message keeps of the one it quotes; asRead is the text the quoting
\* client had read.
Quotes == [name : Nat, thread : Nat \X Nat, text : ChatTexts, asRead : ChatTexts]

\* The spaces, and for each the ids of its messages (_order).
SpacesTyped ==
  /\ counter \in Nat /\ clock \in Nat
  /\ DOMAIN spaces \subseteq Nat /\ DOMAIN order = DOMAIN spaces
  /\ \A s \in DOMAIN spaces : s =< counter /\ order[s] \in Seq(Nat)

\* Message ids and times are not ahead of the counter and the clock, and a
\* message is in a space that exists.
MessagesTyped ==
  \A m \in DOMAIN messages :
    /\ m \in 1 .. counter
    /\ messages[m] \in [space : DOMAIN spaces, thread : Nat \X Nat, text : ChatTexts, created : 0 .. clock,
                        updated : 0 .. clock, quoted : Quotes \cup {NoOne}]

\* The reactions to a message are ids in ascending order.
ReactionsTyped ==
  \A m \in DOMAIN reactions :
    /\ reactions[m] \in Seq(Nat) /\ Ascending(reactions[m])
    /\ \A r \in ToSet(reactions[m]) : r =< counter

\* What the client that is about to quote has read.
ReaderTyped ==
  reader # NoOne => reader \in [name : 1 .. counter, time : 0 .. clock, text : ChatTexts]

\* The types of the chat's state.
ChatTypeOK == SpacesTyped /\ MessagesTyped /\ ReactionsTyped /\ ReaderTyped

\* Threads are named after their space and an id of the counter; a thread key
\* leads to a thread, and a root is a message id that was given out.
ThreadsKnown ==
  /\ threads \subseteq Nat \X (0 .. counter)
  /\ \A k \in DOMAIN threadKeys : threadKeys[k] \in threads
  /\ \A t \in DOMAIN roots : t \in threads /\ roots[t] \in 0 .. counter

\* _order of a space has exactly the messages of the space, oldest first.
OrderAgrees ==
  \A s \in DOMAIN spaces :
     /\ ToSet(order[s]) = {m \in DOMAIN messages : messages[m].space = s}
     /\ Ascending(order[s])

\* The thread of a message has a root that is no younger than the message.
ThreadsRooted ==
  \A m \in DOMAIN messages : messages[m].thread \in DOMAIN roots /\ roots[messages[m].thread] =< m

\* Only messages that exist have reactions, and no reaction is on two
\* messages.
ReactionsApart ==
  /\ DOMAIN reactions \subseteq DOMAIN messages
  /\ \A m, n \in DOMAIN reactions : m # n => ToSet(reactions[m]) \cap ToSet(reactions[n]) = {}

\* Who has read the present version of a message has read its present text.
ReaderKnows ==
  reader # NoOne /\ reader.name \in DOMAIN messages /\ reader.time = Version(reader.name)
    => reader.text = messages[reader.name].text

\* What was kept of a quoted message is what the quoting client had read; the
\* quoted message was in the same thread, or the root of its own.
QuotesHold ==
  \A m \in DOMAIN messages : messages[m].quoted # NoOne =>
     /\ messages[m].quoted.text = messages[m].quoted.asRead
     /\ messages[m].quoted.thread \in DOMAIN roots
     /\ \/ messages[m].quoted.thread = messages[m].thread
        \/ roots[messages[m].quoted.thread] = messages[m].quoted.name

\* The inductive invariant of the chat.
ChatInv == /\ ChatTypeOK /\ ThreadsKnown /\ OrderAgrees /\ ThreadsRooted /\ ReactionsApart
           /\ ReaderKnows /\ QuotesHold

\* The text of a message that a client creates is a text.
LEMMA NewTextType == NewText \in ChatTexts
  BY ChatAssumption DEF ChatAssumption, NewText

\* A dictionary after one assignment.
LEMMA WithAt ==
  ASSUME NEW f, NEW x, NEW v
  PROVE  /\ DOMAIN With(f, x, v) = DOMAIN f \cup {x}
         /\ With(f, x, v)[x] = v
         /\ \A y \in DOMAIN f : y # x => With(f, x, v)[y] = f[y]
  BY DEF With

\* list.remove on ascending ids takes out that one and leaves the others
\* ascending.
LEMMA RemoveAscending ==
  ASSUME NEW S, S \subseteq Nat, NEW q \in Seq(S), Ascending(q), NEW e \in ToSet(q)
  PROVE  /\ RemoveFirst(q, e) \in Seq(S) /\ Ascending(RemoveFirst(q, e))
         /\ ToSet(RemoveFirst(q, e)) = ToSet(q) \ {e}
PROOF
  <1>1. PICK k \in 1 .. Len(q) : q[k] = e
    BY DEF ToSet
  <1>2. Len(q) \in Nat /\ DOMAIN q = 1 .. Len(q) /\ k \in Nat /\ 1 =< k /\ k =< Len(q) OBVIOUS
  <1>0. \A i \in 1 .. Len(q) : q[i] \in S /\ q[i] \in Nat
    <2>1. \A i \in 1 .. Len(q) : q[i] \in S OBVIOUS
    <2>. QED BY <2>1
  <1>3. \A i, j \in 1 .. Len(q) : q[i] \in Nat /\ (i < j => q[i] < q[j])
    BY <1>0, <1>2 DEF Ascending
  <1>4. \A i \in 1 .. Len(q) : q[i] = e => i = k
    BY <1>1, <1>2, <1>3
  <1>5. {i \in 1 .. Len(q) : q[i] = e} = {k}
    BY <1>1, <1>4
  <1>6. Min({k}) = k
    BY <1>2 DEF Min
  <1>7. RemoveFirst(q, e) = RemoveAt(q, k)
    <2>1. SelectInSeq(q, LAMBDA v : v = e) = k
      BY <1>5, <1>6 DEF SelectInSeq
    <2>. QED BY <1>1, <2>1 DEF RemoveFirst
  <1>. DEFINE r == RemoveFirst(q, e)
  <1>8. /\ r \in Seq(S) /\ Len(r) = Len(q) - 1 /\ DOMAIN r = 1 .. Len(q) - 1
        /\ \A i \in 1 .. Len(q) - 1 : r[i] = IF i < k THEN q[i] ELSE q[i + 1]
    <2>. DEFINE a == SubSeq(q, 1, k - 1)
                b == SubSeq(q, k + 1, Len(q))
    <2>1. /\ a \in Seq(S) /\ Len(a) = k - 1 /\ \A i \in 1 .. k - 1 : a[i] = q[i]
      <3>1. \A i \in 1 .. k - 1 : q[i] \in S
        BY <1>0, <1>2
      <3>2. 1 \in Int /\ k - 1 \in Int
        BY <1>2
      <3>3. /\ a \in Seq(S) /\ Len(a) = IF 1 <= k - 1 THEN (k - 1) - 1 + 1 ELSE 0
            /\ \A i \in 1 .. (k - 1) - 1 + 1 : a[i] = q[1 + i - 1]
        BY <3>1, <3>2, SubSeqProperties
      <3>. HIDE DEF a, b, r
      <3>. QED BY <1>2, <3>3
    <2>2. /\ b \in Seq(S) /\ Len(b) = Len(q) - k /\ \A i \in 1 .. Len(q) - k : b[i] = q[k + i]
      <3>1. \A i \in k + 1 .. Len(q) : q[i] \in S
        BY <1>0, <1>2
      <3>2. k + 1 \in Int /\ Len(q) \in Int
        BY <1>2
      <3>3. /\ b \in Seq(S) /\ Len(b) = IF k + 1 <= Len(q) THEN Len(q) - (k + 1) + 1 ELSE 0
            /\ \A i \in 1 .. Len(q) - (k + 1) + 1 : b[i] = q[(k + 1) + i - 1]
        BY <3>1, <3>2, SubSeqProperties
      <3>. HIDE DEF a, b, r
      <3>4. /\ Len(q) - (k + 1) + 1 = Len(q) - k /\ \A i \in 1 .. Len(q) - k : (k + 1) + i - 1 = k + i
        BY <1>2
      <3>5. \A i \in 1 .. Len(q) - k : b[i] = q[k + i]
        BY <3>3, <3>4
      <3>6. Len(b) = Len(q) - k
        <4>1. Len(b) = IF k + 1 <= Len(q) THEN Len(q) - (k + 1) + 1 ELSE 0
          BY <3>3
        <4>2. CASE k + 1 <= Len(q)
          BY <1>2, <4>1, <4>2
        <4>3. CASE k = Len(q)
          BY <1>2, <4>1, <4>3
        <4>4. \A x, y \in Nat : x =< y => x + 1 <= y \/ x = y OBVIOUS
        <4>5. k + 1 <= Len(q) \/ k = Len(q)
          BY <1>2, <4>4
        <4>. QED BY <4>2, <4>3, <4>5
      <3>. QED BY <3>3, <3>5, <3>6
    <2>3. r = a \o b
      BY <1>7 DEF RemoveAt
    <2>. HIDE DEF r, a, b
    <2>4. /\ r \in Seq(S) /\ Len(r) = Len(a) + Len(b)
          /\ \A i \in 1 .. Len(a) + Len(b) : r[i] = IF i <= Len(a) THEN a[i] ELSE b[i - Len(a)]
      BY <2>1, <2>2, <2>3, ConcatProperties
    <2>5. Len(a) + Len(b) = Len(q) - 1
      BY <1>2, <2>1, <2>2
    <2>6. ASSUME NEW i \in 1 .. Len(q) - 1 PROVE r[i] = IF i < k THEN q[i] ELSE q[i + 1]
      <3>1. CASE i < k
        BY <1>2, <2>1, <2>4, <2>5, <3>1
      <3>2. CASE ~(i < k)
        <4>1. i - Len(a) \in 1 .. Len(q) - k /\ k + (i - Len(a)) = i + 1
          BY <1>2, <2>1, <3>2
        <4>2. r[i] = b[i - Len(a)]
          BY <1>2, <2>1, <2>4, <2>5, <3>2
        <4>. QED BY <2>2, <3>2, <4>1, <4>2
      <3>. QED BY <3>1, <3>2
    <2>7. DOMAIN r = 1 .. Len(q) - 1
      BY <2>4, <2>5
    <2>. QED BY <2>4, <2>5, <2>6, <2>7
  <1>. HIDE DEF r
  <1>9. Ascending(r)
    <2>. SUFFICES ASSUME NEW i \in 1 .. Len(q) - 1, NEW j \in 1 .. Len(q) - 1, i < j PROVE r[i] < r[j]
      BY <1>8 DEF Ascending
    <2>. QED BY <1>2, <1>3, <1>8
  <1>10. ToSet(r) = ToSet(q) \ {e}
    <2>1. ASSUME NEW x \in ToSet(r) PROVE x \in ToSet(q) \ {e}
      <3>1. PICK i \in 1 .. Len(q) - 1 : x = r[i]
        BY <1>8 DEF ToSet
      <3>2. PICK j \in 1 .. Len(q) : j # k /\ x = q[j]
        BY <1>2, <1>8, <3>1
      <3>. QED BY <1>2, <1>4, <3>2 DEF ToSet
    <2>2. ASSUME NEW x \in ToSet(q) \ {e} PROVE x \in ToSet(r)
      <3>1. PICK j \in 1 .. Len(q) : x = q[j] /\ j # k
        BY <1>1, <1>2 DEF ToSet
      <3>2. PICK i \in 1 .. Len(q) - 1 : x = r[i]
        <4>1. CASE j < k
          BY <1>2, <1>8, <3>1, <4>1
        <4>2. CASE j > k
          <5>1. j - 1 \in 1 .. Len(q) - 1 /\ ~(j - 1 < k) /\ (j - 1) + 1 = j
            BY <1>2, <4>2
          <5>. QED BY <1>8, <3>1, <5>1
        <4>. QED BY <1>2, <3>1, <4>1, <4>2
      <3>. QED BY <1>8, <3>2 DEF ToSet
    <2>. QED BY <2>1, <2>2
  <1>. QED BY <1>8, <1>9, <1>10 DEF r

\* Appending an id that the counter has just given out leaves the list
\* ascending.
LEMMA AppendAscending ==
  ASSUME NEW S, S \subseteq Nat, NEW q \in Seq(S), Ascending(q), NEW e \in S, \A x \in ToSet(q) : x < e
  PROVE  /\ Append(q, e) \in Seq(S) /\ Ascending(Append(q, e))
         /\ ToSet(Append(q, e)) = ToSet(q) \cup {e}
PROOF
  <1>1. Len(q) \in Nat /\ DOMAIN q = 1 .. Len(q) OBVIOUS
  <1>2. \A i \in 1 .. Len(q) : q[i] < e
    BY <1>1 DEF ToSet
  <1>3. /\ Append(q, e) \in Seq(S) /\ DOMAIN Append(q, e) = 1 .. Len(q) + 1
        /\ \A i \in 1 .. Len(q) : Append(q, e)[i] = q[i]
        /\ Append(q, e)[Len(q) + 1] = e
    OBVIOUS
  <1>4. Ascending(Append(q, e))
    BY <1>1, <1>2, <1>3 DEF Ascending
  <1>5. 1 .. Len(q) + 1 = (1 .. Len(q)) \cup {Len(q) + 1}
    BY <1>1
  <1>6. ToSet(Append(q, e)) = ToSet(q) \cup {e}
    BY <1>1, <1>3, <1>5 DEF ToSet
  <1>. QED BY <1>3, <1>4, <1>6

\* The time of a message's last change is not ahead of the clock.
LEMMA VersionType ==
  ASSUME ChatTypeOK, NEW m \in DOMAIN messages
  PROVE  Version(m) \in 0 .. clock
  BY DEF ChatTypeOK, MessagesTyped, Version

\* Ids and times only grow, so what a request leaves alone keeps its type.
LEMMA Growth ==
  ASSUME ChatInv, counter' \in Nat, counter =< counter', clock' \in Nat, clock =< clock'
  PROVE  /\ DOMAIN spaces \subseteq DOMAIN spaces' /\ messages' = messages => MessagesTyped'
         /\ reactions' = reactions => ReactionsTyped'
         /\ reader' = reader => ReaderTyped'
         /\ spaces' = spaces /\ order' = order => SpacesTyped'
         /\ threads' = threads /\ threadKeys' = threadKeys /\ roots' = roots => ThreadsKnown'
PROOF
  <1>h. /\ SpacesTyped /\ MessagesTyped /\ ReactionsTyped /\ ReaderTyped /\ ThreadsKnown
    BY DEF ChatInv, ChatTypeOK
  <1>0. counter \in Nat /\ clock \in Nat
    BY <1>h DEF SpacesTyped
  <1>1. 0 .. clock \subseteq 0 .. clock' /\ 1 .. counter \subseteq 1 .. counter' /\ 0 .. counter \subseteq 0 .. counter'
    BY <1>0
  <1>2. ASSUME DOMAIN spaces \subseteq DOMAIN spaces', messages' = messages PROVE MessagesTyped'
    <2>. SUFFICES ASSUME NEW m \in DOMAIN messages
         PROVE  /\ m \in 1 .. counter'
                /\ messages[m] \in [space : DOMAIN spaces', thread : Nat \X Nat, text : ChatTexts,
                                    created : 0 .. clock', updated : 0 .. clock', quoted : Quotes \cup {NoOne}]
      BY <1>2 DEF MessagesTyped
    <2>. QED BY <1>h, <1>1, <1>2 DEF MessagesTyped
  <1>3. reactions' = reactions => ReactionsTyped'
    <2>1. \A x \in Nat : x =< counter => x =< counter'
      BY <1>0
    <2>2. \A m \in DOMAIN reactions : \A r \in ToSet(reactions[m]) : r \in Nat
      BY <1>h DEF ReactionsTyped, ToSet
    <2>. QED BY <1>h, <2>1, <2>2 DEF ReactionsTyped
  <1>4. reader' = reader => ReaderTyped'
    BY <1>h, <1>1 DEF ReaderTyped
  <1>5. spaces' = spaces /\ order' = order => SpacesTyped'
    BY <1>h, <1>0 DEF SpacesTyped
  <1>6. threads' = threads /\ threadKeys' = threadKeys /\ roots' = roots => ThreadsKnown'
    BY <1>h, <1>1 DEF ThreadsKnown
  <1>. QED BY <1>2, <1>3, <1>4, <1>5, <1>6

\* A request that only reads, or is refused.
LEMMA ReadingStep ==
  ASSUME ChatInv, UNCHANGED chatState,
         \/ reader' = reader
         \/ \E m \in DOMAIN messages : reader' = [name |-> m, time |-> Version(m), text |-> messages[m].text]
  PROVE  ChatInv'
PROOF
  <1>. USE DEF ChatInv, chatState
  <1>1. ThreadsKnown' /\ OrderAgrees' /\ ThreadsRooted' /\ ReactionsApart' /\ QuotesHold'
    BY DEF ThreadsKnown, OrderAgrees, ThreadsRooted, ReactionsApart, QuotesHold
  <1>0. SpacesTyped' /\ MessagesTyped' /\ ReactionsTyped'
    BY DEF ChatTypeOK, SpacesTyped, MessagesTyped, ReactionsTyped
  <1>2. CASE reader' = reader
    <2>1. ReaderTyped'
      BY <1>2 DEF ChatTypeOK, ReaderTyped
    <2>2. ReaderKnows'
      BY <1>2 DEF ReaderKnows, Version
    <2>. QED BY <1>0, <1>1, <2>1, <2>2 DEF ChatTypeOK
  <1>3. ASSUME NEW m \in DOMAIN messages, reader' = [name |-> m, time |-> Version(m), text |-> messages[m].text]
        PROVE  ChatInv'
    <2>0. m \in 1 .. counter /\ Version(m) \in 0 .. clock /\ messages[m].text \in ChatTexts
      BY VersionType DEF ChatTypeOK, MessagesTyped
    <2>1. reader' \in [name : 1 .. counter, time : 0 .. clock, text : ChatTexts]
      BY <1>3, <2>0
    <2>2. ReaderTyped'
      BY <2>1 DEF ReaderTyped
    <2>3. ReaderKnows'
      BY <1>3 DEF ReaderKnows, Version
    <2>. QED BY <1>0, <1>1, <2>2, <2>3 DEF ChatTypeOK
  <1>. QED BY <1>2, <1>3

\* create_space: a new space has no messages.
LEMMA CreateSpaceStep ==
  ASSUME ChatInv, NEW type, CreateSpace(type)
  PROVE  ChatInv'
PROOF
  <1>h. /\ SpacesTyped /\ MessagesTyped /\ ThreadsKnown /\ OrderAgrees /\ ThreadsRooted /\ ReactionsApart
        /\ ReaderKnows /\ QuotesHold
    BY DEF ChatInv, ChatTypeOK
  <1>0. /\ clock \in Nat /\ clock' = clock + 1 /\ counter \in Nat /\ counter' = counter + 1
        /\ UNCHANGED <<messages, threads, threadKeys, roots, reactions, uploads, reader>>
    BY <1>h DEF CreateSpace, Tick, SpacesTyped
  <1>1. DOMAIN spaces' = DOMAIN spaces \cup {counter + 1}
    BY <1>0, WithAt DEF CreateSpace
  <1>2. /\ DOMAIN order' = DOMAIN order \cup {counter + 1}
        /\ order'[counter + 1] = <<>>
        /\ \A s \in DOMAIN order : s # counter + 1 => order'[s] = order[s]
    <2>1. order' = With(order, counter + 1, <<>>)
      BY <1>0 DEF CreateSpace
    <2>. QED BY <2>1 DEF With
  <1>3. \A s \in DOMAIN spaces : s # counter + 1 /\ s \in Nat /\ s =< counter + 1 /\ order'[s] = order[s]
    BY <1>h, <1>0, <1>2 DEF SpacesTyped
  <1>4. SpacesTyped'
    <2>1. <<>> \in Seq(Nat) OBVIOUS
    <2>2. ASSUME NEW s \in DOMAIN spaces' PROVE s =< counter' /\ order'[s] \in Seq(Nat)
      <3>1. CASE s = counter + 1
        <4>1. order'[s] = <<>>
          BY <1>2, <3>1
        <4>2. s =< counter'
          BY <1>0, <3>1
        <4>. QED BY <2>1, <4>1, <4>2
      <3>2. CASE s \in DOMAIN spaces
        <4>1. order[s] \in Seq(Nat)
          BY <1>h, <3>2 DEF SpacesTyped
        <4>2. order'[s] = order[s] /\ s =< counter'
          BY <1>0, <1>3, <3>2
        <4>. QED BY <4>1, <4>2
      <3>. QED BY <1>1, <3>1, <3>2
    <2>. QED BY <1>h, <1>0, <1>1, <1>2, <1>3, <2>2 DEF SpacesTyped
  <1>5. MessagesTyped' /\ ReactionsTyped' /\ ReaderTyped' /\ ThreadsKnown'
    BY <1>0, <1>1, Growth
  <1>6. OrderAgrees'
    <2>1. \A m \in DOMAIN messages : messages[m].space # counter + 1
      BY <1>h, <1>3 DEF MessagesTyped
    <2>2. ToSet(order'[counter + 1]) = {} /\ Ascending(order'[counter + 1])
      BY <1>2 DEF ToSet, Ascending
    <2>. QED BY <1>h, <1>0, <1>1, <1>3, <2>1, <2>2 DEF OrderAgrees
  <1>7. ThreadsRooted' /\ ReactionsApart' /\ ReaderKnows' /\ QuotesHold'
    BY <1>h, <1>0 DEF ThreadsRooted, ReactionsApart, ReaderKnows, QuotesHold, Version
  <1>. QED BY <1>4, <1>5, <1>6, <1>7 DEF ChatInv, ChatTypeOK

\* An upload takes an id and changes nothing else.
LEMMA UploadStep ==
  ASSUME ChatInv, NEW space, StoreUpload(space)
  PROVE  ChatInv'
PROOF
  <1>h. /\ SpacesTyped /\ OrderAgrees /\ ThreadsRooted /\ ReactionsApart /\ ReaderKnows /\ QuotesHold
    BY DEF ChatInv, ChatTypeOK
  <1>1. /\ clock \in Nat /\ clock' = clock + 1 /\ counter \in Nat /\ counter' = counter + 1
        /\ UNCHANGED <<spaces, order, messages, threads, threadKeys, roots, reactions, reader>>
    BY <1>h DEF StoreUpload, Tick, SpacesTyped
  <1>2. ChatTypeOK' /\ ThreadsKnown'
    BY <1>1, Growth DEF ChatTypeOK
  <1>3. OrderAgrees' /\ ThreadsRooted' /\ ReactionsApart' /\ ReaderKnows' /\ QuotesHold'
    BY <1>h, <1>1 DEF OrderAgrees, ThreadsRooted, ReactionsApart, ReaderKnows, QuotesHold, Version
  <1>. QED BY <1>2, <1>3 DEF ChatInv

\* create_reaction: a fresh id at the end of the message's list.
LEMMA AddReactionStep ==
  ASSUME ChatInv, NEW m \in DOMAIN messages, AddReaction(m)
  PROVE  ChatInv'
PROOF
  <1>h. /\ SpacesTyped /\ ReactionsTyped /\ OrderAgrees /\ ThreadsRooted /\ ReactionsApart /\ ReaderKnows /\ QuotesHold
    BY DEF ChatInv, ChatTypeOK
  <1>1. /\ clock \in Nat /\ clock' = clock + 1 /\ counter \in Nat /\ counter' = counter + 1
        /\ UNCHANGED <<spaces, order, messages, threads, threadKeys, roots, reader>>
        /\ reactions' = With(reactions, m, Append(Reactions(m), counter + 1))
    BY <1>h DEF AddReaction, Tick, SpacesTyped
  <1>2. SpacesTyped' /\ MessagesTyped' /\ ReaderTyped' /\ ThreadsKnown'
    BY <1>1, Growth
  <1>3. /\ DOMAIN reactions' = DOMAIN reactions \cup {m}
        /\ reactions'[m] = Append(Reactions(m), counter + 1)
        /\ \A n \in DOMAIN reactions : n # m => reactions'[n] = reactions[n]
    BY <1>1 DEF With
  <1>4. /\ Reactions(m) \in Seq(Nat) /\ Ascending(Reactions(m))
        /\ \A r \in ToSet(Reactions(m)) : r =< counter
    <2>1. CASE m \in DOMAIN reactions
      BY <1>h, <2>1 DEF ReactionsTyped, Reactions
    <2>2. CASE m \notin DOMAIN reactions
      <3>1. <<>> \in Seq(Nat) OBVIOUS
      <3>. QED BY <2>2, <3>1 DEF Reactions, Ascending, ToSet
    <2>. QED BY <2>1, <2>2
  <1>5. \A r \in ToSet(Reactions(m)) : r \in Nat
    BY <1>4 DEF ToSet
  <1>6. /\ reactions'[m] \in Seq(Nat) /\ Ascending(reactions'[m])
        /\ ToSet(reactions'[m]) = ToSet(Reactions(m)) \cup {counter + 1}
    <2>1. \A r \in ToSet(Reactions(m)) : r < counter + 1
      BY <1>1, <1>4, <1>5
    <2>2. /\ Append(Reactions(m), counter + 1) \in Seq(Nat) /\ Ascending(Append(Reactions(m), counter + 1))
          /\ ToSet(Append(Reactions(m), counter + 1)) = ToSet(Reactions(m)) \cup {counter + 1}
      <3>1. counter + 1 \in Nat /\ Nat \subseteq Nat
        BY <1>1
      <3>. HIDE DEF Reactions
      <3>. QED BY <1>4, <2>1, <3>1, AppendAscending
    <2>. QED BY <1>3, <2>2
  <1>7. \A n \in DOMAIN reactions : \A r \in ToSet(reactions[n]) : r =< counter /\ r \in Nat
    BY <1>h DEF ReactionsTyped, ToSet
  <1>8. ReactionsTyped'
    <2>. SUFFICES ASSUME NEW n \in DOMAIN reactions'
         PROVE  /\ reactions'[n] \in Seq(Nat) /\ Ascending(reactions'[n])
                /\ \A r \in ToSet(reactions'[n]) : r =< counter + 1
      BY <1>1 DEF ReactionsTyped
    <2>1. CASE n = m
      BY <1>1, <1>4, <1>5, <1>6, <2>1
    <2>2. CASE n # m /\ n \in DOMAIN reactions
      BY <1>h, <1>1, <1>3, <1>7, <2>2 DEF ReactionsTyped
    <2>. QED BY <1>3, <2>1, <2>2
  <1>9. ReactionsApart'
    <2>1. DOMAIN reactions' \subseteq DOMAIN messages'
      BY <1>h, <1>1, <1>3 DEF ReactionsApart
    <2>2. \A n \in DOMAIN reactions : n # m => ToSet(reactions'[n]) = ToSet(reactions[n])
      BY <1>3
    <2>3. \A n \in DOMAIN reactions : n # m => ToSet(reactions[n]) \cap ToSet(Reactions(m)) = {}
      BY <1>h DEF ReactionsApart, Reactions, ToSet
    <2>4. \A n \in DOMAIN reactions : counter + 1 \notin ToSet(reactions[n])
      BY <1>1, <1>7
    <2>5. \A n \in DOMAIN reactions : n # m => ToSet(reactions'[n]) \cap ToSet(reactions'[m]) = {}
      BY <1>6, <2>2, <2>3, <2>4
    <2>6. ASSUME NEW n \in DOMAIN reactions', NEW o \in DOMAIN reactions', n # o
          PROVE  ToSet(reactions'[n]) \cap ToSet(reactions'[o]) = {}
      <3>1. CASE n = m
        BY <1>3, <2>5, <2>6, <3>1
      <3>2. CASE o = m
        BY <1>3, <2>5, <2>6, <3>2
      <3>3. CASE n # m /\ o # m
        BY <1>h, <1>3, <2>2, <2>6, <3>3 DEF ReactionsApart
      <3>. QED BY <3>1, <3>2, <3>3
    <2>. QED BY <2>1, <2>6 DEF ReactionsApart
  <1>10. OrderAgrees' /\ ThreadsRooted' /\ ReaderKnows' /\ QuotesHold'
    BY <1>h, <1>1 DEF OrderAgrees, ThreadsRooted, ReaderKnows, QuotesHold, Version
  <1>. QED BY <1>2, <1>8, <1>9, <1>10 DEF ChatInv, ChatTypeOK

\* delete_reaction: the reaction leaves the one list it is in.
LEMMA PopReactionStep ==
  ASSUME ChatInv, NEW m, NEW r, Contains(Reactions(m), r), PopReaction(m, r)
  PROVE  ChatInv'
PROOF
  <1>h. /\ SpacesTyped /\ ReactionsTyped /\ OrderAgrees /\ ThreadsRooted /\ ReactionsApart /\ ReaderKnows /\ QuotesHold
    BY DEF ChatInv, ChatTypeOK
  <1>1. /\ clock \in Nat /\ clock' = clock + 1 /\ counter \in Nat /\ counter' = counter
        /\ UNCHANGED <<spaces, order, messages, threads, threadKeys, roots, reader>>
        /\ reactions' = [reactions EXCEPT ![m] = RemoveFirst(@, r)]
    BY <1>h DEF PopReaction, Tick, SpacesTyped
  <1>2. SpacesTyped' /\ MessagesTyped' /\ ReaderTyped' /\ ThreadsKnown'
    BY <1>1, Growth
  <1>3. m \in DOMAIN reactions /\ r \in ToSet(reactions[m])
    <2>1. m \in DOMAIN reactions
      BY DEF Contains, Reactions
    <2>2. reactions[m] \in Seq(Nat)
      BY <1>h, <2>1 DEF ReactionsTyped
    <2>. QED BY <2>1, <2>2 DEF Contains, Reactions, ToSet
  <1>4. /\ reactions'[m] \in Seq(Nat) /\ Ascending(reactions'[m])
        /\ ToSet(reactions'[m]) = ToSet(reactions[m]) \ {r}
    <2>1. reactions[m] \in Seq(Nat) /\ Ascending(reactions[m])
      BY <1>h, <1>3 DEF ReactionsTyped
    <2>2. reactions'[m] = RemoveFirst(reactions[m], r)
      BY <1>1, <1>3
    <2>. QED BY <1>3, <2>1, <2>2, RemoveAscending
  <1>5. DOMAIN reactions' = DOMAIN reactions /\ \A n \in DOMAIN reactions : n # m => reactions'[n] = reactions[n]
    BY <1>1
  <1>6. ReactionsTyped'
    BY <1>h, <1>1, <1>3, <1>4, <1>5 DEF ReactionsTyped
  <1>7. ReactionsApart'
    BY <1>h, <1>1, <1>3, <1>4, <1>5 DEF ReactionsApart
  <1>8. OrderAgrees' /\ ThreadsRooted' /\ ReaderKnows' /\ QuotesHold'
    BY <1>h, <1>1 DEF OrderAgrees, ThreadsRooted, ReaderKnows, QuotesHold, Version
  <1>. QED BY <1>2, <1>6, <1>7, <1>8 DEF ChatInv, ChatTypeOK

\* _resolve_thread gives a thread that exists, none, or a fresh one for a key
\* that has none.
LEMMA ResolvedThread ==
  ASSUME ChatInv, NEW space \in DOMAIN spaces, NEW req, ResolveThread(space, req) # <<"missing">>
  PROVE  /\ ~Binds(space, req) => ResolveThread(space, req) \in threads \cup {NoOne}
         /\ Binds(space, req) => /\ ResolveThread(space, req) = <<space, counter + 1>>
                                 /\ <<space, req.key>> \notin DOMAIN threadKeys
PROOF
  <1>h. SpacesTyped /\ ThreadsKnown
    BY DEF ChatInv, ChatTypeOK
  <1>. DEFINE key == <<space, req.key>>
              fresh == <<space, counter + 1>>
              t == ResolveThread(space, req)
  <1>1. counter \in Nat /\ space \in Nat
    BY <1>h DEF SpacesTyped
  <1>2. fresh \notin threads
    <2>1. counter + 1 \notin 0 .. counter
      BY <1>1
    <2>2. \A x \in threads : x[2] \in 0 .. counter
      BY <1>h DEF ThreadsKnown
    <2>3. fresh[2] = counter + 1 OBVIOUS
    <2>. QED BY <2>1, <2>2, <2>3
  <1>3. fresh # NoOne
    <2>1. fresh \in Nat \X Nat
      BY <1>1
    <2>. QED BY <2>1, ChatAssumption DEF ChatAssumption
  <1>4. key \in DOMAIN threadKeys => threadKeys[key] \in threads
    BY <1>h DEF ThreadsKnown
  <1>5. t \in threads \cup {NoOne} \/ (t = fresh /\ key \notin DOMAIN threadKeys)
    BY <1>4 DEF ResolveThread
  <1>6. Binds(space, req) <=> t = fresh
    BY DEF Binds
  <1>. HIDE DEF t, fresh, key
  <1>7. (~Binds(space, req) => t \in threads \cup {NoOne})
        /\ (Binds(space, req) => t = fresh /\ key \notin DOMAIN threadKeys)
    BY <1>2, <1>3, <1>5, <1>6
  <1>. QED BY <1>7 DEF t, fresh, key

\* A thread key that gets a fresh thread is bound to it for good, and keys
\* bound before keep theirs.
LEMMA BoundStep ==
  ASSUME ChatInv, NEW space \in DOMAIN spaces, NEW req, ResolveThread(space, req) # <<"missing">>,
         Bound(space, req), counter' \in Nat, counter =< counter',
         Binds(space, req) => counter + 1 =< counter'
  PROVE  /\ threads \subseteq threads' /\ threads' \subseteq Nat \X (0 .. counter')
         /\ \A k \in DOMAIN threadKeys' : threadKeys'[k] \in threads'
         /\ ResolveThread(space, req) \in threads' \cup {NoOne}
         /\ \A k \in DOMAIN threadKeys : k \in DOMAIN threadKeys' /\ threadKeys'[k] = threadKeys[k]
PROOF
  <1>h. SpacesTyped /\ ThreadsKnown
    BY DEF ChatInv, ChatTypeOK
  <1>0. counter \in Nat /\ space \in Nat
    BY <1>h DEF SpacesTyped
  <1>1. threads \subseteq Nat \X (0 .. counter')
    <2>1. 0 .. counter \subseteq 0 .. counter'
      BY <1>0
    <2>. QED BY <1>h, <2>1 DEF ThreadsKnown
  <1>2. CASE ~Binds(space, req)
    <2>1. threads' = threads /\ threadKeys' = threadKeys
      BY <1>2 DEF Bound
    <2>. QED BY <1>h, <1>1, <1>2, <2>1, ResolvedThread DEF ThreadsKnown
  <1>3. CASE Binds(space, req)
    <2>. DEFINE key == <<space, req.key>>
                fresh == <<space, counter + 1>>
    <2>1. /\ threads' = threads \cup {fresh} /\ threadKeys' = With(threadKeys, key, fresh)
      BY <1>3 DEF Bound
    <2>2. fresh \in Nat \X (0 .. counter')
      BY <1>0, <1>3
    <2>3. key \notin DOMAIN threadKeys /\ ResolveThread(space, req) = fresh
      BY <1>3, ResolvedThread
    <2>. HIDE DEF key, fresh
    <2>4. /\ DOMAIN threadKeys' = DOMAIN threadKeys \cup {key} /\ threadKeys'[key] = fresh
          /\ \A k \in DOMAIN threadKeys : threadKeys'[k] = threadKeys[k]
      BY <2>1, <2>3 DEF With
    <2>. QED BY <1>h, <1>1, <2>1, <2>2, <2>3, <2>4 DEF ThreadsKnown
  <1>. QED BY <1>2, <1>3

\* A create whose quote or attachment is refused after its thread was
\* resolved: a key it bound stays bound.
LEMMA RefusedStep ==
  ASSUME ChatInv, NEW space \in DOMAIN spaces, NEW req, ResolveThread(space, req) # <<"missing">>,
         Bound(space, req), counter' = IF Binds(space, req) THEN counter + 1 ELSE counter,
         UNCHANGED <<spaces, messages, order, roots, reactions, clock, reader>>
  PROVE  ChatInv'
PROOF
  <1>h. SpacesTyped /\ ThreadsKnown /\ OrderAgrees /\ ThreadsRooted /\ ReactionsApart /\ ReaderKnows /\ QuotesHold
    BY DEF ChatInv, ChatTypeOK
  <1>0. counter \in Nat /\ clock \in Nat
    BY <1>h DEF SpacesTyped
  <1>1. counter' \in Nat /\ counter =< counter' /\ (Binds(space, req) => counter + 1 =< counter')
    BY <1>0
  <1>2. ChatTypeOK'
    BY <1>0, <1>1, Growth DEF ChatTypeOK
  <1>3. ThreadsKnown'
    <2>1. \A t \in DOMAIN roots : t \in threads /\ roots[t] \in 0 .. counter'
      BY <1>h, <1>0, <1>1 DEF ThreadsKnown
    <2>. QED BY <1>1, <2>1, BoundStep DEF ThreadsKnown
  <1>4. OrderAgrees' /\ ThreadsRooted' /\ ReactionsApart' /\ ReaderKnows' /\ QuotesHold'
    BY <1>h DEF OrderAgrees, ThreadsRooted, ReactionsApart, ReaderKnows, QuotesHold, Version
  <1>. QED BY <1>2, <1>3, <1>4 DEF ChatInv

\* update_message: a new text comes with a new update time, so a reader of
\* the old text has an old version.
LEMMA SetTextStep ==
  ASSUME ChatInv, NEW m \in DOMAIN messages, NEW text \in ChatTexts, SetText(m, text)
  PROVE  ChatInv'
PROOF
  <1>h. /\ SpacesTyped /\ MessagesTyped /\ ReaderTyped /\ OrderAgrees /\ ThreadsRooted /\ ReactionsApart
        /\ ReaderKnows /\ QuotesHold
    BY DEF ChatInv, ChatTypeOK
  <1>1. /\ clock \in Nat /\ clock' = clock + 1 /\ counter \in Nat
        /\ UNCHANGED <<spaces, order, threads, threadKeys, roots, reactions, counter, reader>>
        /\ messages' = [messages EXCEPT ![m].text = text, ![m].updated = clock']
    BY <1>h DEF SetText, Tick, SpacesTyped
  <1>2. messages[m] \in [space : DOMAIN spaces, thread : Nat \X Nat, text : ChatTexts, created : 0 .. clock,
                         updated : 0 .. clock, quoted : Quotes \cup {NoOne}]
    BY <1>h DEF MessagesTyped
  <1>3. messages' = [messages EXCEPT ![m] = [messages[m] EXCEPT !.text = text, !.updated = clock + 1]]
    BY <1>1, <1>2
  <1>4. /\ DOMAIN messages' = DOMAIN messages
        /\ messages'[m] = [messages[m] EXCEPT !.text = text, !.updated = clock + 1]
        /\ \A n \in DOMAIN messages : n # m => messages'[n] = messages[n]
    BY <1>3
  <1>5. /\ messages'[m].space = messages[m].space /\ messages'[m].thread = messages[m].thread
        /\ messages'[m].quoted = messages[m].quoted /\ messages'[m].updated = clock + 1
        /\ messages'[m].text = text
    BY <1>2, <1>4
  <1>6. \A n \in DOMAIN messages : /\ messages'[n].space = messages[n].space
                                   /\ messages'[n].thread = messages[n].thread
                                   /\ messages'[n].quoted = messages[n].quoted
    BY <1>4, <1>5
  <1>7. SpacesTyped' /\ ReactionsTyped' /\ ReaderTyped' /\ ThreadsKnown'
    BY <1>1, Growth
  <1>8. MessagesTyped'
    <2>1. 0 .. clock \subseteq 0 .. clock' /\ clock + 1 \in 0 .. clock'
      BY <1>1
    <2>2. messages'[m] \in [space : DOMAIN spaces, thread : Nat \X Nat, text : ChatTexts, created : 0 .. clock',
                            updated : 0 .. clock', quoted : Quotes \cup {NoOne}]
      BY <1>2, <1>4, <2>1
    <2>3. \A n \in DOMAIN messages : n # m =>
            messages'[n] \in [space : DOMAIN spaces, thread : Nat \X Nat, text : ChatTexts, created : 0 .. clock',
                              updated : 0 .. clock', quoted : Quotes \cup {NoOne}]
      BY <1>h, <1>4, <2>1 DEF MessagesTyped
    <2>4. \A n \in DOMAIN messages : n \in 1 .. counter'
      BY <1>h, <1>1 DEF MessagesTyped
    <2>. QED BY <1>1, <1>4, <2>2, <2>3, <2>4 DEF MessagesTyped
  <1>9. OrderAgrees'
    <2>1. \A s \in DOMAIN spaces :
            {n \in DOMAIN messages' : messages'[n].space = s} = {n \in DOMAIN messages : messages[n].space = s}
      BY <1>4, <1>6
    <2>. QED BY <1>h, <1>1, <2>1 DEF OrderAgrees
  <1>10. ThreadsRooted'
    BY <1>h, <1>1, <1>4, <1>6 DEF ThreadsRooted
  <1>11. ReactionsApart'
    BY <1>h, <1>1, <1>4 DEF ReactionsApart
  <1>12. QuotesHold'
    BY <1>h, <1>1, <1>4, <1>6 DEF QuotesHold
  <1>13. ReaderKnows'
    <2>. SUFFICES ASSUME reader # NoOne, reader.name \in DOMAIN messages,
                         reader.time = IF messages'[reader.name].updated = 0 THEN messages'[reader.name].created
                                       ELSE messages'[reader.name].updated
         PROVE  reader.text = messages'[reader.name].text
      BY <1>1, <1>4 DEF ReaderKnows, Version
    <2>1. reader.time \in 0 .. clock
      BY <1>h DEF ReaderTyped
    <2>2. CASE reader.name = m
      <3>1. reader.time = clock + 1
        BY <1>1, <1>5, <2>2
      <3>. QED BY <1>1, <2>1, <3>1
    <2>3. CASE reader.name # m
      BY <1>h, <1>4, <2>3 DEF ReaderKnows, Version
    <2>. QED BY <2>2, <2>3
  <1>. QED BY <1>7, <1>8, <1>9, <1>10, <1>11, <1>12, <1>13 DEF ChatInv, ChatTypeOK

\* delete_message: the message, its place in the order and its reactions go;
\* its thread keeps its root.
LEMMA PopMessageStep ==
  ASSUME ChatInv, NEW m \in DOMAIN messages, PopMessage(m)
  PROVE  ChatInv'
PROOF
  <1>h. /\ SpacesTyped /\ MessagesTyped /\ ReactionsTyped /\ ReaderTyped /\ OrderAgrees /\ ThreadsRooted
        /\ ReactionsApart /\ ReaderKnows /\ QuotesHold
    BY DEF ChatInv, ChatTypeOK
  <1>. DEFINE s0 == messages[m].space
  <1>1. /\ clock \in Nat /\ clock' = clock + 1 /\ counter \in Nat
        /\ UNCHANGED <<spaces, threads, threadKeys, roots, counter, reader>>
        /\ messages' = Drop(messages, m) /\ reactions' = Drop(reactions, m)
        /\ order' = [order EXCEPT ![s0] = RemoveFirst(@, m)]
    BY <1>h DEF PopMessage, Tick, SpacesTyped
  <1>2. /\ DOMAIN messages' = DOMAIN messages \ {m}
        /\ \A n \in DOMAIN messages : n # m => messages'[n] = messages[n]
    BY <1>1 DEF Drop
  <1>3. /\ DOMAIN reactions' = DOMAIN reactions \ {m}
        /\ \A n \in DOMAIN reactions : n # m => reactions'[n] = reactions[n]
    BY <1>1 DEF Drop
  <1>4. s0 \in DOMAIN spaces /\ DOMAIN order = DOMAIN spaces /\ m \in ToSet(order[s0])
    <2>1. s0 \in DOMAIN spaces
      BY <1>h DEF MessagesTyped
    <2>. QED BY <1>h, <2>1 DEF OrderAgrees, SpacesTyped
  <1>. HIDE DEF s0
  <1>5. /\ DOMAIN order' = DOMAIN order /\ order'[s0] = RemoveFirst(order[s0], m)
        /\ \A s \in DOMAIN order : s # s0 => order'[s] = order[s]
    BY <1>1, <1>4
  <1>6. /\ order'[s0] \in Seq(Nat) /\ Ascending(order'[s0]) /\ ToSet(order'[s0]) = ToSet(order[s0]) \ {m}
    <2>1. order[s0] \in Seq(Nat) /\ Ascending(order[s0])
      BY <1>h, <1>4 DEF SpacesTyped, OrderAgrees
    <2>. QED BY <1>4, <1>5, <2>1, RemoveAscending
  <1>7. ReaderTyped' /\ ThreadsKnown'
    BY <1>1, Growth
  <1>8. SpacesTyped'
    BY <1>h, <1>1, <1>4, <1>5, <1>6 DEF SpacesTyped
  <1>9. MessagesTyped'
    <2>1. 0 .. clock \subseteq 0 .. clock'
      BY <1>1
    <2>2. \A n \in DOMAIN messages' :
            messages'[n] \in [space : DOMAIN spaces, thread : Nat \X Nat, text : ChatTexts, created : 0 .. clock',
                              updated : 0 .. clock', quoted : Quotes \cup {NoOne}]
      BY <1>h, <1>2, <2>1 DEF MessagesTyped
    <2>3. \A n \in DOMAIN messages' : n \in 1 .. counter'
      BY <1>h, <1>1, <1>2 DEF MessagesTyped
    <2>. QED BY <1>1, <2>2, <2>3 DEF MessagesTyped
  <1>10. ReactionsTyped'
    BY <1>h, <1>1, <1>3 DEF ReactionsTyped
  <1>11. OrderAgrees'
    <2>. SUFFICES ASSUME NEW s \in DOMAIN spaces
         PROVE  /\ ToSet(order'[s]) = {n \in DOMAIN messages' : messages'[n].space = s}
                /\ Ascending(order'[s])
      BY <1>1 DEF OrderAgrees
    <2>0. ToSet(order[s]) = {n \in DOMAIN messages : messages[n].space = s} /\ Ascending(order[s])
      BY <1>h DEF OrderAgrees
    <2>1. {n \in DOMAIN messages' : messages'[n].space = s} = {n \in DOMAIN messages : messages[n].space = s} \ {m}
      BY <1>2
    <2>2. CASE s = s0
      BY <1>6, <2>0, <2>1, <2>2
    <2>3. CASE s # s0
      <3>1. m \notin ToSet(order[s])
        BY <2>0, <2>3 DEF s0
      <3>2. order'[s] = order[s]
        BY <1>4, <1>5, <2>3
      <3>. QED BY <2>0, <2>1, <3>1, <3>2
    <2>. QED BY <2>2, <2>3
  <1>12. ThreadsRooted'
    BY <1>h, <1>1, <1>2 DEF ThreadsRooted
  <1>13. ReactionsApart'
    <2>1. DOMAIN reactions' \subseteq DOMAIN messages'
      BY <1>h, <1>2, <1>3 DEF ReactionsApart
    <2>2. \A n, o \in DOMAIN reactions' : n # o => ToSet(reactions'[n]) \cap ToSet(reactions'[o]) = {}
      BY <1>h, <1>3 DEF ReactionsApart
    <2>. QED BY <2>1, <2>2 DEF ReactionsApart
  <1>14. QuotesHold'
    BY <1>h, <1>1, <1>2 DEF QuotesHold
  <1>15. ReaderKnows'
    BY <1>h, <1>1, <1>2 DEF ReaderKnows, Version
  <1>. QED BY <1>7, <1>8, <1>9, <1>10, <1>11, <1>12, <1>13, <1>14, <1>15 DEF ChatInv, ChatTypeOK

\* A message is inserted: the youngest of its space, the root of its thread
\* if it has no other, and with the quote that was checked against the
\* version it names.
LEMMA InsertStep ==
  ASSUME ChatInv, NEW space \in DOMAIN spaces, NEW req, NEW thread, NEW last,
         last \in {counter, counter + 1}, Insert(space, req, thread, last),
         thread # NoOne => /\ threads \subseteq threads' /\ threads' \subseteq Nat \X (0 .. counter')
                           /\ \A k \in DOMAIN threadKeys' : threadKeys'[k] \in threads'
                           /\ thread \in threads',
         clock' = clock + 1, UNCHANGED <<spaces, reactions, reader>>,
         req.text \in ChatTexts, req.quote \in {NoOne, reader},
         req.quote # NoOne => QuoteAccepted(req.quote, thread)
  PROVE  ChatInv'
PROOF
  <1>h. /\ SpacesTyped /\ MessagesTyped /\ ReactionsTyped /\ ReaderTyped /\ OrderAgrees /\ ThreadsRooted
        /\ ReactionsApart /\ ReaderKnows /\ QuotesHold /\ ThreadsKnown
    BY DEF ChatInv, ChatTypeOK
  <1>0. /\ counter \in Nat /\ clock \in Nat /\ space \in Nat /\ last \in Nat /\ DOMAIN order = DOMAIN spaces
    BY <1>h DEF SpacesTyped
  <1>. DEFINE own == IF thread = NoOne THEN <<space, last + 1>> ELSE thread
              id == IF thread = NoOne THEN last + 2 ELSE last + 1
              quoted == IF req.quote = NoOne THEN NoOne
                        ELSE [name |-> req.quote.name, thread |-> messages[req.quote.name].thread,
                              text |-> messages[req.quote.name].text, asRead |-> req.quote.text]
              new == [space |-> space, thread |-> own, text |-> req.text, created |-> clock',
                      updated |-> 0, quoted |-> quoted]
  <1>1. /\ counter' = id /\ messages' = With(messages, id, new)
        /\ order' = [order EXCEPT ![space] = Append(@, id)]
        /\ roots' = IF own \in DOMAIN roots THEN roots ELSE With(roots, own, id)
        /\ thread = NoOne => threads' = threads \cup {own} /\ threadKeys' = threadKeys
    BY DEF Insert
  <1>2. id \in Nat /\ counter < id /\ counter' \in Nat /\ counter =< counter' /\ 1 =< id
    BY <1>0, <1>1
  <1>3. \A n \in DOMAIN messages : n # id /\ n \in Nat /\ n < id
    BY <1>h, <1>0, <1>2 DEF MessagesTyped
  <1>4. /\ DOMAIN messages' = DOMAIN messages \cup {id} /\ messages'[id] = new
        /\ \A n \in DOMAIN messages : messages'[n] = messages[n]
    <2>. HIDE DEF id, new
    <2>. QED BY <1>1, <1>3 DEF With
  <1>5. SpacesTyped' /\ ReactionsTyped' /\ ReaderTyped'
    <2>1. ReactionsTyped' /\ ReaderTyped'
      BY <1>0, <1>2, Growth
    <2>2. \A s \in DOMAIN spaces : order'[s] \in Seq(Nat)
      <3>1. order[space] \in Seq(Nat)
        BY <1>h DEF SpacesTyped
      <3>2. Append(order[space], id) \in Seq(Nat)
        BY <1>2, <3>1
      <3>. HIDE DEF id
      <3>. QED BY <1>h, <1>0, <1>1, <3>2 DEF SpacesTyped
    <2>3. \A s \in DOMAIN spaces : s =< counter'
      BY <1>h, <1>0, <1>2 DEF SpacesTyped
    <2>4. DOMAIN order' = DOMAIN order
      BY <1>1
    <2>. QED BY <1>h, <1>0, <1>2, <2>1, <2>2, <2>3, <2>4 DEF SpacesTyped
  <1>6. /\ threads \subseteq threads' /\ threads' \subseteq Nat \X (0 .. counter') /\ own \in threads'
        /\ \A k \in DOMAIN threadKeys' : threadKeys'[k] \in threads'
    <2>1. CASE thread # NoOne
      BY <2>1
    <2>2. CASE thread = NoOne
      <3>1. own = <<space, last + 1>> /\ threads' = threads \cup {own} /\ threadKeys' = threadKeys
        BY <1>1, <2>2
      <3>2. own \in Nat \X (0 .. counter')
        BY <1>0, <1>1, <2>2, <3>1
      <3>3. 0 .. counter \subseteq 0 .. counter'
        BY <1>0, <1>2
      <3>. HIDE DEF own
      <3>. QED BY <1>h, <3>1, <3>2, <3>3 DEF ThreadsKnown
    <2>. QED BY <2>1, <2>2
  <1>7. own \in Nat \X Nat
    <2>1. 0 .. counter' \subseteq Nat
      BY <1>2
    <2>. HIDE DEF own
    <2>. QED BY <1>6, <2>1
  <1>8. /\ own \in DOMAIN roots' /\ roots'[own] \in 0 .. id
        /\ \A t \in DOMAIN roots : t \in DOMAIN roots' /\ roots'[t] = roots[t]
        /\ \A t \in DOMAIN roots' : t = own \/ t \in DOMAIN roots
    <2>1. CASE own \in DOMAIN roots
      <3>1. roots' = roots /\ roots[own] \in 0 .. counter
        BY <1>h, <1>1, <2>1 DEF ThreadsKnown
      <3>2. 0 .. counter \subseteq 0 .. id
        BY <1>0, <1>2
      <3>. HIDE DEF own, id
      <3>. QED BY <2>1, <3>1, <3>2
    <2>2. CASE own \notin DOMAIN roots
      <3>1. roots' = With(roots, own, id)
        BY <1>1, <2>2
      <3>2. id \in 0 .. id
        BY <1>2
      <3>. HIDE DEF own, id
      <3>. QED BY <2>2, <3>1, <3>2 DEF With
    <2>. QED BY <2>1, <2>2
  <1>9. ThreadsKnown'
    <2>1. 0 .. counter \subseteq 0 .. counter' /\ 0 .. id = 0 .. counter'
      BY <1>0, <1>1, <1>2
    <2>. HIDE DEF own, id
    <2>2. ASSUME NEW t \in DOMAIN roots' PROVE t \in threads' /\ roots'[t] \in 0 .. counter'
      <3>1. CASE t = own
        BY <1>6, <1>8, <2>1, <3>1
      <3>2. CASE t \in DOMAIN roots
        BY <1>h, <1>6, <1>8, <2>1, <3>2 DEF ThreadsKnown
      <3>. QED BY <1>8, <3>1, <3>2
    <2>. QED BY <1>6, <2>2 DEF ThreadsKnown
  <1>10. quoted # NoOne => /\ quoted \in Quotes /\ quoted.text = quoted.asRead
                           /\ quoted.thread \in DOMAIN roots
                           /\ quoted.thread = own \/ roots[quoted.thread] = quoted.name
    <2>. SUFFICES ASSUME req.quote # NoOne
         PROVE  /\ quoted \in Quotes /\ quoted.text = quoted.asRead
                /\ quoted.thread \in DOMAIN roots
                /\ quoted.thread = own \/ roots[quoted.thread] = quoted.name
      OBVIOUS
    <2>1. req.quote = reader /\ reader # NoOne /\ QuoteAccepted(reader, thread) OBVIOUS
    <2>2. /\ reader.name \in DOMAIN messages /\ reader.time = Version(reader.name)
          /\ messages[reader.name].thread = thread \/ roots[messages[reader.name].thread] = reader.name
      BY <2>1 DEF QuoteAccepted
    <2>3. /\ reader.text = messages[reader.name].text /\ reader.text \in ChatTexts /\ reader.name \in Nat
      BY <1>h, <1>0, <2>1, <2>2 DEF ReaderKnows, ReaderTyped
    <2>4. messages[reader.name].thread \in DOMAIN roots /\ messages[reader.name].thread \in Nat \X Nat
      BY <1>h, <2>2 DEF ThreadsRooted, MessagesTyped
    <2>5. messages[reader.name].thread # NoOne
      BY <2>4, ChatAssumption DEF ChatAssumption
    <2>6. messages[reader.name].thread = own \/ roots[messages[reader.name].thread] = reader.name
      BY <2>2, <2>5
    <2>. HIDE DEF own
    <2>7. quoted = [name |-> reader.name, thread |-> messages[reader.name].thread,
                    text |-> messages[reader.name].text, asRead |-> reader.text]
      BY <2>1
    <2>. HIDE DEF quoted
    <2>8. quoted \in Quotes
      BY <2>3, <2>4, <2>7 DEF Quotes
    <2>. QED BY <2>3, <2>4, <2>6, <2>7, <2>8
  <1>. HIDE DEF own, quoted
  <1>11. /\ new.space = space /\ new.thread = own /\ new.quoted = quoted
         /\ new \in [space : DOMAIN spaces, thread : Nat \X Nat, text : ChatTexts, created : 0 .. clock',
                     updated : 0 .. clock', quoted : Quotes \cup {NoOne}]
    <2>1. clock' \in 0 .. clock' /\ 0 \in 0 .. clock'
      BY <1>0
    <2>2. quoted \in Quotes \cup {NoOne}
      BY <1>10
    <2>. QED BY <1>7, <2>1, <2>2
  <1>. HIDE DEF new, id
  <1>12. MessagesTyped'
    <2>1. 0 .. clock \subseteq 0 .. clock'
      BY <1>0
    <2>2. \A n \in DOMAIN messages :
            messages[n] \in [space : DOMAIN spaces, thread : Nat \X Nat, text : ChatTexts, created : 0 .. clock',
                             updated : 0 .. clock', quoted : Quotes \cup {NoOne}]
      BY <1>h, <2>1 DEF MessagesTyped
    <2>3. \A n \in DOMAIN messages' : n \in 1 .. counter'
      BY <1>h, <1>0, <1>1, <1>2, <1>3, <1>4 DEF MessagesTyped
    <2>4. \A n \in DOMAIN messages' :
            messages'[n] \in [space : DOMAIN spaces, thread : Nat \X Nat, text : ChatTexts, created : 0 .. clock',
                              updated : 0 .. clock', quoted : Quotes \cup {NoOne}]
      BY <1>4, <1>11, <2>2
    <2>. QED BY <2>3, <2>4 DEF MessagesTyped
  <1>13. OrderAgrees'
    <2>. SUFFICES ASSUME NEW s \in DOMAIN spaces
         PROVE  /\ ToSet(order'[s]) = {n \in DOMAIN messages' : messages'[n].space = s}
                /\ Ascending(order'[s])
      BY DEF OrderAgrees
    <2>0. /\ ToSet(order[s]) = {n \in DOMAIN messages : messages[n].space = s} /\ Ascending(order[s])
          /\ order[s] \in Seq(Nat)
      BY <1>h DEF OrderAgrees, SpacesTyped
    <2>1. CASE s = space
      <3>1. \A x \in ToSet(order[s]) : x < id
        BY <1>3, <2>0
      <3>2. order'[s] = Append(order[s], id)
        BY <1>0, <1>1, <2>1
      <3>3. Ascending(order'[s]) /\ ToSet(order'[s]) = ToSet(order[s]) \cup {id}
        <4>1. Nat \subseteq Nat OBVIOUS
        <4>. QED BY <1>2, <2>0, <3>1, <3>2, <4>1, AppendAscending
      <3>4. {n \in DOMAIN messages' : messages'[n].space = s} = {n \in DOMAIN messages : messages[n].space = s} \cup {id}
        BY <1>4, <1>11, <2>1
      <3>. QED BY <2>0, <3>3, <3>4
    <2>2. CASE s # space
      <3>1. order'[s] = order[s]
        BY <1>0, <1>1, <2>2
      <3>2. {n \in DOMAIN messages' : messages'[n].space = s} = {n \in DOMAIN messages : messages[n].space = s}
        BY <1>4, <1>11, <2>2
      <3>. QED BY <2>0, <3>1, <3>2
    <2>. QED BY <2>1, <2>2
  <1>14. ThreadsRooted'
    <2>1. roots'[own] =< id
      BY <1>2, <1>8
    <2>. QED BY <1>h, <1>4, <1>8, <1>11, <2>1 DEF ThreadsRooted
  <1>15. ReactionsApart'
    BY <1>h, <1>4 DEF ReactionsApart
  <1>16. QuotesHold'
    BY <1>h, <1>4, <1>8, <1>10, <1>11 DEF QuotesHold
  <1>17. ReaderKnows'
    <2>. SUFFICES ASSUME reader # NoOne, reader.name \in DOMAIN messages',
                         reader.time = IF messages'[reader.name].updated = 0 THEN messages'[reader.name].created
                                       ELSE messages'[reader.name].updated
         PROVE  reader.text = messages'[reader.name].text
      BY DEF ReaderKnows, Version
    <2>1. reader.name \in 1 .. counter
      BY <1>h DEF ReaderTyped
    <2>2. reader.name \in DOMAIN messages
      BY <1>0, <1>2, <1>4, <2>1
    <2>. QED BY <1>h, <1>4, <2>2 DEF ReaderKnows, Version
  <1>. QED BY <1>5, <1>9, <1>12, <1>13, <1>14, <1>15, <1>16, <1>17 DEF ChatInv, ChatTypeOK

\* What a body may quote and say.
LEMMA BodyType ==
  ASSUME NEW body \in Creates \cup {Plain}
  PROVE  body.quote \in {NoOne, reader} /\ body.text \in {NewText, ""}
PROOF
  <1>1. Plain.quote = NoOne /\ Plain.text = NewText
    BY DEF Plain
  <1>2. CASE body = Plain
    BY <1>1, <1>2
  <1>3. CASE body = [Plain EXCEPT !.text = ""]
    BY <1>3 DEF Plain
  <1>4. CASE body = [Plain EXCEPT !.reply = "bogus"]
    BY <1>4 DEF Plain
  <1>5. CASE body = [Plain EXCEPT !.attachment = 0]
    BY <1>5 DEF Plain
  <1>6. CASE body \in [thread : threads \union {NoOne, <<SeedSpace, 99>>}, key : ChatKeys \union {NoOne},
                       reply : {"new", "fallback", "fail"}, quote : {NoOne, reader},
                       attachment : {NoOne, 99} \union uploads, text : {NewText}]
    BY <1>6
  <1>. QED BY <1>2, <1>3, <1>4, <1>5, <1>6 DEF Creates

\* create_message, refused or not.
LEMMA CreateStep ==
  ASSUME ChatInv, NEW space \in DOMAIN spaces, NEW req \in Creates \cup {Plain}, ParseCreate(req),
         CreateMessage(space, req)
  PROVE  \/ UNCHANGED <<chatState, reader>>
         \/ ChatInv'
PROOF
  <1>. DEFINE thread == ResolveThread(space, req)
              last == IF Binds(space, req) THEN counter + 1 ELSE counter
              accepted == /\ req.quote # NoOne => QuoteAccepted(req.quote, thread)
                          /\ req.attachment # NoOne => req.attachment \in uploads
  <1>0. req.quote \in {NoOne, reader} /\ req.text \in ChatTexts
    BY BodyType, NewTextType DEF ParseCreate
  <1>1. CASE thread = <<"missing">> /\ Refuse("NOT_FOUND")
    BY <1>1 DEF Refuse
  <1>2. CASE /\ thread # <<"missing">> /\ Bound(space, req) /\ counter' = last
             /\ UNCHANGED <<spaces, messages, order, roots, reactions, uploads, clock, reader, lister>>
    BY <1>2, RefusedStep
  <1>3. CASE /\ thread # <<"missing">> /\ accepted /\ Tick /\ Insert(space, req, thread, last)
             /\ UNCHANGED <<spaces, reactions, uploads, reader, lister>>
    <2>0. counter \in Nat /\ clock' = clock + 1
      BY <1>3 DEF ChatInv, ChatTypeOK, SpacesTyped, Tick
    <2>1. last \in {counter, counter + 1} OBVIOUS
    <2>2. thread # NoOne => /\ threads \subseteq threads' /\ threads' \subseteq Nat \X (0 .. counter')
                            /\ \A k \in DOMAIN threadKeys' : threadKeys'[k] \in threads'
                            /\ thread \in threads'
      <3>. SUFFICES ASSUME thread # NoOne
           PROVE  /\ threads \subseteq threads' /\ threads' \subseteq Nat \X (0 .. counter')
                  /\ \A k \in DOMAIN threadKeys' : threadKeys'[k] \in threads'
                  /\ thread \in threads'
        OBVIOUS
      <3>1. Bound(space, req) /\ counter' = last + 1
        BY <1>3 DEF Insert
      <3>2. counter' \in Nat /\ counter =< counter' /\ (Binds(space, req) => counter + 1 =< counter')
        BY <2>0, <3>1
      <3>. QED BY <1>3, <3>1, <3>2, BoundStep
    <2>3. req.quote # NoOne => QuoteAccepted(req.quote, thread)
      BY <1>3
    <2>4. Insert(space, req, thread, last) /\ UNCHANGED <<spaces, reactions, reader>>
      BY <1>3
    <2>. HIDE DEF thread, last, accepted
    <2>. QED BY <1>0, <2>0, <2>1, <2>2, <2>3, <2>4, InsertStep
  <1>. QED BY <1>1, <1>2, <1>3 DEF CreateMessage

\* The seeded space with its one message satisfies the invariant.
LEMMA ChatInitially == ChatInit => ChatInv
PROOF
  <1>. SUFFICES ASSUME ChatInit PROVE ChatInv OBVIOUS
  <1>. DEFINE thread == <<SeedSpace, 1>>
              seed == [space |-> SeedSpace, thread |-> thread, text |-> NewText, created |-> 1,
                       updated |-> 0, quoted |-> NoOne]
  <1>1. /\ DOMAIN spaces = {0} /\ messages = [m \in {2} |-> seed] /\ order = [s \in {0} |-> <<2>>]
        /\ threads = {<<0, 1>>} /\ DOMAIN threadKeys = {} /\ roots = [t \in {<<0, 1>>} |-> 2]
        /\ DOMAIN reactions = {} /\ counter = 2 /\ clock = 1 /\ reader = NoOne
    BY DEF ChatInit, SeedSpace
  <1>2. SpacesTyped
    <2>1. <<2>> \in Seq(Nat) OBVIOUS
    <2>. QED BY <1>1, <2>1 DEF SpacesTyped
  <1>3. MessagesTyped
    <2>1. seed \in [space : {0}, thread : Nat \X Nat, text : ChatTexts, created : 0 .. 1,
                    updated : 0 .. 1, quoted : Quotes \cup {NoOne}]
      BY NewTextType DEF SeedSpace
    <2>. HIDE DEF seed
    <2>. QED BY <1>1, <2>1 DEF MessagesTyped
  <1>4. ReactionsTyped /\ ReaderTyped /\ ReactionsApart /\ ReaderKnows
    BY <1>1 DEF ReactionsTyped, ReaderTyped, ReactionsApart, ReaderKnows
  <1>5. ThreadsKnown
    BY <1>1 DEF ThreadsKnown
  <1>6. seed.space = 0 /\ seed.thread = <<0, 1>> /\ seed.quoted = NoOne
    BY DEF SeedSpace
  <1>. HIDE DEF seed
  <1>7. OrderAgrees
    <2>1. Ascending(<<2>>) /\ ToSet(<<2>>) = {2}
      BY DEF Ascending, ToSet
    <2>. QED BY <1>1, <1>6, <2>1 DEF OrderAgrees
  <1>8. ThreadsRooted /\ QuotesHold
    BY <1>1, <1>6 DEF ThreadsRooted, QuotesHold
  <1>. QED BY <1>2, <1>3, <1>4, <1>5, <1>7, <1>8 DEF ChatInv, ChatTypeOK

\* The routes of one message: get, patch, delete, react.
LEMMA MessageRoutesStep ==
  ASSUME ChatInv, NEW space, NEW m, MessageRoutes(space, m)
  PROVE  ChatInv'
PROOF
  <1>0. NewText \in ChatTexts
    BY NewTextType
  <1>1. ASSUME NEW status, Refuse(status) PROVE ChatInv'
    BY <1>1, ReadingStep DEF Refuse
  <1>2. ASSUME NEW mask, NEW text \in ChatTexts, PatchMessage(space, m, mask, text) PROVE ChatInv'
    BY <1>1, <1>2, SetTextStep DEF PatchMessage, Exists
  <1>3. ASSUME DeleteMessage(space, m) PROVE ChatInv'
    BY <1>1, <1>3, PopMessageStep DEF DeleteMessage, Exists
  <1>4. ASSUME NEW emoji, CreateReaction(space, m, emoji) PROVE ChatInv'
    BY <1>1, <1>4, AddReactionStep DEF CreateReaction, Exists
  <1>5. ASSUME GetMessage(space, m) PROVE ChatInv'
    BY <1>1, <1>5, ReadingStep DEF GetMessage, Exists
  <1>. QED BY <1>0, <1>2, <1>3, <1>4, <1>5 DEF MessageRoutes

\* Every request keeps the invariant.
LEMMA ChatInductive == ChatInv /\ [ChatNext]_chatVars => ChatInv'
PROOF
  <1>. SUFFICES ASSUME ChatInv, [ChatNext]_chatVars PROVE ChatInv' OBVIOUS
  <1>1. ASSUME NEW status, Refuse(status) PROVE ChatInv'
    BY <1>1, ReadingStep DEF Refuse
  <1>2. CASE \E type \in {"SPACE", "DIRECT_MESSAGE"} : CreateSpace(type)
    BY <1>2, CreateSpaceStep
  <1>3. CASE \E user \in {"users/u", "users/v"} : FindDirectMessage(user)
    BY <1>1, <1>3 DEF FindDirectMessage
  <1>4. CASE \E space \in Named, fits \in BOOLEAN : UploadAttachment(space, fits)
    BY <1>1, <1>4, UploadStep DEF UploadAttachment
  <1>5. CASE \E space \in Named : \E body \in IF space = 99 THEN {Plain} ELSE Creates : PostMessage(space, body)
    <2>1. PICK space \in Named, body \in Creates \cup {Plain} : PostMessage(space, body)
      BY <1>5
    <2>2. CASE space \in DOMAIN spaces /\ ParseCreate(body) /\ CreateMessage(space, body)
      <3>1. UNCHANGED <<chatState, reader>> \/ ChatInv'
        BY <2>2, CreateStep
      <3>. QED BY <3>1, ReadingStep
    <2>. QED BY <1>1, <2>1, <2>2 DEF PostMessage
  <1>6. CASE (\E m \in DOMAIN messages : MessageRoutes(messages[m].space, m)) \/ MessageRoutes(SeedSpace, 99)
    BY <1>6, MessageRoutesStep
  <1>7. CASE \E m \in DOMAIN messages : \E r \in ToSet(Reactions(m)) \union {99} : DeleteReaction(m, r)
    BY <1>1, <1>7, PopReactionStep DEF DeleteReaction
  <1>8. CASE \E space \in DOMAIN spaces, thread \in threads \union {NoOne}, desc \in BOOLEAN :
               StartList(space, thread, desc)
    <2>1. UNCHANGED <<chatState, reader>>
      BY <1>8 DEF StartList
    <2>. QED BY <2>1, ReadingStep
  <1>9. CASE NextList
    <2>1. UNCHANGED <<chatState, reader>>
      BY <1>9 DEF NextList
    <2>. QED BY <2>1, ReadingStep
  <1>10. CASE UNCHANGED chatVars
    <2>1. UNCHANGED <<chatState, reader>>
      BY <1>10 DEF chatVars
    <2>. QED BY <2>1, ReadingStep
  <1>. QED BY <1>2, <1>3, <1>4, <1>5, <1>6, <1>7, <1>8, <1>9, <1>10 DEF ChatNext

\* The invariant holds of the chat for every bound on spaces, messages and
\* requests and every page size.
THEOREM ChatInvariance == ChatSpec => []ChatInv
  BY ChatInitially, ChatInductive, PTL DEF ChatSpec

\* The tables of the chat's driver agree after every request: the order of a
\* space lists exactly its messages, oldest first; every message's thread has
\* a root, which is not younger than it; and reactions are those of messages
\* that exist, each of one message.
THEOREM ChatTables == ChatSpec => []ChatTablesAgree
PROOF
  <1>1. ChatInv => ChatTablesAgree
    BY DEF ChatInv, OrderAgrees, ThreadsRooted, ReactionsApart, Ascending, ChatTablesAgree
  <1>. QED BY <1>1, ChatInvariance, PTL

\* A quote shows what the quoting client had read, even when the quoted
\* message was edited between the read and the quote: the version the client
\* names is compared with the message's; and the quoted message is of the
\* same thread, or starts its own.
THEOREM Quoting == ChatSpec => []QuotesWhatWasRead
PROOF
  <1>1. ChatInv => QuotesWhatWasRead
    BY DEF ChatInv, QuotesHold, QuotesWhatWasRead
  <1>. QED BY <1>1, ChatInvariance, PTL

\* Thread keys and roots, once there, stay as they are.
Stays ==
  /\ \A k \in DOMAIN threadKeys : k \in DOMAIN threadKeys' /\ threadKeys'[k] = threadKeys[k]
  /\ \A t \in DOMAIN roots : t \in DOMAIN roots' /\ roots'[t] = roots[t]

\* A request that is refused leaves everything a client can list as it was.
Unseen == ~answer' => UNCHANGED <<spaces, messages, order, roots, reactions, uploads>>

\* create_message, refused or not, adds keys and roots and replaces none.
LEMMA CreateKeeps ==
  ASSUME ChatInv, NEW space \in DOMAIN spaces, NEW req, CreateMessage(space, req)
  PROVE  Stays /\ Unseen
PROOF
  <1>. DEFINE thread == ResolveThread(space, req)
              last == IF Binds(space, req) THEN counter + 1 ELSE counter
              accepted == /\ req.quote # NoOne => QuoteAccepted(req.quote, thread)
                          /\ req.attachment # NoOne => req.attachment \in uploads
  <1>0. counter \in Nat
    BY DEF ChatInv, ChatTypeOK, SpacesTyped
  <1>1. CASE thread = <<"missing">> /\ Refuse("NOT_FOUND")
    BY <1>1 DEF Refuse, chatState, Stays, Unseen
  <1>2. CASE /\ thread # <<"missing">> /\ Bound(space, req) /\ counter' = last
             /\ UNCHANGED <<spaces, messages, order, roots, reactions, uploads, clock, reader, lister>>
    <2>1. counter' \in Nat /\ counter =< counter' /\ (Binds(space, req) => counter + 1 =< counter')
      BY <1>0, <1>2
    <2>. QED BY <1>2, <2>1, BoundStep DEF Stays, Unseen
  <1>3. CASE /\ thread # <<"missing">> /\ Answer("OK") /\ Insert(space, req, thread, last)
    <2>1. Unseen
      <3>1. answer' = TRUE
        BY <1>3 DEF Answer
      <3>. QED BY <3>1 DEF Unseen
    <2>2. \A k \in DOMAIN threadKeys : k \in DOMAIN threadKeys' /\ threadKeys'[k] = threadKeys[k]
      <3>1. CASE thread = NoOne
        <4>1. threadKeys' = threadKeys
          BY <1>3, <3>1 DEF Insert
        <4>. QED BY <4>1
      <3>2. CASE thread # NoOne
        <4>1. Bound(space, req) /\ counter' = last + 1
          BY <1>3, <3>2 DEF Insert
        <4>2. counter' \in Nat /\ counter =< counter' /\ (Binds(space, req) => counter + 1 =< counter')
          BY <1>0, <4>1
        <4>. QED BY <1>3, <4>1, <4>2, BoundStep
      <3>. QED BY <3>1, <3>2
    <2>3. \A t \in DOMAIN roots : t \in DOMAIN roots' /\ roots'[t] = roots[t]
      <3>1. PICK own, id : roots' = IF own \in DOMAIN roots THEN roots ELSE With(roots, own, id)
        BY <1>3 DEF Insert
      <3>. QED BY <3>1 DEF With
    <2>. QED BY <2>1, <2>2, <2>3 DEF Stays
  <1>. QED BY <1>1, <1>2, <1>3 DEF CreateMessage

\* So does every request.
LEMMA ChatKeeps == ChatInv /\ [ChatNext]_chatVars => Stays /\ Unseen
PROOF
  <1>. SUFFICES ASSUME ChatInv, [ChatNext]_chatVars PROVE Stays /\ Unseen OBVIOUS
  <1>1. ASSUME UNCHANGED chatState PROVE Stays /\ Unseen
    BY <1>1 DEF chatState, Stays, Unseen
  <1>2. ASSUME NEW status, Refuse(status) PROVE Stays /\ Unseen
    BY <1>1, <1>2 DEF Refuse
  <1>3. ASSUME Answer("OK"), UNCHANGED <<threadKeys, roots>> PROVE Stays /\ Unseen
    <2>1. answer' = TRUE
      BY <1>3 DEF Answer
    <2>. QED BY <1>3, <2>1 DEF Stays, Unseen
  <1>4. CASE \E type \in {"SPACE", "DIRECT_MESSAGE"} : CreateSpace(type)
    BY <1>3, <1>4 DEF CreateSpace
  <1>5. CASE \E user \in {"users/u", "users/v"} : FindDirectMessage(user)
    BY <1>2, <1>5 DEF FindDirectMessage
  <1>6. CASE \E space \in Named, fits \in BOOLEAN : UploadAttachment(space, fits)
    BY <1>2, <1>3, <1>6 DEF UploadAttachment, StoreUpload
  <1>7. CASE \E space \in Named : \E body \in IF space = 99 THEN {Plain} ELSE Creates : PostMessage(space, body)
    BY <1>2, <1>7, CreateKeeps DEF PostMessage
  <1>8. ASSUME NEW space, NEW m, MessageRoutes(space, m) PROVE Stays /\ Unseen
    <2>1. ASSUME NEW mask, NEW text, PatchMessage(space, m, mask, text) PROVE Stays /\ Unseen
      BY <1>2, <1>3, <2>1 DEF PatchMessage, SetText
    <2>2. ASSUME DeleteMessage(space, m) PROVE Stays /\ Unseen
      BY <1>2, <1>3, <2>2 DEF DeleteMessage, PopMessage
    <2>3. ASSUME NEW emoji, CreateReaction(space, m, emoji) PROVE Stays /\ Unseen
      BY <1>2, <1>3, <2>3 DEF CreateReaction, AddReaction
    <2>4. ASSUME GetMessage(space, m) PROVE Stays /\ Unseen
      BY <1>1, <1>2, <2>4 DEF GetMessage
    <2>. QED BY <1>8, <2>1, <2>2, <2>3, <2>4 DEF MessageRoutes
  <1>9. CASE (\E m \in DOMAIN messages : MessageRoutes(messages[m].space, m)) \/ MessageRoutes(SeedSpace, 99)
    BY <1>8, <1>9
  <1>10. CASE \E m \in DOMAIN messages : \E r \in ToSet(Reactions(m)) \union {99} : DeleteReaction(m, r)
    BY <1>2, <1>3, <1>10 DEF DeleteReaction, PopReaction
  <1>11. CASE \E space \in DOMAIN spaces, thread \in threads \union {NoOne}, desc \in BOOLEAN :
                StartList(space, thread, desc)
    BY <1>1, <1>11 DEF StartList
  <1>12. CASE NextList
    BY <1>1, <1>12 DEF NextList
  <1>13. CASE UNCHANGED chatVars
    BY <1>1, <1>13 DEF chatVars
  <1>. QED BY <1>4, <1>5, <1>6, <1>7, <1>9, <1>10, <1>11, <1>12, <1>13 DEF ChatNext

\* A thread key leads to the same thread and a thread has the same root for
\* good, whatever is deleted; and a refused request changes nothing that a
\* client can see.
THEOREM ChatRequests == ChatSpec => ChatSteps
PROOF
  <1>1. ChatInv /\ [ChatNext]_chatVars => [Stays]_chatVars /\ [Unseen]_chatVars
    BY ChatKeeps
  <1>2. ChatSpec => [][Stays]_chatVars /\ [][Unseen]_chatVars
    BY <1>1, ChatInvariance, PTL DEF ChatSpec
  <1>. QED BY <1>2 DEF ChatSteps, KeysAndRootsStay, RefusedChangesNothing, Stays, Unseen

-----------------------------------------------------------------------------
\* Chat: a client that lists messages page by page.

\* The messages that list_messages finds for the client that lists: of a
\* space, or of one thread.
Finding == Found(lister.space, lister.thread)

\* Their creation times, by which they are sorted.
Times == [m \in Finding |-> messages[m].created]

\* The row of message x in what the client lists.
Place(x) == Rank(Finding, Times, x, lister.descending)

\* The type of the client that lists.
ListerTyped ==
  lister # NoOne =>
    lister \in [space : DOMAIN spaces, thread : (Nat \X Nat) \cup {NoOne}, descending : BOOLEAN, offset : Nat,
                seen : Seq(Nat), done : BOOLEAN, shrunk : BOOLEAN, steady : SUBSET Nat]

\* Until a message of its space is deleted: what has been there since it
\* began and is not beyond its offset, it has seen; when it is done, all of
\* it.
ListerMisses ==
  lister # NoOne /\ ~lister.shrunk =>
    /\ lister.done => lister.steady \subseteq ToSet(lister.seen)
    /\ ~lister.done => \A x \in lister.steady : /\ x \in Finding
                                                /\ Place(x) =< lister.offset => x \in ToSet(lister.seen)

\* Until then, oldest first: it has seen nothing twice, and nothing beyond
\* its offset.
ListerRepeats ==
  lister # NoOne /\ ~lister.shrunk /\ ~lister.descending =>
    /\ IsInjective(lister.seen)
    /\ ~lister.done => \A x \in ToSet(lister.seen) : x \in Finding /\ Place(x) =< lister.offset

\* The inductive invariant of a client that lists.
ListerInv == ListerTyped /\ ListerMisses /\ ListerRepeats

\* A list has finitely many messages, none created after now.
LEMMA FoundFinite ==
  ASSUME ChatInv, NEW s \in DOMAIN spaces, NEW t
  PROVE  /\ Found(s, t) \subseteq DOMAIN messages /\ Found(s, t) \subseteq Nat /\ IsFiniteSet(Found(s, t))
         /\ \A m \in Found(s, t) : messages[m].created \in Nat /\ messages[m].created =< clock
PROOF
  <1>h. SpacesTyped /\ MessagesTyped /\ OrderAgrees
    BY DEF ChatInv, ChatTypeOK
  <1>0. counter \in Nat /\ clock \in Nat
    BY <1>h DEF SpacesTyped
  <1>1. Found(s, t) \subseteq DOMAIN messages
    BY <1>h DEF Found, OrderAgrees
  <1>2. \A m \in Found(s, t) : m \in 1 .. counter
    BY <1>h, <1>1 DEF MessagesTyped
  <1>3. IsFiniteSet(1 .. counter)
    BY <1>0, FS_Interval
  <1>4. IsFiniteSet(Found(s, t))
    BY <1>2, <1>3, FS_Subset
  <1>5. \A m \in Found(s, t) : messages[m].created \in 0 .. clock
    BY <1>h, <1>1 DEF MessagesTyped
  <1>. QED BY <1>0, <1>1, <1>2, <1>4, <1>5

\* The same of what the client lists.
FindingBounded ==
  lister # NoOne => /\ Finding \subseteq Nat /\ IsFiniteSet(Finding)
                    /\ \A m \in Finding : messages[m].created \in Nat /\ messages[m].created =< clock

\* It follows from the types.
LEMMA FindingFinite == ChatInv /\ ListerTyped => FindingBounded
PROOF
  <1>. SUFFICES ASSUME ChatInv, ListerTyped, lister # NoOne
       PROVE  /\ Finding \subseteq Nat /\ IsFiniteSet(Finding)
              /\ \A m \in Finding : messages[m].created \in Nat /\ messages[m].created =< clock
    BY DEF FindingBounded
  <1>1. lister.space \in DOMAIN spaces
    BY DEF ListerTyped
  <1>. QED BY <1>1, FoundFinite DEF Finding

\* Messages that are younger than all of the list may join it: no row's
\* number becomes less, and oldest first every row keeps its number.
LEMMA ListerKept ==
  ASSUME ChatInv, ChatInv', ListerInv, lister' = lister, DOMAIN spaces \subseteq DOMAIN spaces',
         lister # NoOne => /\ Finding \subseteq Finding'
                           /\ \A m \in Finding : messages'[m].created = messages[m].created
                           /\ \A m \in Finding' : m \in Finding \/ messages'[m].created > clock
  PROVE  ListerInv'
PROOF
  <1>1. ListerTyped'
    BY DEF ListerInv, ListerTyped
  <1>2. CASE lister = NoOne
    BY <1>1, <1>2 DEF ListerInv, ListerMisses, ListerRepeats
  <1>3. CASE lister # NoOne
    <2>1. /\ lister.descending \in BOOLEAN /\ lister.offset \in Nat /\ lister.seen \in Seq(Nat)
      BY <1>3 DEF ListerInv, ListerTyped
    <2>2. IsFiniteSet(Finding) /\ \A m \in Finding : messages[m].created \in Nat /\ messages[m].created =< clock
      BY <1>3, FindingFinite DEF FindingBounded, ListerInv
    <2>3. IsFiniteSet(Finding') /\ \A m \in Finding' : messages'[m].created \in Nat
      <3>1. FindingBounded'
        BY <1>1, FindingFinite, PTL
      <3>. QED BY <1>3, <3>1 DEF FindingBounded
    <2>4. ASSUME NEW x \in Finding
          PROVE  /\ Place(x) \in Nat /\ Place(x)' \in Nat /\ Place(x) =< Place(x)'
                 /\ ~lister.descending => Place(x)' = Place(x)
      <3>1. \A m \in Finding : Times'[m] = Times[m]
        BY <1>3 DEF Times
      <3>2. ~lister.descending => \A y \in Finding' \ Finding : ~Comes(Times'[y], Times'[x], lister.descending)
        <4>. SUFFICES ASSUME ~lister.descending, NEW y \in Finding' \ Finding
             PROVE ~Comes(Times'[y], Times'[x], lister.descending)
          OBVIOUS
        <4>1. x \in Finding' /\ y \in Finding'
          BY <1>3
        <4>2. Times'[y] = messages'[y].created /\ Times'[x] = messages'[x].created
          BY <4>1 DEF Times
        <4>3. messages'[y].created \in Nat /\ messages'[y].created > clock
          BY <1>3, <2>3
        <4>4. messages'[x].created \in Nat /\ messages'[x].created =< clock
          BY <1>3, <2>2
        <4>5. clock \in Nat
          BY DEF ChatInv, ChatTypeOK, SpacesTyped
        <4>6. ~(messages'[y].created < messages'[x].created)
          BY <4>3, <4>4, <4>5
        <4>. QED BY <4>2, <4>6 DEF Comes
      <3>. DEFINE A == Finding
                  B == Finding'
                  K == Times
                  L == Times'
                  d == lister.descending
      <3>3. A \subseteq B /\ IsFiniteSet(B)
        BY <1>3, <2>3
      <3>. HIDE DEF A, B, K, L, d
      <3>4. \A m \in A : L[m] = K[m]
        BY <3>1 DEF A, L, K
      <3>5. x \in A
        BY DEF A
      <3>6. /\ Rank(A, K, x, d) \in Nat /\ Rank(B, L, x, d) \in Nat
            /\ Rank(A, K, x, d) =< Rank(B, L, x, d)
            /\ (\A y \in B \ A : ~Comes(L[y], L[x], d)) => Rank(A, K, x, d) = Rank(B, L, x, d)
        BY <3>3, <3>4, <3>5, RankStays
      <3>7. Place(x) = Rank(A, K, x, d) /\ Place(x)' = Rank(B, L, x, d)
        BY DEF Place, A, B, K, L, d
      <3>8. ~d => \A y \in B \ A : ~Comes(L[y], L[x], d)
        BY <3>2 DEF A, B, L, d
      <3>9. ~d => Rank(A, K, x, d) = Rank(B, L, x, d)
        BY <3>6, <3>8
      <3>10. ~d => Place(x)' = Place(x)
        BY <3>7, <3>9
      <3>. QED BY <3>6, <3>7, <3>10 DEF d
    <2>. HIDE DEF Place
    <2>5. ListerMisses'
      <3>. SUFFICES ASSUME ~lister.shrunk
           PROVE  /\ lister.done => lister.steady \subseteq ToSet(lister.seen)
                  /\ ~lister.done => \A x \in lister.steady :
                       x \in Finding' /\ (Place(x)' =< lister.offset => x \in ToSet(lister.seen))
        BY DEF ListerMisses
      <3>1. lister.done => lister.steady \subseteq ToSet(lister.seen)
        BY <1>3 DEF ListerInv, ListerMisses
      <3>2. ASSUME ~lister.done, NEW x \in lister.steady
            PROVE  x \in Finding' /\ (Place(x)' =< lister.offset => x \in ToSet(lister.seen))
        <4>1. x \in Finding /\ (Place(x) =< lister.offset => x \in ToSet(lister.seen))
          BY <1>3, <3>2 DEF ListerInv, ListerMisses
        <4>2. Place(x)' =< lister.offset => Place(x) =< lister.offset
          BY <2>1, <2>4, <4>1
        <4>. QED BY <1>3, <4>1, <4>2
      <3>. QED BY <3>1, <3>2
    <2>6. ListerRepeats'
      <3>. SUFFICES ASSUME ~lister.shrunk, ~lister.descending
           PROVE  /\ IsInjective(lister.seen)
                  /\ ~lister.done => \A x \in ToSet(lister.seen) : x \in Finding' /\ Place(x)' =< lister.offset
        BY DEF ListerRepeats
      <3>1. IsInjective(lister.seen)
        BY <1>3 DEF ListerInv, ListerRepeats
      <3>2. ASSUME ~lister.done, NEW x \in ToSet(lister.seen)
            PROVE  x \in Finding' /\ Place(x)' =< lister.offset
        <4>1. x \in Finding /\ Place(x) =< lister.offset
          BY <1>3, <3>2 DEF ListerInv, ListerRepeats
        <4>. QED BY <1>3, <2>4, <4>1
      <3>. QED BY <3>1, <3>2
    <2>. QED BY <1>1, <2>5, <2>6 DEF ListerInv
  <1>. QED BY <1>2, <1>3

\* Messages keep their space, their thread and their creation time, and new
\* ones are created after now.
MessagesKept ==
  /\ \A m \in DOMAIN messages : /\ m \in DOMAIN messages' /\ messages'[m].space = messages[m].space
                                /\ messages'[m].thread = messages[m].thread
                                /\ messages'[m].created = messages[m].created
  /\ \A m \in DOMAIN messages' : m \in DOMAIN messages \/ messages'[m].created > clock

\* Then the list grows as ListerKept asks.
LEMMA ListerUndisturbed ==
  ASSUME ChatInv, ChatInv', ListerInv, lister' = lister, DOMAIN spaces \subseteq DOMAIN spaces', MessagesKept
  PROVE  ListerInv'
PROOF
  <1>. SUFFICES ASSUME lister # NoOne
       PROVE  /\ Finding \subseteq Finding'
              /\ \A m \in Finding : messages'[m].created = messages[m].created
              /\ \A m \in Finding' : m \in Finding \/ messages'[m].created > clock
    BY ListerKept
  <1>1. lister.space \in DOMAIN spaces /\ lister.space \in DOMAIN spaces'
    BY DEF ListerInv, ListerTyped
  <1>2. /\ ToSet(order[lister.space]) = {m \in DOMAIN messages : messages[m].space = lister.space}
        /\ ToSet(order'[lister.space]) = {m \in DOMAIN messages' : messages'[m].space = lister.space}
    BY <1>1 DEF ChatInv, OrderAgrees
  <1>3. Finding = {m \in DOMAIN messages : /\ messages[m].space = lister.space
                                           /\ lister.thread = NoOne \/ messages[m].thread = lister.thread}
    BY <1>2 DEF Finding, Found
  <1>4. Finding' = {m \in DOMAIN messages' : /\ messages'[m].space = lister.space
                                             /\ lister.thread = NoOne \/ messages'[m].thread = lister.thread}
    BY <1>2 DEF Finding, Found
  <1>. QED BY <1>3, <1>4 DEF MessagesKept

\* create_message ticks the clock before it inserts.
LEMMA InsertKeeps ==
  ASSUME ChatInv, NEW space \in DOMAIN spaces, NEW req, CreateMessage(space, req)
  PROVE  MessagesKept /\ UNCHANGED <<spaces, lister>>
PROOF
  <1>. DEFINE thread == ResolveThread(space, req)
              last == IF Binds(space, req) THEN counter + 1 ELSE counter
  <1>h. SpacesTyped /\ MessagesTyped
    BY DEF ChatInv, ChatTypeOK
  <1>0. counter \in Nat /\ clock \in Nat
    BY <1>h DEF SpacesTyped
  <1>1. CASE Refuse("NOT_FOUND")
    BY <1>1 DEF Refuse, chatState, MessagesKept
  <1>2. CASE UNCHANGED <<spaces, messages, order, roots, reactions, uploads, clock, reader, lister>>
    BY <1>2 DEF MessagesKept
  <1>3. CASE /\ Tick /\ Insert(space, req, thread, last)
             /\ UNCHANGED <<spaces, reactions, uploads, reader, lister>>
    <2>0. last \in Nat /\ last >= counter
      BY <1>0
    <2>. HIDE DEF last
    <2>. DEFINE id == IF thread = NoOne THEN last + 2 ELSE last + 1
                own == IF thread = NoOne THEN <<space, last + 1>> ELSE thread
                quoted == IF req.quote = NoOne THEN NoOne
                          ELSE [name |-> req.quote.name, thread |-> messages[req.quote.name].thread,
                                text |-> messages[req.quote.name].text, asRead |-> req.quote.text]
    <2>1. /\ id \in {last + 1, last + 2}
          /\ messages' = With(messages, id, [space |-> space, thread |-> own, text |-> req.text,
                                             created |-> clock', updated |-> 0, quoted |-> quoted])
      BY <1>3 DEF Insert
    <2>. HIDE DEF id, own, quoted
    <2>2. id > counter /\ id \notin DOMAIN messages
      BY <1>h, <1>0, <2>0, <2>1 DEF MessagesTyped
    <2>3. /\ DOMAIN messages' = DOMAIN messages \cup {id} /\ messages'[id].created = clock'
          /\ \A m \in DOMAIN messages : messages'[m] = messages[m]
      BY <2>1, <2>2 DEF With
    <2>4. clock' > clock
      BY <1>0, <1>3 DEF Tick
    <2>. QED BY <1>3, <2>3, <2>4 DEF MessagesKept
  <1>. QED BY <1>1, <1>2, <1>3 DEF CreateMessage

\* update_message leaves a message's creation time alone.
LEMMA SetTextKeeps ==
  ASSUME ChatInv, NEW m \in DOMAIN messages, NEW text, SetText(m, text)
  PROVE  MessagesKept /\ UNCHANGED <<spaces, lister>>
PROOF
  <1>1. messages[m] \in [space : DOMAIN spaces, thread : Nat \X Nat, text : ChatTexts, created : 0 .. clock,
                         updated : 0 .. clock, quoted : Quotes \cup {NoOne}]
    BY DEF ChatInv, ChatTypeOK, MessagesTyped
  <1>2. messages' = [messages EXCEPT ![m] = [messages[m] EXCEPT !.text = text, !.updated = clock']]
    BY <1>1 DEF SetText
  <1>3. /\ DOMAIN messages' = DOMAIN messages
        /\ messages'[m] = [messages[m] EXCEPT !.text = text, !.updated = clock']
        /\ \A n \in DOMAIN messages : n # m => messages'[n] = messages[n]
    BY <1>2
  <1>4. /\ messages'[m].space = messages[m].space /\ messages'[m].thread = messages[m].thread
        /\ messages'[m].created = messages[m].created
    BY <1>1, <1>3
  <1>. QED BY <1>3, <1>4 DEF SetText, MessagesKept

\* delete_message: the deletion of a message of the listed space is the one
\* thing that moves rows to smaller numbers, and of another space it changes
\* nothing.
LEMMA ListerShrinks ==
  ASSUME ChatInv, ChatInv', ListerInv, NEW m \in DOMAIN messages, PopMessage(m)
  PROVE  ListerInv'
PROOF
  <1>1. /\ spaces' = spaces /\ messages' = Drop(messages, m)
        /\ order' = [order EXCEPT ![messages[m].space] = RemoveFirst(@, m)]
        /\ lister' = IF lister = NoOne \/ lister.done THEN lister
                     ELSE [lister EXCEPT !.shrunk = @ \/ messages[m].space = lister.space, !.steady = @ \ {m}]
    BY DEF PopMessage, Shrink
  <1>2. CASE lister = NoOne
    BY <1>1, <1>2 DEF ListerInv, ListerTyped, ListerMisses, ListerRepeats
  <1>. DEFINE T == [space : DOMAIN spaces, thread : (Nat \X Nat) \cup {NoOne}, descending : BOOLEAN, offset : Nat,
                    seen : Seq(Nat), done : BOOLEAN, shrunk : BOOLEAN, steady : SUBSET Nat]
  <1>3. lister # NoOne => lister \in T
    BY DEF ListerInv, ListerTyped
  <1>4. CASE lister # NoOne /\ lister.done
    BY <1>1, <1>3, <1>4 DEF ListerInv, ListerTyped, ListerMisses, ListerRepeats
  <1>5. CASE lister # NoOne /\ ~lister.done
    <2>1. lister' = [lister EXCEPT !.shrunk = lister.shrunk \/ messages[m].space = lister.space,
                                   !.steady = lister.steady \ {m}]
      BY <1>1, <1>5
    <2>2. lister' \in T
      <3>1. (lister.shrunk \/ messages[m].space = lister.space) \in BOOLEAN OBVIOUS
      <3>2. lister.steady \ {m} \in SUBSET Nat
        BY <1>3, <1>5
      <3>. QED BY <1>3, <1>5, <2>1, <3>1, <3>2
    <2>3. /\ lister'.space = lister.space /\ lister'.thread = lister.thread /\ lister'.descending = lister.descending
          /\ lister'.offset = lister.offset /\ lister'.seen = lister.seen /\ lister'.done = lister.done
          /\ lister'.steady = lister.steady \ {m}
      BY <1>3, <1>5, <2>1
    <2>4. lister'.shrunk = (lister.shrunk \/ messages[m].space = lister.space)
      BY <1>3, <1>5, <2>1
    <2>5. ListerTyped'
      BY <1>1, <2>2 DEF ListerTyped
    <2>6. CASE lister'.shrunk
      BY <2>5, <2>6 DEF ListerInv, ListerMisses, ListerRepeats
    <2>7. CASE ~lister'.shrunk
      <3>1. ~lister.shrunk /\ messages[m].space # lister.space
        BY <2>4, <2>7
      <3>2. order'[lister.space] = order[lister.space]
        BY <1>1, <3>1
      <3>3. \A n \in ToSet(order[lister.space]) : n \in DOMAIN messages /\ n # m
        <4>1. lister.space \in DOMAIN spaces
          BY <1>3, <1>5
        <4>. QED BY <3>1, <4>1 DEF ChatInv, OrderAgrees
      <3>4. \A n \in ToSet(order[lister.space]) : messages'[n] = messages[n]
        BY <1>1, <3>3 DEF Drop
      <3>5. Finding' = Finding
        BY <2>3, <3>2, <3>4 DEF Finding, Found
      <3>6. Times' = Times
        <4>1. \A n \in Finding : messages'[n] = messages[n]
          BY <3>4 DEF Finding, Found
        <4>. QED BY <3>5, <4>1 DEF Times
      <3>7. \A x : Place(x)' = Place(x)
        BY <2>3, <3>5, <3>6 DEF Place
      <3>8. ListerMisses'
        BY <1>5, <2>3, <3>1, <3>5, <3>7 DEF ListerInv, ListerMisses
      <3>9. ListerRepeats'
        BY <1>5, <2>3, <3>1, <3>5, <3>7 DEF ListerInv, ListerRepeats
      <3>. QED BY <2>5, <3>8, <3>9 DEF ListerInv
    <2>. QED BY <2>6, <2>7
  <1>. QED BY <1>2, <1>4, <1>5

\* At offset 0 nothing has been passed.
LEMMA ListerStarts ==
  ASSUME ChatInv, NEW space \in DOMAIN spaces, NEW thread \in threads \cup {NoOne}, NEW desc \in BOOLEAN,
         StartList(space, thread, desc)
  PROVE  ListerInv'
PROOF
  <1>1. /\ lister' = [space |-> space, thread |-> thread, descending |-> desc, offset |-> 0,
                      seen |-> <<>>, done |-> FALSE, shrunk |-> FALSE, steady |-> Found(space, thread)]
        /\ UNCHANGED <<spaces, messages, order>>
    BY DEF StartList, chatState
  <1>2. /\ Found(space, thread) \subseteq Nat /\ IsFiniteSet(Found(space, thread))
    BY FoundFinite
  <1>3. ListerTyped'
    <2>1. thread \in (Nat \X Nat) \cup {NoOne}
      <3>1. counter \in Nat /\ threads \subseteq Nat \X (0 .. counter)
        BY DEF ChatInv, ThreadsKnown, ChatTypeOK, SpacesTyped
      <3>. QED BY <3>1
    <2>2. <<>> \in Seq(Nat) OBVIOUS
    <2>3. lister' \in [space : DOMAIN spaces, thread : (Nat \X Nat) \cup {NoOne}, descending : BOOLEAN, offset : Nat,
                       seen : Seq(Nat), done : BOOLEAN, shrunk : BOOLEAN, steady : SUBSET Nat]
      BY <1>1, <1>2, <2>1, <2>2
    <2>. QED BY <1>1, <2>3 DEF ListerTyped
  <1>4. /\ lister'.space = space /\ lister'.thread = thread /\ lister'.descending = desc /\ lister'.offset = 0
        /\ lister'.seen = <<>> /\ lister'.done = FALSE /\ lister'.steady = Found(space, thread)
    BY <1>1
  <1>5. Finding' = Found(space, thread)
    BY <1>1, <1>4 DEF Finding, Found
  <1>6. \A x \in Finding' : Place(x)' \in Nat \ {0}
    <2>1. \A ids, key, d : IsFiniteSet(ids) => \A x \in ids : Rank(ids, key, x, d) \in Nat \ {0}
      BY RankPositive
    <2>. QED BY <1>2, <1>5, <2>1 DEF Place
  <1>. HIDE DEF Place
  <1>7. ListerMisses'
    <2>1. \A x \in Finding' : ~(Place(x)' =< 0)
      BY <1>6
    <2>. QED BY <1>4, <1>5, <2>1 DEF ListerMisses
  <1>8. ListerRepeats'
    BY <1>4 DEF ListerRepeats, IsInjective, ToSet
  <1>. QED BY <1>3, <1>7, <1>8 DEF ListerInv

\* A page: the offset moves over exactly the rows that are shown.
LEMMA ListerReads ==
  ASSUME ChatInv, ListerInv, NextList
  PROVE  ListerInv'
PROOF
  <1>. DEFINE T == [space : DOMAIN spaces, thread : (Nat \X Nat) \cup {NoOne}, descending : BOOLEAN, offset : Nat,
                    seen : Seq(Nat), done : BOOLEAN, shrunk : BOOLEAN, steady : SUBSET Nat]
              d == lister.descending
              o == lister.offset
              old == lister.seen
  <1>1. lister # NoOne /\ ~lister.done /\ UNCHANGED <<spaces, messages, order>>
    BY DEF NextList, chatState
  <1>2. lister \in T
    BY <1>1 DEF ListerInv, ListerTyped
  <1>3. PICK rows \in Listings(Finding, Times, d) :
          lister' = [lister EXCEPT !.seen = old \o PageOf(rows, o, ChatPageSize),
                                   !.done = ~(o + ChatPageSize < Len(rows)), !.offset = o + ChatPageSize]
    BY DEF NextList, ListRows, ListPage, PageOf, Finding, Times
  <1>. DEFINE new == old \o PageOf(rows, o, ChatPageSize)
  <1>4. /\ o \in Nat /\ d \in BOOLEAN /\ old \in Seq(Nat) /\ ChatPageSize \in Nat \ {0}
        /\ lister.steady \in SUBSET Nat /\ lister.shrunk \in BOOLEAN
    BY <1>2, ChatAssumption DEF ChatAssumption
  <1>5. /\ Finding \subseteq Nat /\ IsFiniteSet(Finding) /\ Times \in [Finding -> Nat]
    <2>1. FindingBounded
      BY FindingFinite DEF ListerInv
    <2>. QED BY <1>1, <2>1 DEF FindingBounded, Times
  <1>6. new \in Seq(Nat)
    BY <1>4, <1>5, PageType
  <1>7. ASSUME ~lister.shrunk
        PROVE  /\ \A x \in lister.steady : Place(x) =< o + ChatPageSize => x \in ToSet(new)
               /\ ~(o + ChatPageSize < Len(rows)) => lister.steady \subseteq ToSet(new)
    <2>1. lister.steady \subseteq Finding /\ \A x \in lister.steady : Place(x) =< o => x \in ToSet(old)
      BY <1>1, <1>7 DEF ListerInv, ListerMisses
    <2>. QED BY <1>4, <1>5, <2>1, PageShows DEF Place
  <1>8. ASSUME ~lister.shrunk, ~lister.descending
        PROVE  IsInjective(new) /\ \A x \in ToSet(new) : x \in Finding /\ Place(x) =< o + ChatPageSize
    <2>1. IsInjective(old) /\ \A x \in ToSet(old) : x \in Finding /\ Place(x) =< o
      BY <1>1, <1>8 DEF ListerInv, ListerRepeats
    <2>. QED BY <1>4, <1>5, <2>1, PageOnce DEF Place
  <1>. HIDE DEF new, T
  <1>9. /\ lister' \in T
    <2>1. (~(o + ChatPageSize < Len(rows))) \in BOOLEAN OBVIOUS
    <2>2. o + ChatPageSize \in Nat
      BY <1>4
    <2>. QED BY <1>2, <1>3, <1>6, <2>1, <2>2 DEF new, T
  <1>10. /\ lister'.space = lister.space /\ lister'.thread = lister.thread /\ lister'.descending = d
         /\ lister'.offset = o + ChatPageSize /\ lister'.seen = new /\ lister'.steady = lister.steady
         /\ lister'.shrunk = lister.shrunk
    BY <1>2, <1>3 DEF new, T
  <1>11. lister'.done = ~(o + ChatPageSize < Len(rows))
    BY <1>2, <1>3 DEF new, T
  <1>12. ListerTyped'
    BY <1>1, <1>9 DEF ListerTyped, T
  <1>13. Finding' = Finding /\ Times' = Times
    BY <1>1, <1>10 DEF Finding, Found, Times
  <1>14. \A x : Place(x)' = Place(x)
    BY <1>10, <1>13 DEF Place
  <1>. HIDE DEF Place, d, o, old
  <1>15. ListerMisses'
    <2>1. ~lister.shrunk => lister.steady \subseteq Finding
      BY <1>1 DEF ListerInv, ListerMisses
    <2>. QED BY <1>7, <1>10, <1>11, <1>13, <1>14, <2>1 DEF ListerMisses
  <1>16. ListerRepeats'
    BY <1>8, <1>10, <1>13, <1>14 DEF ListerRepeats, d
  <1>. QED BY <1>12, <1>15, <1>16 DEF ListerInv

\* Every request keeps the invariant.
LEMMA ListerStep == ChatInv /\ ChatInv' /\ ListerInv /\ [ChatNext]_chatVars => ListerInv'
PROOF
  <1>. SUFFICES ASSUME ChatInv, ChatInv', ListerInv, [ChatNext]_chatVars PROVE ListerInv' OBVIOUS
  <1>1. ASSUME UNCHANGED <<messages, lister>>, DOMAIN spaces \subseteq DOMAIN spaces' PROVE ListerInv'
    <2>1. MessagesKept
      BY <1>1 DEF MessagesKept
    <2>. QED BY <1>1, <2>1, ListerUndisturbed
  <1>2. ASSUME MessagesKept, UNCHANGED <<spaces, lister>> PROVE ListerInv'
    BY <1>2, ListerUndisturbed
  <1>3. ASSUME NEW status, Refuse(status) PROVE ListerInv'
    BY <1>1, <1>3 DEF Refuse, chatState
  <1>4. CASE \E type \in {"SPACE", "DIRECT_MESSAGE"} : CreateSpace(type)
    <2>1. UNCHANGED <<messages, lister>> /\ DOMAIN spaces \subseteq DOMAIN spaces'
      BY <1>4 DEF CreateSpace, With
    <2>. QED BY <1>1, <2>1
  <1>5. CASE \E user \in {"users/u", "users/v"} : FindDirectMessage(user)
    BY <1>3, <1>5 DEF FindDirectMessage
  <1>6. CASE \E space \in Named, fits \in BOOLEAN : UploadAttachment(space, fits)
    BY <1>1, <1>3, <1>6 DEF UploadAttachment, StoreUpload
  <1>7. CASE \E space \in Named : \E body \in IF space = 99 THEN {Plain} ELSE Creates : PostMessage(space, body)
    BY <1>2, <1>3, <1>7, InsertKeeps DEF PostMessage
  <1>8. ASSUME NEW space, NEW m, MessageRoutes(space, m) PROVE ListerInv'
    <2>1. ASSUME NEW mask, NEW text, PatchMessage(space, m, mask, text) PROVE ListerInv'
      BY <1>2, <1>3, <2>1, SetTextKeeps DEF PatchMessage, Exists
    <2>2. ASSUME DeleteMessage(space, m) PROVE ListerInv'
      BY <1>3, <2>2, ListerShrinks DEF DeleteMessage, Exists
    <2>3. ASSUME NEW emoji, CreateReaction(space, m, emoji) PROVE ListerInv'
      BY <1>1, <1>3, <2>3 DEF CreateReaction, AddReaction
    <2>4. ASSUME GetMessage(space, m) PROVE ListerInv'
      BY <1>1, <1>3, <2>4 DEF GetMessage, chatState
    <2>. QED BY <1>8, <2>1, <2>2, <2>3, <2>4 DEF MessageRoutes
  <1>9. CASE (\E m \in DOMAIN messages : MessageRoutes(messages[m].space, m)) \/ MessageRoutes(SeedSpace, 99)
    BY <1>8, <1>9
  <1>10. CASE \E m \in DOMAIN messages : \E r \in ToSet(Reactions(m)) \union {99} : DeleteReaction(m, r)
    BY <1>1, <1>3, <1>10 DEF DeleteReaction, PopReaction
  <1>11. CASE \E space \in DOMAIN spaces, thread \in threads \union {NoOne}, desc \in BOOLEAN :
                StartList(space, thread, desc)
    BY <1>11, ListerStarts
  <1>12. CASE NextList
    BY <1>12, ListerReads
  <1>13. CASE UNCHANGED chatVars
    BY <1>1, <1>13 DEF chatVars, chatState
  <1>. QED BY <1>4, <1>5, <1>6, <1>7, <1>9, <1>10, <1>11, <1>12, <1>13 DEF ChatNext

\* A client that follows page tokens while others post, edit and react sees
\* every message that was there when it began; oldest first it sees none
\* twice. Only a delete in the space it lists can make it miss one.
THEOREM Listing == ChatSpec => []ListSeesAll
PROOF
  <1>1. ChatInit => ListerInv
    BY DEF ChatInit, ListerInv, ListerTyped, ListerMisses, ListerRepeats
  <1>2. ListerInv => ListSeesAll
    BY DEF ListerInv, ListerMisses, ListerRepeats, ListSeesAll
  <1>. QED BY <1>1, <1>2, ListerStep, ChatInvariance, PTL DEF ChatSpec

-----------------------------------------------------------------------------
\* Issue tracker: the driver's tables.

\* A row of _issues.
Issue == [scalar : [Scalars -> Statuses], coll : [Collections -> SUBSET Elements],
          modified : Nat, description : Texts]

\* A scalar that a modify has changed, with the value before and after.
Sets == [field : Scalars, old : Statuses, new : Statuses]

\* A row of _updates.
Entry == [stamp : Nat, sets : SUBSET Sets, added : [Collections -> SUBSET Elements],
          removed : [Collections -> SUBSET Elements], comment : Nat]

\* The tables have the same issues.
TablesTyped ==
  /\ issues \in Seq(Issue) /\ comments \in Seq(Seq(Texts))
  /\ updates \in Seq(Seq(Entry)) /\ related \in Seq(SUBSET Nat)
  /\ Len(comments) = Len(issues) /\ Len(updates) = Len(issues) /\ Len(related) = Len(issues)

\* Of every scalar, the history h leads from entry to entry and to its value
\* in issue.
ScalarsLead(h, issue) ==
  \A f \in Scalars : \A k \in Setting(h, f) : \A s \in h[k].sets :
    s.field = f =>
      /\ IsLast(k, Setting(h, f)) => s.new = issue.scalar[f]
      /\ \A j \in Setting(h, f) : \A r \in h[j].sets :
           r.field = f /\ IsLast(j, Setting(h, f) \cap 1 .. k - 1) => s.old = r.new

\* The last entry of the history h about a user in the ccs tells whether it
\* is there in issue.
ElementsLead(h, issue) ==
  \A e \in Elements : \A k \in Mentioning(h, "ccs", e) :
    IsLast(k, Mentioning(h, "ccs", e)) => (e \in issue.coll["ccs"] <=> e \notin h[k].removed["ccs"])

\* Comment 1 is the description; the entries of the history name comments
\* that exist, in order, and their stamps rise and are not ahead of the
\* issue's modified time.
Told(h, issue, cs) ==
  /\ Len(cs) >= 1 /\ issue.description = cs[1]
  /\ \A k \in DOMAIN h :
       /\ h[k].comment # 0 => h[k].comment \in 2 .. Len(cs)
       /\ h[k].stamp <= issue.modified
       /\ \A j \in 1 .. k - 1 :
            /\ h[j].stamp < h[k].stamp
            /\ h[k].comment # 0 => h[j].comment < h[k].comment

\* An issue, its history and its comments agree.
RowAgrees(h, issue, cs) == ScalarsLead(h, issue) /\ ElementsLead(h, issue) /\ Told(h, issue, cs)

\* The inductive invariant of the tracker.
TrackerInv == TablesTyped /\ \A i \in Ids : RowAgrees(updates[i], issues[i], comments[i])

\* It says of every issue what TrackerConsistent does.
LEMMA RowsAgree == TrackerInv => TrackerConsistent
PROOF
  <1>. SUFFICES ASSUME TrackerInv PROVE TrackerConsistent OBVIOUS
  <1>1. HistoryLeadsHere
    BY DEF TrackerInv, RowAgrees, ScalarsLead, ElementsLead, HistoryLeadsHere
  <1>2. Consistent
    BY DEF TrackerInv, RowAgrees, Told, Consistent
  <1>. QED BY <1>1, <1>2 DEF TrackerConsistent

\* modify_issue appends an entry whose old values are the issue's and whose
\* new ones it sets.
LEMMA ScalarsLeadOn ==
  ASSUME NEW h \in Seq(Entry), NEW old \in Issue, NEW new \in Issue, ScalarsLead(h, old), NEW entry \in Entry,
         \A s \in entry.sets : s.old = old.scalar[s.field] /\ s.new = new.scalar[s.field],
         \A f \in Scalars : (\E s \in entry.sets : s.field = f) \/ new.scalar[f] = old.scalar[f]
  PROVE  ScalarsLead(Append(h, entry), new)
PROOF
  <1>. DEFINE n == Len(h) + 1
              g == Append(h, entry)
  <1>1. /\ Len(h) \in Nat /\ DOMAIN h = 1 .. Len(h) /\ DOMAIN g = 1 .. n /\ g[n] = entry
        /\ \A k \in 1 .. Len(h) : g[k] = h[k]
    OBVIOUS
  <1>. HIDE DEF g
  <1>2. ASSUME NEW f \in Scalars
        PROVE  /\ \A k \in 1 .. Len(h) : k \in Setting(g, f) <=> k \in Setting(h, f)
               /\ n \in Setting(g, f) <=> \E s \in entry.sets : s.field = f
               /\ Setting(g, f) \subseteq 1 .. n /\ Setting(h, f) \subseteq 1 .. Len(h)
               /\ \A k \in 1 .. n : k # n => k \in 1 .. Len(h)
    <2>1. \A k \in 1 .. n : k # n => k \in 1 .. Len(h)
      BY <1>1
    <2>. QED BY <1>1, <2>1 DEF Setting
  <1>3. ASSUME NEW f \in Scalars, NEW k \in Setting(g, f), NEW s \in g[k].sets, s.field = f,
               IsLast(k, Setting(g, f))
        PROVE  s.new = new.scalar[f]
    <2>1. CASE k = n
      BY <1>1, <1>3, <2>1
    <2>2. CASE k # n
      <3>1. k \in 1 .. Len(h) /\ k \in Setting(h, f) /\ g[k] = h[k]
        BY <1>1, <1>2, <2>2
      <3>2. n \notin Setting(g, f)
        BY <1>1, <1>3, <3>1 DEF IsLast
      <3>3. new.scalar[f] = old.scalar[f]
        BY <1>2, <3>2
      <3>4. IsLast(k, Setting(h, f))
        BY <1>2, <1>3, <3>1 DEF IsLast
      <3>. QED BY <1>3, <3>1, <3>3, <3>4 DEF ScalarsLead
    <2>. QED BY <2>1, <2>2
  <1>4. ASSUME NEW f \in Scalars, NEW k \in Setting(g, f), NEW s \in g[k].sets, s.field = f,
               NEW j \in Setting(g, f), NEW r \in g[j].sets, r.field = f,
               IsLast(j, Setting(g, f) \cap 1 .. k - 1)
        PROVE  s.old = r.new
    <2>0. k \in 1 .. n /\ j \in 1 .. k - 1
      BY <1>2, <1>4 DEF IsLast
    <2>1. j \in 1 .. Len(h) /\ j \in Setting(h, f) /\ g[j] = h[j]
      <3>1. j \in 1 .. Len(h)
        BY <1>1, <2>0
      <3>. QED BY <1>1, <1>2, <3>1
    <2>2. CASE k = n
      <3>1. IsLast(j, Setting(h, f))
        <4>1. \A i \in Setting(h, f) : i \in Setting(g, f) \cap 1 .. k - 1
          BY <1>1, <1>2, <2>2
        <4>. QED BY <1>4, <2>1, <4>1 DEF IsLast
      <3>2. r.new = old.scalar[f]
        BY <1>4, <2>1, <3>1 DEF ScalarsLead
      <3>3. s.old = old.scalar[f]
        BY <1>1, <1>4, <2>2
      <3>. QED BY <3>2, <3>3
    <2>3. CASE k # n
      <3>1. k \in 1 .. Len(h) /\ k \in Setting(h, f) /\ g[k] = h[k]
        BY <1>1, <1>2, <2>0, <2>3
      <3>2. IsLast(j, Setting(h, f) \cap 1 .. k - 1)
        <4>1. \A i \in Setting(h, f) \cap 1 .. k - 1 : i \in Setting(g, f) \cap 1 .. k - 1
          BY <1>2
        <4>. QED BY <1>4, <2>0, <2>1, <4>1 DEF IsLast
      <3>3. s \in h[k].sets /\ r \in h[j].sets
        BY <2>1, <3>1
      <3>4. \A i \in Setting(h, f) : \A q \in h[i].sets :
              q.field = f /\ IsLast(i, Setting(h, f) \cap 1 .. k - 1) => s.old = q.new
        BY <1>4, <3>1, <3>3 DEF ScalarsLead
      <3>. QED BY <1>4, <2>1, <3>2, <3>3, <3>4
    <2>. QED BY <2>2, <2>3
  <1>5. ScalarsLead(g, new)
    <2>. SUFFICES ASSUME NEW f \in Scalars, NEW k \in Setting(g, f), NEW s \in g[k].sets, s.field = f
         PROVE  /\ IsLast(k, Setting(g, f)) => s.new = new.scalar[f]
                /\ \A j \in Setting(g, f) : \A r \in g[j].sets :
                     r.field = f /\ IsLast(j, Setting(g, f) \cap 1 .. k - 1) => s.old = r.new
      BY DEF ScalarsLead
    <2>. QED BY <1>3, <1>4
  <1>. QED BY <1>5 DEF g

\* modify_issue appends an entry with what it really added and removed.
LEMMA ElementsLeadOn ==
  ASSUME NEW h \in Seq(Entry), NEW old \in Issue, NEW new \in Issue, ElementsLead(h, old), NEW entry \in Entry,
         new.coll["ccs"] = (old.coll["ccs"] \cup entry.added["ccs"]) \ entry.removed["ccs"]
  PROVE  ElementsLead(Append(h, entry), new)
PROOF
  <1>. DEFINE n == Len(h) + 1
              g == Append(h, entry)
  <1>1. /\ Len(h) \in Nat /\ DOMAIN h = 1 .. Len(h) /\ DOMAIN g = 1 .. n /\ g[n] = entry
        /\ \A k \in 1 .. Len(h) : g[k] = h[k]
    OBVIOUS
  <1>. HIDE DEF g
  <1>2. ASSUME NEW e \in Elements, NEW k \in Mentioning(g, "ccs", e), IsLast(k, Mentioning(g, "ccs", e))
        PROVE  e \in new.coll["ccs"] <=> e \notin g[k].removed["ccs"]
    <2>0. k \in 1 .. n /\ e \in g[k].added["ccs"] \cup g[k].removed["ccs"]
      BY <1>1 DEF Mentioning
    <2>1. CASE k = n
      BY <1>1, <2>0, <2>1
    <2>2. CASE k # n
      <3>1. k \in 1 .. Len(h) /\ g[k] = h[k]
        BY <1>1, <2>0, <2>2
      <3>2. k \in Mentioning(h, "ccs", e)
        BY <1>1, <2>0, <3>1 DEF Mentioning
      <3>3. n \notin Mentioning(g, "ccs", e)
        BY <1>1, <1>2, <3>1 DEF IsLast
      <3>4. e \notin entry.added["ccs"] \cup entry.removed["ccs"]
        <4>1. n \in DOMAIN g
          BY <1>1
        <4>. QED BY <1>1, <3>3, <4>1 DEF Mentioning
      <3>5. \A j \in Mentioning(h, "ccs", e) : j \in Mentioning(g, "ccs", e)
        <4>1. \A j \in 1 .. Len(h) : j \in 1 .. n
          BY <1>1
        <4>. QED BY <1>1, <4>1 DEF Mentioning
      <3>6. IsLast(k, Mentioning(h, "ccs", e))
        BY <1>2, <3>2, <3>5 DEF IsLast
      <3>. QED BY <3>1, <3>2, <3>4, <3>6 DEF ElementsLead
    <2>. QED BY <2>1, <2>2
  <1>. QED BY <1>2 DEF ElementsLead, g

\* An entry that is stamped later than the last change, and names the comment
\* that came with it, can be appended.
LEMMA ToldOn ==
  ASSUME NEW h \in Seq(Entry), NEW old \in Issue, NEW new \in Issue, NEW entry \in Entry,
         NEW cs \in Seq(Texts), NEW ds \in Seq(Texts), Told(h, old, cs),
         Len(ds) >= Len(cs), ds[1] = cs[1], new.description = old.description,
         old.modified < entry.stamp, entry.stamp <= new.modified,
         entry.comment # 0 => entry.comment = Len(ds) /\ Len(ds) = Len(cs) + 1
  PROVE  Told(Append(h, entry), new, ds)
PROOF
  <1>. DEFINE n == Len(h) + 1
              g == Append(h, entry)
  <1>1. /\ Len(h) \in Nat /\ DOMAIN h = 1 .. Len(h) /\ DOMAIN g = 1 .. n /\ g[n] = entry
        /\ \A k \in 1 .. Len(h) : g[k] = h[k] /\ h[k] \in Entry
        /\ Len(cs) \in Nat /\ Len(ds) \in Nat
    OBVIOUS
  <1>2. old.modified \in Nat /\ new.modified \in Nat /\ entry.stamp \in Nat /\ entry.comment \in Nat
    BY DEF Issue, Entry
  <1>3. \A k \in 1 .. Len(h) : h[k].stamp \in Nat /\ h[k].comment \in Nat
    BY <1>1 DEF Entry
  <1>. HIDE DEF g
  <1>4. Len(ds) >= 1 /\ new.description = ds[1]
    BY <1>1 DEF Told
  <1>5. ASSUME NEW k \in 1 .. Len(h)
        PROVE  /\ h[k].comment # 0 => h[k].comment \in 2 .. Len(ds) /\ h[k].comment =< Len(cs)
               /\ h[k].stamp <= new.modified /\ h[k].stamp <= old.modified
               /\ \A j \in 1 .. k - 1 : /\ h[j].stamp < h[k].stamp
                                        /\ h[k].comment # 0 => h[j].comment < h[k].comment
    <2>1. /\ h[k].comment # 0 => h[k].comment \in 2 .. Len(cs)
          /\ h[k].stamp <= old.modified
          /\ \A j \in 1 .. k - 1 : /\ h[j].stamp < h[k].stamp
                                   /\ h[k].comment # 0 => h[j].comment < h[k].comment
      BY <1>1 DEF Told
    <2>2. h[k].comment # 0 => h[k].comment \in 2 .. Len(ds) /\ h[k].comment =< Len(cs)
      BY <1>1, <1>3, <2>1
    <2>3. h[k].stamp <= new.modified
      BY <1>2, <1>3, <2>1
    <2>. QED BY <2>1, <2>2, <2>3
  <1>6. ASSUME NEW k \in 1 .. n
        PROVE  /\ g[k].comment # 0 => g[k].comment \in 2 .. Len(ds)
               /\ g[k].stamp <= new.modified
               /\ \A j \in 1 .. k - 1 : /\ g[j].stamp < g[k].stamp
                                        /\ g[k].comment # 0 => g[j].comment < g[k].comment
    <2>0. \A j \in 1 .. k - 1 : j \in 1 .. Len(h)
      BY <1>1
    <2>1. CASE k = n
      <3>1. g[k] = entry
        BY <1>1, <2>1
      <3>2. entry.comment # 0 => entry.comment \in 2 .. Len(ds)
        <4>1. Len(cs) >= 1
          BY DEF Told
        <4>. QED BY <1>1, <4>1
      <3>3. ASSUME NEW j \in 1 .. k - 1
            PROVE  g[j].stamp < entry.stamp /\ (entry.comment # 0 => g[j].comment < entry.comment)
        <4>1. j \in 1 .. Len(h) /\ g[j] = h[j]
          BY <1>1, <2>0
        <4>2. g[j].stamp < entry.stamp
          BY <1>2, <1>3, <1>5, <4>1
        <4>3. entry.comment # 0 => g[j].comment < entry.comment
          BY <1>1, <1>2, <1>3, <1>5, <4>1
        <4>. QED BY <4>2, <4>3
      <3>. QED BY <3>1, <3>2, <3>3
    <2>2. CASE k # n
      <3>1. k \in 1 .. Len(h) /\ g[k] = h[k] /\ \A j \in 1 .. k - 1 : g[j] = h[j]
        BY <1>1, <2>0, <2>2
      <3>. QED BY <1>5, <3>1
    <2>. QED BY <2>1, <2>2
  <1>. QED BY <1>1, <1>4, <1>6 DEF Told, g

\* Comments may be added and edited as long as comment 1 is the description,
\* and the modified time may grow.
LEMMA ToldStill ==
  ASSUME NEW h \in Seq(Entry), NEW old \in Issue, NEW new \in Issue,
         NEW cs \in Seq(Texts), NEW ds \in Seq(Texts), Told(h, old, cs),
         Len(ds) >= Len(cs), ds[1] = new.description, old.modified <= new.modified
  PROVE  Told(h, new, ds)
PROOF
  <1>1. Len(cs) \in Nat /\ Len(ds) \in Nat /\ \A k \in DOMAIN h : h[k] \in Entry OBVIOUS
  <1>2. old.modified \in Nat /\ new.modified \in Nat
    BY DEF Issue
  <1>3. \A k \in DOMAIN h : h[k].stamp \in Nat /\ h[k].comment \in Nat
    BY <1>1 DEF Entry
  <1>4. ASSUME NEW k \in DOMAIN h
        PROVE  /\ h[k].comment # 0 => h[k].comment \in 2 .. Len(ds)
               /\ h[k].stamp <= new.modified
    <2>1. (h[k].comment # 0 => h[k].comment \in 2 .. Len(cs)) /\ h[k].stamp <= old.modified
      BY DEF Told
    <2>. QED BY <1>1, <1>2, <1>3, <2>1
  <1>5. Len(ds) >= 1
    BY <1>1 DEF Told
  <1>. QED BY <1>4, <1>5 DEF Told

\* A change moves an issue's stamp by a microsecond, as floats have it, at least.
Tells ==
  \A i \in Ids :
    \/ UNCHANGED <<issues[i], comments[i], updates[i], related[i]>>
    \/ issues'[i].modified >= issues[i].modified + Micro

\* Nothing of a table is ever taken away.
TablesGrow ==
  /\ Len(issues) <= Len(issues')
  /\ \A i \in Ids : Len(comments[i]) <= Len(comments'[i]) /\ Len(updates[i]) <= Len(updates'[i])

\* A request that writes one issue and leaves its row in agreement.
LEMMA RowStep ==
  ASSUME TrackerInv, NEW i \in Ids, NEW x \in Issue, NEW cs \in Seq(Texts), NEW h \in Seq(Entry), NEW rs \in SUBSET Nat,
         RowAgrees(h, x, cs), Len(comments[i]) <= Len(cs), Len(updates[i]) <= Len(h),
         issues' = [issues EXCEPT ![i] = x], comments' = [comments EXCEPT ![i] = cs],
         updates' = [updates EXCEPT ![i] = h], related' = [related EXCEPT ![i] = rs],
         \/ x.modified >= issues[i].modified + Micro
         \/ x = issues[i] /\ cs = comments[i] /\ h = updates[i] /\ rs = related[i]
  PROVE  TrackerInv' /\ Tells /\ TablesGrow
PROOF
  <1>h. TablesTyped /\ \A k \in Ids : RowAgrees(updates[k], issues[k], comments[k])
    BY DEF TrackerInv
  <1>1. /\ Len(issues) \in Nat /\ i \in 1 .. Len(issues) /\ DOMAIN issues = Ids /\ DOMAIN comments = Ids
        /\ DOMAIN updates = Ids /\ DOMAIN related = Ids
        /\ issues \in Seq(Issue) /\ comments \in Seq(Seq(Texts)) /\ updates \in Seq(Seq(Entry)) /\ related \in Seq(SUBSET Nat)
    BY <1>h DEF TablesTyped, Ids
  <1>2. /\ issues' \in Seq(Issue) /\ Len(issues') = Len(issues)
    BY <1>1
  <1>3. /\ comments' \in Seq(Seq(Texts)) /\ Len(comments') = Len(comments)
    BY <1>1
  <1>4. /\ updates' \in Seq(Seq(Entry)) /\ Len(updates') = Len(updates)
    BY <1>1
  <1>5. /\ related' \in Seq(SUBSET Nat) /\ Len(related') = Len(related)
    BY <1>1
  <1>6. TablesTyped'
    BY <1>h, <1>2, <1>3, <1>4, <1>5 DEF TablesTyped
  <1>7. Ids' = Ids
    BY <1>2 DEF Ids
  <1>8. issues'[i] = x /\ comments'[i] = cs /\ updates'[i] = h /\ related'[i] = rs
    BY <1>1
  <1>9. \A k \in Ids : k # i => /\ issues'[k] = issues[k] /\ comments'[k] = comments[k]
                                /\ updates'[k] = updates[k] /\ related'[k] = related[k]
    BY <1>1
  <1>10. \A k \in Ids : RowAgrees(updates'[k], issues'[k], comments'[k])
    BY <1>h, <1>8, <1>9
  <1>11. TrackerInv'
    BY <1>6, <1>7, <1>10 DEF TrackerInv
  <1>12. Tells
    BY <1>8, <1>9 DEF Tells
  <1>13. TablesGrow
    <2>1. \A k \in Ids : Len(comments[k]) \in Nat /\ Len(updates[k]) \in Nat
      BY <1>1
    <2>2. \A k \in Ids : Len(comments[k]) <= Len(comments'[k]) /\ Len(updates[k]) <= Len(updates'[k])
      BY <1>8, <1>9, <2>1
    <2>. QED BY <1>1, <1>2, <2>2 DEF TablesGrow
  <1>. QED BY <1>11, <1>12, <1>13

\* The float of a number of microseconds, and the microseconds of a float.
LEMMA FloatType ==
  ASSUME NEW k \in Nat
  PROVE  Float(k) \in Nat /\ Wire(k) \in Nat
  BY DEF Float, Wire

\* _rfc3339 never puts a later float before an earlier one, and tells it from one a
\* microsecond before it, if it is a reading of the clock or up to eight of them after.
LEMMA WireTells ==
  ASSUME NEW t \in Nat, NEW u \in Nat, u >= t + Micro
  PROVE  u > t /\ Wire(u) >= Wire(t) /\ (NearClock(u) => Wire(u) > Wire(t))
PROOF
  <1>1. u > t /\ Wire(u) >= Wire(t)
    BY DEF Micro, Wire
  <1>2. ASSUME NearClock(u) PROVE Wire(u) > Wire(t)
    <2>1. PICK n \in 0 .. 8, k \in 0 .. Wire(u) : u = Float(k) + n * Micro
      BY <1>2 DEF NearClock
    <2>2. k \in Nat
      BY FloatType
    <2>3. \A m \in 0 .. 8 : u = Float(k) + m * 4 => Wire(u) >= k + m
      BY <2>2 DEF Float, Wire
    <2>4. \A m \in 0 .. 8 : u = Float(k) + m * 4 /\ u >= t + 4 => Wire(t) < k + m
      BY <2>2 DEF Float, Wire
    <2>5. Wire(u) \in Nat /\ Wire(t) \in Nat
      BY FloatType
    <2>. QED BY <2>1, <2>2, <2>3, <2>4, <2>5 DEF Micro
  <1>. QED BY <1>1, <1>2

\* _touch gives a time after the last change.
LEMMA StampType ==
  ASSUME TrackerInv, NEW i \in Ids, NEW now \in 0 .. MaxNow
  PROVE  /\ Stamp(i, now) \in Nat /\ Stamp(i, now) >= issues[i].modified + Micro /\ issues[i].modified \in Nat
         /\ issues[i] \in Issue
PROOF
  <1>1. issues[i] \in Issue
    BY DEF TrackerInv, TablesTyped, Ids
  <1>2. issues[i].modified \in Nat
    BY <1>1 DEF Issue
  <1>3. now \in Nat
    BY TrackerAssumption DEF TrackerAssumption
  <1>. QED BY <1>1, <1>2, <1>3, FloatType DEF Stamp, Latest, Micro

\* The rows of one issue.
LEMMA RowType ==
  ASSUME TrackerInv, NEW i \in Ids
  PROVE  /\ issues[i] \in Issue /\ comments[i] \in Seq(Texts) /\ updates[i] \in Seq(Entry) /\ related[i] \in SUBSET Nat
         /\ RowAgrees(updates[i], issues[i], comments[i])
         /\ i \in DOMAIN issues /\ i \in DOMAIN comments /\ i \in DOMAIN updates /\ i \in DOMAIN related
PROOF
  <1>1. TablesTyped /\ i \in 1 .. Len(issues)
    BY DEF TrackerInv, Ids
  <1>2. i \in DOMAIN issues /\ i \in DOMAIN comments /\ i \in DOMAIN updates /\ i \in DOMAIN related
    BY <1>1 DEF TablesTyped
  <1>3. issues[i] \in Issue
    BY <1>1, <1>2 DEF TablesTyped
  <1>4. comments[i] \in Seq(Texts)
    BY <1>1, <1>2 DEF TablesTyped
  <1>5. updates[i] \in Seq(Entry)
    BY <1>1, <1>2 DEF TablesTyped
  <1>6. related[i] \in SUBSET Nat
    BY <1>1, <1>2 DEF TablesTyped
  <1>. QED BY <1>2, <1>3, <1>4, <1>5, <1>6 DEF TrackerInv

\* A request that touches an issue and leaves what the history is about
\* alone.
LEMMA TouchStep ==
  ASSUME TrackerInv, NEW i \in Ids, NEW x \in Issue, NEW cs \in Seq(Texts), NEW rs \in SUBSET Nat,
         x.modified >= issues[i].modified + Micro, x.scalar = issues[i].scalar, x.coll["ccs"] = issues[i].coll["ccs"],
         Len(comments[i]) <= Len(cs), cs[1] = x.description,
         issues' = [issues EXCEPT ![i] = x], comments' = [comments EXCEPT ![i] = cs],
         updates' = updates, related' = [related EXCEPT ![i] = rs]
  PROVE  TrackerInv' /\ Tells /\ TablesGrow
PROOF
  <1>1. /\ issues[i] \in Issue /\ comments[i] \in Seq(Texts) /\ updates[i] \in Seq(Entry)
        /\ RowAgrees(updates[i], issues[i], comments[i]) /\ i \in DOMAIN updates
    BY RowType
  <1>2. issues[i].modified \in Nat /\ x.modified \in Nat
    BY <1>1 DEF Issue
  <1>3. ScalarsLead(updates[i], x)
    BY <1>1 DEF RowAgrees, ScalarsLead
  <1>4. ElementsLead(updates[i], x)
    BY <1>1 DEF RowAgrees, ElementsLead
  <1>5. Told(updates[i], x, cs)
    <2>1. Told(updates[i], issues[i], comments[i])
      BY <1>1 DEF RowAgrees
    <2>2. Len(cs) >= Len(comments[i]) /\ issues[i].modified <= x.modified
      BY <1>1, <1>2 DEF Micro
    <2>. QED BY <1>1, <2>1, <2>2, ToldStill
  <1>6. updates' = [updates EXCEPT ![i] = updates[i]]
    <2>1. updates \in Seq(Seq(Entry))
      BY DEF TrackerInv, TablesTyped
    <2>. QED BY <1>1, <2>1
  <1>7. Len(updates[i]) <= Len(updates[i])
    BY <1>1
  <1>8. RowAgrees(updates[i], x, cs)
    BY <1>3, <1>4, <1>5 DEF RowAgrees
  <1>. QED BY <1>1, <1>6, <1>7, <1>8, RowStep

\* create_comment.
LEMMA CommentStep ==
  ASSUME TrackerInv, NEW i \in Ids, NEW now \in 0 .. MaxNow, NEW text \in Texts, CreateComment(i, text, now)
  PROVE  TrackerInv' /\ Tells /\ TablesGrow
PROOF
  <1>. DEFINE x == [issues[i] EXCEPT !.modified = Stamp(i, now)]
              cs == Append(comments[i], text)
  <1>1. /\ issues[i] \in Issue /\ comments[i] \in Seq(Texts) /\ related[i] \in SUBSET Nat
        /\ RowAgrees(updates[i], issues[i], comments[i]) /\ i \in DOMAIN related
    BY RowType
  <1>2. Stamp(i, now) \in Nat /\ Stamp(i, now) >= issues[i].modified + Micro
    BY StampType
  <1>3. /\ x \in Issue /\ x.modified = Stamp(i, now) /\ x.scalar = issues[i].scalar /\ x.coll = issues[i].coll
        /\ x.description = issues[i].description
    BY <1>1, <1>2 DEF Issue
  <1>4. cs \in Seq(Texts) /\ Len(comments[i]) <= Len(cs)
    BY <1>1
  <1>5. cs[1] = x.description
    <2>1. Len(comments[i]) >= 1 /\ comments[i][1] = issues[i].description
      BY <1>1 DEF RowAgrees, Told
    <2>. QED BY <1>1, <1>3, <2>1
  <1>6. issues' = [issues EXCEPT ![i] = x]
    BY DEF CreateComment, Touched
  <1>7. comments' = [comments EXCEPT ![i] = cs] /\ updates' = updates
    BY DEF CreateComment
  <1>8. related' = [related EXCEPT ![i] = related[i]]
    <2>1. related \in Seq(SUBSET Nat)
      BY DEF TrackerInv, TablesTyped
    <2>. QED BY <1>1, <2>1 DEF CreateComment
  <1>. HIDE DEF x, cs
  <1>. QED BY <1>1, <1>2, <1>3, <1>4, <1>5, <1>6, <1>7, <1>8, TouchStep

\* update_comment; of comment 1 it rewrites the description too.
LEMMA UpdateStep ==
  ASSUME TrackerInv, NEW i \in Ids, NEW now \in 0 .. MaxNow, NEW text \in Texts, NEW n, UpdateComment(i, n, text, now)
  PROVE  TrackerInv' /\ Tells /\ TablesGrow
PROOF
  <1>. DEFINE x == [issues[i] EXCEPT !.modified = Stamp(i, now),
                                     !.description = IF n = 1 THEN text ELSE issues[i].description]
              cs == [comments[i] EXCEPT ![n] = text]
  <1>1. /\ issues[i] \in Issue /\ comments[i] \in Seq(Texts) /\ related[i] \in SUBSET Nat
        /\ RowAgrees(updates[i], issues[i], comments[i]) /\ i \in DOMAIN related /\ i \in DOMAIN issues
        /\ i \in DOMAIN comments
    BY RowType
  <1>0. n \in 1 .. Len(comments[i])
    BY DEF UpdateComment
  <1>2. Stamp(i, now) \in Nat /\ Stamp(i, now) >= issues[i].modified + Micro
    BY StampType
  <1>3. /\ x \in Issue /\ x.modified = Stamp(i, now) /\ x.scalar = issues[i].scalar /\ x.coll = issues[i].coll
        /\ x.description = IF n = 1 THEN text ELSE issues[i].description
    BY <1>1, <1>2 DEF Issue
  <1>4. cs \in Seq(Texts) /\ Len(comments[i]) <= Len(cs)
    BY <1>0, <1>1
  <1>5. cs[1] = x.description
    <2>1. Len(comments[i]) >= 1 /\ comments[i][1] = issues[i].description
      BY <1>1 DEF RowAgrees, Told
    <2>. QED BY <1>0, <1>1, <1>3, <2>1
  <1>6. issues' = [issues EXCEPT ![i] = x]
    <2>1. issues' = [Touched(i, now) EXCEPT ![i].description = IF n = 1 THEN text ELSE @]
      BY DEF UpdateComment
    <2>2. Touched(i, now) = [issues EXCEPT ![i] = [issues[i] EXCEPT !.modified = Stamp(i, now)]]
      BY DEF Touched
    <2>3. Touched(i, now)[i] = [issues[i] EXCEPT !.modified = Stamp(i, now)]
      BY <1>1, <2>2
    <2>. QED BY <1>1, <2>1, <2>2, <2>3 DEF Issue
  <1>7. comments' = [comments EXCEPT ![i] = cs] /\ updates' = updates
    BY DEF UpdateComment
  <1>8. related' = [related EXCEPT ![i] = related[i]]
    <2>1. related \in Seq(SUBSET Nat)
      BY DEF TrackerInv, TablesTyped
    <2>. QED BY <1>1, <2>1 DEF UpdateComment
  <1>. HIDE DEF x, cs
  <1>. QED BY <1>1, <1>2, <1>3, <1>4, <1>5, <1>6, <1>7, <1>8, TouchStep

\* create_relationship.
LEMMA RelateStep ==
  ASSUME TrackerInv, NEW i \in Ids, NEW now \in 0 .. MaxNow, NEW target, CreateRelationship(i, target, now)
  PROVE  TrackerInv' /\ Tells /\ TablesGrow
PROOF
  <1>. DEFINE x == [issues[i] EXCEPT !.modified = Stamp(i, now)]
              rs == related[i] \cup {target}
  <1>1. /\ issues[i] \in Issue /\ comments[i] \in Seq(Texts) /\ related[i] \in SUBSET Nat
        /\ RowAgrees(updates[i], issues[i], comments[i]) /\ i \in DOMAIN related /\ i \in DOMAIN comments
    BY RowType
  <1>2. Stamp(i, now) \in Nat /\ Stamp(i, now) >= issues[i].modified + Micro
    BY StampType
  <1>3. /\ x \in Issue /\ x.modified = Stamp(i, now) /\ x.scalar = issues[i].scalar /\ x.coll = issues[i].coll
        /\ x.description = issues[i].description
    BY <1>1, <1>2 DEF Issue
  <1>4. Len(comments[i]) <= Len(comments[i]) /\ comments[i][1] = x.description
    BY <1>1, <1>3 DEF RowAgrees, Told
  <1>5. rs \in SUBSET Nat
    <2>1. target \in Nat
      BY DEF CreateRelationship, Ids
    <2>. QED BY <1>1, <2>1
  <1>6. issues' = [issues EXCEPT ![i] = x]
    BY DEF CreateRelationship, Touched
  <1>7. related' = [related EXCEPT ![i] = rs] /\ updates' = updates
    BY DEF CreateRelationship
  <1>8. comments' = [comments EXCEPT ![i] = comments[i]]
    <2>1. comments \in Seq(Seq(Texts))
      BY DEF TrackerInv, TablesTyped
    <2>. QED BY <1>1, <2>1 DEF CreateRelationship
  <1>. HIDE DEF x, rs
  <1>. QED BY <1>1, <1>2, <1>3, <1>4, <1>5, <1>6, <1>7, <1>8, TouchStep

\* The issue is touched and on the hotlists hs.
OnHotlists(i, now, hs) ==
  /\ issues' = [Touched(i, now) EXCEPT ![i].coll["hotlistIds"] = hs]
  /\ UNCHANGED <<comments, updates, related>>

\* create_hotlist_entry and delete_hotlist_entry, when they change anything.
LEMMA HotlistStep ==
  ASSUME TrackerInv, NEW i \in Ids, NEW now \in 0 .. MaxNow, NEW hs \in SUBSET Elements, OnHotlists(i, now, hs)
  PROVE  TrackerInv' /\ Tells /\ TablesGrow
PROOF
  <1>. DEFINE x == [issues[i] EXCEPT !.modified = Stamp(i, now),
                                     !.coll = [issues[i].coll EXCEPT !["hotlistIds"] = hs]]
  <1>1. /\ issues[i] \in Issue /\ comments[i] \in Seq(Texts) /\ related[i] \in SUBSET Nat
        /\ RowAgrees(updates[i], issues[i], comments[i]) /\ i \in DOMAIN related /\ i \in DOMAIN comments
        /\ i \in DOMAIN issues
    BY RowType
  <1>2. Stamp(i, now) \in Nat /\ Stamp(i, now) >= issues[i].modified + Micro
    BY StampType
  <1>0. issues[i].coll \in [Collections -> SUBSET Elements] /\ "hotlistIds" \in Collections
    BY <1>1 DEF Issue, Collections
  <1>3. /\ x \in Issue /\ x.modified = Stamp(i, now) /\ x.scalar = issues[i].scalar
        /\ x.coll = [issues[i].coll EXCEPT !["hotlistIds"] = hs] /\ x.description = issues[i].description
    BY <1>0, <1>1, <1>2 DEF Issue
  <1>4. x.coll["ccs"] = issues[i].coll["ccs"]
    BY <1>0, <1>3
  <1>5. Len(comments[i]) <= Len(comments[i]) /\ comments[i][1] = x.description
    BY <1>1, <1>3 DEF RowAgrees, Told
  <1>6. issues' = [issues EXCEPT ![i] = x]
    <2>2. Touched(i, now) = [issues EXCEPT ![i] = [issues[i] EXCEPT !.modified = Stamp(i, now)]]
      BY DEF Touched
    <2>3. Touched(i, now)[i] = [issues[i] EXCEPT !.modified = Stamp(i, now)]
      BY <1>1, <2>2
    <2>. QED BY <1>1, <2>2, <2>3 DEF Issue, OnHotlists
  <1>8. comments' = [comments EXCEPT ![i] = comments[i]] /\ related' = [related EXCEPT ![i] = related[i]]
    <2>1. comments \in Seq(Seq(Texts)) /\ related \in Seq(SUBSET Nat)
      BY DEF TrackerInv, TablesTyped
    <2>. QED BY <1>1, <2>1 DEF OnHotlists
  <1>7. updates' = updates
    BY DEF OnHotlists
  <1>9. x.modified >= issues[i].modified + Micro
    BY <1>2, <1>3
  <1>. HIDE DEF x
  <1>. QED BY <1>1, <1>3, <1>4, <1>5, <1>6, <1>7, <1>8, <1>9, TouchStep

\* create_issue: a new row in every table, with an empty history.
LEMMA CreateIssueStep ==
  ASSUME TrackerInv, NEW status \in Statuses, NEW text \in Texts, NEW now \in 0 .. MaxNow,
         CreateIssue(status, text, now)
  PROVE  TrackerInv' /\ Tells /\ TablesGrow
PROOF
  <1>. DEFINE x == [scalar |-> [f \in Scalars |-> status], coll |-> [c \in Collections |-> {}],
                    modified |-> Float(now), description |-> text]
              n == Len(issues) + 1
  <1>1. now \in Nat
    BY TrackerAssumption DEF TrackerAssumption
  <1>2. x \in Issue /\ x.description = text
    BY <1>1, FloatType DEF Issue
  <1>3. /\ issues' = Append(issues, x) /\ comments' = Append(comments, <<text>>)
        /\ updates' = Append(updates, <<>>) /\ related' = Append(related, {})
    BY DEF CreateIssue
  <1>. HIDE DEF x
  <1>4. /\ TablesTyped /\ Len(issues) \in Nat /\ Len(comments) = Len(issues) /\ Len(updates) = Len(issues)
        /\ Len(related) = Len(issues) /\ issues \in Seq(Issue) /\ comments \in Seq(Seq(Texts))
        /\ updates \in Seq(Seq(Entry)) /\ related \in Seq(SUBSET Nat)
    BY DEF TrackerInv, TablesTyped
  <1>5. /\ issues' \in Seq(Issue) /\ Len(issues') = n /\ issues'[n] = x /\ \A i \in 1 .. Len(issues) : issues'[i] = issues[i]
    BY <1>2, <1>3, <1>4
  <1>6. /\ comments' \in Seq(Seq(Texts)) /\ Len(comments') = n /\ comments'[n] = <<text>>
        /\ \A i \in 1 .. Len(issues) : comments'[i] = comments[i]
    <2>1. <<text>> \in Seq(Texts) OBVIOUS
    <2>. QED BY <1>3, <1>4, <2>1
  <1>7. /\ updates' \in Seq(Seq(Entry)) /\ Len(updates') = n /\ updates'[n] = <<>>
        /\ \A i \in 1 .. Len(issues) : updates'[i] = updates[i]
    <2>1. <<>> \in Seq(Entry) OBVIOUS
    <2>. QED BY <1>3, <1>4, <2>1
  <1>8. /\ related' \in Seq(SUBSET Nat) /\ Len(related') = n /\ \A i \in 1 .. Len(issues) : related'[i] = related[i]
    BY <1>3, <1>4
  <1>9. RowAgrees(<<>>, x, <<text>>)
    BY <1>2 DEF RowAgrees, ScalarsLead, ElementsLead, Told, Setting, Mentioning
  <1>10. TrackerInv'
    <2>1. TablesTyped'
      BY <1>5, <1>6, <1>7, <1>8 DEF TablesTyped
    <2>2. ASSUME NEW i \in 1 .. n PROVE RowAgrees(updates'[i], issues'[i], comments'[i])
      <3>1. CASE i = n
        BY <1>5, <1>6, <1>7, <1>9, <3>1
      <3>2. CASE i \in 1 .. Len(issues)
        BY <1>5, <1>6, <1>7, <3>2 DEF TrackerInv, Ids
      <3>. QED BY <1>4, <3>1, <3>2
    <2>. QED BY <1>5, <2>1, <2>2 DEF TrackerInv, Ids
  <1>11. Tells
    BY <1>5, <1>6, <1>7, <1>8 DEF Tells, Ids
  <1>12. TablesGrow
    <2>1. \A i \in Ids : Len(comments[i]) \in Nat /\ Len(updates[i]) \in Nat
      BY <1>4 DEF Ids
    <2>2. Len(issues) <= Len(issues')
      BY <1>4, <1>5
    <2>3. ASSUME NEW i \in Ids
          PROVE  Len(comments[i]) <= Len(comments'[i]) /\ Len(updates[i]) <= Len(updates'[i])
      <3>1. comments'[i] = comments[i] /\ updates'[i] = updates[i]
        BY <1>6, <1>7 DEF Ids
      <3>. QED BY <2>1, <3>1
    <2>. QED BY <2>2, <2>3 DEF TablesGrow
  <1>. QED BY <1>10, <1>11, <1>12

\* What modify_issue found to change in an issue: old values are the issue's,
\* and no field twice.
ChangesOf(issue, ch) ==
  /\ ch = [sets |-> ch.sets, added |-> ch.added, removed |-> ch.removed]
  /\ ch.sets \in SUBSET Sets
  /\ ch.added \in [Collections -> SUBSET Elements] /\ ch.removed \in [Collections -> SUBSET Elements]
  /\ \A s \in ch.sets : s.old = issue.scalar[s.field]
  /\ \A s, r \in ch.sets : s.field = r.field => s = r

\* The edits of a body that _parse_modify lets through: every one is of a
\* scalar or a collection, and a scalar has one.
LEMMA BodyEdits ==
  ASSUME NEW b \in Bodies
  PROVE  /\ \A e \in b : \/ e.field \in Scalars /\ e.value \in Statuses /\ e.field \notin Collections
                         \/ e.field \in Collections /\ e.value \in Elements /\ e.field \notin Scalars
         /\ \A x, y \in b : x.field \in Scalars /\ x.field = y.field => x = y
PROOF
  <1>1. PICK k \in 0 .. MaxMasked : b \in kSubset(k, {e \in Edits : Accepted(e)})
    BY DEF Bodies
  <1>2. b \subseteq {e \in Edits : Accepted(e)}
    BY <1>1 DEF kSubset
  <1>3. \A f \in Scalars : f \notin Collections
    BY TrackerAssumption DEF TrackerAssumption
  <1>4. \A e \in b : \/ e.field \in Scalars /\ e.value \in Statuses
                     \/ e.field \in Collections /\ e.value \in Elements
    BY <1>2 DEF Accepted, SurfaceScalars
  <1>5. \A x, y \in b : x.field \in Scalars /\ x.field = y.field => x = y
    BY DEF Bodies, SurfaceScalars
  <1>. QED BY <1>3, <1>4, <1>5

\* From such a body come such changes.
LEMMA ChangesType ==
  ASSUME TrackerInv, NEW i \in Ids, NEW b \in Bodies
  PROVE  ChangesOf(issues[i], Changes(i, b))
PROOF
  <1>. DEFINE ch == Changes(i, b)
              old == issues[i]
              with(m, f) == {e.value : e \in {x \in b : x.mask = m /\ x.field = f}} \cap Elements
              sets == {e \in b : e.field \in Scalars /\ old.scalar[e.field] # e.value}
  <1>0. old \in Issue
    BY RowType
  <1>1. /\ ch.sets = {[field |-> e.field, old |-> old.scalar[e.field], new |-> e.value] : e \in sets}
        /\ ch.added = [c \in Collections |-> with("add", c) \ old.coll[c]]
        /\ ch.removed = [c \in Collections |-> with("remove", c) \cap (old.coll[c] \cup with("add", c))]
        /\ ch = [sets |-> ch.sets, added |-> ch.added, removed |-> ch.removed]
    BY DEF Changes, DriverScalars
  <1>2. \A m, f : with(m, f) \subseteq Elements OBVIOUS
  <1>3. old.scalar \in [Scalars -> Statuses] /\ old.coll \in [Collections -> SUBSET Elements]
    BY <1>0 DEF Issue
  <1>. HIDE DEF ch, with, old
  <1>4. ch.added \in [Collections -> SUBSET Elements] /\ ch.removed \in [Collections -> SUBSET Elements]
    BY <1>1, <1>2
  <1>5. \A e \in sets : e.field \in Scalars /\ e.value \in Statuses /\ old.scalar[e.field] \in Statuses
    <2>1. \A e \in sets : e.field \in Scalars /\ e \in b OBVIOUS
    <2>2. \A e \in sets : e.value \in Statuses
      BY <2>1, BodyEdits
    <2>. QED BY <1>3, <2>1, <2>2
  <1>6. \A x, y \in sets : x.field = y.field => x = y
    BY BodyEdits
  <1>. HIDE DEF sets
  <1>7. ch.sets \in SUBSET Sets
    BY <1>1, <1>5 DEF Sets
  <1>8. \A s \in ch.sets : s.old = old.scalar[s.field]
    BY <1>1
  <1>9. \A s, r \in ch.sets : s.field = r.field => s = r
    BY <1>1, <1>6
  <1>. QED BY <1>1, <1>4, <1>7, <1>8, <1>9 DEF ChangesOf, ch, old

\* Applying changes sets the scalars to their new values and leaves the
\* others.
LEMMA AppliedType ==
  ASSUME NEW issue \in Issue, NEW ch, ChangesOf(issue, ch)
  PROVE  LET x == Applied(issue, ch)
         IN  /\ x \in Issue /\ x.modified = issue.modified /\ x.description = issue.description
             /\ \A s \in ch.sets : s.new = x.scalar[s.field]
             /\ \A f \in Scalars : (\E s \in ch.sets : s.field = f) \/ x.scalar[f] = issue.scalar[f]
             /\ x.coll["ccs"] = (issue.coll["ccs"] \cup ch.added["ccs"]) \ ch.removed["ccs"]
PROOF
  <1>. DEFINE sc == [f \in Scalars |-> IF \E s \in ch.sets : s.field = f
                                         THEN (CHOOSE s \in ch.sets : s.field = f).new ELSE issue.scalar[f]]
              co == [c \in Collections |-> (issue.coll[c] \cup ch.added[c]) \ ch.removed[c]]
              x == Applied(issue, ch)
  <1>1. x = [issue EXCEPT !.scalar = sc, !.coll = co]
    BY DEF Applied
  <1>2. /\ issue.scalar \in [Scalars -> Statuses] /\ issue.coll \in [Collections -> SUBSET Elements]
        /\ ch.added \in [Collections -> SUBSET Elements] /\ ch.removed \in [Collections -> SUBSET Elements]
        /\ ch.sets \in SUBSET Sets
    BY DEF Issue, ChangesOf
  <1>3. ASSUME NEW s \in ch.sets PROVE s.field \in Scalars /\ s.new \in Statuses
    BY <1>2 DEF Sets
  <1>4. ASSUME NEW s \in ch.sets PROVE (CHOOSE r \in ch.sets : r.field = s.field) = s
    BY DEF ChangesOf
  <1>5. \A s \in ch.sets : sc[s.field] = s.new
    BY <1>3, <1>4
  <1>6. sc \in [Scalars -> Statuses]
    <2>1. ASSUME NEW f \in Scalars PROVE sc[f] \in Statuses
      <3>1. CASE \E s \in ch.sets : s.field = f
        <4>1. PICK s \in ch.sets : s.field = f
          BY <3>1
        <4>. QED BY <1>3, <1>5, <4>1
      <3>2. CASE ~\E s \in ch.sets : s.field = f
        BY <1>2, <3>2
      <3>. QED BY <3>1, <3>2
    <2>. QED BY <2>1
  <1>7. \A f \in Scalars : (\E s \in ch.sets : s.field = f) \/ sc[f] = issue.scalar[f] OBVIOUS
  <1>8. co \in [Collections -> SUBSET Elements]
    <2>1. \A c \in Collections : issue.coll[c] \in SUBSET Elements /\ ch.added[c] \in SUBSET Elements
      BY <1>2
    <2>. QED BY <2>1
  <1>9. co["ccs"] = (issue.coll["ccs"] \cup ch.added["ccs"]) \ ch.removed["ccs"]
    BY DEF Collections
  <1>. HIDE DEF sc, co
  <1>10. x \in Issue /\ x.scalar = sc /\ x.coll = co /\ x.modified = issue.modified /\ x.description = issue.description
    <2>1. issue \in [scalar : [Scalars -> Statuses], coll : [Collections -> SUBSET Elements],
                     modified : Nat, description : Texts]
      BY DEF Issue
    <2>. HIDE DEF x
    <2>. QED BY <1>1, <1>6, <1>8, <2>1 DEF Issue
  <1>. QED BY <1>5, <1>7, <1>9, <1>10

\* modify_issue, with a comment or without, and the one that changes nothing.
LEMMA ModifyStep ==
  ASSUME TrackerInv, NEW i \in Ids, NEW now \in 0 .. MaxNow, NEW b \in Bodies, NEW c \in Texts \cup {"none"},
         ModifyIssue(i, b, c, now)
  PROVE  TrackerInv' /\ Tells /\ TablesGrow
PROOF
  <1>. DEFINE ch == Changes(i, b)
              known == \A e \in b : e.field \in DriverScalars \cup Collections
              n == IF c = "none" THEN 0 ELSE Len(comments[i]) + 1
              stamp == IF n = 0 THEN Stamp(i, now) ELSE Stamp(i, now) + Micro
              idle == NoChanges(ch) /\ n = 0
              x == [Applied(issues[i], ch) EXCEPT !.modified = stamp]
              cs == IF n = 0 THEN comments[i] ELSE Append(comments[i], c)
              entry == [stamp |-> stamp, sets |-> ch.sets, added |-> ch.added, removed |-> ch.removed, comment |-> n]
  <1>0. known
    BY BodyEdits DEF DriverScalars
  <1>1. /\ issues[i] \in Issue /\ comments[i] \in Seq(Texts) /\ updates[i] \in Seq(Entry) /\ related[i] \in SUBSET Nat
        /\ RowAgrees(updates[i], issues[i], comments[i])
        /\ i \in DOMAIN issues /\ i \in DOMAIN comments /\ i \in DOMAIN updates /\ i \in DOMAIN related
    BY RowType
  <1>2. /\ issues \in Seq(Issue) /\ comments \in Seq(Seq(Texts)) /\ updates \in Seq(Seq(Entry)) /\ related \in Seq(SUBSET Nat)
    BY DEF TrackerInv, TablesTyped
  <1>3. /\ issues' = [issues EXCEPT ![i] = IF idle THEN issues[i] ELSE x]
        /\ comments' = IF n = 0 THEN comments ELSE [comments EXCEPT ![i] = Append(comments[i], c)]
        /\ updates' = IF idle THEN updates ELSE [updates EXCEPT ![i] = Append(updates[i], entry)]
        /\ related' = related
    BY <1>0 DEF ModifyIssue, Record
  <1>4. related' = [related EXCEPT ![i] = related[i]]
    BY <1>1, <1>2, <1>3
  <1>5. comments' = [comments EXCEPT ![i] = cs]
    <2>1. comments = [comments EXCEPT ![i] = comments[i]]
      BY <1>1, <1>2
    <2>2. CASE n = 0
      BY <1>3, <2>1, <2>2
    <2>3. CASE n # 0
      BY <1>3, <2>3
    <2>. QED BY <2>2, <2>3
  <1>6. CASE idle
    <2>1. issues' = [issues EXCEPT ![i] = issues[i]]
      BY <1>3, <1>6
    <2>2. cs = comments[i]
      BY <1>6
    <2>3. updates' = [updates EXCEPT ![i] = updates[i]]
      BY <1>1, <1>2, <1>3, <1>6
    <2>4. Len(comments[i]) <= Len(comments[i]) /\ Len(updates[i]) <= Len(updates[i])
      BY <1>1
    <2>5. comments' = [comments EXCEPT ![i] = comments[i]]
      BY <1>5, <2>2
    <2>. HIDE DEF cs, idle, x, n, ch, entry
    <2>. QED BY <1>1, <1>4, <2>1, <2>3, <2>4, <2>5, RowStep
  <1>7. CASE ~idle
    <2>. DEFINE h == Append(updates[i], entry)
    <2>1. /\ issues' = [issues EXCEPT ![i] = x] /\ updates' = [updates EXCEPT ![i] = h]
      BY <1>3, <1>7
    <2>2. Stamp(i, now) \in Nat /\ Stamp(i, now) >= issues[i].modified + Micro /\ issues[i].modified \in Nat
      BY StampType
    <2>3. stamp \in Nat /\ stamp >= issues[i].modified + Micro
      BY <2>2 DEF Micro
    <2>4. n \in Nat /\ (n # 0 => n = Len(comments[i]) + 1 /\ c \in Texts)
      BY <1>1
    <2>5. ChangesOf(issues[i], ch)
      BY ChangesType
    <2>. HIDE DEF ch, stamp
    <2>6. /\ Applied(issues[i], ch) \in Issue /\ Applied(issues[i], ch).description = issues[i].description
          /\ \A s \in ch.sets : s.new = Applied(issues[i], ch).scalar[s.field]
          /\ \A f \in Scalars : (\E s \in ch.sets : s.field = f) \/ Applied(issues[i], ch).scalar[f] = issues[i].scalar[f]
          /\ Applied(issues[i], ch).coll["ccs"] = (issues[i].coll["ccs"] \cup ch.added["ccs"]) \ ch.removed["ccs"]
      BY <1>1, <2>5, AppliedType
    <2>7. /\ x \in Issue /\ x.modified = stamp /\ x.description = issues[i].description
          /\ x.scalar = Applied(issues[i], ch).scalar /\ x.coll = Applied(issues[i], ch).coll
      BY <2>3, <2>6 DEF Issue
    <2>8. /\ entry \in Entry /\ entry.stamp = stamp /\ entry.sets = ch.sets /\ entry.added = ch.added
          /\ entry.removed = ch.removed /\ entry.comment = n
      BY <2>3, <2>4, <2>5 DEF Entry, ChangesOf
    <2>9. cs \in Seq(Texts) /\ Len(cs) = (IF n = 0 THEN Len(comments[i]) ELSE Len(comments[i]) + 1)
      BY <1>1, <2>4
    <2>10. cs[1] = comments[i][1]
      <3>1. Len(comments[i]) >= 1
        BY <1>1 DEF RowAgrees, Told
      <3>. QED BY <1>1, <2>4, <3>1
    <2>. HIDE DEF n, cs, entry, x
    <2>11. ScalarsLead(h, x)
      <3>1. ScalarsLead(updates[i], issues[i])
        BY <1>1 DEF RowAgrees
      <3>2. \A s \in entry.sets : s.old = issues[i].scalar[s.field] /\ s.new = x.scalar[s.field]
        BY <2>5, <2>6, <2>7, <2>8 DEF ChangesOf
      <3>3. \A f \in Scalars : (\E s \in entry.sets : s.field = f) \/ x.scalar[f] = issues[i].scalar[f]
        BY <2>6, <2>7, <2>8
      <3>. QED BY <1>1, <2>7, <2>8, <3>1, <3>2, <3>3, ScalarsLeadOn
    <2>12. ElementsLead(h, x)
      <3>1. ElementsLead(updates[i], issues[i])
        BY <1>1 DEF RowAgrees
      <3>2. x.coll["ccs"] = (issues[i].coll["ccs"] \cup entry.added["ccs"]) \ entry.removed["ccs"]
        BY <2>6, <2>7, <2>8
      <3>. QED BY <1>1, <2>7, <2>8, <3>1, <3>2, ElementsLeadOn
    <2>13. Told(h, x, cs)
      <3>1. Told(updates[i], issues[i], comments[i])
        BY <1>1 DEF RowAgrees
      <3>2. Len(cs) >= Len(comments[i])
        BY <1>1, <2>9
      <3>3. issues[i].modified < entry.stamp /\ entry.stamp <= x.modified
        BY <2>2, <2>3, <2>7, <2>8 DEF Micro
      <3>4. entry.comment # 0 => entry.comment = Len(cs) /\ Len(cs) = Len(comments[i]) + 1
        BY <2>4, <2>8, <2>9
      <3>. QED BY <1>1, <2>7, <2>8, <2>9, <2>10, <3>1, <3>2, <3>3, <3>4, ToldOn
    <2>14. RowAgrees(h, x, cs)
      BY <2>11, <2>12, <2>13 DEF RowAgrees
    <2>15. h \in Seq(Entry) /\ Len(updates[i]) <= Len(h)
      BY <1>1, <2>8
    <2>16. Len(comments[i]) <= Len(cs) /\ x.modified >= issues[i].modified + Micro
      BY <1>1, <2>3, <2>7, <2>9
    <2>. HIDE DEF h
    <2>. QED BY <1>1, <1>4, <1>5, <2>1, <2>7, <2>9, <2>14, <2>15, <2>16, RowStep
  <1>. QED BY <1>6, <1>7

\* A request that only reads.
LEMMA Unwritten ==
  ASSUME TrackerInv, UNCHANGED tracker
  PROVE  TrackerInv' /\ Tells /\ TablesGrow
PROOF
  <1>1. UNCHANGED <<issues, comments, updates, related>>
    BY DEF tracker
  <1>2. TrackerInv'
    BY <1>1 DEF TrackerInv, TablesTyped, Ids
  <1>3. Tells
    BY <1>1 DEF Tells
  <1>4. TablesGrow
    <2>1. Len(issues) \in Nat
      BY DEF TrackerInv, TablesTyped
    <2>2. ASSUME NEW i \in Ids PROVE Len(comments[i]) \in Nat /\ Len(updates[i]) \in Nat
      BY RowType
    <2>. QED BY <1>1, <2>1, <2>2 DEF TablesGrow
  <1>. QED BY <1>2, <1>3, <1>4

\* Every request that writes an issue.
LEMMA WriteStep ==
  ASSUME TrackerInv, NEW i \in Ids, NEW now \in 0 .. MaxNow, Write(i, now)
  PROVE  TrackerInv' /\ Tells /\ TablesGrow
PROOF
  <1>1. CASE \E b \in Bodies, c \in Texts \cup {"none"} : ModifyIssue(i, b, c, now)
    BY <1>1, ModifyStep
  <1>2. CASE \E t \in Texts : CreateComment(i, t, now)
    BY <1>2, CommentStep
  <1>3. CASE \E n \in DOMAIN comments[i], t \in Texts : UpdateComment(i, n, t, now)
    BY <1>3, UpdateStep
  <1>4. CASE \E j \in 1 .. MaxIssues : CreateRelationship(i, j, now)
    BY <1>4, RelateStep
  <1>5. ASSUME NEW h \in Elements, CreateHotlistEntry(i, h, now) PROVE TrackerInv' /\ Tells /\ TablesGrow
    <2>1. issues[i] \in Issue
      BY RowType
    <2>2. issues[i].coll["hotlistIds"] \cup {h} \in SUBSET Elements
      BY <2>1 DEF Issue, Collections
    <2>3. CASE h \in issues[i].coll["hotlistIds"]
      <3>1. UNCHANGED tracker
        BY <1>5, <2>3 DEF CreateHotlistEntry, tracker
      <3>. QED BY <3>1, Unwritten
    <2>4. CASE h \notin issues[i].coll["hotlistIds"]
      <3>1. issues' = [Touched(i, now) EXCEPT ![i].coll["hotlistIds"] = @ \cup {h}]
        BY <1>5, <2>4 DEF CreateHotlistEntry
      <3>2. Touched(i, now)[i].coll["hotlistIds"] = issues[i].coll["hotlistIds"]
        <4>1. i \in DOMAIN issues
          BY RowType
        <4>2. Touched(i, now)[i] = [issues[i] EXCEPT !.modified = Stamp(i, now)]
          BY <4>1 DEF Touched
        <4>. QED BY <2>1, <4>2 DEF Issue
      <3>3. OnHotlists(i, now, issues[i].coll["hotlistIds"] \cup {h})
        BY <1>5, <3>1, <3>2 DEF CreateHotlistEntry, OnHotlists
      <3>. QED BY <2>2, <3>3, HotlistStep
    <2>. QED BY <2>3, <2>4
  <1>6. ASSUME NEW h \in Elements, DeleteHotlistEntry(i, h, now) PROVE TrackerInv' /\ Tells /\ TablesGrow
    <2>1. issues[i] \in Issue
      BY RowType
    <2>2. issues[i].coll["hotlistIds"] \ {h} \in SUBSET Elements
      BY <2>1 DEF Issue, Collections
    <2>3. issues' = [Touched(i, now) EXCEPT ![i].coll["hotlistIds"] = @ \ {h}]
      BY <1>6 DEF DeleteHotlistEntry
    <2>4. Touched(i, now)[i].coll["hotlistIds"] = issues[i].coll["hotlistIds"]
      <3>1. i \in DOMAIN issues
        BY RowType
      <3>2. Touched(i, now)[i] = [issues[i] EXCEPT !.modified = Stamp(i, now)]
        BY <3>1 DEF Touched
      <3>. QED BY <2>1, <3>2 DEF Issue
    <2>5. OnHotlists(i, now, issues[i].coll["hotlistIds"] \ {h})
      BY <1>6, <2>3, <2>4 DEF DeleteHotlistEntry, OnHotlists
    <2>. QED BY <2>2, <2>5, HotlistStep
  <1>. QED BY <1>1, <1>2, <1>3, <1>4, <1>5, <1>6 DEF Write

\* Every request keeps the invariant, tells its pollers, and takes nothing
\* away.
LEMMA TrackerInductive == TrackerInv /\ [TrackerNext]_trackerVars => TrackerInv' /\ Tells /\ TablesGrow
PROOF
  <1>. SUFFICES ASSUME TrackerInv, [TrackerNext]_trackerVars PROVE TrackerInv' /\ Tells /\ TablesGrow OBVIOUS
  <1>1. CASE UNCHANGED tracker
    BY <1>1, Unwritten
  <1>2. CASE \E now \in 0 .. MaxNow : Create(now)
    BY <1>2, CreateIssueStep DEF Create
  <1>3. CASE \E now \in 0 .. MaxNow : \E i \in Ids : Write(i, now)
    BY <1>3, WriteStep
  <1>4. [TrackerNext]_trackerVars => \/ UNCHANGED tracker \/ \E now \in 0 .. MaxNow : Create(now)
                                     \/ \E now \in 0 .. MaxNow : \E i \in Ids : Write(i, now)
    BY DEF TrackerNext, StartPaging, NextPage, StopPaging, trackerVars
  <1>. QED BY <1>1, <1>2, <1>3, <1>4

\* The empty tracker satisfies it.
LEMMA TrackerInitially == TrackerInit => TrackerInv
PROOF
  <1>. SUFFICES ASSUME TrackerInit PROVE TrackerInv OBVIOUS
  <1>1. issues = <<>> /\ comments = <<>> /\ updates = <<>> /\ related = <<>>
    BY DEF TrackerInit
  <1>2. TablesTyped
    <2>1. issues \in Seq(Issue)
      BY <1>1
    <2>2. comments \in Seq(Seq(Texts))
      BY <1>1
    <2>3. updates \in Seq(Seq(Entry))
      BY <1>1
    <2>4. related \in Seq(SUBSET Nat)
      BY <1>1
    <2>. QED BY <1>1, <2>1, <2>2, <2>3, <2>4 DEF TablesTyped
  <1>3. Ids = {}
    BY <1>1 DEF Ids
  <1>. QED BY <1>2, <1>3 DEF TrackerInv

\* The invariant holds of the tracker for every set of fields, elements and
\* texts, every bound, and every clock.
THEOREM TrackerInvariance == TrackerSpec => []TrackerInv
  BY TrackerInitially, TrackerInductive, PTL DEF TrackerSpec

\* The history of an issue leads to its present state, scalar by scalar and
\* element by element; the description is comment 1, and history and comments
\* are in step: every entry of modify_issue is made from the state it changes
\* and stamped after it.
THEOREM TrackerAgrees == TrackerSpec => []TrackerConsistent
  BY TrackerInvariance, RowsAgree, PTL

\* What a poller of modifiedTime sees of a step.
Shows ==
  \A i \in Ids :
    \/ UNCHANGED <<issues[i], comments[i], updates[i], related[i]>>
    \/ LET was == issues[i].modified
           is == issues'[i].modified
       IN  is > was /\ Wire(is) >= Wire(was) /\ (NearClock(is) => Wire(is) > Wire(was))

\* Whatever of an issue, its comments, history or relationships changes, its stamp
\* grows and its modifiedTime does not go back, even when the clock is set back:
\* _touch is part of every write.  The modifiedTime differs, unless nine changes or
\* more have outrun the clock: 1e-6 is less than a microsecond once it is added.
THEOREM PollersSeeChanges == TrackerSpec => ModifiedTells
PROOF
  <1>1. TrackerInv /\ [TrackerNext]_trackerVars => [Shows]_trackerVars
    <2>. SUFFICES ASSUME TrackerInv, [TrackerNext]_trackerVars PROVE Shows
      OBVIOUS
    <2>1. TrackerInv' /\ Tells /\ TablesGrow
      BY TrackerInductive
    <2>. SUFFICES ASSUME NEW i \in Ids, issues'[i].modified >= issues[i].modified + Micro
                  PROVE  LET was == issues[i].modified
                             is == issues'[i].modified
                         IN  is > was /\ Wire(is) >= Wire(was) /\ (NearClock(is) => Wire(is) > Wire(was))
      BY <2>1 DEF Tells, Shows
    <2>2. /\ issues \in Seq(Issue) /\ issues' \in Seq(Issue) /\ Len(issues) <= Len(issues')
          /\ i \in 1 .. Len(issues)
      BY <2>1 DEF TrackerInv, TablesTyped, TablesGrow, Ids
    <2>3. issues[i] \in Issue /\ issues'[i] \in Issue
      BY <2>2
    <2>4. issues[i].modified \in Nat /\ issues'[i].modified \in Nat
      BY <2>3 DEF Issue
    <2>. QED BY <2>4, WireTells
  <1>2. TrackerSpec => [][Shows]_trackerVars
    BY <1>1, TrackerInvariance, PTL DEF TrackerSpec
  <1>. QED BY <1>2 DEF ModifiedTells, Shows

-----------------------------------------------------------------------------
\* Issue tracker: a client that follows page tokens.

\* The client that follows page tokens.
PagerType == [kind : {"comments", "updates", "issues"}, issue : Ids, offset : Nat, seen : Seq(Nat), done : BOOLEAN,
              steady : SUBSET Nat, shrunk : BOOLEAN]

\* What its list is of now.
Asked == Listed(pager.kind, pager.issue)

\* The number, or id, by which the rows are sorted.
Keys == [k \in Asked |-> k]

\* The history is listed newest first.
Newest == pager.kind = "updates"

\* The row of x in its list.
Spot(x) == Rank(Asked, Keys, x, Newest)

\* The type of the client.
PagerTyped == pager # NoPager => pager \in PagerType

\* Until an issue leaves the list: what has been there since the client began
\* and is not beyond its offset, it has seen; when it is done, all of it.
PagerMisses ==
  pager # NoPager /\ ~pager.shrunk =>
    /\ pager.done => pager.steady \subseteq ToSet(pager.seen)
    /\ ~pager.done => \A x \in pager.steady : x \in Asked /\ (Spot(x) =< pager.offset => x \in ToSet(pager.seen))

\* Only a list of issues can lose a row.
PagerShrinks == pager # NoPager /\ pager.shrunk => pager.kind = "issues"

\* Of comments it has seen the first offset ones, in order.
PagerCounts ==
  pager # NoPager /\ pager.kind = "comments" =>
    /\ pager.seen = [k \in 1 .. Len(pager.seen) |-> k]
    /\ ~pager.done => Len(pager.seen) = pager.offset /\ pager.offset =< Len(comments[pager.issue])

\* The inductive invariant of a client that follows page tokens.
PagerInv == PagerTyped /\ PagerMisses /\ PagerShrinks /\ PagerCounts

\* A list is of finitely many numbers.
LEMMA ListedFinite ==
  ASSUME TrackerInv, NEW kind \in {"comments", "updates", "issues"}, NEW i \in Ids
  PROVE  Listed(kind, i) \subseteq Nat /\ IsFiniteSet(Listed(kind, i))
PROOF
  <1>1. Len(issues) \in Nat
    BY DEF TrackerInv, TablesTyped
  <1>2. Len(comments[i]) \in Nat /\ Len(updates[i]) \in Nat
    BY RowType
  <1>3. \A n \in Nat : 1 .. n \subseteq Nat /\ IsFiniteSet(1 .. n)
    BY FS_Interval
  <1>4. CASE kind = "comments"
    BY <1>2, <1>3, <1>4 DEF Listed
  <1>5. CASE kind = "updates"
    BY <1>2, <1>3, <1>5 DEF Listed
  <1>6. CASE kind = "issues"
    <2>1. Listed(kind, i) \in SUBSET (1 .. Len(issues))
      BY <1>6 DEF Listed, Ids
    <2>. QED BY <1>1, <1>3, <2>1, FS_Subset
  <1>. QED BY <1>4, <1>5, <1>6

\* The same of the client's list.
AskedBounded == pager # NoPager => Asked \subseteq Nat /\ IsFiniteSet(Asked)

\* It follows from the types.
LEMMA AskedFinite == TrackerInv /\ PagerTyped => AskedBounded
PROOF
  <1>. SUFFICES ASSUME TrackerInv, PagerTyped, pager # NoPager PROVE Asked \subseteq Nat /\ IsFiniteSet(Asked)
    BY DEF AskedBounded
  <1>1. pager.kind \in {"comments", "updates", "issues"} /\ pager.issue \in Ids
    BY DEF PagerTyped, PagerType
  <1>. QED BY <1>1, ListedFinite DEF Asked

\* In a list that has grown no row's number is less than before, in either
\* order: new entries of the history come before the old ones, new comments
\* after.
LEMMA SpotGrows ==
  ASSUME Asked \subseteq Asked', IsFiniteSet(Asked'), pager'.kind = pager.kind, NEW x \in Asked
  PROVE  Spot(x) \in Nat /\ Spot(x)' \in Nat /\ Spot(x) =< Spot(x)'
PROOF
  <1>. DEFINE A == Asked
              B == Asked'
              K == Keys
              L == Keys'
              d == Newest
  <1>1. \A m \in A : L[m] = K[m]
    BY DEF Keys
  <1>2. A \subseteq B /\ IsFiniteSet(B) /\ x \in A OBVIOUS
  <1>3. Newest' = Newest
    BY DEF Newest
  <1>4. Spot(x) = Rank(A, K, x, d) /\ Spot(x)' = Rank(B, L, x, d)
    BY <1>3 DEF Spot
  <1>. HIDE DEF A, B, K, L, d
  <1>5. Rank(A, K, x, d) \in Nat /\ Rank(B, L, x, d) \in Nat /\ Rank(A, K, x, d) =< Rank(B, L, x, d)
    BY <1>1, <1>2, RankStays
  <1>. QED BY <1>4, <1>5

\* A write by someone else between two pages: comments and histories grow,
\* and the open issues do unless one is closed, which is what shrunk records.
LEMMA PagerNoticed ==
  ASSUME TrackerInv, TrackerInv', PagerInv, TablesGrow, Noticed
  PROVE  PagerInv'
PROOF
  <1>0. /\ Len(issues) \in Nat /\ Len(issues') \in Nat /\ Len(issues) <= Len(issues')
    BY DEF TablesGrow, TrackerInv, TablesTyped
  <1>1. Ids \subseteq Ids'
    BY <1>0 DEF Ids
  <1>2. CASE pager = NoPager
    BY <1>2 DEF Noticed, PagerInv, PagerTyped, PagerMisses, PagerShrinks, PagerCounts
  <1>3. pager # NoPager => pager \in PagerType
    BY DEF PagerInv, PagerTyped
  <1>4. CASE pager # NoPager /\ pager.done
    <2>1. pager' = pager
      BY <1>4 DEF Noticed
    <2>. QED BY <1>1, <1>3, <1>4, <2>1 DEF PagerInv, PagerTyped, PagerType, PagerMisses,
         PagerShrinks, PagerCounts
  <1>5. CASE pager # NoPager /\ ~pager.done
    <2>. DEFINE left == \E k \in Ids : Open(issues[k]) /\ ~Open(issues'[k])
    <2>1. CASE pager.kind # "issues"
      <3>1. pager' = pager
        BY <2>1 DEF Noticed
      <3>2. PagerTyped'
        BY <1>1, <1>3, <1>5, <3>1 DEF PagerTyped, PagerType
      <3>3. pager.issue \in Ids /\ pager.issue \in Ids' /\ pager.kind \in {"comments", "updates"} /\ pager.offset \in Nat
        BY <1>1, <1>3, <1>5, <2>1 DEF PagerType
      <3>4. /\ Len(comments[pager.issue]) \in Nat /\ Len(updates[pager.issue]) \in Nat
        BY <3>3, RowType
      <3>5. /\ Len(comments'[pager.issue]) \in Nat /\ Len(updates'[pager.issue]) \in Nat
        <4>1. TablesTyped'
          BY DEF TrackerInv
        <4>2. pager.issue \in DOMAIN comments' /\ pager.issue \in DOMAIN updates'
          BY <3>3, <4>1 DEF TablesTyped, Ids
        <4>3. comments'[pager.issue] \in Seq(Texts)
          BY <4>1, <4>2 DEF TablesTyped
        <4>4. updates'[pager.issue] \in Seq(Entry)
          BY <4>1, <4>2 DEF TablesTyped
        <4>. QED BY <4>3, <4>4
      <3>6. /\ Len(comments[pager.issue]) =< Len(comments'[pager.issue])
            /\ Len(updates[pager.issue]) =< Len(updates'[pager.issue])
        BY <3>3 DEF TablesGrow
      <3>7. Asked \subseteq Asked'
        BY <3>1, <3>3, <3>4, <3>5, <3>6 DEF Asked, Listed
      <3>8. IsFiniteSet(Asked')
        <4>1. AskedBounded'
          BY <3>2, AskedFinite, PTL
        <4>. QED BY <1>5, <3>1, <4>1 DEF AskedBounded
      <3>9. \A x \in Asked : Spot(x) \in Nat /\ Spot(x)' \in Nat /\ Spot(x) =< Spot(x)'
        BY <3>1, <3>7, <3>8, SpotGrows
      <3>. HIDE DEF Spot
      <3>10. PagerMisses'
        <4>1. \A x \in Asked : Spot(x)' =< pager.offset => Spot(x) =< pager.offset
          BY <3>3, <3>9
        <4>2. ~pager.shrunk => \A x \in pager.steady : x \in Asked /\ (Spot(x) =< pager.offset => x \in ToSet(pager.seen))
          BY <1>5 DEF PagerInv, PagerMisses
        <4>. QED BY <1>5, <3>1, <3>7, <4>1, <4>2 DEF PagerMisses
      <3>11. PagerShrinks'
        BY <3>1 DEF PagerInv, PagerShrinks
      <3>12. PagerCounts'
        BY <3>1, <3>3, <3>4, <3>5, <3>6 DEF PagerInv, PagerCounts
      <3>. QED BY <3>2, <3>10, <3>11, <3>12 DEF PagerInv
    <2>2. CASE pager.kind = "issues"
      <3>1. pager' = [pager EXCEPT !.steady = {k \in pager.steady : Open(issues'[k])}, !.shrunk = pager.shrunk \/ left]
        BY <1>5, <2>2 DEF Noticed
      <3>. HIDE DEF left
      <3>2. /\ pager'.kind = "issues" /\ pager'.issue = pager.issue /\ pager'.offset = pager.offset
            /\ pager'.seen = pager.seen /\ pager'.done = pager.done
            /\ pager'.steady = {k \in pager.steady : Open(issues'[k])}
        BY <1>3, <1>5, <2>2, <3>1 DEF PagerType
      <3>3. pager'.shrunk = (pager.shrunk \/ left)
        BY <1>3, <1>5, <3>1 DEF PagerType
      <3>4. pager' \in PagerType'
        <4>1. {k \in pager.steady : Open(issues'[k])} \in SUBSET Nat
          BY <1>3, <1>5 DEF PagerType
        <4>2. (pager.shrunk \/ left) \in BOOLEAN OBVIOUS
        <4>3. pager' \in PagerType
          BY <1>3, <1>5, <3>1, <4>1, <4>2 DEF PagerType
        <4>. QED BY <1>1, <4>3 DEF PagerType
      <3>5. PagerTyped'
        BY <3>4 DEF PagerTyped
      <3>6. PagerShrinks' /\ PagerCounts'
        BY <3>2 DEF PagerShrinks, PagerCounts
      <3>7. CASE pager'.shrunk
        BY <3>5, <3>6, <3>7 DEF PagerInv, PagerMisses
      <3>8. CASE ~pager'.shrunk
        <4>1. ~pager.shrunk /\ ~left
          BY <3>3, <3>8
        <4>2. Asked \subseteq Asked'
          BY <1>1, <2>2, <3>2, <4>1 DEF Asked, Listed, left
        <4>3. pager' # NoPager
          BY <3>2 DEF NoPager
        <4>4. IsFiniteSet(Asked')
          <5>1. AskedBounded'
            BY <3>5, AskedFinite, PTL
          <5>. QED BY <4>3, <5>1 DEF AskedBounded
        <4>5. \A x \in Asked : Spot(x) \in Nat /\ Spot(x)' \in Nat /\ Spot(x) =< Spot(x)'
          BY <2>2, <3>2, <4>2, <4>4, SpotGrows
        <4>. HIDE DEF Spot
        <4>6. pager.offset \in Nat
          BY <1>3, <1>5 DEF PagerType
        <4>7. \A x \in Asked : Spot(x)' =< pager.offset => Spot(x) =< pager.offset
          BY <4>5, <4>6
        <4>8. \A x \in pager.steady : x \in Asked /\ (Spot(x) =< pager.offset => x \in ToSet(pager.seen))
          BY <1>5, <4>1 DEF PagerInv, PagerMisses
        <4>9. PagerMisses'
          BY <1>5, <3>2, <4>2, <4>7, <4>8 DEF PagerMisses
        <4>. QED BY <3>5, <3>6, <4>9 DEF PagerInv
      <3>. QED BY <3>7, <3>8
    <2>. QED BY <2>1, <2>2
  <1>. QED BY <1>2, <1>4, <1>5

\* At offset 0 nothing has been passed.
LEMMA PagerStarts ==
  ASSUME TrackerInv, NEW kind \in {"comments", "updates", "issues"}, NEW i \in Ids, StartPaging(kind, i)
  PROVE  PagerInv'
PROOF
  <1>1. /\ pager' = [kind |-> kind, issue |-> i, offset |-> 0, seen |-> <<>>, done |-> FALSE,
                     steady |-> Listed(kind, i), shrunk |-> FALSE]
        /\ UNCHANGED <<issues, comments, updates>>
    BY DEF StartPaging, tracker
  <1>2. Listed(kind, i) \subseteq Nat /\ IsFiniteSet(Listed(kind, i))
    BY ListedFinite
  <1>3. PagerTyped'
    <2>1. <<>> \in Seq(Nat) OBVIOUS
    <2>2. pager' \in PagerType
      BY <1>1, <1>2, <2>1 DEF PagerType
    <2>3. Ids' = Ids
      BY <1>1 DEF Ids
    <2>. QED BY <2>2, <2>3 DEF PagerTyped, PagerType
  <1>4. /\ pager'.kind = kind /\ pager'.issue = i /\ pager'.offset = 0 /\ pager'.seen = <<>> /\ pager'.done = FALSE
        /\ pager'.steady = Listed(kind, i) /\ pager'.shrunk = FALSE
    BY <1>1
  <1>5. Asked' = Listed(kind, i)
    BY <1>1, <1>4 DEF Asked, Listed, Ids
  <1>6. \A x \in Asked' : Spot(x)' \in Nat \ {0}
    <2>1. \A ids, key, d : IsFiniteSet(ids) => \A x \in ids : Rank(ids, key, x, d) \in Nat \ {0}
      BY RankPositive
    <2>. QED BY <1>2, <1>5, <2>1 DEF Spot
  <1>. HIDE DEF Spot
  <1>7. PagerMisses'
    <2>1. \A x \in Asked' : ~(Spot(x)' =< 0)
      BY <1>6
    <2>. QED BY <1>4, <1>5, <2>1 DEF PagerMisses
  <1>8. PagerShrinks'
    BY <1>4 DEF PagerShrinks
  <1>9. PagerCounts'
    <2>1. Len(comments'[i]) \in Nat
      BY <1>1, RowType
    <2>2. Len(pager'.seen) = 0 /\ pager'.seen = [k \in 1 .. 0 |-> k]
      BY <1>4
    <2>. QED BY <1>4, <2>1, <2>2 DEF PagerCounts
  <1>. QED BY <1>3, <1>7, <1>8, <1>9 DEF PagerInv

\* The rows of a list of n comments are 1 to n.
LEMMA CountedRows ==
  ASSUME NEW n \in Nat, NEW rows \in Listings(1 .. n, [k \in 1 .. n |-> k], FALSE)
  PROVE  Len(rows) = n /\ \A k \in 1 .. n : rows[k] = k
PROOF
  <1>. DEFINE ids == 1 .. n
              key == [k \in ids |-> k]
  <1>1. IsFiniteSet(ids) /\ Cardinality(ids) = n
    BY FS_Interval
  <1>2. key \in [ids -> Nat] OBVIOUS
  <1>3. Ranked(rows, ids, key, FALSE)
    <2>1. rows \in Listings(ids, key, FALSE) OBVIOUS
    <2>. HIDE DEF ids, key
    <2>. QED BY <1>1, <1>2, <2>1, ListingRows
  <1>4. ASSUME NEW x \in ids PROVE Rank(ids, key, x, FALSE) = x
    <2>1. Upto(ids, key, x, FALSE) = 1 .. x
      BY DEF Upto, Comes
    <2>2. Cardinality(1 .. x) = x
      BY FS_Interval
    <2>. QED BY <2>1, <2>2 DEF Rank
  <1>. HIDE DEF ids, key
  <1>5. Len(rows) = n /\ \A k \in 1 .. Len(rows) : rows[k] \in ids /\ Rank(ids, key, rows[k], FALSE) = k
    BY <1>1, <1>3 DEF Ranked
  <1>. QED BY <1>4, <1>5

\* A page: the offset moves over exactly the rows that are shown.
LEMMA PagerReads ==
  ASSUME TrackerInv, PagerInv, NextPage
  PROVE  PagerInv'
PROOF
  <1>. DEFINE o == pager.offset
              old == pager.seen
  <1>1. pager # NoPager /\ ~pager.done /\ UNCHANGED <<issues, comments, updates>>
    BY DEF NextPage, tracker
  <1>2. pager \in PagerType
    BY <1>1 DEF PagerInv, PagerTyped
  <1>3. PICK rows \in Listings(Asked, Keys, Newest) :
          pager' = [pager EXCEPT !.seen = old \o PageOf(rows, o, PageSize), !.offset = o + PageSize,
                                 !.done = ~(o + PageSize < Len(rows))]
    BY DEF NextPage, Rows, More, Window, PageOf, Asked, Keys, Newest
  <1>. DEFINE new == old \o PageOf(rows, o, PageSize)
  <1>4. /\ o \in Nat /\ Newest \in BOOLEAN /\ old \in Seq(Nat) /\ PageSize \in Nat \ {0}
        /\ pager.steady \in SUBSET Nat /\ pager.shrunk \in BOOLEAN /\ pager.issue \in Ids
    BY <1>2, TrackerAssumption DEF PagerType, Newest
  <1>5. /\ Asked \subseteq Nat /\ IsFiniteSet(Asked) /\ Keys \in [Asked -> Nat]
    <2>1. AskedBounded
      BY AskedFinite DEF PagerInv
    <2>. QED BY <1>1, <2>1 DEF AskedBounded, Keys
  <1>6. new \in Seq(Nat)
    BY <1>4, <1>5, PageType
  <1>7. ASSUME ~pager.shrunk
        PROVE  /\ \A x \in pager.steady : Spot(x) =< o + PageSize => x \in ToSet(new)
               /\ ~(o + PageSize < Len(rows)) => pager.steady \subseteq ToSet(new)
    <2>1. pager.steady \subseteq Asked /\ \A x \in pager.steady : Spot(x) =< o => x \in ToSet(old)
      BY <1>1, <1>7 DEF PagerInv, PagerMisses
    <2>. QED BY <1>4, <1>5, <2>1, PageShows DEF Spot
  <1>8. ASSUME pager.kind = "comments"
        PROVE  /\ new = [k \in 1 .. Len(new) |-> k]
               /\ o + PageSize < Len(rows) => Len(new) = o + PageSize /\ o + PageSize =< Len(comments[pager.issue])
    <2>. DEFINE n == Len(comments[pager.issue])
                p == PageOf(rows, o, PageSize)
    <2>1. n \in Nat
      BY <1>4, RowType
    <2>2. old = [k \in 1 .. Len(old) |-> k] /\ Len(old) = o /\ o =< n
      BY <1>1, <1>8 DEF PagerInv, PagerCounts
    <2>3. Asked = 1 .. n /\ Keys = [k \in 1 .. n |-> k] /\ Newest = FALSE
      BY <1>8 DEF Asked, Listed, Keys, Newest
    <2>. HIDE DEF n, o, old
    <2>4. Len(rows) = n /\ \A k \in 1 .. n : rows[k] = k
      BY <1>3, <2>1, <2>3, CountedRows
    <2>5. rows \in Seq(Nat)
      <3>1. Ranked(rows, Asked, Keys, Newest)
        BY <1>4, <1>5, ListingRows
      <3>2. rows \in Seq(Asked)
        BY <3>1 DEF Ranked
      <3>3. \A k \in 1 .. Len(rows) : rows[k] \in Nat
        BY <2>1, <2>4
      <3>. QED BY <3>2, <3>3
    <2>6. /\ p \in Seq(Nat) /\ Len(p) \in Nat
          /\ \A i \in 1 .. Len(p) : i =< PageSize /\ o + i \in 1 .. Len(rows) /\ p[i] = rows[o + i]
          /\ \A k \in 1 .. Len(rows) : o < k /\ k =< o + PageSize =>
               k - o \in 1 .. Len(p) /\ p[k - o] = rows[k]
          /\ o =< Len(rows) =>
               Len(p) = IF o + PageSize < Len(rows) THEN PageSize ELSE Len(rows) - o
      BY <1>4, <2>5, PageRows, Zenon
    <2>. HIDE DEF p
    <2>7. \A i \in 1 .. Len(p) : p[i] = o + i
      BY <2>1, <2>4, <2>6
    <2>8. /\ old \o p \in Seq(Nat) /\ Len(old \o p) = o + Len(p)
          /\ \A i \in 1 .. o + Len(p) : (old \o p)[i] = IF i <= o THEN old[i] ELSE p[i - o]
      <3>1. old \o p \in Seq(Nat) /\ Len(old \o p) = Len(old) + Len(p)
        BY <1>4, <2>6, ConcatProperties
      <3>2. \A i \in 1 .. Len(old) + Len(p) : (old \o p)[i] = IF i <= Len(old) THEN old[i] ELSE p[i - Len(old)]
        BY <1>4, <2>6, ConcatProperties
      <3>3. Len(old) = o
        BY <2>2
      <3>. QED BY <3>1, <3>2, <3>3
    <2>9. ASSUME NEW i \in 1 .. o + Len(p) PROVE (old \o p)[i] = i
      <3>1. CASE i <= o
        <4>1. i \in 1 .. Len(old)
          BY <1>4, <2>2, <2>6, <3>1
        <4>2. old[i] = i
          BY <2>2, <4>1
        <4>. QED BY <2>8, <3>1, <4>2
      <3>2. CASE ~(i <= o)
        <4>1. i - o \in 1 .. Len(p) /\ o + (i - o) = i
          BY <1>4, <2>6, <3>2
        <4>2. p[i - o] = i
          BY <2>7, <4>1
        <4>. QED BY <2>8, <3>2, <4>2
      <3>. QED BY <3>1, <3>2
    <2>10. old \o p = [k \in 1 .. Len(old \o p) |-> k]
      <3>. DEFINE q == old \o p
      <3>1. q \in Seq(Nat) /\ \A i \in 1 .. Len(q) : q[i] = i
        BY <2>8, <2>9
      <3>. HIDE DEF q
      <3>2. q = [k \in 1 .. Len(q) |-> k]
        BY <3>1
      <3>. QED BY <3>2 DEF q
    <2>11. o + PageSize < Len(rows) => Len(p) = PageSize /\ o + PageSize =< n
      BY <1>4, <2>1, <2>2, <2>4, <2>6
    <2>12. o + PageSize < Len(rows) => Len(old \o p) = o + PageSize
      BY <2>8, <2>11
    <2>. QED BY <2>10, <2>11, <2>12 DEF p, n
  <1>. HIDE DEF new
  <1>9. pager' \in PagerType
    <2>1. (~(o + PageSize < Len(rows))) \in BOOLEAN OBVIOUS
    <2>2. o + PageSize \in Nat
      BY <1>4
    <2>. QED BY <1>2, <1>3, <1>6, <2>1, <2>2 DEF new, PagerType
  <1>10. /\ pager'.kind = pager.kind /\ pager'.issue = pager.issue /\ pager'.offset = o + PageSize
         /\ pager'.seen = new /\ pager'.steady = pager.steady /\ pager'.shrunk = pager.shrunk
    BY <1>2, <1>3 DEF new, PagerType
  <1>11. pager'.done = ~(o + PageSize < Len(rows))
    BY <1>2, <1>3 DEF new, PagerType
  <1>12. PagerTyped'
    <2>1. Ids' = Ids
      BY <1>1 DEF Ids
    <2>. QED BY <1>9, <2>1 DEF PagerTyped, PagerType
  <1>13. Asked' = Asked /\ Keys' = Keys /\ Newest' = Newest
    BY <1>1, <1>10 DEF Asked, Listed, Ids, Keys, Newest
  <1>14. \A x : Spot(x)' = Spot(x)
    BY <1>13 DEF Spot
  <1>. HIDE DEF Spot, o, old
  <1>15. PagerMisses'
    <2>1. ~pager.shrunk => pager.steady \subseteq Asked
      BY <1>1 DEF PagerInv, PagerMisses
    <2>. QED BY <1>7, <1>10, <1>11, <1>13, <1>14, <2>1 DEF PagerMisses
  <1>16. PagerShrinks'
    BY <1>1, <1>10 DEF PagerInv, PagerShrinks
  <1>17. PagerCounts'
    BY <1>1, <1>8, <1>10, <1>11 DEF PagerCounts
  <1>. QED BY <1>12, <1>15, <1>16, <1>17 DEF PagerInv

\* Every request keeps the invariant.
LEMMA PagerStep == TrackerInv /\ PagerInv /\ [TrackerNext]_trackerVars => PagerInv'
PROOF
  <1>. SUFFICES ASSUME TrackerInv, PagerInv, [TrackerNext]_trackerVars PROVE PagerInv' OBVIOUS
  <1>0. TrackerInv' /\ TablesGrow
    BY TrackerInductive
  <1>1. CASE \E now \in 0 .. MaxNow : Create(now) \/ \E i \in Ids : Write(i, now)
    <2>1. Noticed
      BY <1>1 DEF Create, Write
    <2>. QED BY <1>0, <2>1, PagerNoticed
  <1>2. CASE \E kind \in {"comments", "updates"}, i \in Ids : StartPaging(kind, i)
    BY <1>2, PagerStarts
  <1>3. CASE Ids # {} /\ StartPaging("issues", 1)
    <2>1. Len(issues) \in Nat
      BY DEF TrackerInv, TablesTyped
    <2>2. 1 \in Ids
      BY <1>3, <2>1 DEF Ids
    <2>. QED BY <1>3, <2>2, PagerStarts
  <1>4. CASE NextPage
    BY <1>4, PagerReads
  <1>5. CASE StopPaging
    BY <1>5 DEF StopPaging, PagerInv, PagerTyped, PagerMisses, PagerShrinks, PagerCounts
  <1>6. CASE UNCHANGED trackerVars
    <2>1. UNCHANGED <<issues, comments, updates, pager>>
      BY <1>6 DEF trackerVars, tracker
    <2>2. PagerTyped'
      BY <2>1 DEF PagerInv, PagerTyped, PagerType, Ids
    <2>3. Asked' = Asked /\ Keys' = Keys /\ Newest' = Newest
      BY <2>1 DEF Asked, Listed, Ids, Keys, Newest
    <2>4. \A x : Spot(x)' = Spot(x)
      BY <2>3 DEF Spot
    <2>. HIDE DEF Spot
    <2>5. PagerMisses'
      BY <2>1, <2>3, <2>4 DEF PagerInv, PagerMisses
    <2>6. PagerShrinks' /\ PagerCounts'
      BY <2>1 DEF PagerInv, PagerShrinks, PagerCounts
    <2>. QED BY <2>2, <2>5, <2>6 DEF PagerInv
  <1>. QED BY <1>1, <1>2, <1>3, <1>4, <1>5, <1>6 DEF TrackerNext

\* A client that follows page tokens while others write gets every comment
\* once and in order, every entry of the history there was when it began, and
\* every issue that matched throughout, unless another one stopped matching
\* meanwhile.
THEOREM Paged == TrackerSpec => []PagesComplete
PROOF
  <1>1. TrackerInit => PagerInv
    BY DEF TrackerInit, PagerInv, PagerTyped, PagerMisses, PagerShrinks, PagerCounts
  <1>2. PagerInv => PagesComplete
    <2>. SUFFICES ASSUME PagerInv PROVE PagesComplete OBVIOUS
    <2>1. Seen = ToSet(pager.seen)
      BY DEF Seen, ToSet
    <2>2. CommentsPagedOnce
      BY <2>1 DEF PagerInv, PagerMisses, PagerShrinks, PagerCounts, CommentsPagedOnce
    <2>3. UpdatesPagedAll
      BY <2>1 DEF PagerInv, PagerMisses, PagerShrinks, UpdatesPagedAll
    <2>4. IssuesPagedUnlessShrunk
      BY <2>1 DEF PagerInv, PagerMisses, IssuesPagedUnlessShrunk
    <2>. QED BY <2>2, <2>3, <2>4 DEF PagesComplete
  <1>. QED BY <1>1, <1>2, PagerStep, TrackerInvariance, PTL DEF TrackerSpec

=============================================================================
