------------------------------- MODULE Config --------------------------------
(***************************************************************************)
(* Loading a configuration (orchestrator/config.py): the walk up the       *)
(* `extends` chain, the merge on the way back, the checks on the result    *)
(* and the start order.  What a file says is chosen when it is read: a     *)
(* file is read once, so this is the same as fixing it beforehand.  What   *)
(* the merged tables declare is chosen again when it is checked, so that   *)
(* the two halves do not multiply.                                         *)
(***************************************************************************)
EXTENDS Naturals, Sequences, SequencesExt, FiniteSets

CONSTANTS
  ConfigFiles, TopFile,   \* the files, and the one that is loaded
  TopKeys, SubKeys,       \* keys of a file, and of the tables in it
  Leaves,                 \* scalars and arrays
  SvcNames,               \* names of services: numbers, for the order of sorted()
  BinNames                \* names of resolvers and of binaries

ASSUME ConfigAssumption ==
  TopFile \in ConfigFiles /\ SvcNames \subseteq Nat /\ IsFiniteSet(SvcNames)

VARIABLES
  step,      \* "read", "merge", "check", "services", "order", "accepted" or "refused"
  file,      \* the file to read next
  chain,     \* what was read: <<file, table>>, the child first
  mergedTo,  \* merged is the merge of chain[mergedTo], chain[mergedTo + 1], ...
  merged,
  resolvers, \* the declared resolvers
  provider,  \* provider[b]: the resolver of binary b
  after,     \* after[s], for the declared services
  remaining, startOrder  \* the state of start_order

loadVars == <<file, chain, mergedTo, merged>>
checkVars == <<resolvers, provider, after, remaining, startOrder>>
cfgVars == <<step, loadVars, checkVars>>

(* A value is a scalar, false or a table.  A table is a function on the    *)
(* keys it has.                                                            *)
Scalar(x) == [t |-> "scalar", v |-> x]
False == [t |-> "false", v |-> <<>>]
TableOf(f) == [t |-> "table", v |-> f]
Plain == {Scalar(x) : x \in Leaves} \union {False}
TablesOver(keys, values) == UNION {[ks -> values] : ks \in SUBSET keys}
RawFiles == TablesOver(TopKeys, Plain \union {TableOf(f) : f \in TablesOver(SubKeys, Plain)})

ConfigInit ==
  /\ step = "read" /\ file = TopFile /\ chain = <<>> /\ mergedTo = 0 /\ merged = <<>>
  /\ resolvers = {} /\ provider = <<>> /\ after = <<>> /\ remaining = <<>> /\ startOrder = <<>>

Refused == step' = "refused" /\ UNCHANGED <<loadVars, checkVars>>

------------------------------------------------------------------------------
(***************************************************************************)
(* load_raw and merge_raw.                                                 *)
(***************************************************************************)
\* _seen: the file is none of those that led here.
MayRead == \A i \in DOMAIN chain : chain[i][1] # file

\* load_raw up to its recursive call.  A cycle, a file that is missing or not
\* TOML, and a parent that _resolve_extends rejects are errors.
ReadFile ==
  /\ step = "read"
  /\ \/ Refused
     \/ /\ MayRead
        /\ \E raw \in RawFiles : chain' = Append(chain, <<file, raw>>)
        /\ \/ \E parent \in ConfigFiles : file' = parent /\ UNCHANGED <<step, mergedTo, merged>>
           \/ /\ step' = "merge" /\ UNCHANGED file
              /\ mergedTo' = Len(chain') /\ merged' = Last(chain')[2]
        /\ UNCHANGED checkVars

IsTable(t, k) == k \in DOMAIN t /\ t[k].t = "table"

\* Variant: an entry the child's table does not repeat is lost.
MergeRaw_replaces(base, child) ==
  LET deleted == {k \in DOMAIN child : child[k] = False /\ IsTable(base, k)}
  IN  [k \in (DOMAIN base \union DOMAIN child) \ deleted |->
         IF k \in DOMAIN child THEN child[k] ELSE base[k]]

\* merge_raw: false deletes an inherited table, tables merge (the values in them
\* are no tables here), all else replaces.
MergeRaw(base, child) ==
  LET Replace(b, c) == [k \in DOMAIN b \union DOMAIN c |-> IF k \in DOMAIN c THEN c[k] ELSE b[k]]
      deleted == {k \in DOMAIN child : child[k] = False /\ IsTable(base, k)}
  IN  [k \in (DOMAIN base \union DOMAIN child) \ deleted |->
         IF IsTable(base, k) /\ IsTable(child, k)
           THEN TableOf(Replace(base[k].v, child[k].v))
           ELSE Replace(base, child)[k]]

\* The call returns into the file that extends this one.
MergeChild ==
  /\ step = "merge" /\ mergedTo > 1
  /\ mergedTo' = mergedTo - 1
  /\ merged' = MergeRaw(merged, chain[mergedTo'][2])
  /\ UNCHANGED <<step, file, chain, checkVars>>

\* The take_ accessors: a section is a table, an entry of it is no stray false.
WellTyped(raw) ==
  \A k \in DOMAIN raw : IsTable(raw, k) /\ \A a \in DOMAIN raw[k].v : raw[k].v[a] # False

\* OrchestratorConfig.parse.
Parse ==
  /\ step = "merge" /\ mergedTo = 1
  /\ \/ ~WellTyped(merged) /\ Refused
     \/ /\ WellTyped(merged)
        /\ step' = "check"
        /\ file' = TopFile /\ chain' = <<>> /\ mergedTo' = 0 /\ merged' = <<>>
        /\ UNCHANGED checkVars

------------------------------------------------------------------------------
\* A resolver that lists nothing provides its own name.
Provides(r, lists) == IF lists[r] = {} THEN {r} ELSE lists[r]

\* Every binary has one resolver, and those the services name have one.
CheckResolvers ==
  /\ step = "check"
  /\ \E lists \in TablesOver(BinNames, SUBSET BinNames), bins \in SUBSET BinNames :
       LET all == UNION {Provides(r, lists) : r \in DOMAIN lists}
           unique == \A r, q \in DOMAIN lists : r # q => Provides(r, lists) \cap Provides(q, lists) = {}
       IN  \/ (~unique \/ ~(bins \subseteq all)) /\ Refused
           \/ /\ unique /\ bins \subseteq all
              /\ resolvers' = DOMAIN lists
              /\ provider' = [b \in all |-> CHOOSE r \in resolvers' : b \in Provides(r, lists)]
              /\ step' = "services" /\ UNCHANGED <<loadVars, after, remaining, startOrder>>

\* The names in `after` are declared and not the service's own.
CheckServices ==
  /\ step = "services"
  /\ \E services \in SUBSET SvcNames : \E deps \in [services -> SUBSET SvcNames] :
       \/ /\ services = {} \/ \E s \in services : s \in deps[s] \/ ~(deps[s] \subseteq services)
          /\ Refused
       \/ /\ services # {} /\ \A s \in services : deps[s] \subseteq services \ {s}
          /\ after' = deps /\ remaining' = deps
          /\ resolvers' = {} /\ provider' = <<>>
          /\ step' = "order" /\ UNCHANGED <<loadVars, startOrder>>

ReadyNow == {s \in DOMAIN remaining : remaining[s] = {}}

\* sorted(): the names, in their order.
Sorted(names) ==
  {q \in [1 .. Cardinality(names) -> names] :
     ToSet(q) = names /\ \A i, j \in DOMAIN q : i < j => q[i] < q[j]}

\* Variant: what becomes ready is started before the others of its round are out.
OrderRound_dirty ==
  /\ step = "order" /\ DOMAIN remaining # {} /\ ReadyNow # {}
  /\ \E batch \in Sorted(ReadyNow) : startOrder' = startOrder \o batch
  /\ remaining' = [s \in DOMAIN remaining \ ReadyNow |-> {}]
  /\ UNCHANGED <<step, loadVars, resolvers, provider, after>>

\* One round of Kahn's algorithm, the names sorted.
OrderRound ==
  /\ step = "order" /\ DOMAIN remaining # {} /\ ReadyNow # {}
  /\ \E batch \in Sorted(ReadyNow) : startOrder' = startOrder \o batch
  /\ remaining' = [s \in DOMAIN remaining \ ReadyNow |-> remaining[s] \ ReadyNow]
  /\ UNCHANGED <<step, loadVars, resolvers, provider, after>>

\* Variant: the loop does not notice that nothing is ready.
OrderEnds_waits ==
  step = "order" /\ DOMAIN remaining = {} /\ step' = "accepted" /\ UNCHANGED <<loadVars, checkVars>>

\* The loop is over, or nothing is ready: the rest is a circle.
OrderEnds ==
  /\ step = "order"
  /\ \/ DOMAIN remaining = {} /\ step' = "accepted" /\ UNCHANGED <<loadVars, checkVars>>
     \/ DOMAIN remaining # {} /\ ReadyNow = {} /\ Refused

ConfigNext == ReadFile \/ MergeChild \/ Parse \/ CheckResolvers \/ CheckServices \/ OrderRound \/ OrderEnds

ConfigSpec == ConfigInit /\ [][ConfigNext]_cfgVars /\ WF_cfgVars(ConfigNext)

------------------------------------------------------------------------------
(***************************************************************************)
(* Properties.                                                             *)
(***************************************************************************)
\* Table t gives entry a of its table k the value x; t says nothing of that entry.
Gives(t, k, a, x) == IsTable(t, k) /\ a \in DOMAIN t[k].v /\ t[k].v[a] = x
Silent(t, k, a) == k \notin DOMAIN t \/ (IsTable(t, k) /\ a \notin DOMAIN t[k].v)

\* What the merge of a chain holds, said without the order of merging: an entry of
\* a table is the one of the nearest file that has it, unless a nearer file deletes
\* or replaces the table; nothing that was deleted comes back from further up.
MergedIsNearest ==
  step = "merge" =>
    \A k \in TopKeys, a \in SubKeys, x \in Plain :
      Gives(merged, k, a, x) <=>
        \E i \in mergedTo .. Len(chain) :
          /\ Gives(chain[i][2], k, a, x)
          /\ \A j \in mergedTo .. i - 1 : Silent(chain[j][2], k, a)

\* start_order puts every service behind all it is `after`, and gives up only if
\* some services wait for each other in a circle; a circle is never accepted.
OrderRespectsAfter ==
  LET circle == \E C \in SUBSET DOMAIN after : C # {} /\ \A s \in C : after[s] \cap C # {}
      placed == ToSet(startOrder)
  IN  /\ IsInjective(startOrder)
      /\ \A i \in DOMAIN startOrder :
           after[startOrder[i]] \subseteq {startOrder[j] : j \in 1 .. i - 1}
      /\ step = "accepted" => placed = DOMAIN after /\ ~circle
      /\ step = "refused" /\ after # <<>> => circle

\* Loading that has begun ends: no circle of `extends` keeps load_raw reading and no circle of
\* `after` keeps start_order looking for a service that is ready.
LoadEnds == chain # <<>> ~> step \in {"accepted", "refused"}
==============================================================================
