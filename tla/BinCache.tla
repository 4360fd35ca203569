------------------------------ MODULE BinCache -------------------------------
(***************************************************************************)
(* materialize (orchestrator/resolvers.py): one source binary, its copy in *)
(* ~/.jetty/bin, the sidecar that records the fingerprint of the source,   *)
(* and the processes that resolve it.  A release writes the source in      *)
(* place or replaces it, the mount comes and goes, time passes, and a      *)
(* process may die at any point.  Every write gives the source a new       *)
(* (size, mtime_ns): fingerprints are numbers and never come back.         *)
(***************************************************************************)
EXTENDS Integers

CONSTANTS
  CacheProcs,    \* the supervisors that resolve it (each has a temporary file of its own)
  MaxReleases,   \* bound: writes of the source
  MaxAging,      \* bound: how often copy_keep_days go by
  MaxCacheCrash, \* bound: crashes
  NoFile         \* the file does not exist

ASSUME CacheAssumption ==
  /\ MaxReleases \in Nat /\ MaxAging \in Nat /\ MaxCacheCrash \in Nat
  /\ NoFile \notin [content : Int, old : BOOLEAN] \cup [fp : Int, old : BOOLEAN]

VARIABLES
  source,    \* the fingerprint of the source, which also stands for its content
  reachable, \* it can be read
  dest,      \* NoFile, or the copy: content, and whether it is older than keep_days
  meta,      \* NoFile, or the sidecar: fingerprint, and whether it is old
  tmp,       \* tmp[p]: what p has copied
  at,        \* at[p]: where in materialize p is
  left,      \* left[p]: files that the _prune of p has yet to look at
  fprint,    \* fprint[p]: the fingerprint p took
  used,      \* history: the copy was handed out since it was installed or time passed
  agings, deaths

cacheVars == <<source, reachable, dest, meta, tmp, at, left, fprint, used, agings, deaths>>
world == <<source, reachable, agings, deaths>>

Mixed == -1   \* the content of a copy during which the source changed
Blank == -2   \* a sidecar that was truncated and not written

CacheInit ==
  /\ source = 1 /\ reachable = TRUE /\ dest = NoFile /\ meta = NoFile
  /\ tmp = [p \in CacheProcs |-> NoFile] /\ at = [p \in CacheProcs |-> "idle"]
  /\ left = [p \in CacheProcs |-> {}]
  /\ fprint = [p \in CacheProcs |-> 0] /\ used = FALSE /\ agings = 0 /\ deaths = 0

Goto(p, l) == at' = [at EXCEPT ![p] = l]

Touched(f) == IF f = NoFile THEN f ELSE [f EXCEPT !.old = FALSE]

Exists(f) == IF f = "dest" THEN dest # NoFile ELSE meta # NoFile
Old(f) == Exists(f) /\ IF f = "dest" THEN dest.old ELSE meta.old

\* mkdir and _prune: file by file, in any order, the age is looked up and the file,
\* if it was too old, unlinked.
PruneBegins(p) ==
  /\ at[p] = "idle" /\ Goto(p, "prune")
  /\ left' = [left EXCEPT ![p] = {f \in {"dest", "meta"} : Exists(f)}]
  /\ UNCHANGED <<world, dest, meta, tmp, fprint, used>>

PruneLooks(p) ==
  /\ at[p] = "prune"
  /\ \/ \E f \in left[p] :
          /\ left' = [left EXCEPT ![p] = @ \ {f}]
          /\ Goto(p, IF ~Old(f) THEN "prune" ELSE IF f = "dest" THEN "unlink_dest" ELSE "unlink_meta")
     \/ left[p] = {} /\ Goto(p, "stat") /\ UNCHANGED left
  /\ UNCHANGED <<world, dest, meta, tmp, fprint, used>>

PruneUnlinks(p) ==
  /\ \/ at[p] = "unlink_dest" /\ dest' = NoFile /\ used' = FALSE /\ UNCHANGED meta
     \/ at[p] = "unlink_meta" /\ meta' = NoFile /\ UNCHANGED <<dest, used>>
  /\ Goto(p, "prune")
  /\ UNCHANGED <<world, tmp, left, fprint>>

\* os.stat: an unreachable source falls back on the copy, whatever its
\* fingerprint, or is an error.
Stat(p) ==
  /\ at[p] = "stat"
  /\ IF reachable
       THEN fprint' = [fprint EXCEPT ![p] = source] /\ Goto(p, "check")
       ELSE Goto(p, IF dest # NoFile THEN "touch" ELSE "idle") /\ UNCHANGED fprint
  /\ UNCHANGED <<world, dest, meta, tmp, left, used>>

Matches(fp) == dest # NoFile /\ meta # NoFile /\ meta.fp = fp

\* A matching sidecar is a hit; else copy.
Check(p) ==
  /\ at[p] = "check"
  /\ Goto(p, IF Matches(fprint[p]) THEN "touch" ELSE "copy")
  /\ UNCHANGED <<world, dest, meta, tmp, left, fprint, used>>

\* copy2 opens the source and reads on; an OSError on the way is a ResolveError.
CopyBegins(p) ==
  /\ at[p] = "copy"
  /\ tmp' = [tmp EXCEPT ![p] = IF reachable THEN source ELSE @]
  /\ Goto(p, IF reachable THEN "copying" ELSE "idle")
  /\ UNCHANGED <<world, dest, meta, left, fprint, used>>

CopyEnds(p) ==
  /\ at[p] = "copying"
  /\ tmp' = [tmp EXCEPT ![p] = IF @ = source THEN @ ELSE Mixed]
  /\ Goto(p, IF reachable THEN "install" ELSE "idle")
  /\ UNCHANGED <<world, dest, meta, left, fprint, used>>

\* os.replace: the copy has the mtime of its source, which may be years ago.
InstallCopy(p) ==
  /\ dest' \in {[content |-> tmp[p], old |-> o] : o \in BOOLEAN}
  /\ used' = FALSE

WriteMeta(p) == meta' = [fp |-> fprint[p], old |-> FALSE]

\* Variant: the sidecar is written first.
Install_meta_first(p) ==
  /\ \/ at[p] = "install" /\ WriteMeta(p) /\ Goto(p, "meta") /\ UNCHANGED <<dest, used>>
     \/ at[p] = "meta" /\ InstallCopy(p) /\ Goto(p, "touch") /\ UNCHANGED meta
  /\ UNCHANGED <<world, tmp, left, fprint>>

\* os.replace, then meta.write_text.
Install(p) ==
  /\ \/ at[p] = "install" /\ InstallCopy(p) /\ Goto(p, "meta") /\ UNCHANGED meta
     \/ at[p] = "meta" /\ WriteMeta(p) /\ Goto(p, "touch") /\ UNCHANGED <<dest, used>>
  /\ UNCHANGED <<world, tmp, left, fprint>>

\* Variant: what is handed out is not touched.
Touch_nothing(p) ==
  /\ at[p] = "touch" /\ Goto(p, "idle")
  /\ used' = TRUE
  /\ UNCHANGED <<world, dest, meta, tmp, left, fprint>>

\* _touch, of a copy just made or one found, and materialize returns it.
Touch(p) ==
  /\ at[p] = "touch" /\ Goto(p, "idle")
  /\ dest' = Touched(dest) /\ meta' = Touched(meta)
  /\ used' = TRUE
  /\ UNCHANGED <<world, tmp, left, fprint>>

\* The process dies; in write_text it may leave an empty sidecar.
CacheCrash(p) ==
  /\ at[p] # "idle" /\ deaths < MaxCacheCrash /\ deaths' = deaths + 1 /\ Goto(p, "idle")
  /\ meta' \in {meta} \union IF at[p] = "meta" THEN {[fp |-> Blank, old |-> FALSE]} ELSE {}
  /\ UNCHANGED <<source, reachable, agings, dest, tmp, left, fprint, used>>

(* The world (external): a release writes the source, the mount goes or    *)
(* comes back, copy_keep_days pass without a use.                          *)
World ==
  /\ \/ source < MaxReleases /\ source' = source + 1 /\ UNCHANGED <<reachable, dest, meta, used, agings>>
     \/ reachable' = ~reachable /\ UNCHANGED <<source, dest, meta, used, agings>>
     \/ /\ agings < MaxAging /\ agings' = agings + 1
        /\ dest' = IF dest = NoFile THEN dest ELSE [dest EXCEPT !.old = TRUE]
        /\ meta' = IF meta = NoFile THEN meta ELSE [meta EXCEPT !.old = TRUE]
        /\ used' = FALSE /\ UNCHANGED <<source, reachable>>
  /\ UNCHANGED <<tmp, at, left, fprint, deaths>>

CacheNext == \/ World
             \/ \E p \in CacheProcs :
                  \/ PruneBegins(p) \/ PruneLooks(p) \/ PruneUnlinks(p)
                  \/ Stat(p) \/ Check(p) \/ CopyBegins(p) \/ CopyEnds(p)
                  \/ Install(p) \/ Touch(p) \/ CacheCrash(p)

CacheSpec == CacheInit /\ [][CacheNext]_cacheVars

------------------------------------------------------------------------------
(***************************************************************************)
(* Properties.                                                             *)
(***************************************************************************)
\* "a matching source is a cache hit": when the sidecar matches the source, the copy
\* is that source.  Holds for one process that copies, wherever it dies and whatever
\* the source does meanwhile.
HitIsCurrent == Matches(source) => dest.content = source

\* "a binary in active rotation never expires": a copy that was handed out within
\* copy_keep_days is not removed.  Holds for one process after the other; another
\* may look up the age of a copy before it is touched, and unlink it after.
ActiveNeverExpires == [][used /\ dest # NoFile => dest' # NoFile]_cacheVars
==============================================================================
