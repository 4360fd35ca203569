-------------------------------- MODULE Watch --------------------------------
(***************************************************************************)
(* _watch_paths (orchestrator/service.py): a process is relaunched when a  *)
(* watched path changes, while a build (external) removes and writes the   *)
(* paths.  What a poll sees of a path is its signature: inode, size and    *)
(* mtime, which no two writes share, or for a tree the digest of them all. *)
(***************************************************************************)
EXTENDS Naturals

CONSTANTS
  WatchedPaths,
  MaxEdits       \* bound: writes and removals of the build

ASSUME WatchAssumption == MaxEdits \in Nat

VARIABLES
  content,   \* the signature of each path; Missing if it is not there
  edits,     \* writes and removals so far
  image,     \* what the paths were when the process was launched
  baseline,  \* the signatures the watcher compares with
  previous,  \* those of the poll before
  current,   \* those of this poll; NotYet for paths it has not come to
  watchAt,   \* "down", "launched", "asleep", "scanning" or "stopping"
  quietSince, \* history: edits when the last scan ended, and when this one began
  firstLook  \* history: what the watcher first saw

watchVars == <<content, edits, image, baseline, previous, current, watchAt, quietSince, firstLook>>

Missing == 0
NotYet == MaxEdits + 99
Nothing == [w \in WatchedPaths |-> NotYet]

WatchInit ==
  /\ content = [w \in WatchedPaths |-> 1] /\ edits = 1
  /\ image = Nothing /\ baseline = Nothing /\ previous = Nothing /\ current = Nothing
  /\ watchAt = "down" /\ quietSince = <<0, 0>> /\ firstLook = Nothing

\* The build (external) writes or removes a path.
BuildWrites ==
  /\ edits < MaxEdits /\ edits' = edits + 1
  /\ \E w \in WatchedPaths, sig \in {Missing, edits + 1} : content' = [content EXCEPT ![w] = sig]
  /\ UNCHANGED <<image, baseline, previous, current, watchAt, quietSince, firstLook>>

\* _spawn: the process runs what the paths hold; the task that watches them is
\* created, and starts when the run loop next awaits.  The first loop of run comes
\* here as the relaunches do.
Launch ==
  /\ watchAt = "down" /\ watchAt' = "launched" /\ image' = content
  /\ baseline' = Nothing /\ previous' = Nothing /\ current' = Nothing /\ quietSince' = <<0, 0>>
  /\ firstLook' = Nothing /\ UNCHANGED <<content, edits>>

\* The baseline, path by path.
TakeBaseline(w) ==
  /\ watchAt = "launched" /\ baseline[w] = NotYet
  /\ baseline' = [baseline EXCEPT ![w] = content[w]] /\ previous' = baseline' /\ firstLook' = baseline'
  /\ IF \A v \in WatchedPaths : baseline'[v] # NotYet
       THEN watchAt' = "asleep" /\ quietSince' = <<edits, edits>>
       ELSE UNCHANGED <<watchAt, quietSince>>
  /\ UNCHANGED <<content, edits, image, current>>

\* The sleep is over: a scan begins.
WakeUp ==
  /\ watchAt = "asleep" /\ watchAt' = "scanning" /\ current' = Nothing
  /\ quietSince' = <<quietSince[1], edits>>
  /\ UNCHANGED <<content, edits, image, baseline, previous, firstLook>>

Scan(w) ==
  /\ watchAt = "scanning" /\ current[w] = NotYet
  /\ current' = [current EXCEPT ![w] = content[w]]
  /\ UNCHANGED <<content, edits, image, baseline, previous, watchAt, quietSince, firstLook>>

Scanned == watchAt = "scanning" /\ \A w \in WatchedPaths : current[w] # NotYet

Settled == (\A w \in WatchedPaths : current[w] # Missing) /\ current = previous

\* Variant: the baseline follows the polls.
Decide_follows ==
  /\ Scanned /\ previous' = current /\ baseline' = current
  /\ watchAt' = IF current # baseline /\ Settled THEN "stopping" ELSE "asleep"
  /\ quietSince' = <<edits, quietSince[2]>>
  /\ UNCHANGED <<content, edits, image, current, firstLook>>

\* The rest of the loop: a change counts once two polls agree and nothing is missing.
Decide ==
  /\ Scanned /\ previous' = current
  /\ watchAt' = IF current # baseline /\ Settled THEN "stopping" ELSE "asleep"
  /\ quietSince' = <<edits, quietSince[2]>>
  /\ UNCHANGED <<content, edits, image, baseline, current, firstLook>>

\* _terminate_group and the sweep, or an exit of its own: the run loop cancels the
\* watcher and comes back to _spawn.
ProcessEnds ==
  /\ watchAt \in {"launched", "asleep", "stopping"} /\ watchAt' = "down"
  /\ UNCHANGED <<content, edits, image, baseline, previous, current, quietSince, firstLook>>

Watcher == WakeUp \/ Decide \/ \E w \in WatchedPaths : TakeBaseline(w) \/ Scan(w)
WatchNext == BuildWrites \/ Launch \/ Watcher \/ ProcessEnds

\* Polls go on, a process that is terminated ends and is launched again; nothing is
\* asked of the build, nor of a process that was not told to stop.
WatchFairness == /\ WF_watchVars(Launch) /\ WF_watchVars(Watcher)
                 /\ WF_watchVars(watchAt = "stopping" /\ ProcessEnds)

WatchSpec == WatchInit /\ [][WatchNext]_watchVars /\ WatchFairness

------------------------------------------------------------------------------
\* "Two guards against firing mid-rebuild": when a change relaunches the process,
\* nothing was missing, and nothing was written between the two scans that agree,
\* also if the build writes between the stats of one scan.
RelaunchesWhenQuiet ==
  [][watchAt = "scanning" /\ watchAt' = "stopping" =>
       /\ quietSince[1] = quietSince[2]
       /\ \A w \in WatchedPaths : current[w] # Missing]_watchVars

\* So much of a change that relaunches.  And a build that is over is noticed: in
\* the end the process runs what the paths hold, unless the last change came
\* between its launch and the watcher's first look.  And the relaunches end.
RebuildsNoticed ==
  /\ RelaunchesWhenQuiet
  /\ []<>(\/ image = Nothing \/ \E w \in WatchedPaths : content[w] = Missing
          \/ \A w \in WatchedPaths : content[w] \in {image[w], firstLook[w]})
  /\ <>[](watchAt # "stopping")
==============================================================================
