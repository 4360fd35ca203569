# Verification of jetty

jetty is two programs in one repository: **jetty-orc**, a per-instance process
supervisor (`src/src/jetty/orchestrator/`), and **jetty**, an ASGI server that
mounts protocol modules (filesystem, mail, chat, issue tracker, SQL, LLM proxy,
functions, Mercurial) over drivers (`src/src/jetty/modules/`). This directory
holds TLA+ modules for the parts that keep state, TLC configurations that check
them on small instances, and TLAPS proofs of the results that hold for every
instance.

`PROJECT.json` is the index: components, runs, the source lines behind every
definition, hazards, findings, theorems. This file explains them.

Run one configuration with `tlc -workers 2 -config MCService.cfg MCService`,
and the proofs of one module with `tlapm ServiceProofs.tla`.

## 1. Inventory

### jetty-orc

| component | state | operations | what makes it correct |
|---|---|---|---|
| service run loop (`service.py`) | state shown, `proc`, `_fail_times`, `ready_event`, `_stop_event`, `_bounce_requested`, `_gate_stop` | `run`, `stop`, `restart`, the continuous-gate watcher, the path watcher | one incarnation at a time; only unrequested exits cost budget; a failed service stays down; dependencies first; parked services come back |
| supervisor (`supervisor.py`) | shutdown event, `_failure`, the run tasks, `_spawn_gens` | signals, `fail`, `_stop_all`, cancellation, backstop, `_enforce_pinning` | shutdown ends, leaves no process, reverses the dependency order, exit code tells failure from stop |
| containment (`containment.py`) | groups and sessions, or one cgroup per service | `sweep`, `kill_all`, `acquire`, `external_kill` | a sweep reaches every member of the group |
| gates (`gates.py`) | last result and its time, a lock per gate | `satisfied`, `poll`, `_check` | a refresh is answered by a run begun after it; a run is counted once; a steady gate answers everybody alike |
| resolvers (`resolvers.py`) | cached resolution, generation counter, a lock per resolver; copied binaries and their sidecars on disk | `context_for`, `_resolve`, `materialize`, `_prune` | a pinned group runs one release; a copied binary is complete and is the one its sidecar names; a binary in use is not pruned |
| registry and CLI (`registry.py`, `cli.py`, `procfs.py`) | one JSON record per instance name | `up`, `ls`, `kill`, `status`, `ps`, `logs` | one live supervisor per name; `kill` removes only what it killed |
| ports (`ports.py`) | sockets held during one allocation | `allocate_ports` | every port of a batch is free on both loopback families and all are distinct |
| config, rendering (`config.py`, `render.py`) | none | parse, merge `extends`, `start_order`, substitution | the nearest file of an `extends` chain wins, and what it deletes stays deleted; `start_order` is a topological order; cycles are refused |
| console (`console.py`) | none | line prefixes | output formatting only |

### jetty

| component | state | what makes it correct |
|---|---|---|
| process, server, module registry (`cli.py`, `server.py`, `modules/registry.py`) | the modules built, bound and started; the control socket, which outlives the process | what was started is shut down, last first, whatever fails; a socket left by a killed process does not stop the next start |
| filesystem (`modules/filesystem`) | files under one root | a read returns one complete write; a crash leaves the old file or the new; the record of a scratch directory is never honoured for another directory |
| mail (`modules/mail`) | spool directory, idempotency keys | a key delivers at most once, also across restarts; an error leaves the key free |
| issue tracker (`modules/issuetracker`) | issues, comments, history, relationships, hotlists, in memory | `modifiedTime` tells every change; the history leads to the present state; a rejected change changes nothing; paging misses nothing that stays |
| chat (`modules/chat`) | spaces, threads and their keys and roots, messages, reactions, uploads | the tables agree; a quote is of what its author read; a refused request changes no message; paging misses nothing that stays |
| functions (`modules/functions`) | one process per call | a call ends at its timeout; its answer is what became of the process |
| SQL (`modules/sql`) | one connection, its open transaction, the migration ledger | a batch is whole or absent; a migration runs once; reads see what is committed |
| LLM proxy (`modules/llmproxy`) | requests in flight, usage counters | part of an answer never passes for all of it; connections to the upstream are closed |
| Mercurial (`modules/hg`) | none of its own | state lives in the repository of the hg binary |

### How the parts interact

`Supervisor.run` creates one `Service.run` task per service, with callbacks:
`fail` (sets the shutdown event), `render` (allocated ports, resolver context,
then `_enforce_pinning`, which creates `restart()` tasks of siblings) and
`on_change` (writes the registry record). A service calls the shared `GateSet`,
whose results are cached and whose checks are serialised by a lock per gate, and
the shared containment backend. A signal handler may run between any two
awaits. The CLI is a separate process which talks to a supervisor only through
the registry file and signals.

The sidecar is another process, usually one of the services. Its modules share
nothing but the process: each has its routes, its driver and its lock or event
loop discipline.

### What is hard

* Everything in the orchestrator runs on one asyncio loop: code between two
  awaits is atomic, and any number of other steps may run at an await. Up to
  five tasks act on one service (its loop, `stop`, several `restart`s, two
  watchers) and leave flags for each other.
* Processes die, ignore signals, fork children and outlive their leader at any
  time.
* Results are cached (gates, resolver results), read before an await and used
  after it.
* Deadlines: grace periods, readiness and drain timeouts, the 10 s shutdown
  wait, each of which races with the event it waits for.
* Several supervisors and CLI processes share files and ports without locks; so
  do sidecars that open one database file.
* Files outlive the process that writes them: spool files, sidecars, records and
  the control socket are found by the next one in whatever state a crash left
  them.

The entries of `hazards` in `PROJECT.json` are these behaviours, each at the
line where it bites and with the properties that would catch it.

## 2. Modules

### Service

`Service` is `service.py` for all services of one instance at once. `pc[s]` is
the await at which the run loop of `s` is suspended, so one action is exactly
the code between two awaits:

| `pc` | await | actions that leave it |
|---|---|---|
| `deps` | `ready_event` of the next dependency, raced with the stop event | `AwaitDep`, `DepsStopped`, `DepsDone` |
| `gate` | `gates.satisfied` before a spawn | `GatePasses`, `GateFails` |
| `parked`, `parkgate` | the sleep and the poll in `_block` | `ParkedWakes`, `StillParked`, `Unparked` |
| `render`, `exec` | `_render()`, `create_subprocess_exec` | `Fork`, `Launched`, a failed spawn in `ExitCharged`/`ExitAsksGates` |
| `probe` | `_wait_ready` | `ProbePasses`, `ProbeAbandoned`, `ProbeTimesOut` |
| `live`, `drain` | exit of the process, the end of its log pipe | `Reap`, the six `Exit...` actions (classification) |
| `regate` | `satisfied(refresh=True)` after a crash | `RegateFails`, `RegatePasses` |
| `backoff` | restart delay | `BackoffEnds` |

The tasks beside the loop are `Stop`/`StopEnds`, `Restart`/`RestartEscalates`/
`RestartNoticesExit`, `GateCloses`/`GateWatchEnds`, `PathChanges`/
`PathWatchEnds` (what makes the path watcher act is the matter of `Watch`); `Cancel` is `task.cancel()` on the run task. The environment is
`ProcessExit` and `GateMoves`.

Abstractions:

* Time is nondeterminism. A deadline may strike at any moment at which it is
  awaited. The filter that drops failures older than `window_seconds` may keep
  any number of the old ones: `fails` is the length of `_fail_times` and
  `BacksOff`/`RunsOut` choose how many survive.
* A service has one gate, which is `open`, `closed` or `unsettled`; a settled
  gate answers every caller alike and an unsettled one answers anything. That
  is what `Gates` shows of a gate that has been up or down for longer than
  `recheck_seconds` and `timeout_seconds` together (`AnswersAreCurrent`).
* Exit codes are `fatal` (listed in `no_restart_exit`) or `other`; the
  distinction is all the policy makes.
* The death of a process and its reaping by asyncio's child watcher are one
  step. `children` is the set of services with group members that outlived
  their leader: what a later sweep has to reach.
* Containment is what a sweep reaches: a cgroup contains the child from the
  fork on, a process group only after `register` (constant `Cgroup`). Processes
  that leave their session, which pgroup containment documents as lost, are not
  modelled.
* Any number of `restart()` tasks of one service may be alive; they are two
  sets, since all tasks waiting for one incarnation act alike: `restarting`
  (process still alive) and `restartLate` (process gone, task not yet resumed).

### Supervisor

`Supervisor` extends `Service` with `Supervisor.run`: two signals
(`MaxSignals`: every signal past the first acts alike), the fail callback
(inside the service's own step, as in the code: it is `failure` becoming
nonempty that lets `BeginShutdown` happen), the reverse dependency waves of `_stop_all` (`StopInWave`,
`WaveStopped`), the 10 s wait (`WaitTimesOut`), cancellation (`CancelPending`),
and the backstop with the exit code (`Finish`). `restart()` may come at any time
before exit; *when* the code requests one is the matter of `Pinning`.

### Gates

`Gates` is one gate with its callers: the cache, the lock (`queue`, FIFO as
`asyncio.Lock` is; its head holds the lock), `refresh`, and the streaks of the
continuous-gate watcher. Time passes in ticks; `Recheck` is the cache lifetime.
A gate's condition is `up`, `down` or `flaky` (any result). A check is a
subprocess of up to `Timeout` ticks that looks at the condition anywhere in its
run: `may` collects what it can have found so far, and only the stamp of the cached
result is of its end. A result can thus be `Timeout` old when it is stored and
`Recheck` older when it is served, which is the bound of `AnswersAreCurrent`. When
a process exits by itself its watcher is cancelled where it is, in the queue or in
the middle of a check, whose result is then lost (`WatcherCancelled`).

### Watch

`Watch` is `_watch_paths`, between the launch of a process and its end: every stat
of a scan is a step, because a build may write between two of them. A signature
is a number no two writes share. A change between the launch and the watcher's
first look is not noticed: that is the code (the baseline is taken by the watcher
task itself), and `RebuildsNoticed` excepts it.

### Config and Ports

`Config` is the load of a configuration: reading up the `extends` chain with the
check for circles, `_merge` on the way back, the cross checks of sections, and the
loop of `start_order`. What a file says is chosen when it is read. The references
to ports, gates and binaries are checked in one pattern; the fields of a section
appear only as well typed or not.

`Ports` is `allocate_ports` with each bind a step: the lead family first, then the
others, the held sockets of rejected automatic ports, and the sockets of the
batch. Other processes bind and release ports in between. `taken` is history: what
was in somebody's way at some time, by which a refusal is judged.

### BinCache

`BinCache` is `materialize` with `_touch` and `_prune`, one file operation a step:
the pruning by age (the look at a file and its unlink are two steps), the
fingerprint taken before the copy to a temporary file, the rename, the sidecar, and
the use of an old copy when the source cannot be reached. A fingerprint (size,
mtime_ns) is assumed never to come back once the source was rewritten; that is what
the code relies on. Temporary files that crashes left are not followed: `_prune`
removes them by their own age. Both properties are of one process: two can also
prune what the other has just touched, between the look and the unlink
(`resolvers.py:128` and `:138`), and the next resolution then copies anew.

### Pinning

`Pinning` is a group of services that share a resolver with several binaries:
the cache and lock of `Resolvers._resolve`, the generation counter,
`_enforce_pinning`, and the run loop reduced to what resolution sees. `Slow`
services use a second resolver, awaited after the pinned one: the window in
which the release can move. The task that `_enforce_pinning` creates runs
before the spawning service's next await completes, which is what asyncio's
FIFO ready queue gives. `create_subprocess_exec` lasts a few loop iterations that
wait for no input or output: no resolver run begins and ends within it, so none
begins while a service is in it (`RunResolver`).

`bounced` is `_bounce_requested` and `told` the processes that `restart()` has told
to end. A `Gated` service that its gate stops keeps the flag that a bounce, or a
change of a watched path, has set on the same incarnation (`service.py:218`); as
long as it is set `restart()` refuses the service, which is the second exception of
`SplitOnlyIfOvertaken`. A failed spawn or the next exit clears it.

### Registry

`Registry` is the record of one instance name, `<name>.json`, and everybody who
touches it: any number of `up --name` processes, from `registry.load` over
`supervisor_alive` to the running supervisor, its writes and its end, and one
`kill` at a time. One action is one file operation or one signal: a write is
the open of `<name>.tmp`, the write, and `os.replace`. All writers share
`<name>.tmp`, so each carries `fd`, the name its open file has *now*: a rename
by another writer turns `tmp` into `rec` under its hands. Processes may die
between any two steps, stay zombies, and their pids are taken again by
anything; a record holds the pid and the start ticks, as in `procfs.py`.

Three history variables say what the properties except: `doubled` (two
supervisors of the name ran at once), `robbed` (`kill` removed the record of a
live supervisor) and `ahead` (which supervisors had a record when an `up`
looked). The record's other fields, and the name-prefix lookup of the CLI, are
left out: nothing that changes a file depends on them.

### FileStore and LocalFs

`FileStore` is what the filesystem protocol promises: read, stat, write, delete,
copy and rename, each at one instant, whole or not at all, and a crash that
loses requests but no file. `LocalFs` is the local driver, one system call a
step, for the worker threads that serve concurrent requests; `_replace` is open
of a temporary file, write with fsync and chmod, rename. Every system call may
fail and the server may crash between any two.

The abstract store is not fully atomic in one respect, because the code is not:
the `created` flag and the permission bits come from a stat made before the
temporary file was written. `sawTo` and `sawFrom` collect what could be seen of
a request's paths since it arrived, and `Write`, `Copy` and `Rename` may use any
of it. That is weaker than the wording of `spec/filesystem-v1.md` ("`created` is
`true` iff no file existed at the path before this write"): two concurrent
writes of a new file may both answer created.

### Scratch

`Scratch` is the life of one scratch directory of the local driver: the two halves
of `mkdtemp`, the record, `_resolve` and `_scratch_alive` call by call, and the
deletion, in concurrent requests, while the host's cleaner and other users act on
the name. `mkdtemp` is taken never to give out a name twice. A request whose record
is retired by another between its lstat and its comparison fails with a `KeyError`
(`local.py:134`), which the module answers as a failure of the store where
`spec/filesystem-v1.md` has 400; `ScratchByIdentity` allows it, and says that it
takes a directory that was away.

### MailOnce and MailSpool

`MailOnce` is what the mail module keeps of the protocol's promise for an
idempotency key: delivered at most once, never rewritten, and repeated keys accepted
without a second delivery, except for a key whose delivery a restart could not read
(`Forget`), which is free again.
`MailSpool` is the module with the spool driver: authorisation, the checks of a
request in their order, the policies of the settings, dry runs, the write of the
spool file which may fail half way, crashes, and the boot that rebuilds the table
of keys from the files that can be read and parse (`spool.py:64` skips the others;
`unread` are the whole ones among them). It refines `MailOnce` (`INSTANCE MailOnce
WITH`: a file that parses is a delivery, a torn one is none). `DedupSurvives` is the
promise without the exception.

### Sidecar

`Sidecar` is the life of the process: the modules enabled by the configuration are
built by name, the listeners are bound, the control socket is made (a socket left at
its path is removed, anything else there ends the start), the modules are
started and, whatever fails, shut down in reverse. A process may be killed at any
point; starts follow one another. What uvicorn (0.32 or later, external) does with a
signal: after the shutdown it raises it again with the handler that was there
before. SIGINT so ends in `uvicorn.run`, which returns, and `main` unlinks the
socket; SIGTERM ends the process inside `uvicorn.run`, and the socket stays
(`cli.py:190`) for the next start to remove. `mkdir`, `unlink`, `bind`, `chmod` and
`listen` may each fail on the way to the socket.

### Chat

`Chat` is the emulated surface over the in-memory driver. A request is one step: it
awaits nothing that suspends after it first looked at the tables. Ids come from the
one counter of the driver. A message may open or join a thread, by name or by key,
quote another message, and carry an upload; each refusal keeps the code's order, so
that a key bound before a refusal stays bound. `reader` is a client that reads a
message and quotes it later, `lister` one that follows page tokens. The clock of
`create_time` advances with every write: two requests that one event loop serves
are taken to be further apart than the microsecond it counts in.

### Sql

`Sql` is the SQLite driver in processes that share one file: `/query`, write
batches statement by statement, and `migrate`, which reads the ledger and then
applies one transaction after another. A statement is what becomes of it; an error
that is no `sqlite3.Error` is one of the outcomes. The process may die between the
COMMIT of a batch and its answer (`ExecuteUnanswered`). Migrations pass no gate:
those of `SelfEnding` have a COMMIT or a ROLLBACK among their statements, so that
they may take effect without their row in the ledger, or twice, and `MigratedOnce` excepts
them (`MigrateEscapes`); that a migration writes to the ledger's own table is left
out. What a transaction, a crash or a rollback mean is SQLite's and external.

### LlmProxy and ExecFunctions

`LlmProxy` is `forward.py`: one request from the read of its body over the send, the
head and the body or stream of the response to its end, with the upstream and the
client free to vanish at any point. A client that leaves before a stream's generator
has begun is noticed by nobody while the upstream is awaited (`HangUp`), and the
response of a stream cancelled before its generator began is never closed
(`CancelStream`): `llm_disconnect` is about these.
`ExecFunctions` is a call of the exec driver: the process, its pipes, the timeout
and the kill. That `communicate()` and `wait()` return only once the process has
exited *and* its pipes are closed is asyncio's, and external; it is why a forked
process that keeps the pipes open delays the answer of a killed function past its
timeout (`modules/functions/exec.py:128`; `spec/functions-v1.md` asks for an
answer at the timeout). `AnsweredTruly` excepts exactly that.

### IssueTracker

`IssueTracker` is the emulated surface over the in-memory driver. No handler
awaits anything that suspends between its first look at the tracker and its
answer, so a write is one step; refused requests and single reads leave the
tracker as it is and are no steps. `SurfaceScalars` and `DriverScalars` are the
two tables that have to agree: `ModifyIssue` keeps the code's order, in which the
driver would refuse an unknown scalar after the ones before it were set. Every
write is given a reading of the clock, later or earlier than the last. Stamps are
the floats of the code, counted in their steps of 2^-22 s (which is what they are
for the seconds of 2004 to 2038): `Float(k)` is the float nearest to `k`
microseconds after a full second, to add `1e-6` adds four steps, and `Wire` is the
rounding of `_rfc3339` (halves up; the code's half to even differs only at a stamp
exactly between two microseconds). `pager` is
a client that follows page tokens: each page is computed from the list as it is
then, at the offset the token carries.

Scalar fields take the values of `status` (one open, one closed), collections are
sets, a relationship has one type. A query is `status:open` in the order of ids;
that is a list rows can leave. `steady` and `shrunk` are history: what was in the
list all the time, and whether anything left it.

### Paging

Both drivers sort the rows of a list anew for every page and cut it at the offset
of the token. `Listings(ids, key, descending)` is the set of sequences that hold each
of `ids` once in the order of its key; a page is `SubSeq` of one of them. Stating the
sort by its result, and not by a way to compute it, is what the proofs of
`ListSeesAll` and `PagesComplete` start from. `Chat` and `IssueTracker` extend it.

### MCService, MCLaunch, MCFiles and MCSidecar

These put components side by side that share no state. `part` (in `MCService`,
`acting`) is chosen at the start and says which of them a behaviour exercises; the others stay where they
start. One run thus has the states of its parts added, not multiplied, and the
properties of a part are checked on all of its behaviours.

## 3. What the runs show

| run | instance | checks |
|---|---|---|
| `service_loop` | one service with gate, probe and watch list, or a plain one and its dependent; `max_restarts` 2 | the inductive invariant `ServiceInv`, `AskedExitsAreFree`, and, under fairness, `ParkedRevives`, `ClosedGateStops` |
| `supervisor_shutdown` | a service and its dependent under signals and failures | `DependenciesWereReady`, `NoOrphan`, `GraceEndsBeforeDependencies`, `ExitCodeTellsFailure`, `ShutdownCompletes` |
| `launch` | a gate with a watcher and a refreshing loop | `StreakCountsRuns`, `AnswersAreCurrent`, `DownCloses` |
| | three files, three services | `MergedIsNearest`, `OrderRespectsAfter`, `LoadEnds` |
| | batches of up to three ports out of three, two families | `BatchHolds` |
| | one source, one supervisor after the other | `HitIsCurrent`, `ActiveNeverExpires` |
| | two watched paths | `RebuildsNoticed` |
| | two function calls | `AnsweredTruly` |
| | three pinned services, one with a second resolver, a continuous gate and a watched path | `SplitOnlyIfOvertaken`, `RecordedUnlessOvertaken`, `BouncedOnlyIfOutdated` |
| `files` | a record: two pids, three processes, one kill at a time | `NoImpersonation`, `OneSupervisor`, the inductive invariant `RegistryInv` |
| | the local driver: two threads, two paths, two contents, two sets of bits | `Implements`: `LocalFs` refines `FileStore`; the inductive invariant `LocalInv` |
| `sidecar` | chat: two writes, pages of one message | `ChatTablesAgree`, `QuotesWhatWasRead`, `ListSeesAll`, `ChatSteps` |
| | issue tracker: two issues, three writes, pages of one row, or one issue whose stamp is ten writes ahead of the clock | `ModifiedTells`, `TrackerConsistent`, `PagesComplete` |
| | mail: two keys, two bodies, two crashes | `DeliversOnce`: `MailSpool` refines `MailOnce` |
| | SQL: two processes, one batch, two migration lists, one with a migration that ends its transaction, a crash | `SqlDurable` |
| | LLM proxy: two requests | `RelaysTruly` |
| | one scratch directory: two requests, two inode numbers | `ScratchByIdentity` |
| | the process: three modules, three starts | `BootsAndUnwinds` |

The remaining runs are expected violations. Each checks one sentence of the
repository's own documentation, which the code does not keep:

| run | sentence | what happens |
|---|---|---|
| `stale_bounce_flag` | an exit code in `no_restart_exit` fails the instance | a gate stop and a bounce of one incarnation leave `_bounce_requested` set; the next exit, whatever its code, is taken for a bounce |
| `pinned_split` | a pinned group never runs split | a release moves while a service awaits its second resolver: it comes up on the old binaries, and is recorded on the new release |
| `sql_reads` | a batch commits whole or not at all | an exception that is no `sqlite3.Error` leaves the transaction open, and the next `/query` of the connection returns its rows |
| `bin_cache_two` | a matching source is a cache hit | another supervisor installs an older copy between an install and its sidecar |
| `mail_dedup` | dedup survives a restart as long as the spool is retained | a spool file that cannot be read at a start is skipped, and its key is free again |
| `llm_disconnect` | the upstream call is cancelled when the client disconnects | a client that leaves while the head or the body of the response is awaited cancels nothing; the call stays open for as long as the upstream takes |
| `tracker_ties` | two writes within one microsecond still differ | stamps ahead of the clock are 0.954 microseconds apart: the eleventh is shown like the tenth |

Three more disagreements are covered by the models without a run of their own.
`docs/orchestrator.md` says a service is stopped only once its dependents are down;
`stop()` of a dependent between its gate check and its spawn returns at once
(`service.py:274`), so that its process appears after its dependency was stopped:
`NoOrphan` and `GraceEndsBeforeDependencies` are what does hold. And `kill` can
remove, by name, the record a new `up` has just written (`cli.py:415`): hence
`ListedUnlessRobbed`. And the flag of `stale_bounce_flag` splits a pinned group too,
since a service that has it set refuses to be bounced.

`NoOrphan`, `GraceEndsBeforeDependencies` and `SplitOnlyIfOvertaken` are what
does hold in place of the refuted sentences: the backstop catches the late
process, a dependency is signalled only after its dependents' grace periods
ended, and a group is split only if a release overtook a spawn in progress or a
bounce flag was left over. `DeliversOnce`, `RelaysTruly` and `ModifiedTells` are the
same beside `mail_dedup`, `llm_disconnect` and `tracker_ties`: only an unread file
frees a key, only a client that left before a stream began leaves a finished
request with an open response, and only the ninth change ahead of the clock or a later one can
hide. In
the same way `RecordedUnlessOvertaken`, `WholeUnlessDoubled` and
`ListedUnlessRobbed` (both parts of `RegistryInv`) name the one circumstance in
which what the code wants does not hold: a release that moves while a second
resolver is awaited, a second supervisor that shares the temporary file, a `kill`
that comes too late. `SqlDurable` holds although `ReadsCommitted` does not: the
rows of the open transaction are seen but never committed. The parts of
`PagesComplete` and `ListSeesAll` are of the same kind: offsets miss a row when an
earlier one leaves the list between two pages.
`ExitCodeTellsFailure` says that a failure decides the exit code even if an
operator's signal came first.

Every property of a passing run has a mutant in `PROJECT.json`: a variant of one
mapped definition, kept just before it in its module (comment `Variant:`), under
which TLC finds the property violated.

### Bounds

* Two services beside the lone one suffice for the interactions the code has between services (one
  `ready_event`, one shutdown order); everything else concerns one service.
  `MaxRestarts` 2 allows the budget to be filled, exceeded, and refilled after
  old failures expired. The supervisor run uses 0: the first crash fails the
  instance, and a respawn during shutdown comes from a restart.
* `MaxSignals` 2: the handler has two branches.
* `Recheck` and `CloseAfter` 2, `Timeout` 1: a result can be fresh, ageing and
  expired, a check can have looked before the resource changed and end after it, and
  a streak can be interrupted.
* `MaxGen` 3: one release to run, one to move to, one to overtake a spawn in
  progress.
* Two pids and `MaxTicks` 3: two supervisors at once, or one after the other with
  a pid taken again; a `kill` of the first that ends after the second started.
* Two threads and two paths: every pair of operations on the same path and on
  crossing paths. Two contents and two sets of bits tell old from new.
* Three writes to two issues: a creation and two changes that follow one another,
  or two issues of which one leaves a list; `MaxNow` 1 and stamps that grow by 1e-6 put
  the clock ahead of, level with and behind the last change; the issue ten writes ahead
  is where the next write shows the same microsecond; `MaxMasked` 2
  edits in one modify, an addition and a removal of the same element among them.
* The runs use cgroup containment; the proofs of `ServiceInv` hold for both kinds.
* Three files: a circle through one, two or three files, and a table that is given,
  deleted and given again. Three services: a circle of two beside one that is
  ready. The second level of `_merge` is the last that differs from the first.
* Three ports, batches of three, two foreign moves: a batch can exhaust the host,
  and a port can be taken in one family and free in the other.
* `MaxReleases` 4 with two crashes and two agings: a release during a copy, one
  after it, and a copy that expires while its source is gone.
* `MaxEdits` 4 over two paths: a path removed and written again while the other
  changes between two stats.
* `ChatWrites` 2 on top of a seed of messages: an edit or a deletion after the read
  of a quote; a refused message and one that follows it under the same key.
* Two keys, two bodies and two crashes for mail: a torn write, a reboot, a retry
  that is torn again, and one that succeeds.
* One batch of up to two statements that gets to begin, before or after any number
  that do not, and two lists that disagree in their second name: every point at
  which a batch can stop, two processes that migrate at once, and conflicting lists.
  Batches that begin exclude each other (BEGIN IMMEDIATE); `SqlIsDurable` is for any
  number of them.
* `x` and `y` are interchangeable wherever `MCSidecar` uses them (processes, bodies,
  requests), so the symmetry is sound; the run checks no liveness.

### Fairness

Weak fairness of the run loop, of the tasks and of process exit **after a
SIGKILL**: asyncio runs every ready callback, the deadlines are all finite, and
the kernel ends a killed process. A process that was only asked to stop may run
forever; so may one that nobody asked. A gate that keeps changing its mind owes
nothing: `ParkedRevives` speaks of gates that stay open, `ClosedGateStops` of
gates that stay closed. In `Gates`, a check ends because `_run` kills it at its
timeout; in `Supervisor`, nobody is obliged to send a signal. In `Config` the
loader runs on; in `Watch` the launch, the poll and the exit of a process that was
asked to stop are fair and the build is not; in `ExecFunctions` the driver and its
timeout are fair, and neither the function nor what it forked ever has to exit. In
`LlmProxy` what the proxy can do by itself is fair, and neither the upstream nor a
client has to do anything: there is no read timeout.

`CHECK_DEADLOCK FALSE` is set where the system may stop for good: all run loops
over, the supervisor exited, a batch or a load done, or no process left to start.
`Registry`, `Pinning`, `LocalFs`, `IssueTracker`, `BinCache`, `Ports` and the modules
of the sidecar state safety only and assume no fairness.

## 4. What is proved

`ServiceProofs` proves, for every set of services, every `After`, every
`MaxRestarts` and both containments (assumption `ServiceAssumption`: the
constants have their types):

* `Invariance`: `Spec => []ServiceInv`;
* `Squatters`, `Failures`, `Budget`, `Dependencies`: the safety invariants
  `NoSquatter`, `FailedIsDown`, `BudgetIsEnforced`, `DependenciesWereReady`;
* `AskedExits`: the action property `AskedExitsAreFree`.

`ServiceInv` adds three conjuncts that the code maintains without saying so.
`IncarnationShape` ties the await point to what exists (a forked child only in
`exec`, watchers only in `probe` and `live`, readiness only from `live` to the
end of the drain): without it a step from, say, `backoff` with a live process
would break `NoSquatter`. `DependencyProgress` says that the dependencies counted
so far have all been ready. `RequestsAreFlagged` is the heart of `AskedExits`:
whatever signalled the group has set a flag that is still set when the run loop
classifies the exit. Each conjunct has its own step lemma with one case per
action; `ReleaseStep` and `ChargeStep` hold what several cases share.

`PinningProofs` proves, for every set of services, every choice of the slow, gated
and watched ones and every `MaxGen`, `Invariance` (`PinningInv`) and from it `Together`
(`SplitOnlyIfOvertaken`), `Recorded` (`RecordedUnlessOvertaken`) and `Bounces`
(the action property `BouncedOnlyIfOutdated`). The invariant compares three
numbers of a service: the generation of its binaries, the one recorded and the
one resolved now never decrease in this order, and the first two agree as long
as nothing overtook it (`ResolvedShape`); hence a record on another generation
means outdated binaries (`TasksAreDue`), and whoever enforces leaves only
services on the current one settled (`CurrentAgree`), apart from those that
`restart()` refuses.

`RegistryProofs` proves, for every set of pids and every `MaxTicks`,
`Invariance` (`RegistryInv`) and from it `Identity`, `Whole`, `Listed` and
`Exclusion` (`NoImpersonation`, `WholeUnlessDoubled`, `ListedUnlessRobbed`,
`OneSupervisor`). `RegistryInv` adds `Timely` (no
record is of the future, without which a recycled pid could match one), `Alone`
(a lone supervisor has the temporary file to itself, and its content at each
step of a write) and `SeesAhead` (an `up` that looked while a listed supervisor
runs has that supervisor's record in hand when it decides).

`LocalFsProofs` proves, for every set of threads, paths, contents and modes,
`Invariance` (`LocalInv`) and `Refinement` (`LocalSpec => Implements`): every
system call is a step of the abstract store or leaves it alone. `LocalInv` says
where a thread can be for its request (`AtItsMethod`), that the present state of
its paths is among what it has seen (`NowIsSeen`), and that what it carries from
one call to the next was true at some moment since the request and makes up a
complete temporary file before the rename (`CarriedWasSeen`).

`SupervisorProofs` proves, on top of `ServiceInv` and for every set of services and
every `After`, `SupInvariance` (`SupInv`) and from it `Orphans`, `GracePeriods`,
`StillReady` and `ExitCodes` (`NoOrphan`, `GraceEndsBeforeDependencies`,
`DependenciesWereReady`, `ExitCodeTellsFailure`). `SupInv` adds to the run loop's
invariant that a recorded failure is of a service that failed and that every failure
is recorded (`FailureIsRecorded`), that the exit code was read from that record and
the record no longer changes (`ExitReadsRecord`), that a stop event is set only after
every dependent's `stop()` returned (`WavesInOrder`), and that an incarnation told to end
is down once `stop()` returned (`StopWasFinal`). Every action of `Service` has to
preserve these too; `RecordStep` says once what such a step does to the record.

`LaunchProofs` holds what happens before and around a launch.

* Gates, for every set of callers, `Recheck`, `Timeout` and `CloseAfter`
  (`GatesAssumption`: run loops are no watchers, `Recheck` and `CloseAfter` are positive): `GatesInvariance`
  (`GateInv`), `FlakesCountOnce` (`StreakCountsRuns`) and `CurrentAnswers`
  (`AnswersAreCurrent`). The queue holds nobody twice and a running check was begun for
  its head (`LockQueue`); a check begun after the last change of the resource can only
  find what is there now, and so does a result stored more than `Timeout` after it
  (`CacheIsCurrent`); a streak is one behind the failed runs while the cached
  failure is uncounted (`StreakSlack`), without which a second watcher's refresh
  could be counted twice.
* Config (`ConfigAssumption`: names are finitely many and ordered, as numbers are):
  `Merging` (`MergedIsNearest`) rests on the chain of files read (`ChainRead`);
  `StartOrder` (`OrderRespectsAfter`) on three parts, of which `OrderSound` says that no
  member of a circle is ever placed: a refusal then exhibits a circle.
* Ports, for every range and set of families (`PortsAssumption`: there is a highest
  port, there is an address family and none twice): `PortBatches` (`BatchHolds`). `Trying` says exactly
  which sockets a half-bound candidate holds, and that the ports of a range below it
  were all in somebody's way; `Disjoint` that nobody binds what another holds.
* BinCache: `ActiveCopiesStay` (`ActiveNeverExpires`) and `HitsAreCurrent`
  (`HitIsCurrent`) have the hypothesis that there is one process, and need it: another
  may touch between a look and an unlink, and `bin_cache_two` shows two processes
  violating the latter. `HandedOutIsYoung` says that what was handed out since time
  passed is young, and not what the prune is about to unlink. `SoleCopier` follows the
  fingerprint, the temporary file and the sidecar through one copy.
* Watch: `Relaunches`, the action property `RelaunchesWhenQuiet`, which is the first half of
  `RebuildsNoticed`. `ScansApart` is the argument: a write between two scans leaves a
  fresh signature, or none, on some path, and the second scan still has it to see.
* ExecFunctions: `Answers`, the invariant `AnswersAreTrue`, which is the first half of
  `AnsweredTruly`.

`SidecarProofs` holds the life of the sidecar and four of its modules.

* `MailDeliversOnce`: `MailSpool` refines `MailOnce` (`DeliversOnce`), the refinement
  mapping being `Delivered` (a torn file is no delivery). `MailInv` says that the table
  of a running sidecar has exactly the keys whose files are whole and were read.
* `SqlIsDurable` (`SqlDurable`) from `SqlInv`: the file holds the statements of whole batches, all
  the confirmed and none of the refused ones among them (`RowsByBatch`), and every walk through a list of migrations agrees with the ledger
  up to its position, however many processes walk (`WalkFollowsLedger`).
* `Relays` (`RelaysTruly`) from `LlmInv`, for every finite set of requests; the
  bound on errors compares a counter with a cardinality (`ErrorsAreAnswered`).
* `ScratchIdentity` (`ScratchByIdentity`) from `ScratchInv`: who has passed the comparison
  has seen the directory at the path (`Witnessed`), a dropped record stays dropped
  (`GoneForGood`), and as long as nothing disturbed the path nobody is refused
  (`Undisturbed`).
* `Boots` (`BootsAndUnwinds`) from `SidecarInv`: started modules are a prefix of the built
  ones, and shut-down ones the reversed end of those (`InSequence`), beside what the process has bound
  at each stage and what its exit code tells.

`EmulatorProofs` holds the two in-memory drivers, for every page size, text, field and
user (`ChatAssumption`, `TrackerAssumption`: the constants have their types, and a
page is not empty).

* `ChatInvariance` (`ChatInv`), `ChatTables` (`ChatTablesAgree`), `Quoting`
  (`QuotesWhatWasRead`) and the action property `ChatRequests` (`ChatSteps`). `ChatInv` has,
  beside the agreement of the tables, what a reader knows between reading and quoting.
* `TrackerInvariance` (`TrackerInv`), `TrackerAgrees` (`TrackerConsistent`) and the action
  property `PollersSeeChanges` (`ModifiedTells`). `WireTells` is the arithmetic of it:
  four steps more never round to less, and to the same microsecond only from nine
  changes ahead of a reading of the clock on.
* `Listing` (`ListSeesAll`) and `Paged` (`PagesComplete`): a client that follows page tokens
  while others write. The proof never speaks of the sort: the place of a row in a list is the
  number of rows that do not come after it, so what a page holds, and how a place moves
  when a row is added or leaves, are facts about cardinalities. The client's
  invariants (`ListerInv`, `PagerInv`) say that every row that stayed and was not
  seen has its place beyond the offset, and where the property promises no repetition
  that every row seen has its place before it.

The assumptions not named above only give constants their types and keep marker
values (`NoFile`, `Absent`, `NoOne`, `None`, `Torn`) apart from data. TLC evaluates all of
them in the runs.

`ServiceInv`, `RegistryInv` and `LocalInv` are checked by runs as a whole; `NoSquatter`,
`FailedIsDown`, `BudgetIsEnforced`, `WholeUnlessDoubled` and `ListedUnlessRobbed` are conjuncts
of them. The other inductive invariants are proved and not part of a run: of these the
runs check what the theorems conclude.

Only model-checked: liveness, which is beyond the prover, that is `ParkedRevives`,
`ClosedGateStops`, `ShutdownCompletes`, `DownCloses`, `LoadEnds`, and the eventualities in
`RebuildsNoticed` and `AnsweredTruly`. Every other property of a passing run is stated
by a theorem.

## 5. Plan

1. *(done)* `Service`, `Supervisor`, `Gates`, `Pinning`, with `ServiceProofs` and
   `PinningProofs`.
2. *(done)* `Registry` and `RegistryProofs`: the record of one name.
3. *(done)* `FileStore`, `LocalFs` and `LocalFsProofs`: the local driver refines
   the abstract store.
4. *(done)* `BinCache` and `Watch`.
5. *(done)* `MailOnce` and `MailSpool`: idempotent sends over crashes.
6. *(done)* `Config` and `Ports`.
7. *(done)* `IssueTracker` and `Chat`, the two in-memory drivers.
8. *(done)* `Sql`, `LlmProxy`, `ExecFunctions`, `Scratch`, `Sidecar`.
9. *(done)* `SupervisorProofs`, `LaunchProofs`, `SidecarProofs` and `EmulatorProofs`: the
   safety of every component the runs check.
10. Next: step counts as safety bounds behind the liveness properties (a load, a
    shutdown or a batch cannot go round in circles), and that what `Service` assumes of a
    settled gate is what `Gates` gives.

## 6. Not modelled

Template rendering, console output and the wire formats of the HTTP modules are
string processing. Mercurial keeps no state of its own: a request is a subprocess.
The log files and the output tail of a service, and the attributes (`ps`, `status`,
usage figures) the CLI prints, are read-only views, as is the resolution of a name
prefix. `doctor` only reports. How a containment backend is chosen and set up
(`acquire`) is not modelled, nor are directories other than scratch directories, and symbolic links
inside the root; in `LocalFs` paths are of regular files in existing
directories. The fsspec client buffers and forwards. The tokenizer of the SQL
dialect gate, the query language of the issue tracker beyond `status:open`, and the
mock surface of the LLM proxy are pure functions of text.
