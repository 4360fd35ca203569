------------------------------- MODULE Service -------------------------------
(***************************************************************************)
(* The supervised service of jetty-orc (orchestrator/service.py): the run  *)
(* loop of every service of one instance, the tasks that end an            *)
(* incarnation from outside the loop (stop, restart, the continuous-gate   *)
(* watcher, the path watcher), and the processes they act on.              *)
(*                                                                         *)
(* Every task runs on one asyncio loop: the code between two awaits is one *)
(* step.  pc[s] names the await at which the run loop of s is suspended:   *)
(*                                                                         *)
(*   deps     ready_event of a dependency      gate      satisfied(...)    *)
(*   render   _render()                        exec      create_subprocess *)
(*   probe    _wait_ready()                    live      _wait_exit(proc)  *)
(*   drain    the log pipe of the dead process regate    satisfied(refresh)*)
(*   backoff  the restart delay                parked    sleep in _block   *)
(*   parkgate satisfied(...) in _block         done      run() is over     *)
(*                                                                         *)
(* Time is abstracted: a deadline (grace period, readiness timeout, drain  *)
(* timeout) may strike whenever it is awaited, and the filter that drops   *)
(* failures older than window_seconds may keep any number of the youngest. *)
(***************************************************************************)
EXTENDS Naturals, Sequences

CONSTANTS
  Services,     \* the names of the instance's services
  After,        \* After[s]: the sequence of services s declared `after`
  Gated,        \* services with a `requires` list
  Continuous,   \* those whose gate is marked continuous
  Probed,       \* services with a readiness probe
  Watched,      \* services with a `watch` list
  MaxRestarts,  \* restart.max_restarts
  Cgroup        \* containment: TRUE for CgroupBackend, FALSE for PgroupBackend

ASSUME ServiceAssumption ==
  /\ After \in [Services -> Seq(Services)]
  /\ Gated \subseteq Services
  /\ Continuous \subseteq Gated
  /\ Probed \subseteq Services
  /\ Watched \subseteq Services
  /\ MaxRestarts \in Nat
  /\ Cgroup \in BOOLEAN

VARIABLES
  pc,              \* where the run loop of each service is suspended
  state,           \* Service.state, what `jetty-orc ls` shows
  awaited,         \* how many dependencies run() has already awaited
  fails,           \* len(self._fail_times)
  ready,           \* services whose ready_event is set
  proc,            \* the current incarnation's main process
  sig,             \* the strongest signal swept over the live incarnation
  children,        \* services with group members that outlived their leader
  code,            \* exit code of the last process: "fatal" or "other"
  stopEvent,       \* services whose _stop_event is set
  bounceRequested, \* services whose _bounce_requested is True
  gateStop,        \* services whose _gate_stop is True
  stopper,         \* the stop() call of each service
  restarting,      \* services with a restart() task awaiting a live process
  restartLate,     \* services with a restart() task whose process has exited
  gateWatch,       \* the _watch_continuous_gates task of each service
  pathWatch,       \* the _watch_paths task of each service
  gates,           \* what the checks of each service's gates answer
  failure,         \* the supervisor's _failure: the services that set it
  everReady,       \* history: services whose ready_event was ever set
  asked            \* history: services whose current incarnation was told to
                   \* end by stop, restart or a watcher

runVars  == <<pc, state, awaited, fails, ready, everReady>>
procVars == <<proc, sig, children, code>>
flagVars == <<stopEvent, bounceRequested, gateStop, asked>>
taskVars == <<stopper, restarting, restartLate, gateWatch, pathWatch>>
envVars  == <<gates, failure>>
vars     == <<runVars, procVars, flagVars, taskVars, envVars>>

PCs == {"deps", "gate", "render", "exec", "probe", "live", "drain", "regate",
        "backoff", "parked", "parkgate", "done"}

States == {"pending", "starting", "running", "blocked", "backoff", "stopping",
           "stopped", "failed"}

\* Exit codes, up to what the restart policy tells apart: "fatal" is a code
\* listed in restart.no_restart_exit.
Codes == {"fatal", "other"}

TypeOK ==
  /\ pc \in [Services -> PCs]
  /\ state \in [Services -> States]
  /\ awaited \in [Services -> Nat]
  /\ \A s \in Services : awaited[s] <= Len(After[s])
  /\ fails \in [Services -> 0 .. MaxRestarts + 1]
  /\ proc \in [Services -> {"none", "forked", "alive", "exited"}]
  /\ sig \in [Services -> {"none", "stop", "kill"}]
  /\ code \in [Services -> Codes]
  /\ ready \subseteq Services
  /\ children \subseteq Services
  /\ stopEvent \subseteq Services
  /\ bounceRequested \subseteq Services
  /\ gateStop \subseteq Services
  /\ stopper \in [Services -> {"idle", "waiting", "done"}]
  /\ restarting \subseteq Services
  /\ restartLate \subseteq Services
  /\ gateWatch \in [Services -> {"off", "on", "term"}]
  /\ pathWatch \in [Services -> {"off", "on", "term"}]
  /\ gates \in [Services -> {"open", "closed", "unsettled"}]
  /\ failure \subseteq Services
  /\ everReady \subseteq Services
  /\ asked \subseteq Services

Init ==
  /\ pc = [s \in Services |-> "deps"]
  /\ state = [s \in Services |-> "pending"]
  /\ awaited = [s \in Services |-> 0]
  /\ fails = [s \in Services |-> 0]
  /\ proc = [s \in Services |-> "none"]
  /\ sig = [s \in Services |-> "none"]
  /\ code = [s \in Services |-> "other"]
  /\ ready = {} /\ children = {} /\ stopEvent = {} /\ bounceRequested = {}
  /\ gateStop = {} /\ restarting = {} /\ restartLate = {} /\ failure = {}
  /\ everReady = {} /\ asked = {}
  /\ stopper = [s \in Services |-> "idle"]
  /\ gateWatch = [s \in Services |-> "off"]
  /\ pathWatch = [s \in Services |-> "off"]
  /\ gates \in [Services -> {"open", "closed", "unsettled"}]
  /\ \A s \in Services \ Gated : gates[s] = "open"

------------------------------------------------------------------------------
(***************************************************************************)
(* Containment and processes.  The child exists from the fork inside       *)
(* create_subprocess_exec on ("forked"); self.proc names it, and pgroup    *)
(* containment knows its session, only once that await returns ("alive").  *)
(* A child is in its service's cgroup before it execs, so a cgroup sweep   *)
(* reaches it earlier.                                                     *)
(***************************************************************************)
Alive(s) == proc[s] = "alive"     \* self.proc.returncode is None

Reachable(s) == Alive(s) \/ (Cgroup /\ proc[s] = "forked")

\* Variant: only the main process is signalled.
SweepLeaderOnly(s, k) ==
  /\ sig' = [sig EXCEPT ![s] = IF Reachable(s) /\ @ # "kill" THEN k ELSE @]
  /\ children' = children

\* containment.sweep(s, k): signal every member of the group of s.
Sweep(s, k) ==
  /\ sig' = [sig EXCEPT ![s] = IF Reachable(s) /\ @ # "kill" THEN k ELSE @]
  /\ children' = IF k = "kill" THEN children \ {s} ELSE children

Ask(s) == asked' = IF Reachable(s) THEN asked \cup {s} ELSE asked

\* The main process of s exits (by itself, or obeying a signal) and is reaped.
\* It may leave children behind, unless the whole group was killed.  A
\* restart() task waiting for it is from now on late.
ProcessExit(s) ==
  /\ Alive(s)
  /\ proc' = [proc EXCEPT ![s] = "exited"]
  /\ \E c \in Codes : code' = [code EXCEPT ![s] = c]
  /\ children' \in {children, children \cup {s}}
  /\ sig[s] = "kill" => children' = children
  /\ sig' = [sig EXCEPT ![s] = "none"]
  /\ restarting' = restarting \ {s}
  /\ restartLate' = IF s \in restarting THEN restartLate \cup {s} ELSE restartLate
  /\ UNCHANGED <<runVars, flagVars, stopper, gateWatch, pathWatch, envVars>>

------------------------------------------------------------------------------
(***************************************************************************)
(* Gates.  "open" and "closed" stand for a gate whose truth has been       *)
(* steady for longer than its cache lives, so that every answer agrees;    *)
(* "unsettled" for one that moved or flakes, or is served from a stale     *)
(* cache.                                                                  *)
(***************************************************************************)
Answers(s) == CASE gates[s] = "open"      -> {TRUE}
                [] gates[s] = "closed"    -> {FALSE}
                [] gates[s] = "unsettled" -> BOOLEAN

GateMoves(s) ==
  /\ s \in Gated
  /\ \E g \in {"open", "closed", "unsettled"} \ {gates[s]} :
        gates' = [gates EXCEPT ![s] = g]
  /\ UNCHANGED <<runVars, procVars, flagVars, taskVars, failure>>

------------------------------------------------------------------------------
(***************************************************************************)
(* The run loop.                                                           *)
(***************************************************************************)

\* The head of `while not self.stopping`, up to the next await: over, the gate
\* check, or straight into _run_once (which sets "starting" and renders).
EnterLoop(s) ==
  /\ pc' = [pc EXCEPT ![s] = IF s \in stopEvent THEN "done"
                             ELSE IF s \in Gated THEN "gate" ELSE "render"]
  /\ state' = [state EXCEPT ![s] = IF s \in stopEvent THEN "stopped"
                                   ELSE IF s \in Gated THEN @ ELSE "starting"]
  /\ asked' = asked \ {s}

\* Variant: any end of the race counts as readiness.
AwaitDepEndsAnyhow(s) ==
  /\ pc[s] = "deps"
  /\ awaited[s] < Len(After[s])
  /\ awaited' = [awaited EXCEPT ![s] = @ + 1]
  /\ UNCHANGED <<pc, state, fails, ready, everReady,
                 procVars, flagVars, taskVars, envVars>>

\* self._race(ev.wait()) of the next dependency ends because it is ready.
AwaitDep(s) ==
  /\ pc[s] = "deps"
  /\ awaited[s] < Len(After[s])
  /\ After[s][awaited[s] + 1] \in ready
  /\ awaited' = [awaited EXCEPT ![s] = @ + 1]
  /\ UNCHANGED <<pc, state, fails, ready, everReady,
                 procVars, flagVars, taskVars, envVars>>

\* The race is lost to a stop request.
DepsStopped(s) ==
  /\ pc[s] = "deps"
  /\ s \in stopEvent
  /\ pc' = [pc EXCEPT ![s] = "done"]
  /\ state' = [state EXCEPT ![s] = "stopped"]
  /\ UNCHANGED <<awaited, fails, ready, everReady,
                 procVars, flagVars, taskVars, envVars>>

DepsDone(s) ==
  /\ pc[s] = "deps"
  /\ awaited[s] = Len(After[s])
  /\ EnterLoop(s)
  /\ UNCHANGED <<awaited, fails, ready, everReady, procVars, stopEvent,
                 bounceRequested, gateStop, taskVars, envVars>>

\* The gate check at the loop head passes: _run_once, without another look at
\* self.stopping.
GatePasses(s) ==
  /\ pc[s] = "gate"
  /\ TRUE \in Answers(s)
  /\ pc' = [pc EXCEPT ![s] = "render"]
  /\ state' = [state EXCEPT ![s] = "starting"]
  /\ UNCHANGED <<awaited, fails, ready, everReady,
                 procVars, flagVars, taskVars, envVars>>

\* It fails: _block forgives past crashes and parks.  A service asked to stop
\* leaves _block at once, and then the loop.
GateFails(s) ==
  /\ pc[s] = "gate"
  /\ FALSE \in Answers(s)
  /\ fails' = [fails EXCEPT ![s] = 0]
  /\ pc' = [pc EXCEPT ![s] = IF s \in stopEvent THEN "done" ELSE "parked"]
  /\ state' = [state EXCEPT ![s] = IF s \in stopEvent THEN "stopped" ELSE "blocked"]
  /\ UNCHANGED <<awaited, ready, everReady, procVars, flagVars, taskVars, envVars>>

\* The sleep in _block ends, and the gates are asked again.
ParkedWakes(s) ==
  /\ pc[s] = "parked"
  /\ s \notin stopEvent
  /\ pc' = [pc EXCEPT ![s] = "parkgate"]
  /\ UNCHANGED <<state, awaited, fails, ready, everReady,
                 procVars, flagVars, taskVars, envVars>>

\* They fail again.
StillParked(s) ==
  /\ pc[s] = "parkgate"
  /\ FALSE \in Answers(s)
  /\ s \notin stopEvent
  /\ pc' = [pc EXCEPT ![s] = "parked"]
  /\ UNCHANGED <<state, awaited, fails, ready, everReady,
                 procVars, flagVars, taskVars, envVars>>

\* Variant: _block forgets to return when its check passes.
UnparkedByStopOnly(s) ==
  /\ pc[s] \in {"parked", "parkgate"} /\ s \in stopEvent
  /\ EnterLoop(s)
  /\ UNCHANGED <<awaited, fails, ready, everReady, procVars, stopEvent,
                 bounceRequested, gateStop, taskVars, envVars>>

\* _block returns: the gates pass, or a stop was requested.
Unparked(s) ==
  /\ \/ pc[s] = "parkgate" /\ TRUE \in Answers(s)
     \/ pc[s] \in {"parked", "parkgate"} /\ s \in stopEvent
  /\ EnterLoop(s)
  /\ UNCHANGED <<awaited, fails, ready, everReady, procVars, stopEvent,
                 bounceRequested, gateStop, taskVars, envVars>>

\* _render() returned: the child is forked and create_subprocess_exec awaited.
Fork(s) ==
  /\ pc[s] = "render"
  /\ pc' = [pc EXCEPT ![s] = "exec"]
  /\ proc' = [proc EXCEPT ![s] = "forked"]
  /\ UNCHANGED <<state, awaited, fails, ready, everReady, sig, children, code,
                 flagVars, taskVars, envVars>>

\* The wait on s ends for every service whose current dependency it is.
ReleaseWaiters(d) ==
  awaited' = [s \in Services |->
    IF pc[s] = "deps" /\ awaited[s] < Len(After[s]) /\ After[s][awaited[s] + 1] = d
    THEN awaited[s] + 1 ELSE awaited[s]]

\* `if await self._wait_ready(): running; ready_event.set()`.
BecomeReady(s) ==
  /\ state' = [state EXCEPT ![s] = "running"]
  /\ ready' = ready \cup {s}
  /\ everReady' = everReady \cup {s}
  /\ ReleaseWaiters(s)

\* create_subprocess_exec returned: the group is registered, the watchers are
\* started, and a service without a probe is ready at once.
Launched(s) ==
  /\ pc[s] = "exec"
  /\ proc' = [proc EXCEPT ![s] = "alive"]
  /\ gateWatch' = [gateWatch EXCEPT ![s] = IF s \in Continuous THEN "on" ELSE "off"]
  /\ pathWatch' = [pathWatch EXCEPT ![s] = IF s \in Watched THEN "on" ELSE "off"]
  /\ \/ /\ s \in Probed
        /\ pc' = [pc EXCEPT ![s] = "probe"]
        /\ UNCHANGED <<state, ready, everReady, awaited>>
     \/ /\ s \notin Probed
        /\ pc' = [pc EXCEPT ![s] = "live"]
        /\ BecomeReady(s)
  /\ UNCHANGED <<fails, sig, children, code, flagVars, stopper, restarting,
                 restartLate, envVars>>

\* A probe succeeds.  The answer may arrive after a stop request, or after the
\* process that gave it died.
ProbePasses(s) ==
  /\ pc[s] = "probe"
  /\ pc' = [pc EXCEPT ![s] = "live"]
  /\ BecomeReady(s)
  /\ UNCHANGED <<fails, procVars, flagVars, taskVars, envVars>>

\* _wait_ready gives up: the process is gone or a stop was requested.
ProbeAbandoned(s) ==
  /\ pc[s] = "probe"
  /\ ~Alive(s) \/ s \in stopEvent
  /\ pc' = [pc EXCEPT ![s] = "live"]
  /\ UNCHANGED <<state, awaited, fails, ready, everReady,
                 procVars, flagVars, taskVars, envVars>>

\* The readiness timeout: the group is killed, which is a crash of its own.
ProbeTimesOut(s) ==
  /\ pc[s] = "probe"
  /\ s \notin stopEvent
  /\ pc' = [pc EXCEPT ![s] = "live"]
  /\ Sweep(s, "kill")
  /\ UNCHANGED <<state, awaited, fails, ready, everReady, proc, code,
                 flagVars, taskVars, envVars>>

\* _wait_exit saw the return code: cancel the watchers, kill what is left of
\* the group, then drain the log pipe.
Reap(s) ==
  /\ pc[s] = "live"
  /\ proc[s] = "exited"
  /\ pc' = [pc EXCEPT ![s] = "drain"]
  /\ gateWatch' = [gateWatch EXCEPT ![s] = "off"]
  /\ pathWatch' = [pathWatch EXCEPT ![s] = "off"]
  /\ Sweep(s, "kill")
  /\ UNCHANGED <<state, awaited, fails, ready, everReady, proc, code, flagVars,
                 stopper, restarting, restartLate, envVars>>

------------------------------------------------------------------------------
(***************************************************************************)
(* Exit classification.                                                    *)
(***************************************************************************)

\* _run_once returns c: the drain ended, or the spawn itself failed (code 127,
\* which a config may list in no_restart_exit like any other).
RunOnceReturns(s, c) ==
  \/ pc[s] = "drain" /\ c = code[s]
  \/ pc[s] = "render" /\ c \in Codes

\* What every classification leaves alone; _run_once cleared ready_event.
Classified(s) ==
  /\ ready' = ready \ {s}
  /\ UNCHANGED <<awaited, everReady, procVars, stopEvent, taskVars, gates>>

ExitStopping(s) ==
  /\ \E c \in Codes : RunOnceReturns(s, c)
  /\ s \in stopEvent
  /\ EnterLoop(s)
  /\ Classified(s)
  /\ UNCHANGED <<fails, bounceRequested, gateStop, failure>>

\* The continuous-gate watcher stopped it: no classification, no budget.
ExitGateStop(s) ==
  /\ \E c \in Codes : RunOnceReturns(s, c)
  /\ s \notin stopEvent
  /\ s \in gateStop
  /\ gateStop' = gateStop \ {s}
  /\ EnterLoop(s)
  /\ Classified(s)
  /\ UNCHANGED <<fails, bounceRequested, failure>>

\* A restart was requested: no classification, no budget, no backoff.
ExitBounced(s) ==
  /\ \E c \in Codes : RunOnceReturns(s, c)
  /\ s \notin stopEvent
  /\ s \notin gateStop
  /\ s \in bounceRequested
  /\ bounceRequested' = bounceRequested \ {s}
  /\ EnterLoop(s)
  /\ Classified(s)
  /\ UNCHANGED <<fails, gateStop, failure>>

\* self._fail: the first failure of the instance is the one that counts.
Fail(s) ==
  /\ pc' = [pc EXCEPT ![s] = "done"]
  /\ state' = [state EXCEPT ![s] = "failed"]
  /\ failure' = IF failure = {} THEN {s} ELSE failure

IsCrash(s, c) ==
  RunOnceReturns(s, c) /\ s \notin stopEvent \cup gateStop \cup bounceRequested

ExitFatal(s) ==
  /\ IsCrash(s, "fatal")
  /\ Fail(s)
  /\ Classified(s)
  /\ UNCHANGED <<fails, bounceRequested, gateStop, asked>>

\* The restart budget: drop failures older than the window (k are left) and
\* add this one.  Within the limit, back off ...
BacksOff(s) ==
  /\ \E k \in 0 .. fails[s] : k < MaxRestarts /\ fails' = [fails EXCEPT ![s] = k + 1]
  /\ pc' = [pc EXCEPT ![s] = "backoff"]
  /\ state' = [state EXCEPT ![s] = "backoff"]
  /\ UNCHANGED failure

\* ... past it, fail the instance.
RunsOut(s) ==
  /\ \E k \in 0 .. fails[s] : k >= MaxRestarts /\ fails' = [fails EXCEPT ![s] = k + 1]
  /\ Fail(s)

Charge(s) == BacksOff(s) \/ RunsOut(s)

ExitCharged(s) ==
  /\ s \notin Gated
  /\ IsCrash(s, "other")
  /\ Charge(s)
  /\ Classified(s)
  /\ UNCHANGED <<bounceRequested, gateStop, asked>>

\* A gated service asks its gates again before it spends budget.
ExitAsksGates(s) ==
  /\ s \in Gated
  /\ IsCrash(s, "other")
  /\ pc' = [pc EXCEPT ![s] = "regate"]
  /\ Classified(s)
  /\ UNCHANGED <<state, fails, bounceRequested, gateStop, asked, failure>>

RegateFails(s) ==
  /\ pc[s] = "regate"
  /\ FALSE \in Answers(s)
  /\ EnterLoop(s)
  /\ UNCHANGED <<awaited, fails, ready, everReady, procVars, stopEvent,
                 bounceRequested, gateStop, taskVars, envVars>>

\* The gates are fine: the crash is the service's own, even if a stop request
\* came in while they were asked.
RegatePasses(s) ==
  /\ pc[s] = "regate"
  /\ TRUE \in Answers(s)
  /\ Charge(s)
  /\ UNCHANGED <<awaited, ready, everReady, procVars, flagVars, taskVars, gates>>

\* The backoff delay ends, or is abandoned for a stop request.
BackoffEnds(s) ==
  /\ pc[s] = "backoff"
  /\ EnterLoop(s)
  /\ UNCHANGED <<awaited, fails, ready, everReady, procVars, stopEvent,
                 bounceRequested, gateStop, taskVars, envVars>>

------------------------------------------------------------------------------
(***************************************************************************)
(* What ends an incarnation from outside the loop.                         *)
(***************************************************************************)

\* stop(): the event, and for a live process the stop signal and the grace
\* period; otherwise SIGKILL to whatever the group holds.
Stop(s) ==
  /\ stopper[s] = "idle"
  /\ stopEvent' = stopEvent \cup {s}
  /\ Ask(s)
  /\ IF Alive(s)
       THEN /\ state' = [state EXCEPT ![s] = "stopping"]
            /\ Sweep(s, "stop")
            /\ stopper' = [stopper EXCEPT ![s] = "waiting"]
       ELSE /\ Sweep(s, "kill")
            /\ stopper' = [stopper EXCEPT ![s] = "done"]
            /\ UNCHANGED state
  /\ UNCHANGED <<pc, awaited, fails, ready, everReady, proc, code,
                 bounceRequested, gateStop, restarting, restartLate,
                 gateWatch, pathWatch, envVars>>

\* The process exited or its grace period is over: the final SIGKILL.
StopEnds(s) ==
  /\ stopper[s] = "waiting"
  /\ stopper' = [stopper EXCEPT ![s] = "done"]
  /\ Sweep(s, "kill")
  /\ Ask(s)
  /\ UNCHANGED <<runVars, proc, code, stopEvent, bounceRequested, gateStop,
                 restarting, restartLate, gateWatch, pathWatch, envVars>>

\* restart(): refused while stopping, while a bounce is requested and between
\* incarnations.
Restart(s) ==
  /\ s \notin stopEvent \cup bounceRequested
  /\ Alive(s)
  /\ bounceRequested' = bounceRequested \cup {s}
  /\ restarting' = restarting \cup {s}
  /\ Sweep(s, "stop")
  /\ Ask(s)
  /\ UNCHANGED <<runVars, proc, code, stopEvent, gateStop, stopper, restartLate,
                 gateWatch, pathWatch, envVars>>

\* The grace period of restart() ends with the old process still alive.
RestartEscalates(s) ==
  /\ s \in restarting
  /\ restarting' = restarting \ {s}
  /\ Sweep(s, "kill")
  /\ Ask(s)
  /\ UNCHANGED <<runVars, proc, code, stopEvent, bounceRequested, gateStop,
                 stopper, restartLate, gateWatch, pathWatch, envVars>>

\* Variant: the escalation is not conditional on the old process.
RestartSweepsLate(s) ==
  /\ s \in restartLate
  /\ restartLate' = restartLate \ {s}
  /\ Sweep(s, "kill")
  /\ Ask(s)
  /\ UNCHANGED <<runVars, proc, code, stopEvent, bounceRequested, gateStop,
                 stopper, restarting, gateWatch, pathWatch, envVars>>

\* restart() notices that its process exited.  By now the loop may have
\* respawned, so the task must not sweep.
RestartNoticesExit(s) ==
  /\ s \in restartLate
  /\ restartLate' = restartLate \ {s}
  /\ UNCHANGED <<runVars, procVars, flagVars, stopper, restarting, gateWatch,
                 pathWatch, envVars>>

\* A continuous gate closed under a live process.
GateCloses(s) ==
  /\ gateWatch[s] = "on"
  /\ s \notin stopEvent
  /\ Alive(s)
  /\ FALSE \in Answers(s)
  /\ gateStop' = gateStop \cup {s}
  /\ gateWatch' = [gateWatch EXCEPT ![s] = "term"]
  /\ Sweep(s, "stop")
  /\ Ask(s)
  /\ UNCHANGED <<runVars, proc, code, stopEvent, bounceRequested, stopper,
                 restarting, restartLate, pathWatch, envVars>>

\* A watched path changed and settled: relaunch through the bounce flag.
PathChanges(s) ==
  /\ pathWatch[s] = "on"
  /\ s \notin stopEvent
  /\ Alive(s)
  /\ bounceRequested' = bounceRequested \cup {s}
  /\ pathWatch' = [pathWatch EXCEPT ![s] = "term"]
  /\ Sweep(s, "stop")
  /\ Ask(s)
  /\ UNCHANGED <<runVars, proc, code, stopEvent, gateStop, stopper, restarting,
                 restartLate, gateWatch, envVars>>

\* Variant: no SIGKILL after the grace period.
GateWatchEndsPolitely(s) ==
  /\ gateWatch[s] = "term"
  /\ gateWatch' = [gateWatch EXCEPT ![s] = "off"]
  /\ UNCHANGED <<runVars, procVars, flagVars, stopper, restarting, restartLate,
                 pathWatch, envVars>>

\* The _terminate_group of a watcher ends (exit seen, or grace period over).
GateWatchEnds(s) ==
  /\ gateWatch[s] = "term"
  /\ gateWatch' = [gateWatch EXCEPT ![s] = "off"]
  /\ Sweep(s, "kill")
  /\ Ask(s)
  /\ UNCHANGED <<runVars, proc, code, stopEvent, bounceRequested, gateStop,
                 stopper, restarting, restartLate, pathWatch, envVars>>

PathWatchEnds(s) ==
  /\ pathWatch[s] = "term"
  /\ pathWatch' = [pathWatch EXCEPT ![s] = "off"]
  /\ Sweep(s, "kill")
  /\ Ask(s)
  /\ UNCHANGED <<runVars, proc, code, stopEvent, bounceRequested, gateStop,
                 stopper, restarting, restartLate, gateWatch, envVars>>

\* The supervisor cancels a run() that did not end in time after stop(): the
\* watchers go with it, a forked child is killed by the subprocess transport,
\* a running one is left to the containment.
Cancel(s) ==
  /\ stopper[s] = "done"
  /\ pc[s] # "done"
  /\ pc' = [pc EXCEPT ![s] = "done"]
  /\ proc' = [proc EXCEPT ![s] = IF @ = "forked" THEN "exited" ELSE @]
  /\ sig' = [sig EXCEPT ![s] = IF proc[s] = "forked" THEN "none" ELSE @]
  /\ gateWatch' = [gateWatch EXCEPT ![s] = "off"]
  /\ pathWatch' = [pathWatch EXCEPT ![s] = "off"]
  /\ UNCHANGED <<state, awaited, fails, ready, everReady, children, code,
                 flagVars, stopper, restarting, restartLate, envVars>>

------------------------------------------------------------------------------
\* The steps the event loop owes s once they are due.
LoopStep(s) ==
  \/ AwaitDep(s) \/ DepsStopped(s) \/ DepsDone(s)
  \/ GatePasses(s) \/ GateFails(s) \/ ParkedWakes(s)
  \/ StillParked(s) \/ Unparked(s)
  \/ Fork(s) \/ Launched(s)
  \/ ProbePasses(s) \/ ProbeAbandoned(s) \/ ProbeTimesOut(s) \/ Reap(s)
  \/ ExitStopping(s) \/ ExitGateStop(s) \/ ExitBounced(s)
  \/ ExitFatal(s) \/ ExitCharged(s) \/ ExitAsksGates(s)
  \/ RegateFails(s) \/ RegatePasses(s) \/ BackoffEnds(s)

TaskStep(s) ==
  \/ StopEnds(s) \/ RestartEscalates(s) \/ RestartNoticesExit(s)
  \/ GateWatchEnds(s) \/ PathWatchEnds(s)

\* One service under any supervisor: stop and restart may be called, and the
\* processes, gates and watched files behave as they like.
ServiceStep(s) ==
  \/ LoopStep(s) \/ TaskStep(s)
  \/ GateCloses(s) \/ PathChanges(s) \/ ProcessExit(s) \/ GateMoves(s)
  \/ Stop(s) \/ Restart(s) \/ Cancel(s)

Next == \E s \in Services : ServiceStep(s)

\* Fairness: the event loop serves every task, every wait in it has a
\* deadline, and a process that was sent SIGKILL dies.  Nothing is assumed of
\* other processes, of gates or of the operator.
Fairness(s) ==
  /\ WF_vars(LoopStep(s))
  /\ WF_vars(gates[s] = "closed" /\ GateCloses(s))
  /\ WF_vars(StopEnds(s)) /\ WF_vars(RestartEscalates(s))
  /\ WF_vars(GateWatchEnds(s)) /\ WF_vars(PathWatchEnds(s))
  /\ WF_vars(sig[s] = "kill" /\ ProcessExit(s))

Spec == Init /\ [][Next]_vars
FairSpec == Spec /\ \A s \in Services : Fairness(s)

------------------------------------------------------------------------------
(***************************************************************************)
(* Properties.                                                             *)
(***************************************************************************)

\* After every exit the whole group is swept before a restart, "so a lingering
\* grandchild can never squat on the port its successor needs": outside an
\* incarnation neither the old process nor a child of it is left.
NoSquatter ==
  \A s \in Services :
    pc[s] \notin {"probe", "live", "done"} => ~Alive(s) /\ s \notin children

\* A service that failed the instance is down, whoever called stop or restart
\* on it meanwhile: no process, no straggler, not ready for its dependents.
FailedIsDown ==
  \A s \in Services :
    state[s] = "failed" => /\ pc[s] = "done"
                           /\ ~Alive(s)
                           /\ s \notin children \cup ready

\* run() awaits the dependencies one after the other: a service has a process
\* only if every dependency was ready at least once.
DependenciesWereReady ==
  \A s \in Services :
    proc[s] # "none" => \A i \in 1 .. Len(After[s]) : After[s][i] \in everReady

\* The restart budget: past max_restarts charged exits within the window the
\* service has failed and is never started again.
BudgetIsEnforced ==
  \A s \in Services : fails[s] > MaxRestarts => state[s] = "failed"

\* An exit that stop, restart, a closed gate or a changed path asked for never
\* spends restart budget and never fails the instance, whatever its code and
\* whatever else was signalling the group at the time.
AskedExitsAreFree ==
  [][\A s \in Services :
       state'[s] \in {"backoff", "failed"} /\ state'[s] # state[s] => s \notin asked]_vars

\* service.py: "exit code in `no_restart_exit` -> fail the instance".  An
\* incarnation that nobody asked to end and that exits with such a code fails
\* the service.
FatalCrashFails ==
  [][\A s \in Services :
       /\ pc[s] = "drain" /\ pc'[s] # "drain"
       /\ code[s] = "fatal"
       /\ s \notin asked \cup stopEvent
       => state'[s] = "failed"]_vars

\* A parked service revives when its gates pass for good.
ParkedRevives ==
  \A s \in Gated :
    <>[](gates[s] = "open") => []<>(pc[s] \notin {"parked", "parkgate"})

\* A continuous gate that stays closed takes the service down and keeps it
\* down, until the instance is stopped.
ClosedGateStops ==
  \A s \in Continuous :
    <>[](gates[s] = "closed" /\ s \notin stopEvent) => <>[](~Alive(s))

------------------------------------------------------------------------------
(***************************************************************************)
(* The inductive invariant: the safety properties above and what they rest *)
(* on.  ServiceProofs proves it for every set of services.                 *)
(***************************************************************************)

\* A forked child exists exactly while create_subprocess_exec is awaited, a
\* ready_event is set only from readiness to the end of the drain, and the
\* watchers live no longer than the incarnation they watch.
IncarnationShape ==
  \A s \in Services :
    /\ proc[s] = "forked" <=> pc[s] = "exec"
    /\ s \in ready => pc[s] \in {"live", "drain", "done"}
    /\ gateWatch[s] # "off" \/ pathWatch[s] # "off" => pc[s] \in {"probe", "live"}

\* Dependencies are awaited in order, all of them before the first spawn.
DependencyProgress ==
  /\ ready \subseteq everReady
  /\ \A s \in Services :
       /\ \A i \in 1 .. awaited[s] : After[s][i] \in everReady
       /\ pc[s] \notin {"deps", "done"} \/ proc[s] # "none" =>
            awaited[s] = Len(After[s])

\* Every task that may still signal the group has left its mark: the flag that
\* the run loop will read when the incarnation ends.
RequestsAreFlagged ==
  \A s \in Services :
    /\ stopper[s] # "idle" => s \in stopEvent
    /\ s \in restarting => Alive(s) /\ s \in bounceRequested
    /\ gateWatch[s] = "term" => s \in gateStop
    /\ pathWatch[s] = "term" => s \in bounceRequested
    /\ s \in asked =>
         \/ pc[s] = "done"
         \/ /\ pc[s] \in {"exec", "probe", "live", "drain"}
            /\ s \in stopEvent \cup bounceRequested \cup gateStop

ServiceInv ==
  /\ TypeOK
  /\ NoSquatter
  /\ FailedIsDown
  /\ BudgetIsEnforced
  /\ IncarnationShape
  /\ DependencyProgress
  /\ RequestsAreFlagged
==============================================================================
