----------------------------- MODULE Supervisor ------------------------------
(***************************************************************************)
(* The per-instance supervisor of jetty-orc (orchestrator/supervisor.py):  *)
(* the services of module Service under one shutdown.  A signal or the     *)
(* first failing service sets the shutdown event; _stop_all calls stop()   *)
(* in reverse dependency waves; run() tasks that outlive the 10 s wait are *)
(* cancelled; kill_all is the backstop; the exit code is 1 exactly if a    *)
(* failure was recorded.                                                   *)
(***************************************************************************)
EXTENDS Service

VARIABLES
  phase,     \* where Supervisor.run is: "up", "stopping", "waiting" for the
             \* run() tasks, "cancelling" them, "exited"
  signals,   \* SIGINT/SIGTERMs seen; every one past the first acts alike
  stopped,   \* the local `stopped` of _stop_all: services of finished waves
  exitCode   \* the return value of run()

supVars == <<phase, signals, stopped, exitCode>>
allVars == <<vars, supVars>>

MaxSignals == 2

SupInit ==
  /\ Init
  /\ phase = "up" /\ signals = 0 /\ stopped = {}
  /\ exitCode = "none"

------------------------------------------------------------------------------
\* containment.kill_all(): SIGKILL to every group.
KillAll ==
  /\ sig' = [s \in Services |-> IF Reachable(s) THEN "kill" ELSE sig[s]]
  /\ children' = {}

\* The first signal sets the shutdown event.
FirstSignal ==
  /\ phase # "exited"
  /\ signals = 0
  /\ signals' = 1
  /\ UNCHANGED <<vars, phase, stopped, exitCode>>

\* A further one hard-kills every service group, and nothing else.
FurtherSignal ==
  /\ phase # "exited"
  /\ signals > 0 /\ signals < MaxSignals
  /\ signals' = signals + 1
  /\ KillAll
  /\ UNCHANGED <<runVars, proc, code, flagVars, taskVars, envVars,
                 phase, stopped, exitCode>>

\* `await shutdown.wait()` returns.
BeginShutdown ==
  /\ phase = "up"
  /\ signals > 0 \/ failure # {}
  /\ phase' = "stopping"
  /\ UNCHANGED <<vars, signals, stopped, exitCode>>

Dependents(d) == {s \in Services : \E i \in 1 .. Len(After[s]) : After[s][i] = d}

\* The services of the current wave: everything after them is already down.
Wave == {d \in Services \ stopped : Dependents(d) \subseteq stopped}

\* gather(*(stop() for the wave)): each stop() is a task of its own.
StopInWave(s) ==
  /\ phase = "stopping"
  /\ s \in Wave
  /\ Stop(s)
  /\ UNCHANGED supVars

\* Variant: the next wave does not wait for the stop() calls of this one.
WaveStarted ==
  /\ phase = "stopping"
  /\ stopped # Services
  /\ \A s \in Wave : stopper[s] # "idle"
  /\ stopped' = stopped \cup Wave
  /\ UNCHANGED <<vars, phase, signals, exitCode>>

WaveStopped ==
  /\ phase = "stopping"
  /\ stopped # Services
  /\ \A s \in Wave : stopper[s] = "done"
  /\ stopped' = stopped \cup Wave
  /\ UNCHANGED <<vars, phase, signals, exitCode>>

AllStopped ==
  /\ phase = "stopping"
  /\ stopped = Services
  /\ phase' = "waiting"
  /\ UNCHANGED <<vars, signals, stopped, exitCode>>

\* Variant: the wait for the run() tasks has no timeout of its own.
WaitUntilSecondSignal ==
  /\ phase = "waiting"
  /\ signals > 1
  /\ \E s \in Services : pc[s] # "done"
  /\ phase' = "cancelling"
  /\ UNCHANGED <<vars, signals, stopped, exitCode>>

\* asyncio.wait(tasks, timeout=10) gives up: the pending tasks are cancelled.
WaitTimesOut ==
  /\ phase = "waiting"
  /\ \E s \in Services : pc[s] # "done"
  /\ phase' = "cancelling"
  /\ UNCHANGED <<vars, signals, stopped, exitCode>>

CancelPending(s) ==
  /\ phase = "cancelling"
  /\ Cancel(s)
  /\ UNCHANGED supVars

\* Variant: no backstop.
FinishUnswept ==
  /\ phase \in {"waiting", "cancelling"}
  /\ \A s \in Services : pc[s] = "done"
  /\ phase' = "exited"
  /\ exitCode' = IF failure = {} THEN "zero" ELSE "one"
  /\ UNCHANGED <<vars, signals, stopped>>

\* Variant: an operator's stop always ends with code 0.
FinishBySignal ==
  /\ phase \in {"waiting", "cancelling"}
  /\ \A s \in Services : pc[s] = "done"
  /\ KillAll
  /\ phase' = "exited"
  /\ exitCode' = IF signals = 0 THEN "one" ELSE "zero"
  /\ UNCHANGED <<runVars, proc, code, flagVars, taskVars, envVars,
                 signals, stopped>>

\* Every run() is over: the backstop sweep and the exit code.
Finish ==
  /\ phase \in {"waiting", "cancelling"}
  /\ \A s \in Services : pc[s] = "done"
  /\ KillAll
  /\ phase' = "exited"
  /\ exitCode' = IF failure = {} THEN "zero" ELSE "one"
  /\ UNCHANGED <<runVars, proc, code, flagVars, taskVars, envVars,
                 signals, stopped>>

\* The services' own steps, for as long as the event loop runs.  A step that
\* fails its service calls fail(): `failure` is no longer empty.
RunService(s) ==
  /\ \/ phase \notin {"cancelling", "exited"} /\ LoopStep(s)
     \/ /\ phase # "exited"
        /\ TaskStep(s) \/ GateCloses(s) \/ PathChanges(s) \/ Restart(s)
  /\ UNCHANGED supVars

\* Processes and gates outlive the supervisor.
Environment(s) ==
  /\ ProcessExit(s) \/ GateMoves(s)
  /\ UNCHANGED supVars

SupNext ==
  \/ FirstSignal \/ FurtherSignal
  \/ BeginShutdown \/ WaveStopped \/ AllStopped \/ WaitTimesOut \/ Finish
  \/ \E s \in Services :
       StopInWave(s) \/ CancelPending(s) \/ RunService(s) \/ Environment(s)

SupSpec == SupInit /\ [][SupNext]_allVars

\* Fairness: the event loop runs what is due, every wait of the shutdown has a
\* timeout, SIGKILL works.  No signal, crash or gate is assumed to happen.
SupFairSpec ==
  /\ SupSpec
  /\ WF_allVars(BeginShutdown) /\ WF_allVars(WaveStopped)
  /\ WF_allVars(AllStopped) /\ WF_allVars(WaitTimesOut) /\ WF_allVars(Finish)
  /\ \A s \in Services :
       /\ WF_allVars(StopInWave(s)) /\ WF_allVars(CancelPending(s))
       /\ WF_allVars(phase # "exited" /\ StopEnds(s) /\ RunService(s))
       /\ WF_allVars(sig[s] = "kill" /\ ProcessExit(s) /\ Environment(s))

------------------------------------------------------------------------------
(***************************************************************************)
(* Properties.                                                             *)
(***************************************************************************)
\* No process, or one that SIGKILL was sent to.
Down(s) == proc[s] \in {"none", "exited"} \/ sig[s] = "kill"

\* When the supervisor has exited nothing of the instance is left running: a
\* process that came up behind its stop() call is caught by the backstop.
NoOrphan ==
  phase = "exited" => \A s \in Services : Down(s) /\ s \notin children

\* Once stop() is called on a dependency, no dependent that was told to end is
\* still enjoying its grace period.
GraceEndsBeforeDependencies ==
  \A d \in stopEvent : \A s \in Dependents(d) : s \in asked => Down(s)

\* Exit 0 means that no service failed, exit 1 that the recorded failure is
\* that of a service that did; the post-mortem names a service that is down.
ExitCodeTellsFailure ==
  /\ exitCode = "zero" => \A s \in Services : state[s] # "failed"
  /\ exitCode = "one" => \E s \in failure : state[s] = "failed" /\ Down(s)

\* A shutdown cause always brings the supervisor down, with every process of
\* the instance dead, whatever the services were doing at the time.
ShutdownCompletes ==
  (signals > 0 \/ failure # {}) ~>
    (phase = "exited" /\ \A s \in Services : ~Alive(s))

==============================================================================
