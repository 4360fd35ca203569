---------------------------- MODULE SupervisorProofs ----------------------------
(***************************************************************************)
(* Proofs about module Supervisor, for every set of services, every        *)
(* dependency relation and both containments: SupInv extends the inductive *)
(* invariant of the services by what the shutdown adds, and from it follow *)
(* the safety properties that MCSupervisor checks.                         *)
(***************************************************************************)
EXTENDS Supervisor, ServiceProofs

\* The shutdown's own state: stopped holds services only, and run() has a
\* result exactly when it is over.
SupTypeOK ==
  /\ stopped \subseteq Services
  /\ exitCode \in {"none", "zero", "one"} /\ (exitCode # "none" <=> phase = "exited")

\* A service failed exactly if somebody's failure is recorded, and what is recorded is
\* the failure of a service that did fail.
FailureIsRecorded ==
  /\ \A s \in Services : state[s] = "failed" => failure # {}
  /\ \A s \in failure : state[s] = "failed"

\* The exit code reads the record, which no longer changes.
ExitReadsRecord ==
  /\ exitCode = "zero" => failure = {}
  /\ exitCode = "one" => failure # {}

\* stop() has returned for the services of finished waves, and is called on a service
\* only when all of its dependents are among them.
WavesInOrder ==
  /\ \A s \in stopped : stopper[s] = "done"
  /\ \A d \in stopEvent : Dependents(d) \subseteq stopped

\* An incarnation that was told to end when its stop() returned is dead or was sent
\* SIGKILL; under process groups nobody can tell a forked child anything.
StopWasFinal ==
  \A s \in Services :
    /\ s \in asked /\ proc[s] = "forked" => Cgroup
    /\ s \in asked /\ stopper[s] = "done" => Down(s)

\* The inductive invariant of the supervisor: that of the services, and what
\* the shutdown adds.
SupInv == /\ ServiceInv /\ SupTypeOK /\ FailureIsRecorded /\ ExitReadsRecord
          /\ WavesInOrder /\ StopWasFinal /\ NoOrphan

\* What a step of a service does to the record of failures.
LEMMA RecordStep ==
  ASSUME ServiceInv, NEW s \in Services, ServiceStep(s)
  PROVE  \/ failure' = failure /\ \A t \in Services : (state'[t] = "failed") <=> (state[t] = "failed")
         \/ /\ state' = [state EXCEPT ![s] = "failed"]
            /\ failure' = IF failure = {} THEN {s} ELSE failure
PROOF
  <1>h. TypeOK /\ FailedIsDown
    BY DEF ServiceInv
  <1>t. state \in [Services -> States]
    BY <1>h DEF TypeOK
  <1>d. pc[s] # "done" => state[s] # "failed"
    BY <1>h DEF FailedIsDown
  <1>a. Alive(s) => state[s] # "failed"
    BY <1>h DEF FailedIsDown
  <1>e. ASSUME UNCHANGED failure, NEW x \in States \ {"failed"}, state' = [state EXCEPT ![s] = x], state[s] # "failed"
        PROVE  failure' = failure /\ \A t \in Services : (state'[t] = "failed") <=> (state[t] = "failed")
    BY <1>e, <1>t
  <1>l. ASSUME EnterLoop(s), UNCHANGED failure, pc[s] # "done"
        PROVE  failure' = failure /\ \A t \in Services : (state'[t] = "failed") <=> (state[t] = "failed")
    BY <1>l, <1>t, <1>d DEF EnterLoop
  <1>1. CASE AwaitDep(s) \/ ParkedWakes(s) \/ StillParked(s) \/ Fork(s) \/ ProbeAbandoned(s)
    BY <1>1 DEF AwaitDep, ParkedWakes, StillParked, Fork, ProbeAbandoned, envVars
  <1>2. CASE ProbeTimesOut(s) \/ Reap(s) \/ ExitAsksGates(s)
    BY <1>2 DEF ProbeTimesOut, Reap, ExitAsksGates, envVars
  <1>3. CASE DepsStopped(s) \/ GatePasses(s) \/ GateFails(s)
    BY <1>3, <1>d, <1>t DEF DepsStopped, GatePasses, GateFails, envVars
  <1>4. CASE DepsDone(s) \/ Unparked(s) \/ RegateFails(s) \/ BackoffEnds(s)
    BY <1>4, <1>l DEF DepsDone, Unparked, RegateFails, BackoffEnds, envVars
  <1>5. CASE ExitStopping(s) \/ ExitGateStop(s) \/ ExitBounced(s)
    <2>1. EnterLoop(s) /\ UNCHANGED failure /\ pc[s] # "done"
      BY <1>5 DEF ExitStopping, ExitGateStop, ExitBounced, RunOnceReturns
    <2>. QED BY <2>1, <1>l
  <1>6. CASE Launched(s) \/ ProbePasses(s)
    BY <1>6, <1>d, <1>t DEF Launched, ProbePasses, BecomeReady, envVars
  <1>7. CASE ExitFatal(s)
    BY <1>7 DEF ExitFatal, Fail
  <1>8. CASE ExitCharged(s) \/ RegatePasses(s)
    <2>1. Charge(s) /\ pc[s] # "done"
      BY <1>8 DEF ExitCharged, RegatePasses, IsCrash, RunOnceReturns
    <2>. QED BY <2>1, <1>d, <1>t DEF Charge, BacksOff, RunsOut, Fail
  <1>9. CASE TaskStep(s) \/ GateCloses(s) \/ PathChanges(s) \/ ProcessExit(s) \/ GateMoves(s) \/ Restart(s)
    BY <1>9 DEF TaskStep, StopEnds, RestartEscalates, RestartNoticesExit, GateWatchEnds,
         PathWatchEnds,
         GateCloses, PathChanges, ProcessExit, GateMoves, Restart, runVars, envVars
  <1>10. CASE Stop(s)
    BY <1>10, <1>a, <1>t DEF Stop, envVars
  <1>11. CASE Cancel(s)
    BY <1>11 DEF Cancel, envVars
  <1>. QED BY <1>1, <1>2, <1>3, <1>4, <1>5, <1>6, <1>7, <1>8, <1>9, <1>10, <1>11 DEF ServiceStep,
       LoopStep

\* So the record stays true.
LEMMA RecordedStep ==
  ASSUME ServiceInv, FailureIsRecorded, NEW s \in Services, ServiceStep(s)
  PROVE  FailureIsRecorded'
PROOF
  <1>1. state \in [Services -> States] /\ failure \subseteq Services
    BY DEF ServiceInv, TypeOK
  <1>. QED BY <1>1, RecordStep DEF FailureIsRecorded

\* Only stop() sets the event, and a stop() that is over stays over.
LEMMA StopperStep ==
  ASSUME ServiceInv, NEW s \in Services, ServiceStep(s)
  PROVE  /\ stopEvent' = stopEvent \/ (Stop(s) /\ stopEvent' = stopEvent \cup {s})
         /\ \A t \in Services : stopper[t] = "done" => stopper'[t] = "done"
PROOF
  <1>h. stopper \in [Services -> {"idle", "waiting", "done"}]
    BY DEF ServiceInv, TypeOK
  <1>1. CASE LoopStep(s)
    BY <1>1 DEF LoopStep, AwaitDep, DepsStopped, DepsDone, GatePasses, GateFails, ParkedWakes,
         StillParked,
         Unparked, Fork, Launched, ProbePasses, ProbeAbandoned, ProbeTimesOut, Reap, ExitStopping, ExitGateStop,
         ExitBounced, ExitFatal, ExitCharged, ExitAsksGates, RegateFails, RegatePasses, BackoffEnds, Classified,
         flagVars, taskVars
  <1>2. CASE TaskStep(s)
    BY <1>2, <1>h DEF TaskStep, StopEnds, RestartEscalates, RestartNoticesExit, GateWatchEnds,
         PathWatchEnds, flagVars
  <1>3. CASE GateCloses(s) \/ PathChanges(s) \/ ProcessExit(s) \/ GateMoves(s) \/ Restart(s) \/ Cancel(s)
    BY <1>3 DEF GateCloses, PathChanges, ProcessExit, GateMoves, Restart, Cancel, flagVars, taskVars
  <1>4. CASE Stop(s)
    BY <1>4, <1>h DEF Stop
  <1>. QED BY <1>1, <1>2, <1>3, <1>4 DEF ServiceStep

\* What stop() left dead or killed stays so until the run loop forgets the request.
LEMMA StopWasFinalStep ==
  ASSUME ServiceInv, StopWasFinal, NEW s \in Services, ServiceStep(s)
  PROVE  StopWasFinal'
PROOF
  <1>h. TypeOK /\ IncarnationShape /\ RequestsAreFlagged
    BY DEF ServiceInv
  <1>t. /\ proc \in [Services -> {"none", "forked", "alive", "exited"}]
        /\ sig \in [Services -> {"none", "stop", "kill"}]
        /\ stopper \in [Services -> {"idle", "waiting", "done"}]
    BY <1>h DEF TypeOK
  <1>f. proc[s] = "forked" <=> pc[s] = "exec"
    BY <1>h DEF IncarnationShape
  <1>r. s \in asked => pc[s] \in {"done", "exec", "probe", "live", "drain"}
    BY <1>h DEF RequestsAreFlagged
  \* A step that only forgets requests.
  <1>u. ASSUME UNCHANGED <<proc, sig, stopper>>, asked' \subseteq asked PROVE StopWasFinal'
    BY <1>u DEF StopWasFinal, Down
  \* A final sweep, with or without the mark.
  <1>k. ASSUME Sweep(s, "kill"), UNCHANGED <<proc, stopper>>, Ask(s) \/ UNCHANGED asked PROVE StopWasFinal'
    BY <1>k, <1>t DEF StopWasFinal, Down, Sweep, Ask, Reachable, Alive
  \* A polite one: there is no stop() of s that is over.
  <1>p. ASSUME Sweep(s, "stop"), UNCHANGED <<proc, stopper>>, Ask(s), stopper[s] # "done" PROVE StopWasFinal'
    BY <1>p, <1>t DEF StopWasFinal, Down, Sweep, Ask, Reachable, Alive
  <1>n. s \notin stopEvent => stopper[s] # "done"
    BY <1>h DEF RequestsAreFlagged
  <1>1. CASE \/ AwaitDep(s) \/ DepsStopped(s) \/ GatePasses(s) \/ GateFails(s) \/ ParkedWakes(s)
             \/ StillParked(s) \/ ProbePasses(s) \/ ProbeAbandoned(s) \/ RegatePasses(s)
    BY <1>1, <1>u DEF AwaitDep, DepsStopped, GatePasses, GateFails, ParkedWakes, StillParked,
         ProbePasses,
         ProbeAbandoned, RegatePasses, procVars, flagVars, taskVars
  <1>2. CASE DepsDone(s) \/ Unparked(s) \/ RegateFails(s) \/ BackoffEnds(s)
    BY <1>2, <1>u DEF DepsDone, Unparked, RegateFails, BackoffEnds, EnterLoop, procVars, taskVars
  <1>3. CASE ExitStopping(s) \/ ExitGateStop(s) \/ ExitBounced(s)
    BY <1>3, <1>u DEF ExitStopping, ExitGateStop, ExitBounced, EnterLoop, Classified, procVars,
         taskVars
  <1>4. CASE ExitFatal(s) \/ ExitCharged(s) \/ ExitAsksGates(s)
    BY <1>4, <1>u DEF ExitFatal, ExitCharged, ExitAsksGates, Classified, procVars, taskVars
  <1>5. CASE Fork(s)
    <2>1. s \notin asked
      BY <1>5, <1>r DEF Fork
    <2>2. proc' = [proc EXCEPT ![s] = "forked"] /\ UNCHANGED <<sig, asked, stopper>>
      BY <1>5 DEF Fork, flagVars, taskVars
    <2>. QED BY <2>1, <2>2, <1>t DEF StopWasFinal, Down
  <1>6. CASE Launched(s)
    <2>1. proc' = [proc EXCEPT ![s] = "alive"] /\ UNCHANGED <<sig, asked, stopper>>
      BY <1>6 DEF Launched, flagVars, taskVars
    <2>2. proc[s] = "forked"
      BY <1>6, <1>f DEF Launched
    <2>. QED BY <2>1, <2>2, <1>t DEF StopWasFinal, Down
  <1>7. CASE ProbeTimesOut(s) \/ Reap(s)
    BY <1>7, <1>k DEF ProbeTimesOut, Reap, flagVars, taskVars
  <1>8. CASE StopEnds(s)
    <2>1. /\ proc' = proc /\ stopper' = [stopper EXCEPT ![s] = "done"]
          /\ Sweep(s, "kill") /\ Ask(s)
      BY <1>8 DEF StopEnds
    <2>. QED BY <2>1, <1>t DEF StopWasFinal, Down, Sweep, Ask, Reachable, Alive
  <1>9. CASE RestartEscalates(s) \/ GateWatchEnds(s) \/ PathWatchEnds(s)
    BY <1>9, <1>k DEF RestartEscalates, GateWatchEnds, PathWatchEnds
  <1>10. CASE RestartNoticesExit(s) \/ GateMoves(s)
    BY <1>10, <1>u DEF RestartNoticesExit, GateMoves, procVars, flagVars, taskVars
  <1>11. CASE GateCloses(s) \/ PathChanges(s) \/ Restart(s)
    BY <1>11, <1>p, <1>n DEF GateCloses, PathChanges, Restart
  <1>12. CASE ProcessExit(s)
    <2>1. proc' = [proc EXCEPT ![s] = "exited"] /\ sig' = [sig EXCEPT ![s] = "none"] /\ UNCHANGED <<asked, stopper>>
      BY <1>12 DEF ProcessExit, flagVars
    <2>. QED BY <2>1, <1>t DEF StopWasFinal, Down
  <1>13. CASE Stop(s)
    <2>1. CASE Alive(s)
      <3>1. /\ proc' = proc /\ Sweep(s, "stop") /\ Ask(s)
            /\ stopper' = [stopper EXCEPT ![s] = "waiting"]
        BY <1>13, <2>1 DEF Stop
      <3>. QED BY <2>1, <3>1, <1>t DEF StopWasFinal, Down, Sweep, Ask, Reachable, Alive
    <2>2. CASE ~Alive(s)
      <3>1. /\ proc' = proc /\ Sweep(s, "kill") /\ Ask(s)
            /\ stopper' = [stopper EXCEPT ![s] = "done"]
        BY <1>13, <2>2 DEF Stop
      <3>. QED BY <2>2, <3>1, <1>t DEF StopWasFinal, Down, Sweep, Ask, Reachable, Alive
    <2>. QED BY <2>1, <2>2
  <1>14. CASE Cancel(s)
    <2>1. /\ proc' = [proc EXCEPT ![s] = IF @ = "forked" THEN "exited" ELSE @]
          /\ sig' = [sig EXCEPT ![s] = IF proc[s] = "forked" THEN "none" ELSE @]
          /\ UNCHANGED <<asked, stopper>>
      BY <1>14 DEF Cancel, flagVars
    <2>. QED BY <2>1, <1>t DEF StopWasFinal, Down
  <1>. QED BY <1>1, <1>2, <1>3, <1>4, <1>5, <1>6, <1>7, <1>8, <1>9, <1>10, <1>11, <1>12, <1>13,
       <1>14
    DEF ServiceStep, LoopStep, TaskStep

\* The hard kill changes no more than signals and stragglers.
LEMMA KillAllStep ==
  ASSUME SupInv, KillAll, UNCHANGED <<runVars, proc, code, flagVars, taskVars, envVars>>
  PROVE  ServiceInv' /\ FailureIsRecorded' /\ StopWasFinal'
PROOF
  <1>. USE DEF SupInv, ServiceInv, KillAll, runVars, flagVars, taskVars, envVars
  <1>1. TypeOK'
    BY DEF TypeOK
  <1>2. NoSquatter' /\ FailedIsDown' /\ BudgetIsEnforced'
    BY DEF NoSquatter, FailedIsDown, BudgetIsEnforced, Alive
  <1>3. IncarnationShape' /\ DependencyProgress'
    BY DEF IncarnationShape, DependencyProgress
  <1>4. RequestsAreFlagged'
    BY DEF RequestsAreFlagged, Alive
  <1>5. FailureIsRecorded'
    BY DEF FailureIsRecorded
  <1>6. StopWasFinal'
    BY DEF StopWasFinal, Down, TypeOK
  <1>. QED BY <1>1, <1>2, <1>3, <1>4, <1>5, <1>6

\* Nothing of the services changes.
LEMMA QuietStep ==
  ASSUME SupInv, UNCHANGED vars
  PROVE  ServiceInv' /\ FailureIsRecorded' /\ StopWasFinal'
PROOF
  <1>1. ServiceInv'
    BY StepInv DEF SupInv
  <1>2. FailureIsRecorded'
    BY DEF SupInv, FailureIsRecorded, vars, runVars, envVars
  <1>3. StopWasFinal'
    BY DEF SupInv, StopWasFinal, Down, vars, procVars, flagVars, taskVars
  <1>. QED BY <1>1, <1>2, <1>3

\* A step of one service under the shutdown, stop() apart.
LEMMA UnderShutdown ==
  ASSUME SupInv, NEW s \in Services, ServiceStep(s), UNCHANGED supVars, phase # "exited",
         Stop(s) => Dependents(s) \subseteq stopped
  PROVE  SupInv'
PROOF
  <1>1. ServiceInv'
    BY StepInv DEF SupInv, Next
  <1>2. FailureIsRecorded' /\ StopWasFinal'
    BY RecordedStep, StopWasFinalStep DEF SupInv
  <1>3. WavesInOrder'
    BY StopperStep DEF SupInv, WavesInOrder, SupTypeOK, supVars, Dependents
  <1>4. SupTypeOK' /\ ExitReadsRecord' /\ NoOrphan'
    BY DEF SupInv, SupTypeOK, ExitReadsRecord, NoOrphan, supVars
  <1>. QED BY <1>1, <1>2, <1>3, <1>4 DEF SupInv

\* Processes and gates outlive the supervisor, and can only end.
LEMMA Outliving ==
  ASSUME SupInv, NEW s \in Services, Environment(s)
  PROVE  SupInv'
PROOF
  <1>0. ServiceStep(s) /\ UNCHANGED supVars
    BY DEF Environment, ServiceStep
  <1>1. ServiceInv'
    BY <1>0, StepInv DEF SupInv, Next
  <1>2. FailureIsRecorded' /\ StopWasFinal'
    BY <1>0, RecordedStep, StopWasFinalStep DEF SupInv
  <1>3. UNCHANGED <<stopEvent, stopper, failure>>
    BY DEF Environment, ProcessExit, GateMoves, flagVars, taskVars, envVars
  <1>4. WavesInOrder'
    BY <1>0, <1>3 DEF SupInv, WavesInOrder, supVars, Dependents
  <1>5. SupTypeOK' /\ ExitReadsRecord'
    BY <1>0, <1>3 DEF SupInv, SupTypeOK, ExitReadsRecord, supVars
  <1>6. NoOrphan'
    <2>1. CASE GateMoves(s)
      BY <1>0, <2>1 DEF SupInv, NoOrphan, Down, GateMoves, procVars, supVars
    <2>2. CASE ProcessExit(s)
      <3>1. /\ proc' = [proc EXCEPT ![s] = "exited"] /\ sig' = [sig EXCEPT ![s] = "none"]
            /\ proc[s] = "alive" /\ (sig[s] = "kill" => children' = children)
        BY <2>2 DEF ProcessExit, Alive
      <3>2. proc \in [Services -> {"none", "forked", "alive", "exited"}]
            /\ sig \in [Services -> {"none", "stop", "kill"}]
        BY DEF SupInv, ServiceInv, TypeOK
      <3>. QED BY <1>0, <3>1, <3>2 DEF SupInv, NoOrphan, Down, supVars
    <2>. QED BY <2>1, <2>2 DEF Environment
  <1>. QED BY <1>1, <1>2, <1>4, <1>5, <1>6 DEF SupInv

\* It holds before the services are started.
LEMMA SupInitInv == SupInit => SupInv
PROOF
  <1>. SUFFICES ASSUME SupInit PROVE SupInv
    OBVIOUS
  <1>1. ServiceInv
    BY InitInv DEF SupInit
  <1>2. SupTypeOK /\ ExitReadsRecord /\ NoOrphan
    BY DEF SupInit, SupTypeOK, ExitReadsRecord, NoOrphan
  <1>3. FailureIsRecorded /\ WavesInOrder /\ StopWasFinal
    BY DEF SupInit, Init, FailureIsRecorded, WavesInOrder, StopWasFinal
  <1>. QED BY <1>1, <1>2, <1>3 DEF SupInv

\* Every step keeps it: the services' own, the waves of the shutdown,
\* signals, the hard kill and the exit.
LEMMA SupStepInv == SupInv /\ [SupNext]_allVars => SupInv'
PROOF
  <1>. SUFFICES ASSUME SupInv, [SupNext]_allVars PROVE SupInv'
    OBVIOUS
  <1>i. /\ ServiceInv /\ SupTypeOK /\ FailureIsRecorded /\ ExitReadsRecord
        /\ WavesInOrder /\ StopWasFinal /\ NoOrphan
    BY DEF SupInv
  <1>1. CASE FirstSignal \/ BeginShutdown \/ AllStopped \/ WaitTimesOut
    <2>1. UNCHANGED <<vars, stopped, exitCode>> /\ phase # "exited" /\ phase' # "exited"
      BY <1>1 DEF FirstSignal, BeginShutdown, AllStopped, WaitTimesOut
    <2>2. ServiceInv' /\ FailureIsRecorded' /\ StopWasFinal'
      BY <2>1, QuietStep
    <2>3. SupTypeOK' /\ ExitReadsRecord' /\ NoOrphan'
      BY <1>i, <2>1 DEF SupTypeOK, ExitReadsRecord, NoOrphan, vars, envVars
    <2>4. WavesInOrder'
      BY <1>i, <2>1 DEF WavesInOrder, Dependents, vars, flagVars, taskVars
    <2>. QED BY <2>2, <2>3, <2>4 DEF SupInv
  <1>2. CASE WaveStopped
    <2>1. UNCHANGED <<vars, phase, exitCode>> /\ phase # "exited" /\ stopped' = stopped \cup Wave
      BY <1>2 DEF WaveStopped
    <2>2. ServiceInv' /\ FailureIsRecorded' /\ StopWasFinal'
      BY <2>1, QuietStep
    <2>3. SupTypeOK' /\ ExitReadsRecord' /\ NoOrphan'
      BY <1>i, <2>1 DEF SupTypeOK, ExitReadsRecord, NoOrphan, Wave, vars, envVars
    <2>4. WavesInOrder'
      BY <1>i, <1>2 DEF WavesInOrder, WaveStopped, Wave, Dependents, vars, flagVars, taskVars
    <2>. QED BY <2>2, <2>3, <2>4 DEF SupInv
  <1>3. CASE FurtherSignal
    <2>1. ServiceInv' /\ FailureIsRecorded' /\ StopWasFinal'
      BY <1>3, KillAllStep DEF FurtherSignal
    <2>2. /\ UNCHANGED <<phase, stopped, exitCode, failure, stopEvent, stopper>> /\ phase # "exited"
      BY <1>3 DEF FurtherSignal, envVars, flagVars, taskVars
    <2>3. SupTypeOK' /\ ExitReadsRecord' /\ NoOrphan'
      BY <1>i, <2>2 DEF SupTypeOK, ExitReadsRecord, NoOrphan
    <2>4. WavesInOrder'
      BY <1>i, <2>2 DEF WavesInOrder, Dependents
    <2>. QED BY <2>1, <2>3, <2>4 DEF SupInv
  <1>4. CASE Finish
    <2>1. ServiceInv' /\ FailureIsRecorded' /\ StopWasFinal'
      BY <1>4, KillAllStep DEF Finish
    <2>2. /\ UNCHANGED <<stopped, failure, stopEvent, stopper, proc>> /\ phase' = "exited"
          /\ exitCode' = IF failure = {} THEN "zero" ELSE "one"
      BY <1>4 DEF Finish, envVars, flagVars, taskVars
    <2>3. SupTypeOK' /\ ExitReadsRecord'
      BY <1>i, <2>2 DEF SupTypeOK, ExitReadsRecord
    <2>4. WavesInOrder'
      BY <1>i, <2>2 DEF WavesInOrder, Dependents
    <2>5. NoOrphan'
      <3>1. \A s \in Services : proc[s] \in {"none", "alive", "exited"}
        BY <1>i, <1>4 DEF Finish, ServiceInv, TypeOK, IncarnationShape
      <3>2. KillAll
        BY <1>4 DEF Finish
      <3>. QED BY <3>1, <3>2, <2>2 DEF NoOrphan, KillAll, Down, Reachable, Alive
    <2>. QED BY <2>1, <2>3, <2>4, <2>5 DEF SupInv
  <1>5. ASSUME NEW s \in Services, StopInWave(s) PROVE SupInv'
    <2>1. ServiceStep(s) /\ UNCHANGED supVars /\ phase # "exited" /\ Dependents(s) \subseteq stopped
      BY <1>5 DEF StopInWave, ServiceStep, Wave
    <2>. QED BY <2>1, UnderShutdown
  <1>6. ASSUME NEW s \in Services, CancelPending(s) PROVE SupInv'
    <2>1. ServiceStep(s) /\ UNCHANGED supVars /\ phase # "exited" /\ ~Stop(s)
      BY <1>6 DEF CancelPending, ServiceStep, Cancel, Stop
    <2>. QED BY <2>1, UnderShutdown
  <1>7. ASSUME NEW s \in Services, RunService(s) PROVE SupInv'
    <2>1. ServiceStep(s) /\ UNCHANGED supVars /\ phase # "exited"
      BY <1>7 DEF RunService, ServiceStep
    <2>2. stopper' = stopper \/ stopper[s] = "waiting"
      BY <1>7 DEF RunService, LoopStep, AwaitDep, DepsStopped, DepsDone, GatePasses, GateFails,
           ParkedWakes,
           StillParked, Unparked, Fork, Launched, ProbePasses, ProbeAbandoned, ProbeTimesOut, Reap, ExitStopping,
           ExitGateStop, ExitBounced, ExitFatal, ExitCharged, ExitAsksGates, RegateFails, RegatePasses,
           BackoffEnds, Classified, TaskStep, StopEnds, RestartEscalates, RestartNoticesExit, GateWatchEnds,
           PathWatchEnds, GateCloses, PathChanges, Restart, taskVars
    <2>3. ~Stop(s)
      BY <1>i, <2>2 DEF Stop, ServiceInv, TypeOK
    <2>. QED BY <2>1, <2>3, UnderShutdown
  <1>8. ASSUME NEW s \in Services, Environment(s) PROVE SupInv'
    BY <1>8, Outliving
  <1>9. CASE UNCHANGED allVars
    <2>1. UNCHANGED <<vars, phase, stopped, exitCode>>
      BY <1>9 DEF allVars, supVars
    <2>2. ServiceInv' /\ FailureIsRecorded' /\ StopWasFinal'
      BY <2>1, QuietStep
    <2>3. SupTypeOK' /\ ExitReadsRecord' /\ NoOrphan'
      BY <1>i, <2>1 DEF SupTypeOK, ExitReadsRecord, NoOrphan, Down, vars, envVars, procVars
    <2>4. WavesInOrder'
      BY <1>i, <2>1 DEF WavesInOrder, Dependents, vars, flagVars, taskVars
    <2>. QED BY <2>2, <2>3, <2>4 DEF SupInv
  <1>. QED BY <1>1, <1>2, <1>3, <1>4, <1>5, <1>6, <1>7, <1>8, <1>9 DEF SupNext

\* The invariant holds of the supervisor for every set of services, every
\* dependency relation and both containments.
THEOREM SupInvariance == SupSpec => []SupInv
PROOF
  <1>. QED BY SupInitInv, SupStepInv, PTL DEF SupSpec

\* When the supervisor exits, every service's process is dead or was sent
\* SIGKILL: the last kill_all leaves none behind, whatever was starting at
\* that moment, and no forked child is left.
THEOREM Orphans == SupSpec => []NoOrphan
PROOF
  <1>1. SupInv => NoOrphan
    BY DEF SupInv
  <1>. QED BY <1>1, SupInvariance, PTL

\* Once stop() is called on a service, every service that depends on it and
\* was told to end is down or was sent SIGKILL: the waves of the shutdown
\* give a dependent its whole grace period before what it depends on goes
\* away.
THEOREM GracePeriods == SupSpec => []GraceEndsBeforeDependencies
PROOF
  <1>1. SupInv => GraceEndsBeforeDependencies
    BY DEF SupInv, WavesInOrder, StopWasFinal, GraceEndsBeforeDependencies, Dependents
  <1>. QED BY <1>1, SupInvariance, PTL

\* Under the supervisor too, and through its shutdown, a service starts only
\* after all its dependencies were ready.
THEOREM StillReady == SupSpec => []DependenciesWereReady
PROOF
  <1>1. SupInv => DependenciesWereReady
    BY DEF SupInv, ServiceInv, DependencyProgress, DependenciesWereReady
  <1>. QED BY <1>1, SupInvariance, PTL

\* run() returns zero only if no service has failed, and one only if the
\* recorded failure is that of a service that did fail and is down.
THEOREM ExitCodes == SupSpec => []ExitCodeTellsFailure
PROOF
  <1>1. SupInv => ExitCodeTellsFailure
    <2>. SUFFICES ASSUME SupInv PROVE ExitCodeTellsFailure
      OBVIOUS
    <2>1. exitCode = "zero" => \A s \in Services : state[s] # "failed"
      BY DEF SupInv, ExitReadsRecord, FailureIsRecorded
    <2>2. \A s \in failure : state[s] = "failed" /\ Down(s)
      BY DEF SupInv, FailureIsRecorded, ServiceInv, FailedIsDown, IncarnationShape, TypeOK, Alive,
           Down
    <2>. QED BY <2>1, <2>2 DEF SupInv, ExitReadsRecord, ExitCodeTellsFailure
  <1>. QED BY <1>1, SupInvariance, PTL

=============================================================================
