---------------------------- MODULE ServiceProofs ----------------------------
(***************************************************************************)
(* Proofs about module Service, for every set of services, every           *)
(* dependency relation, every restart budget and both containments:        *)
(* ServiceInv is an inductive invariant, and from it follow the safety     *)
(* properties that MCService checks on small instances.                    *)
(*                                                                         *)
(* The induction step is one lemma per conjunct of ServiceInv, each with   *)
(* one case per action of a service.                                       *)
(***************************************************************************)
EXTENDS Service, TLAPS

\* A service has a natural number of dependencies, whatever After is.
LEMMA LenType == \A s \in Services : Len(After[s]) \in Nat
  BY ServiceAssumption DEF ServiceAssumption

\* Releasing the services that wait for d keeps the count of awaited
\* dependencies within their number.
LEMMA ReleaseStep ==
  ASSUME TypeOK, NEW d \in Services, ReleaseWaiters(d)
  PROVE  /\ awaited' \in [Services -> Nat]
         /\ \A t \in Services : awaited'[t] <= Len(After[t])
  BY LenType DEF ReleaseWaiters, TypeOK

\* What charging an exit to the restart budget does to the run loop: it backs
\* off within the limit or fails, and no other service notices.
LEMMA ChargeStep ==
  ASSUME ServiceInv, NEW s \in Services,
         pc[s] \in {"drain", "render", "regate"}, Charge(s)
  PROVE  /\ fails' \in [Services -> 0 .. MaxRestarts + 1]
         /\ pc' \in [Services -> PCs]
         /\ state' \in [Services -> States]
         /\ failure' \subseteq Services
         /\ \A t \in Services \ {s} :
              fails'[t] = fails[t] /\ pc'[t] = pc[t] /\ state'[t] = state[t]
         /\ \/ pc'[s] = "backoff" /\ state'[s] = "backoff" /\ fails'[s] <= MaxRestarts
            \/ pc'[s] = "done" /\ state'[s] = "failed"
PROOF
  <1>h. TypeOK /\ BudgetIsEnforced /\ FailedIsDown
    BY DEF ServiceInv
  <1>0. ~(fails[s] > MaxRestarts)
    BY <1>h DEF BudgetIsEnforced, FailedIsDown
  <1>1. fails[s] \in 0 .. MaxRestarts /\ MaxRestarts \in Nat
    BY <1>h, <1>0, ServiceAssumption DEF ServiceAssumption, TypeOK
  <1>2. /\ pc \in [Services -> PCs] /\ state \in [Services -> States]
        /\ fails \in [Services -> 0 .. MaxRestarts + 1] /\ failure \subseteq Services
    BY <1>h DEF TypeOK
  <1>3. CASE BacksOff(s)
    BY <1>1, <1>2, <1>3 DEF BacksOff, PCs, States
  <1>4. CASE RunsOut(s)
    <2>1. PICK k \in 0 .. fails[s] : fails' = [fails EXCEPT ![s] = k + 1]
      BY <1>4 DEF RunsOut
    <2>2. fails' \in [Services -> 0 .. MaxRestarts + 1]
      BY <1>1, <1>2, <2>1
    <2>3. pc' = [pc EXCEPT ![s] = "done"] /\ state' = [state EXCEPT ![s] = "failed"]
      BY <1>4 DEF RunsOut, Fail
    <2>4. failure' \subseteq Services
      BY <1>2, <1>4 DEF RunsOut, Fail
    <2>. QED BY <1>2, <2>1, <2>2, <2>3, <2>4 DEF PCs, States
  <1>. QED BY <1>3, <1>4 DEF Charge

\* Every await point of the run loop, and every task, leaves each variable in
\* its type: in particular the failure window never passes max_restarts + 1.
LEMMA TypeOKStep ==
  ASSUME ServiceInv, NEW s \in Services, ServiceStep(s)
  PROVE  TypeOK'
PROOF
  <1>h. TypeOK
    BY DEF ServiceInv
  <1>1. CASE AwaitDep(s)
    BY <1>h, <1>1 DEF AwaitDep, procVars, flagVars, taskVars, envVars,
          TypeOK, PCs, States, Codes
  <1>2. CASE DepsStopped(s)
    BY <1>h, <1>2 DEF DepsStopped, procVars, flagVars, taskVars, envVars,
          TypeOK, PCs, States, Codes
  <1>3. CASE DepsDone(s)
    BY <1>h, <1>3 DEF DepsDone, EnterLoop, procVars, taskVars, envVars,
          TypeOK, PCs, States, Codes
  <1>4. CASE GatePasses(s)
    BY <1>h, <1>4 DEF GatePasses, procVars, flagVars, taskVars, envVars,
          TypeOK, PCs, States, Codes
  <1>5. CASE GateFails(s)
    <2>1. fails' \in [Services -> 0 .. MaxRestarts + 1]
      BY <1>h, <1>5, ServiceAssumption DEF ServiceAssumption, GateFails, TypeOK
    <2>2. \E p \in PCs : pc' = [pc EXCEPT ![s] = p]
      BY <1>5 DEF GateFails, PCs
    <2>3. \E x \in States : state' = [state EXCEPT ![s] = x]
      BY <1>5 DEF GateFails, States
    <2>4. pc' \in [Services -> PCs] /\ state' \in [Services -> States]
      BY <1>h, <2>2, <2>3 DEF TypeOK
    <2>. QED BY <1>h, <1>5, <2>1, <2>4
      DEF GateFails, TypeOK, procVars, flagVars, taskVars, envVars
  <1>6. CASE ParkedWakes(s)
    BY <1>h, <1>6 DEF ParkedWakes, procVars, flagVars, taskVars, envVars,
          TypeOK, PCs, States, Codes
  <1>7. CASE StillParked(s)
    BY <1>h, <1>7 DEF StillParked, procVars, flagVars, taskVars, envVars,
          TypeOK, PCs, States, Codes
  <1>8. CASE Unparked(s)
    <2>1. pc[s] \in {"parked", "parkgate"} /\ EnterLoop(s)
      BY <1>8 DEF Unparked
    <2>2. UNCHANGED <<awaited, fails, ready, everReady, procVars, stopEvent,
                      bounceRequested, gateStop, taskVars, envVars>>
      BY <1>8 DEF Unparked
    <2>. QED BY <1>h, <2>1, <2>2 DEF EnterLoop, procVars, taskVars, envVars,
          TypeOK, PCs, States, Codes
  <1>9. CASE Fork(s)
    BY <1>h, <1>9 DEF Fork, flagVars, taskVars, envVars, TypeOK, PCs, States,
          Codes
  <1>10. CASE Launched(s)
    <2>1. \E p \in PCs : pc' = [pc EXCEPT ![s] = p]
      BY <1>10 DEF Launched, PCs
    <2>2. pc' \in [Services -> PCs]
      BY <1>h, <2>1 DEF TypeOK
    <2>3. state' \in [Services -> States]
      BY <1>h, <1>10 DEF Launched, BecomeReady, TypeOK, States
    <2>4. awaited' \in [Services -> Nat]
          /\ \A t \in Services : awaited'[t] <= Len(After[t])
      BY <1>h, <1>10, ReleaseStep DEF Launched, BecomeReady, TypeOK
    <2>5. ready' \subseteq Services /\ everReady' \subseteq Services
      BY <1>h, <1>10 DEF Launched, BecomeReady, TypeOK
    <2>. QED BY <1>h, <1>10, <2>2, <2>3, <2>4, <2>5
      DEF Launched, TypeOK, flagVars, envVars
  <1>11. CASE ProbePasses(s)
    BY <1>h, <1>11 DEF ProbePasses, BecomeReady, ReleaseWaiters, procVars,
          flagVars, taskVars, envVars, TypeOK, PCs, States, Codes
  <1>12. CASE ProbeAbandoned(s)
    BY <1>h, <1>12 DEF ProbeAbandoned, Alive, procVars, flagVars, taskVars,
          envVars, TypeOK, PCs, States, Codes
  <1>13. CASE ProbeTimesOut(s)
    BY <1>h, <1>13 DEF ProbeTimesOut, Sweep, Reachable, Alive, flagVars,
          taskVars, envVars, TypeOK, PCs, States, Codes
  <1>14. CASE Reap(s)
    BY <1>h, <1>14 DEF Reap, Sweep, Reachable, Alive, flagVars, envVars,
          TypeOK, PCs, States, Codes
  <1>15. CASE ExitStopping(s)
    BY <1>h, <1>15 DEF ExitStopping, EnterLoop, RunOnceReturns, Classified,
          procVars, taskVars, TypeOK, PCs, States, Codes
  <1>16. CASE ExitGateStop(s)
    BY <1>h, <1>16 DEF ExitGateStop, EnterLoop, RunOnceReturns, Classified,
          procVars, taskVars, TypeOK, PCs, States, Codes
  <1>17. CASE ExitBounced(s)
    BY <1>h, <1>17 DEF ExitBounced, EnterLoop, RunOnceReturns, Classified,
          procVars, taskVars, TypeOK, PCs, States, Codes
  <1>18. CASE ExitFatal(s)
    BY <1>h, <1>18 DEF ExitFatal, Classified, procVars, taskVars, Fail,
          IsCrash, RunOnceReturns, TypeOK, PCs, States, Codes
  <1>19. CASE ExitCharged(s)
    <2>1. /\ fails' \in [Services -> 0 .. MaxRestarts + 1]
          /\ pc' \in [Services -> PCs] /\ state' \in [Services -> States]
          /\ failure' \subseteq Services
      BY <1>19, ChargeStep DEF ExitCharged, IsCrash, RunOnceReturns
    <2>. QED BY <1>h, <1>19, <2>1
      DEF ExitCharged, Classified, TypeOK, flagVars, procVars, taskVars
  <1>20. CASE ExitAsksGates(s)
    BY <1>h, <1>20 DEF ExitAsksGates, Classified, procVars, taskVars,
          IsCrash, RunOnceReturns, TypeOK, PCs, States, Codes
  <1>21. CASE RegateFails(s)
    BY <1>h, <1>21 DEF RegateFails, EnterLoop, procVars, taskVars, envVars,
          TypeOK, PCs, States, Codes
  <1>22. CASE RegatePasses(s)
    <2>1. /\ fails' \in [Services -> 0 .. MaxRestarts + 1]
          /\ pc' \in [Services -> PCs] /\ state' \in [Services -> States]
          /\ failure' \subseteq Services
      BY <1>22, ChargeStep DEF RegatePasses
    <2>. QED BY <1>h, <1>22, <2>1
      DEF RegatePasses, TypeOK, flagVars, procVars, taskVars
  <1>23. CASE BackoffEnds(s)
    BY <1>h, <1>23 DEF BackoffEnds, EnterLoop, procVars, taskVars, envVars,
          TypeOK, PCs, States, Codes
  <1>24. CASE StopEnds(s)
    BY <1>h, <1>24 DEF StopEnds, Sweep, Reachable, Alive, Ask, runVars,
          envVars, TypeOK, PCs, States, Codes
  <1>25. CASE RestartEscalates(s)
    BY <1>h, <1>25 DEF RestartEscalates, Sweep, Reachable, Alive, Ask,
          runVars, envVars, TypeOK, PCs, States, Codes
  <1>26. CASE RestartNoticesExit(s)
    BY <1>h, <1>26 DEF RestartNoticesExit, runVars, procVars, flagVars,
          envVars, TypeOK, PCs, States, Codes
  <1>27. CASE GateWatchEnds(s)
    BY <1>h, <1>27 DEF GateWatchEnds, Sweep, Reachable, Alive, Ask, runVars,
          envVars, TypeOK, PCs, States, Codes
  <1>28. CASE PathWatchEnds(s)
    BY <1>h, <1>28 DEF PathWatchEnds, Sweep, Reachable, Alive, Ask, runVars,
          envVars, TypeOK, PCs, States, Codes
  <1>29. CASE GateCloses(s)
    BY <1>h, <1>29 DEF GateCloses, Sweep, Reachable, Alive, Ask, runVars,
          envVars, TypeOK, PCs, States, Codes
  <1>30. CASE PathChanges(s)
    BY <1>h, <1>30 DEF PathChanges, Sweep, Reachable, Alive, Ask, runVars,
          envVars, TypeOK, PCs, States, Codes
  <1>31. CASE ProcessExit(s)
    BY <1>h, <1>31 DEF ProcessExit, Alive, runVars, flagVars, envVars,
          TypeOK, PCs, States, Codes
  <1>32. CASE GateMoves(s)
    BY <1>h, <1>32 DEF GateMoves, runVars, procVars, flagVars, taskVars,
          TypeOK, PCs, States, Codes
  <1>33. CASE Stop(s)
    <2>1. stopEvent' \subseteq Services /\ asked' \subseteq Services
      BY <1>h, <1>33 DEF Stop, Ask, TypeOK
    <2>2. \E k \in {"stop", "kill"} : Sweep(s, k)
      BY <1>33 DEF Stop
    <2>3. sig' \in [Services -> {"none", "stop", "kill"}] /\ children' \subseteq Services
      BY <1>h, <2>2 DEF Sweep, TypeOK
    <2>4. \E x \in {"waiting", "done"} : stopper' = [stopper EXCEPT ![s] = x]
      BY <1>33 DEF Stop
    <2>5. state' = state \/ state' = [state EXCEPT ![s] = "stopping"]
      BY <1>33 DEF Stop
    <2>6. stopper' \in [Services -> {"idle", "waiting", "done"}]
      BY <1>h, <2>4 DEF TypeOK
    <2>7. state' \in [Services -> States]
      <3>1. state \in [Services -> States] /\ "stopping" \in States
        BY <1>h DEF TypeOK, States
      <3>. QED BY <2>5, <3>1
    <2>. QED BY <1>h, <1>33, <2>1, <2>3, <2>6, <2>7 DEF Stop, TypeOK, envVars
  <1>34. CASE Restart(s)
    BY <1>h, <1>34 DEF Restart, Sweep, Reachable, Alive, Ask, runVars,
          envVars, TypeOK, PCs, States, Codes
  <1>35. CASE Cancel(s)
    BY <1>h, <1>35 DEF Cancel, flagVars, envVars, TypeOK, PCs, States, Codes
  <1> QED
    BY <1>1, <1>2, <1>3, <1>4, <1>5, <1>6, <1>7, <1>8, <1>9, <1>10, <1>11,
       <1>12, <1>13, <1>14, <1>15, <1>16, <1>17, <1>18, <1>19, <1>20, <1>21,
       <1>22, <1>23, <1>24, <1>25, <1>26, <1>27, <1>28, <1>29, <1>30, <1>31,
       <1>32, <1>33, <1>34, <1>35
    DEF ServiceStep, LoopStep, TaskStep

\* No step leaves a spawn point with a process of an earlier incarnation still
\* alive: only the ways back to the loop head matter, and each of them sweeps.
LEMMA NoSquatterStep ==
  ASSUME ServiceInv, NEW s \in Services, ServiceStep(s)
  PROVE  NoSquatter'
PROOF
  <1>h. TypeOK /\ NoSquatter /\ IncarnationShape
    BY DEF ServiceInv
  <1>1. CASE AwaitDep(s)
    BY <1>h, <1>1 DEF AwaitDep, procVars, flagVars, taskVars, envVars,
          TypeOK, NoSquatter, IncarnationShape, Alive
  <1>2. CASE DepsStopped(s)
    BY <1>h, <1>2 DEF DepsStopped, procVars, flagVars, taskVars, envVars,
          TypeOK, NoSquatter, IncarnationShape, Alive
  <1>3. CASE DepsDone(s)
    BY <1>h, <1>3 DEF DepsDone, EnterLoop, procVars, taskVars, envVars,
          TypeOK, NoSquatter, IncarnationShape, Alive
  <1>4. CASE GatePasses(s)
    BY <1>h, <1>4 DEF GatePasses, procVars, flagVars, taskVars, envVars,
          TypeOK, NoSquatter, IncarnationShape, Alive
  <1>5. CASE GateFails(s)
    BY <1>h, <1>5 DEF GateFails, procVars, flagVars, taskVars, envVars,
          TypeOK, NoSquatter, IncarnationShape, Alive
  <1>6. CASE ParkedWakes(s)
    BY <1>h, <1>6 DEF ParkedWakes, procVars, flagVars, taskVars, envVars,
          TypeOK, NoSquatter, IncarnationShape, Alive
  <1>7. CASE StillParked(s)
    BY <1>h, <1>7 DEF StillParked, procVars, flagVars, taskVars, envVars,
          TypeOK, NoSquatter, IncarnationShape, Alive
  <1>8. CASE Unparked(s)
    <2>1. pc[s] \in {"parked", "parkgate"} /\ EnterLoop(s)
      BY <1>8 DEF Unparked
    <2>2. UNCHANGED <<awaited, fails, ready, everReady, procVars, stopEvent,
                      bounceRequested, gateStop, taskVars, envVars>>
      BY <1>8 DEF Unparked
    <2>. QED BY <1>h, <2>1, <2>2 DEF EnterLoop, procVars, taskVars, envVars,
          TypeOK, NoSquatter, IncarnationShape, Alive
  <1>9. CASE Fork(s)
    BY <1>h, <1>9 DEF Fork, flagVars, taskVars, envVars, TypeOK, NoSquatter,
          IncarnationShape, Alive
  <1>10. CASE Launched(s)
    BY <1>h, <1>10 DEF Launched, BecomeReady, ReleaseWaiters, flagVars,
          envVars, TypeOK, NoSquatter, IncarnationShape, Alive
  <1>11. CASE ProbePasses(s)
    BY <1>h, <1>11 DEF ProbePasses, BecomeReady, ReleaseWaiters, procVars,
          flagVars, taskVars, envVars, TypeOK, NoSquatter, IncarnationShape,
          Alive
  <1>12. CASE ProbeAbandoned(s)
    BY <1>h, <1>12 DEF ProbeAbandoned, Alive, procVars, flagVars, taskVars,
          envVars, TypeOK, NoSquatter, IncarnationShape
  <1>13. CASE ProbeTimesOut(s)
    BY <1>h, <1>13 DEF ProbeTimesOut, Sweep, Reachable, Alive, flagVars,
          taskVars, envVars, TypeOK, NoSquatter, IncarnationShape
  <1>14. CASE Reap(s)
    BY <1>h, <1>14 DEF Reap, Sweep, Reachable, Alive, flagVars, envVars,
          TypeOK, NoSquatter, IncarnationShape
  <1>15. CASE ExitStopping(s)
    BY <1>h, <1>15 DEF ExitStopping, EnterLoop, RunOnceReturns, Classified,
          procVars, taskVars, TypeOK, NoSquatter, IncarnationShape, Alive
  <1>16. CASE ExitGateStop(s)
    BY <1>h, <1>16 DEF ExitGateStop, EnterLoop, RunOnceReturns, Classified,
          procVars, taskVars, TypeOK, NoSquatter, IncarnationShape, Alive
  <1>17. CASE ExitBounced(s)
    BY <1>h, <1>17 DEF ExitBounced, EnterLoop, RunOnceReturns, Classified,
          procVars, taskVars, TypeOK, NoSquatter, IncarnationShape, Alive
  <1>18. CASE ExitFatal(s)
    BY <1>h, <1>18 DEF ExitFatal, Classified, procVars, taskVars, Fail,
          IsCrash, RunOnceReturns, TypeOK, NoSquatter, IncarnationShape,
          Alive
  <1>19. CASE ExitCharged(s)
    <2>1. /\ \A t \in Services \ {s} :
               fails'[t] = fails[t] /\ pc'[t] = pc[t] /\ state'[t] = state[t]
          /\ \/ pc'[s] = "backoff" /\ state'[s] = "backoff" /\ fails'[s] <= MaxRestarts
             \/ pc'[s] = "done" /\ state'[s] = "failed"
      BY <1>19, ChargeStep DEF ExitCharged, IsCrash, RunOnceReturns, Classified
    <2>. QED BY <1>h, <1>19, <2>1
      DEF ExitCharged, IsCrash, RunOnceReturns, Classified, NoSquatter, Alive, procVars
  <1>20. CASE ExitAsksGates(s)
    BY <1>h, <1>20 DEF ExitAsksGates, Classified, procVars, taskVars,
          IsCrash, RunOnceReturns, TypeOK, NoSquatter, IncarnationShape,
          Alive
  <1>21. CASE RegateFails(s)
    BY <1>h, <1>21 DEF RegateFails, EnterLoop, procVars, taskVars, envVars,
          TypeOK, NoSquatter, IncarnationShape, Alive
  <1>22. CASE RegatePasses(s)
    <2>1. pc[s] = "regate" /\ Charge(s)
      BY <1>22 DEF RegatePasses
    <2>2. UNCHANGED <<proc, children>>
      BY <1>22 DEF RegatePasses, procVars
    <2>3. /\ \A t \in Services \ {s} : pc'[t] = pc[t] /\ state'[t] = state[t]
          /\ pc'[s] \in {"backoff", "done"}
      BY <2>1, ChargeStep
    <2>. QED BY <1>h, <2>1, <2>2, <2>3 DEF NoSquatter, Alive
  <1>23. CASE BackoffEnds(s)
    BY <1>h, <1>23 DEF BackoffEnds, EnterLoop, procVars, taskVars, envVars,
          TypeOK, NoSquatter, IncarnationShape, Alive
  <1>24. CASE StopEnds(s)
    BY <1>h, <1>24 DEF StopEnds, Sweep, Reachable, Alive, Ask, runVars,
          envVars, TypeOK, NoSquatter, IncarnationShape
  <1>25. CASE RestartEscalates(s)
    BY <1>h, <1>25 DEF RestartEscalates, Sweep, Reachable, Alive, Ask,
          runVars, envVars, TypeOK, NoSquatter, IncarnationShape
  <1>26. CASE RestartNoticesExit(s)
    BY <1>h, <1>26 DEF RestartNoticesExit, runVars, procVars, flagVars,
          envVars, TypeOK, NoSquatter, IncarnationShape, Alive
  <1>27. CASE GateWatchEnds(s)
    BY <1>h, <1>27 DEF GateWatchEnds, Sweep, Reachable, Alive, Ask, runVars,
          envVars, TypeOK, NoSquatter, IncarnationShape
  <1>28. CASE PathWatchEnds(s)
    BY <1>h, <1>28 DEF PathWatchEnds, Sweep, Reachable, Alive, Ask, runVars,
          envVars, TypeOK, NoSquatter, IncarnationShape
  <1>29. CASE GateCloses(s)
    BY <1>h, <1>29 DEF GateCloses, Sweep, Reachable, Alive, Ask, runVars,
          envVars, TypeOK, NoSquatter, IncarnationShape
  <1>30. CASE PathChanges(s)
    BY <1>h, <1>30 DEF PathChanges, Sweep, Reachable, Alive, Ask, runVars,
          envVars, TypeOK, NoSquatter, IncarnationShape
  <1>31. CASE ProcessExit(s)
    BY <1>h, <1>31 DEF ProcessExit, Alive, runVars, flagVars, envVars,
          TypeOK, NoSquatter, IncarnationShape
  <1>32. CASE GateMoves(s)
    BY <1>h, <1>32 DEF GateMoves, runVars, procVars, flagVars, taskVars,
          TypeOK, NoSquatter, IncarnationShape, Alive
  <1>33. CASE Stop(s)
    BY <1>h, <1>33 DEF Stop, Sweep, Reachable, Alive, Ask, envVars, TypeOK,
          NoSquatter, IncarnationShape
  <1>34. CASE Restart(s)
    BY <1>h, <1>34 DEF Restart, Sweep, Reachable, Alive, Ask, runVars,
          envVars, TypeOK, NoSquatter, IncarnationShape
  <1>35. CASE Cancel(s)
    BY <1>h, <1>35 DEF Cancel, flagVars, envVars, TypeOK, NoSquatter,
          IncarnationShape, Alive
  <1> QED
    BY <1>1, <1>2, <1>3, <1>4, <1>5, <1>6, <1>7, <1>8, <1>9, <1>10, <1>11,
       <1>12, <1>13, <1>14, <1>15, <1>16, <1>17, <1>18, <1>19, <1>20, <1>21,
       <1>22, <1>23, <1>24, <1>25, <1>26, <1>27, <1>28, <1>29, <1>30, <1>31,
       <1>32, <1>33, <1>34, <1>35
    DEF ServiceStep, LoopStep, TaskStep

\* Once the run loop gave up, no task of the service (a late restart, a gate
\* watcher, the cancelled run) brings a process back.
LEMMA FailedIsDownStep ==
  ASSUME ServiceInv, NEW s \in Services, ServiceStep(s)
  PROVE  FailedIsDown'
PROOF
  <1>h. TypeOK /\ FailedIsDown /\ NoSquatter /\ IncarnationShape
    BY DEF ServiceInv
  <1>1. CASE AwaitDep(s)
    BY <1>h, <1>1 DEF AwaitDep, procVars, flagVars, taskVars, envVars,
          TypeOK, FailedIsDown, NoSquatter, IncarnationShape, Alive
  <1>2. CASE DepsStopped(s)
    BY <1>h, <1>2 DEF DepsStopped, procVars, flagVars, taskVars, envVars,
          TypeOK, FailedIsDown, NoSquatter, IncarnationShape, Alive
  <1>3. CASE DepsDone(s)
    BY <1>h, <1>3 DEF DepsDone, EnterLoop, procVars, taskVars, envVars,
          TypeOK, FailedIsDown, NoSquatter, IncarnationShape, Alive
  <1>4. CASE GatePasses(s)
    BY <1>h, <1>4 DEF GatePasses, procVars, flagVars, taskVars, envVars,
          TypeOK, FailedIsDown, NoSquatter, IncarnationShape, Alive
  <1>5. CASE GateFails(s)
    BY <1>h, <1>5 DEF GateFails, procVars, flagVars, taskVars, envVars,
          TypeOK, FailedIsDown, NoSquatter, IncarnationShape, Alive
  <1>6. CASE ParkedWakes(s)
    BY <1>h, <1>6 DEF ParkedWakes, procVars, flagVars, taskVars, envVars,
          TypeOK, FailedIsDown, NoSquatter, IncarnationShape, Alive
  <1>7. CASE StillParked(s)
    BY <1>h, <1>7 DEF StillParked, procVars, flagVars, taskVars, envVars,
          TypeOK, FailedIsDown, NoSquatter, IncarnationShape, Alive
  <1>8. CASE Unparked(s)
    <2>1. state[s] # "failed"
      BY <1>h, <1>8 DEF Unparked, FailedIsDown
    <2>2. state'[s] # "failed"
      BY <1>h, <1>8, <2>1 DEF Unparked, EnterLoop, TypeOK
    <2>3. \A t \in Services \ {s} : state'[t] = state[t] /\ pc'[t] = pc[t]
      BY <1>h, <1>8 DEF Unparked, EnterLoop, TypeOK
    <2>. QED BY <1>h, <1>8, <2>2, <2>3
      DEF Unparked, FailedIsDown, Alive, procVars
  <1>9. CASE Fork(s)
    BY <1>h, <1>9 DEF Fork, flagVars, taskVars, envVars, TypeOK,
          FailedIsDown, NoSquatter, IncarnationShape, Alive
  <1>10. CASE Launched(s)
    BY <1>h, <1>10 DEF Launched, BecomeReady, ReleaseWaiters, flagVars,
          envVars, TypeOK, FailedIsDown, NoSquatter, IncarnationShape, Alive
  <1>11. CASE ProbePasses(s)
    BY <1>h, <1>11 DEF ProbePasses, BecomeReady, ReleaseWaiters, procVars,
          flagVars, taskVars, envVars, TypeOK, FailedIsDown, NoSquatter,
          IncarnationShape, Alive
  <1>12. CASE ProbeAbandoned(s)
    BY <1>h, <1>12 DEF ProbeAbandoned, Alive, procVars, flagVars, taskVars,
          envVars, TypeOK, FailedIsDown, NoSquatter, IncarnationShape
  <1>13. CASE ProbeTimesOut(s)
    BY <1>h, <1>13 DEF ProbeTimesOut, Sweep, Reachable, Alive, flagVars,
          taskVars, envVars, TypeOK, FailedIsDown, NoSquatter,
          IncarnationShape
  <1>14. CASE Reap(s)
    BY <1>h, <1>14 DEF Reap, Sweep, Reachable, Alive, flagVars, envVars,
          TypeOK, FailedIsDown, NoSquatter, IncarnationShape
  <1>15. CASE ExitStopping(s)
    BY <1>h, <1>15 DEF ExitStopping, EnterLoop, RunOnceReturns, Classified,
          procVars, taskVars, TypeOK, FailedIsDown, NoSquatter,
          IncarnationShape, Alive
  <1>16. CASE ExitGateStop(s)
    BY <1>h, <1>16 DEF ExitGateStop, EnterLoop, RunOnceReturns, Classified,
          procVars, taskVars, TypeOK, FailedIsDown, NoSquatter,
          IncarnationShape, Alive
  <1>17. CASE ExitBounced(s)
    BY <1>h, <1>17 DEF ExitBounced, EnterLoop, RunOnceReturns, Classified,
          procVars, taskVars, TypeOK, FailedIsDown, NoSquatter,
          IncarnationShape, Alive
  <1>18. CASE ExitFatal(s)
    <2>1. ~Alive(s) /\ s \notin children
      BY <1>h, <1>18 DEF ExitFatal, IsCrash, RunOnceReturns, NoSquatter
    <2>2. pc'[s] = "done" /\ s \notin ready' /\ ready' \subseteq ready
      BY <1>h, <1>18 DEF ExitFatal, Fail, Classified, TypeOK
    <2>3. \A t \in Services \ {s} : state'[t] = state[t] /\ pc'[t] = pc[t]
      BY <1>h, <1>18 DEF ExitFatal, Fail, TypeOK
    <2>. QED BY <1>h, <1>18, <2>1, <2>2, <2>3
      DEF ExitFatal, Classified, FailedIsDown, Alive, procVars
  <1>19. CASE ExitCharged(s)
    <2>1. /\ \A t \in Services \ {s} :
               fails'[t] = fails[t] /\ pc'[t] = pc[t] /\ state'[t] = state[t]
          /\ \/ pc'[s] = "backoff" /\ state'[s] = "backoff" /\ fails'[s] <= MaxRestarts
             \/ pc'[s] = "done" /\ state'[s] = "failed"
      BY <1>19, ChargeStep DEF ExitCharged, IsCrash, RunOnceReturns, Classified
    <2>. QED BY <1>h, <1>19, <2>1
      DEF ExitCharged, IsCrash, RunOnceReturns, Classified, FailedIsDown, NoSquatter, IncarnationShape, Alive, procVars
  <1>20. CASE ExitAsksGates(s)
    BY <1>h, <1>20 DEF ExitAsksGates, Classified, procVars, taskVars,
          IsCrash, RunOnceReturns, TypeOK, FailedIsDown, NoSquatter,
          IncarnationShape, Alive
  <1>21. CASE RegateFails(s)
    BY <1>h, <1>21 DEF RegateFails, EnterLoop, procVars, taskVars, envVars,
          TypeOK, FailedIsDown, NoSquatter, IncarnationShape, Alive
  <1>22. CASE RegatePasses(s)
    <2>1. /\ \A t \in Services \ {s} :
               fails'[t] = fails[t] /\ pc'[t] = pc[t] /\ state'[t] = state[t]
          /\ \/ pc'[s] = "backoff" /\ state'[s] = "backoff" /\ fails'[s] <= MaxRestarts
             \/ pc'[s] = "done" /\ state'[s] = "failed"
      BY <1>22, ChargeStep DEF RegatePasses
    <2>. QED BY <1>h, <1>22, <2>1
      DEF RegatePasses, FailedIsDown, NoSquatter, IncarnationShape, Alive, procVars
  <1>23. CASE BackoffEnds(s)
    BY <1>h, <1>23 DEF BackoffEnds, EnterLoop, procVars, taskVars, envVars,
          TypeOK, FailedIsDown, NoSquatter, IncarnationShape, Alive
  <1>24. CASE StopEnds(s)
    BY <1>h, <1>24 DEF StopEnds, Sweep, Reachable, Alive, Ask, runVars,
          envVars, TypeOK, FailedIsDown, NoSquatter, IncarnationShape
  <1>25. CASE RestartEscalates(s)
    BY <1>h, <1>25 DEF RestartEscalates, Sweep, Reachable, Alive, Ask,
          runVars, envVars, TypeOK, FailedIsDown, NoSquatter,
          IncarnationShape
  <1>26. CASE RestartNoticesExit(s)
    BY <1>h, <1>26 DEF RestartNoticesExit, runVars, procVars, flagVars,
          envVars, TypeOK, FailedIsDown, NoSquatter, IncarnationShape, Alive
  <1>27. CASE GateWatchEnds(s)
    BY <1>h, <1>27 DEF GateWatchEnds, Sweep, Reachable, Alive, Ask, runVars,
          envVars, TypeOK, FailedIsDown, NoSquatter, IncarnationShape
  <1>28. CASE PathWatchEnds(s)
    BY <1>h, <1>28 DEF PathWatchEnds, Sweep, Reachable, Alive, Ask, runVars,
          envVars, TypeOK, FailedIsDown, NoSquatter, IncarnationShape
  <1>29. CASE GateCloses(s)
    BY <1>h, <1>29 DEF GateCloses, Sweep, Reachable, Alive, Ask, runVars,
          envVars, TypeOK, FailedIsDown, NoSquatter, IncarnationShape
  <1>30. CASE PathChanges(s)
    BY <1>h, <1>30 DEF PathChanges, Sweep, Reachable, Alive, Ask, runVars,
          envVars, TypeOK, FailedIsDown, NoSquatter, IncarnationShape
  <1>31. CASE ProcessExit(s)
    BY <1>h, <1>31 DEF ProcessExit, Alive, runVars, flagVars, envVars,
          TypeOK, FailedIsDown, NoSquatter, IncarnationShape
  <1>32. CASE GateMoves(s)
    BY <1>h, <1>32 DEF GateMoves, runVars, procVars, flagVars, taskVars,
          TypeOK, FailedIsDown, NoSquatter, IncarnationShape, Alive
  <1>33. CASE Stop(s)
    BY <1>h, <1>33 DEF Stop, Sweep, Reachable, Alive, Ask, envVars, TypeOK,
          FailedIsDown, NoSquatter, IncarnationShape
  <1>34. CASE Restart(s)
    BY <1>h, <1>34 DEF Restart, Sweep, Reachable, Alive, Ask, runVars,
          envVars, TypeOK, FailedIsDown, NoSquatter, IncarnationShape
  <1>35. CASE Cancel(s)
    BY <1>h, <1>35 DEF Cancel, flagVars, envVars, TypeOK, FailedIsDown,
          NoSquatter, IncarnationShape, Alive
  <1> QED
    BY <1>1, <1>2, <1>3, <1>4, <1>5, <1>6, <1>7, <1>8, <1>9, <1>10, <1>11,
       <1>12, <1>13, <1>14, <1>15, <1>16, <1>17, <1>18, <1>19, <1>20, <1>21,
       <1>22, <1>23, <1>24, <1>25, <1>26, <1>27, <1>28, <1>29, <1>30, <1>31,
       <1>32, <1>33, <1>34, <1>35
    DEF ServiceStep, LoopStep, TaskStep

\* The failure window holds more than max_restarts entries only for a service
\* that gave up: a charged exit fails the service in the same step.
LEMMA BudgetIsEnforcedStep ==
  ASSUME ServiceInv, NEW s \in Services, ServiceStep(s)
  PROVE  BudgetIsEnforced'
PROOF
  <1>h. TypeOK /\ BudgetIsEnforced /\ FailedIsDown
    BY DEF ServiceInv
  <1>1. CASE AwaitDep(s)
    BY <1>h, <1>1 DEF AwaitDep, procVars, flagVars, taskVars, envVars,
          TypeOK, BudgetIsEnforced, FailedIsDown, Alive
  <1>2. CASE DepsStopped(s)
    BY <1>h, <1>2 DEF DepsStopped, procVars, flagVars, taskVars, envVars,
          TypeOK, BudgetIsEnforced, FailedIsDown, Alive
  <1>3. CASE DepsDone(s)
    BY <1>h, <1>3 DEF DepsDone, EnterLoop, procVars, taskVars, envVars,
          TypeOK, BudgetIsEnforced, FailedIsDown, Alive
  <1>4. CASE GatePasses(s)
    BY <1>h, <1>4 DEF GatePasses, procVars, flagVars, taskVars, envVars,
          TypeOK, BudgetIsEnforced, FailedIsDown, Alive
  <1>5. CASE GateFails(s)
    <2>1. fails'[s] = 0 /\ MaxRestarts \in Nat
      BY <1>h, <1>5, ServiceAssumption DEF ServiceAssumption, GateFails, TypeOK
    <2>2. \A t \in Services \ {s} : fails'[t] = fails[t] /\ state'[t] = state[t]
      BY <1>h, <1>5 DEF GateFails, TypeOK
    <2>. QED BY <1>h, <2>1, <2>2 DEF BudgetIsEnforced
  <1>6. CASE ParkedWakes(s)
    BY <1>h, <1>6 DEF ParkedWakes, procVars, flagVars, taskVars, envVars,
          TypeOK, BudgetIsEnforced, FailedIsDown, Alive
  <1>7. CASE StillParked(s)
    BY <1>h, <1>7 DEF StillParked, procVars, flagVars, taskVars, envVars,
          TypeOK, BudgetIsEnforced, FailedIsDown, Alive
  <1>8. CASE Unparked(s)
    <2>1. pc[s] \in {"parked", "parkgate"} /\ EnterLoop(s)
      BY <1>8 DEF Unparked
    <2>2. UNCHANGED <<awaited, fails, ready, everReady, procVars, stopEvent,
                      bounceRequested, gateStop, taskVars, envVars>>
      BY <1>8 DEF Unparked
    <2>. QED BY <1>h, <2>1, <2>2 DEF EnterLoop, procVars, taskVars, envVars,
          TypeOK, BudgetIsEnforced, FailedIsDown, Alive
  <1>9. CASE Fork(s)
    BY <1>h, <1>9 DEF Fork, flagVars, taskVars, envVars, TypeOK,
          BudgetIsEnforced, FailedIsDown, Alive
  <1>10. CASE Launched(s)
    BY <1>h, <1>10 DEF Launched, BecomeReady, ReleaseWaiters, flagVars,
          envVars, TypeOK, BudgetIsEnforced, FailedIsDown, Alive
  <1>11. CASE ProbePasses(s)
    BY <1>h, <1>11 DEF ProbePasses, BecomeReady, ReleaseWaiters, procVars,
          flagVars, taskVars, envVars, TypeOK, BudgetIsEnforced,
          FailedIsDown, Alive
  <1>12. CASE ProbeAbandoned(s)
    BY <1>h, <1>12 DEF ProbeAbandoned, Alive, procVars, flagVars, taskVars,
          envVars, TypeOK, BudgetIsEnforced, FailedIsDown
  <1>13. CASE ProbeTimesOut(s)
    BY <1>h, <1>13 DEF ProbeTimesOut, Sweep, Reachable, Alive, flagVars,
          taskVars, envVars, TypeOK, BudgetIsEnforced, FailedIsDown
  <1>14. CASE Reap(s)
    BY <1>h, <1>14 DEF Reap, Sweep, Reachable, Alive, flagVars, envVars,
          TypeOK, BudgetIsEnforced, FailedIsDown
  <1>15. CASE ExitStopping(s)
    BY <1>h, <1>15 DEF ExitStopping, EnterLoop, RunOnceReturns, Classified,
          procVars, taskVars, TypeOK, BudgetIsEnforced, FailedIsDown, Alive
  <1>16. CASE ExitGateStop(s)
    BY <1>h, <1>16 DEF ExitGateStop, EnterLoop, RunOnceReturns, Classified,
          procVars, taskVars, TypeOK, BudgetIsEnforced, FailedIsDown, Alive
  <1>17. CASE ExitBounced(s)
    BY <1>h, <1>17 DEF ExitBounced, EnterLoop, RunOnceReturns, Classified,
          procVars, taskVars, TypeOK, BudgetIsEnforced, FailedIsDown, Alive
  <1>18. CASE ExitFatal(s)
    BY <1>h, <1>18 DEF ExitFatal, Classified, procVars, taskVars, Fail,
          IsCrash, RunOnceReturns, TypeOK, BudgetIsEnforced, FailedIsDown,
          Alive
  <1>19. CASE ExitCharged(s)
    <2>1. /\ \A t \in Services \ {s} :
               fails'[t] = fails[t] /\ pc'[t] = pc[t] /\ state'[t] = state[t]
          /\ \/ pc'[s] = "backoff" /\ state'[s] = "backoff" /\ fails'[s] <= MaxRestarts
             \/ pc'[s] = "done" /\ state'[s] = "failed"
      BY <1>19, ChargeStep DEF ExitCharged, IsCrash, RunOnceReturns, Classified
    <2>2. MaxRestarts \in Nat /\ fails' \in [Services -> 0 .. MaxRestarts + 1]
      BY <1>19, ChargeStep, ServiceAssumption
      DEF ServiceAssumption, ExitCharged, IsCrash, RunOnceReturns, Classified
    <2>. QED BY <1>h, <1>19, <2>1, <2>2
      DEF ExitCharged, IsCrash, RunOnceReturns, Classified, BudgetIsEnforced
  <1>20. CASE ExitAsksGates(s)
    BY <1>h, <1>20 DEF ExitAsksGates, Classified, procVars, taskVars,
          IsCrash, RunOnceReturns, TypeOK, BudgetIsEnforced, FailedIsDown,
          Alive
  <1>21. CASE RegateFails(s)
    BY <1>h, <1>21 DEF RegateFails, EnterLoop, procVars, taskVars, envVars,
          TypeOK, BudgetIsEnforced, FailedIsDown, Alive
  <1>22. CASE RegatePasses(s)
    <2>1. /\ \A t \in Services \ {s} :
               fails'[t] = fails[t] /\ pc'[t] = pc[t] /\ state'[t] = state[t]
          /\ \/ pc'[s] = "backoff" /\ state'[s] = "backoff" /\ fails'[s] <= MaxRestarts
             \/ pc'[s] = "done" /\ state'[s] = "failed"
      BY <1>22, ChargeStep DEF RegatePasses
    <2>2. MaxRestarts \in Nat /\ fails' \in [Services -> 0 .. MaxRestarts + 1]
      BY <1>22, ChargeStep, ServiceAssumption
      DEF ServiceAssumption, RegatePasses
    <2>. QED BY <1>h, <1>22, <2>1, <2>2
      DEF RegatePasses, BudgetIsEnforced
  <1>23. CASE BackoffEnds(s)
    BY <1>h, <1>23 DEF BackoffEnds, EnterLoop, procVars, taskVars, envVars,
          TypeOK, BudgetIsEnforced, FailedIsDown, Alive
  <1>24. CASE StopEnds(s)
    BY <1>h, <1>24 DEF StopEnds, Sweep, Reachable, Alive, Ask, runVars,
          envVars, TypeOK, BudgetIsEnforced, FailedIsDown
  <1>25. CASE RestartEscalates(s)
    BY <1>h, <1>25 DEF RestartEscalates, Sweep, Reachable, Alive, Ask,
          runVars, envVars, TypeOK, BudgetIsEnforced, FailedIsDown
  <1>26. CASE RestartNoticesExit(s)
    BY <1>h, <1>26 DEF RestartNoticesExit, runVars, procVars, flagVars,
          envVars, TypeOK, BudgetIsEnforced, FailedIsDown, Alive
  <1>27. CASE GateWatchEnds(s)
    BY <1>h, <1>27 DEF GateWatchEnds, Sweep, Reachable, Alive, Ask, runVars,
          envVars, TypeOK, BudgetIsEnforced, FailedIsDown
  <1>28. CASE PathWatchEnds(s)
    BY <1>h, <1>28 DEF PathWatchEnds, Sweep, Reachable, Alive, Ask, runVars,
          envVars, TypeOK, BudgetIsEnforced, FailedIsDown
  <1>29. CASE GateCloses(s)
    BY <1>h, <1>29 DEF GateCloses, Sweep, Reachable, Alive, Ask, runVars,
          envVars, TypeOK, BudgetIsEnforced, FailedIsDown
  <1>30. CASE PathChanges(s)
    BY <1>h, <1>30 DEF PathChanges, Sweep, Reachable, Alive, Ask, runVars,
          envVars, TypeOK, BudgetIsEnforced, FailedIsDown
  <1>31. CASE ProcessExit(s)
    BY <1>h, <1>31 DEF ProcessExit, Alive, runVars, flagVars, envVars,
          TypeOK, BudgetIsEnforced, FailedIsDown
  <1>32. CASE GateMoves(s)
    BY <1>h, <1>32 DEF GateMoves, runVars, procVars, flagVars, taskVars,
          TypeOK, BudgetIsEnforced, FailedIsDown, Alive
  <1>33. CASE Stop(s)
    BY <1>h, <1>33 DEF Stop, Sweep, Reachable, Alive, Ask, envVars, TypeOK,
          BudgetIsEnforced, FailedIsDown
  <1>34. CASE Restart(s)
    BY <1>h, <1>34 DEF Restart, Sweep, Reachable, Alive, Ask, runVars,
          envVars, TypeOK, BudgetIsEnforced, FailedIsDown
  <1>35. CASE Cancel(s)
    BY <1>h, <1>35 DEF Cancel, flagVars, envVars, TypeOK, BudgetIsEnforced,
          FailedIsDown, Alive
  <1> QED
    BY <1>1, <1>2, <1>3, <1>4, <1>5, <1>6, <1>7, <1>8, <1>9, <1>10, <1>11,
       <1>12, <1>13, <1>14, <1>15, <1>16, <1>17, <1>18, <1>19, <1>20, <1>21,
       <1>22, <1>23, <1>24, <1>25, <1>26, <1>27, <1>28, <1>29, <1>30, <1>31,
       <1>32, <1>33, <1>34, <1>35
    DEF ServiceStep, LoopStep, TaskStep

\* The await point of the run loop determines which of the leader, its
\* watchers and the displayed state exist.
LEMMA IncarnationShapeStep ==
  ASSUME ServiceInv, NEW s \in Services, ServiceStep(s)
  PROVE  IncarnationShape'
PROOF
  <1>h. TypeOK /\ IncarnationShape
    BY DEF ServiceInv
  <1>1. CASE AwaitDep(s)
    BY <1>h, <1>1 DEF AwaitDep, procVars, flagVars, taskVars, envVars,
          TypeOK, IncarnationShape, Alive
  <1>2. CASE DepsStopped(s)
    BY <1>h, <1>2 DEF DepsStopped, procVars, flagVars, taskVars, envVars,
          TypeOK, IncarnationShape, Alive
  <1>3. CASE DepsDone(s)
    BY <1>h, <1>3 DEF DepsDone, EnterLoop, procVars, taskVars, envVars,
          TypeOK, IncarnationShape, Alive
  <1>4. CASE GatePasses(s)
    BY <1>h, <1>4 DEF GatePasses, procVars, flagVars, taskVars, envVars,
          TypeOK, IncarnationShape, Alive
  <1>5. CASE GateFails(s)
    BY <1>h, <1>5 DEF GateFails, procVars, flagVars, taskVars, envVars,
          TypeOK, IncarnationShape, Alive
  <1>6. CASE ParkedWakes(s)
    BY <1>h, <1>6 DEF ParkedWakes, procVars, flagVars, taskVars, envVars,
          TypeOK, IncarnationShape, Alive
  <1>7. CASE StillParked(s)
    BY <1>h, <1>7 DEF StillParked, procVars, flagVars, taskVars, envVars,
          TypeOK, IncarnationShape, Alive
  <1>8. CASE Unparked(s)
    <2>1. pc[s] \in {"parked", "parkgate"} /\ EnterLoop(s)
      BY <1>8 DEF Unparked
    <2>2. UNCHANGED <<awaited, fails, ready, everReady, procVars, stopEvent,
                      bounceRequested, gateStop, taskVars, envVars>>
      BY <1>8 DEF Unparked
    <2>. QED BY <1>h, <2>1, <2>2 DEF EnterLoop, procVars, taskVars, envVars,
          TypeOK, IncarnationShape, Alive
  <1>9. CASE Fork(s)
    BY <1>h, <1>9 DEF Fork, flagVars, taskVars, envVars, TypeOK,
          IncarnationShape, Alive
  <1>10. CASE Launched(s)
    BY <1>h, <1>10 DEF Launched, BecomeReady, ReleaseWaiters, flagVars,
          envVars, TypeOK, IncarnationShape, Alive
  <1>11. CASE ProbePasses(s)
    BY <1>h, <1>11 DEF ProbePasses, BecomeReady, ReleaseWaiters, procVars,
          flagVars, taskVars, envVars, TypeOK, IncarnationShape, Alive
  <1>12. CASE ProbeAbandoned(s)
    BY <1>h, <1>12 DEF ProbeAbandoned, Alive, procVars, flagVars, taskVars,
          envVars, TypeOK, IncarnationShape
  <1>13. CASE ProbeTimesOut(s)
    BY <1>h, <1>13 DEF ProbeTimesOut, Sweep, Reachable, Alive, flagVars,
          taskVars, envVars, TypeOK, IncarnationShape
  <1>14. CASE Reap(s)
    BY <1>h, <1>14 DEF Reap, Sweep, Reachable, Alive, flagVars, envVars,
          TypeOK, IncarnationShape
  <1>15. CASE ExitStopping(s)
    BY <1>h, <1>15 DEF ExitStopping, EnterLoop, RunOnceReturns, Classified,
          procVars, taskVars, TypeOK, IncarnationShape, Alive
  <1>16. CASE ExitGateStop(s)
    BY <1>h, <1>16 DEF ExitGateStop, EnterLoop, RunOnceReturns, Classified,
          procVars, taskVars, TypeOK, IncarnationShape, Alive
  <1>17. CASE ExitBounced(s)
    BY <1>h, <1>17 DEF ExitBounced, EnterLoop, RunOnceReturns, Classified,
          procVars, taskVars, TypeOK, IncarnationShape, Alive
  <1>18. CASE ExitFatal(s)
    BY <1>h, <1>18 DEF ExitFatal, Classified, procVars, taskVars, Fail,
          IsCrash, RunOnceReturns, TypeOK, IncarnationShape, Alive
  <1>19. CASE ExitCharged(s)
    BY <1>h, <1>19 DEF ExitCharged, Classified, procVars, taskVars, IsCrash,
          RunOnceReturns, Charge, BacksOff, RunsOut, Fail, TypeOK,
          IncarnationShape, Alive
  <1>20. CASE ExitAsksGates(s)
    BY <1>h, <1>20 DEF ExitAsksGates, Classified, procVars, taskVars,
          IsCrash, RunOnceReturns, TypeOK, IncarnationShape, Alive
  <1>21. CASE RegateFails(s)
    BY <1>h, <1>21 DEF RegateFails, EnterLoop, procVars, taskVars, envVars,
          TypeOK, IncarnationShape, Alive
  <1>22. CASE RegatePasses(s)
    BY <1>h, <1>22 DEF RegatePasses, Charge, BacksOff, RunsOut, Fail,
          procVars, flagVars, taskVars, TypeOK, IncarnationShape, Alive
  <1>23. CASE BackoffEnds(s)
    BY <1>h, <1>23 DEF BackoffEnds, EnterLoop, procVars, taskVars, envVars,
          TypeOK, IncarnationShape, Alive
  <1>24. CASE StopEnds(s)
    BY <1>h, <1>24 DEF StopEnds, Sweep, Reachable, Alive, Ask, runVars,
          envVars, TypeOK, IncarnationShape
  <1>25. CASE RestartEscalates(s)
    BY <1>h, <1>25 DEF RestartEscalates, Sweep, Reachable, Alive, Ask,
          runVars, envVars, TypeOK, IncarnationShape
  <1>26. CASE RestartNoticesExit(s)
    BY <1>h, <1>26 DEF RestartNoticesExit, runVars, procVars, flagVars,
          envVars, TypeOK, IncarnationShape, Alive
  <1>27. CASE GateWatchEnds(s)
    BY <1>h, <1>27 DEF GateWatchEnds, Sweep, Reachable, Alive, Ask, runVars,
          envVars, TypeOK, IncarnationShape
  <1>28. CASE PathWatchEnds(s)
    BY <1>h, <1>28 DEF PathWatchEnds, Sweep, Reachable, Alive, Ask, runVars,
          envVars, TypeOK, IncarnationShape
  <1>29. CASE GateCloses(s)
    BY <1>h, <1>29 DEF GateCloses, Sweep, Reachable, Alive, Ask, runVars,
          envVars, TypeOK, IncarnationShape
  <1>30. CASE PathChanges(s)
    BY <1>h, <1>30 DEF PathChanges, Sweep, Reachable, Alive, Ask, runVars,
          envVars, TypeOK, IncarnationShape
  <1>31. CASE ProcessExit(s)
    BY <1>h, <1>31 DEF ProcessExit, Alive, runVars, flagVars, envVars,
          TypeOK, IncarnationShape
  <1>32. CASE GateMoves(s)
    BY <1>h, <1>32 DEF GateMoves, runVars, procVars, flagVars, taskVars,
          TypeOK, IncarnationShape, Alive
  <1>33. CASE Stop(s)
    BY <1>h, <1>33 DEF Stop, Sweep, Reachable, Alive, Ask, envVars, TypeOK,
          IncarnationShape
  <1>34. CASE Restart(s)
    BY <1>h, <1>34 DEF Restart, Sweep, Reachable, Alive, Ask, runVars,
          envVars, TypeOK, IncarnationShape
  <1>35. CASE Cancel(s)
    BY <1>h, <1>35 DEF Cancel, flagVars, envVars, TypeOK, IncarnationShape,
          Alive
  <1> QED
    BY <1>1, <1>2, <1>3, <1>4, <1>5, <1>6, <1>7, <1>8, <1>9, <1>10, <1>11,
       <1>12, <1>13, <1>14, <1>15, <1>16, <1>17, <1>18, <1>19, <1>20, <1>21,
       <1>22, <1>23, <1>24, <1>25, <1>26, <1>27, <1>28, <1>29, <1>30, <1>31,
       <1>32, <1>33, <1>34, <1>35
    DEF ServiceStep, LoopStep, TaskStep

\* The loop over the dependencies counts only events that are set: every
\* dependency before the awaited one was ready at some time.
LEMMA DependencyProgressStep ==
  ASSUME ServiceInv, NEW s \in Services, ServiceStep(s)
  PROVE  DependencyProgress'
PROOF
  <1>h. TypeOK /\ DependencyProgress /\ IncarnationShape
    BY DEF ServiceInv
  <1>1. CASE AwaitDep(s)
    BY <1>h, <1>1 DEF AwaitDep, procVars, flagVars, taskVars, envVars,
          TypeOK, DependencyProgress, IncarnationShape, Alive
  <1>2. CASE DepsStopped(s)
    BY <1>h, <1>2 DEF DepsStopped, procVars, flagVars, taskVars, envVars,
          TypeOK, DependencyProgress, IncarnationShape, Alive
  <1>3. CASE DepsDone(s)
    BY <1>h, <1>3 DEF DepsDone, EnterLoop, procVars, taskVars, envVars,
          TypeOK, DependencyProgress, IncarnationShape, Alive
  <1>4. CASE GatePasses(s)
    BY <1>h, <1>4 DEF GatePasses, procVars, flagVars, taskVars, envVars,
          TypeOK, DependencyProgress, IncarnationShape, Alive
  <1>5. CASE GateFails(s)
    BY <1>h, <1>5 DEF GateFails, procVars, flagVars, taskVars, envVars,
          TypeOK, DependencyProgress, IncarnationShape, Alive
  <1>6. CASE ParkedWakes(s)
    BY <1>h, <1>6 DEF ParkedWakes, procVars, flagVars, taskVars, envVars,
          TypeOK, DependencyProgress, IncarnationShape, Alive
  <1>7. CASE StillParked(s)
    BY <1>h, <1>7 DEF StillParked, procVars, flagVars, taskVars, envVars,
          TypeOK, DependencyProgress, IncarnationShape, Alive
  <1>8. CASE Unparked(s)
    <2>1. pc[s] \in {"parked", "parkgate"} /\ EnterLoop(s)
      BY <1>8 DEF Unparked
    <2>2. UNCHANGED <<awaited, fails, ready, everReady, procVars, stopEvent,
                      bounceRequested, gateStop, taskVars, envVars>>
      BY <1>8 DEF Unparked
    <2>. QED BY <1>h, <2>1, <2>2 DEF EnterLoop, procVars, taskVars, envVars,
          TypeOK, DependencyProgress, IncarnationShape, Alive
  <1>9. CASE Fork(s)
    BY <1>h, <1>9 DEF Fork, flagVars, taskVars, envVars, TypeOK,
          DependencyProgress, IncarnationShape, Alive
  <1>10. CASE Launched(s)
    BY <1>h, <1>10 DEF Launched, BecomeReady, ReleaseWaiters, flagVars,
          envVars, TypeOK, DependencyProgress, IncarnationShape, Alive
  <1>11. CASE ProbePasses(s)
    BY <1>h, <1>11 DEF ProbePasses, BecomeReady, ReleaseWaiters, procVars,
          flagVars, taskVars, envVars, TypeOK, DependencyProgress,
          IncarnationShape, Alive
  <1>12. CASE ProbeAbandoned(s)
    BY <1>h, <1>12 DEF ProbeAbandoned, Alive, procVars, flagVars, taskVars,
          envVars, TypeOK, DependencyProgress, IncarnationShape
  <1>13. CASE ProbeTimesOut(s)
    BY <1>h, <1>13 DEF ProbeTimesOut, Sweep, Reachable, Alive, flagVars,
          taskVars, envVars, TypeOK, DependencyProgress, IncarnationShape
  <1>14. CASE Reap(s)
    BY <1>h, <1>14 DEF Reap, Sweep, Reachable, Alive, flagVars, envVars,
          TypeOK, DependencyProgress, IncarnationShape
  <1>15. CASE ExitStopping(s)
    BY <1>h, <1>15 DEF ExitStopping, EnterLoop, RunOnceReturns, Classified,
          procVars, taskVars, TypeOK, DependencyProgress, IncarnationShape,
          Alive
  <1>16. CASE ExitGateStop(s)
    BY <1>h, <1>16 DEF ExitGateStop, EnterLoop, RunOnceReturns, Classified,
          procVars, taskVars, TypeOK, DependencyProgress, IncarnationShape,
          Alive
  <1>17. CASE ExitBounced(s)
    BY <1>h, <1>17 DEF ExitBounced, EnterLoop, RunOnceReturns, Classified,
          procVars, taskVars, TypeOK, DependencyProgress, IncarnationShape,
          Alive
  <1>18. CASE ExitFatal(s)
    BY <1>h, <1>18 DEF ExitFatal, Classified, procVars, taskVars, Fail,
          IsCrash, RunOnceReturns, TypeOK, DependencyProgress,
          IncarnationShape, Alive
  <1>19. CASE ExitCharged(s)
    BY <1>h, <1>19 DEF ExitCharged, Classified, procVars, taskVars, IsCrash,
          RunOnceReturns, Charge, BacksOff, RunsOut, Fail, TypeOK,
          DependencyProgress, IncarnationShape, Alive
  <1>20. CASE ExitAsksGates(s)
    BY <1>h, <1>20 DEF ExitAsksGates, Classified, procVars, taskVars,
          IsCrash, RunOnceReturns, TypeOK, DependencyProgress,
          IncarnationShape, Alive
  <1>21. CASE RegateFails(s)
    BY <1>h, <1>21 DEF RegateFails, EnterLoop, procVars, taskVars, envVars,
          TypeOK, DependencyProgress, IncarnationShape, Alive
  <1>22. CASE RegatePasses(s)
    <2>1. pc[s] = "regate" /\ Charge(s)
      BY <1>22 DEF RegatePasses
    <2>2. UNCHANGED <<awaited, ready, everReady, proc>>
      BY <1>22 DEF RegatePasses, procVars
    <2>3. /\ \A t \in Services \ {s} : pc'[t] = pc[t] /\ state'[t] = state[t]
          /\ pc'[s] \in {"backoff", "done"}
      BY <2>1, ChargeStep
    <2>. QED BY <1>h, <2>1, <2>2, <2>3 DEF DependencyProgress
  <1>23. CASE BackoffEnds(s)
    BY <1>h, <1>23 DEF BackoffEnds, EnterLoop, procVars, taskVars, envVars,
          TypeOK, DependencyProgress, IncarnationShape, Alive
  <1>24. CASE StopEnds(s)
    BY <1>h, <1>24 DEF StopEnds, Sweep, Reachable, Alive, Ask, runVars,
          envVars, TypeOK, DependencyProgress, IncarnationShape
  <1>25. CASE RestartEscalates(s)
    BY <1>h, <1>25 DEF RestartEscalates, Sweep, Reachable, Alive, Ask,
          runVars, envVars, TypeOK, DependencyProgress, IncarnationShape
  <1>26. CASE RestartNoticesExit(s)
    BY <1>h, <1>26 DEF RestartNoticesExit, runVars, procVars, flagVars,
          envVars, TypeOK, DependencyProgress, IncarnationShape, Alive
  <1>27. CASE GateWatchEnds(s)
    BY <1>h, <1>27 DEF GateWatchEnds, Sweep, Reachable, Alive, Ask, runVars,
          envVars, TypeOK, DependencyProgress, IncarnationShape
  <1>28. CASE PathWatchEnds(s)
    BY <1>h, <1>28 DEF PathWatchEnds, Sweep, Reachable, Alive, Ask, runVars,
          envVars, TypeOK, DependencyProgress, IncarnationShape
  <1>29. CASE GateCloses(s)
    BY <1>h, <1>29 DEF GateCloses, Sweep, Reachable, Alive, Ask, runVars,
          envVars, TypeOK, DependencyProgress, IncarnationShape
  <1>30. CASE PathChanges(s)
    BY <1>h, <1>30 DEF PathChanges, Sweep, Reachable, Alive, Ask, runVars,
          envVars, TypeOK, DependencyProgress, IncarnationShape
  <1>31. CASE ProcessExit(s)
    BY <1>h, <1>31 DEF ProcessExit, Alive, runVars, flagVars, envVars,
          TypeOK, DependencyProgress, IncarnationShape
  <1>32. CASE GateMoves(s)
    BY <1>h, <1>32 DEF GateMoves, runVars, procVars, flagVars, taskVars,
          TypeOK, DependencyProgress, IncarnationShape, Alive
  <1>33. CASE Stop(s)
    BY <1>h, <1>33 DEF Stop, Sweep, Reachable, Alive, Ask, envVars, TypeOK,
          DependencyProgress, IncarnationShape
  <1>34. CASE Restart(s)
    BY <1>h, <1>34 DEF Restart, Sweep, Reachable, Alive, Ask, runVars,
          envVars, TypeOK, DependencyProgress, IncarnationShape
  <1>35. CASE Cancel(s)
    BY <1>h, <1>35 DEF Cancel, flagVars, envVars, TypeOK, DependencyProgress,
          IncarnationShape, Alive
  <1> QED
    BY <1>1, <1>2, <1>3, <1>4, <1>5, <1>6, <1>7, <1>8, <1>9, <1>10, <1>11,
       <1>12, <1>13, <1>14, <1>15, <1>16, <1>17, <1>18, <1>19, <1>20, <1>21,
       <1>22, <1>23, <1>24, <1>25, <1>26, <1>27, <1>28, <1>29, <1>30, <1>31,
       <1>32, <1>33, <1>34, <1>35
    DEF ServiceStep, LoopStep, TaskStep

\* A process killed on request has its request flag set until the run loop has
\* looked at the exit.
LEMMA RequestsAreFlaggedStep ==
  ASSUME ServiceInv, NEW s \in Services, ServiceStep(s)
  PROVE  RequestsAreFlagged'
PROOF
  <1>h. TypeOK /\ RequestsAreFlagged /\ NoSquatter /\ IncarnationShape
    BY DEF ServiceInv
  <1>1. CASE AwaitDep(s)
    BY <1>h, <1>1 DEF AwaitDep, procVars, flagVars, taskVars, envVars,
          TypeOK, RequestsAreFlagged, NoSquatter, IncarnationShape, Alive
  <1>2. CASE DepsStopped(s)
    BY <1>h, <1>2 DEF DepsStopped, procVars, flagVars, taskVars, envVars,
          TypeOK, RequestsAreFlagged, NoSquatter, IncarnationShape, Alive
  <1>3. CASE DepsDone(s)
    BY <1>h, <1>3 DEF DepsDone, EnterLoop, procVars, taskVars, envVars,
          TypeOK, RequestsAreFlagged, NoSquatter, IncarnationShape, Alive
  <1>4. CASE GatePasses(s)
    BY <1>h, <1>4 DEF GatePasses, procVars, flagVars, taskVars, envVars,
          TypeOK, RequestsAreFlagged, NoSquatter, IncarnationShape, Alive
  <1>5. CASE GateFails(s)
    BY <1>h, <1>5 DEF GateFails, procVars, flagVars, taskVars, envVars,
          TypeOK, RequestsAreFlagged, NoSquatter, IncarnationShape, Alive
  <1>6. CASE ParkedWakes(s)
    BY <1>h, <1>6 DEF ParkedWakes, procVars, flagVars, taskVars, envVars,
          TypeOK, RequestsAreFlagged, NoSquatter, IncarnationShape, Alive
  <1>7. CASE StillParked(s)
    BY <1>h, <1>7 DEF StillParked, procVars, flagVars, taskVars, envVars,
          TypeOK, RequestsAreFlagged, NoSquatter, IncarnationShape, Alive
  <1>8. CASE Unparked(s)
    <2>1. pc[s] \in {"parked", "parkgate"} /\ EnterLoop(s)
      BY <1>8 DEF Unparked
    <2>2. UNCHANGED <<awaited, fails, ready, everReady, procVars, stopEvent,
                      bounceRequested, gateStop, taskVars, envVars>>
      BY <1>8 DEF Unparked
    <2>. QED BY <1>h, <2>1, <2>2 DEF EnterLoop, procVars, taskVars, envVars,
          TypeOK, RequestsAreFlagged, NoSquatter, IncarnationShape, Alive
  <1>9. CASE Fork(s)
    BY <1>h, <1>9 DEF Fork, flagVars, taskVars, envVars, TypeOK,
          RequestsAreFlagged, NoSquatter, IncarnationShape, Alive
  <1>10. CASE Launched(s)
    BY <1>h, <1>10 DEF Launched, BecomeReady, ReleaseWaiters, flagVars,
          envVars, TypeOK, RequestsAreFlagged, NoSquatter, IncarnationShape,
          Alive
  <1>11. CASE ProbePasses(s)
    BY <1>h, <1>11 DEF ProbePasses, BecomeReady, ReleaseWaiters, procVars,
          flagVars, taskVars, envVars, TypeOK, RequestsAreFlagged,
          NoSquatter, IncarnationShape, Alive
  <1>12. CASE ProbeAbandoned(s)
    BY <1>h, <1>12 DEF ProbeAbandoned, Alive, procVars, flagVars, taskVars,
          envVars, TypeOK, RequestsAreFlagged, NoSquatter, IncarnationShape
  <1>13. CASE ProbeTimesOut(s)
    BY <1>h, <1>13 DEF ProbeTimesOut, Sweep, Reachable, Alive, flagVars,
          taskVars, envVars, TypeOK, RequestsAreFlagged, NoSquatter,
          IncarnationShape
  <1>14. CASE Reap(s)
    BY <1>h, <1>14 DEF Reap, Sweep, Reachable, Alive, flagVars, envVars,
          TypeOK, RequestsAreFlagged, NoSquatter, IncarnationShape
  <1>15. CASE ExitStopping(s)
    BY <1>h, <1>15 DEF ExitStopping, EnterLoop, RunOnceReturns, Classified,
          procVars, taskVars, TypeOK, RequestsAreFlagged, NoSquatter,
          IncarnationShape, Alive
  <1>16. CASE ExitGateStop(s)
    BY <1>h, <1>16 DEF ExitGateStop, EnterLoop, RunOnceReturns, Classified,
          procVars, taskVars, TypeOK, RequestsAreFlagged, NoSquatter,
          IncarnationShape, Alive
  <1>17. CASE ExitBounced(s)
    BY <1>h, <1>17 DEF ExitBounced, EnterLoop, RunOnceReturns, Classified,
          procVars, taskVars, TypeOK, RequestsAreFlagged, NoSquatter,
          IncarnationShape, Alive
  <1>18. CASE ExitFatal(s)
    BY <1>h, <1>18 DEF ExitFatal, Classified, procVars, taskVars, Fail,
          IsCrash, RunOnceReturns, TypeOK, RequestsAreFlagged, NoSquatter,
          IncarnationShape, Alive
  <1>19. CASE ExitCharged(s)
    BY <1>h, <1>19 DEF ExitCharged, Classified, procVars, taskVars, IsCrash,
          RunOnceReturns, Charge, BacksOff, RunsOut, Fail, TypeOK,
          RequestsAreFlagged, NoSquatter, IncarnationShape, Alive
  <1>20. CASE ExitAsksGates(s)
    BY <1>h, <1>20 DEF ExitAsksGates, Classified, procVars, taskVars,
          IsCrash, RunOnceReturns, TypeOK, RequestsAreFlagged, NoSquatter,
          IncarnationShape, Alive
  <1>21. CASE RegateFails(s)
    BY <1>h, <1>21 DEF RegateFails, EnterLoop, procVars, taskVars, envVars,
          TypeOK, RequestsAreFlagged, NoSquatter, IncarnationShape, Alive
  <1>22. CASE RegatePasses(s)
    BY <1>h, <1>22 DEF RegatePasses, Charge, BacksOff, RunsOut, Fail,
          procVars, flagVars, taskVars, TypeOK, RequestsAreFlagged,
          NoSquatter, IncarnationShape, Alive
  <1>23. CASE BackoffEnds(s)
    BY <1>h, <1>23 DEF BackoffEnds, EnterLoop, procVars, taskVars, envVars,
          TypeOK, RequestsAreFlagged, NoSquatter, IncarnationShape, Alive
  <1>24. CASE StopEnds(s)
    BY <1>h, <1>24 DEF StopEnds, Sweep, Reachable, Alive, Ask, runVars,
          envVars, TypeOK, RequestsAreFlagged, NoSquatter, IncarnationShape
  <1>25. CASE RestartEscalates(s)
    BY <1>h, <1>25 DEF RestartEscalates, Sweep, Reachable, Alive, Ask,
          runVars, envVars, TypeOK, RequestsAreFlagged, NoSquatter,
          IncarnationShape
  <1>26. CASE RestartNoticesExit(s)
    BY <1>h, <1>26 DEF RestartNoticesExit, runVars, procVars, flagVars,
          envVars, TypeOK, RequestsAreFlagged, NoSquatter, IncarnationShape,
          Alive
  <1>27. CASE GateWatchEnds(s)
    BY <1>h, <1>27 DEF GateWatchEnds, Sweep, Reachable, Alive, Ask, runVars,
          envVars, TypeOK, RequestsAreFlagged, NoSquatter, IncarnationShape
  <1>28. CASE PathWatchEnds(s)
    BY <1>h, <1>28 DEF PathWatchEnds, Sweep, Reachable, Alive, Ask, runVars,
          envVars, TypeOK, RequestsAreFlagged, NoSquatter, IncarnationShape
  <1>29. CASE GateCloses(s)
    BY <1>h, <1>29 DEF GateCloses, Sweep, Reachable, Alive, Ask, runVars,
          envVars, TypeOK, RequestsAreFlagged, NoSquatter, IncarnationShape
  <1>30. CASE PathChanges(s)
    BY <1>h, <1>30 DEF PathChanges, Sweep, Reachable, Alive, Ask, runVars,
          envVars, TypeOK, RequestsAreFlagged, NoSquatter, IncarnationShape
  <1>31. CASE ProcessExit(s)
    BY <1>h, <1>31 DEF ProcessExit, Alive, runVars, flagVars, envVars,
          TypeOK, RequestsAreFlagged, NoSquatter, IncarnationShape
  <1>32. CASE GateMoves(s)
    BY <1>h, <1>32 DEF GateMoves, runVars, procVars, flagVars, taskVars,
          TypeOK, RequestsAreFlagged, NoSquatter, IncarnationShape, Alive
  <1>33. CASE Stop(s)
    BY <1>h, <1>33 DEF Stop, Sweep, Reachable, Alive, Ask, envVars, TypeOK,
          RequestsAreFlagged, NoSquatter, IncarnationShape
  <1>34. CASE Restart(s)
    BY <1>h, <1>34 DEF Restart, Sweep, Reachable, Alive, Ask, runVars,
          envVars, TypeOK, RequestsAreFlagged, NoSquatter, IncarnationShape
  <1>35. CASE Cancel(s)
    BY <1>h, <1>35 DEF Cancel, flagVars, envVars, TypeOK, RequestsAreFlagged,
          NoSquatter, IncarnationShape, Alive
  <1> QED
    BY <1>1, <1>2, <1>3, <1>4, <1>5, <1>6, <1>7, <1>8, <1>9, <1>10, <1>11,
       <1>12, <1>13, <1>14, <1>15, <1>16, <1>17, <1>18, <1>19, <1>20, <1>21,
       <1>22, <1>23, <1>24, <1>25, <1>26, <1>27, <1>28, <1>29, <1>30, <1>31,
       <1>32, <1>33, <1>34, <1>35
    DEF ServiceStep, LoopStep, TaskStep

\* The initial states satisfy the invariant.
LEMMA InitInv == Init => ServiceInv
PROOF
  <1>. SUFFICES ASSUME Init PROVE ServiceInv
    OBVIOUS
  <1>1. TypeOK
    <2>1. MaxRestarts \in Nat
      BY ServiceAssumption DEF ServiceAssumption
    <2>. QED BY <2>1, LenType DEF Init, TypeOK, PCs, States, Codes
  <1>2. NoSquatter /\ FailedIsDown /\ IncarnationShape /\ RequestsAreFlagged
    BY DEF Init, NoSquatter, FailedIsDown, IncarnationShape, RequestsAreFlagged, Alive
  <1>3. BudgetIsEnforced
    BY ServiceAssumption DEF ServiceAssumption, Init, BudgetIsEnforced
  <1>4. DependencyProgress
    BY DEF Init, DependencyProgress
  <1>. QED BY <1>1, <1>2, <1>3, <1>4 DEF ServiceInv

\* Every step of every service preserves it, and so does a stuttering step.
LEMMA StepInv == ServiceInv /\ [Next]_vars => ServiceInv'
PROOF
  <1>. SUFFICES ASSUME ServiceInv, [Next]_vars PROVE ServiceInv'
    OBVIOUS
  <1>1. ASSUME NEW s \in Services, ServiceStep(s) PROVE ServiceInv'
    BY <1>1, TypeOKStep, NoSquatterStep, FailedIsDownStep, BudgetIsEnforcedStep,
       IncarnationShapeStep, DependencyProgressStep, RequestsAreFlaggedStep
    DEF ServiceInv
  <1>2. CASE UNCHANGED vars
    <2>. USE <1>2 DEF vars, runVars, procVars, flagVars, taskVars, envVars
    <2>1. TypeOK'
      BY DEF ServiceInv, TypeOK
    <2>2. NoSquatter' /\ FailedIsDown' /\ BudgetIsEnforced'
      BY DEF ServiceInv, NoSquatter, FailedIsDown, BudgetIsEnforced, Alive
    <2>3. IncarnationShape' /\ DependencyProgress'
      BY DEF ServiceInv, IncarnationShape, DependencyProgress
    <2>4. RequestsAreFlagged'
      BY DEF ServiceInv, RequestsAreFlagged, Alive
    <2>. QED BY <2>1, <2>2, <2>3, <2>4 DEF ServiceInv
  <1>. QED BY <1>1, <1>2 DEF Next

\* ServiceInv holds in every reachable state, in particular TypeOK.
THEOREM Invariance == Spec => []ServiceInv
PROOF
  <1>. QED BY InitInv, StepInv, PTL DEF Spec

\* service.py's promise that a lingering process never squats on what its
\* successor needs.
THEOREM Squatters == Spec => []NoSquatter
PROOF
  <1>1. ServiceInv => NoSquatter
    BY DEF ServiceInv
  <1>. QED BY <1>1, Invariance, PTL

\* A failed service is down and out of the restart loop.
THEOREM Failures == Spec => []FailedIsDown
PROOF
  <1>1. ServiceInv => FailedIsDown
    BY DEF ServiceInv
  <1>. QED BY <1>1, Invariance, PTL

\* The budget is never overdrawn: one more charged exit than max_restarts and
\* the service has failed.
THEOREM Budget == Spec => []BudgetIsEnforced
PROOF
  <1>1. ServiceInv => BudgetIsEnforced
    BY DEF ServiceInv
  <1>. QED BY <1>1, Invariance, PTL

\* No service has a process before each of its dependencies was ready once.
THEOREM Dependencies == Spec => []DependenciesWereReady
PROOF
  <1>1. ServiceInv => DependenciesWereReady
    BY DEF ServiceInv, DependencyProgress, DependenciesWereReady
  <1>. QED BY <1>1, Invariance, PTL

\* An exit that the orchestrator asked for never spends budget and never fails
\* the instance: the request left a flag, the run loop reads the flags before
\* it classifies, and no late task can signal the next incarnation.
THEOREM AskedExits == Spec => AskedExitsAreFree
PROOF
  <1>. DEFINE Free == \A s \in Services :
         state'[s] \in {"backoff", "failed"} /\ state'[s] # state[s] => s \notin asked
  <1>1. ASSUME ServiceInv, NEW t \in Services, ServiceStep(t) PROVE Free
    <2>h. TypeOK /\ RequestsAreFlagged
      BY <1>1 DEF ServiceInv
    <2>1. CASE ExitFatal(t)
      BY <2>h, <2>1
      DEF ExitFatal, IsCrash, RunOnceReturns, Fail, TypeOK, RequestsAreFlagged
    <2>2. CASE ExitCharged(t)
      <3>1. pc[t] \in {"drain", "render"} /\ t \notin asked
        BY <2>h, <2>2
        DEF ExitCharged, IsCrash, RunOnceReturns, RequestsAreFlagged
      <3>2. \A s \in Services \ {t} : state'[s] = state[s]
        BY <1>1, <2>2, <3>1, ChargeStep DEF ExitCharged
      <3>. QED BY <3>1, <3>2
    <2>3. CASE RegatePasses(t)
      <3>1. t \notin asked
        BY <2>h, <2>3 DEF RegatePasses, RequestsAreFlagged
      <3>2. \A s \in Services \ {t} : state'[s] = state[s]
        BY <1>1, <2>3, ChargeStep DEF RegatePasses
      <3>. QED BY <3>1, <3>2
    <2>4. CASE UNCHANGED state
      BY <2>4
    <2>5. CASE \E x \in States \ {"backoff", "failed"} : state' = [state EXCEPT ![t] = x]
      BY <2>h, <2>5 DEF TypeOK
    <2>6. CASE EnterLoop(t)
      <3>1. state'[t] \notin {"backoff", "failed"} \/ state'[t] = state[t]
        BY <2>h, <2>6 DEF EnterLoop, TypeOK
      <3>2. \A s \in Services \ {t} : state'[s] = state[s]
        BY <2>h, <2>6 DEF EnterLoop, TypeOK
      <3>. QED BY <3>1, <3>2
    <2>7. \/ ExitFatal(t) \/ ExitCharged(t) \/ RegatePasses(t)
          \/ EnterLoop(t)
          \/ UNCHANGED state
          \/ \E x \in States \ {"backoff", "failed"} : state' = [state EXCEPT ![t] = x]
      <3>1. CASE DepsStopped(t) \/ GatePasses(t)
        BY <3>1 DEF DepsStopped, GatePasses, States
      <3>2. CASE GateFails(t)
        BY <3>2 DEF GateFails, States
      <3>3. CASE Launched(t) \/ ProbePasses(t)
        BY <3>3 DEF Launched, ProbePasses, BecomeReady, States
      <3>4. CASE Stop(t)
        BY <3>4 DEF Stop, States
      <3>5. CASE \/ DepsDone(t) \/ Unparked(t) \/ RegateFails(t) \/ BackoffEnds(t)
                 \/ ExitStopping(t) \/ ExitGateStop(t) \/ ExitBounced(t)
        BY <3>5 DEF DepsDone, Unparked, RegateFails, BackoffEnds, ExitStopping,
                    ExitGateStop, ExitBounced
      <3>6. CASE \/ AwaitDep(t) \/ ParkedWakes(t) \/ StillParked(t) \/ Fork(t)
                 \/ ProbeAbandoned(t) \/ ProbeTimesOut(t) \/ Reap(t)
                 \/ ExitAsksGates(t) \/ Cancel(t)
        BY <3>6 DEF AwaitDep, ParkedWakes, StillParked, Fork, ProbeAbandoned,
                    ProbeTimesOut, Reap, ExitAsksGates, Cancel
      <3>7. CASE \/ TaskStep(t) \/ GateCloses(t) \/ PathChanges(t)
                 \/ ProcessExit(t) \/ GateMoves(t) \/ Restart(t)
        BY <3>7 DEF TaskStep, StopEnds, RestartEscalates, RestartNoticesExit,
                    GateWatchEnds, PathWatchEnds, GateCloses, PathChanges,
                    ProcessExit, GateMoves, Restart, runVars
      <3>. QED BY <1>1, <3>1, <3>2, <3>3, <3>4, <3>5, <3>6, <3>7
        DEF ServiceStep, LoopStep
    <2>. QED BY <2>1, <2>2, <2>3, <2>4, <2>5, <2>6, <2>7
  <1>2. ServiceInv /\ [Next]_vars => [Free]_vars
    BY <1>1 DEF Next
  <1>. QED BY <1>2, Invariance, PTL DEF Spec, AskedExitsAreFree
==============================================================================
