---------------------------- MODULE LaunchProofs ----------------------------
(***************************************************************************)
(* Proofs about what happens before and around the launch of a service:    *)
(* the gates (module Gates), the configuration (Config), the ports         *)
(* (Ports), the cached binaries (BinCache), the watched paths (Watch) and  *)
(* the calls of functions (ExecFunctions), for every value of the          *)
(* constants.                                                              *)
(*                                                                         *)
(* Each part has an inductive invariant, a lemma for each kind of step     *)
(* that keeps it, and the theorems that state what MCLaunch and MCBinCache *)
(* check on small instances.                                               *)
(***************************************************************************)
EXTENDS Gates, Config, Ports, BinCache, Watch, ExecFunctions, FiniteSetTheorems, TLAPS

-----------------------------------------------------------------------------
\* Gates: the lock, the cache of a result, and the failures that close a
\* gate.

\* The types of the gate's state: the probed resource, the cached result and
\* its age, the queue for the lock, and what the watchers count.
GateTypeOK ==
  /\ health \in {"up", "down", "flaky"} /\ steady \in 0 .. Recheck + Timeout
  /\ cache \in {"none", "pass", "fail"} /\ age \in 0 .. Recheck /\ running \in BOOLEAN
  /\ ran \in 0 .. Timeout /\ may \subseteq {"pass", "fail"}
  /\ queue \in Seq(Callers)
  /\ counted \subseteq Watchers /\ closed \subseteq Watchers
  /\ streaks \in [Watchers -> Nat] /\ failRuns \in [Watchers -> Nat]

\* The queue for the gate's lock in GateSet: nobody is in it twice, nobody
\* whose gate has closed is in it, and a check that runs was begun for the
\* caller at its head.
LockQueue ==
  /\ \A i, j \in 1 .. Len(queue) : queue[i] = queue[j] => i = j
  /\ \A i \in 1 .. Len(queue) : queue[i] \notin closed
  /\ running => queue # <<>> /\ queue[1] \in begunFor

\* A run that began after the last change of health can only end with a result
\* that shows that health, and a result whose run did so, which its age and the
\* longest run tell, shows it.
CacheIsCurrent ==
  /\ running /\ ran < steady => may \subseteq Results(health)
  /\ age + Timeout < steady => cache = "none" \/ cache \in Results(health)

\* What a watcher has counted against the runs that failed since its last
\* pass: never more than them, one less than them while the cached failure is
\* still uncounted, and nothing after a cached pass that it has counted.
StreakSlack ==
  \A w \in Watchers :
    /\ streaks[w] <= failRuns[w] /\ streaks[w] <= CloseAfter
    /\ w \notin closed => streaks[w] < CloseAfter
    /\ w \notin closed /\ w \notin counted /\ cache = "fail" => streaks[w] + 1 <= failRuns[w]
    /\ w \in counted /\ cache = "pass" => streaks[w] = 0

\* The inductive invariant of a gate.
GateInv == GateTypeOK /\ LockQueue /\ CacheIsCurrent /\ StreakSlack

\* A queue that one caller has left, from anywhere in it, holds the others in
\* their order.
LEMMA RemovedFromQueue ==
  ASSUME queue \in Seq(Callers), NEW i \in 1 .. Len(queue)
  PROVE  /\ Without(queue, i) \in Seq(Callers)
         /\ Len(Without(queue, i)) = Len(queue) - 1 /\ Len(queue) \in Nat \ {0}
         /\ \A j \in 1 .. Len(queue) - 1 :
              /\ (IF j < i THEN j ELSE j + 1) \in 1 .. Len(queue)
              /\ Without(queue, i)[j] = queue[IF j < i THEN j ELSE j + 1]
PROOF
  <1>1. Len(queue) \in Nat \ {0} /\ \A k \in 1 .. Len(queue) : queue[k] \in Callers
    OBVIOUS
  <1>2. Without(queue, i) \in [1 .. Len(queue) - 1 -> Callers]
    BY <1>1 DEF Without
  <1>3. Len(queue) - 1 \in Nat
    BY <1>1
  <1>4. Without(queue, i) \in Seq(Callers) /\ Len(Without(queue, i)) = Len(queue) - 1
    BY <1>2, <1>3
  <1>. QED BY <1>1, <1>4 DEF Without

\* Every step of GateSet, its callers and the resource keeps the types.
LEMMA GateTypeStep ==
  ASSUME GateInv, [GateNext]_gateVars
  PROVE  GateTypeOK'
PROOF
  <1>. USE GatesAssumption DEF GateInv, GateTypeOK, GatesAssumption, Callers
  <1>1. CASE Tick
    BY <1>1 DEF Tick, UpTo, streakVars, history
  <1>2. CASE HealthChanges
    BY <1>2 DEF HealthChanges, Results, streakVars, history
  <1>3. ASSUME NEW c \in Callers, CacheServes(c) PROVE GateTypeOK'
    <2>1. queue' \in Seq(Callers)
      BY <1>3 DEF CacheServes, Answer
    <2>2. failRuns' \in [Watchers -> Nat]
      BY <1>3 DEF CacheServes, ForgetFails
    <2>3. counted' \subseteq Watchers /\ closed' \subseteq Watchers /\ streaks' \in [Watchers -> Nat]
      BY <1>3 DEF CacheServes, Count, streakVars
    <2>. QED BY <1>3, <2>1, <2>2, <2>3 DEF CacheServes, resultVars
  <1>4. ASSUME NEW c \in Callers, CheckBegins(c) PROVE GateTypeOK'
    BY <1>4 DEF CheckBegins, Results, streakVars
  <1>5. ASSUME NEW c \in Callers, CheckEnds(c) PROVE GateTypeOK'
    <2>1. queue' \in Seq(Callers)
      BY <1>5 DEF CheckEnds, Answer
    <2>2. failRuns' \in [Watchers -> Nat]
      BY <1>5 DEF CheckEnds, ForgetFails, UpTo
    <2>3. counted' \subseteq Watchers /\ closed' \subseteq Watchers /\ streaks' \in [Watchers -> Nat]
      <3>1. PICK r : IF c \in Watchers
                       THEN Count(c, r) /\ counted' = {c}
                       ELSE counted' = {} /\ UNCHANGED <<streaks, closed>>
        BY <1>5 DEF CheckEnds
      <3>. QED BY <3>1 DEF Count
    <2>4. /\ cache' \in {"pass", "fail"} /\ age' = 0 /\ running' = FALSE
          /\ ran' = 0 /\ may' = {} /\ UNCHANGED <<health, steady>>
      BY <1>5 DEF CheckEnds
    <2>5. running' \in BOOLEAN
      BY <2>4, Zenon
    <2>. QED BY <2>1, <2>2, <2>3, <2>4, <2>5
  <1>6. ASSUME NEW c \in Callers, NEW r \in BOOLEAN, Call(c, r) PROVE GateTypeOK'
    BY <1>6 DEF Call, resultVars, streakVars
  <1>7. ASSUME NEW w \in Watchers, WatcherStarts(w) PROVE GateTypeOK'
    BY <1>7 DEF WatcherStarts, Afresh, resultVars
  <1>9. ASSUME NEW w \in Watchers, WatcherCancelled(w) PROVE GateTypeOK'
    <2>1. queue' \in Seq(Callers)
      <3>1. CASE UNCHANGED queue
        BY <3>1
      <3>2. ASSUME NEW i \in 1 .. Len(queue), queue' = Without(queue, i) PROVE queue' \in Seq(Callers)
        BY <3>2, RemovedFromQueue
      <3>. QED BY <1>9, <3>1, <3>2 DEF WatcherCancelled
    <2>2. failRuns' \in [Watchers -> Nat] /\ streaks' \in [Watchers -> Nat] /\ counted' \subseteq Watchers
      BY <1>9 DEF WatcherCancelled, Afresh
    <2>3. /\ running' \in BOOLEAN
          /\ UNCHANGED <<health, steady, cache, age, closed>>
      BY <1>9, Zenon DEF WatcherCancelled
    <2>4. ran' \in 0 .. Timeout /\ may' \subseteq {"pass", "fail"}
      <3>1. (ran' = 0 \/ ran' = ran) /\ (may' = {} \/ may' = may)
        BY <1>9, Zenon DEF WatcherCancelled
      <3>2. ran' \in 0 .. Timeout
        BY <3>1
      <3>3. may' \subseteq {"pass", "fail"}
        BY <3>1
      <3>. QED BY <3>2, <3>3
    <2>. QED BY <2>1, <2>2, <2>3, <2>4
  <1>8. CASE UNCHANGED gateVars
    BY <1>8 DEF gateVars, resultVars, streakVars, history
  <1>. QED BY <1>1, <1>2, <1>3, <1>4, <1>5, <1>6, <1>7, <1>8, <1>9 DEF GateNext, Ask, Poll

\* Callers join the queue once and at its end, and leave it from its head
\* with an answer.
LEMMA LockQueueStep ==
  ASSUME GateInv, [GateNext]_gateVars
  PROVE  LockQueue'
PROOF
  <1>. USE GatesAssumption DEF GateInv, GateTypeOK, GatesAssumption, Callers, LockQueue
  <1>1. CASE Tick
    BY <1>1 DEF Tick, UpTo, streakVars, history
  <1>2. CASE HealthChanges
    BY <1>2 DEF HealthChanges, streakVars, history
  <1>a. ASSUME NEW c \in Callers, queue # <<>>, c = Head(queue), Answer(c),
               closed' \in {closed, closed \cup {c}}, running' = FALSE
        PROVE  LockQueue'
    <2>1. /\ Len(queue) \in Nat \ {0} /\ queue[1] = c
          /\ Len(queue') = Len(queue) - 1
          /\ \A i \in 1 .. Len(queue') : queue'[i] = queue[i + 1]
      BY <1>a DEF Answer
    <2>2. \A i \in 1 .. Len(queue') : i + 1 \in 1 .. Len(queue) /\ queue'[i] # c
      BY <2>1
    <2>3. \A i, j \in 1 .. Len(queue') : queue'[i] = queue'[j] => i = j
      BY <2>1, <2>2
    <2>4. \A i \in 1 .. Len(queue') : queue'[i] \notin closed'
      <3>1. \A x : x \in closed' => x \in closed \/ x = c
        BY <1>a
      <3>. QED BY <3>1, <2>1, <2>2
    <2>. QED BY <1>a, <2>3, <2>4
  <1>3. ASSUME NEW c \in Callers, CacheServes(c) PROVE LockQueue'
    BY <1>3, <1>a DEF CacheServes, Count, streakVars, resultVars
  <1>4. ASSUME NEW c \in Callers, CheckBegins(c) PROVE LockQueue'
    BY <1>4 DEF CheckBegins, streakVars, Queued
  <1>5. ASSUME NEW c \in Callers, CheckEnds(c) PROVE LockQueue'
    BY <1>5, <1>a DEF CheckEnds, Count
  <1>6. ASSUME NEW c \in Callers, NEW r \in BOOLEAN, Call(c, r) PROVE LockQueue'
    <2>1. /\ Len(queue') = Len(queue) + 1 /\ Len(queue) \in Nat
          /\ \A i \in 1 .. Len(queue) : queue'[i] = queue[i] /\ queue[i] # c
          /\ queue'[Len(queue) + 1] = c
      BY <1>6 DEF Call, Queued
    <2>2. closed' = closed /\ running' = running /\ begunFor' = begunFor \ {c} /\ c \notin closed
      BY <1>6 DEF Call, resultVars, streakVars
    <2>3. running => queue' # <<>> /\ queue'[1] \in begunFor'
      BY <2>1, <2>2
    <2>4. \A i, j \in 1 .. Len(queue') : queue'[i] = queue'[j] => i = j
      BY <2>1
    <2>5. \A i \in 1 .. Len(queue') : queue'[i] \notin closed'
      BY <2>1, <2>2
    <2>. QED BY <2>2, <2>3, <2>4, <2>5
  <1>7. ASSUME NEW w \in Watchers, WatcherStarts(w) PROVE LockQueue'
    BY <1>7 DEF WatcherStarts, resultVars
  <1>9. ASSUME NEW w \in Watchers, WatcherCancelled(w) PROVE LockQueue'
    <2>0. closed' = closed
      BY <1>9 DEF WatcherCancelled
    <2>1. CASE UNCHANGED <<queue, running, begunFor>>
      BY <2>0, <2>1
    <2>2. ASSUME NEW i \in 1 .. Len(queue), queue' = Without(queue, i),
                 running' => running /\ i # 1 /\ begunFor' = begunFor
          PROVE  LockQueue'
      <3>1. /\ Len(queue') = Len(queue) - 1 /\ Len(queue) \in Nat \ {0}
            /\ \A j \in 1 .. Len(queue') :
                 /\ (IF j < i THEN j ELSE j + 1) \in 1 .. Len(queue)
                 /\ queue'[j] = queue[IF j < i THEN j ELSE j + 1]
            /\ queue' \in Seq(Callers)
        BY <2>2, RemovedFromQueue
      <3>2. \A j, m \in 1 .. Len(queue') : queue'[j] = queue'[m] => j = m
        <4>. SUFFICES ASSUME NEW j \in 1 .. Len(queue'), NEW m \in 1 .. Len(queue'), queue'[j] = queue'[m]
             PROVE  j = m
          OBVIOUS
        <4>1. (IF j < i THEN j ELSE j + 1) = (IF m < i THEN m ELSE m + 1)
          BY <3>1
        <4>. QED BY <4>1, <3>1
      <3>3. \A j \in 1 .. Len(queue') : queue'[j] \notin closed'
        BY <3>1, <2>0
      <3>4. running' => queue' # <<>> /\ queue'[1] \in begunFor'
        BY <3>1, <2>2
      <3>. QED BY <3>2, <3>3, <3>4
    <2>3. \/ UNCHANGED <<queue, running, begunFor>>
          \/ \E i \in 1 .. Len(queue) :
               queue' = Without(queue, i) /\ (running' => running /\ i # 1 /\ begunFor' = begunFor)
      BY <1>9, Zenon DEF WatcherCancelled
    <2>. QED BY <2>1, <2>2, <2>3
  <1>8. CASE UNCHANGED gateVars
    BY <1>8 DEF gateVars, resultVars, streakVars, history
  <1>n. \/ Tick \/ HealthChanges \/ UNCHANGED gateVars
        \/ \E c \in Callers : CacheServes(c) \/ CheckBegins(c) \/ CheckEnds(c)
        \/ \E c \in Callers, r \in BOOLEAN : Call(c, r)
        \/ \E w \in Watchers : WatcherStarts(w) \/ WatcherCancelled(w)
    BY DEF GateNext, Ask, Poll
  <1>. QED BY <1>1, <1>2, <1>3, <1>4, <1>5, <1>6, <1>7, <1>8, <1>9, <1>n

\* A check that ends stores what it saw, and time makes the result at least
\* as old as the health it may no longer show.
LEMMA CacheIsCurrentStep ==
  ASSUME GateInv, [GateNext]_gateVars
  PROVE  CacheIsCurrent'
PROOF
  <1>. USE GatesAssumption DEF GateInv, GateTypeOK, GatesAssumption, CacheIsCurrent
  <1>1. CASE Tick
    BY <1>1 DEF Tick, UpTo
  <1>2. CASE HealthChanges
    BY <1>2 DEF HealthChanges
  <1>3. ASSUME NEW c \in Callers, CacheServes(c) PROVE CacheIsCurrent'
    BY <1>3 DEF CacheServes, resultVars
  <1>4. ASSUME NEW c \in Callers, CheckBegins(c) PROVE CacheIsCurrent'
    BY <1>4 DEF CheckBegins
  <1>5. ASSUME NEW c \in Callers, CheckEnds(c) PROVE CacheIsCurrent'
    <2>1. PICK r \in may : running /\ cache' = r /\ running' = FALSE /\ age' = 0 /\ UNCHANGED <<health, steady>>
      BY <1>5 DEF CheckEnds
    <2>. QED BY <2>1
  <1>6. ASSUME NEW c \in Callers, NEW r \in BOOLEAN, Call(c, r) PROVE CacheIsCurrent'
    BY <1>6 DEF Call, resultVars
  <1>7. ASSUME NEW w \in Watchers, WatcherStarts(w) PROVE CacheIsCurrent'
    BY <1>7 DEF WatcherStarts, resultVars
  <1>9. ASSUME NEW w \in Watchers, WatcherCancelled(w) PROVE CacheIsCurrent'
    BY <1>9 DEF WatcherCancelled
  <1>8. CASE UNCHANGED gateVars
    BY <1>8 DEF gateVars, resultVars
  <1>. QED BY <1>1, <1>2, <1>3, <1>4, <1>5, <1>6, <1>7, <1>8, <1>9 DEF GateNext, Ask, Poll, Callers

\* A watcher that hears a failure adds one to its streak only if it has not
\* counted that run before: poll's run stamp tells a cached result from a new
\* run.
LEMMA StreakSlackStep ==
  ASSUME GateInv, [GateNext]_gateVars
  PROVE  StreakSlack'
PROOF
  <1>. USE GatesAssumption DEF GateInv, GateTypeOK, GatesAssumption, StreakSlack
  <1>1. CASE Tick
    BY <1>1 DEF Tick, streakVars, history
  <1>2. CASE HealthChanges
    BY <1>2 DEF HealthChanges, streakVars, history
  <1>a. ASSUME NEW c, queue # <<>>, c = Head(queue)
        PROVE  c \notin closed
    BY <1>a DEF LockQueue
  <1>3. ASSUME NEW c \in Callers, CacheServes(c) PROVE StreakSlack'
    <2>. SUFFICES ASSUME NEW w \in Watchers
         PROVE  /\ streaks'[w] <= failRuns'[w] /\ streaks'[w] <= CloseAfter
                /\ w \notin closed' => streaks'[w] < CloseAfter
                /\ w \notin closed' /\ w \notin counted' /\ cache' = "fail" => streaks'[w] + 1 <= failRuns'[w]
                /\ w \in counted' /\ cache' = "pass" => streaks'[w] = 0
      OBVIOUS
    <2>0. c \notin closed /\ cache' = cache
      BY <1>3, <1>a DEF CacheServes, resultVars
    <2>1. CASE w # c
      BY <1>3, <2>0, <2>1 DEF CacheServes, Count, ForgetFails, streakVars
    <2>2. CASE w = c /\ c \in counted
      BY <1>3, <2>0, <2>2 DEF CacheServes, Count, ForgetFails, streakVars
    <2>3. CASE w = c /\ c \notin counted
      BY <1>3, <2>0, <2>3 DEF CacheServes, Count, ForgetFails
    <2>. QED BY <2>1, <2>2, <2>3
  <1>4. ASSUME NEW c \in Callers, CheckBegins(c) PROVE StreakSlack'
    BY <1>4 DEF CheckBegins, streakVars
  <1>5. ASSUME NEW c \in Callers, CheckEnds(c) PROVE StreakSlack'
    <2>. SUFFICES ASSUME NEW w \in Watchers
         PROVE  /\ streaks'[w] <= failRuns'[w] /\ streaks'[w] <= CloseAfter
                /\ w \notin closed' => streaks'[w] < CloseAfter
                /\ w \notin closed' /\ w \notin counted' /\ cache' = "fail" => streaks'[w] + 1 <= failRuns'[w]
                /\ w \in counted' /\ cache' = "pass" => streaks'[w] = 0
      OBVIOUS
    <2>0. c \notin closed
      BY <1>5, <1>a DEF CheckEnds
    <2>r. PICK r \in {"pass", "fail"} :
            /\ cache' = r
            /\ IF c \in Watchers
                 THEN Count(c, r) /\ counted' = {c}
                 ELSE counted' = {} /\ UNCHANGED <<streaks, closed>>
            /\ failRuns' = IF r = "pass" THEN ForgetFails(failRuns, c, r)
                           ELSE [v \in Watchers |-> UpTo(failRuns[v] + 1, CloseAfter)]
      BY <1>5 DEF CheckEnds
    <2>1. CASE w # c
      <3>1. /\ streaks'[w] = streaks[w] /\ w \notin counted' /\ (w \in closed' <=> w \in closed)
        BY <2>r, <2>1 DEF Count
      <3>2. r = "pass" => failRuns'[w] = failRuns[w]
        BY <2>r, <2>1 DEF ForgetFails
      <3>3. r = "fail" => failRuns'[w] = UpTo(failRuns[w] + 1, CloseAfter)
        BY <2>r
      <3>. QED BY <2>r, <3>1, <3>2, <3>3 DEF UpTo
    <2>2. CASE w = c
      BY <2>r, <2>0, <2>2 DEF Count, ForgetFails, UpTo
    <2>. QED BY <2>1, <2>2
  <1>6. ASSUME NEW c \in Callers, NEW r \in BOOLEAN, Call(c, r) PROVE StreakSlack'
    BY <1>6 DEF Call, resultVars, streakVars
  <1>7. ASSUME NEW w \in Watchers, WatcherStarts(w) PROVE StreakSlack'
    BY <1>7 DEF WatcherStarts, Afresh, resultVars
  <1>9. ASSUME NEW w \in Watchers, WatcherCancelled(w) PROVE StreakSlack'
    BY <1>9 DEF WatcherCancelled, Afresh
  <1>8. CASE UNCHANGED gateVars
    BY <1>8 DEF gateVars, resultVars, streakVars, history
  <1>. QED BY <1>1, <1>2, <1>3, <1>4, <1>5, <1>6, <1>7, <1>8, <1>9 DEF GateNext, Ask, Poll, Callers

\* The invariant holds of a gate for every set of callers, every recheck
\* interval and every number of failures that closes it.
THEOREM GatesInvariance == GateSpec => []GateInv
PROOF
  <1>1. GateInit => GateInv
    <2>. SUFFICES ASSUME GateInit PROVE GateInv OBVIOUS
    <2>0. running \in BOOLEAN
      BY Zenon DEF GateInit
    <2>1. GateTypeOK
      BY <2>0, GatesAssumption DEF GateInit, GateTypeOK, GatesAssumption
    <2>2. LockQueue
      BY DEF GateInit, LockQueue
    <2>3. CacheIsCurrent
      BY DEF GateInit, CacheIsCurrent
    <2>4. StreakSlack
      BY GatesAssumption DEF GateInit, StreakSlack, GatesAssumption
    <2>. QED BY <2>1, <2>2, <2>3, <2>4 DEF GateInv
  <1>2. GateInv /\ [GateNext]_gateVars => GateInv'
    BY GateTypeStep, LockQueueStep, CacheIsCurrentStep, StreakSlackStep DEF GateInv
  <1>. QED BY <1>1, <1>2, PTL DEF GateSpec

\* The streak that closes a gate counts runs of the check, not polls: a
\* failing result that the cache serves again, to the same watcher or
\* another, adds nothing to a watcher's streak.
THEOREM FlakesCountOnce == GateSpec => []StreakCountsRuns
PROOF
  <1>1. GateInv => StreakCountsRuns
    BY DEF GateInv, StreakSlack, StreakCountsRuns
  <1>. QED BY <1>1, GatesInvariance, PTL

\* A caller is answered by a check that ended or by a cached result younger
\* than the recheck interval; with refresh, only by a check begun for it.
LEMMA AnswerStep ==
  ASSUME GateInv, NEW c \in Callers, Answered(c)
  PROVE /\ steady = Recheck + Timeout /\ health = "up" => cache' = "pass"
        /\ steady = Recheck + Timeout /\ health = "down" => cache' = "fail"
        /\ c \in refresh => c \in begunFor
PROOF
  <1>. USE GatesAssumption DEF GatesAssumption
  <1>h. GateTypeOK /\ LockQueue /\ CacheIsCurrent
    BY DEF GateInv
  <1>1. CASE CacheServes(c)
    BY <1>1, <1>h DEF CacheServes, CacheIsCurrent, GateTypeOK, resultVars, Results
  <1>2. CASE CheckEnds(c)
    <2>1. PICK r \in may : running /\ cache' = r
      BY <1>2 DEF CheckEnds
    <2>2. ran < Recheck + Timeout
      BY <1>h DEF GateTypeOK
    <2>3. c \in begunFor
      BY <1>2, <1>h DEF CheckEnds, LockQueue
    <2>. QED BY <1>h, <2>1, <2>2, <2>3 DEF CacheIsCurrent, Results
  <1>. QED BY <1>1, <1>2 DEF Answered

\* Nobody is told a result that the resource has contradicted for a whole
\* recheck interval and the longest run before it, and who asks with refresh
\* gets a check that began after it asked.
THEOREM CurrentAnswers == GateSpec => AnswersAreCurrent
PROOF
  <1>1. GateInv /\ [GateNext]_gateVars =>
          [\A c \in Callers : Answered(c) =>
             /\ steady = Recheck + Timeout /\ health = "up" => cache' = "pass"
             /\ steady = Recheck + Timeout /\ health = "down" => cache' = "fail"
             /\ c \in refresh => c \in begunFor]_gateVars
    BY AnswerStep
  <1>. QED BY <1>1, GatesInvariance, PTL DEF GateSpec, AnswersAreCurrent

-----------------------------------------------------------------------------
\* Configuration: the merge along the extends chain.

\* merge_raw on one entry of one table: the child's value if it gives one;
\* else the base's, unless the child drops or overrides the table.
LEMMA MergeEntry ==
  ASSUME NEW base, NEW own, NEW k, NEW a, NEW x
  PROVE  Gives(MergeRaw(base, own), k, a, x)
           <=> Gives(own, k, a, x) \/ (Gives(base, k, a, x) /\ Silent(own, k, a))
PROOF
  <1>. DEFINE Replace(b, c) == [l \in DOMAIN b \union DOMAIN c |-> IF l \in DOMAIN c THEN c[l] ELSE b[l]]
              deleted == {l \in DOMAIN own : own[l] = False /\ IsTable(base, l)}
  <1>. SUFFICES ASSUME NEW m, m = MergeRaw(base, own)
       PROVE  Gives(m, k, a, x) <=> Gives(own, k, a, x) \/ (Gives(base, k, a, x) /\ Silent(own, k, a))
    OBVIOUS
  <1>1. /\ DOMAIN m = (DOMAIN base \union DOMAIN own) \ deleted
        /\ k \in DOMAIN m => m[k] = IF IsTable(base, k) /\ IsTable(own, k)
                                      THEN TableOf(Replace(base[k].v, own[k].v))
                                      ELSE IF k \in DOMAIN own THEN own[k] ELSE base[k]
    BY DEF MergeRaw
  <1>2. False.t = "false"
    BY DEF False
  <1>3. CASE k \notin DOMAIN own
    <2>1. (k \in DOMAIN m <=> k \in DOMAIN base) /\ (k \in DOMAIN m => m[k] = base[k])
      BY <1>1, <1>3 DEF IsTable
    <2>. QED BY <1>3, <2>1 DEF Gives, Silent, IsTable
  <1>4. CASE k \in DOMAIN own /\ ~IsTable(own, k)
    <2>1. ~IsTable(m, k)
      BY <1>1, <1>4 DEF IsTable
    <2>. QED BY <1>4, <2>1 DEF Gives, Silent
  <1>5. CASE IsTable(own, k) /\ ~IsTable(base, k)
    <2>1. k \in DOMAIN m /\ m[k] = own[k]
      BY <1>1, <1>5 DEF IsTable
    <2>. QED BY <1>5, <2>1 DEF Gives, Silent, IsTable
  <1>6. CASE IsTable(own, k) /\ IsTable(base, k)
    <2>0. own[k] # False
      BY <1>2, <1>6 DEF IsTable
    <2>1. k \in DOMAIN m /\ m[k] = TableOf(Replace(base[k].v, own[k].v))
      BY <1>1, <1>6, <2>0 DEF IsTable
    <2>2. /\ m[k].t = "table" /\ DOMAIN m[k].v = DOMAIN base[k].v \union DOMAIN own[k].v
          /\ a \in DOMAIN m[k].v => m[k].v[a] = IF a \in DOMAIN own[k].v THEN own[k].v[a] ELSE base[k].v[a]
      BY <2>1 DEF TableOf
    <2>. QED BY <1>6, <2>1, <2>2 DEF Gives, Silent, IsTable
  <1>. QED BY <1>3, <1>4, <1>5, <1>6 DEF IsTable

\* The chain of extends holds files that were read, and the merge goes
\* through it from the base towards the top.
ChainRead ==
  /\ file \in ConfigFiles /\ chain \in Seq(ConfigFiles \X RawFiles)
  /\ step = "merge" => mergedTo \in 1 .. Len(chain)

\* The inductive invariant of the merge.
MergedInv == ChainRead /\ MergedIsNearest

\* Reading a file extends the chain, and the merge starts from the last file
\* read.
LEMMA ReadStep ==
  ASSUME MergedInv, ReadFile
  PROVE  MergedInv'
PROOF
  <1>1. CASE Refused
    BY <1>1 DEF Refused, loadVars, MergedInv, ChainRead, MergedIsNearest
  <1>2. CASE ~Refused
    <2>1. PICK raw \in RawFiles : chain' = Append(chain, <<file, raw>>)
      BY <1>2 DEF ReadFile
    <2>2. \/ step' = "read"
          \/ /\ step' = "merge" /\ mergedTo' = Len(chain') /\ merged' = Last(chain')[2]
      BY <1>2 DEF ReadFile
    <2>3. file \in ConfigFiles /\ file' \in ConfigFiles
      BY <1>2 DEF ReadFile, MergedInv, ChainRead
    <2>4. /\ chain' \in Seq(ConfigFiles \X RawFiles) /\ Len(chain') \in Nat \ {0}
      BY <2>1, <2>3 DEF MergedInv, ChainRead, MergedIsNearest
    <2>5. CASE step' = "read"
      BY <2>3, <2>4, <2>5 DEF MergedInv, ChainRead, MergedIsNearest
    <2>6. CASE step' = "merge"
      <3>1. mergedTo' = Len(chain') /\ merged' = chain'[Len(chain')][2]
        BY <2>2, <2>6 DEF Last
      <3>2. mergedTo' \in 1 .. Len(chain') /\ mergedTo' .. Len(chain') = {Len(chain')}
        BY <2>4, <3>1
      <3>. QED BY <2>3, <2>4, <3>1, <3>2 DEF MergedInv, ChainRead, MergedIsNearest
    <2>. QED BY <2>2, <2>5, <2>6
  <1>. QED BY <1>1, <1>2

\* Merging one more child moves every entry's nearest file one position
\* nearer, by MergeEntry.
LEMMA MergeStep ==
  ASSUME MergedInv, MergeChild
  PROVE  MergedInv'
PROOF
  <1>1. /\ step = "merge" /\ step' = "merge" /\ UNCHANGED <<chain, file>>
        /\ mergedTo \in 2 .. Len(chain) /\ Len(chain) \in Nat /\ mergedTo' = mergedTo - 1
        /\ merged' = MergeRaw(merged, chain[mergedTo - 1][2])
    BY DEF MergeChild, MergedInv, ChainRead
  <1>2. ChainRead'
    BY <1>1 DEF MergedInv, ChainRead, MergedIsNearest
  <1>3. ASSUME NEW k \in TopKeys, NEW a \in SubKeys, NEW x \in Plain
        PROVE  Gives(merged', k, a, x) <=>
                 \E i \in mergedTo - 1 .. Len(chain) :
                   /\ Gives(chain[i][2], k, a, x)
                   /\ \A j \in mergedTo - 1 .. i - 1 : Silent(chain[j][2], k, a)
    <2>. DEFINE File(i) == chain[i][2]
                Near(n, i) == Gives(File(i), k, a, x) /\ \A j \in n .. i - 1 : Silent(File(j), k, a)
                own == File(mergedTo - 1)
    <2>1. Gives(merged', k, a, x) <=> Gives(own, k, a, x) \/ (Gives(merged, k, a, x) /\ Silent(own, k, a))
      BY <1>1, MergeEntry
    <2>2. Gives(merged, k, a, x) <=> \E i \in mergedTo .. Len(chain) : Near(mergedTo, i)
      BY <1>1 DEF MergedInv, MergedIsNearest
    <2>3. Near(mergedTo - 1, mergedTo - 1) <=> Gives(own, k, a, x)
      BY <1>1
    <2>4. ASSUME NEW i \in mergedTo .. Len(chain)
          PROVE  Near(mergedTo - 1, i) <=> Near(mergedTo, i) /\ Silent(own, k, a)
      <3>1. mergedTo - 1 .. i - 1 = {mergedTo - 1} \cup (mergedTo .. i - 1)
        BY <1>1, <2>4
      <3>. HIDE DEF File
      <3>. QED BY <3>1
    <2>5. mergedTo - 1 .. Len(chain) = {mergedTo - 1} \cup (mergedTo .. Len(chain))
      BY <1>1
    <2>. HIDE DEF Near, own
    <2>6. Gives(merged', k, a, x) <=> \E i \in mergedTo - 1 .. Len(chain) : Near(mergedTo - 1, i)
      BY <2>1, <2>2, <2>3, <2>4, <2>5
    <2>. QED BY <2>6 DEF Near
  <1>. QED BY <1>1, <1>2, <1>3 DEF MergedInv, MergedIsNearest

\* Every step of loading a configuration keeps the invariant.
LEMMA MergedNext ==
  ASSUME MergedInv, [ConfigNext]_cfgVars
  PROVE  MergedInv'
PROOF
  <1>1. CASE Parse
    <2>1. step' \in {"refused", "check"}
      BY <1>1 DEF Parse, Refused
    <2>2. file' \in {file, TopFile} /\ (chain' = chain \/ chain' = <<>>)
      BY <1>1 DEF Parse, Refused, loadVars
    <2>3. chain' \in Seq(ConfigFiles \X RawFiles)
      <3>1. chain \in Seq(ConfigFiles \X RawFiles)
        BY DEF MergedInv, ChainRead
      <3>2. <<>> \in Seq(ConfigFiles \X RawFiles) OBVIOUS
      <3>. QED BY <2>2, <3>1, <3>2
    <2>4. file' \in ConfigFiles
      BY <2>2, ConfigAssumption DEF ConfigAssumption, MergedInv, ChainRead
    <2>. QED BY <2>1, <2>3, <2>4 DEF MergedInv, ChainRead, MergedIsNearest
  <1>2. ASSUME UNCHANGED loadVars, step' # "merge" \/ step' = step PROVE MergedInv'
    BY <1>2 DEF loadVars, MergedInv, ChainRead, MergedIsNearest
  <1>3. CASE CheckResolvers
    BY <1>2, <1>3 DEF CheckResolvers, Refused
  <1>4. CASE CheckServices
    BY <1>2, <1>4 DEF CheckServices, Refused
  <1>5. CASE OrderRound
    BY <1>2, <1>5 DEF OrderRound
  <1>6. CASE OrderEnds
    BY <1>2, <1>6 DEF OrderEnds, Refused
  <1>7. CASE UNCHANGED cfgVars
    BY <1>2, <1>7 DEF cfgVars
  <1>. QED BY <1>1, <1>3, <1>4, <1>5, <1>6, <1>7, ReadStep, MergeStep DEF ConfigNext

\* After every merge step an entry of a table has the value of the nearest
\* file of the extends chain that gives one, provided no file nearer than
\* that drops or overrides its table: merge_raw folded over the chain means
\* exactly the documented override order.
THEOREM Merging == ConfigSpec => []MergedIsNearest
PROOF
  <1>1. ConfigInit => MergedInv
    BY ConfigAssumption DEF ConfigInit, MergedInv, ChainRead, MergedIsNearest, ConfigAssumption
  <1>2. MergedInv /\ [ConfigNext]_cfgVars => MergedInv'
    BY MergedNext
  <1>3. MergedInv => MergedIsNearest
    BY DEF MergedInv
  <1>. QED BY <1>1, <1>2, <1>3, PTL DEF ConfigSpec

-----------------------------------------------------------------------------
\* Configuration: the order in which services start.

\* A set of services each of which waits for another one of the set.
Circle(C) == C \subseteq DOMAIN after /\ C # {} /\ \A s \in C : after[s] \cap C # {}

\* Services, their dependencies and the order are known from _validate on;
\* dependencies are services.
OrderShape ==
  /\ step \in {"read", "merge", "check", "services"} => after = <<>> /\ startOrder = <<>> /\ remaining = <<>>
  /\ step = "refused" /\ after = <<>> => startOrder = <<>>
  /\ DOMAIN after \subseteq SvcNames
  /\ \A s \in DOMAIN after : after[s] \subseteq DOMAIN after
  /\ startOrder \in Seq(DOMAIN after)

\* start_order between two rounds: what remains is what is not placed, and it
\* waits for those of its dependencies that are not placed; an accepted
\* configuration has nothing left, one refused in start_order is stuck.
OrderProgress ==
  /\ DOMAIN remaining = DOMAIN after \ ToSet(startOrder)
  /\ \A s \in DOMAIN remaining : remaining[s] = after[s] \ ToSet(startOrder)
  /\ step = "accepted" => DOMAIN remaining = {}
  /\ step = "refused" /\ after # <<>> => DOMAIN remaining # {} /\ ReadyNow = {}

\* What is placed: nobody twice, everybody after its dependencies, and nobody
\* of a circle.
OrderSound ==
  /\ IsInjective(startOrder)
  /\ \A i \in DOMAIN startOrder : after[startOrder[i]] \subseteq {startOrder[j] : j \in 1 .. i - 1}
  /\ \A C : Circle(C) => C \cap ToSet(startOrder) = {}

\* The inductive invariant of start_order.
OrderInv == OrderShape /\ OrderProgress /\ OrderSound

\* sorted() of a batch of ready names is a sequence of exactly those names,
\* each once.
LEMMA SortedBatch ==
  ASSUME NEW S, S \subseteq SvcNames, NEW q \in Sorted(S)
  PROVE  /\ q \in Seq(S) /\ DOMAIN q = 1 .. Len(q) /\ ToSet(q) = S
         /\ \A i, j \in 1 .. Len(q) : q[i] = q[j] => i = j
PROOF
  <1>1. Cardinality(S) \in Nat
    BY ConfigAssumption, FS_Subset, FS_CardinalityType DEF ConfigAssumption
  <1>2. q \in [1 .. Cardinality(S) -> S] /\ ToSet(q) = S /\ \A i, j \in DOMAIN q : i < j => q[i] < q[j]
    BY DEF Sorted
  <1>3. q \in Seq(S) /\ Len(q) = Cardinality(S) /\ DOMAIN q = 1 .. Len(q)
    BY <1>1, <1>2
  <1>4. \A i \in 1 .. Len(q) : q[i] \in Nat
    BY <1>2, <1>3, ConfigAssumption DEF ConfigAssumption
  <1>5. \A i, j \in 1 .. Len(q) : q[i] = q[j] => i = j
    BY <1>1, <1>2, <1>3, <1>4
  <1>. QED BY <1>2, <1>3, <1>5

\* A round of start_order appends the ready services, sorted, and takes them
\* out of what the others wait for.
LEMMA RoundStep ==
  ASSUME OrderInv, OrderRound
  PROVE  OrderInv'
PROOF
  <1>h. OrderShape /\ OrderProgress /\ OrderSound
    BY DEF OrderInv
  <1>1. PICK q \in Sorted(ReadyNow) : startOrder' = startOrder \o q
    BY DEF OrderRound
  <1>2. /\ UNCHANGED <<step, after>> /\ step = "order"
        /\ remaining' = [s \in DOMAIN remaining \ ReadyNow |-> remaining[s] \ ReadyNow]
    BY DEF OrderRound, loadVars
  <1>3. /\ ReadyNow \subseteq DOMAIN after /\ ReadyNow \subseteq SvcNames
        /\ ReadyNow \cap ToSet(startOrder) = {}
        /\ \A s \in ReadyNow : after[s] \subseteq ToSet(startOrder)
    BY <1>h DEF ReadyNow, OrderProgress, OrderShape
  <1>4. /\ q \in Seq(ReadyNow) /\ ToSet(q) = ReadyNow /\ DOMAIN q = 1 .. Len(q) /\ Len(q) \in Nat
        /\ \A i, j \in 1 .. Len(q) : q[i] = q[j] => i = j
    BY <1>3, SortedBatch
  <1>5. startOrder \in Seq(DOMAIN after) /\ Len(startOrder) \in Nat /\ DOMAIN startOrder = 1 .. Len(startOrder)
    BY <1>h DEF OrderShape
  <1>6. /\ startOrder' \in Seq(DOMAIN after) /\ Len(startOrder') = Len(startOrder) + Len(q)
        /\ DOMAIN startOrder' = 1 .. Len(startOrder) + Len(q)
        /\ \A i \in 1 .. Len(startOrder) : startOrder'[i] = startOrder[i]
        /\ \A i \in 1 .. Len(q) : startOrder'[Len(startOrder) + i] = q[i]
    <2>1. q \in Seq(DOMAIN after)
      BY <1>3, <1>4
    <2>. QED BY <1>1, <1>5, <2>1, <1>4
  <1>7. ToSet(startOrder') = ToSet(startOrder) \cup ReadyNow
    <2>1. \A i \in 1 .. Len(startOrder) + Len(q) : i \in 1 .. Len(startOrder) \/ \E k \in 1 .. Len(q) : i = Len(startOrder) + k
      <3>. SUFFICES ASSUME NEW i \in 1 .. Len(startOrder) + Len(q), i \notin 1 .. Len(startOrder)
           PROVE  \E k \in 1 .. Len(q) : i = Len(startOrder) + k
        OBVIOUS
      <3>1. i - Len(startOrder) \in 1 .. Len(q) /\ i = Len(startOrder) + (i - Len(startOrder))
        BY <1>4, <1>5
      <3>. QED BY <3>1
    <2>2. \A k \in 1 .. Len(q) : Len(startOrder) + k \in 1 .. Len(startOrder) + Len(q)
      BY <1>4, <1>5
    <2>3. \A k \in 1 .. Len(startOrder) : k \in 1 .. Len(startOrder) + Len(q)
      BY <1>4, <1>5
    <2>4. ReadyNow = {q[k] : k \in 1 .. Len(q)}
      BY <1>4 DEF ToSet
    <2>5. ToSet(startOrder') = {startOrder'[k] : k \in 1 .. Len(startOrder) + Len(q)}
      BY <1>6 DEF ToSet
    <2>6. ToSet(startOrder) = {startOrder[k] : k \in 1 .. Len(startOrder)}
      BY <1>5 DEF ToSet
    <2>7. ASSUME NEW x \in ToSet(startOrder') PROVE x \in ToSet(startOrder) \cup ReadyNow
      <3>1. PICK i \in 1 .. Len(startOrder) + Len(q) : x = startOrder'[i]
        BY <2>5, <2>7
      <3>2. CASE i \in 1 .. Len(startOrder)
        BY <1>6, <2>6, <3>1, <3>2
      <3>3. CASE \E k \in 1 .. Len(q) : i = Len(startOrder) + k
        BY <1>6, <2>4, <3>1, <3>3
      <3>. QED BY <2>1, <3>2, <3>3
    <2>8. ASSUME NEW x \in ToSet(startOrder) PROVE x \in ToSet(startOrder')
      BY <1>6, <2>3, <2>5, <2>6, <2>8
    <2>9. ASSUME NEW x \in ReadyNow PROVE x \in ToSet(startOrder')
      <3>1. PICK k \in 1 .. Len(q) : x = q[k]
        BY <2>4, <2>9
      <3>. QED BY <1>6, <2>2, <2>5, <3>1
    <2>. QED BY <2>7, <2>8, <2>9
  <1>8. OrderShape'
    BY <1>h, <1>2, <1>6 DEF OrderShape
  <1>9. OrderProgress'
    <2>1. DOMAIN remaining' = DOMAIN after' \ ToSet(startOrder')
      BY <1>h, <1>2, <1>7 DEF OrderProgress
    <2>2. \A s \in DOMAIN remaining' : remaining'[s] = after'[s] \ ToSet(startOrder')
      BY <1>h, <1>2, <1>7 DEF OrderProgress
    <2>. QED BY <1>2, <2>1, <2>2 DEF OrderProgress
  <1>10. IsInjective(startOrder')
    <2>. SUFFICES ASSUME NEW i \in 1 .. Len(startOrder) + Len(q), NEW j \in 1 .. Len(startOrder) + Len(q),
                         startOrder'[i] = startOrder'[j], i # j
         PROVE  FALSE
      BY <1>6 DEF IsInjective
    <2>1. \A k \in 1 .. Len(startOrder) : startOrder'[k] \in ToSet(startOrder)
      BY <1>5, <1>6 DEF ToSet
    <2>2. \A k \in 1 .. Len(startOrder) + Len(q) : k > Len(startOrder) =>
             k - Len(startOrder) \in 1 .. Len(q) /\ startOrder'[k] = q[k - Len(startOrder)]
      <3>. TAKE k \in 1 .. Len(startOrder) + Len(q)
      <3>. HAVE k > Len(startOrder)
      <3>1. k - Len(startOrder) \in 1 .. Len(q) /\ Len(startOrder) + (k - Len(startOrder)) = k
        BY <1>4, <1>5
      <3>. QED BY <3>1, <1>6
    <2>3. \A k \in 1 .. Len(q) : q[k] \in ReadyNow
      BY <1>4
    <2>4. CASE i > Len(startOrder) /\ j > Len(startOrder)
      BY <2>2, <2>4, <1>4, <1>5
    <2>5. CASE i =< Len(startOrder) /\ j =< Len(startOrder)
      BY <2>5, <1>h, <1>5, <1>6 DEF OrderSound, IsInjective
    <2>6. CASE i =< Len(startOrder) /\ j > Len(startOrder)
      BY <2>1, <2>2, <2>3, <2>6, <1>3, <1>5
    <2>7. CASE i > Len(startOrder) /\ j =< Len(startOrder)
      BY <2>1, <2>2, <2>3, <2>7, <1>3, <1>5
    <2>. QED BY <2>4, <2>5, <2>6, <2>7, <1>4, <1>5
  <1>11. ASSUME NEW i \in DOMAIN startOrder'
         PROVE  after'[startOrder'[i]] \subseteq {startOrder'[j] : j \in 1 .. i - 1}
    <2>1. i \in 1 .. Len(startOrder) + Len(q)
      BY <1>6
    <2>2. CASE i =< Len(startOrder)
      <3>1. \A j \in 1 .. i - 1 : startOrder'[j] = startOrder[j]
        BY <1>5, <1>6, <2>1, <2>2
      <3>2. startOrder'[i] = startOrder[i] /\ i \in DOMAIN startOrder
        BY <1>5, <1>6, <2>1, <2>2
      <3>. QED BY <1>h, <1>2, <3>1, <3>2 DEF OrderSound
    <2>3. CASE i > Len(startOrder)
      <3>1. i - Len(startOrder) \in 1 .. Len(q) /\ Len(startOrder) + (i - Len(startOrder)) = i
        BY <1>4, <1>5, <2>1, <2>3
      <3>2. startOrder'[i] \in ReadyNow
        BY <3>1, <1>4, <1>6
      <3>3. after[startOrder'[i]] \subseteq ToSet(startOrder)
        BY <1>3, <3>2
      <3>4. \A j \in 1 .. Len(startOrder) : j \in 1 .. i - 1 /\ startOrder'[j] = startOrder[j]
        BY <1>5, <1>6, <2>1, <2>3
      <3>. QED BY <1>2, <1>5, <3>3, <3>4 DEF ToSet
    <2>. QED BY <1>4, <1>5, <2>1, <2>2, <2>3
  <1>12. ASSUME NEW C, Circle(C)' PROVE C \cap ToSet(startOrder)' = {}
    <2>1. Circle(C)
      BY <1>2, <1>12 DEF Circle
    <2>2. C \cap ToSet(startOrder) = {}
      BY <1>h, <2>1 DEF OrderSound
    <2>3. C \cap ReadyNow = {}
      BY <1>3, <2>1, <2>2 DEF Circle
    <2>. QED BY <1>7, <2>2, <2>3
  <1>. QED BY <1>8, <1>9, <1>10, <1>11, <1>12 DEF OrderInv, OrderSound

\* The checks on the services either refuse or hand start_order the whole
\* dependency map.
LEMMA CheckServicesStep ==
  ASSUME OrderInv, CheckServices
  PROVE  OrderInv'
PROOF
  <1>h. OrderShape /\ OrderProgress /\ OrderSound
    BY DEF OrderInv
  <1>0. step = "services" /\ after = <<>> /\ startOrder = <<>> /\ remaining = <<>>
    BY <1>h DEF CheckServices, OrderShape
  <1>1. CASE Refused
    BY <1>h, <1>0, <1>1 DEF Refused, checkVars, OrderInv, OrderShape, OrderProgress, OrderSound,
         Circle, ReadyNow
  <1>2. CASE ~Refused
    <2>1. PICK services \in SUBSET SvcNames : \E deps \in [services -> SUBSET SvcNames] :
            /\ \A s \in services : deps[s] \subseteq services \ {s}
            /\ after' = deps /\ remaining' = deps
            /\ step' = "order" /\ UNCHANGED startOrder
      BY <1>2 DEF CheckServices
    <2>2. PICK deps \in [services -> SUBSET SvcNames] :
            /\ \A s \in services : deps[s] \subseteq services \ {s}
            /\ after' = deps /\ remaining' = deps
            /\ step' = "order" /\ UNCHANGED startOrder
      BY <2>1
    <2>3. startOrder' = <<>> /\ ToSet(startOrder') = {}
      BY <1>0, <2>2 DEF ToSet
    <2>4. OrderShape'
      BY <2>2, <2>3 DEF OrderShape
    <2>5. OrderProgress'
      BY <2>2, <2>3 DEF OrderProgress
    <2>6. OrderSound'
      BY <2>2, <2>3 DEF OrderSound, IsInjective
    <2>. QED BY <2>4, <2>5, <2>6 DEF OrderInv
  <1>. QED BY <1>1, <1>2

\* Steps that leave the order alone, and the two ways start_order ends.
LEMMA OtherStep ==
  ASSUME OrderInv, UNCHANGED <<after, startOrder, remaining>>,
         \/ step' = step
         \/ step \in {"read", "merge", "check"} /\ step' \in {"merge", "check", "services", "refused"}
         \/ step = "order" /\ DOMAIN remaining = {} /\ step' = "accepted"
         \/ step = "order" /\ DOMAIN remaining # {} /\ ReadyNow = {} /\ step' = "refused"
  PROVE  OrderInv'
PROOF
  <1>h. OrderShape /\ OrderProgress /\ OrderSound
    BY DEF OrderInv
  <1>1. OrderSound'
    BY <1>h DEF OrderSound, Circle
  <1>2. OrderShape'
    BY <1>h DEF OrderShape, OrderProgress
  <1>3. OrderProgress'
    BY <1>h DEF OrderProgress, OrderShape, ReadyNow
  <1>. QED BY <1>1, <1>2, <1>3 DEF OrderInv

\* Every step of loading a configuration keeps the invariant.
LEMMA OrderNext ==
  ASSUME OrderInv, [ConfigNext]_cfgVars
  PROVE  OrderInv'
PROOF
  <1>1. CASE ReadFile
    BY <1>1, OtherStep DEF ReadFile, Refused, checkVars
  <1>2. CASE MergeChild
    BY <1>2, OtherStep DEF MergeChild, checkVars
  <1>3. CASE Parse
    BY <1>3, OtherStep DEF Parse, Refused, checkVars
  <1>4. CASE CheckResolvers
    <2>1. step = "check" /\ step' \in {"refused", "services"} /\ UNCHANGED <<after, startOrder, remaining>>
      BY <1>4 DEF CheckResolvers, Refused, checkVars
    <2>. QED BY <2>1, OtherStep
  <1>5. CASE OrderEnds
    BY <1>5, OtherStep DEF OrderEnds, Refused, checkVars
  <1>6. CASE UNCHANGED cfgVars
    BY <1>6, OtherStep DEF cfgVars, checkVars
  <1>. QED BY <1>1, <1>2, <1>3, <1>4, <1>5, <1>6, RoundStep, CheckServicesStep DEF ConfigNext

\* The invariant is strong enough: an accepted order is complete and circle-
\* free, and a stuck one has a circle, namely what remains.
LEMMA OrderInvImplies == OrderInv => OrderRespectsAfter
PROOF
  <1>. SUFFICES ASSUME OrderShape, OrderProgress, OrderSound PROVE OrderRespectsAfter
    BY DEF OrderInv
  <1>. DEFINE circle == \E C \in SUBSET DOMAIN after : C # {} /\ \A s \in C : after[s] \cap C # {}
  <1>1. step = "accepted" => ToSet(startOrder) = DOMAIN after /\ ~circle
    <2>. HAVE step = "accepted"
    <2>1. DOMAIN after \subseteq ToSet(startOrder)
      BY DEF OrderProgress
    <2>2. ToSet(startOrder) \subseteq DOMAIN after
      BY DEF OrderShape, ToSet
    <2>3. ASSUME NEW C, Circle(C) PROVE FALSE
      BY <2>1, <2>3 DEF OrderSound, Circle
    <2>. QED BY <2>1, <2>2, <2>3 DEF Circle
  <1>2. step = "refused" /\ after # <<>> => circle
    <2>. HAVE step = "refused" /\ after # <<>>
    <2>1. DOMAIN remaining # {} /\ \A s \in DOMAIN remaining : remaining[s] # {}
      BY DEF OrderProgress, ReadyNow
    <2>2. \A s \in DOMAIN remaining : after[s] \cap DOMAIN remaining # {}
      BY <2>1 DEF OrderProgress, OrderShape
    <2>3. DOMAIN remaining \in SUBSET DOMAIN after
      BY DEF OrderProgress
    <2>. QED BY <2>1, <2>2, <2>3
  <1>. QED BY <1>1, <1>2 DEF OrderRespectsAfter, OrderSound

\* start_order returns an order of all services in which each comes after its
\* dependencies, or refuses, and refuses only a configuration whose
\* dependencies do have a circle.
THEOREM StartOrder == ConfigSpec => []OrderRespectsAfter
PROOF
  <1>1. ConfigInit => OrderInv
    <2>. SUFFICES ASSUME ConfigInit PROVE OrderInv OBVIOUS
    <2>0. after = <<>> /\ startOrder = <<>> /\ remaining = <<>> /\ step = "read"
      BY DEF ConfigInit
    <2>1. OrderShape
      BY <2>0 DEF OrderShape
    <2>2. OrderProgress
      BY <2>0 DEF OrderProgress, ToSet
    <2>3. OrderSound
      BY <2>0 DEF OrderSound, ToSet, IsInjective
    <2>. QED BY <2>1, <2>2, <2>3 DEF OrderInv
  <1>2. OrderInv /\ [ConfigNext]_cfgVars => OrderInv'
    BY OrderNext
  <1>. QED BY <1>1, <1>2, OrderInvImplies, PTL DEF ConfigSpec

-----------------------------------------------------------------------------
\* Ports.

\* The types of the broker's state; nothing is allocated or tried before the
\* batch was validated.
PortTypeOK ==
  /\ wants \in Seq(Wants) /\ allocated \in Seq(Nat) /\ Len(allocated) =< Len(wants)
  /\ candidate \in Nat /\ attempts \in Nat
  /\ IsFiniteSet(holds) /\ IsFiniteSet(trying)
  /\ result = "loading" => allocated = <<>> /\ attempts = 0

\* For an automatic port, _bind_auto already holds the candidate on the first
\* family.
LeadBound == IF IsAuto(Current) THEN 1 ELSE 0

\* What _try_bind holds while it works: the candidate, on the families it has
\* come to; an automatic candidate is held on the first family and is not one
\* of the ports given out, and of a range every port before the candidate was
\* taken.
Trying ==
  /\ candidate = 0 => trying = {}
  /\ candidate # 0 =>
       /\ Working
       /\ BoundFamilies =< Len(Families)
       /\ trying = {<<Families[i], candidate>> : i \in LeadBound + 1 .. BoundFamilies}
       /\ IsAuto(Current) => /\ <<Families[1], candidate>> \in holds /\ attempts # 0
                           /\ \A i \in DOMAIN allocated : allocated[i] # candidate
       /\ ~IsAuto(Current) => \A p \in ParsePortSpec(Current)[1] .. candidate - 1 : WasTaken(p)

\* A pair of family and port has one holder, and was taken by it at some
\* time.
Disjoint ==
  /\ holds \cap foreign = {} /\ trying \cap foreign = {} /\ holds \cap trying = {}
  /\ holds \cup foreign \subseteq taken

\* Attempts count automatic ports only.
Counting == Working /\ ~IsAuto(Current) => attempts = 0

\* The inductive invariant of the broker.
PortInv == PortTypeOK /\ Trying /\ Disjoint /\ Counting /\ BatchHolds

\* There is at least one address family, and none twice.
LEMMA FamiliesType ==
  /\ Families \in Seq(ToSet(Families)) /\ Len(Families) \in Nat \ {0} /\ DOMAIN Families = 1 .. Len(Families)
  /\ \A i, j \in 1 .. Len(Families) : Families[i] = Families[j] => i = j
  BY PortsAssumption DEF PortsAssumption, IsInjective

\* parse_port_spec returns two port numbers.
LEMMA SpecType ==
  ASSUME NEW w \in Wants
  PROVE  ParsePortSpec(w)[1] \in Nat /\ ParsePortSpec(w)[2] \in Nat
PROOF
  <1>1. Max(PortNumbers) \in Nat
    BY PortsAssumption DEF PortsAssumption, Max
  <1>2. w.form \in {"auto", "fixed", "from", "range"} /\ w.low \in Nat /\ w.high \in Nat
    BY PortsAssumption DEF PortsAssumption
  <1>. QED BY <1>1, <1>2 DEF ParsePortSpec

\* The want the broker works on is one of the batch.
LEMMA CurrentType ==
  ASSUME PortTypeOK, Working
  PROVE  Current \in Wants
  BY DEF PortTypeOK, Working, Current

\* The families bound so far are those of the sockets tried, and the lead.
LEMMA BoundCount ==
  ASSUME PortTypeOK
  PROVE  Cardinality(trying) \in Nat /\ BoundFamilies \in Nat /\ LeadBound \in {0, 1}
         /\ BoundFamilies = Cardinality(trying) + LeadBound
  BY FS_CardinalityType DEF PortTypeOK, BoundFamilies, LeadBound

\* The pairs of the first family among h.
Leads(h) == {pair \in h : pair[1] = Families[1]}

\* More sockets have no fewer leads, and one more if a new one is of the
\* first family.
LEMMA LeadsGrow ==
  ASSUME NEW h, IsFiniteSet(h), NEW t, IsFiniteSet(t)
  PROVE  /\ IsFiniteSet(h \cup t)
         /\ Cardinality(Leads(h)) \in Nat /\ Cardinality(Leads(h \cup t)) \in Nat
         /\ Cardinality(Leads(h)) =< Cardinality(Leads(h \cup t))
         /\ \A x \in t : x[1] = Families[1] /\ x \notin h => Cardinality(Leads(h)) + 1 =< Cardinality(Leads(h \cup t))
PROOF
  <1>1. IsFiniteSet(h \cup t)
    BY FS_Union
  <1>2. Leads(h) \subseteq h /\ Leads(h \cup t) \subseteq h \cup t /\ Leads(h) \subseteq Leads(h \cup t)
    BY DEF Leads
  <1>3. IsFiniteSet(Leads(h)) /\ IsFiniteSet(Leads(h \cup t))
    BY <1>1, <1>2, FS_Subset
  <1>4. Cardinality(Leads(h)) \in Nat /\ Cardinality(Leads(h \cup t)) \in Nat
    BY <1>3, FS_CardinalityType
  <1>5. Cardinality(Leads(h)) =< Cardinality(Leads(h \cup t))
    BY <1>2, <1>3, FS_Subset
  <1>6. ASSUME NEW x \in t, x[1] = Families[1], x \notin h PROVE Cardinality(Leads(h)) + 1 =< Cardinality(Leads(h \cup t))
    <2>1. x \notin Leads(h) /\ Leads(h) \cup {x} \subseteq Leads(h \cup t)
      BY <1>6 DEF Leads
    <2>2. Cardinality(Leads(h) \cup {x}) = Cardinality(Leads(h)) + 1
      BY <1>3, <2>1, FS_AddElement
    <2>3. Cardinality(Leads(h) \cup {x}) =< Cardinality(Leads(h \cup t))
      BY <1>3, <2>1, FS_Subset
    <2>. QED BY <2>2, <2>3
  <1>. QED BY <1>1, <1>4, <1>5, <1>6

\* However the batch ends, every socket is closed and the record of what was
\* taken stays.
LEMMA FinishStep ==
  ASSUME PortInv, NEW why, why \notin {"loading", "open"}, Finish(why),
         why = "in use" => \A p \in ParsePortSpec(Current)[1] .. ParsePortSpec(Current)[2] : WasTaken(p)
  PROVE  PortInv'
PROOF
  <1>1. /\ result' = why /\ holds' = {} /\ trying' = {} /\ candidate' = 0 /\ attempts' = 0
        /\ UNCHANGED <<wants, foreign, allocated, taken, moves>>
    BY DEF Finish
  <1>2. PortTypeOK'
    BY <1>1, FS_EmptySet DEF PortInv, PortTypeOK
  <1>3. Trying'
    BY <1>1 DEF Trying
  <1>4. Disjoint'
    BY <1>1 DEF PortInv, Disjoint
  <1>5. Counting'
    BY <1>1 DEF Counting, Working
  <1>6. PortsOwned'
    BY <1>1 DEF PortInv, BatchHolds, PortsOwned
  <1>7. FirstFree'
    BY <1>1 DEF PortInv, BatchHolds, FirstFree, WasTaken, Current
  <1>8. AutoConverges'
    BY <1>1 DEF AutoConverges
  <1>. QED BY <1>2, <1>3, <1>4, <1>5, <1>6, <1>7, <1>8 DEF PortInv, BatchHolds

\* The port that bind() refuses was held by somebody at that moment.
LEMMA RefusedWasTaken ==
  ASSUME PortInv, BindRefused
  PROVE  WasTaken(candidate)
PROOF
  <1>1. Trying /\ PortTypeOK /\ Disjoint
    BY DEF PortInv
  <1>2. BoundFamilies \in Nat /\ LeadBound \in {0, 1} /\ BoundFamilies + 1 \in 1 .. Len(Families)
    BY <1>1, BoundCount, FamiliesType DEF BindRefused
  <1>3. NextPair \notin trying
    <2>1. ASSUME NEW i \in LeadBound + 1 .. BoundFamilies PROVE Families[i] # Families[BoundFamilies + 1]
      BY <1>2, <2>1, FamiliesType
    <2>. QED BY <1>1, <2>1 DEF Trying, NextPair, BindRefused
  <1>4. NextPair \in taken
    BY <1>1, <1>3 DEF BindRefused, Bindable, Disjoint
  <1>5. Families[BoundFamilies + 1] \in ToSet(Families)
    BY <1>2, FamiliesType DEF ToSet
  <1>. QED BY <1>4, <1>5 DEF NextPair, WasTaken

\* The next port of a range is tried only after the one before was refused,
\* and the range is exhausted only after all were.
LEMMA RangeStep ==
  ASSUME PortInv, NextCandidate
  PROVE  PortInv'
PROOF
  <1>h. PortTypeOK /\ Trying /\ Disjoint /\ Counting /\ PortsOwned /\ FirstFree /\ AutoConverges
    BY DEF PortInv, BatchHolds
  <1>1. /\ Working /\ ~IsAuto(Current) /\ candidate # 0 /\ WasTaken(candidate)
    BY RefusedWasTaken DEF NextCandidate, BindRefused
  <1>2. Current \in Wants /\ ParsePortSpec(Current)[1] \in Nat /\ ParsePortSpec(Current)[2] \in Nat /\ candidate \in Nat
    BY <1>h, <1>1, CurrentType, SpecType DEF PortTypeOK
  <1>3. \A p \in ParsePortSpec(Current)[1] .. candidate : WasTaken(p)
    BY <1>h, <1>1, <1>2 DEF Trying
  <1>4. CASE candidate < ParsePortSpec(Current)[2]
    <2>1. /\ candidate' = candidate + 1 /\ trying' = {}
          /\ UNCHANGED <<wants, foreign, holds, attempts, allocated, result, taken, moves>>
      BY <1>4 DEF NextCandidate
    <2>2. PortTypeOK'
      BY <1>h, <2>1, FS_EmptySet DEF PortTypeOK
    <2>3. Trying'
      <3>1. Working' /\ Current' = Current /\ (candidate' # 0) /\ ~IsAuto(Current)'
        BY <1>1, <1>2, <2>1 DEF Working, Current, IsAuto
      <3>2. BoundFamilies' = 0 /\ LeadBound' = 0
        BY <2>1, <3>1, FS_EmptySet DEF BoundFamilies, LeadBound
      <3>3. trying' = {<<Families[i], candidate'>> : i \in LeadBound' + 1 .. BoundFamilies'}
        BY <2>1, <3>2
      <3>4. \A p \in ParsePortSpec(Current)[1] .. candidate' - 1 : WasTaken(p)'
        BY <1>2, <1>3, <2>1 DEF WasTaken
      <3>. QED BY <3>1, <3>2, <3>3, <3>4, FamiliesType DEF Trying
    <2>4. Disjoint'
      BY <1>h, <2>1 DEF Disjoint
    <2>5. Counting'
      BY <1>h, <2>1 DEF Counting, Working, Current
    <2>6. PortsOwned'
      BY <1>h, <1>1, <2>1 DEF PortsOwned, Working
    <2>7. FirstFree'
      BY <1>h, <2>1 DEF FirstFree, WasTaken, Current
    <2>8. AutoConverges'
      BY <1>h, <2>1 DEF AutoConverges
    <2>. QED BY <2>2, <2>3, <2>4, <2>5, <2>6, <2>7, <2>8 DEF PortInv, BatchHolds
  <1>5. CASE ~(candidate < ParsePortSpec(Current)[2])
    <2>1. \A p \in ParsePortSpec(Current)[1] .. ParsePortSpec(Current)[2] : WasTaken(p)
      BY <1>2, <1>3, <1>5
    <2>. QED BY <1>5, <2>1, FinishStep DEF NextCandidate
  <1>. QED BY <1>4, <1>5

\* Validation, and the ends of a batch that bind nothing.
LEMMA QuietSteps ==
  ASSUME PortInv, ValidatePorts \/ RefuseDuplicate \/ AllDone \/ NoAuto \/ UNCHANGED portVars
  PROVE  PortInv'
PROOF
  <1>h. PortTypeOK /\ Trying /\ Disjoint /\ Counting /\ PortsOwned /\ FirstFree /\ AutoConverges
    BY DEF PortInv, BatchHolds
  <1>1. CASE \E why \in {"config", "duplicate", "auto", "done"} : Finish(why)
    BY <1>1, FinishStep
  <1>2. CASE UNCHANGED portVars
    BY <1>2 DEF portVars, PortInv, PortTypeOK, Trying, Working, BoundFamilies, LeadBound, IsAuto,
         Current, WasTaken,
                Disjoint, Counting, BatchHolds, PortsOwned, FirstFree, AutoConverges
  <1>3. CASE /\ result = "loading" /\ result' = "open"
             /\ UNCHANGED <<wants, foreign, holds, trying, candidate, attempts, allocated, taken, moves>>
    <2>1. allocated = <<>> /\ attempts = 0 /\ holds = {} /\ trying = {} /\ candidate = 0
      BY <1>h, <1>3 DEF PortTypeOK, PortsOwned, Trying, Working
    <2>2. PortTypeOK' /\ Disjoint'
      BY <1>h, <1>3 DEF PortTypeOK, Disjoint
    <2>3. Trying'
      BY <1>3, <2>1 DEF Trying
    <2>4. Counting'
      BY <1>3, <2>1 DEF Counting
    <2>5. PortsOwned'
      BY <1>3, <2>1 DEF PortsOwned, IsInjective
    <2>6. FirstFree'
      BY <1>3, <2>1 DEF FirstFree
    <2>7. AutoConverges'
      <3>1. Leads({}) = {}
        BY DEF Leads
      <3>2. Cardinality(Leads({})) = 0
        BY <3>1, FS_EmptySet
      <3>. QED BY <1>3, <2>1, <3>2 DEF AutoConverges, Leads
    <2>. QED BY <2>2, <2>3, <2>4, <2>5, <2>6, <2>7 DEF PortInv, BatchHolds
  <1>. QED BY <1>1, <1>2, <1>3 DEF ValidatePorts, RefuseDuplicate, AllDone, NoAuto

\* Another process: it can take nothing the broker holds.
LEMMA ForeignStep ==
  ASSUME PortInv, ForeignMove
  PROVE  PortInv'
PROOF
  <1>h. PortTypeOK /\ Trying /\ Disjoint /\ Counting /\ PortsOwned /\ FirstFree /\ AutoConverges
    BY DEF PortInv, BatchHolds
  <1>1. UNCHANGED <<wants, holds, trying, candidate, attempts, allocated, result>> /\ taken \subseteq taken'
    BY DEF ForeignMove
  <1>2. /\ foreign' \cap holds = {} /\ foreign' \cap trying = {} /\ foreign' \subseteq taken'
    BY <1>h DEF ForeignMove, Disjoint, Bindable
  <1>3. \A p : WasTaken(p) => WasTaken(p)'
    BY <1>1 DEF WasTaken
  <1>4. Current' = Current /\ (Working' <=> Working) /\ BoundFamilies' = BoundFamilies /\ LeadBound' = LeadBound
    BY <1>1 DEF Current, Working, BoundFamilies, LeadBound
  <1>5. PortTypeOK'
    BY <1>h, <1>1 DEF PortTypeOK
  <1>6. Trying'
    BY <1>h, <1>1, <1>3, <1>4 DEF Trying
  <1>7. Disjoint'
    BY <1>h, <1>1, <1>2 DEF Disjoint
  <1>8. Counting'
    BY <1>h, <1>1, <1>4 DEF Counting
  <1>9. PortsOwned'
    BY <1>h, <1>1, <1>2 DEF PortsOwned
  <1>10. FirstFree'
    BY <1>h, <1>1, <1>3, <1>4 DEF FirstFree
  <1>11. AutoConverges'
    BY <1>h, <1>1 DEF AutoConverges
  <1>. QED BY <1>5, <1>6, <1>7, <1>8, <1>9, <1>10, <1>11 DEF PortInv, BatchHolds

\* _bind_one binds the candidate on one more family.
LEMMA BindStep ==
  ASSUME PortInv, BindNext
  PROVE  PortInv'
PROOF
  <1>h. PortTypeOK /\ Trying /\ Disjoint /\ Counting /\ PortsOwned /\ FirstFree /\ AutoConverges
    BY DEF PortInv, BatchHolds
  <1>1. /\ Working /\ candidate # 0 /\ BoundFamilies < Len(Families) /\ Bindable(NextPair)
        /\ trying' = trying \union {NextPair}
        /\ UNCHANGED <<wants, foreign, holds, candidate, attempts, allocated, result, taken, moves>>
    BY DEF BindNext
  <1>2. NextPair \notin trying /\ NextPair \notin holds /\ NextPair \notin foreign
    BY <1>1 DEF Bindable
  <1>3. /\ IsFiniteSet(trying') /\ Cardinality(trying') = Cardinality(trying) + 1
    BY <1>h, <1>1, <1>2, FS_AddElement DEF PortTypeOK
  <1>4. /\ Current' = Current /\ Working' /\ LeadBound' = LeadBound /\ BoundFamilies' = BoundFamilies + 1
        /\ IsAuto(Current') <=> IsAuto(Current)
    BY <1>h, <1>1, <1>3, BoundCount DEF Current, Working, BoundFamilies, LeadBound
  <1>5. PortTypeOK'
    BY <1>h, <1>1, <1>3 DEF PortTypeOK
  <1>6. Trying'
    <2>1. LeadBound + 1 .. BoundFamilies + 1 = (LeadBound + 1 .. BoundFamilies) \cup {BoundFamilies + 1}
      BY <1>h, BoundCount
    <2>2. trying' = {<<Families[i], candidate>> : i \in LeadBound + 1 .. BoundFamilies + 1}
      BY <1>h, <1>1, <2>1 DEF Trying, NextPair
    <2>3. BoundFamilies + 1 =< Len(Families)
      BY <1>1, <1>h, BoundCount, FamiliesType
    <2>4. \A p : WasTaken(p)' <=> WasTaken(p)
      BY <1>1 DEF WasTaken
    <2>. QED BY <1>h, <1>1, <1>4, <2>2, <2>3, <2>4 DEF Trying
  <1>7. Disjoint'
    BY <1>h, <1>1, <1>2 DEF Disjoint
  <1>8. Counting'
    BY <1>h, <1>1, <1>4 DEF Counting
  <1>9. PortsOwned'
    BY <1>h, <1>1 DEF PortsOwned, Working
  <1>10. FirstFree'
    BY <1>h, <1>1, <1>4 DEF FirstFree, WasTaken
  <1>11. AutoConverges'
    BY <1>h, <1>1 DEF AutoConverges
  <1>. QED BY <1>5, <1>6, <1>7, <1>8, <1>9, <1>10, <1>11 DEF PortInv, BatchHolds

\* The first port of a range; an automatic candidate given up when its port
\* is taken on another family.
LEMMA StartSteps ==
  ASSUME PortInv, RejectLead \/ StartRange
  PROVE  PortInv'
PROOF
  <1>h. PortTypeOK /\ Trying /\ Disjoint /\ Counting /\ PortsOwned /\ FirstFree /\ AutoConverges
    BY DEF PortInv, BatchHolds
  <1>1. /\ Working /\ trying' = {} /\ UNCHANGED <<wants, foreign, holds, attempts, allocated, result, taken, moves>>
    BY <1>h DEF RejectLead, BindRefused, StartRange, Trying
  <1>2. /\ Current' = Current /\ Working' /\ Cardinality(trying') = 0 /\ IsFiniteSet(trying')
        /\ IsAuto(Current') <=> IsAuto(Current)
    BY <1>1, FS_EmptySet DEF Current, Working
  <1>3. PortTypeOK'
    <2>1. candidate' \in Nat
      BY <1>h, <1>1, CurrentType, SpecType DEF RejectLead, StartRange
    <2>. QED BY <1>h, <1>1, <1>2, <2>1 DEF PortTypeOK
  <1>4. Trying'
    <2>1. CASE RejectLead
      BY <1>1, <2>1 DEF RejectLead, Trying
    <2>2. CASE StartRange
      <3>1. ~IsAuto(Current') /\ candidate' = ParsePortSpec(Current')[1]
        BY <1>2, <2>2 DEF StartRange
      <3>2. LeadBound' = 0 /\ BoundFamilies' = 0
        BY <1>2, <3>1 DEF LeadBound, BoundFamilies
      <3>3. candidate' \in Nat
        BY <1>3 DEF PortTypeOK
      <3>4. ParsePortSpec(Current')[1] .. candidate' - 1 = {}
        BY <3>1, <3>3
      <3>. QED BY <1>1, <1>2, <3>1, <3>2, <3>4, FamiliesType DEF Trying
    <2>. QED BY <2>1, <2>2
  <1>7. Disjoint'
    BY <1>h, <1>1 DEF Disjoint
  <1>8. Counting'
    BY <1>h, <1>1, <1>2 DEF Counting
  <1>9. PortsOwned'
    BY <1>h, <1>1 DEF PortsOwned, Working
  <1>10. FirstFree'
    BY <1>h, <1>1, <1>2 DEF FirstFree, WasTaken
  <1>11. AutoConverges'
    BY <1>h, <1>1 DEF AutoConverges
  <1>. QED BY <1>3, <1>4, <1>7, <1>8, <1>9, <1>10, <1>11 DEF PortInv, BatchHolds

\* The kernel picks an automatic port, and the broker keeps the socket even
\* if it gives the port up: attempts are as many as leads.
LEMMA LeadStep ==
  ASSUME PortInv, PickLead
  PROVE  PortInv'
PROOF
  <1>h. PortTypeOK /\ Trying /\ Disjoint /\ Counting /\ PortsOwned /\ FirstFree /\ AutoConverges
    BY DEF PortInv, BatchHolds
  <1>. DEFINE lead(p) == <<Families[1], p>>
  <1>1. PICK p \in PortNumbers :
         /\ Bindable(lead(p))
         /\ holds' = holds \union {lead(p)} /\ taken' = taken \union {lead(p)}
         /\ candidate' = p /\ attempts' = attempts + 1
    BY DEF PickLead
  <1>2. /\ Working /\ IsAuto(Current) /\ trying = {}
        /\ UNCHANGED <<wants, foreign, trying, allocated, result, moves>>
    BY <1>h DEF PickLead, Trying
  <1>3. p \in Nat \ {0}
    BY PortsAssumption DEF PortsAssumption
  <1>4. lead(p) \notin holds /\ lead(p) \notin foreign /\ lead(p)[1] = Families[1]
    BY <1>1 DEF Bindable
  <1>5. /\ Current' = Current /\ Working' /\ IsAuto(Current')
    BY <1>2 DEF Current, Working
  <1>6. IsFiniteSet(holds')
    BY <1>h, <1>1, <1>4, FS_AddElement DEF PortTypeOK
  <1>7. PortTypeOK'
    <2>1. result # "loading"
      BY <1>2 DEF Working
    <2>. QED BY <1>h, <1>1, <1>2, <1>3, <1>6, <2>1 DEF PortTypeOK
  <1>8. Trying'
    <2>1. LeadBound' = 1 /\ BoundFamilies' = 1
      BY <1>2, <1>5, FS_EmptySet DEF LeadBound, BoundFamilies
    <2>2. trying' = {<<Families[i], candidate'>> : i \in LeadBound' + 1 .. BoundFamilies'}
      BY <1>2, <2>1
    <2>3. ASSUME NEW i \in DOMAIN allocated' PROVE allocated'[i] # candidate'
      <3>1. Families[1] \in ToSet(Families)
        BY FamiliesType DEF ToSet
      <3>2. <<Families[1], allocated[i]>> \in holds
        BY <1>h, <1>2, <2>3, <3>1 DEF PortsOwned, Working
      <3>. QED BY <1>1, <1>2, <1>4, <3>2
    <2>4. lead(p) \in holds' /\ attempts' # 0
      BY <1>h, <1>1 DEF PortTypeOK
    <2>. QED BY <1>1, <1>3, <1>5, <2>1, <2>2, <2>3, <2>4, FamiliesType DEF Trying
  <1>9. Disjoint'
    BY <1>h, <1>1, <1>2, <1>4 DEF Disjoint
  <1>10. Counting'
    BY <1>5 DEF Counting
  <1>11. PortsOwned'
    BY <1>h, <1>1, <1>2, <1>4 DEF PortsOwned, Working
  <1>12. FirstFree'
    BY <1>h, <1>1, <1>2 DEF FirstFree, WasTaken, Working
  <1>13. AutoConverges'
    <2>1. IsFiniteSet({lead(p)})
      BY FS_Singleton
    <2>2. /\ Cardinality(Leads(holds)) + 1 =< Cardinality(Leads(holds')) /\ Cardinality(Leads(holds)) \in Nat
          /\ Cardinality(Leads(holds')) \in Nat
      BY <1>h, <1>1, <1>4, <2>1, LeadsGrow DEF PortTypeOK
    <2>3. attempts + Len(allocated) =< Cardinality(Leads(holds))
      BY <1>h, <1>2 DEF AutoConverges, Leads, Working
    <2>4. attempts' + Len(allocated') =< Cardinality(Leads(holds'))
      BY <1>h, <1>1, <1>2, <2>2, <2>3 DEF PortTypeOK
    <2>. QED BY <2>4 DEF AutoConverges, Leads
  <1>. QED BY <1>7, <1>8, <1>9, <1>10, <1>11, <1>12, <1>13 DEF PortInv, BatchHolds

\* A candidate that is bound on every family is given out, and its sockets
\* are kept.
LEMMA AllocateStep ==
  ASSUME PortInv, Allocate
  PROVE  PortInv'
PROOF
  <1>h. PortTypeOK /\ Trying /\ Disjoint /\ Counting /\ PortsOwned /\ FirstFree /\ AutoConverges
    BY DEF PortInv, BatchHolds
  <1>1. /\ Working /\ candidate # 0 /\ BoundFamilies = Len(Families)
        /\ allocated' = Append(allocated, candidate)
        /\ holds' = holds \union trying /\ taken' = taken \union trying
        /\ trying' = {} /\ candidate' = 0 /\ attempts' = 0
        /\ UNCHANGED <<wants, foreign, result, moves>>
    BY DEF Allocate
  <1>2. /\ allocated \in Seq(Nat) /\ Len(allocated) \in Nat /\ candidate \in Nat /\ DOMAIN allocated = 1 .. Len(allocated)
        /\ Len(allocated') = Len(allocated) + 1 /\ allocated' \in Seq(Nat) /\ DOMAIN allocated' = 1 .. Len(allocated) + 1
        /\ \A i \in 1 .. Len(allocated) : allocated'[i] = allocated[i]
        /\ allocated'[Len(allocated) + 1] = candidate
        /\ result = "open" /\ result' = "open"
    BY <1>h, <1>1 DEF PortTypeOK, Working
  <1>3. ASSUME NEW f \in ToSet(Families) PROVE <<f, candidate>> \in holds'
    <2>1. PICK i \in 1 .. Len(Families) : f = Families[i]
      BY FamiliesType DEF ToSet
    <2>2. CASE i \in LeadBound + 1 .. BoundFamilies
      BY <1>h, <1>1, <2>1, <2>2 DEF Trying
    <2>3. CASE i = 1 /\ IsAuto(Current)
      BY <1>h, <1>1, <2>1, <2>3 DEF Trying
    <2>. QED BY <1>1, <2>2, <2>3, FamiliesType DEF LeadBound
  <1>4. \A i \in 1 .. Len(allocated) : allocated[i] # candidate
    <2>1. CASE IsAuto(Current)
      BY <1>h, <1>1, <1>2, <2>1 DEF Trying
    <2>2. CASE ~IsAuto(Current)
      <3>1. <<Families[1], candidate>> \in trying
        BY <1>h, <1>1, <2>2, FamiliesType DEF Trying, LeadBound
      <3>2. Families[1] \in ToSet(Families)
        BY FamiliesType DEF ToSet
      <3>. QED BY <1>h, <1>2, <3>1, <3>2 DEF PortsOwned, Disjoint
    <2>. QED BY <2>1, <2>2
  <1>5. IsFiniteSet(holds') /\ IsFiniteSet(trying')
    BY <1>h, <1>1, FS_Union, FS_EmptySet DEF PortTypeOK
  <1>6. PortTypeOK'
    BY <1>h, <1>1, <1>2, <1>5 DEF PortTypeOK, Working
  <1>7. Trying'
    BY <1>1 DEF Trying
  <1>8. Disjoint'
    BY <1>h, <1>1 DEF Disjoint
  <1>9. Counting'
    BY <1>1 DEF Counting
  <1>10. PortsOwned'
    <2>1. IsInjective(allocated')
      BY <1>h, <1>2, <1>4 DEF PortsOwned, IsInjective
    <2>2. \A i \in DOMAIN allocated', f \in ToSet(Families) : <<f, allocated'[i]>> \in holds'
      BY <1>h, <1>1, <1>2, <1>3 DEF PortsOwned
    <2>. QED BY <1>1, <1>2, <1>8, <2>1, <2>2 DEF PortsOwned, Disjoint
  <1>11. FirstFree'
    <2>1. \A p : WasTaken(p) => WasTaken(p)'
      BY <1>1 DEF WasTaken
    <2>2. Current = wants[Len(allocated) + 1]
      BY DEF Current
    <2>3. \A i \in DOMAIN allocated' : ~IsAuto(wants'[i]) =>
             \A p \in ParsePortSpec(wants'[i])[1] .. allocated'[i] - 1 : WasTaken(p)'
      <3>. SUFFICES ASSUME NEW i \in 1 .. Len(allocated) + 1, ~IsAuto(wants[i]),
                           NEW p \in ParsePortSpec(wants[i])[1] .. allocated'[i] - 1
           PROVE  WasTaken(p)
        BY <1>1, <1>2, <2>1
      <3>1. CASE i \in 1 .. Len(allocated)
        BY <1>h, <1>2, <3>1 DEF FirstFree
      <3>2. CASE i = Len(allocated) + 1
        BY <1>h, <1>1, <1>2, <2>2, <3>2 DEF Trying
      <3>. QED BY <1>2, <3>1, <3>2
    <2>. QED BY <1>2, <2>3 DEF FirstFree
  <1>12. AutoConverges'
    <2>1. /\ Cardinality(Leads(holds)) =< Cardinality(Leads(holds')) /\ Cardinality(Leads(holds)) \in Nat
          /\ Cardinality(Leads(holds')) \in Nat
          /\ \A x \in trying : x[1] = Families[1] /\ x \notin holds
               => Cardinality(Leads(holds)) + 1 =< Cardinality(Leads(holds'))
      BY <1>h, <1>1, LeadsGrow DEF PortTypeOK
    <2>2. attempts + Len(allocated) =< Cardinality(Leads(holds))
      BY <1>h, <1>2 DEF AutoConverges, Leads
    <2>3. Len(allocated) + 1 =< Cardinality(Leads(holds'))
      <3>1. CASE IsAuto(Current)
        <4>1. attempts \in Nat \ {0}
          BY <1>h, <1>1, <3>1 DEF Trying, PortTypeOK
        <4>. QED BY <1>2, <2>1, <2>2, <4>1
      <3>2. CASE ~IsAuto(Current)
        <4>1. <<Families[1], candidate>> \in trying /\ <<Families[1], candidate>>[1] = Families[1]
          BY <1>h, <1>1, <3>2, FamiliesType DEF Trying, LeadBound
        <4>2. <<Families[1], candidate>> \notin holds
          BY <1>h, <4>1 DEF Disjoint
        <4>3. attempts = 0
          BY <1>h, <1>1, <3>2 DEF Counting
        <4>4. Cardinality(Leads(holds)) + 1 =< Cardinality(Leads(holds'))
          BY <2>1, <4>1, <4>2
        <4>. QED BY <1>2, <2>1, <2>2, <4>3, <4>4
      <3>. QED BY <3>1, <3>2
    <2>. QED BY <1>1, <1>2, <2>3 DEF AutoConverges, Leads
  <1>. QED BY <1>6, <1>7, <1>8, <1>9, <1>10, <1>11, <1>12 DEF PortInv, BatchHolds

\* Whatever other processes bind meanwhile: ports given out are distinct and
\* held on every family until the batch ends, a range gives the first port
\* that was not taken, and an automatic port takes no attempt that does not
\* use up a port of the first family, so the attempts are bounded by the
\* ports there are.
THEOREM PortBatches == PortSpec => []BatchHolds
PROOF
  <1>1. PortInit => PortInv
    <2>. SUFFICES ASSUME PortInit PROVE PortInv OBVIOUS
    <2>1. wants \in Seq(Wants) /\ Len(wants) \in Nat
      <3>1. PICK n \in 1 .. BatchSize : wants \in [1 .. n -> Wants]
        BY DEF PortInit
      <3>2. n \in Nat
        BY PortsAssumption DEF PortsAssumption
      <3>. QED BY <3>1, <3>2
    <2>2. PortTypeOK
      BY <2>1, FS_EmptySet DEF PortInit, PortTypeOK
    <2>3. Trying /\ Disjoint /\ Counting
      BY DEF PortInit, Trying, Disjoint, Counting
    <2>4. PortsOwned /\ FirstFree /\ AutoConverges
      BY DEF PortInit, PortsOwned, IsInjective, FirstFree, AutoConverges
    <2>. QED BY <2>2, <2>3, <2>4 DEF PortInv, BatchHolds
  <1>2. PortInv /\ [PortNext]_portVars => PortInv'
    BY QuietSteps, ForeignStep, BindStep, StartSteps, LeadStep, AllocateStep,
         RangeStep DEF PortNext, Broker
  <1>3. PortInv => BatchHolds
    BY DEF PortInv
  <1>. QED BY <1>1, <1>2, <1>3, PTL DEF PortSpec

-----------------------------------------------------------------------------
\* Cached binaries.

\* A cached copy: whose contents it has, and whether it is past the age at
\* which prune deletes it.
Copies == [content : Int, old : BOOLEAN]

\* The metadata file beside a copy: the fingerprint it records, and its age.
Sidecars == [fp : Int, old : BOOLEAN]

\* The types of the cache's files and of where each process is in
\* materialize; a process that is copying, or about to install, has a
\* temporary file.
CacheTypeOK ==
  /\ source \in Nat \ {0}
  /\ dest \in Copies \cup {NoFile} /\ meta \in Sidecars \cup {NoFile}
  /\ at \in [CacheProcs -> {"idle", "prune", "unlink_dest", "unlink_meta", "stat", "check",
                             "copy", "copying", "install", "meta", "touch"}]
  /\ left \in [CacheProcs -> SUBSET {"dest", "meta"}]
  /\ tmp \in [CacheProcs -> Int \cup {NoFile}] /\ fprint \in [CacheProcs -> Nat]
  /\ \A p \in CacheProcs : at[p] \in {"copying", "install"} => tmp[p] \in Int

\* A copy that was handed out since time last passed is not old: handing it
\* out touched it.  Who is about to unlink the copy has not handed it out.
HandedOutIsYoung ==
  /\ used /\ dest # NoFile => ~dest.old
  /\ \A p \in CacheProcs : at[p] = "unlink_dest" => ~used

\* The metadata that materialize writes, or an interrupted write leaves, is
\* metadata.
LEMMA NewSidecar == \A x \in Int : [fp |-> x, old |-> FALSE] \in Sidecars
  BY DEF Sidecars

\* Every step of a process in materialize, of a crash and of the source file
\* keeps the types.
LEMMA CacheTypeStep ==
  ASSUME CacheTypeOK, [CacheNext]_cacheVars
  PROVE  CacheTypeOK'
PROOF
  <1>. USE CacheAssumption DEF CacheTypeOK, CacheAssumption, Copies, Sidecars, world
  <1>1. CASE World
    <2>0. UNCHANGED <<tmp, at, left, fprint>>
      BY <1>1 DEF World
    <2>1. source' \in Nat \ {0}
      BY <1>1 DEF World
    <2>2. dest' \in Copies \cup {NoFile} /\ meta' \in Sidecars \cup {NoFile}
      BY <1>1 DEF World
    <2>. QED BY <2>0, <2>1, <2>2
  <1>2. ASSUME NEW p \in CacheProcs, PruneBegins(p) PROVE CacheTypeOK'
    BY <1>2 DEF PruneBegins, Goto
  <1>10. ASSUME NEW p \in CacheProcs, PruneLooks(p) PROVE CacheTypeOK'
    BY <1>10 DEF PruneLooks, Goto
  <1>11. ASSUME NEW p \in CacheProcs, PruneUnlinks(p) PROVE CacheTypeOK'
    BY <1>11 DEF PruneUnlinks, Goto
  <1>3. ASSUME NEW p \in CacheProcs, Stat(p) PROVE CacheTypeOK'
    BY <1>3 DEF Stat, Goto
  <1>12. ASSUME NEW p \in CacheProcs, Check(p) PROVE CacheTypeOK'
    BY <1>12 DEF Check, Goto
  <1>4. ASSUME NEW p \in CacheProcs, CopyBegins(p) PROVE CacheTypeOK'
    BY <1>4 DEF CopyBegins, Goto
  <1>5. ASSUME NEW p \in CacheProcs, CopyEnds(p) PROVE CacheTypeOK'
    BY <1>5 DEF CopyEnds, Goto, Mixed
  <1>6. ASSUME NEW p \in CacheProcs, Install(p) PROVE CacheTypeOK'
    <2>1. \E l \in {"meta", "touch"} : at' = [at EXCEPT ![p] = l]
      BY <1>6 DEF Install, Goto
    <2>2. dest' \in Copies \cup {NoFile}
      BY <1>6 DEF Install, InstallCopy
    <2>3. meta' \in Sidecars \cup {NoFile}
      <3>. HIDE DEF Sidecars
      <3>1. fprint[p] \in Int OBVIOUS
      <3>2. meta' \in {meta, [fp |-> fprint[p], old |-> FALSE]}
        BY <1>6 DEF Install, WriteMeta
      <3>. QED BY <3>1, <3>2, NewSidecar
    <2>4. UNCHANGED <<source, tmp, left, fprint>>
      BY <1>6 DEF Install
    <2>. QED BY <2>1, <2>2, <2>3, <2>4
  <1>7. ASSUME NEW p \in CacheProcs, Touch(p) PROVE CacheTypeOK'
    BY <1>7 DEF Touch, Goto, Touched
  <1>8. ASSUME NEW p \in CacheProcs, CacheCrash(p) PROVE CacheTypeOK'
    <2>1. meta' \in Sidecars \cup {NoFile}
      <3>. HIDE DEF Sidecars
      <3>1. meta' \in {meta, [fp |-> Blank, old |-> FALSE]}
        BY <1>8 DEF CacheCrash
      <3>2. Blank \in Int
        BY DEF Blank
      <3>. QED BY <3>1, <3>2, NewSidecar
    <2>. QED BY <1>8, <2>1 DEF CacheCrash, Goto
  <1>9. CASE UNCHANGED cacheVars
    BY <1>9 DEF cacheVars
  <1>. QED BY <1>1, <1>2, <1>3, <1>4, <1>5, <1>6, <1>7, <1>8, <1>9, <1>10, <1>11, <1>12 DEF CacheNext

\* A step that takes time clears the mark, and every other step leaves a copy
\* that was handed out young and in place: _prune spares it.
LEMMA YoungStep ==
  ASSUME \A p, q \in CacheProcs : p = q, CacheTypeOK, HandedOutIsYoung, [CacheNext]_cacheVars
  PROVE  HandedOutIsYoung' /\ (used /\ dest # NoFile => dest' # NoFile)
PROOF
  <1>. DEFINE Goal == HandedOutIsYoung' /\ (used /\ dest # NoFile => dest' # NoFile)
  <1>. USE CacheAssumption DEF CacheTypeOK, CacheAssumption, Copies, Sidecars, world,
       HandedOutIsYoung
  <1>1. CASE World
    <2>0. dest # NoFile => dest' # NoFile
      <3>1. dest' = dest \/ (dest # NoFile => dest' = [dest EXCEPT !.old = TRUE])
        BY <1>1 DEF World
      <3>2. dest # NoFile => [dest EXCEPT !.old = TRUE] \in [content : Int, old : BOOLEAN] OBVIOUS
      <3>. QED BY <3>1, <3>2
    <2>1. CASE used' = FALSE
      BY <2>0, <2>1
    <2>2. CASE UNCHANGED <<dest, used>>
      BY <1>1, <2>2 DEF World
    <2>. QED BY <1>1, <2>1, <2>2 DEF World
  <1>2. ASSUME NEW p \in CacheProcs, PruneBegins(p) PROVE Goal
    BY <1>2 DEF PruneBegins, Goto
  <1>10. ASSUME NEW p \in CacheProcs, PruneLooks(p) PROVE Goal
    <2>1. UNCHANGED <<dest, used>>
      BY <1>10 DEF PruneLooks
    <2>2. at'[p] = "unlink_dest" => dest # NoFile /\ dest.old
      BY <1>10 DEF PruneLooks, Goto, Old, Exists
    <2>. QED BY <2>1, <2>2
  <1>11. ASSUME NEW p \in CacheProcs, PruneUnlinks(p) PROVE Goal
    BY <1>11 DEF PruneUnlinks, Goto
  <1>3. ASSUME NEW p \in CacheProcs, Stat(p) PROVE Goal
    BY <1>3 DEF Stat, Goto
  <1>12. ASSUME NEW p \in CacheProcs, Check(p) PROVE Goal
    BY <1>12 DEF Check, Goto
  <1>4. ASSUME NEW p \in CacheProcs, CopyBegins(p) PROVE Goal
    BY <1>4 DEF CopyBegins, Goto
  <1>5. ASSUME NEW p \in CacheProcs, CopyEnds(p) PROVE Goal
    BY <1>5 DEF CopyEnds, Goto
  <1>6. ASSUME NEW p \in CacheProcs, Install(p) PROVE Goal
    BY <1>6 DEF Install, InstallCopy, Goto
  <1>7. ASSUME NEW p \in CacheProcs, Touch(p) PROVE Goal
    BY <1>7 DEF Touch, Goto, Touched
  <1>8. ASSUME NEW p \in CacheProcs, CacheCrash(p) PROVE Goal
    BY <1>8 DEF CacheCrash, Goto
  <1>9. CASE UNCHANGED cacheVars
    BY <1>9 DEF cacheVars
  <1>. QED BY <1>1, <1>2, <1>3, <1>4, <1>5, <1>6, <1>7, <1>8, <1>9, <1>10, <1>11, <1>12 DEF CacheNext

\* An empty cache satisfies both.
LEMMA CacheInitInv == CacheInit => CacheTypeOK /\ HandedOutIsYoung
  BY DEF CacheInit, CacheTypeOK, HandedOutIsYoung

\* With one process, a copy that was handed out within the retention period is
\* never pruned: materialize touches what it hands out before it returns it, and
\* the process prunes only between two calls.  With two, one may have looked up
\* the age of a copy just before the other touches it, and unlinks it.
THEOREM ActiveCopiesStay ==
  ASSUME \A p, q \in CacheProcs : p = q
  PROVE  CacheSpec => ActiveNeverExpires
PROOF
  <1>1. CacheTypeOK /\ HandedOutIsYoung /\ [CacheNext]_cacheVars => (CacheTypeOK /\ HandedOutIsYoung)'
    BY CacheTypeStep, YoungStep
  <1>2. CacheTypeOK /\ HandedOutIsYoung /\ [CacheNext]_cacheVars => [used /\ dest # NoFile => dest' # NoFile]_cacheVars
    BY YoungStep
  <1>. QED BY <1>1, <1>2, CacheInitInv, PTL DEF CacheSpec, ActiveNeverExpires

\* What a process that is alone with the cache knows of its own copy: the
\* fingerprint it took is no newer than the source, the metadata is no newer
\* than that fingerprint, and a temporary file is at least as new as the
\* fingerprint, or a mixture that the next stat tells from the source.
SoleCopier ==
  \A p \in CacheProcs :
    /\ at[p] \in {"check", "copy", "copying", "install", "meta"} =>
         /\ fprint[p] =< source
         /\ meta # NoFile => meta.fp =< fprint[p]
    /\ at[p] = "copying" => fprint[p] =< tmp[p] /\ tmp[p] =< source
    /\ at[p] = "install" => (tmp[p] = Mixed /\ fprint[p] < source) \/ (fprint[p] =< tmp[p] /\ tmp[p] =< source)
    /\ at[p] = "meta" => (dest # NoFile /\ fprint[p] = source => dest.content = source)

\* The metadata is never newer than the source.
SidecarNeverAhead == meta # NoFile => meta.fp =< source

\* The inductive invariant of a cache with one process.
OneCopierInv == SoleCopier /\ SidecarNeverAhead /\ HitIsCurrent

\* With one process, every step, a crash between the copy and its metadata
\* included, keeps it.
LEMMA OneCopierStep ==
  ASSUME \A p, q \in CacheProcs : p = q, CacheTypeOK, OneCopierInv, [CacheNext]_cacheVars
  PROVE  OneCopierInv'
PROOF
  <1>. USE CacheAssumption DEF CacheTypeOK, CacheAssumption, Copies, Sidecars, world, OneCopierInv,
       SoleCopier,
          SidecarNeverAhead, HitIsCurrent, Matches
  <1>1. CASE World
    BY <1>1 DEF World
  <1>2. ASSUME NEW p \in CacheProcs, PruneBegins(p) PROVE OneCopierInv'
    BY <1>2 DEF PruneBegins, Goto
  <1>10. ASSUME NEW p \in CacheProcs, PruneLooks(p) PROVE OneCopierInv'
    BY <1>10 DEF PruneLooks, Goto
  <1>11. ASSUME NEW p \in CacheProcs, PruneUnlinks(p) PROVE OneCopierInv'
    BY <1>11 DEF PruneUnlinks, Goto
  <1>3. ASSUME NEW p \in CacheProcs, Stat(p) PROVE OneCopierInv'
    BY <1>3 DEF Stat, Goto
  <1>12. ASSUME NEW p \in CacheProcs, Check(p) PROVE OneCopierInv'
    BY <1>12 DEF Check, Goto
  <1>4. ASSUME NEW p \in CacheProcs, CopyBegins(p) PROVE OneCopierInv'
    BY <1>4 DEF CopyBegins, Goto
  <1>5. ASSUME NEW p \in CacheProcs, CopyEnds(p) PROVE OneCopierInv'
    BY <1>5 DEF CopyEnds, Goto, Mixed
  <1>6. ASSUME NEW p \in CacheProcs, Install(p) PROVE OneCopierInv'
    <2>1. CASE at[p] = "install"
      BY <1>6, <2>1 DEF Install, InstallCopy, WriteMeta, Goto, Mixed
    <2>2. CASE at[p] = "meta"
      BY <1>6, <2>2 DEF Install, InstallCopy, WriteMeta, Goto
    <2>. QED BY <1>6, <2>1, <2>2 DEF Install
  <1>7. ASSUME NEW p \in CacheProcs, Touch(p) PROVE OneCopierInv'
    BY <1>7 DEF Touch, Goto, Touched
  <1>8. ASSUME NEW p \in CacheProcs, CacheCrash(p) PROVE OneCopierInv'
    BY <1>8 DEF CacheCrash, Goto, Blank
  <1>9. CASE UNCHANGED cacheVars
    BY <1>9 DEF cacheVars
  <1>. QED BY <1>1, <1>2, <1>3, <1>4, <1>5, <1>6, <1>7, <1>8, <1>9, <1>10, <1>11, <1>12 DEF CacheNext

\* With one process, a hit serves the source's contents: the fingerprint is
\* taken before the copy and the metadata is written after it, so metadata
\* that matches the source lies beside a copy of the source. With two
\* processes this fails: that is the expected violation of run bin_cache_two.
THEOREM HitsAreCurrent ==
  ASSUME \A p, q \in CacheProcs : p = q
  PROVE  CacheSpec => []HitIsCurrent
PROOF
  <1>1. CacheInit => CacheTypeOK /\ OneCopierInv
    BY CacheInitInv DEF CacheInit, OneCopierInv, SoleCopier, SidecarNeverAhead, HitIsCurrent, Matches
  <1>2. CacheTypeOK /\ OneCopierInv /\ [CacheNext]_cacheVars => (CacheTypeOK /\ OneCopierInv)'
    BY CacheTypeStep, OneCopierStep
  <1>3. OneCopierInv => HitIsCurrent
    BY DEF OneCopierInv
  <1>. QED BY <1>1, <1>2, <1>3, PTL DEF CacheSpec

-----------------------------------------------------------------------------
\* Watched paths.

\* The types of the watcher's state.
WatchTypeOK ==
  /\ edits \in Nat /\ content \in [WatchedPaths -> Nat] /\ quietSince \in Nat \X Nat
  /\ baseline \in [WatchedPaths -> Nat] /\ previous \in [WatchedPaths -> Nat] /\ current \in [WatchedPaths -> Nat]

\* A signature that a path got after the last scan ended, or a path that is
\* gone.
Fresh(sig) == sig = Missing \/ sig > quietSince[1]

\* Signatures are of writes that have happened; of a scan under way, those it
\* has come to.
SeenByNow ==
  /\ \A w \in WatchedPaths : content[w] =< edits /\ (baseline[w] = NotYet \/ baseline[w] =< edits)
  /\ watchAt = "scanning" => \A w \in WatchedPaths : current[w] = NotYet \/ current[w] =< edits

\* What the last scan saw was written before it ended. If the build has
\* written since, some path shows it: and if that was before this scan began,
\* then to this scan too, when it comes to that path.
ScansApart ==
  /\ watchAt \in {"asleep", "scanning"} =>
       quietSince[1] =< edits /\ \A w \in WatchedPaths : previous[w] =< quietSince[1]
  /\ watchAt = "asleep" /\ quietSince[1] # edits => \E w \in WatchedPaths : Fresh(content[w])
  /\ watchAt = "scanning" /\ quietSince[1] # quietSince[2] =>
       \E w \in WatchedPaths : Fresh(content[w]) /\ (current[w] = NotYet \/ Fresh(current[w]))

\* The inductive invariant of _watch_paths.
WatchInv == WatchTypeOK /\ SeenByNow /\ ScansApart

\* Every stat of the watcher, every write of the build and every end of the
\* process keeps it.
LEMMA WatchInductive == WatchInv /\ [WatchNext]_watchVars => WatchInv'
PROOF
  <1>. SUFFICES ASSUME WatchInv, [WatchNext]_watchVars PROVE WatchInv' OBVIOUS
  <1>h. WatchTypeOK /\ SeenByNow /\ ScansApart
    BY DEF WatchInv
  <1>n. NotYet \in Nat /\ Missing \in Nat /\ Nothing \in [WatchedPaths -> Nat] /\ \A w \in WatchedPaths : Nothing[w] = NotYet
    BY WatchAssumption DEF WatchAssumption, NotYet, Missing, Nothing
  <1>1. CASE BuildWrites
    <2>1. PICK v \in WatchedPaths, sig \in {Missing, edits + 1} : content' = [content EXCEPT ![v] = sig]
      BY <1>1 DEF BuildWrites
    <2>2. /\ edits' = edits + 1 /\ edits \in Nat /\ quietSince[1] \in Nat
          /\ UNCHANGED <<image, baseline, previous, current, watchAt, quietSince, firstLook>>
      BY <1>1, <1>h DEF BuildWrites, WatchTypeOK
    <2>3. sig \in Nat /\ sig =< edits + 1
      BY <2>2 DEF Missing
    <2>4. WatchTypeOK'
      BY <1>h, <2>1, <2>2, <2>3 DEF WatchTypeOK
    <2>5. SeenByNow'
      <3>1. \A w \in WatchedPaths : content'[w] =< edits + 1
        BY <1>h, <2>1, <2>2, <2>3 DEF WatchTypeOK, SeenByNow
      <3>2. \A w \in WatchedPaths : baseline[w] = NotYet \/ baseline[w] =< edits + 1
        BY <1>h, <2>2 DEF WatchTypeOK, SeenByNow
      <3>3. watchAt = "scanning" => \A w \in WatchedPaths : current[w] = NotYet \/ current[w] =< edits + 1
        BY <1>h, <2>2 DEF WatchTypeOK, SeenByNow
      <3>4. NotYet' = NotYet
        BY DEF NotYet
      <3>. QED BY <2>2, <3>1, <3>2, <3>3, <3>4 DEF SeenByNow
    <2>6. ScansApart'
      <3>1. quietSince[1] =< edits => Fresh(sig)
        BY <2>2 DEF Fresh
      <3>2. \A x : Fresh(x)' <=> Fresh(x)
        BY <2>2 DEF Fresh, Missing
      <3>3. \A w \in WatchedPaths : content'[w] = IF w = v THEN sig ELSE content[w]
        BY <1>h, <2>1 DEF WatchTypeOK
      <3>4. watchAt \in {"asleep", "scanning"} => quietSince[1] =< edits /\ quietSince[1] =< edits + 1
        BY <1>h, <2>2 DEF ScansApart
      <3>5. ASSUME watchAt = "asleep" PROVE \E w \in WatchedPaths : Fresh(content'[w])
        BY <3>1, <3>3, <3>4, <3>5
      <3>6. ASSUME watchAt = "scanning", quietSince[1] # quietSince[2]
            PROVE  \E w \in WatchedPaths : Fresh(content'[w]) /\ (current[w] = NotYet \/ Fresh(current[w]))
        <4>1. PICK w \in WatchedPaths : Fresh(content[w]) /\ (current[w] = NotYet \/ Fresh(current[w]))
          BY <1>h, <3>6 DEF ScansApart
        <4>2. Fresh(content'[w])
          BY <3>1, <3>3, <3>4, <3>6, <4>1
        <4>. QED BY <4>1, <4>2
      <3>7. watchAt \in {"asleep", "scanning"} => \A w \in WatchedPaths : previous[w] =< quietSince[1]
        BY <1>h DEF ScansApart
      <3>8. NotYet' = NotYet
        BY DEF NotYet
      <3>. HIDE DEF Fresh
      <3>. QED BY <2>2, <3>2, <3>4, <3>5, <3>6, <3>7, <3>8 DEF ScansApart
    <2>. QED BY <2>4, <2>5, <2>6 DEF WatchInv
  <1>2. CASE Launch
    BY <1>2, <1>h, <1>n DEF Launch, WatchInv, WatchTypeOK, SeenByNow, ScansApart
  <1>3. ASSUME NEW w \in WatchedPaths, TakeBaseline(w) PROVE WatchInv'
    <2>1. /\ watchAt = "launched" /\ baseline' = [baseline EXCEPT ![w] = content[w]] /\ previous' = baseline'
          /\ UNCHANGED <<content, edits, current>>
          /\ \/ watchAt' = "asleep" /\ quietSince' = <<edits, edits>> /\ \A v \in WatchedPaths : baseline'[v] # NotYet
             \/ UNCHANGED <<watchAt, quietSince>>
      BY <1>3 DEF TakeBaseline
    <2>2. WatchTypeOK'
      BY <1>h, <2>1 DEF WatchTypeOK
    <2>3. SeenByNow'
      BY <1>h, <2>1 DEF WatchTypeOK, SeenByNow, NotYet
    <2>4. ScansApart'
      <3>1. CASE UNCHANGED <<watchAt, quietSince>>
        BY <2>1, <3>1 DEF ScansApart
      <3>2. CASE watchAt' = "asleep" /\ quietSince' = <<edits, edits>> /\ \A v \in WatchedPaths : baseline'[v] # NotYet
        <4>1. \A v \in WatchedPaths : previous'[v] =< edits
          BY <1>h, <2>1, <3>2 DEF WatchTypeOK, SeenByNow
        <4>2. edits \in Nat
          BY <1>h DEF WatchTypeOK
        <4>. QED BY <2>1, <3>2, <4>1, <4>2 DEF ScansApart
      <3>. QED BY <2>1, <3>1, <3>2
    <2>. QED BY <2>2, <2>3, <2>4 DEF WatchInv
  <1>4. CASE WakeUp
    <2>1. /\ watchAt = "asleep" /\ watchAt' = "scanning" /\ current' = Nothing /\ quietSince' = <<quietSince[1], edits>>
          /\ UNCHANGED <<content, edits, baseline, previous>>
      BY <1>4 DEF WakeUp
    <2>2. WatchTypeOK'
      BY <1>h, <1>n, <2>1 DEF WatchTypeOK
    <2>3. SeenByNow'
      BY <1>h, <1>n, <2>1 DEF SeenByNow, NotYet
    <2>4. quietSince'[1] = quietSince[1] /\ quietSince'[2] = edits
      BY <2>1
    <2>5. \A x : Fresh(x)' <=> Fresh(x)
      BY <2>4 DEF Fresh, Missing
    <2>6. \A w \in WatchedPaths : current'[w] = NotYet'
      BY <1>n, <2>1 DEF NotYet
    <2>7. ScansApart'
      <3>1. quietSince[1] =< edits /\ \A w \in WatchedPaths : previous[w] =< quietSince[1]
        BY <1>h, <2>1 DEF ScansApart
      <3>2. quietSince[1] # edits => \E w \in WatchedPaths : Fresh(content[w])
        BY <1>h, <2>1 DEF ScansApart
      <3>. HIDE DEF Fresh
      <3>. QED BY <2>1, <2>4, <2>5, <2>6, <3>1, <3>2 DEF ScansApart
    <2>. QED BY <2>2, <2>3, <2>7 DEF WatchInv
  <1>5. ASSUME NEW v \in WatchedPaths, Scan(v) PROVE WatchInv'
    <2>1. /\ watchAt = "scanning" /\ current' = [current EXCEPT ![v] = content[v]]
          /\ UNCHANGED <<content, edits, baseline, previous, watchAt, quietSince>>
      BY <1>5 DEF Scan
    <2>2. WatchTypeOK'
      BY <1>h, <2>1 DEF WatchTypeOK
    <2>3. SeenByNow'
      BY <1>h, <2>1 DEF WatchTypeOK, SeenByNow, NotYet
    <2>4. \A x : Fresh(x)' <=> Fresh(x)
      BY <2>1 DEF Fresh, Missing
    <2>5. \A w \in WatchedPaths : current'[w] = IF w = v THEN content[w] ELSE current[w]
      BY <1>h, <2>1 DEF WatchTypeOK
    <2>6. quietSince[1] # quietSince[2] =>
            \E w \in WatchedPaths : Fresh(content[w]) /\ (current[w] = NotYet \/ Fresh(current[w]))
      BY <1>h, <2>1 DEF ScansApart
    <2>7. quietSince[1] =< edits /\ \A w \in WatchedPaths : previous[w] =< quietSince[1]
      BY <1>h, <2>1 DEF ScansApart
    <2>8. NotYet' = NotYet
      BY DEF NotYet
    <2>. HIDE DEF Fresh
    <2>9. quietSince[1] # quietSince[2] =>
            \E w \in WatchedPaths : Fresh(content[w]) /\ (current'[w] = NotYet \/ Fresh(current'[w]))
      BY <2>5, <2>6
    <2>10. ScansApart'
      BY <2>1, <2>4, <2>7, <2>8, <2>9 DEF ScansApart
    <2>. QED BY <2>2, <2>3, <2>10 DEF WatchInv
  <1>6. CASE Decide
    <2>1. /\ watchAt = "scanning" /\ watchAt' \in {"stopping", "asleep"} /\ previous' = current
          /\ \A w \in WatchedPaths : current[w] # NotYet
          /\ quietSince' = <<edits, quietSince[2]>> /\ UNCHANGED <<content, edits, baseline, current>>
      BY <1>6 DEF Decide, Scanned
    <2>2. WatchTypeOK'
      BY <1>h, <2>1 DEF WatchTypeOK
    <2>3. SeenByNow'
      BY <1>h, <2>1 DEF SeenByNow, NotYet
    <2>4. \A w \in WatchedPaths : current[w] =< edits
      BY <1>h, <2>1 DEF SeenByNow
    <2>5. quietSince'[1] = edits /\ edits \in Nat
      BY <1>h, <2>1 DEF WatchTypeOK
    <2>6. ScansApart'
      BY <2>1, <2>4, <2>5 DEF ScansApart
    <2>. QED BY <2>2, <2>3, <2>6 DEF WatchInv
  <1>7. CASE ProcessEnds
    BY <1>7, <1>h DEF ProcessEnds, WatchInv, WatchTypeOK, SeenByNow, ScansApart, NotYet
  <1>8. CASE UNCHANGED watchVars
    BY <1>8, <1>h DEF watchVars, WatchInv, WatchTypeOK, SeenByNow, ScansApart, Fresh, NotYet,
         Missing
  <1>. QED BY <1>1, <1>2, <1>3, <1>4, <1>5, <1>6, <1>7, <1>8 DEF WatchNext, Watcher

\* The invariant holds for every set of watched paths and every number of
\* writes.
THEOREM WatchInvariance == WatchSpec => []WatchInv
PROOF
  <1>1. WatchInit => WatchInv
    <2>1. NotYet \in Nat /\ Nothing \in [WatchedPaths -> Nat] /\ \A w \in WatchedPaths : Nothing[w] = NotYet
      BY WatchAssumption DEF WatchAssumption, NotYet, Nothing
    <2>. QED BY <2>1 DEF WatchInit, WatchInv, WatchTypeOK, SeenByNow, ScansApart
  <1>. QED BY <1>1, WatchInductive, PTL DEF WatchSpec

\* What a step that decides to relaunch may rely on.
Quiet ==
  watchAt = "scanning" /\ watchAt' = "stopping" =>
    /\ quietSince[1] = quietSince[2]
    /\ \A w \in WatchedPaths : current[w] # Missing

\* A change relaunches the process only if nothing was missing and the build
\* wrote nothing between the end of one scan and the beginning of the next,
\* whatever it wrote between the stats of either: a write in between leaves a
\* fresh signature, or none, on some path, so that the two scans cannot
\* agree.
THEOREM Relaunches == WatchSpec => RelaunchesWhenQuiet
PROOF
  <1>1. WatchInv /\ [WatchNext]_watchVars => [Quiet]_watchVars
    <2>. SUFFICES ASSUME WatchInv, [WatchNext]_watchVars, watchAt = "scanning", watchAt' = "stopping"
         PROVE  /\ quietSince[1] = quietSince[2]
                /\ \A w \in WatchedPaths : current[w] # Missing
      BY DEF Quiet
    <2>1. Decide
      BY DEF WatchNext, Watcher, BuildWrites, Launch, WakeUp, TakeBaseline, Scan, ProcessEnds,
           watchVars
    <2>2. /\ \A w \in WatchedPaths : current[w] # NotYet
          /\ \A w \in WatchedPaths : current[w] # Missing /\ current[w] = previous[w]
      BY <2>1 DEF Decide, Scanned, Settled
    <2>3. \A w \in WatchedPaths : previous[w] =< quietSince[1] /\ previous[w] \in Nat /\ quietSince[1] \in Nat
      BY DEF WatchInv, WatchTypeOK, ScansApart
    <2>4. \A w \in WatchedPaths : ~Fresh(current[w])
      BY <2>2, <2>3 DEF Fresh
    <2>5. quietSince[1] = quietSince[2]
      BY <2>2, <2>4 DEF WatchInv, ScansApart
    <2>. QED BY <2>2, <2>5
  <1>2. WatchSpec => [][Quiet]_watchVars
    BY <1>1, WatchInvariance, PTL DEF WatchSpec
  <1>. QED BY <1>2 DEF RelaunchesWhenQuiet, Quiet

-----------------------------------------------------------------------------
\* Calls of functions: what an answer tells.

\* The types of a call's state.
CallTypeOK ==
  /\ callAt \in [Calls -> {"new", "running", "killing", "answered"}]
  /\ child \in [Calls -> {"none", "running", "ok", "failed", "killed"}]
  /\ pipes \in [Calls -> {"closed", "child", "fork"}]
  /\ fnStatus \in [Calls -> {0, 200, 400, 404, 502, 503}]

\* A call that is not begun has no process; one that waits has one that
\* nobody killed, and after the timeout fired it is not running.
CallShape ==
  \A c \in Calls :
    /\ callAt[c] = "new" => child[c] = "none" /\ pipes[c] = "closed"
    /\ callAt[c] = "running" => child[c] \in {"running", "ok", "failed"}
    /\ callAt[c] = "killing" => child[c] # "running"

\* The inductive invariant of the function calls.
FnInv == CallTypeOK /\ CallShape /\ AnswersAreTrue

\* Every step of a call, of its process and of what that forked keeps it.
LEMMA FnInductive == FnInv /\ [FnNext]_fnVars => FnInv'
PROOF
  <1>. SUFFICES ASSUME FnInv, [FnNext]_fnVars PROVE FnInv' OBVIOUS
  <1>h. CallTypeOK /\ CallShape /\ AnswersAreTrue
    BY DEF FnInv
  <1>1. ASSUME NEW c \in Calls, CallFunction(c) PROVE FnInv'
    BY <1>1, <1>h DEF CallFunction, FnAnswer, FnInv, CallTypeOK, CallShape, AnswersAreTrue, Ended
  <1>2. ASSUME NEW c \in Calls, ChildExits(c) PROVE FnInv'
    BY <1>2, <1>h DEF ChildExits, FnInv, CallTypeOK, CallShape, AnswersAreTrue, Ended
  <1>3. ASSUME NEW c \in Calls, ForkEnds(c) PROVE FnInv'
    BY <1>3, <1>h DEF ForkEnds, FnInv, CallTypeOK, CallShape, AnswersAreTrue, Ended
  <1>4. ASSUME NEW c \in Calls, Communicated(c) PROVE FnInv'
    BY <1>4, <1>h DEF Communicated, FnAnswer, FnInv, CallTypeOK, CallShape, AnswersAreTrue, Ended
  <1>5. ASSUME NEW c \in Calls, TimeoutFires(c) PROVE FnInv'
    BY <1>5, <1>h DEF TimeoutFires, FnInv, CallTypeOK, CallShape, AnswersAreTrue, Ended
  <1>6. ASSUME NEW c \in Calls, Reaped(c) PROVE FnInv'
    BY <1>6, <1>h DEF Reaped, FnAnswer, FnInv, CallTypeOK, CallShape, AnswersAreTrue, Ended
  <1>7. CASE UNCHANGED fnVars
    BY <1>7, <1>h DEF fnVars, FnInv, CallTypeOK, CallShape, AnswersAreTrue, Ended
  <1>. QED BY <1>1, <1>2, <1>3, <1>4, <1>5, <1>6, <1>7 DEF FnNext, Driver

\* Whatever the function does while its timeout fires: 200 only for a process
\* that exited 0, 502 only for one that failed by itself, and no answer while
\* a process or its output is left.
THEOREM Answers == FnSpec => []AnswersAreTrue
PROOF
  <1>1. FnInit => FnInv
    BY DEF FnInit, FnInv, CallTypeOK, CallShape, AnswersAreTrue, Ended
  <1>2. FnInv => AnswersAreTrue
    BY DEF FnInv
  <1>. QED BY <1>1, <1>2, FnInductive, PTL DEF FnSpec

=============================================================================
