-------------------------------- MODULE Gates --------------------------------
(***************************************************************************)
(* One gate (orchestrator/gates.py): its cached check, the lock around it, *)
(* and its callers: run loops that ask `satisfied`, with or without        *)
(* refresh, and the continuous-gate watchers of service.py, which `poll`   *)
(* it and count failing runs.                                              *)
(*                                                                         *)
(* Time advances in ticks; a cached result is served for Recheck of them.  *)
(* A check is a subprocess that looks at the resource anywhere in its run, *)
(* at most Timeout ticks long; only the cache's stamp is of the run's end. *)
(* "counted" stands for counted[name] == stamp: the watcher has counted    *)
(* the run that the cache holds.                                           *)
(***************************************************************************)
EXTENDS Naturals, Sequences

CONSTANTS
  Loops,      \* run loops, which ask before a spawn and after a crash
  Watchers,   \* _watch_continuous_gates tasks
  Recheck,    \* recheck_seconds, in ticks
  Timeout,    \* timeout_seconds, in ticks
  CloseAfter  \* close_after

ASSUME GatesAssumption ==
  /\ Loops \cap Watchers = {}
  /\ Recheck \in Nat \ {0} /\ Timeout \in Nat
  /\ CloseAfter \in Nat \ {0}

Callers == Loops \cup Watchers

VARIABLES
  health,    \* what a check run would find now: "up", "down" or "flaky"
  steady,    \* ticks since health last changed, up to Recheck + Timeout
  cache,     \* the last result: "none", "pass" or "fail"
  age,       \* ticks since that run ended, up to Recheck
  queue,     \* the callers of _check, the holder of the lock first
  running,   \* the holder is running the command
  ran,       \* ticks since that run began
  may,       \* results it may end with: those of every health it has met
  refresh,   \* callers that passed refresh=True
  counted,   \* watchers that counted the cached run
  streaks,   \* streaks[name] of each watcher
  closed,    \* watchers that found the gate closed, and stop their service
  begunFor,  \* history: callers since whose call a run not given up began
  failRuns   \* history: failing runs since a watcher started or saw a pass

resultVars == <<cache, age, running, ran, may>>
streakVars == <<counted, streaks, closed>>
history   == <<begunFor, failRuns>>
gateVars == <<health, steady, resultVars, queue, refresh, streakVars, history>>

GateInit ==
  /\ health \in {"up", "down", "flaky"} /\ steady = 0
  /\ cache = "none" /\ age = Recheck
  /\ running = FALSE /\ ran = 0 /\ may = {}
  /\ queue = <<>> /\ refresh = {}
  /\ counted = {} /\ closed = {} /\ streaks = [w \in Watchers |-> 0]
  /\ begunFor = {} /\ failRuns = [w \in Watchers |-> 0]

------------------------------------------------------------------------------
UpTo(n, bound) == IF n < bound THEN n ELSE bound

\* What a check that looks at the resource now would find.
Results(h) == CASE h = "up"    -> {"pass"}
                [] h = "down"  -> {"fail"}
                [] h = "flaky" -> {"pass", "fail"}

\* No check runs for longer than Timeout.
Tick ==
  /\ running => ran < Timeout
  /\ steady' = UpTo(steady + 1, Recheck + Timeout)
  /\ age' = UpTo(age + 1, Recheck)
  /\ ran' = IF running THEN ran + 1 ELSE ran
  /\ UNCHANGED <<health, cache, running, may, queue, refresh, streakVars, history>>

HealthChanges ==
  /\ \E h \in {"up", "down", "flaky"} \ {health} :
       health' = h /\ may' = IF running THEN may \cup Results(h) ELSE may
  /\ steady' = 0
  /\ UNCHANGED <<cache, age, running, ran, queue, refresh, streakVars, history>>

Queued(c) == \E i \in 1 .. Len(queue) : queue[i] = c

\* satisfied() by a run loop, or poll() by a watcher on its next wake-up: the
\* caller lines up for the gate's lock.
Call(c, r) ==
  /\ ~Queued(c)
  /\ c \notin closed
  /\ queue' = Append(queue, c)
  /\ refresh' = IF r THEN refresh \cup {c} ELSE refresh
  /\ begunFor' = begunFor \ {c}
  /\ UNCHANGED <<health, steady, resultVars, streakVars, failRuns>>

Ask(c) == c \in Loops /\ \E r \in BOOLEAN : Call(c, r)
Poll(w) == w \in Watchers /\ Call(w, FALSE)

\* The result r of a run reaches a watcher that has not counted it.
Count(w, r) ==
  LET streak == IF r = "pass" THEN 0 ELSE streaks[w] + 1
  IN  /\ streaks' = [streaks EXCEPT ![w] = streak]
      /\ closed' = IF streak >= CloseAfter THEN closed \cup {w} ELSE closed

ForgetFails(f, w, r) == IF r = "pass" /\ w \in Watchers THEN [f EXCEPT ![w] = 0] ELSE f

\* _check returns to the holder of the lock.
Answer(c) ==
  /\ queue' = Tail(queue)
  /\ refresh' = refresh \ {c}

\* Variants: a run is counted again at every poll; a refreshing caller is served
\* from the cache.
CacheServesRecounted(c) ==
  /\ queue # <<>> /\ c = Head(queue)
  /\ ~running
  /\ cache # "none" /\ c \notin refresh /\ age < Recheck
  /\ Answer(c)
  /\ IF c \in Watchers
       THEN Count(c, cache) /\ counted' = counted \cup {c}
       ELSE UNCHANGED streakVars
  /\ failRuns' = ForgetFails(failRuns, c, cache)
  /\ UNCHANGED <<health, steady, resultVars, begunFor>>

CacheServesRefresh(c) ==
  /\ queue # <<>> /\ c = Head(queue)
  /\ ~running
  /\ cache # "none" /\ age < Recheck
  /\ Answer(c)
  /\ UNCHANGED <<health, steady, resultVars, streakVars, history>>

\* The lock holder finds a result that is young enough.
CacheServes(c) ==
  /\ queue # <<>> /\ c = Head(queue)
  /\ ~running
  /\ cache # "none" /\ c \notin refresh /\ age < Recheck
  /\ Answer(c)
  /\ IF c \in Watchers \ counted
       THEN Count(c, cache) /\ counted' = counted \cup {c}
       ELSE UNCHANGED streakVars
  /\ failRuns' = ForgetFails(failRuns, c, cache)
  /\ UNCHANGED <<health, steady, resultVars, begunFor>>

\* It does not, and runs the check.
CheckBegins(c) ==
  /\ queue # <<>> /\ c = Head(queue)
  /\ ~running
  /\ ~(cache # "none" /\ c \notin refresh /\ age < Recheck)
  /\ running' = TRUE /\ ran' = 0 /\ may' = Results(health)
  /\ begunFor' = begunFor \cup {x \in Callers : Queued(x)}
  /\ UNCHANGED <<health, steady, cache, age, queue, refresh, streakVars,
                 failRuns>>

\* Variant: a watcher marks a failing run of its own as counted, uncounted.
CheckEndsUncounted(c) ==
  \E r \in may :
    /\ queue # <<>> /\ c = Head(queue)
    /\ running
    /\ running' = FALSE /\ ran' = 0 /\ may' = {}
    /\ cache' = r /\ age' = 0
    /\ Answer(c)
    /\ counted' = {c} \cap Watchers
    /\ failRuns' = IF r = "pass" THEN ForgetFails(failRuns, c, r)
                   ELSE [w \in Watchers |-> UpTo(failRuns[w] + 1, CloseAfter)]
    /\ streaks' = IF r = "pass" THEN ForgetFails(streaks, c, r) ELSE streaks
    /\ UNCHANGED <<health, steady, closed, begunFor>>

\* The command exits, cannot be run, or times out (a failure, like the rest).
CheckEnds(c) ==
  \E r \in may :
    /\ queue # <<>> /\ c = Head(queue)
    /\ running
    /\ running' = FALSE /\ ran' = 0 /\ may' = {}
    /\ cache' = r /\ age' = 0
    /\ Answer(c)
    /\ IF c \in Watchers
         THEN Count(c, r) /\ counted' = {c}
         ELSE counted' = {} /\ UNCHANGED <<streaks, closed>>
    /\ failRuns' = IF r = "pass" THEN ForgetFails(failRuns, c, r)
                   ELSE [w \in Watchers |-> UpTo(failRuns[w] + 1, CloseAfter)]
    /\ UNCHANGED <<health, steady, begunFor>>

\* A new watcher has counted nothing, and may yet count the cached run.
Afresh(w) ==
  /\ counted' = counted \ {w}
  /\ streaks' = [streaks EXCEPT ![w] = 0]
  /\ failRuns' = [failRuns EXCEPT ![w] = IF cache = "fail" THEN 1 ELSE 0]

\* The service came back.
WatcherStarts(w) ==
  /\ w \in closed
  /\ closed' = closed \ {w}
  /\ Afresh(w)
  /\ UNCHANGED <<health, steady, resultVars, queue, refresh, begunFor>>

Without(q, i) == [j \in 1 .. Len(q) - 1 |-> q[IF j < i THEN j ELSE j + 1]]

\* The process exits for a reason of its own: its watcher is cancelled wherever
\* it is, in the queue or in the middle of a check, which then leaves no result.
\* The next process has a new one.
WatcherCancelled(w) ==
  /\ w \notin closed
  /\ \/ ~Queued(w) /\ UNCHANGED <<queue, running, ran, may, begunFor>>
     \/ \E i \in 1 .. Len(queue) :
          /\ queue[i] = w
          /\ queue' = Without(queue, i)
          /\ IF running /\ i = 1
               THEN running' = FALSE /\ ran' = 0 /\ may' = {} /\ begunFor' = {}
               ELSE UNCHANGED <<running, ran, may, begunFor>>
  /\ Afresh(w)
  /\ UNCHANGED <<health, steady, cache, age, refresh, closed>>

GateNext ==
  \/ Tick \/ HealthChanges
  \/ \E c \in Callers : CacheServes(c) \/ CheckBegins(c) \/ CheckEnds(c)
  \/ \E c \in Loops : Ask(c)
  \/ \E w \in Watchers : Poll(w) \/ WatcherStarts(w) \/ WatcherCancelled(w)

GateSpec == GateInit /\ [][GateNext]_gateVars

\* Fairness: time passes, a check ends (it has a timeout), the lock is handed
\* on first come, first served, and a watcher keeps waking up.
GateFairSpec ==
  /\ GateSpec
  /\ WF_gateVars(Tick)
  /\ \A c \in Callers :
       WF_gateVars(CacheServes(c)) /\ WF_gateVars(CheckBegins(c)) /\ WF_gateVars(CheckEnds(c))
  /\ \A w \in Watchers : WF_gateVars(Poll(w))

------------------------------------------------------------------------------
(***************************************************************************)
(* Properties.                                                             *)
(***************************************************************************)
Answered(c) == CacheServes(c) \/ CheckEnds(c)

\* A gate that has been up (down) for recheck_seconds and timeout_seconds together
\* passes (fails) for every caller, cached or not: a result may be as old as the
\* run was long when it is stored, and is served for recheck_seconds after that.
\* And the answer by which a crash is classified (refresh=True) comes from a run
\* that began after the crash, even if the caller had to queue behind a run that
\* was already under way, or that was given up.
AnswersAreCurrent ==
  [][\A c \in Callers : Answered(c) =>
       /\ steady = Recheck + Timeout /\ health = "up" => cache' = "pass"
       /\ steady = Recheck + Timeout /\ health = "down" => cache' = "fail"
       /\ c \in refresh => c \in begunFor]_gateVars

\* "A single real flake ... re-counted from cache" never closes a gate: a
\* watcher's streak is covered by as many different failing runs.
StreakCountsRuns ==
  \A w \in Watchers : streaks[w] <= failRuns[w]

\* Nobody waits for ever behind the lock; and a gate that stays down closes under
\* every watcher whose process does not keep crashing, however the other callers
\* keep refreshing it.
DownCloses ==
  /\ \A c \in Callers : Queued(c) ~> ~Queued(c)
  /\ \A w \in Watchers :
       <>[](health = "down") =>
         []<>(w \in closed) \/ []<><<WatcherCancelled(w)>>_gateVars
==============================================================================
