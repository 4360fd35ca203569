------------------------------- MODULE Pinning -------------------------------
(***************************************************************************)
(* Pinned binary groups (orchestrator/resolvers.py, Resolvers; and         *)
(* orchestrator/supervisor.py, _enforce_pinning): the services that share  *)
(* one resolver with refresh = "spawn" and several `provides`, spawning,   *)
(* exiting and bouncing each other while the published release moves.      *)
(*                                                                         *)
(* A resolution result is identified by its generation, which moves        *)
(* exactly when the result differs from the cached one.  The run loop of   *)
(* module Service is reduced to what pinning sees of it:                   *)
(*                                                                         *)
(*   rest    between incarnations      lock  waiting for the resolver lock *)
(*   run     running the resolver      second  awaiting a later resolver   *)
(*   exec    create_subprocess_exec    live  the process runs              *)
(***************************************************************************)
EXTENDS Naturals

CONSTANTS
  Services,  \* the services that use the pinned resolver
  Slow,      \* those that also use another resolver, resolved after it
  Gated,     \* those with a continuous gate
  Watched,   \* those with watched paths, a change of which restarts them
  MaxGen     \* bound on the generations explored

ASSUME PinningAssumption ==
  /\ Slow \cup Gated \cup Watched \subseteq Services
  /\ MaxGen \in Nat \ {0}

VARIABLES
  pc,          \* where the spawn of each service is
  generation,  \* Resolvers.generation of the resolver, 0 before any result
  fresh,       \* the cached result is younger than cache_seconds
  moved,       \* the published release differs from the cached result
  bin,         \* the generation whose binaries each service resolved last
  spawnGens,   \* Supervisor._spawn_gens, 0 for a service not in it
  bounceTasks, \* services with a restart() task created and not yet started
  bounced,     \* services whose _bounce_requested is True
  told,        \* services whose process restart() has told to end
  overtaken    \* history: services that had resolved, and not yet launched,
               \* when the generation moved

pinVars == <<pc, generation, fresh, moved, bin, spawnGens, bounceTasks, bounced,
          told, overtaken>>

PinTypeOK ==
  /\ pc \in [Services -> {"rest", "lock", "run", "second", "exec", "live"}]
  /\ generation \in 0 .. MaxGen
  /\ fresh \in BOOLEAN /\ moved \in BOOLEAN
  /\ bin \in [Services -> 0 .. MaxGen]
  /\ spawnGens \in [Services -> 0 .. MaxGen]
  /\ bounceTasks \subseteq Services
  /\ bounced \subseteq Services /\ told \subseteq Services
  /\ overtaken \subseteq Services

PinInit ==
  /\ pc = [s \in Services |-> "rest"]
  /\ generation = 0 /\ fresh = FALSE /\ moved = TRUE
  /\ bin = [s \in Services |-> 0]
  /\ spawnGens = [s \in Services |-> 0]
  /\ bounceTasks = {} /\ bounced = {} /\ told = {} /\ overtaken = {}

------------------------------------------------------------------------------
\* A release is published, or withdrawn before anyone resolved it.
Publish ==
  /\ generation \in 1 .. MaxGen - 1
  /\ moved' = ~moved
  /\ UNCHANGED <<pc, generation, fresh, bin, spawnGens, bounceTasks, bounced, told, overtaken>>

CacheExpires ==
  /\ fresh
  /\ fresh' = FALSE
  /\ UNCHANGED <<pc, generation, moved, bin, spawnGens, bounceTasks, bounced, told, overtaken>>

\* A restart() task runs up to its first await in the loop iteration after its
\* creation.  A launch or an exit of its service may be due before it; the
\* steps that need further awaits come after it.
Spawning(s) == s \notin bounceTasks

PinGoto(s, p) == pc' = [pc EXCEPT ![s] = p]

\* The renderer of s asks for its binaries.
Render(s) ==
  /\ pc[s] = "rest"
  /\ Spawning(s)
  /\ PinGoto(s, "lock")
  /\ UNCHANGED <<generation, fresh, moved, bin, spawnGens, bounceTasks, bounced, told, overtaken>>

\* Variants: nobody is bounced; everybody is; a record is never replaced.
EnforceNothing(s, gen) ==
  /\ PinGoto(s, "exec")
  /\ spawnGens' = [spawnGens EXCEPT ![s] = gen]
  /\ UNCHANGED bounceTasks

BounceEverybody(s, gen) ==
  /\ PinGoto(s, "exec")
  /\ spawnGens' = [spawnGens EXCEPT ![s] = gen]
  /\ bounceTasks' = bounceTasks \cup {o \in Services \ {s} : spawnGens[o] # 0}

EnforceOnce(s, gen) ==
  /\ PinGoto(s, "exec")
  /\ spawnGens' = [spawnGens EXCEPT ![s] = IF @ = 0 THEN gen ELSE @]
  /\ bounceTasks' = bounceTasks \cup
       {o \in Services \ {s} : spawnGens[o] \notin {0, gen}}

\* _enforce_pinning: record the resolver's generation as it is now, and create
\* a restart() task for every other service recorded on another one.
EnforcePinning(s, gen) ==
  /\ PinGoto(s, "exec")
  /\ spawnGens' = [spawnGens EXCEPT ![s] = gen]
  /\ bounceTasks' = bounceTasks \cup
       {o \in Services \ {s} : spawnGens[o] \notin {0, gen}}

\* _resolve returned for s: on to the next resolver, or to pinning and exec.
Resolved(s, gen) ==
  /\ bin' = [bin EXCEPT ![s] = gen]
  /\ IF s \in Slow
       THEN PinGoto(s, "second") /\ UNCHANGED <<spawnGens, bounceTasks>>
       ELSE EnforcePinning(s, gen)

LockFree == \A o \in Services : pc[o] # "run"

\* _resolve: under the lock, a fresh cached result is served ...
CacheHit(s) ==
  /\ pc[s] = "lock"
  /\ Spawning(s)
  /\ LockFree
  /\ generation > 0 /\ fresh
  /\ Resolved(s, generation)
  /\ overtaken' = overtaken \ {s}
  /\ UNCHANGED <<generation, fresh, moved, bounced, told>>

\* ... otherwise the resolver, a program, is run with the lock held.  No run that
\* begins during the few loop iterations of a create_subprocess_exec, which wait
\* for no input or output, ends before them: it may as well begin after them.
RunResolver(s) ==
  /\ pc[s] = "lock"
  /\ Spawning(s)
  /\ LockFree
  /\ \A o \in Services : pc[o] # "exec"
  /\ ~(generation > 0 /\ fresh)
  /\ PinGoto(s, "run")
  /\ UNCHANGED <<generation, fresh, moved, bin, spawnGens, bounceTasks, bounced, told, overtaken>>

\* Its generation moves if the result did.
NewGeneration == IF moved THEN generation + 1 ELSE generation

ResolverReturns(s) ==
  /\ pc[s] = "run"
  /\ Spawning(s)
  /\ generation' = NewGeneration
  /\ fresh' = TRUE
  /\ moved' = FALSE
  /\ overtaken' = (overtaken \ {s}) \cup
       {o \in Services \ {s} : NewGeneration # generation /\ pc[o] \in {"second", "exec"}}
  /\ Resolved(s, NewGeneration)
  /\ UNCHANGED <<bounced, told>>

\* A ResolveError, of either resolver, or a failed exec: back to the run loop,
\* which takes exit code 127 like any other and clears a flag it finds.
SpawnFails(s) ==
  /\ pc[s] \in {"run", "second", "exec"}
  /\ PinGoto(s, "rest")
  /\ bounced' = bounced \ {s}
  /\ UNCHANGED <<generation, fresh, moved, bin, spawnGens, bounceTasks, told, overtaken>>

\* context_for is done: the generation recorded is the one of now, not the one
\* whose binaries were resolved before the second await.
SecondReturns(s) ==
  /\ pc[s] = "second"
  /\ Spawning(s)
  /\ EnforcePinning(s, generation)
  /\ UNCHANGED <<generation, fresh, moved, bin, bounced, told, overtaken>>

Launched(s) ==
  /\ pc[s] = "exec"
  /\ PinGoto(s, "live")
  /\ UNCHANGED <<generation, fresh, moved, bin, spawnGens, bounceTasks, bounced, told, overtaken>>

\* restart() starts: a live service whose flag is not set is told to end; anything
\* else is left alone ("between incarnations; the next spawn re-resolves").
BounceRuns(o) ==
  /\ o \in bounceTasks
  /\ bounceTasks' = bounceTasks \ {o}
  /\ IF pc[o] = "live" /\ o \notin bounced
       THEN bounced' = bounced \cup {o} /\ told' = told \cup {o}
       ELSE UNCHANGED <<bounced, told>>
  /\ UNCHANGED <<pc, generation, fresh, moved, bin, spawnGens, overtaken>>

\* The process ends, bounced or by itself.  The run loop clears the flag, unless
\* the continuous gate stopped the same incarnation: then a flag that pinning, or
\* a change of a watched path, has set is left for the next one.
Exits(s) ==
  /\ pc[s] = "live"
  /\ PinGoto(s, "rest")
  /\ \/ bounced' = bounced \ {s}
     \/ s \in Gated /\ s \in bounced \cup Watched /\ bounced' = bounced \cup {s}
  /\ told' = told \ {s}
  /\ UNCHANGED <<generation, fresh, moved, bin, spawnGens, bounceTasks, overtaken>>

PinNext ==
  \/ Publish \/ CacheExpires
  \/ \E s \in Services :
       \/ Render(s) \/ CacheHit(s) \/ RunResolver(s) \/ ResolverReturns(s)
       \/ SecondReturns(s) \/ SpawnFails(s) \/ Launched(s)
       \/ BounceRuns(s) \/ Exits(s)

PinSpec == PinInit /\ [][PinNext]_pinVars

------------------------------------------------------------------------------
(***************************************************************************)
(* Properties.                                                             *)
(***************************************************************************)

\* Live, and neither told to end nor about to be.
SettledPins(s) == pc[s] = "live" /\ s \notin told \cup bounceTasks

\* orchestrator.md: pinned groups restart together, "so the group can never
\* run split across versions".
NeverSplit ==
  \A a, b \in Services : SettledPins(a) /\ SettledPins(b) => bin[a] = bin[b]

\* What the code does guarantee: a settled split needs a member that was between
\* resolving its binaries and launching them when the release moved, or one whose
\* _bounce_requested is still set from an incarnation that its gate stopped, so
\* that restart() refuses it.
SplitOnlyIfOvertaken ==
  \A a, b \in Services \ (overtaken \cup bounced) :
    SettledPins(a) /\ SettledPins(b) => bin[a] = bin[b]

\* The trigger is the result changing, "never the crash itself": a service is
\* told to end only off binaries that are outdated.
BouncedOnlyIfOutdated ==
  [][\A o \in Services : o \in told' \ told => bin[o] # generation]_pinVars

\* supervisor.py of _spawn_gens, "Per service: the resolver generations its
\* live incarnation was spawned from": so it is, unless the release moved
\* between the resolving of the binaries and their launch.
RecordedUnlessOvertaken ==
  \A s \in Services \ overtaken : pc[s] = "live" => spawnGens[s] = bin[s]

\* The cache: there is a result exactly from generation 1 on, and a release
\* yet to be resolved has a generation left.
CacheShape ==
  /\ generation = 0 => moved
  /\ moved => generation < MaxGen

\* The binaries of a service that has resolved are of a generation that was,
\* its record is no older, and both are of now as long as no release overtook
\* it before its launch.
ResolvedShape ==
  \A s \in Services :
    /\ pc[s] \in {"second", "exec", "live"} => bin[s] > 0 /\ bin[s] <= generation
    /\ pc[s] \in {"exec", "live"} => bin[s] <= spawnGens[s]
    /\ pc[s] \in {"second", "exec"} /\ s \notin overtaken => bin[s] = generation
    /\ spawnGens[s] <= generation

\* A restart() task is for binaries that are outdated, if they run at all.
TasksAreDue ==
  \A s \in bounceTasks : pc[s] \in {"exec", "live"} => bin[s] < generation

\* The services that are up, or come up, on what they resolved, and that restart()
\* would end.
CurrentBin(s) == s \notin overtaken \cup bounced /\ (pc[s] = "exec" \/ SettledPins(s))

CurrentAgree == \A a, b \in Services : CurrentBin(a) /\ CurrentBin(b) => bin[a] = bin[b]

\* The inductive invariant.
PinningInv ==
  /\ PinTypeOK /\ CacheShape /\ ResolvedShape /\ TasksAreDue
  /\ RecordedUnlessOvertaken /\ CurrentAgree
==============================================================================
