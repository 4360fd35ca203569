---------------------------- MODULE PinningProofs ----------------------------
(***************************************************************************)
(* What holds of a pinned group for every set of services, every choice of *)
(* the slow, the gated and the watched ones, and every number of releases. *)
(***************************************************************************)
EXTENDS Pinning, TLAPS

\* Every service of a fresh supervisor rests.
LEMMA InitInv == PinInit => PinningInv
  <1>. SUFFICES ASSUME PinInit PROVE PinningInv
    OBVIOUS
  <1>1. moved /\ fresh \in BOOLEAN /\ moved \in BOOLEAN
    BY Zenon DEF PinInit
  <1>2. generation = 0 /\ MaxGen \in Nat /\ MaxGen > 0
    BY PinningAssumption DEF PinInit
  <1>3. \A s \in Services : pc[s] = "rest" /\ spawnGens[s] = 0
    BY DEF PinInit
  <1>4. PinTypeOK
    BY <1>1, <1>2 DEF PinInit, PinTypeOK
  <1>5. CacheShape /\ ResolvedShape
    BY <1>1, <1>2, <1>3 DEF CacheShape, ResolvedShape
  <1>6. TasksAreDue /\ RecordedUnlessOvertaken /\ CurrentAgree
    BY <1>3 DEF PinInit, TasksAreDue, RecordedUnlessOvertaken, CurrentAgree, CurrentBin, SettledPins
  <1>. QED BY <1>4, <1>5, <1>6 DEF PinningInv

------------------------------------------------------------------------------
\* What s does between two awaits, its overtaking of others aside: the conjuncts
\* that follow from where it goes next.  gen is the generation it resolved or
\* records, which is the one of now.
LEMMA EnforceStep ==
  ASSUME PinningInv, NEW s \in Services, s \notin bounceTasks,
         NEW gen \in 1 .. MaxGen, gen >= generation, generation' = gen,
         EnforcePinning(s, gen),
         moved' \in BOOLEAN, fresh' \in BOOLEAN,
         moved' => gen < MaxGen,
         bin' \in [Services -> 0 .. MaxGen],
         \A o \in Services \ {s} : bin'[o] = bin[o],
         bin'[s] > 0, bin'[s] <= gen,
         s \notin overtaken' => bin'[s] = gen,
         overtaken' \subseteq Services,
         \A o \in Services \ {s} :
           o \notin overtaken' =>
             /\ o \notin overtaken
             /\ pc[o] \in {"second", "exec"} => generation = gen,
         bounced' = bounced, told' = told
  PROVE  PinningInv'
  <1>1. /\ pc' = [pc EXCEPT ![s] = "exec"]
        /\ spawnGens' = [spawnGens EXCEPT ![s] = gen]
        /\ bounceTasks' = bounceTasks \cup
             {o \in Services \ {s} : spawnGens[o] \notin {0, gen}}
    BY DEF EnforcePinning, PinGoto
  <1>2. PinTypeOK
    BY DEF PinningInv
  <1>3. /\ pc'[s] = "exec" /\ spawnGens'[s] = gen /\ s \notin bounceTasks'
        /\ \A o \in Services \ {s} : pc'[o] = pc[o] /\ spawnGens'[o] = spawnGens[o]
    BY <1>1, <1>2 DEF PinTypeOK
  <1>4. generation \in Nat /\ gen \in Nat /\ MaxGen \in Nat
    BY <1>2, PinningAssumption DEF PinTypeOK
  <1>5. \A o \in Services : /\ spawnGens[o] \in Nat /\ bin[o] \in Nat /\ bin'[o] \in Nat
                            /\ spawnGens[o] <= generation
    BY <1>2, <1>4 DEF PinTypeOK, PinningInv, ResolvedShape
  <1>6. PinTypeOK'
    <2>1. pc' \in [Services -> {"rest", "lock", "run", "second", "exec", "live"}]
      BY <1>1, <1>2 DEF PinTypeOK
    <2>2. spawnGens' \in [Services -> 0 .. MaxGen]
      BY <1>1, <1>2 DEF PinTypeOK
    <2>3. bounceTasks' \subseteq Services /\ generation' \in 0 .. MaxGen
      BY <1>1, <1>2, <1>4 DEF PinTypeOK
    <2>. QED BY <1>2, <2>1, <2>2, <2>3 DEF PinTypeOK
  <1>7. CacheShape'
    BY <1>4 DEF CacheShape
  <1>8. ResolvedShape'
    <2>. SUFFICES ASSUME NEW o \in Services
         PROVE /\ pc'[o] \in {"second", "exec", "live"} => bin'[o] > 0 /\ bin'[o] <= gen
               /\ pc'[o] \in {"exec", "live"} => bin'[o] <= spawnGens'[o]
               /\ pc'[o] \in {"second", "exec"} /\ o \notin overtaken' => bin'[o] = gen
               /\ spawnGens'[o] <= gen
      BY DEF ResolvedShape
    <2>1. CASE o = s
      BY <2>1, <1>3, <1>4, <1>5
    <2>2. CASE o # s
      BY <2>2, <1>3, <1>4, <1>5 DEF PinningInv, ResolvedShape
    <2>. QED BY <2>1, <2>2
  <1>9. TasksAreDue'
    <2>. SUFFICES ASSUME NEW o \in bounceTasks', pc'[o] \in {"exec", "live"}
         PROVE  bin'[o] < gen
      BY DEF TasksAreDue
    <2>1. o \in Services \ {s} /\ pc[o] \in {"exec", "live"} /\ bin'[o] = bin[o]
      BY <1>2, <1>3, <1>1 DEF PinTypeOK
    <2>2. CASE o \in bounceTasks
      BY <2>1, <2>2, <1>4, <1>5 DEF PinningInv, TasksAreDue
    <2>3. CASE spawnGens[o] # gen
      BY <2>1, <2>3, <1>4, <1>5 DEF PinningInv, ResolvedShape
    <2>. QED BY <2>2, <2>3, <1>1
  <1>10. RecordedUnlessOvertaken'
    BY <1>3 DEF PinningInv, RecordedUnlessOvertaken
  <1>11. \A o \in Services : CurrentBin(o)' => bin'[o] = gen
    <2>. SUFFICES ASSUME NEW o \in Services, CurrentBin(o)' PROVE bin'[o] = gen
      OBVIOUS
    <2>1. CASE o = s
      BY <2>1 DEF CurrentBin
    <2>2. CASE o # s /\ pc[o] = "exec"
      BY <2>2 DEF CurrentBin, PinningInv, ResolvedShape
    <2>3. CASE o # s /\ pc[o] # "exec"
      <3>1. pc[o] = "live" /\ o \notin overtaken /\ o \notin bounceTasks'
        BY <2>3, <1>3 DEF CurrentBin, SettledPins
      <3>2. spawnGens[o] \in {0, gen}
        BY <3>1, <2>3, <1>1
      <3>3. spawnGens[o] = bin[o] /\ bin[o] > 0
        BY <3>1 DEF PinningInv, RecordedUnlessOvertaken, ResolvedShape
      <3>. QED BY <2>3, <3>2, <3>3, <1>5
    <2>. QED BY <2>1, <2>2, <2>3
  <1>. QED BY <1>6, <1>7, <1>8, <1>9, <1>10, <1>11 DEF PinningInv, CurrentAgree

\* The steps of one service that change neither the cache nor a record.
LEMMA QuietStep ==
  ASSUME PinningInv, NEW s \in Services,
         NEW p \in {"rest", "lock", "run", "live"}, PinGoto(s, p),
         p = "live" => pc[s] = "exec",
         bounced' \in {bounced, bounced \ {s}, bounced \cup {s}},
         told' \in {told, told \ {s}},
         p # "rest" => bounced' = bounced /\ told' = told,
         UNCHANGED <<generation, fresh, moved, bin, spawnGens, bounceTasks, overtaken>>
  PROVE  PinningInv'
  <1>1. PinTypeOK /\ pc' = [pc EXCEPT ![s] = p]
    BY DEF PinningInv, PinGoto
  <1>2. pc'[s] = p /\ \A o \in Services \ {s} : pc'[o] = pc[o]
    BY <1>1 DEF PinTypeOK
  <1>b. /\ bounced' \subseteq Services /\ told' \subseteq Services
        /\ \A o \in Services \ {s} : (o \in bounced' <=> o \in bounced) /\ (o \in told' <=> o \in told)
    BY <1>1 DEF PinTypeOK
  <1>3. PinTypeOK' /\ CacheShape'
    BY <1>1, <1>b DEF PinTypeOK, PinningInv, CacheShape
  <1>4. ResolvedShape'
    BY <1>2 DEF PinningInv, ResolvedShape
  <1>5. TasksAreDue'
    BY <1>2, <1>1 DEF PinningInv, TasksAreDue, PinTypeOK
  <1>6. RecordedUnlessOvertaken'
    <2>. SUFFICES ASSUME NEW o \in Services \ overtaken, pc'[o] = "live"
         PROVE  spawnGens[o] = bin[o]
      BY DEF RecordedUnlessOvertaken
    <2>1. CASE pc[o] = "live"
      BY <2>1 DEF PinningInv, RecordedUnlessOvertaken
    <2>2. CASE pc[o] = "exec"
      <3>1. bin[o] = generation /\ bin[o] <= spawnGens[o] /\ spawnGens[o] <= generation
        BY <2>2 DEF PinningInv, ResolvedShape
      <3>2. bin[o] \in Nat /\ spawnGens[o] \in Nat /\ generation \in Nat
        BY <1>1, PinningAssumption DEF PinTypeOK
      <3>. QED BY <3>1, <3>2
    <2>. QED BY <2>1, <2>2, <1>2
  <1>7. \A o \in Services : CurrentBin(o)' => CurrentBin(o)
    <2>. SUFFICES ASSUME NEW o \in Services, CurrentBin(o)' PROVE CurrentBin(o)
      OBVIOUS
    <2>1. CASE o = s
      BY <2>1, <1>2 DEF CurrentBin, SettledPins
    <2>2. CASE o # s
      BY <2>2, <1>2, <1>b DEF CurrentBin, SettledPins
    <2>. QED BY <2>1, <2>2
  <1>8. CurrentAgree'
    BY <1>7 DEF PinningInv, CurrentAgree
  <1>. QED BY <1>3, <1>4, <1>5, <1>6, <1>8 DEF PinningInv

------------------------------------------------------------------------------
\* The resolver answers s with generation gen, from its cache or by a run.
LEMMA ResolvedStep ==
  ASSUME PinningInv, NEW s \in Services, s \notin bounceTasks,
         NEW gen \in 1 .. MaxGen, gen >= generation, generation' = gen,
         Resolved(s, gen),
         moved' \in BOOLEAN, fresh' \in BOOLEAN, moved' => gen < MaxGen,
         overtaken' = (overtaken \ {s}) \cup
           {o \in Services \ {s} : gen # generation /\ pc[o] \in {"second", "exec"}},
         bounced' = bounced, told' = told
  PROVE  PinningInv'
  <1>1. PinTypeOK /\ bin' = [bin EXCEPT ![s] = gen]
    BY DEF PinningInv, Resolved
  <1>2. /\ bin' \in [Services -> 0 .. MaxGen] /\ bin'[s] = gen
        /\ \A o \in Services \ {s} : bin'[o] = bin[o]
    BY <1>1 DEF PinTypeOK
  <1>3. generation \in Nat /\ gen \in Nat /\ MaxGen \in Nat /\ gen > 0
    BY <1>1, PinningAssumption DEF PinTypeOK
  <1>4. /\ overtaken' \subseteq Services
        /\ \A o \in Services \ {s} :
             o \notin overtaken' =>
               /\ o \notin overtaken
               /\ pc[o] \in {"second", "exec"} => generation = gen
    BY <1>1 DEF PinTypeOK
  <1>5. CASE s \notin Slow
    <2>1. EnforcePinning(s, gen)
      BY <1>5 DEF Resolved
    <2>. QED BY <2>1, <1>2, <1>3, <1>4, EnforceStep
  <1>6. CASE s \in Slow
    <2>1. pc' = [pc EXCEPT ![s] = "second"] /\ UNCHANGED <<spawnGens, bounceTasks>>
      BY <1>6 DEF Resolved, PinGoto
    <2>2. pc'[s] = "second" /\ \A o \in Services \ {s} : pc'[o] = pc[o]
      BY <2>1, <1>1 DEF PinTypeOK
    <2>3. PinTypeOK'
      BY <2>1, <1>1, <1>2, <1>3, <1>4 DEF PinTypeOK
    <2>4. CacheShape'
      BY <1>3 DEF CacheShape
    <2>5. \A o \in Services : spawnGens[o] \in Nat /\ bin[o] \in Nat
      BY <1>1 DEF PinTypeOK
    <2>6. ResolvedShape'
      <3>. SUFFICES ASSUME NEW o \in Services
           PROVE /\ pc'[o] \in {"second", "exec", "live"} => bin'[o] > 0 /\ bin'[o] <= gen
                 /\ pc'[o] \in {"exec", "live"} => bin'[o] <= spawnGens[o]
                 /\ pc'[o] \in {"second", "exec"} /\ o \notin overtaken' => bin'[o] = gen
                 /\ spawnGens[o] <= gen
        BY <2>1 DEF ResolvedShape
      <3>1. CASE o = s
        BY <3>1, <2>2, <2>5, <1>2, <1>3 DEF PinningInv, ResolvedShape
      <3>2. CASE o # s
        BY <3>2, <2>2, <2>5, <1>2, <1>3, <1>4 DEF PinningInv, ResolvedShape
      <3>. QED BY <3>1, <3>2
    <2>7. TasksAreDue'
      BY <2>1, <2>2, <2>5, <1>1, <1>2, <1>3 DEF PinningInv, TasksAreDue, PinTypeOK
    <2>8. RecordedUnlessOvertaken'
      BY <2>1, <2>2, <1>2, <1>4 DEF PinningInv, RecordedUnlessOvertaken
    <2>9. \A o \in Services : CurrentBin(o)' => o # s /\ CurrentBin(o)
      BY <2>1, <2>2, <1>4 DEF CurrentBin, SettledPins
    <2>10. CurrentAgree'
      BY <2>9, <1>2 DEF PinningInv, CurrentAgree
    <2>. QED BY <2>3, <2>4, <2>6, <2>7, <2>8, <2>10 DEF PinningInv
  <1>. QED BY <1>5, <1>6

\* A restart() task runs up to its first await.
LEMMA BounceStep ==
  ASSUME PinningInv, NEW s \in Services, BounceRuns(s)
  PROVE  PinningInv'
  <1>1. /\ UNCHANGED <<pc, generation, fresh, moved, bin, spawnGens, overtaken>>
        /\ bounceTasks' = bounceTasks \ {s}
        /\ \/ bounced' = bounced \cup {s} /\ told' = told \cup {s}
           \/ (pc[s] # "live" \/ s \in bounced) /\ bounced' = bounced /\ told' = told
    BY DEF BounceRuns
  <1>2. PinTypeOK' /\ CacheShape' /\ ResolvedShape' /\ TasksAreDue' /\ RecordedUnlessOvertaken'
    BY <1>1 DEF PinningInv, PinTypeOK, CacheShape, ResolvedShape, TasksAreDue,
                RecordedUnlessOvertaken
  <1>3. \A o \in Services : CurrentBin(o)' => CurrentBin(o)
    BY <1>1 DEF CurrentBin, SettledPins
  <1>4. CurrentAgree'
    BY <1>1, <1>3 DEF PinningInv, CurrentAgree
  <1>. QED BY <1>2, <1>4 DEF PinningInv

\* Every step of every service, and the world outside, keep the invariant.
LEMMA NextInv ==
  ASSUME PinningInv, [PinNext]_pinVars
  PROVE  PinningInv'
  <1>1. CASE UNCHANGED pinVars
    BY <1>1 DEF pinVars, PinningInv, PinTypeOK, CacheShape, ResolvedShape, TasksAreDue,
                RecordedUnlessOvertaken, CurrentAgree, CurrentBin, SettledPins
  <1>2. CASE Publish \/ CacheExpires
    <2>1. UNCHANGED <<pc, generation, bin, spawnGens, bounceTasks, bounced, told, overtaken>>
      BY <1>2 DEF Publish, CacheExpires
    <2>2. fresh' \in BOOLEAN /\ moved' \in BOOLEAN
      BY <1>2 DEF Publish, CacheExpires, PinningInv, PinTypeOK
    <2>3. CacheShape'
      BY <1>2, PinningAssumption DEF Publish, CacheExpires, PinningInv, PinTypeOK, CacheShape
    <2>. QED BY <2>1, <2>2, <2>3
         DEF PinningInv, PinTypeOK, ResolvedShape, TasksAreDue,
             RecordedUnlessOvertaken, CurrentAgree, CurrentBin, SettledPins
  <1>3. ASSUME NEW s \in Services,
               \/ Render(s) \/ RunResolver(s) \/ SpawnFails(s) \/ Launched(s) \/ Exits(s)
        PROVE  PinningInv'
    <2>1. CASE Render(s)
      <3>1. PinGoto(s, "lock") /\ bounced' = bounced /\ told' = told
            /\ UNCHANGED <<generation, fresh, moved, bin, spawnGens, bounceTasks, overtaken>>
        BY <2>1 DEF Render
      <3>. QED BY <3>1, QuietStep
    <2>2. CASE RunResolver(s)
      <3>1. PinGoto(s, "run") /\ bounced' = bounced /\ told' = told
            /\ UNCHANGED <<generation, fresh, moved, bin, spawnGens, bounceTasks, overtaken>>
        BY <2>2 DEF RunResolver
      <3>. QED BY <3>1, QuietStep
    <2>3. CASE SpawnFails(s)
      <3>1. PinGoto(s, "rest") /\ bounced' = bounced \ {s} /\ told' = told
            /\ UNCHANGED <<generation, fresh, moved, bin, spawnGens, bounceTasks, overtaken>>
        BY <2>3 DEF SpawnFails
      <3>. QED BY <3>1, QuietStep
    <2>4. CASE Launched(s)
      <3>1. PinGoto(s, "live") /\ pc[s] = "exec" /\ bounced' = bounced /\ told' = told
            /\ UNCHANGED <<generation, fresh, moved, bin, spawnGens, bounceTasks, overtaken>>
        BY <2>4 DEF Launched
      <3>. QED BY <3>1, QuietStep
    <2>5. CASE Exits(s)
      <3>1. PinGoto(s, "rest") /\ bounced' \in {bounced \ {s}, bounced \cup {s}} /\ told' = told \ {s}
            /\ UNCHANGED <<generation, fresh, moved, bin, spawnGens, bounceTasks, overtaken>>
        BY <2>5 DEF Exits
      <3>. QED BY <3>1, QuietStep
    <2>. QED BY <1>3, <2>1, <2>2, <2>3, <2>4, <2>5
  <1>4. ASSUME NEW s \in Services, CacheHit(s) PROVE PinningInv'
    <2>1. generation \in 1 .. MaxGen /\ generation >= generation /\ MaxGen \in Nat
      BY <1>4, PinningAssumption DEF CacheHit, PinningInv, PinTypeOK
    <2>2. moved' \in BOOLEAN /\ fresh' \in BOOLEAN /\ (moved' => generation < MaxGen)
      BY <1>4 DEF CacheHit, PinningInv, PinTypeOK, CacheShape
    <2>3. overtaken' = (overtaken \ {s}) \cup
            {o \in Services \ {s} : generation # generation /\ pc[o] \in {"second", "exec"}}
      BY <1>4 DEF CacheHit
    <2>. QED BY <1>4, <2>1, <2>2, <2>3, ResolvedStep DEF CacheHit, Spawning
  <1>5. ASSUME NEW s \in Services, ResolverReturns(s) PROVE PinningInv'
    <2>1. NewGeneration \in 1 .. MaxGen /\ NewGeneration >= generation
      BY PinningAssumption DEF NewGeneration, PinningInv, PinTypeOK, CacheShape
    <2>. QED BY <1>5, <2>1, ResolvedStep DEF ResolverReturns, Spawning
  <1>6. ASSUME NEW s \in Services, SecondReturns(s) PROVE PinningInv'
    <2>1. pc[s] = "second" /\ s \notin bounceTasks /\ EnforcePinning(s, generation)
          /\ UNCHANGED <<generation, fresh, moved, bin, bounced, told, overtaken>>
      BY <1>6 DEF SecondReturns, Spawning
    <2>2. /\ bin[s] > 0 /\ bin[s] <= generation
          /\ s \notin overtaken => bin[s] = generation
      BY <2>1 DEF PinningInv, ResolvedShape
    <2>3. PinTypeOK /\ (moved => generation < MaxGen)
      BY DEF PinningInv, CacheShape
    <2>4. generation \in 1 .. MaxGen /\ generation >= generation
      BY <2>2, <2>3, PinningAssumption DEF PinTypeOK
    <2>5. bin' \in [Services -> 0 .. MaxGen] /\ overtaken' \subseteq Services
          /\ moved' \in BOOLEAN /\ fresh' \in BOOLEAN
      BY <2>1, <2>3 DEF PinTypeOK
    <2>. QED BY <2>1, <2>2, <2>3, <2>4, <2>5, EnforceStep
  <1>7. ASSUME NEW s \in Services, BounceRuns(s) PROVE PinningInv'
    BY <1>7, BounceStep
  <1>. QED BY <1>1, <1>2, <1>3, <1>4, <1>5, <1>6, <1>7 DEF PinNext

------------------------------------------------------------------------------
\* The invariant of a pinned group, type correctness included.
THEOREM Invariance == PinSpec => []PinningInv
  <1>1. PinInit => PinningInv
    BY InitInv
  <1>2. PinningInv /\ [PinNext]_pinVars => PinningInv'
    BY NextInv
  <1>. QED BY <1>1, <1>2, PTL DEF PinSpec

\* SettledPins services that no release overtook on their way up, and to which no
\* flag is left that makes restart() refuse them, run one release.
THEOREM Together == PinSpec => []SplitOnlyIfOvertaken
  <1>1. PinningInv => SplitOnlyIfOvertaken
    BY DEF PinningInv, CurrentAgree, CurrentBin, SplitOnlyIfOvertaken
  <1>. QED BY <1>1, Invariance, PTL

\* _spawn_gens tells the release a service runs, unless one overtook it.
THEOREM Recorded == PinSpec => []RecordedUnlessOvertaken
  <1>1. PinningInv => RecordedUnlessOvertaken
    BY DEF PinningInv
  <1>. QED BY <1>1, Invariance, PTL

\* A service is only ever bounced off a release that is no longer resolved.
THEOREM Bounces == PinSpec => BouncedOnlyIfOutdated
  <1>1. PinningInv /\ [PinNext]_pinVars =>
          [\A o \in Services : o \in told' \ told => bin[o] # generation]_pinVars
    <2>. SUFFICES ASSUME PinningInv, PinNext, NEW o \in Services, o \in told' \ told
         PROVE  bin[o] # generation
      OBVIOUS
    <2>1. BounceRuns(o) /\ pc[o] = "live"
      BY DEF PinNext, Publish, CacheExpires, Render, CacheHit, RunResolver, ResolverReturns,
             SecondReturns, SpawnFails, Launched, BounceRuns, Exits
    <2>2. bin[o] < generation
      BY <2>1 DEF BounceRuns, PinningInv, TasksAreDue
    <2>3. bin[o] \in Nat /\ generation \in Nat
      BY PinningAssumption DEF PinningInv, PinTypeOK
    <2>. QED BY <2>2, <2>3
  <1>. QED BY <1>1, Invariance, PTL DEF PinSpec, BouncedOnlyIfOutdated
==============================================================================
