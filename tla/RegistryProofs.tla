---------------------------- MODULE RegistryProofs ---------------------------
(***************************************************************************)
(* The properties of Registry hold for every set of pids and every number  *)
(* of processes.                                                           *)
(***************************************************************************)
EXTENDS Registry, TLAPS

\* The initial state satisfies the invariant.
LEMMA InitInv == RegInit => RegistryInv
  <1> SUFFICES ASSUME RegInit PROVE RegistryInv
    OBVIOUS
  <1>1. NoProcess \in Processes
    BY RegistryAssumption DEF NoProcess, Processes, RegPCs
  <1>a. kill \in Kills
    BY DEF RegInit, Kills
  <1>b. proc \in [Pids -> Processes]
    BY <1>1 DEF RegInit
  <1>2. RegTypeOK
    <2>1. clock \in 0..MaxTicks
      BY RegistryAssumption DEF RegInit
    <2>2. rec = None /\ tmp = None /\ doubled = FALSE /\ robbed = FALSE
      BY DEF RegInit
    <2>. QED BY <1>a, <1>b, <2>1, <2>2 DEF RegTypeOK
  <1>3. HeldRecords = {}
    BY RegistryAssumption DEF RegInit, HeldRecords, NoProcess
  <1>4. \A p \in Pids : ~Supervising(p) /\ proc[p] = NoProcess
    BY DEF RegInit, Supervising, NoProcess
  <1>5. Timely
    BY <1>3, <1>4 DEF Timely, RegInit, NoProcess
  <1>6. SeesAhead
    BY <1>4 DEF SeesAhead, NoProcess
  <1>7. WholeUnlessDoubled
    BY RegistryAssumption DEF WholeUnlessDoubled, RegInit
  <1>. QED
    BY <1>2, <1>3, <1>4, <1>5, <1>6, <1>7
    DEF RegistryInv, NoImpersonation, Alone, ListedUnlessRobbed

------------------------------------------------------------------------------
\* What Gone does to the processes.
LEMMA GoneFacts ==
  ASSUME RegTypeOK, NEW p \in Pids
  PROVE  /\ Gone(p) \in [Pids -> Processes]
         /\ Gone(p)[p].kind = "zombie" /\ Gone(p)[p].pc = "none"
         /\ Gone(p)[p].ticks = proc[p].ticks /\ ~Gone(p)[p].written
         /\ Gone(p)[p].got = None /\ Gone(p)[p].ahead = {}
         /\ \A q \in Pids \ {p} :
              Gone(p)[q] = [proc[q] EXCEPT !.ahead = proc[q].ahead \ {p}]
  <1>1. [NoProcess EXCEPT !.kind = "zombie", !.ticks = proc[p].ticks] \in Processes
    BY RegistryAssumption DEF RegTypeOK, NoProcess, Processes, RegPCs
  <1>2. ASSUME NEW q \in Pids
        PROVE  [proc[q] EXCEPT !.ahead = proc[q].ahead \ {p}] \in Processes
    BY DEF RegTypeOK, Processes
  <1>3. Gone(p) = [q \in Pids |->
           IF q = p THEN [NoProcess EXCEPT !.kind = "zombie", !.ticks = proc[p].ticks]
           ELSE [proc[q] EXCEPT !.ahead = proc[q].ahead \ {p}]]
    BY DEF Gone
  <1>4. Gone(p) \in [Pids -> Processes]
    BY <1>1, <1>2, <1>3
  <1>5. Gone(p)[p] = [NoProcess EXCEPT !.kind = "zombie", !.ticks = proc[p].ticks]
    BY <1>3
  <1>6. /\ Gone(p)[p].kind = "zombie" /\ Gone(p)[p].pc = "none"
        /\ Gone(p)[p].ticks = proc[p].ticks /\ ~Gone(p)[p].written
        /\ Gone(p)[p].got = None /\ Gone(p)[p].ahead = {}
    BY <1>5 DEF NoProcess
  <1>7. \A q \in Pids \ {p} : Gone(p)[q] = [proc[q] EXCEPT !.ahead = proc[q].ahead \ {p}]
    BY <1>3
  <1>. QED BY <1>4, <1>6, <1>7

\* Steps that start nothing and write nothing: the processes D end, others stay
\* where they are or move on within a supervisor.
Ends(q) ==
  /\ proc'[q].kind \notin {"up", "other"} /\ proc'[q].pc = "none"
  /\ proc'[q].ticks \leq clock /\ ~proc'[q].written
  /\ proc'[q].ahead = {}

Stays(q) ==
  /\ proc'[q].kind = proc[q].kind /\ proc'[q].ticks = proc[q].ticks
  /\ proc'[q].written = proc[q].written \/ Supervising(q)
  /\ proc'[q].got = proc[q].got
  /\ proc'[q].ahead \subseteq proc[q].ahead
  /\ \/ /\ proc'[q].pc = proc[q].pc
        /\ proc'[q].fd = proc[q].fd \/ proc[q].fd # "tmp" \/ proc[q].pc # "fill" \/ doubled
     \/ Supervising(q) /\ proc'[q].pc \in {"open", "run", "end"}

Calm(D) ==
  /\ RegTypeOK' /\ clock' = clock /\ doubled' = doubled
  /\ kill'.pc = "idle" \/ kill'.got # None
  /\ tmp' = tmp \/ doubled \/ \A q \in Pids : proc'[q].pc \notin {"fill", "replace"}
  /\ HeldRecords' \subseteq HeldRecords
  /\ \A q \in D : Ends(q)
  /\ \A q \in Pids \ D : Stays(q) /\ proc'[q].ahead \cap D = {}

\* Such a step keeps the parts of the invariant that are about processes.
LEMMA CalmStep ==
  ASSUME RegistryInv, NEW D \in SUBSET Pids, Calm(D)
  PROVE  Timely' /\ NoImpersonation' /\ Alone' /\ SeesAhead'
  <1>1. ASSUME NEW q \in Pids \ D
        PROVE  Supervising(q)' = Supervising(q) /\ RecordOf(q)' = RecordOf(q)
    BY DEF Supervising, RecordOf, Calm, Stays
  <1>2. ASSUME NEW q \in D PROVE ~Supervising(q)'
    BY DEF Supervising, Calm, Ends
  <1>3. Timely'
    BY DEF RegistryInv, Timely, Supervising, Calm, Ends, Stays
  <1>4. NoImpersonation'
    <2> SUFFICES ASSUME NEW r \in HeldRecords', Alive(r)' PROVE Supervising(r.pid)'
      BY DEF NoImpersonation
    <2>1. r \in HeldRecords /\ r.pid \in Pids
      BY DEF HeldRecords, Records, Calm
    <2>2. r.pid \notin D
      BY DEF Alive, Calm, Ends
    <2>3. Alive(r)
      BY <2>1, <2>2 DEF Alive, Calm, Stays
    <2>. QED BY <1>1, <2>1, <2>2, <2>3 DEF RegistryInv, NoImpersonation
  <1>5. Alone'
    <2> SUFFICES ASSUME ~doubled, NEW p \in Pids, Supervising(p)'
                 PROVE  /\ \A q \in Pids : Supervising(q)' => q = p
                        /\ (proc[p].pc = "fill")' => (proc[p].fd = "tmp" /\ tmp = Empty)'
                        /\ (proc[p].pc = "replace")' => (tmp = RecordOf(p))'
      BY DEF Alone, Calm
    <2>1. p \notin D /\ Supervising(p)
      BY <1>1, <1>2
    <2>. QED BY <1>1, <1>2, <2>1 DEF RegistryInv, Alone, Calm, Stays
  <1>6. SeesAhead'
    <2> SUFFICES ASSUME NEW p \in Pids, NEW q \in (proc[p].ahead)'
                 PROVE  (proc[p].pc = "ask" /\ Supervising(q) /\ proc[p].got = RecordOf(q))'
      BY DEF SeesAhead
    <2>1. p \notin D /\ q \in proc[p].ahead /\ q \notin D
      BY DEF Calm, Ends, Stays
    <2>2. q \in Pids
      BY <2>1 DEF RegistryInv, RegTypeOK, Processes
    <2>3. proc[p].pc = "ask" /\ Supervising(q) /\ proc[p].got = RecordOf(q)
      BY <2>1 DEF RegistryInv, SeesAhead
    <2>4. proc'[p].pc = "ask" /\ proc'[p].got = proc[p].got
      BY <2>1, <2>3 DEF Supervising, Calm, Stays
    <2>. QED BY <1>1, <2>1, <2>2, <2>3, <2>4
  <1>. QED BY <1>3, <1>4, <1>5, <1>6

\* Such steps that leave the record alone keep the whole invariant.
LEMMA CalmInv ==
  ASSUME RegistryInv, NEW D \in SUBSET Pids, Calm(D), UNCHANGED <<rec, robbed>>,
         \A q \in Pids : proc'[q].written => proc[q].written
  PROVE  RegistryInv'
  <1>1. Timely' /\ NoImpersonation' /\ Alone' /\ SeesAhead'
    BY CalmStep
  <1>2. WholeUnlessDoubled'
    BY DEF RegistryInv, WholeUnlessDoubled, Calm
  <1>3. ASSUME NEW p \in Pids, Supervising(p)', proc'[p].written
        PROVE  Supervising(p) /\ proc[p].written /\ RecordOf(p)' = RecordOf(p)
    <2>1. p \notin D
      BY <1>3 DEF Calm, Ends
    <2>. QED BY <1>3, <2>1 DEF Supervising, RecordOf, Calm, Stays
  <1>4. ListedUnlessRobbed'
    BY <1>3 DEF RegistryInv, ListedUnlessRobbed, Calm
  <1>. QED BY <1>1, <1>2, <1>4 DEF RegistryInv, Calm

\* The records held once a process has gone.
LEMMA GoneInv ==
  ASSUME RegistryInv, NEW p \in Pids, proc' = Gone(p),
         clock' = clock, UNCHANGED <<rec, tmp, doubled, robbed>>,
         kill' \in Kills, kill'.got \in {kill.got, None},
         kill'.pc = "idle" \/ kill'.got # None
  PROVE  RegistryInv'
  <1>1. RegTypeOK
    BY DEF RegistryInv
  <1>2. /\ Gone(p) \in [Pids -> Processes]
        /\ Gone(p)[p].kind = "zombie" /\ Gone(p)[p].pc = "none"
        /\ Gone(p)[p].ticks = proc[p].ticks /\ ~Gone(p)[p].written
        /\ Gone(p)[p].got = None /\ Gone(p)[p].ahead = {}
        /\ \A q \in Pids \ {p} :
             Gone(p)[q] = [proc[q] EXCEPT !.ahead = proc[q].ahead \ {p}]
    BY <1>1, GoneFacts
  <1>3. RegTypeOK'
    BY <1>1, <1>2 DEF RegTypeOK
  <1>4. \A q \in Pids \ {p} :
           /\ proc'[q].kind = proc[q].kind /\ proc'[q].ticks = proc[q].ticks
           /\ proc'[q].written = proc[q].written /\ proc'[q].got = proc[q].got
           /\ proc'[q].ahead = proc[q].ahead \ {p}
           /\ proc'[q].pc = proc[q].pc /\ proc'[q].fd = proc[q].fd
    BY <1>1, <1>2 DEF RegTypeOK, Processes
  <1>5. HeldRecords' \subseteq HeldRecords
    BY <1>2, <1>4, RegistryAssumption DEF HeldRecords
  <1>6. proc'[p].ticks \leq clock
    BY <1>2 DEF RegistryInv, Timely
  <1>7. Calm({p})
    BY <1>2, <1>3, <1>4, <1>5, <1>6 DEF Calm, Ends, Stays
  <1>8. \A q \in Pids : proc'[q].written => proc[q].written
    BY <1>2, <1>4
  <1>. QED BY <1>7, <1>8, CalmInv

\* A process changes only its place within a supervisor.
LEMMA MoveInv ==
  ASSUME RegistryInv, NEW p \in Pids, Supervising(p), NEW new \in Processes,
         proc' = [proc EXCEPT ![p] = new],
         new.kind = proc[p].kind, new.ticks = proc[p].ticks, new.got = proc[p].got,
         new.written = proc[p].written, new.ahead = proc[p].ahead,
         (new.pc = proc[p].pc /\ new.fd = proc[p].fd) \/ new.pc \in {"open", "run", "end"},
         clock' = clock, UNCHANGED <<rec, tmp, doubled, robbed>>,
         kill' \in Kills, kill'.got \in {kill.got, None},
         kill'.pc = "idle" \/ kill'.got # None
  PROVE  RegistryInv'
  <1>1. RegTypeOK
    BY DEF RegistryInv
  <1>2. proc' \in [Pids -> Processes] /\ proc'[p] = new
    BY <1>1 DEF RegTypeOK
  <1>3. \A q \in Pids : q # p => proc'[q] = proc[q]
    BY <1>1 DEF RegTypeOK
  <1>4. RegTypeOK'
    BY <1>1, <1>2 DEF RegTypeOK
  <1>5. \A q \in Pids : Stays(q)
    BY <1>2, <1>3 DEF Stays
  <1>6. HeldRecords' \subseteq HeldRecords
    BY <1>5, RegistryAssumption DEF HeldRecords, Stays
  <1>7. Calm({})
    BY <1>4, <1>5, <1>6 DEF Calm
  <1>8. \A q \in Pids : proc'[q].written => proc[q].written
    BY <1>2, <1>3
  <1>. QED BY <1>7, <1>8, CalmInv

\* Only kill changes.
LEMMA KillInv ==
  ASSUME RegistryInv, UNCHANGED <<clock, proc, rec, tmp, doubled, robbed>>,
         kill' \in Kills, kill'.got \in {kill.got, None, rec},
         kill'.pc = "idle" \/ kill'.got # None
  PROVE  RegistryInv'
  <1>1. RegTypeOK'
    BY DEF RegistryInv, RegTypeOK
  <1>2. HeldRecords' \subseteq HeldRecords
    BY RegistryAssumption DEF HeldRecords
  <1>3. Calm({})
    BY <1>1, <1>2 DEF Calm, Stays
  <1>. QED BY <1>3, CalmInv

------------------------------------------------------------------------------
(***************************************************************************)
(* The steps of a process.                                                 *)
(***************************************************************************)
\* Steps of p that change nothing but where p is, or end it.
LEMMA QuietSteps ==
  ASSUME RegistryInv, NEW p \in Pids,
         \/ Dies(p) \/ UpRefused(p) \/ Notify(p) \/ ReplaceRaises(p) \/ UpFails(p)
         \/ ShutsDown(p) \/ LeavesPostMortem(p) \/ Interrupted(p)
  PROVE  RegistryInv'
  <1>1. /\ clock' = clock /\ UNCHANGED <<rec, tmp, doubled, robbed, kill>>
        /\ kill \in Kills /\ (kill.pc = "idle" \/ kill.got # None)
        /\ proc \in [Pids -> Processes]
    BY DEF RegistryInv, Timely, RegTypeOK, Dies, UpRefused, Notify, ReplaceRaises, UpFails,
           ShutsDown, LeavesPostMortem, Interrupted, regFiles, others
  <1>2. CASE proc' = Gone(p)
    BY <1>1, <1>2, GoneInv
  <1>3. ASSUME NEW new, Supervising(p), proc' = [proc EXCEPT ![p] = new],
               new = [proc[p] EXCEPT !.failed = TRUE] \/
               new = [proc[p] EXCEPT !.asked = TRUE] \/
               new = [proc[p] EXCEPT !.pc = "end"] \/
               new = [proc[p] EXCEPT !.pc = "open"] \/
               new = [proc[p] EXCEPT !.pc = "run"] \/
               new = [proc[p] EXCEPT !.pc = "open", !.state = "failed"]
        PROVE  RegistryInv'
    <2>1. proc[p] \in Processes
      BY <1>1
    <2>2. /\ new \in Processes
          /\ new.kind = proc[p].kind /\ new.ticks = proc[p].ticks /\ new.got = proc[p].got
          /\ new.written = proc[p].written /\ new.ahead = proc[p].ahead
          /\ (new.pc = proc[p].pc /\ new.fd = proc[p].fd) \/ new.pc \in {"open", "run", "end"}
      BY ZenonT(60), <1>3, <2>1 DEF Processes, RegPCs
    <2>. QED BY <1>1, <1>3, <2>2, MoveInv
  <1>4. proc[p].pc \in {"run", "end", "replace"} => Supervising(p)
    BY DEF RegistryInv, Timely, Supervising
  <1>5. CASE Notify(p)
    BY <1>3, <1>4, <1>5 DEF Notify
  <1>6. CASE UpFails(p)
    BY <1>3, <1>4, <1>6 DEF UpFails
  <1>7. CASE ShutsDown(p)
    BY <1>3, <1>4, <1>7 DEF ShutsDown
  <1>8. CASE LeavesPostMortem(p)
    <2>1. proc' = [proc EXCEPT ![p] = [proc[p] EXCEPT !.pc = "open", !.state = "failed"]]
      BY <1>1, <1>8 DEF LeavesPostMortem
    <2>. QED BY <1>3, <1>4, <1>8, <2>1 DEF LeavesPostMortem
  <1>9. CASE Interrupted(p)
    BY <1>3, <1>9 DEF Interrupted, Signalled, Handles, Supervising
  <1>10. CASE ReplaceRaises(p)
    BY <1>2, <1>3, <1>4, <1>10 DEF ReplaceRaises
  <1>. QED BY <1>2, <1>5, <1>6, <1>7, <1>8, <1>9, <1>10 DEF Dies, UpRefused

\* A zombie is reaped.
LEMMA ReapedStep ==
  ASSUME RegistryInv, NEW p \in Pids, Reaped(p)
  PROVE  RegistryInv'
  <1>1. /\ proc \in [Pids -> Processes] /\ NoProcess \in Processes /\ clock \in Nat
    BY RegistryAssumption DEF RegistryInv, RegTypeOK, NoProcess, Processes, RegPCs
  <1>2. /\ proc'[p] = NoProcess /\ proc' \in [Pids -> Processes]
        /\ \A q \in Pids \ {p} : proc'[q] = proc[q]
        /\ UNCHANGED <<clock, rec, tmp, kill, doubled, robbed>>
    BY <1>1 DEF Reaped, regFiles, others
  <1>3. RegTypeOK'
    BY <1>2 DEF RegistryInv, RegTypeOK
  <1>4. HeldRecords' \subseteq HeldRecords
    BY <1>2, RegistryAssumption DEF HeldRecords, NoProcess
  <1>5. Ends(p)
    BY <1>1, <1>2 DEF Ends, NoProcess
  <1>6. ASSUME NEW q \in Pids \ {p} PROVE Stays(q) /\ proc'[q].ahead \cap {p} = {}
    <2>1. p \notin proc[q].ahead
      BY DEF RegistryInv, SeesAhead, Supervising, Reaped
    <2>. QED BY <1>2, <2>1 DEF Stays
  <1>7. Calm({p})
    BY <1>2, <1>3, <1>4, <1>5, <1>6 DEF Calm, RegistryInv, Timely
  <1>8. \A q \in Pids : proc'[q].written => proc[q].written
    BY <1>2 DEF NoProcess
  <1>. QED BY <1>2, <1>7, <1>8, CalmInv

\* A process starts.
LEMMA StartsStep ==
  ASSUME RegistryInv, NEW p \in Pids, NEW kind \in {"up", "other"}, Starts(p, kind)
  PROVE  RegistryInv'
  <1> DEFINE new == [proc[p] EXCEPT !.kind = kind, !.ticks = clock + 1,
                                    !.pc = IF kind = "up" THEN "load" ELSE "none"]
  <1>1. /\ proc \in [Pids -> Processes] /\ clock \in 0..MaxTicks
        /\ proc[p].kind = "free" /\ proc[p].pc = "none" /\ clock < MaxTicks
        /\ MaxTicks \in Nat
    BY RegistryAssumption DEF RegistryInv, RegTypeOK, Starts, Timely
  <1>2. /\ proc' = [proc EXCEPT ![p] = new] /\ clock' = clock + 1
        /\ UNCHANGED <<rec, tmp, kill, doubled, robbed>>
    BY <1>1 DEF Starts, regFiles
  <1>3. /\ new \in Processes /\ new.kind = kind /\ new.ticks = clock + 1
        /\ new.pc \in {"none", "load"} /\ (kind = "up" <=> new.pc = "load")
        /\ new.got = proc[p].got /\ new.written = proc[p].written /\ new.ahead = proc[p].ahead
    <2>1. proc[p] \in Processes
      BY <1>1
    <2>2. clock + 1 \in 0..MaxTicks
      BY <1>1
    <2>. QED BY <2>1, <2>2 DEF Processes, RegPCs
  <1>4. proc'[p] = new /\ \A q \in Pids : q # p => proc'[q] = proc[q]
    BY <1>1, <1>2
  <1> HIDE DEF new
  <1>5. RegTypeOK'
    <2>1. proc' \in [Pids -> Processes]
      BY <1>1, <1>2, <1>3
    <2>2. clock' \in 0..MaxTicks
      BY <1>1, <1>2
    <2>. QED BY <1>2, <2>1, <2>2 DEF RegistryInv, RegTypeOK
  <1>6. HeldRecords' = HeldRecords
    BY <1>2, <1>3, <1>4 DEF HeldRecords
  <1>7. ~Supervising(p) /\ ~Supervising(p)'
    BY <1>1, <1>3, <1>4 DEF Supervising
  <1>8. ASSUME NEW q \in Pids
        PROVE  /\ Supervising(q)' <=> Supervising(q)
               /\ Supervising(q) => RecordOf(q)' = RecordOf(q)
               /\ proc'[q].ahead = proc[q].ahead
               /\ proc'[q].written = proc[q].written
    BY <1>3, <1>4, <1>7 DEF Supervising, RecordOf
  <1>9. Timely'
    <2>1. \A r \in HeldRecords' : r.ticks \leq clock /\ r.ticks \in Nat
      BY <1>6 DEF RegistryInv, Timely, HeldRecords, Records
    <2>2. \A r \in HeldRecords' : r.ticks \leq clock'
      BY <1>1, <1>2, <2>1
    <2>3. \A q \in Pids : proc'[q].ticks \leq clock'
      <3>1. \A q \in Pids : proc[q].ticks \leq clock /\ proc[q].ticks \in Nat
        BY <1>1 DEF RegistryInv, Timely, Processes
      <3>. QED BY <1>1, <1>2, <1>3, <1>4, <3>1
    <2>4. ASSUME NEW q \in Pids
          PROVE  /\ proc'[q].kind \in {"up", "other"} => proc'[q].ticks > 0
                 /\ proc'[q].kind # "up" => proc'[q].pc = "none"
                 /\ proc'[q].kind = "up" => proc'[q].pc # "none"
                 /\ proc'[q].pc \in {"none", "load", "ask", "start"} => ~proc'[q].written
      <3>1. CASE q = p
        BY <1>1, <1>3, <1>4, <3>1 DEF RegistryInv, Timely
      <3>2. CASE q # p
        BY <1>4, <3>2 DEF RegistryInv, Timely
      <3>. QED BY <3>1, <3>2
    <2>. QED BY <1>2, <2>2, <2>3, <2>4 DEF RegistryInv, Timely
  <1>10. NoImpersonation'
    <2> SUFFICES ASSUME NEW r \in HeldRecords, Alive(r)' PROVE Supervising(r.pid)'
      BY <1>6 DEF NoImpersonation
    <2>1. r.pid \in Pids /\ r.ticks \in Nat /\ r.ticks \leq clock
      BY DEF HeldRecords, Records, RegistryInv, Timely
    <2>2. r.pid # p
      BY <1>1, <1>3, <1>4, <2>1 DEF Alive
    <2>. QED BY <1>4, <1>8, <2>1, <2>2 DEF Alive, RegistryInv, NoImpersonation
  <1>11. Alone'
    BY <1>2, <1>4, <1>7, <1>8 DEF RegistryInv, Alone
  <1>12. WholeUnlessDoubled' /\ ListedUnlessRobbed'
    BY <1>2, <1>8 DEF RegistryInv, WholeUnlessDoubled, ListedUnlessRobbed
  <1>13. SeesAhead'
    <2>1. proc[p].ahead = {}
      BY <1>1 DEF RegistryInv, SeesAhead
    <2>. QED BY <1>4, <1>8, <2>1 DEF RegistryInv, SeesAhead, RegTypeOK, Processes
  <1>. QED BY <1>5, <1>9, <1>10, <1>11, <1>12, <1>13 DEF RegistryInv

\* An `up` looks for a record: it sees the one of every listed supervisor.
LEMMA UpLoadsStep ==
  ASSUME RegistryInv, NEW p \in Pids, UpLoads(p)
  PROVE  RegistryInv'
  <1> DEFINE ups == {q \in Pids : Supervising(q) /\ proc[q].written}
             seen == IF doubled \/ robbed THEN {} ELSE ups
             new == [proc[p] EXCEPT !.pc = "ask", !.got = Load, !.ahead = seen]
  <1>1. /\ proc \in [Pids -> Processes] /\ proc[p].pc = "load" /\ proc[p].kind = "up"
        /\ ~proc[p].written
    BY DEF RegistryInv, RegTypeOK, UpLoads, Timely
  <1>2. /\ proc' = [proc EXCEPT ![p] = new]
        /\ UNCHANGED <<clock, rec, tmp, kill, doubled, robbed>>
    BY <1>1 DEF UpLoads, regFiles, others
  <1>3. Load \in Records \cup {None} /\ (Load = None \/ Load = rec)
    BY DEF Load, RegistryInv, RegTypeOK
  <1>4. /\ new \in Processes /\ new.kind = proc[p].kind /\ new.ticks = proc[p].ticks
        /\ new.pc = "ask" /\ new.got = Load /\ new.ahead = seen
        /\ new.written = proc[p].written
    <2>1. proc[p] \in Processes /\ seen \in SUBSET Pids
      BY <1>1
    <2> HIDE DEF seen
    <2>. QED BY <1>3, <2>1 DEF Processes, RegPCs
  <1> HIDE DEF new
  <1>5. proc'[p] = new /\ \A q \in Pids : q # p => proc'[q] = proc[q]
    BY <1>1, <1>2
  <1>6. RegTypeOK'
    BY <1>1, <1>2, <1>4 DEF RegistryInv, RegTypeOK
  <1>7. HeldRecords' \subseteq HeldRecords
    BY <1>2, <1>3, <1>4, <1>5, RegistryAssumption DEF HeldRecords
  <1>8. ASSUME NEW q \in Pids
        PROVE  /\ Supervising(q)' <=> Supervising(q)
               /\ RecordOf(q)' = RecordOf(q)
               /\ proc'[q].written = proc[q].written
               /\ Supervising(q) => q # p
    BY <1>1, <1>4, <1>5 DEF Supervising, RecordOf
  <1>9. Timely'
    BY <1>1, <1>2, <1>4, <1>5, <1>7 DEF RegistryInv, Timely
  <1>10. NoImpersonation'
    <2> SUFFICES ASSUME NEW r \in HeldRecords, Alive(r)' PROVE Supervising(r.pid)'
      BY <1>7 DEF NoImpersonation
    <2>1. r.pid \in Pids
      BY DEF HeldRecords, Records
    <2>2. Alive(r)
      BY <1>4, <1>5, <2>1 DEF Alive
    <2>. QED BY <1>8, <2>1, <2>2 DEF RegistryInv, NoImpersonation
  <1>11. Alone'
    BY <1>2, <1>5, <1>8 DEF RegistryInv, Alone
  <1>12. WholeUnlessDoubled' /\ ListedUnlessRobbed'
    BY <1>2, <1>8 DEF RegistryInv, WholeUnlessDoubled, ListedUnlessRobbed
  <1>13. SeesAhead'
    <2> SUFFICES ASSUME NEW u \in Pids, NEW q \in proc'[u].ahead
                 PROVE  proc'[u].pc = "ask" /\ Supervising(q)' /\ proc'[u].got = RecordOf(q)'
      BY DEF SeesAhead
    <2>1. CASE u = p
      <3>1. q \in Pids /\ Supervising(q) /\ proc[q].written /\ ~doubled /\ ~robbed
        BY <1>4, <1>5, <2>1
      <3>2. rec = RecordOf(q)
        BY <3>1 DEF RegistryInv, ListedUnlessRobbed
      <3>3. Load = rec
        BY <3>1 DEF Load, RegistryInv, WholeUnlessDoubled
      <3>. QED BY <1>4, <1>5, <1>8, <2>1, <3>1, <3>2, <3>3
    <2>2. CASE u # p
      <3>1. q \in proc[u].ahead /\ q \in Pids
        BY <1>1, <1>5, <2>2 DEF Processes
      <3>. QED BY <1>5, <1>8, <2>2, <3>1 DEF RegistryInv, SeesAhead
    <2>. QED BY <2>1, <2>2
  <1>. QED BY <1>6, <1>9, <1>10, <1>11, <1>12, <1>13 DEF RegistryInv

\* An `up` goes on: nobody was listed when it looked.
LEMMA UpPassesStep ==
  ASSUME RegistryInv, NEW p \in Pids, UpPasses(p)
  PROVE  RegistryInv'
  <1> DEFINE new == [proc[p] EXCEPT !.pc = "start", !.got = None]
  <1>1. /\ proc \in [Pids -> Processes] /\ proc[p].pc = "ask" /\ proc[p].kind = "up"
        /\ ~proc[p].written /\ ~(proc[p].got # None /\ Alive(proc[p].got))
    BY DEF RegistryInv, RegTypeOK, UpPasses, Timely
  <1>2. /\ proc' = [proc EXCEPT ![p] = new]
        /\ UNCHANGED <<clock, rec, tmp, kill, doubled, robbed>>
    BY <1>1 DEF UpPasses, regFiles, others
  <1>3. proc[p].ahead = {}
    <2> SUFFICES ASSUME NEW q \in proc[p].ahead PROVE FALSE
      OBVIOUS
    <2>1. q \in Pids /\ Supervising(q) /\ proc[p].got = RecordOf(q)
      BY <1>1 DEF RegistryInv, SeesAhead, Processes
    <2>2. RecordOf(q) \in Records
      BY <1>1, <2>1, RegistryAssumption
      DEF RecordOf, Records, Supervising, RegistryInv, Timely, Processes
    <2>3. Alive(RecordOf(q))
      BY <2>1 DEF Alive, RecordOf, Supervising
    <2>. QED BY <1>1, <2>1, <2>2, <2>3, RegistryAssumption
  <1>4. /\ new \in Processes /\ new.kind = proc[p].kind /\ new.ticks = proc[p].ticks
        /\ new.pc = "start" /\ new.got = None /\ new.ahead = {}
        /\ new.written = proc[p].written
    <2>1. proc[p] \in Processes
      BY <1>1
    <2>. QED BY <1>3, <2>1 DEF Processes, RegPCs
  <1> HIDE DEF new
  <1>5. proc'[p] = new /\ \A q \in Pids : q # p => proc'[q] = proc[q]
    BY <1>1, <1>2
  <1>6. RegTypeOK'
    BY <1>1, <1>2, <1>4 DEF RegistryInv, RegTypeOK
  <1>7. HeldRecords' \subseteq HeldRecords
    BY <1>2, <1>4, <1>5, RegistryAssumption DEF HeldRecords
  <1>8. ASSUME NEW q \in Pids
        PROVE  /\ Supervising(q)' <=> Supervising(q)
               /\ RecordOf(q)' = RecordOf(q)
               /\ proc'[q].written = proc[q].written
               /\ Supervising(q) => q # p
    BY <1>1, <1>4, <1>5 DEF Supervising, RecordOf
  <1>9. Timely'
    BY <1>1, <1>2, <1>4, <1>5, <1>7 DEF RegistryInv, Timely
  <1>10. NoImpersonation'
    <2> SUFFICES ASSUME NEW r \in HeldRecords, Alive(r)' PROVE Supervising(r.pid)'
      BY <1>7 DEF NoImpersonation
    <2>1. r.pid \in Pids
      BY DEF HeldRecords, Records
    <2>2. Alive(r)
      BY <1>4, <1>5, <2>1 DEF Alive
    <2>. QED BY <1>8, <2>1, <2>2 DEF RegistryInv, NoImpersonation
  <1>11. Alone'
    BY <1>2, <1>5, <1>8 DEF RegistryInv, Alone
  <1>12. WholeUnlessDoubled' /\ ListedUnlessRobbed'
    BY <1>2, <1>8 DEF RegistryInv, WholeUnlessDoubled, ListedUnlessRobbed
  <1>13. SeesAhead'
    <2> SUFFICES ASSUME NEW u \in Pids, NEW q \in proc'[u].ahead
                 PROVE  proc'[u].pc = "ask" /\ Supervising(q)' /\ proc'[u].got = RecordOf(q)'
      BY DEF SeesAhead
    <2>1. u # p
      BY <1>4, <1>5
    <2>2. q \in proc[u].ahead /\ q \in Pids
      BY <1>1, <1>5, <2>1 DEF Processes
    <2>. QED BY <1>5, <1>8, <2>1, <2>2 DEF RegistryInv, SeesAhead
  <1>. QED BY <1>6, <1>9, <1>10, <1>11, <1>12, <1>13 DEF RegistryInv

\* An `up` becomes a supervisor.
LEMMA StartedStep ==
  ASSUME RegistryInv, NEW p \in Pids, Started(p)
  PROVE  RegistryInv'
  <1> DEFINE new == [proc[p] EXCEPT !.pc = "open"]
  <1>1. /\ proc \in [Pids -> Processes] /\ proc[p].pc = "start" /\ proc[p].kind = "up"
        /\ ~proc[p].written /\ proc[p].ahead = {}
    BY DEF RegistryInv, RegTypeOK, Started, Timely, SeesAhead
  <1>2. /\ proc' = [proc EXCEPT ![p] = new]
        /\ UNCHANGED <<clock, rec, tmp, kill, robbed>>
        /\ doubled' = (doubled \/ \E q \in Pids \ {p} : Supervising(q))
    BY <1>1 DEF Started, regFiles
  <1>3. /\ new \in Processes /\ new.kind = "up" /\ new.ticks = proc[p].ticks
        /\ new.pc = "open" /\ new.got = proc[p].got /\ new.ahead = {} /\ ~new.written
    <2>1. proc[p] \in Processes
      BY <1>1
    <2>. QED BY <1>1, <2>1 DEF Processes, RegPCs
  <1> HIDE DEF new
  <1>4. proc'[p] = new /\ \A q \in Pids : q # p => proc'[q] = proc[q]
    BY <1>1, <1>2
  <1>5. RegTypeOK'
    BY <1>1, <1>2, <1>3 DEF RegistryInv, RegTypeOK
  <1>6. HeldRecords' = HeldRecords
    BY <1>2, <1>3, <1>4 DEF HeldRecords
  <1>7. ASSUME NEW q \in Pids
        PROVE  /\ q # p => (Supervising(q)' <=> Supervising(q))
               /\ RecordOf(q)' = RecordOf(q)
               /\ Supervising(q) => Supervising(q)'
    BY <1>1, <1>3, <1>4 DEF Supervising, RecordOf
  <1>8. Timely'
    BY <1>1, <1>2, <1>3, <1>4, <1>6 DEF RegistryInv, Timely
  <1>9. NoImpersonation'
    <2> SUFFICES ASSUME NEW r \in HeldRecords, Alive(r)' PROVE Supervising(r.pid)'
      BY <1>6 DEF NoImpersonation
    <2>1. r.pid \in Pids
      BY DEF HeldRecords, Records
    <2>2. Alive(r)
      BY <1>1, <1>3, <1>4, <2>1 DEF Alive
    <2>. QED BY <1>7, <2>1, <2>2 DEF RegistryInv, NoImpersonation
  <1>10. Alone'
    <2> SUFFICES ASSUME ~doubled', NEW u \in Pids, Supervising(u)'
                 PROVE  u = p
      BY <1>3, <1>4 DEF Alone
    <2>. QED BY <1>2, <1>7
  <1>11. WholeUnlessDoubled'
    BY <1>2 DEF RegistryInv, WholeUnlessDoubled
  <1>12. ListedUnlessRobbed'
    BY <1>2, <1>3, <1>4, <1>7 DEF RegistryInv, ListedUnlessRobbed
  <1>13. SeesAhead'
    <2> SUFFICES ASSUME NEW u \in Pids, NEW q \in proc'[u].ahead
                 PROVE  proc'[u].pc = "ask" /\ Supervising(q)' /\ proc'[u].got = RecordOf(q)'
      BY DEF SeesAhead
    <2>1. u # p
      BY <1>3, <1>4
    <2>2. q \in proc[u].ahead /\ q \in Pids
      BY <1>1, <1>4, <2>1 DEF Processes
    <2>. QED BY <1>4, <1>7, <2>1, <2>2 DEF RegistryInv, SeesAhead
  <1>. QED BY <1>5, <1>8, <1>9, <1>10, <1>11, <1>12, <1>13 DEF RegistryInv

\* A supervisor writes to its temporary file: the records around are those
\* before and its own.
LEMMA WriteStep ==
  ASSUME RegistryInv, NEW p \in Pids, Supervising(p), NEW new \in Processes,
         proc' = [proc EXCEPT ![p] = new],
         new.kind = proc[p].kind, new.ticks = proc[p].ticks, new.got = proc[p].got,
         new.written = proc[p].written, new.ahead = proc[p].ahead,
         new.pc \in {"fill", "replace"},
         rec' \in {rec, RecordOf(p), Torn}, tmp' \in {tmp, Empty, RecordOf(p), Torn},
         ~doubled => /\ rec' = rec
                     /\ new.pc = "fill" => new.fd = "tmp" /\ tmp' = Empty
                     /\ new.pc = "replace" => tmp' = RecordOf(p),
         UNCHANGED <<clock, kill, doubled, robbed>>
  PROVE  RegistryInv'
  <1>1. proc \in [Pids -> Processes] /\ proc[p].kind = "up"
    BY DEF RegistryInv, RegTypeOK, Supervising
  <1>2. proc'[p] = new /\ \A q \in Pids : q # p => proc'[q] = proc[q]
    BY <1>1
  <1>3. RecordOf(p) \in Records
    BY <1>1, RegistryAssumption DEF RecordOf, Records, RegistryInv, Timely, Processes
  <1>4. RegTypeOK'
    <2>1. proc' \in [Pids -> Processes]
      BY <1>1
    <2>2. rec' \in Records \cup Broken \cup {None} /\ tmp' \in Records \cup Broken \cup {None}
      BY <1>3 DEF Broken, RegistryInv, RegTypeOK
    <2>. QED BY <2>1, <2>2 DEF RegistryInv, RegTypeOK
  <1>5. HeldRecords' \subseteq HeldRecords \cup {RecordOf(p)}
    BY <1>2, RegistryAssumption DEF HeldRecords, Broken
  <1>6. ASSUME NEW q \in Pids
        PROVE  /\ Supervising(q)' <=> Supervising(q)
               /\ RecordOf(q)' = RecordOf(q)
               /\ proc'[q].written = proc[q].written
    BY <1>1, <1>2 DEF Supervising, RecordOf
  <1>7. Timely'
    <2>1. RecordOf(p).ticks \leq clock
      BY DEF RecordOf, RegistryInv, Timely
    <2>. QED BY <1>1, <1>2, <1>5, <2>1 DEF RegistryInv, Timely
  <1>8. NoImpersonation'
    <2> SUFFICES ASSUME NEW r \in HeldRecords', Alive(r)' PROVE Supervising(r.pid)'
      BY DEF NoImpersonation
    <2>1. CASE r = RecordOf(p)
      BY <1>6, <2>1 DEF RecordOf
    <2>2. CASE r \in HeldRecords
      <3>1. r.pid \in Pids
        BY <2>2 DEF HeldRecords, Records
      <3>2. Alive(r)
        BY <1>2, <3>1 DEF Alive
      <3>. QED BY <1>6, <2>2, <3>1, <3>2 DEF RegistryInv, NoImpersonation
    <2>. QED BY <1>5, <2>1, <2>2
  <1>9. Alone'
    <2> SUFFICES ASSUME ~doubled, NEW u \in Pids, Supervising(u)'
                 PROVE  /\ \A q \in Pids : Supervising(q)' => q = u
                        /\ (proc[u].pc = "fill")' => (proc[u].fd = "tmp" /\ tmp = Empty)'
                        /\ (proc[u].pc = "replace")' => (tmp = RecordOf(u))'
      BY DEF Alone
    <2>1. u = p
      BY <1>6 DEF RegistryInv, Alone
    <2>. QED BY <1>2, <1>6, <2>1 DEF RegistryInv, Alone
  <1>10. WholeUnlessDoubled' /\ ListedUnlessRobbed'
    BY <1>6 DEF RegistryInv, WholeUnlessDoubled, ListedUnlessRobbed
  <1>11. SeesAhead'
    <2> SUFFICES ASSUME NEW u \in Pids, NEW q \in proc'[u].ahead
                 PROVE  proc'[u].pc = "ask" /\ Supervising(q)' /\ proc'[u].got = RecordOf(q)'
      BY DEF SeesAhead
    <2>1. q \in proc[u].ahead /\ q \in Pids
      BY <1>1, <1>2 DEF Processes
    <2>2. u # p
      BY <2>1 DEF RegistryInv, SeesAhead, Supervising
    <2>. QED BY <1>2, <1>6, <2>1, <2>2 DEF RegistryInv, SeesAhead
  <1>. QED BY <1>4, <1>7, <1>8, <1>9, <1>10, <1>11 DEF RegistryInv

\* Opening and filling the temporary file are such steps.
LEMMA TempSteps ==
  ASSUME RegistryInv, NEW p \in Pids, OpenRecTemp(p) \/ FillRecTemp(p)
  PROVE  RegistryInv'
  <1>1. proc \in [Pids -> Processes] /\ proc[p] \in Processes
    BY DEF RegistryInv, RegTypeOK
  <1>2. Supervising(p)
    BY DEF OpenRecTemp, FillRecTemp, RegistryInv, Timely, Supervising
  <1>3. CASE OpenRecTemp(p)
    <2> DEFINE new == [proc[p] EXCEPT !.pc = "fill", !.fd = "tmp"]
    <2>1. /\ proc' = [proc EXCEPT ![p] = new] /\ tmp' = Empty
          /\ UNCHANGED <<rec, clock, kill, doubled, robbed>>
      BY <1>1, <1>3 DEF OpenRecTemp, others
    <2>2. /\ new \in Processes
          /\ new.kind = proc[p].kind /\ new.ticks = proc[p].ticks /\ new.got = proc[p].got
          /\ new.written = proc[p].written /\ new.ahead = proc[p].ahead
          /\ new.pc = "fill" /\ new.fd = "tmp"
      BY <1>1 DEF Processes, RegPCs
    <2> HIDE DEF new
    <2>. QED BY <1>2, <2>1, <2>2, WriteStep
  <1>4. CASE FillRecTemp(p)
    <2> DEFINE new == [proc[p] EXCEPT !.pc = "replace", !.fd = "lost"]
    <2>1. /\ proc' = [proc EXCEPT ![p] = new]
          /\ UNCHANGED <<clock, kill, doubled, robbed>>
      BY <1>1, <1>4 DEF FillRecTemp, others
    <2>2. /\ new \in Processes
          /\ new.kind = proc[p].kind /\ new.ticks = proc[p].ticks /\ new.got = proc[p].got
          /\ new.written = proc[p].written /\ new.ahead = proc[p].ahead
          /\ new.pc = "replace"
      BY <1>1 DEF Processes, RegPCs
    <2>3. rec' \in {rec, RecordOf(p), Torn} /\ tmp' \in {tmp, Empty, RecordOf(p), Torn}
      BY <1>4 DEF FillRecTemp, Over
    <2>4. ~doubled => rec' = rec /\ tmp' = RecordOf(p)
      <3>1. ~doubled => proc[p].fd = "tmp" /\ tmp = Empty
        BY <1>2, <1>4 DEF RegistryInv, Alone, FillRecTemp
      <3>. QED BY <1>4, <3>1 DEF FillRecTemp, Over
    <2> HIDE DEF new
    <2>. QED BY <1>2, <2>1, <2>2, <2>3, <2>4, WriteStep
  <1>. QED BY <1>3, <1>4

\* Renamed and Unlinked change nothing but open files.
LEMMA FdFacts ==
  ASSUME NEW ps \in [Pids -> Processes], NEW qs \in {Renamed(ps), Unlinked(ps)}
  PROVE  /\ qs \in [Pids -> Processes]
         /\ \A q \in Pids :
              /\ qs[q].kind = ps[q].kind /\ qs[q].ticks = ps[q].ticks /\ qs[q].pc = ps[q].pc
              /\ qs[q].got = ps[q].got /\ qs[q].written = ps[q].written
              /\ qs[q].ahead = ps[q].ahead
              /\ qs = Unlinked(ps) => qs[q].fd = ps[q].fd \/ ps[q].fd # "tmp"
  <1>1. ASSUME NEW q \in Pids
        PROVE  /\ qs[q] \in Processes
               /\ qs[q].kind = ps[q].kind /\ qs[q].ticks = ps[q].ticks /\ qs[q].pc = ps[q].pc
               /\ qs[q].got = ps[q].got /\ qs[q].written = ps[q].written
               /\ qs[q].ahead = ps[q].ahead
               /\ qs = Unlinked(ps) => qs[q].fd = ps[q].fd \/ ps[q].fd # "tmp"
    <2>1. ps[q] \in Processes
      OBVIOUS
    <2>2. \E f \in {"tmp", "rec", "lost"} :
            /\ qs[q] = [ps[q] EXCEPT !.fd = f]
            /\ qs = Unlinked(ps) => f = ps[q].fd \/ ps[q].fd # "tmp"
      <3>1. CASE qs = Unlinked(ps)
        <4>1. qs[q] = [ps[q] EXCEPT !.fd = IF ps[q].fd = "rec" THEN "lost" ELSE ps[q].fd]
          BY <3>1 DEF Unlinked
        <4>2. (IF ps[q].fd = "rec" THEN "lost" ELSE ps[q].fd) \in {"tmp", "rec", "lost"}
          BY <2>1 DEF Processes
        <4>. QED BY <4>1, <4>2
      <3>2. CASE qs = Renamed(ps) /\ qs # Unlinked(ps)
        <4>1. qs[q] = [ps[q] EXCEPT !.fd = IF ps[q].fd = "tmp" THEN "rec" ELSE "lost"]
          BY <3>2 DEF Renamed
        <4>. QED BY <3>2, <4>1
      <3>. QED BY <3>1, <3>2
    <2>. QED BY <2>1, <2>2 DEF Processes
  <1>2. qs = [q \in Pids |-> qs[q]]
    BY DEF Renamed, Unlinked
  <1>. QED BY <1>1, <1>2

\* The temporary file becomes the record.
LEMMA ReplaceStep ==
  ASSUME RegistryInv, NEW p \in Pids, Replace(p)
  PROVE  RegistryInv'
  <1> DEFINE ps == IF proc[p].state = "failed" THEN Gone(p)
                   ELSE [proc EXCEPT ![p].pc = "run", ![p].written = TRUE]
             D == IF proc[p].state = "failed" THEN {p} ELSE {}
  <1>1. /\ RegTypeOK /\ proc \in [Pids -> Processes] /\ Supervising(p) /\ proc[p].pc = "replace"
    BY DEF RegistryInv, RegTypeOK, Replace, Timely, Supervising
  <1>2. /\ ps \in [Pids -> Processes]
        /\ \A q \in D : /\ ps[q].kind = "zombie" /\ ps[q].pc = "none" /\ ps[q].got = None
                         /\ ps[q].ticks = proc[q].ticks /\ ~ps[q].written /\ ps[q].ahead = {}
        /\ \A q \in Pids \ D :
             /\ ps[q].kind = proc[q].kind /\ ps[q].ticks = proc[q].ticks
             /\ ps[q].got = proc[q].got /\ ps[q].ahead = proc[q].ahead \ D
             /\ q # p => ps[q].pc = proc[q].pc /\ ps[q].written = proc[q].written
             /\ q = p => ps[q].pc = "run"
    <2>1. CASE proc[p].state = "failed"
      <3>1. ps = Gone(p) /\ D = {p}
        BY <2>1
      <3>2. \A q \in Pids \ {p} : proc[q] \in Processes
        BY <1>1
      <3>3. \A q \in Pids \ {p} :
              Gone(p)[q] = [proc[q] EXCEPT !.ahead = proc[q].ahead \ {p}]
        BY <1>1, GoneFacts
      <3>4. \A q \in Pids \ {p} :
              /\ Gone(p)[q].kind = proc[q].kind /\ Gone(p)[q].ticks = proc[q].ticks
              /\ Gone(p)[q].got = proc[q].got /\ Gone(p)[q].ahead = proc[q].ahead \ {p}
              /\ Gone(p)[q].pc = proc[q].pc /\ Gone(p)[q].written = proc[q].written
        BY ZenonT(60), <3>2, <3>3 DEF Processes
      <3>5. /\ Gone(p) \in [Pids -> Processes]
            /\ Gone(p)[p].kind = "zombie" /\ Gone(p)[p].pc = "none"
            /\ Gone(p)[p].ticks = proc[p].ticks /\ ~Gone(p)[p].written
            /\ Gone(p)[p].got = None /\ Gone(p)[p].ahead = {}
        BY <1>1, GoneFacts
      <3> HIDE DEF ps, D
      <3>. QED BY <3>1, <3>4, <3>5
    <2>2. CASE proc[p].state # "failed"
      <3>1. ps = [proc EXCEPT ![p] = [proc[p] EXCEPT !.pc = "run", !.written = TRUE]]
        BY <1>1, <2>2
      <3>2. [proc[p] EXCEPT !.pc = "run", !.written = TRUE] \in Processes
        BY ZenonT(60), <1>1 DEF Processes, RegPCs
      <3>. QED BY <1>1, <2>2, <3>1, <3>2 DEF Processes
    <2>. QED BY <2>1, <2>2
  <1>3. /\ proc' = Renamed(ps) /\ rec' = tmp /\ tmp' = None /\ tmp # None
        /\ UNCHANGED <<clock, kill, doubled, robbed>>
    BY DEF Replace, others
  <1>4. D \in SUBSET Pids /\ D \subseteq {p}
    OBVIOUS
  <1> HIDE DEF ps, D
  <1>5. /\ proc' \in [Pids -> Processes]
        /\ \A q \in Pids :
             /\ proc'[q].kind = ps[q].kind /\ proc'[q].ticks = ps[q].ticks
             /\ proc'[q].pc = ps[q].pc /\ proc'[q].got = ps[q].got
             /\ proc'[q].written = ps[q].written /\ proc'[q].ahead = ps[q].ahead
    BY <1>2, <1>3, FdFacts
  <1>6. RegTypeOK'
    BY <1>1, <1>3, <1>5 DEF RegTypeOK
  <1>7. HeldRecords' \subseteq HeldRecords
    <2>1. \A q \in Pids : proc'[q].got \in {proc[q].got, None}
      BY <1>2, <1>4, <1>5
    <2>. QED BY <1>3, <2>1, RegistryAssumption DEF HeldRecords
  <1>8. ASSUME ~doubled, NEW q \in Pids PROVE q = p \/ ~Supervising(q)
    BY <1>1, <1>8 DEF RegistryInv, Alone
  <1>9. Calm(D)
    <2>1. \A q \in D : Ends(q)
      <3>1. \A q \in D : proc[q].ticks \leq clock
        BY <1>4 DEF RegistryInv, Timely
      <3>. QED BY <1>2, <1>4, <1>5, <3>1 DEF Ends
    <2>2. ASSUME NEW q \in Pids \ D PROVE Stays(q) /\ proc'[q].ahead \cap D = {}
      <3>1. CASE q = p
        BY <1>1, <1>2, <1>5, <3>1 DEF Stays
      <3>2. CASE q # p /\ doubled
        BY <1>2, <1>5, <3>2 DEF Stays
      <3>3. CASE q # p /\ ~doubled
        <4>1. proc[q].pc # "fill"
          BY <1>8, <3>3 DEF Supervising, RegistryInv, Timely
        <4>. QED BY <1>2, <1>5, <3>3, <4>1 DEF Stays
      <3>. QED BY <3>1, <3>2, <3>3
    <2>3. doubled \/ \A q \in Pids : proc'[q].pc \notin {"fill", "replace"}
      <3> SUFFICES ASSUME ~doubled, NEW q \in Pids
                   PROVE  proc'[q].pc \notin {"fill", "replace"}
        OBVIOUS
      <3>1. CASE q = p
        BY <1>2, <1>5, <3>1
      <3>2. CASE q # p
        BY <1>2, <1>4, <1>5, <1>8, <3>2 DEF Supervising, RegistryInv, Timely
      <3>. QED BY <3>1, <3>2
    <2>. QED BY <1>3, <1>6, <1>7, <2>1, <2>2, <2>3 DEF Calm, RegistryInv, Timely
  <1>10. Timely' /\ NoImpersonation' /\ Alone' /\ SeesAhead'
    BY <1>4, <1>9, CalmStep
  <1>11. ~doubled => rec' = RecordOf(p) /\ RecordOf(p) \in Records
    <2>1. ~doubled => tmp = RecordOf(p)
      BY <1>1 DEF RegistryInv, Alone
    <2>2. RecordOf(p) \in Records
      BY <1>1, RegistryAssumption
      DEF RecordOf, Records, RegistryInv, Timely, Processes, Supervising
    <2>. QED BY <1>3, <2>1, <2>2
  <1>12. WholeUnlessDoubled'
    BY <1>3, <1>11, RegistryAssumption DEF WholeUnlessDoubled
  <1>13. ListedUnlessRobbed'
    <2> SUFFICES ASSUME ~doubled, NEW q \in Pids, Supervising(q)' PROVE rec' = RecordOf(q)'
      BY <1>3 DEF ListedUnlessRobbed
    <2>1. q \notin D
      BY <1>2, <1>4, <1>5 DEF Supervising
    <2>2. q = p
      BY <1>2, <1>5, <1>8, <2>1 DEF Supervising
    <2>3. RecordOf(q)' = RecordOf(q)
      BY <1>2, <1>5, <2>1 DEF RecordOf
    <2>. QED BY <1>11, <2>2, <2>3
  <1>. QED BY <1>6, <1>10, <1>12, <1>13 DEF RegistryInv

\* A supervisor that was asked to stop removes the record.
LEMMA RemovesStep ==
  ASSUME RegistryInv, NEW p \in Pids, RemovesRecord(p)
  PROVE  RegistryInv'
  <1>1. RegTypeOK /\ proc \in [Pids -> Processes] /\ Supervising(p)
    BY DEF RegistryInv, RegTypeOK, RemovesRecord, Timely, Supervising
  <1>2. /\ Gone(p) \in [Pids -> Processes]
        /\ Gone(p)[p].kind = "zombie" /\ Gone(p)[p].pc = "none"
        /\ Gone(p)[p].ticks = proc[p].ticks /\ ~Gone(p)[p].written
        /\ Gone(p)[p].got = None /\ Gone(p)[p].ahead = {}
        /\ \A q \in Pids \ {p} :
             Gone(p)[q] = [proc[q] EXCEPT !.ahead = proc[q].ahead \ {p}]
    BY <1>1, GoneFacts
  <1>3. \A q \in Pids \ {p} :
           /\ Gone(p)[q].kind = proc[q].kind /\ Gone(p)[q].ticks = proc[q].ticks
           /\ Gone(p)[q].got = proc[q].got /\ Gone(p)[q].ahead = proc[q].ahead \ {p}
           /\ Gone(p)[q].pc = proc[q].pc /\ Gone(p)[q].written = proc[q].written
           /\ Gone(p)[q].fd = proc[q].fd
    <2>1. \A q \in Pids \ {p} : proc[q] \in Processes
      BY <1>1
    <2>2. \A q \in Pids \ {p} :
            Gone(p)[q] = [proc[q] EXCEPT !.ahead = proc[q].ahead \ {p}]
      BY <1>2
    <2>. QED BY ZenonT(60), <2>1, <2>2 DEF Processes
  <1>4. /\ proc' = Unlinked(Gone(p)) /\ rec' = None
        /\ UNCHANGED <<clock, tmp, kill, doubled, robbed>>
    BY DEF RemovesRecord, others
  <1>5. /\ proc' \in [Pids -> Processes]
        /\ \A q \in Pids :
             /\ proc'[q].kind = Gone(p)[q].kind /\ proc'[q].ticks = Gone(p)[q].ticks
             /\ proc'[q].pc = Gone(p)[q].pc /\ proc'[q].got = Gone(p)[q].got
             /\ proc'[q].written = Gone(p)[q].written /\ proc'[q].ahead = Gone(p)[q].ahead
             /\ proc'[q].fd = Gone(p)[q].fd \/ Gone(p)[q].fd # "tmp"
    BY <1>2, <1>4, FdFacts
  <1>6. RegTypeOK'
    BY <1>1, <1>4, <1>5 DEF RegTypeOK
  <1>7. HeldRecords' \subseteq HeldRecords
    <2>1. \A q \in Pids : proc'[q].got \in {proc[q].got, None}
      BY <1>2, <1>3, <1>5
    <2>. QED BY <1>4, <2>1, RegistryAssumption DEF HeldRecords
  <1>8. Calm({p})
    <2>1. Ends(p)
      BY <1>2, <1>5 DEF Ends, RegistryInv, Timely
    <2>2. ASSUME NEW q \in Pids \ {p} PROVE Stays(q) /\ proc'[q].ahead \cap {p} = {}
      BY <1>3, <1>5 DEF Stays
    <2>. QED BY <1>4, <1>6, <1>7, <2>1, <2>2 DEF Calm, RegistryInv, Timely
  <1>9. Timely' /\ NoImpersonation' /\ Alone' /\ SeesAhead'
    BY <1>8, CalmStep
  <1>10. WholeUnlessDoubled'
    BY <1>4, RegistryAssumption DEF WholeUnlessDoubled
  <1>11. ListedUnlessRobbed'
    <2> SUFFICES ASSUME ~doubled, NEW q \in Pids, Supervising(q)' PROVE FALSE
      BY <1>4 DEF ListedUnlessRobbed
    <2>1. q # p
      BY <1>2, <1>5 DEF Supervising
    <2>2. Supervising(q)
      BY <1>3, <1>5, <2>1 DEF Supervising
    <2>. QED BY <1>1, <2>1, <2>2 DEF RegistryInv, Alone
  <1>. QED BY <1>6, <1>9, <1>10, <1>11 DEF RegistryInv

------------------------------------------------------------------------------
(***************************************************************************)
(* The steps of kill.                                                      *)
(***************************************************************************)
\* kill reads and waits.
LEMMA KillReads ==
  ASSUME RegistryInv,
         KillLoads \/ KillAsks \/ KillWaits \/ KillLoadsAgain \/ KillTimesOut
  PROVE  RegistryInv'
  <1>1. kill \in Kills /\ (kill.pc # "idle" => kill.got # None)
    BY DEF RegistryInv, RegTypeOK, Timely
  <1>2. Load \in Records \cup {None} /\ (Load = None \/ Load = rec)
    BY DEF Load, RegistryInv, RegTypeOK
  <1>3. UNCHANGED <<clock, proc, rec, tmp, doubled, robbed>>
    BY DEF KillLoads, KillAsks, KillWaits, KillLoadsAgain, KillTimesOut, regFiles, others
  <1>4. /\ kill' \in Kills /\ kill'.got \in {kill.got, None, rec}
        /\ kill'.pc = "idle" \/ kill'.got # None
    <2>1. CASE KillLoads
      BY <1>1, <1>2, <2>1 DEF KillLoads, Kills
    <2>2. CASE KillAsks
      BY <1>1, <2>2 DEF KillAsks, Kills
    <2>3. CASE KillWaits
      BY <1>1, <2>3 DEF KillWaits, Kills
    <2>4. CASE KillLoadsAgain
      BY <1>1, <2>4 DEF KillLoadsAgain, Kills
    <2>5. CASE KillTimesOut
      BY <2>5 DEF KillTimesOut, Kills
    <2>. QED BY <2>1, <2>2, <2>3, <2>4, <2>5
  <1>. QED BY <1>3, <1>4, KillInv

\* kill signals a process.
LEMMA KillSignalsStep ==
  ASSUME RegistryInv, KillSignals
  PROVE  RegistryInv'
  <1> DEFINE p == kill.got.pid
  <1>1. /\ kill \in Kills /\ kill.got \in Records /\ p \in Pids
        /\ proc \in [Pids -> Processes]
    BY DEF RegistryInv, RegTypeOK, Timely, KillSignals, Kills, Records
  <1>2. UNCHANGED <<clock, rec, tmp, doubled, robbed>>
    BY DEF KillSignals, regFiles, others
  <1>3. /\ kill' \in Kills /\ kill'.got \in {kill.got, None}
        /\ kill'.pc = "idle" \/ kill'.got # None
    BY <1>1, RegistryAssumption DEF KillSignals, Kills
  <1>4. \/ proc' = Gone(p)
        \/ proc' = proc
        \/ Handles(p) /\ proc' = [proc EXCEPT ![p].asked = TRUE]
    BY <1>1 DEF KillSignals, Signalled
  <1> HIDE DEF p
  <1>5. CASE proc' = Gone(p)
    BY <1>1, <1>2, <1>3, <1>5, GoneInv
  <1>6. CASE proc' = proc
    BY <1>2, <1>3, <1>6, KillInv
  <1>7. CASE Handles(p) /\ proc' = [proc EXCEPT ![p].asked = TRUE]
    <2> DEFINE new == [proc[p] EXCEPT !.asked = TRUE]
    <2>1. /\ proc' = [proc EXCEPT ![p] = new] /\ Supervising(p) /\ proc[p] \in Processes
      BY <1>1, <1>7 DEF Handles, Supervising
    <2>2. /\ new \in Processes
          /\ new.kind = proc[p].kind /\ new.ticks = proc[p].ticks /\ new.got = proc[p].got
          /\ new.written = proc[p].written /\ new.ahead = proc[p].ahead
          /\ new.pc = proc[p].pc /\ new.fd = proc[p].fd
      BY <2>1 DEF Processes
    <2> HIDE DEF new
    <2>. QED BY <1>1, <1>2, <1>3, <2>1, <2>2, MoveInv
  <1>. QED BY <1>4, <1>5, <1>6, <1>7

\* kill removes the record.
LEMMA KillRemovesStep ==
  ASSUME RegistryInv, KillRemoves
  PROVE  RegistryInv'
  <1>1. RegTypeOK /\ proc \in [Pids -> Processes]
    BY DEF RegistryInv, RegTypeOK
  <1>2. /\ proc' = Unlinked(proc) /\ rec' = None
        /\ robbed' = (robbed \/ (Load # None /\ Alive(Load)))
        /\ kill' = [pc |-> "idle", got |-> None]
        /\ UNCHANGED <<clock, tmp, doubled>>
    BY DEF KillRemoves
  <1>3. /\ proc' \in [Pids -> Processes]
        /\ \A q \in Pids :
             /\ proc'[q].kind = proc[q].kind /\ proc'[q].ticks = proc[q].ticks
             /\ proc'[q].pc = proc[q].pc /\ proc'[q].got = proc[q].got
             /\ proc'[q].written = proc[q].written /\ proc'[q].ahead = proc[q].ahead
             /\ proc'[q].fd = proc[q].fd \/ proc[q].fd # "tmp"
    BY <1>1, <1>2, FdFacts
  <1>4. RegTypeOK'
    BY <1>1, <1>2, <1>3 DEF RegTypeOK, Kills
  <1>5. HeldRecords' \subseteq HeldRecords
    BY <1>2, <1>3, RegistryAssumption DEF HeldRecords
  <1>6. Calm({})
    BY <1>2, <1>3, <1>4, <1>5 DEF Calm, Stays
  <1>7. Timely' /\ NoImpersonation' /\ Alone' /\ SeesAhead'
    BY <1>6, CalmStep
  <1>8. WholeUnlessDoubled'
    BY <1>2, RegistryAssumption DEF WholeUnlessDoubled
  <1>9. ListedUnlessRobbed'
    <2> SUFFICES ASSUME ~doubled, ~robbed', NEW q \in Pids, Supervising(q)', proc'[q].written
                 PROVE  FALSE
      BY <1>2 DEF ListedUnlessRobbed
    <2>1. Supervising(q) /\ proc[q].written /\ ~robbed
      BY <1>2, <1>3 DEF Supervising
    <2>2. rec = RecordOf(q) /\ Alive(rec)
      BY <2>1 DEF RegistryInv, ListedUnlessRobbed, Alive, RecordOf, Supervising
    <2>3. RecordOf(q) \in Records
      BY <1>1, <2>1, RegistryAssumption
      DEF RecordOf, Records, RegistryInv, Timely, Processes, Supervising
    <2>4. Load = rec /\ Load # None
      BY <2>2, <2>3, RegistryAssumption DEF Load
    <2>. QED BY <1>2, <2>2, <2>4
  <1>. QED BY <1>4, <1>7, <1>8, <1>9 DEF RegistryInv

------------------------------------------------------------------------------
\* Every step of every command keeps the invariant.
LEMMA NextInv ==
  ASSUME RegistryInv, [RegNext]_regVars
  PROVE  RegistryInv'
  <1>1. CASE UNCHANGED regVars
    BY <1>1 DEF regVars, RegistryInv, RegTypeOK, Timely, NoImpersonation, Alone,
                WholeUnlessDoubled, ListedUnlessRobbed, SeesAhead, HeldRecords, Alive,
                Supervising, RecordOf
  <1>2. CASE Kill
    BY <1>2, KillReads, KillSignalsStep, KillRemovesStep DEF Kill
  <1>3. ASSUME NEW p \in Pids, Process(p) PROVE RegistryInv'
    BY <1>3, QuietSteps, ReapedStep, StartsStep, UpLoadsStep, UpPassesStep, StartedStep,
       TempSteps, ReplaceStep, RemovesStep DEF Process
  <1>. QED BY <1>1, <1>2, <1>3 DEF RegNext

\* The invariant of the registry, type correctness included.
THEOREM Invariance == RegSpec => []RegistryInv
  <1>1. RegInit => RegistryInv
    BY InitInv
  <1>2. RegistryInv /\ [RegNext]_regVars => RegistryInv'
    BY NextInv
  <1>. QED BY <1>1, <1>2, PTL DEF RegSpec

\* A recycled pid or a zombie never passes for a live supervisor.
THEOREM Identity == RegSpec => []NoImpersonation
  <1>1. RegistryInv => NoImpersonation
    BY DEF RegistryInv
  <1>. QED BY <1>1, Invariance, PTL

\* Without two supervisors of the name at once, no crash leaves a torn record.
THEOREM Whole == RegSpec => []WholeUnlessDoubled
  <1>1. RegistryInv => WholeUnlessDoubled
    BY DEF RegistryInv
  <1>. QED BY <1>1, Invariance, PTL

\* A live supervisor is in its record unless a second one or a kill took it.
THEOREM Listed == RegSpec => []ListedUnlessRobbed
  <1>1. RegistryInv => ListedUnlessRobbed
    BY DEF RegistryInv
  <1>. QED BY <1>1, Invariance, PTL

\* An `up` never joins a supervisor that was listed when it looked.
THEOREM Exclusion == RegSpec => []OneSupervisor
  <1>1. RegistryInv => OneSupervisor
    BY DEF RegistryInv, SeesAhead, OneSupervisor, Supervising
  <1>. QED BY <1>1, Invariance, PTL
==============================================================================
