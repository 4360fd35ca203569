------------------------------- MODULE Registry ------------------------------
(***************************************************************************)
(* The record of one instance name (orchestrator/registry.py) and the      *)
(* commands that race for it: any number of `up --name`, the supervisors   *)
(* they become, and one `kill` at a time (orchestrator/cli.py,             *)
(* supervisor.py).                                                         *)
(*                                                                         *)
(* An `up` goes through                                                    *)
(*   load  registry.load             open     open of <name>.tmp           *)
(*   ask   supervisor_alive          fill     write and close              *)
(*   start containment and ports     replace  os.replace onto <name>.json  *)
(*   run   the event loop            end      handlers removed, all killed *)
(* and a write is open, fill, replace.  Who has opened <name>.tmp goes on  *)
(* writing to that file after somebody else has renamed it: fd is the name *)
(* the file has now, "lost" if it has none.                                *)
(***************************************************************************)
EXTENDS Naturals

CONSTANTS
  Pids,      \* process ids, reused
  MaxTicks,  \* the end of time: processes started
  None,      \* no file, no record
  Empty,     \* the content of a file just opened
  Torn       \* two writes mixed

VARIABLES
  clock,    \* kernel time, in ticks
  proc,     \* the processes, by pid
  rec,      \* the content of <name>.json
  tmp,      \* the content of <name>.tmp
  kill,     \* the kill command
  doubled,  \* history: two supervisors of the name ran at once
  robbed    \* history: kill removed the record of a live supervisor

regVars == <<clock, proc, rec, tmp, kill, doubled, robbed>>

Records == [pid : Pids, ticks : 1..MaxTicks]

\* Contents that json.loads refuses.
Broken == {Empty, Torn}

ASSUME RegistryAssumption ==
  /\ MaxTicks \in Nat
  /\ None \notin Records \cup Broken
  /\ Broken \cap Records = {}

\* asked, failed: the shutdown event was set by a signal, by a failure.
\* written: the first record is written.  ahead: history, the supervisors whose
\* record was there when this process looked for one.
NoProcess ==
  [kind |-> "free", ticks |-> 0, pc |-> "none", got |-> None, fd |-> "lost",
   asked |-> FALSE, failed |-> FALSE, written |-> FALSE, state |-> "running", ahead |-> {}]

RegPCs == {"none", "load", "ask", "start", "open", "fill", "replace", "run", "end"}

Processes ==
  [kind : {"free", "zombie", "up", "other"}, ticks : 0..MaxTicks,
   pc : RegPCs, got : Records \cup {None}, fd : {"tmp", "rec", "lost"},
   asked : BOOLEAN, failed : BOOLEAN, written : BOOLEAN,
   state : {"running", "failed"}, ahead : SUBSET Pids]

Kills == [pc : {"idle", "ask", "signal", "wait", "load", "remove"},
          got : Records \cup {None}]

RegTypeOK ==
  /\ clock \in 0..MaxTicks
  /\ proc \in [Pids -> Processes]
  /\ rec \in Records \cup Broken \cup {None}
  /\ tmp \in Records \cup Broken \cup {None}
  /\ kill \in Kills
  /\ doubled \in BOOLEAN
  /\ robbed \in BOOLEAN

RegInit ==
  /\ clock = 0
  /\ proc = [p \in Pids |-> NoProcess]
  /\ rec = None
  /\ tmp = None
  /\ kill = [pc |-> "idle", got |-> None]
  /\ doubled = FALSE
  /\ robbed = FALSE

------------------------------------------------------------------------------
(***************************************************************************)
(* Processes and files.                                                    *)
(***************************************************************************)
regFiles == <<rec, tmp>>
others == <<clock, doubled, robbed>>

\* Variant: the start ticks are not compared.
AliveByPid(r) == proc[r.pid].kind \in {"up", "other"}

\* supervisor_alive: the pid exists, is no zombie and has the recorded ticks.
Alive(r) ==
  /\ proc[r.pid].kind \in {"up", "other"}
  /\ proc[r.pid].ticks = r.ticks

\* Registry.load: None where there is no file or no whole record in it.
Load == IF rec \in Broken THEN None ELSE rec

\* p runs a supervisor: it is past its check.
Supervising(p) ==
  proc[p].kind = "up" /\ proc[p].pc \in {"open", "fill", "replace", "run", "end"}

\* A pid is taken: by an `up --name` of this instance, or by anything else.
Starts(p, kind) ==
  /\ proc[p].kind = "free" /\ clock < MaxTicks
  /\ clock' = clock + 1
  /\ proc' = [proc EXCEPT ![p].kind = kind, ![p].ticks = clock + 1,
                          ![p].pc = IF kind = "up" THEN "load" ELSE "none"]
  /\ UNCHANGED <<regFiles, kill, doubled, robbed>>

\* The processes once p is gone; its parent has not reaped it yet.
Gone(p) ==
  [q \in Pids |-> IF q = p THEN [NoProcess EXCEPT !.kind = "zombie", !.ticks = proc[p].ticks]
                  ELSE [proc[q] EXCEPT !.ahead = @ \ {p}]]

\* A crash, SIGKILL, or an `up` that gives up: no containment, no ports.
Dies(p) ==
  /\ proc[p].kind \in {"up", "other"}
  /\ proc' = Gone(p)
  /\ UNCHANGED <<regFiles, kill, others>>

Reaped(p) ==
  /\ proc[p].kind = "zombie"
  /\ proc' = [proc EXCEPT ![p] = NoProcess]
  /\ UNCHANGED <<regFiles, kill, others>>

------------------------------------------------------------------------------
(***************************************************************************)
(* up.                                                                     *)
(***************************************************************************)
UpLoads(p) ==
  /\ proc[p].pc = "load"
  /\ proc' = [proc EXCEPT
       ![p].pc = "ask", ![p].got = Load,
       ![p].ahead = IF doubled \/ robbed THEN {}
                    ELSE {q \in Pids : Supervising(q) /\ proc[q].written}]
  /\ UNCHANGED <<regFiles, kill, others>>

\* Variant: a refused `up` removes what it finds on its way out.
UpRefusedCleansUp(p) ==
  /\ proc[p].pc = "ask"
  /\ proc[p].got # None /\ Alive(proc[p].got)
  /\ rec' = None
  /\ proc' = Gone(p)
  /\ UNCHANGED <<tmp, kill, others>>

\* "instance is already running".
UpRefused(p) ==
  /\ proc[p].pc = "ask"
  /\ proc[p].got # None /\ Alive(proc[p].got)
  /\ proc' = Gone(p)
  /\ UNCHANGED <<regFiles, kill, others>>

\* Variant: a record that is there is taken for a post-mortem.
UpPassesAnyhow(p) ==
  /\ proc[p].pc = "ask"
  /\ proc' = [proc EXCEPT ![p].pc = "start", ![p].got = None]
  /\ UNCHANGED <<regFiles, kill, others>>

UpPasses(p) ==
  /\ proc[p].pc = "ask"
  /\ ~(proc[p].got # None /\ Alive(proc[p].got))
  /\ proc' = [proc EXCEPT ![p].pc = "start", ![p].got = None]
  /\ UNCHANGED <<regFiles, kill, others>>

\* Containment, ports and services are there.
Started(p) ==
  /\ proc[p].pc = "start"
  /\ proc' = [proc EXCEPT ![p].pc = "open"]
  /\ doubled' = (doubled \/ \E q \in Pids \ {p} : Supervising(q))
  /\ UNCHANGED <<clock, regFiles, kill, robbed>>

\* A service changes its state.
Notify(p) ==
  /\ proc[p].pc = "run"
  /\ proc' = [proc EXCEPT ![p].pc = "open"]
  /\ UNCHANGED <<regFiles, kill, others>>

\* open with O_TRUNC: a new temporary file, or the one of somebody else.
OpenRecTemp(p) ==
  /\ proc[p].pc = "open"
  /\ tmp' = Empty
  /\ proc' = [proc EXCEPT ![p].pc = "fill", ![p].fd = "tmp"]
  /\ UNCHANGED <<rec, kill, others>>

\* The record of p as _write_record makes it.
RecordOf(p) == [pid |-> p, ticks |-> proc[p].ticks]

\* What stands in the file already is overwritten from its start; where it was
\* longer, its end stays.
Over(p, old) == {RecordOf(p)} \cup (IF old = Empty THEN {} ELSE {Torn})

FillRecTemp(p) ==
  /\ proc[p].pc = "fill"
  /\ tmp' \in IF proc[p].fd = "tmp" THEN Over(p, tmp) ELSE {tmp}
  /\ rec' \in IF proc[p].fd = "rec" THEN Over(p, rec) ELSE {rec}
  /\ proc' = [proc EXCEPT ![p].pc = "replace", ![p].fd = "lost"]
  /\ UNCHANGED <<kill, others>>

\* The open files of ps once the file at <name>.json has lost its name, and
\* once the temporary file has got it.
Unlinked(ps) == [q \in Pids |-> [ps[q] EXCEPT !.fd = IF @ = "rec" THEN "lost" ELSE @]]
Renamed(ps) == [q \in Pids |-> [ps[q] EXCEPT !.fd = IF @ = "tmp" THEN "rec" ELSE "lost"]]

\* After its last write a failed supervisor exits, any other one goes on.
Replace(p) ==
  /\ proc[p].pc = "replace" /\ tmp # None
  /\ rec' = tmp
  /\ tmp' = None
  /\ proc' = Renamed(IF proc[p].state = "failed" THEN Gone(p)
                     ELSE [proc EXCEPT ![p].pc = "run", ![p].written = TRUE])
  /\ UNCHANGED <<kill, others>>

\* Somebody else renamed the temporary file away: FileNotFoundError.  It ends
\* run(), or the task of the service that notified.
ReplaceRaises(p) ==
  /\ proc[p].pc = "replace" /\ tmp = None
  /\ \/ proc' = Gone(p)
     \/ /\ proc[p].written /\ proc[p].state = "running"
        /\ proc' = [proc EXCEPT ![p].pc = "run"]
  /\ UNCHANGED <<regFiles, kill, others>>

------------------------------------------------------------------------------
(***************************************************************************)
(* The end of a supervisor.                                                *)
(***************************************************************************)
\* fail().
UpFails(p) ==
  /\ proc[p].pc = "run"
  /\ proc' = [proc EXCEPT ![p].failed = TRUE]
  /\ UNCHANGED <<regFiles, kill, others>>

\* Everything is stopped and the signal handlers are removed.
ShutsDown(p) ==
  /\ proc[p].pc = "run"
  /\ proc[p].asked \/ proc[p].failed
  /\ proc' = [proc EXCEPT ![p].pc = "end"]
  /\ UNCHANGED <<regFiles, kill, others>>

LeavesPostMortem(p) ==
  /\ proc[p].pc = "end" /\ proc[p].failed
  /\ proc' = [proc EXCEPT ![p].pc = "open", ![p].state = "failed"]
  /\ UNCHANGED <<regFiles, kill, others>>

RemovesRecord(p) ==
  /\ proc[p].pc = "end" /\ ~proc[p].failed
  /\ rec' = None
  /\ proc' = Unlinked(Gone(p))
  /\ UNCHANGED <<tmp, kill, others>>

\* SIGINT or SIGTERM, at a terminal or from kill: a process without handlers dies.
Handles(p) ==
  /\ proc[p].kind = "up" /\ proc[p].state = "running"
  /\ proc[p].pc \in {"open", "fill", "replace", "run"}

Signalled(p) ==
  CASE Handles(p) -> [proc EXCEPT ![p].asked = TRUE]
    [] proc[p].kind \in {"up", "other"} /\ ~Handles(p) -> Gone(p)
    [] OTHER -> proc

Interrupted(p) ==
  /\ Handles(p) /\ ~proc[p].asked
  /\ proc' = Signalled(p)
  /\ UNCHANGED <<regFiles, kill, others>>

------------------------------------------------------------------------------
(***************************************************************************)
(* kill.                                                                   *)
(***************************************************************************)
KillLoads ==
  /\ kill.pc = "idle" /\ Load # None
  /\ kill' = [pc |-> "ask", got |-> Load]
  /\ UNCHANGED <<proc, regFiles, others>>

KillAsks ==
  /\ kill.pc = "ask"
  /\ kill' = [kill EXCEPT !.pc = IF Alive(kill.got) THEN "signal" ELSE "remove"]
  /\ UNCHANGED <<proc, regFiles, others>>

\* SIGTERM, or with --force SIGKILL.  A pid that is gone raises
\* ProcessLookupError, which only --force catches.
KillSignals ==
  /\ kill.pc = "signal"
  /\ LET p == kill.got.pid
         ended == [pc |-> "idle", got |-> None]
         waits == [kill EXCEPT !.pc = "wait"]
     IN  \/ /\ proc' = Signalled(p)
            /\ kill' = IF proc[p].kind = "free" THEN ended ELSE waits
         \/ /\ proc' = IF proc[p].kind \in {"up", "other"} THEN Gone(p) ELSE proc
            /\ kill' = waits
  /\ UNCHANGED <<regFiles, others>>

KillWaits ==
  /\ kill.pc = "wait"
  /\ ~Alive(kill.got)
  /\ kill' = [kill EXCEPT !.pc = "load"]
  /\ UNCHANGED <<proc, regFiles, others>>

KillLoadsAgain ==
  /\ kill.pc = "load"
  /\ kill' = IF Load = None THEN [pc |-> "idle", got |-> None]
             ELSE [kill EXCEPT !.pc = "remove"]
  /\ UNCHANGED <<proc, regFiles, others>>

KillRemoves ==
  /\ kill.pc = "remove"
  /\ rec' = None
  /\ robbed' = (robbed \/ (Load # None /\ Alive(Load)))
  /\ proc' = Unlinked(proc)
  /\ kill' = [pc |-> "idle", got |-> None]
  /\ UNCHANGED <<clock, tmp, doubled>>

KillTimesOut ==
  /\ kill.pc = "wait"
  /\ kill' = [pc |-> "idle", got |-> None]
  /\ UNCHANGED <<proc, regFiles, others>>

Process(p) ==
  \/ Starts(p, "up") \/ Starts(p, "other") \/ Dies(p) \/ Reaped(p)
  \/ UpLoads(p) \/ UpRefused(p) \/ UpPasses(p) \/ Started(p) \/ Notify(p)
  \/ OpenRecTemp(p) \/ FillRecTemp(p) \/ Replace(p) \/ ReplaceRaises(p)
  \/ UpFails(p) \/ ShutsDown(p) \/ LeavesPostMortem(p) \/ RemovesRecord(p) \/ Interrupted(p)

Kill ==
  \/ KillLoads \/ KillAsks \/ KillSignals \/ KillWaits \/ KillLoadsAgain
  \/ KillRemoves \/ KillTimesOut

RegNext == Kill \/ \E p \in Pids : Process(p)

RegSpec == RegInit /\ [][RegNext]_regVars

------------------------------------------------------------------------------
(***************************************************************************)
(* Properties.                                                             *)
(***************************************************************************)
HeldRecords == ({rec, tmp, kill.got} \cup {proc[p].got : p \in Pids}) \cap Records

\* Whoever holds a record that passes supervisor_alive - a file, an `up`, a
\* `kill` - holds the record of a supervisor that runs: no other process that
\* got its pid, and no zombie, passes for one.
NoImpersonation == \A r \in HeldRecords : Alive(r) => Supervising(r.pid)

\* As long as no two supervisors of the name run at once, <name>.json is missing
\* or whole, wherever a supervisor dies.
WholeUnlessDoubled == ~doubled => rec \notin Broken

\* A supervisor that has written its record is the one in <name>.json, except
\* after a second one ran or a kill removed the record of a live one.
ListedUnlessRobbed ==
  ~doubled /\ ~robbed =>
    \A p \in Pids : Supervising(p) /\ proc[p].written => rec = RecordOf(p)

\* An `up` that looked for a record when another supervisor had written its own
\* does not get past its check as long as that one runs.
OneSupervisor ==
  \A p \in Pids :
    proc[p].pc = "start" \/ Supervising(p) => proc[p].ahead = {}

\* No record and no process is of the future, only processes of this program
\* are somewhere in it, and a kill has a record in hand.
Timely ==
  /\ kill.pc # "idle" => kill.got # None
  /\ \A r \in HeldRecords : r.ticks \leq clock
  /\ \A p \in Pids :
       /\ proc[p].ticks \leq clock
       /\ proc[p].kind \in {"up", "other"} => proc[p].ticks > 0
       /\ proc[p].kind # "up" => proc[p].pc = "none"
       /\ proc[p].kind = "up" => proc[p].pc # "none"
       /\ proc[p].pc \in {"none", "load", "ask", "start"} => ~proc[p].written

\* A lone supervisor has the temporary file to itself.
Alone ==
  ~doubled =>
    \A p \in Pids : Supervising(p) =>
      /\ \A q \in Pids : Supervising(q) => q = p
      /\ proc[p].pc = "fill" => proc[p].fd = "tmp" /\ tmp = Empty
      /\ proc[p].pc = "replace" => tmp = RecordOf(p)

\* Who looks while a listed supervisor runs has its record in hand.
SeesAhead ==
  \A p \in Pids :
    \A q \in proc[p].ahead :
      proc[p].pc = "ask" /\ Supervising(q) /\ proc[p].got = RecordOf(q)

\* The inductive invariant.
RegistryInv ==
  /\ RegTypeOK /\ Timely /\ NoImpersonation /\ Alone
  /\ WholeUnlessDoubled /\ ListedUnlessRobbed /\ SeesAhead

==============================================================================
