---------------------------- MODULE ExecFunctions ----------------------------
(***************************************************************************)
(* The functions module with its exec driver: a call spawns a process,     *)
(* feeds it, and waits for its exit and for the end of its output, within  *)
(* a budget.  The process exits when it likes, or never; what it has       *)
(* forked may keep its pipes open.  asyncio (external): communicate() and  *)
(* wait() return once the process has exited and its pipes are closed.     *)
(***************************************************************************)
CONSTANT Calls   \* requests to /call/{name}

VARIABLES
  callAt,     \* callAt[c]: "new", "running", "killing" or "answered"
  child,      \* child[c]: "none", "running", "ok", "failed" or "killed"
  pipes,      \* pipes[c]: "closed", or who keeps them open: "child" or "fork"
  fnStatus    \* fnStatus[c]: the answer, or 0

fnVars == <<callAt, child, pipes, fnStatus>>

FnInit == /\ callAt = [c \in Calls |-> "new"] /\ child = [c \in Calls |-> "none"]
          /\ pipes = [c \in Calls |-> "closed"] /\ fnStatus = [c \in Calls |-> 0]

FnAnswer(c, status) == /\ fnStatus' = [fnStatus EXCEPT ![c] = status]
                       /\ callAt' = [callAt EXCEPT ![c] = "answered"]

\* _check_name, the lookup and the spawn: a bad name, an unknown function and a
\* process that cannot be started are answers.
CallFunction(c) ==
  /\ callAt[c] = "new"
  /\ \/ \E status \in {400, 404, 503} : FnAnswer(c, status) /\ UNCHANGED <<child, pipes>>
     \/ /\ callAt' = [callAt EXCEPT ![c] = "running"]
        /\ child' = [child EXCEPT ![c] = "running"] /\ pipes' = [pipes EXCEPT ![c] = "child"]
        /\ UNCHANGED fnStatus

(* The function (external): it exits, its pipes pass to what it forked, or *)
(* are closed; later the forked process ends.                              *)
ChildExits(c) ==
  /\ child[c] = "running"
  /\ \E exit \in {"ok", "failed"} : child' = [child EXCEPT ![c] = exit]
  /\ pipes' \in {[pipes EXCEPT ![c] = h] : h \in {"closed", "fork"}}
  /\ UNCHANGED <<callAt, fnStatus>>
ForkEnds(c) ==
  /\ pipes[c] = "fork" /\ pipes' = [pipes EXCEPT ![c] = "closed"]
  /\ UNCHANGED <<callAt, child, fnStatus>>

Ended(c) == child[c] # "running" /\ pipes[c] = "closed"

\* communicate() returns.
Communicated(c) ==
  /\ callAt[c] = "running" /\ Ended(c)
  /\ FnAnswer(c, IF child[c] = "ok" THEN 200 ELSE 502)
  /\ UNCHANGED <<child, pipes>>

\* Variant: wait() without kill().
TimeoutFires_waits(c) ==
  callAt[c] = "running" /\ callAt' = [callAt EXCEPT ![c] = "killing"] /\ UNCHANGED <<child, pipes, fnStatus>>

\* wait_for gives up; kill() does nothing to a process that is gone.
TimeoutFires(c) ==
  /\ callAt[c] = "running"
  /\ callAt' = [callAt EXCEPT ![c] = "killing"]
  /\ IF child[c] = "running"
       THEN /\ child' = [child EXCEPT ![c] = "killed"]
            /\ pipes' \in {[pipes EXCEPT ![c] = h] : h \in {"closed", "fork"}}
       ELSE UNCHANGED <<child, pipes>>
  /\ UNCHANGED fnStatus

\* `await proc.wait()` after the kill.
Reaped(c) ==
  /\ callAt[c] = "killing" /\ Ended(c)
  /\ FnAnswer(c, 503) /\ UNCHANGED <<child, pipes>>

Driver(c) == Communicated(c) \/ TimeoutFires(c) \/ Reaped(c)

FnNext == \E c \in Calls : CallFunction(c) \/ ChildExits(c) \/ ForkEnds(c) \/ Driver(c)

\* The event loop runs and timers fire; nothing is asked of the functions.
FnFairness == \A c \in Calls : WF_fnVars(Driver(c))

FnSpec == FnInit /\ [][FnNext]_fnVars /\ FnFairness

------------------------------------------------------------------------------
\* The answer tells what became of the function, also when it ends while its timeout
\* fires: success only for a process that exited 0 with all of its output read, and
\* no answer leaves a process running.
AnswersAreTrue ==
  \A c \in Calls : callAt[c] = "answered" =>
    /\ Ended(c)
    /\ fnStatus[c] = 200 => child[c] = "ok"
    /\ fnStatus[c] = 502 => child[c] = "failed"

\* Every call that is run is answered, even if the function never exits, unless a
\* process it forked keeps its pipes open.
AnsweredUnlessForked ==
  \A c \in Calls : callAt[c] = "running" ~> (callAt[c] = "answered" \/ pipes[c] = "fork")

\* What the functions module promises of a call.
AnsweredTruly == []AnswersAreTrue /\ AnsweredUnlessForked
==============================================================================
