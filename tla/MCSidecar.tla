----------------------------- MODULE MCSidecar -------------------------------
(***************************************************************************)
(* The sidecar and its modules, for TLC.  The modules share no state, so a *)
(* behaviour exercises one of them, or the process around them: `part`     *)
(* says which, and the others stay where they start.                       *)
(***************************************************************************)
EXTENDS Chat, IssueTracker, MailSpool, Sql, LlmProxy, Scratch, Sidecar, TLC

CONSTANTS x, y   \* two processes, two bodies, two requests

VARIABLE part

\* Each part may be told to call x y, and y x.
Symmetry == Permutations({x, y})

\* An issue whose description has been written ten times while the clock stood still;
\* the next one shows as the same microsecond.
BusyIssue ==
  [scalar |-> [f \in Scalars |-> "NEW"], coll |-> [c \in Collections |-> {}],
   modified |-> Float(0) + 10 * Micro, description |-> x]
BusyTracker ==
  /\ issues = <<BusyIssue>> /\ comments = <<<<x>>>> /\ updates = <<<<>>>> /\ related = <<{}>>
  /\ pager = NoPager /\ writes = MaxWrites - 1

MCLists == {<<"m1", "m2">>, <<"m1", "m3">>}

allVars == <<part, chatVars, trackerVars, mailVars, sqlVars, llmVars, scratchVars, sidecarVars>>

Init ==
  /\ part \in {"chat", "tracker", "mail", "sql", "llm", "scratch", "process"}
  /\ ChatInit /\ MailInit /\ SqlInit /\ LlmInit /\ ScratchInit /\ SidecarInit
  /\ TrackerInit \/ (part = "tracker" /\ BusyTracker)
  /\ part = "process" \/ path = "absent"

Next ==
  \/ /\ part = "chat" /\ ChatNext
     /\ UNCHANGED <<part, trackerVars, mailVars, sqlVars, llmVars, scratchVars, sidecarVars>>
  \/ /\ part = "tracker" /\ TrackerNext
     /\ UNCHANGED <<part, chatVars, mailVars, sqlVars, llmVars, scratchVars, sidecarVars>>
  \/ /\ part = "mail" /\ MailNext
     /\ UNCHANGED <<part, chatVars, trackerVars, sqlVars, llmVars, scratchVars, sidecarVars>>
  \/ /\ part = "sql" /\ SqlNext
     /\ UNCHANGED <<part, chatVars, trackerVars, mailVars, llmVars, scratchVars, sidecarVars>>
  \/ /\ part = "llm" /\ LlmNext
     /\ UNCHANGED <<part, chatVars, trackerVars, mailVars, sqlVars, scratchVars, sidecarVars>>
  \/ /\ part = "scratch" /\ ScratchNext
     /\ UNCHANGED <<part, chatVars, trackerVars, mailVars, sqlVars, llmVars, sidecarVars>>
  \/ /\ part = "process" /\ SidecarNext
     /\ UNCHANGED <<part, chatVars, trackerVars, mailVars, sqlVars, llmVars, scratchVars>>

Spec == Init /\ [][Next]_allVars
==============================================================================
