------------------------------ MODULE FileStore ------------------------------
(***************************************************************************)
(* What the filesystem module promises its clients (spec/filesystem-v1.md, *)
(* sections 2 and 5; modules/filesystem/driver.py): every operation takes  *)
(* effect at one instant, whole, or not at all, and a crash leaves every   *)
(* file as it was.                                                         *)
(*                                                                         *)
(* What an operation says of the file it replaces (`created`), and what it *)
(* takes over from it (the permission bits), may be true of any moment     *)
(* between the request and the effect: sawTo and sawFrom are what could be *)
(* seen of the two paths since the request.                                *)
(***************************************************************************)
CONSTANTS
  Threads,   \* the worker threads, one request each
  Paths,     \* resolved paths inside the root
  Contents,  \* the contents of files
  Modes,     \* permission bits
  Umask,     \* Umask[m]: the bits m as the umask leaves them
  Mode0666,  \* the bits a plain write creates a file with
  NoFile     \* nothing at a path

ASSUME FileStoreAssumption ==
  /\ Umask \in [Modes -> Modes]
  /\ Mode0666 \in Modes
  /\ NoFile \notin Modes
  /\ NoFile \notin [data : Contents, mode : Modes]

VARIABLES
  files,    \* what is at each path
  call,     \* the request a thread works on
  answer,   \* the last answer of each thread
  sawTo,    \* the bits seen at the request's target since it arrived
  sawFrom   \* the files seen at a copy's source since it arrived

vars == <<files, call, answer, sawTo, sawFrom>>

File == [data : Contents, mode : Modes]

Calls ==
  [op : {"read", "stat", "delete"}, to : Paths] \cup
  [op : {"write"}, to : Paths, data : Contents] \cup
  [op : {"rename", "copy"}, from : Paths, to : Paths]

NoCall == [op |-> "none"]

Answers ==
  [kind : {"none", "missing", "failed", "deleted"}] \cup
  [kind : {"put"}, created : BOOLEAN] \cup
  [kind : {"content"}, data : Contents] \cup
  [kind : {"stat"}, mode : Modes]

Bits(f) == IF f = NoFile THEN NoFile ELSE f.mode

TypeOK ==
  /\ files \in [Paths -> File \cup {NoFile}]
  /\ call \in [Threads -> Calls \cup {NoCall}]
  /\ answer \in [Threads -> Answers]
  /\ sawTo \in [Threads -> SUBSET (Modes \cup {NoFile})]
  /\ sawFrom \in [Threads -> SUBSET File]

Init ==
  /\ files \in [Paths -> File \cup {NoFile}]
  /\ call = [t \in Threads |-> NoCall]
  /\ answer = [t \in Threads |-> [kind |-> "none"]]
  /\ sawTo = [t \in Threads |-> {}]
  /\ sawFrom = [t \in Threads |-> {}]

------------------------------------------------------------------------------
\* What t has seen once the files are fs.
SeenTo(t, fs) ==
  IF call[t] = NoCall THEN {} ELSE sawTo[t] \cup {Bits(fs[call[t].to])}

SeenFrom(t, fs) ==
  IF call[t].op = "copy" THEN sawFrom[t] \cup ({fs[call[t].from]} \ {NoFile}) ELSE {}

\* A request arrives.
Invoke(t, c) ==
  /\ call[t] = NoCall
  /\ call' = [call EXCEPT ![t] = c]
  /\ answer' = [answer EXCEPT ![t] = [kind |-> "none"]]
  /\ sawTo' = [sawTo EXCEPT ![t] = {Bits(files[c.to])}]
  /\ sawFrom' = [sawFrom EXCEPT ![t] = IF c.op = "copy" THEN {files[c.from]} \ {NoFile} ELSE {}]
  /\ files' = files

\* The request of t takes effect and is answered: the files become fs.
Effect(t, fs, a) ==
  /\ files' = fs
  /\ answer' = [answer EXCEPT ![t] = a]
  /\ call' = [call EXCEPT ![t] = NoCall]
  /\ sawTo' = [u \in Threads |-> IF u = t THEN {} ELSE SeenTo(u, fs)]
  /\ sawFrom' = [u \in Threads |-> IF u = t THEN {} ELSE SeenFrom(u, fs)]

\* The path that has to hold a file.
Source(c) == IF c.op \in {"rename", "copy"} THEN c.from ELSE c.to

Missing(t) ==
  /\ call[t] # NoCall /\ call[t].op # "write"
  /\ files[Source(call[t])] = NoFile
  /\ Effect(t, files, [kind |-> "missing"])

\* A refusal (of the kernel, of a copy onto itself, of a rename that cannot be
\* atomic) or a failing disk.
Failed(t) ==
  /\ call[t] # NoCall
  /\ Effect(t, files, [kind |-> "failed"])

Read(t) ==
  /\ call[t].op = "read"
  /\ files[call[t].to] # NoFile
  /\ Effect(t, files, [kind |-> "content", data |-> files[call[t].to].data])

Stat(t) ==
  /\ call[t].op = "stat"
  /\ files[call[t].to] # NoFile
  /\ Effect(t, files, [kind |-> "stat", mode |-> files[call[t].to].mode])

Delete(t) ==
  /\ call[t].op = "delete"
  /\ files[call[t].to] # NoFile
  /\ Effect(t, [files EXCEPT ![call[t].to] = NoFile], [kind |-> "deleted"])

\* A new file at the target: with the bits b of the file it replaces, or with
\* the bits m where it replaces none.
Put(t, d, b, m) ==
  Effect(t, [files EXCEPT ![call[t].to] =
               [data |-> d, mode |-> IF b = NoFile THEN Umask[m] ELSE b]],
         [kind |-> "put", created |-> b = NoFile])

Write(t) ==
  /\ call[t].op = "write"
  /\ \E b \in sawTo[t] : Put(t, call[t].data, b, Mode0666)

Copy(t) ==
  /\ call[t].op = "copy"
  /\ call[t].from # call[t].to
  /\ \E b \in sawTo[t], f \in sawFrom[t], g \in sawFrom[t] : Put(t, f.data, b, g.mode)

\* The files after rename(2): a file renamed onto itself stays.
Moved(from, to) ==
  IF from = to THEN files ELSE [files EXCEPT ![to] = files[from], ![from] = NoFile]

Rename(t) ==
  /\ call[t].op = "rename"
  /\ files[call[t].from] # NoFile
  /\ \E b \in sawTo[t] :
       Effect(t, Moved(call[t].from, call[t].to), [kind |-> "put", created |-> b = NoFile])

\* The server dies and is started again: requests are lost, files are not.
Crash ==
  /\ call' = [t \in Threads |-> NoCall]
  /\ answer' = [t \in Threads |-> [kind |-> "none"]]
  /\ sawTo' = [t \in Threads |-> {}]
  /\ sawFrom' = [t \in Threads |-> {}]
  /\ files' = files

Serve(t) ==
  \/ \E c \in Calls : Invoke(t, c)
  \/ Missing(t) \/ Failed(t) \/ Read(t) \/ Stat(t) \/ Delete(t)
  \/ Write(t) \/ Copy(t) \/ Rename(t)

Next == Crash \/ \E t \in Threads : Serve(t)

Spec == Init /\ [][Next]_vars
==============================================================================
