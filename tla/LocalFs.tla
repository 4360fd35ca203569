------------------------------- MODULE LocalFs -------------------------------
(***************************************************************************)
(* The local driver of the filesystem module                               *)
(* (modules/filesystem/local.py), one system call a step, its methods      *)
(* called by the worker threads of the server's thread pool.               *)
(*                                                                         *)
(*   src     stat of the source            get     open of the source      *)
(*   stat    stat of the only path         open    open of the only path   *)
(*   unlink  unlink(2)                     dst     stat of the target      *)
(*   temp    open of a temporary file      fill    write, fsync, chmod     *)
(*   link    rename(2) of the temporary    move    rename(2) of the source *)
(*                                                                         *)
(* A file, once it has a name that is not a temporary one, is never        *)
(* written to again, so opening it fixes what a read returns.  Directories *)
(* and special files are not modelled: Paths are of regular files in       *)
(* existing directories.                                                   *)
(***************************************************************************)
EXTENDS FileStore

CONSTANTS
  Partial,  \* the content of a file that is not written to the end
  Private   \* the bits of a temporary file that replaces another: 0600

ASSUME LocalFsAssumption ==
  /\ Private \in Modes
  /\ Partial \notin Contents

VARIABLES
  pc,       \* the next system call of each thread
  srcStat,  \* src_st: the bits of a copy's source
  dstStat,  \* st, dst_st: the bits of the target, or NoFile
  buf,      \* the content to write
  temp      \* the temporary file of each thread

workVars == <<pc, srcStat, dstStat, buf, temp>>
fsVars == <<vars, workVars>>

PCs == {"idle", "src", "get", "stat", "open", "unlink", "dst", "temp", "fill",
        "link", "move"}

LocalTypeOK ==
  /\ TypeOK
  /\ pc \in [Threads -> PCs]
  /\ srcStat \in [Threads -> Modes \cup {NoFile}]
  /\ dstStat \in [Threads -> Modes \cup {NoFile}]
  /\ buf \in [Threads -> Contents \cup {Partial}]
  /\ temp \in [Threads -> [data : Contents \cup {Partial}, mode : Modes] \cup {NoFile}]

LocalInit ==
  /\ Init
  /\ pc = [t \in Threads |-> "idle"]
  /\ srcStat = [t \in Threads |-> NoFile]
  /\ dstStat = [t \in Threads |-> NoFile]
  /\ buf = [t \in Threads |-> Partial]
  /\ temp = [t \in Threads |-> NoFile]

------------------------------------------------------------------------------
(***************************************************************************)
(* Requests and answers.                                                   *)
(***************************************************************************)
\* The first system call of a method.
First(c) ==
  CASE c.op = "write" -> "dst"
    [] c.op \in {"rename", "copy"} -> "src"
    [] OTHER -> "stat"

Begin(t, c) ==
  /\ Invoke(t, c)
  /\ pc' = [pc EXCEPT ![t] = First(c)]
  /\ buf' = [buf EXCEPT ![t] = IF c.op = "write" THEN c.data ELSE Partial]
  /\ UNCHANGED <<srcStat, dstStat, temp>>

\* The method returns or raises; what it held is gone, a temporary file of a
\* failed write too.
Finish(t, fs, a) ==
  /\ Effect(t, fs, a)
  /\ pc' = [pc EXCEPT ![t] = "idle"]
  /\ srcStat' = [srcStat EXCEPT ![t] = NoFile]
  /\ dstStat' = [dstStat EXCEPT ![t] = NoFile]
  /\ buf' = [buf EXCEPT ![t] = Partial]
  /\ temp' = [temp EXCEPT ![t] = NoFile]

\* A system call on p finds nothing there.
Enoent(t, p) ==
  /\ files[p] = NoFile
  /\ Finish(t, files, [kind |-> "missing"])

\* Any system call fails: EACCES, EIO, ENOSPC, EXDEV.
Fails(t) ==
  /\ pc[t] # "idle"
  /\ Finish(t, files, [kind |-> "failed"])

Goto(t, p) == pc' = [pc EXCEPT ![t] = p]

------------------------------------------------------------------------------
(***************************************************************************)
(* read, stat, delete.                                                     *)
(***************************************************************************)
StatFile(t) ==
  /\ pc[t] = "stat"
  /\ call[t].op \in {"read", "delete"}
  /\ \/ Enoent(t, call[t].to)
     \/ /\ files[call[t].to] # NoFile
        /\ Goto(t, IF call[t].op = "read" THEN "open" ELSE "unlink")
        /\ UNCHANGED <<vars, srcStat, dstStat, buf, temp>>

StatAnswers(t) ==
  /\ pc[t] = "stat"
  /\ call[t].op = "stat"
  /\ \/ Enoent(t, call[t].to)
     \/ /\ files[call[t].to] # NoFile
        /\ Finish(t, files, [kind |-> "stat", mode |-> files[call[t].to].mode])

OpenFile(t) ==
  /\ pc[t] = "open"
  /\ \/ Enoent(t, call[t].to)
     \/ /\ files[call[t].to] # NoFile
        /\ Finish(t, files, [kind |-> "content", data |-> files[call[t].to].data])

Unlink(t) ==
  /\ pc[t] = "unlink"
  /\ \/ Enoent(t, call[t].to)
     \/ /\ files[call[t].to] # NoFile
        /\ Finish(t, [files EXCEPT ![call[t].to] = NoFile], [kind |-> "deleted"])

------------------------------------------------------------------------------
(***************************************************************************)
(* write, copy, rename.                                                    *)
(***************************************************************************)
CopyOntoItself(t) ==
  /\ pc[t] = "src"
  /\ call[t].op = "copy" /\ call[t].from = call[t].to
  /\ Finish(t, files, [kind |-> "failed"])

StatSource(t) ==
  /\ pc[t] = "src"
  /\ call[t].op = "rename" \/ call[t].from # call[t].to
  /\ \/ Enoent(t, call[t].from)
     \/ /\ files[call[t].from] # NoFile
        /\ Goto(t, IF call[t].op = "copy" THEN "get" ELSE "dst")
        /\ srcStat' = [srcStat EXCEPT ![t] = files[call[t].from].mode]
        /\ UNCHANGED <<vars, dstStat, buf, temp>>

ReadSource(t) ==
  /\ pc[t] = "get"
  /\ \/ Enoent(t, call[t].from)
     \/ /\ files[call[t].from] # NoFile
        /\ Goto(t, "dst")
        /\ buf' = [buf EXCEPT ![t] = files[call[t].from].data]
        /\ UNCHANGED <<vars, srcStat, dstStat, temp>>

StatTarget(t) ==
  /\ pc[t] = "dst"
  /\ dstStat' = [dstStat EXCEPT ![t] = Bits(files[call[t].to])]
  /\ Goto(t, IF call[t].op = "rename" THEN "move" ELSE "temp")
  /\ UNCHANGED <<vars, srcStat, buf, temp>>

\* create_mode: the bits of a file that replaces none.
CreateMode(t) == IF call[t].op = "copy" THEN srcStat[t] ELSE Mode0666

\* Variant: the target itself is opened and truncated.
OpenTarget(t) ==
  /\ pc[t] = "temp"
  /\ files' = [files EXCEPT ![call[t].to] = [data |-> Partial, mode |-> Private]]
  /\ temp' = [temp EXCEPT ![t] =
       [data |-> Partial,
        mode |-> IF dstStat[t] = NoFile THEN Umask[CreateMode(t)] ELSE Private]]
  /\ Goto(t, "fill")
  /\ UNCHANGED <<call, answer, sawTo, sawFrom, srcStat, dstStat, buf>>

OpenTemp(t) ==
  /\ pc[t] = "temp"
  /\ temp' = [temp EXCEPT ![t] =
       [data |-> Partial,
        mode |-> IF dstStat[t] = NoFile THEN Umask[CreateMode(t)] ELSE Private]]
  /\ Goto(t, "fill")
  /\ UNCHANGED <<vars, srcStat, dstStat, buf>>

\* Nobody else knows the temporary's name: write, fsync and chmod are one step.
FillTemp(t) ==
  /\ pc[t] = "fill"
  /\ temp' = [temp EXCEPT ![t] =
       [data |-> buf[t],
        mode |-> IF dstStat[t] = NoFile THEN temp[t].mode ELSE dstStat[t]]]
  /\ Goto(t, "link")
  /\ UNCHANGED <<vars, srcStat, dstStat, buf>>

LinkTemp(t) ==
  /\ pc[t] = "link"
  /\ Finish(t, [files EXCEPT ![call[t].to] = temp[t]],
            [kind |-> "put", created |-> dstStat[t] = NoFile])

\* Variant: a rename across filesystems is done by copying.
MoveByCopy(t) ==
  /\ pc[t] = "move"
  /\ \/ Enoent(t, call[t].from)
     \/ /\ files[call[t].from] # NoFile
        /\ Finish(t, [files EXCEPT ![call[t].to] = files[call[t].from]],
                  [kind |-> "put", created |-> dstStat[t] = NoFile])

\* rename(2).  Across filesystems it fails (EXDEV), as any call may.
MoveFile(t) ==
  /\ pc[t] = "move"
  /\ \/ Enoent(t, call[t].from)
     \/ /\ files[call[t].from] # NoFile
        /\ Finish(t, Moved(call[t].from, call[t].to),
                  [kind |-> "put", created |-> dstStat[t] = NoFile])

\* Temporary files of a dead server stay on the disk under names nobody uses.
ServerCrash ==
  /\ Crash
  /\ pc' = [t \in Threads |-> "idle"]
  /\ srcStat' = [t \in Threads |-> NoFile]
  /\ dstStat' = [t \in Threads |-> NoFile]
  /\ buf' = [t \in Threads |-> Partial]
  /\ temp' = [t \in Threads |-> NoFile]

Step(t) ==
  \/ \E c \in Calls : Begin(t, c)
  \/ Fails(t) \/ StatFile(t) \/ StatAnswers(t) \/ OpenFile(t) \/ Unlink(t)
  \/ CopyOntoItself(t) \/ StatSource(t) \/ ReadSource(t) \/ StatTarget(t)
  \/ OpenTemp(t) \/ FillTemp(t) \/ LinkTemp(t) \/ MoveFile(t)

LocalNext == ServerCrash \/ \E t \in Threads : Step(t)

LocalSpec == LocalInit /\ [][LocalNext]_fsVars

------------------------------------------------------------------------------
(***************************************************************************)
(* Properties.                                                             *)
(***************************************************************************)
\* The driver implements the store its protocol promises: concurrent requests,
\* failing system calls and crashes included, every operation takes effect at
\* one instant and whole.
Implements == Spec

\* The paths of a request as they are now are among what it has seen.
NowIsSeen ==
  \A t \in Threads :
    call[t] # NoCall =>
      /\ Bits(files[call[t].to]) \in sawTo[t]
      /\ call[t].op = "copy" =>
           files[call[t].from] = NoFile \/ files[call[t].from] \in sawFrom[t]

\* A thread is at a system call of the method it was called for.
AtItsMethod ==
  \A t \in Threads :
    /\ pc[t] = "idle" <=> call[t] = NoCall
    /\ pc[t] = "stat" => call[t].op \in {"read", "stat", "delete"}
    /\ pc[t] = "open" => call[t].op = "read"
    /\ pc[t] = "unlink" => call[t].op = "delete"
    /\ pc[t] = "src" => call[t].op \in {"rename", "copy"}
    /\ pc[t] = "get" => call[t].op = "copy"
    /\ pc[t] = "dst" => call[t].op \in {"write", "rename", "copy"}
    /\ pc[t] \in {"temp", "fill", "link"} => call[t].op \in {"write", "copy"}
    /\ pc[t] = "move" => call[t].op = "rename"

\* What a thread carries between two system calls was true of its paths at some
\* moment since its request: stat results, the content read for a copy, and the
\* temporary file made of them, which is complete when it is renamed.
Carried(t) ==
  /\ pc[t] \in {"temp", "fill", "link", "move"} => dstStat[t] \in sawTo[t]
  /\ call[t].op = "write" => buf[t] = call[t].data
  /\ call[t].op = "copy" /\ pc[t] \in {"get", "dst", "temp", "fill", "link"} =>
       call[t].from # call[t].to /\ \E g \in sawFrom[t] : srcStat[t] = g.mode
  /\ call[t].op = "copy" /\ pc[t] \in {"dst", "temp", "fill", "link"} =>
       \E f \in sawFrom[t] : buf[t] = f.data
  /\ pc[t] = "fill" /\ dstStat[t] = NoFile => temp[t].mode = Umask[CreateMode(t)]
  /\ pc[t] = "link" =>
       temp[t] = [data |-> buf[t],
                  mode |-> IF dstStat[t] = NoFile THEN Umask[CreateMode(t)]
                           ELSE dstStat[t]]

CarriedWasSeen == \A t \in Threads : Carried(t)

\* The inductive invariant behind the refinement.
LocalInv == LocalTypeOK /\ NowIsSeen /\ AtItsMethod /\ CarriedWasSeen
==============================================================================
