------------------------------ MODULE Scratch --------------------------------
(***************************************************************************)
(* One scratch directory of the local filesystem driver, from mkdtemp to   *)
(* the end of its record (filesystem/local.py).  Requests run in a thread  *)
(* pool, so anything may happen between two system calls of one; an        *)
(* operation on the dict of records is atomic.  The name is in a directory *)
(* everybody may write to (sticky, as /tmp is): the host's cleaner may     *)
(* remove the directory, and anybody may then take the name and, with      *)
(* luck, the inode number.  mkdtemp never gives out a name twice.          *)
(***************************************************************************)
CONSTANTS
  Users,      \* requests that name a path in the directory, or delete it
  Inodes,     \* (st_dev, st_ino); a new object has any that is free
  Absent      \* nothing is at the path; there is no record

\* What lstat can find at the path.
Objects == [kind : {"dir", "file", "link"}, uid : {"self", "other"}, ino : Inodes]

ASSUME ScratchAssumption == Inodes # {} /\ Absent \notin Inodes \cup Objects

VARIABLES
  object,     \* what is at the path: Absent, or [kind, uid, ino]
  handed,     \* history: the inode /tmpdir recorded when it answered; Absent before
  handing,    \* the /tmpdir request: "none", "made", "answered" or "failed"
  record,     \* self._scratch: the recorded inode
  userAt,     \* userAt[r]: "idle", "ancestor", "lstat", "compare", "admitted", "rmdir", "forget"
  looked,     \* looked[r]: what lstat returned to r
  verdict,    \* verdict[r]: the last answer: "none", "honoured", "outsider", "refused", "error" or "deleted"
  sawOurs,    \* history: requests during which the directory handed out was at the path
  disturbed,  \* history: something else than that directory was there since
  dropped,    \* history: some request was refused over the record, or deleted it
  late        \* history: requests that began after that

scratchVars == <<object, handed, handing, record, userAt, looked, verdict, sawOurs, disturbed, dropped, late>>
hostVars == <<object, handed, handing, disturbed>>

Directory(uid, ino) == [kind |-> "dir", uid |-> uid, ino |-> ino]
NoDirectory(kind) == [kind |-> kind, uid |-> "other", ino |-> CHOOSE i \in Inodes : TRUE]

\* The directory that was handed out, as far as a process can tell: a directory of
\* the server's user, with the inode of then.
Ours(o) == handed # Absent /\ o = Directory("self", handed)

ScratchInit ==
  /\ object = Absent /\ handed = Absent /\ handing = "none" /\ record = Absent
  /\ userAt = [r \in Users |-> "idle"] /\ looked = [r \in Users |-> Absent]
  /\ verdict = [r \in Users |-> "none"]
  /\ sawOurs = {} /\ disturbed = FALSE /\ dropped = FALSE /\ late = {}

\* The path now holds o.
Becomes(o) ==
  /\ object' = o
  /\ sawOurs' = sawOurs \union {r \in Users : userAt[r] # "idle" /\ Ours(o)}
  /\ disturbed' = (disturbed \/ ~Ours(o))

\* mkdtemp of the driver, first half: tempfile.mkdtemp.
Mkdtemp ==
  /\ handing = "none" /\ handing' = "made"
  /\ \E i \in Inodes : object' = Directory("self", i)
  /\ UNCHANGED <<handed, record, userAt, looked, verdict, sawOurs, disturbed, dropped, late>>

\* Second half: realpath and lstat, and the record of whatever is there (by then a
\* link would lead to another name).
RecordScratch ==
  /\ handing = "made"
  /\ \/ /\ object \in {Absent, NoDirectory("link")}
        /\ handing' = "failed" /\ UNCHANGED <<record, handed, disturbed>>
     \/ /\ object \notin {Absent, NoDirectory("link")}
        /\ handing' = "answered" /\ record' = object.ino /\ handed' = object.ino
        /\ disturbed' = (object # Directory("self", object.ino))
  /\ UNCHANGED <<object, userAt, looked, verdict, sawOurs, dropped, late>>

\* The host (external): the cleaner removes what is at the path; then anybody puts
\* something there.
HostMoves ==
  /\ handing # "none"
  /\ \/ object # Absent /\ Becomes(Absent)
     \/ /\ object = Absent
        /\ \/ \E u \in {"self", "other"}, i \in Inodes : Becomes(Directory(u, i))
           \/ \E k \in {"file", "link"} : Becomes(NoDirectory(k))
  /\ UNCHANGED <<handed, handing, record, userAt, looked, verdict, dropped, late>>

Reply(r, v) == /\ userAt' = [userAt EXCEPT ![r] = "idle"] /\ verdict' = [verdict EXCEPT ![r] = v]
               /\ looked' = [looked EXCEPT ![r] = Absent]
               /\ dropped' = (dropped \/ v \in {"refused", "deleted"})
Proceed(r, l) == userAt' = [userAt EXCEPT ![r] = l] /\ UNCHANGED <<verdict, dropped, looked>>

\* A request for a path in the directory; clients learn it from /tmpdir.
AskFor(r) ==
  /\ handing = "answered" /\ userAt[r] = "idle"
  /\ userAt' = [userAt EXCEPT ![r] = "ancestor"] /\ verdict' = [verdict EXCEPT ![r] = "none"]
  /\ sawOurs' = IF Ours(object) THEN sawOurs \union {r} ELSE sawOurs \ {r}
  /\ late' = IF dropped THEN late \union {r} ELSE late \ {r}
  /\ UNCHANGED <<hostVars, record, looked, dropped>>

\* _resolve: realpath, then _scratch_ancestor.  A symbolic link leads elsewhere.
Resolve(r) ==
  /\ userAt[r] = "ancestor"
  /\ IF record = Absent \/ object = NoDirectory("link")
       THEN Reply(r, "outsider") ELSE Proceed(r, "lstat")
  /\ UNCHANGED <<hostVars, record, sawOurs, late>>

\* _scratch_alive: lstat; nothing there retires the record.
LstatScratch(r) ==
  /\ userAt[r] = "lstat"
  /\ \/ object = Absent /\ record' = Absent /\ Reply(r, "refused")
     \/ /\ object # Absent /\ looked' = [looked EXCEPT ![r] = object]
        /\ userAt' = [userAt EXCEPT ![r] = "compare"] /\ UNCHANGED <<verdict, dropped, record>>
  /\ UNCHANGED <<hostVars, sawOurs, late>>

\* Variant: identity is the inode alone.
CompareScratchInode(r) ==
  /\ userAt[r] = "compare"
  /\ LET o == looked[r]
     IN  \/ /\ o.kind = "dir" /\ record = Absent
            /\ Reply(r, "error") /\ UNCHANGED record
         \/ /\ o.kind = "dir" /\ record = o.ino
            /\ Proceed(r, "admitted") /\ UNCHANGED record
         \/ /\ ~(o.kind = "dir" /\ record \in {Absent, o.ino})
            /\ Reply(r, "refused") /\ record' = Absent
  /\ UNCHANGED <<hostVars, sawOurs, late>>

\* Then the comparison, which reads the record again if it comes so far: if another
\* request has retired it, that is a KeyError.  A mismatch retires it.
CompareScratch(r) ==
  /\ userAt[r] = "compare"
  /\ LET o == looked[r]
         mine == o.kind = "dir" /\ o.uid = "self"
     IN  \/ /\ mine /\ record = Absent
            /\ Reply(r, "error") /\ UNCHANGED record
         \/ /\ mine /\ record = o.ino
            /\ Proceed(r, "admitted") /\ UNCHANGED record
         \/ /\ ~(mine /\ record \in {Absent, o.ino})
            /\ Reply(r, "refused") /\ record' = Absent
  /\ UNCHANGED <<hostVars, sawOurs, late>>

\* The path is admitted: the operation on the file follows, which LocalFs has, or the
\* delete of the directory: stat.  (What unlink does to a file that took its place
\* is a step of the host here.)
Admitted(r) ==
  /\ userAt[r] = "admitted"
  /\ \/ Reply(r, "honoured")
     \/ object # Absent /\ object.kind = "dir" /\ Proceed(r, "rmdir")
  /\ UNCHANGED <<hostVars, record, sawOurs, late>>

\* rmdir: the directory may be gone, not empty, or (sticky) somebody else's.
Rmdir(r) ==
  /\ userAt[r] = "rmdir"
  /\ \/ Reply(r, "honoured") /\ UNCHANGED <<object, sawOurs, disturbed>>
     \/ /\ object # Absent /\ object.kind = "dir" /\ object.uid = "self"
        /\ Becomes(Absent) /\ Proceed(r, "forget")
  /\ UNCHANGED <<handed, handing, record, late>>

\* "A scratch directory that is gone is an outsider again."
Forget(r) ==
  /\ userAt[r] = "forget" /\ record' = Absent /\ Reply(r, "deleted")
  /\ UNCHANGED <<hostVars, sawOurs, late>>

\* The server ends and is started again: the records and the requests are gone.
ScratchRestart ==
  /\ record' = Absent /\ userAt' = [r \in Users |-> "idle"]
  /\ looked' = [r \in Users |-> Absent] /\ verdict' = [r \in Users |-> "none"]
  /\ sawOurs' = {} /\ late' = {}
  /\ handing' = IF handing = "made" THEN "failed" ELSE handing
  /\ disturbed' = TRUE
  /\ UNCHANGED <<object, handed, dropped>>

ScratchNext ==
  \/ Mkdtemp \/ RecordScratch \/ HostMoves \/ ScratchRestart
  \/ \E r \in Users : \/ AskFor(r) \/ Resolve(r) \/ LstatScratch(r) \/ CompareScratch(r)
                      \/ Admitted(r) \/ Rmdir(r) \/ Forget(r)

ScratchSpec == ScratchInit /\ [][ScratchNext]_scratchVars

------------------------------------------------------------------------------
\* filesystem-v1 5.6: "A remembered name is not enough".  A request is admitted only
\* if the directory that was handed out was at the path during the request, and never
\* for a directory of another user, who took the name and the inode before the record
\* was written or since; once a request was refused over the
\* record, or has deleted the directory, "the record is dropped for good": no later
\* request is admitted, even if the directory comes back; and a request is refused, or
\* fails, only if the directory was away at some time or the server restarted.
ScratchByIdentity ==
  \A r \in Users :
    /\ userAt[r] \in {"admitted", "rmdir", "forget"} => r \in sawOurs /\ r \notin late
    /\ verdict[r] \in {"refused", "outsider", "error", "deleted"} => disturbed
==============================================================================
