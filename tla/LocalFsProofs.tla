---------------------------- MODULE LocalFsProofs ----------------------------
(***************************************************************************)
(* The local driver implements the file store, for any number of threads,  *)
(* paths, contents and permission bits: LocalInv is an inductive invariant *)
(* of LocalSpec, and under it every step of the driver is a step of the    *)
(* store or leaves the store alone.                                        *)
(***************************************************************************)
EXTENDS LocalFs, TLAPS

\* A request names the paths, and a write the content, that its method uses.
LEMMA CallShape ==
  ASSUME TypeOK, NEW t \in Threads
  PROVE  /\ call[t].op \in {"none", "read", "stat", "delete", "write", "rename", "copy"}
         /\ call[t] = NoCall <=> call[t].op = "none"
         /\ call[t] # NoCall => call[t].to \in Paths
         /\ call[t].op \in {"rename", "copy"} => call[t].from \in Paths
         /\ call[t].op = "write" => call[t].data \in Contents
  BY DEF TypeOK, Calls, NoCall

\* The bits of a file, or of none, are bits or NoFile.
LEMMA BitsType ==
  ASSUME NEW f \in File \cup {NoFile}
  PROVE  Bits(f) \in Modes \cup {NoFile}
  BY DEF Bits, File

\* A method that ends with well-typed files and a well-formed answer leaves the
\* driver well-typed.
LEMMA FinishTypes ==
  ASSUME LocalTypeOK, NEW t \in Threads, NEW a \in Answers,
         NEW fs \in [Paths -> File \cup {NoFile}], Finish(t, fs, a)
  PROVE  LocalTypeOK'
PROOF
  <1>1. /\ files' \in [Paths -> File \cup {NoFile}]
        /\ call' \in [Threads -> Calls \cup {NoCall}]
        /\ answer' \in [Threads -> Answers]
    BY DEF LocalTypeOK, TypeOK, Finish, Effect
  <1>2. ASSUME NEW u \in Threads
        PROVE  /\ SeenTo(u, fs) \in SUBSET (Modes \cup {NoFile})
               /\ SeenFrom(u, fs) \in SUBSET File
    <2>1. TypeOK
      BY DEF LocalTypeOK
    <2>2. sawTo[u] \in SUBSET (Modes \cup {NoFile}) /\ sawFrom[u] \in SUBSET File
      BY <2>1 DEF TypeOK
    <2>3. call[u] # NoCall => Bits(fs[call[u].to]) \in Modes \cup {NoFile}
      BY <2>1, CallShape, BitsType
    <2>4. call[u].op = "copy" => fs[call[u].from] \in File \cup {NoFile}
      BY <2>1, CallShape
    <2>. QED BY <2>2, <2>3, <2>4 DEF SeenTo, SeenFrom
  <1>3. /\ sawTo' \in [Threads -> SUBSET (Modes \cup {NoFile})]
        /\ sawFrom' \in [Threads -> SUBSET File]
    BY <1>2 DEF Finish, Effect
  <1>4. /\ pc' \in [Threads -> PCs]
        /\ srcStat' \in [Threads -> Modes \cup {NoFile}]
        /\ dstStat' \in [Threads -> Modes \cup {NoFile}]
        /\ buf' \in [Threads -> Contents \cup {Partial}]
    BY DEF LocalTypeOK, Finish, PCs
  <1>5. temp' \in [Threads -> [data : Contents \cup {Partial}, mode : Modes] \cup {NoFile}]
    BY DEF LocalTypeOK, Finish
  <1>. QED BY <1>1, <1>3, <1>4, <1>5 DEF LocalTypeOK, TypeOK

\* The end of a method preserves the invariant: the thread is idle, and every
\* other thread has seen the files as they are now.
LEMMA FinishStep ==
  ASSUME LocalInv, NEW t \in Threads, NEW a \in Answers,
         NEW fs \in [Paths -> File \cup {NoFile}], Finish(t, fs, a)
  PROVE  LocalInv'
PROOF
  <1>1. LocalTypeOK'
    BY FinishTypes DEF LocalInv
  <1>2. /\ call'[t] = NoCall /\ pc'[t] = "idle"
        /\ files' = fs
    BY DEF LocalInv, LocalTypeOK, TypeOK, Finish, Effect
  <1>3. ASSUME NEW u \in Threads, u # t
        PROVE  /\ call'[u] = call[u] /\ pc'[u] = pc[u] /\ srcStat'[u] = srcStat[u]
               /\ dstStat'[u] = dstStat[u] /\ buf'[u] = buf[u] /\ temp'[u] = temp[u]
               /\ sawTo'[u] = SeenTo(u, fs) /\ sawFrom'[u] = SeenFrom(u, fs)
    BY <1>3 DEF LocalInv, LocalTypeOK, TypeOK, Finish, Effect
  <1>4. NowIsSeen'
    <2>. SUFFICES ASSUME NEW u \in Threads, call'[u] # NoCall
                  PROVE  /\ Bits(files'[call'[u].to]) \in sawTo'[u]
                         /\ call'[u].op = "copy" =>
                              files'[call'[u].from] = NoFile \/ files'[call'[u].from] \in sawFrom'[u]
      BY DEF NowIsSeen, Bits
    <2>1. u # t
      BY <1>2
    <2>. QED BY <1>2, <1>3, <2>1 DEF SeenTo, SeenFrom
  <1>5. AtItsMethod'
    <2>. SUFFICES ASSUME NEW u \in Threads, u # t
                  PROVE  call'[u] = call[u] /\ pc'[u] = pc[u]
      BY <1>2 DEF AtItsMethod, LocalInv, NoCall
    <2>. QED BY <1>3
  <1>6. CarriedWasSeen'
    <2>1. ASSUME NEW u \in Threads, u # t
          PROVE  /\ call[u] # NoCall => sawTo[u] \subseteq sawTo'[u]
                 /\ call[u].op = "copy" => sawFrom[u] \subseteq sawFrom'[u]
                 /\ CreateMode(u)' = CreateMode(u)
      BY <1>3, <2>1 DEF SeenTo, SeenFrom, CreateMode
    <2>2. ASSUME NEW u \in Threads, u # t, pc[u] # "idle"
          PROVE  call[u] # NoCall
      BY <2>2 DEF LocalInv, AtItsMethod
    <2>. QED BY <1>2, <1>3, <2>1, <2>2 DEF CarriedWasSeen, Carried, LocalInv, NoCall
  <1>. QED BY <1>1, <1>4, <1>5, <1>6 DEF LocalInv

\* A system call that finds nothing ends the method; so does one that fails.
LEMMA EnoentStep ==
  ASSUME LocalInv, NEW t \in Threads, NEW p, Enoent(t, p)
  PROVE  LocalInv'
  BY FinishStep DEF Enoent, LocalInv, LocalTypeOK, TypeOK, Answers

\* The rename(2) of a file keeps the files well-typed.
LEMMA MovedType ==
  ASSUME TypeOK, NEW from \in Paths, NEW to \in Paths, files[from] # NoFile
  PROVE  Moved(from, to) \in [Paths -> File \cup {NoFile}]
  BY DEF TypeOK, Moved

\* A new request: nothing is carried yet, and its paths are seen as they are.
LEMMA BeginStep ==
  ASSUME LocalInv, NEW t \in Threads, NEW c \in Calls, Begin(t, c)
  PROVE  LocalInv'
PROOF
  <1>1. /\ c.op \in {"read", "stat", "delete", "write", "rename", "copy"}
        /\ c.to \in Paths /\ c # NoCall
        /\ c.op \in {"rename", "copy"} => c.from \in Paths
        /\ c.op = "write" => c.data \in Contents
    BY DEF Calls, NoCall
  <1>2. /\ Bits(files[c.to]) \in Modes \cup {NoFile}
        /\ c.op = "copy" => files[c.from] \in File \cup {NoFile}
    BY <1>1, BitsType DEF LocalInv, LocalTypeOK, TypeOK
  <1>3. First(c) \in PCs \ {"idle"}
    BY <1>1 DEF First, PCs
  <1>4. LocalTypeOK'
    <2>1. /\ files' \in [Paths -> File \cup {NoFile}]
          /\ call' \in [Threads -> Calls \cup {NoCall}]
          /\ answer' \in [Threads -> Answers]
      BY DEF LocalInv, LocalTypeOK, TypeOK, Begin, Invoke, Answers
    <2>2. /\ sawTo' \in [Threads -> SUBSET (Modes \cup {NoFile})]
          /\ sawFrom' \in [Threads -> SUBSET File]
      BY <1>2 DEF LocalInv, LocalTypeOK, TypeOK, Begin, Invoke
    <2>3. pc' \in [Threads -> PCs] /\ buf' \in [Threads -> Contents \cup {Partial}]
      BY <1>1, <1>3 DEF LocalInv, LocalTypeOK, Begin
    <2>. QED BY <2>1, <2>2, <2>3 DEF LocalInv, LocalTypeOK, TypeOK, Begin
  <1>5. /\ call'[t] = c /\ pc'[t] = First(c) /\ files' = files
        /\ sawTo'[t] = {Bits(files[c.to])}
        /\ sawFrom'[t] = IF c.op = "copy" THEN {files[c.from]} \ {NoFile} ELSE {}
        /\ buf'[t] = IF c.op = "write" THEN c.data ELSE Partial
    BY DEF LocalInv, LocalTypeOK, TypeOK, Begin, Invoke
  <1>6. ASSUME NEW u \in Threads, u # t
        PROVE  /\ call'[u] = call[u] /\ pc'[u] = pc[u] /\ buf'[u] = buf[u]
               /\ sawTo'[u] = sawTo[u] /\ sawFrom'[u] = sawFrom[u]
    BY <1>6 DEF LocalInv, LocalTypeOK, TypeOK, Begin, Invoke
  <1>7. srcStat' = srcStat /\ dstStat' = dstStat /\ temp' = temp
    BY DEF Begin
  <1>8. NowIsSeen'
    BY <1>5, <1>6 DEF NowIsSeen, LocalInv, Bits
  <1>9. AtItsMethod'
    BY <1>1, <1>5, <1>6 DEF AtItsMethod, LocalInv, First
  <1>10. CarriedWasSeen'
    <2>1. ASSUME NEW u \in Threads, u # t PROVE CreateMode(u)' = CreateMode(u)
      BY <1>6, <1>7, <2>1 DEF CreateMode
    <2>2. First(c) \in {"stat", "src", "dst"} /\ (c.op = "copy" => First(c) = "src")
      BY <1>1 DEF First
    <2>. QED BY <1>5, <1>6, <1>7, <2>1, <2>2 DEF CarriedWasSeen, Carried, LocalInv
  <1>. QED BY <1>4, <1>8, <1>9, <1>10 DEF LocalInv

\* The driver is well-typed after every system call that does not end a method.
LEMMA WorkStep ==
  ASSUME LocalInv, NEW t \in Threads, UNCHANGED vars,
         pc' \in [Threads -> PCs],
         srcStat' \in [Threads -> Modes \cup {NoFile}],
         dstStat' \in [Threads -> Modes \cup {NoFile}],
         buf' \in [Threads -> Contents \cup {Partial}],
         temp' \in [Threads -> [data : Contents \cup {Partial}, mode : Modes] \cup {NoFile}]
  PROVE  LocalTypeOK' /\ NowIsSeen'
PROOF
  <1>1. LocalTypeOK'
    BY DEF LocalInv, LocalTypeOK, TypeOK, vars
  <1>2. NowIsSeen'
    BY DEF LocalInv, NowIsSeen, vars, Bits
  <1>. QED BY <1>1, <1>2

\* What a copy or a write creates its file with are bits.
LEMMA CreateModeType ==
  ASSUME LocalInv, NEW t \in Threads, pc[t] \in {"temp", "fill", "link"}
  PROVE  CreateMode(t) \in Modes /\ Umask[CreateMode(t)] \in Modes
PROOF
  <1>1. CASE call[t].op = "copy"
    <2>1. PICK g \in sawFrom[t] : srcStat[t] = g.mode
      BY <1>1 DEF LocalInv, CarriedWasSeen, Carried
    <2>2. g \in File
      BY <2>1 DEF LocalInv, LocalTypeOK, TypeOK
    <2>. QED BY <1>1, <2>1, <2>2, FileStoreAssumption
         DEF CreateMode, File, FileStoreAssumption
  <1>2. CASE call[t].op # "copy"
    BY <1>2, FileStoreAssumption DEF CreateMode, FileStoreAssumption
  <1>. QED BY <1>1, <1>2

\* The temporary file about to be renamed is a whole file.
LEMMA TempIsFile ==
  ASSUME LocalInv, NEW t \in Threads, pc[t] = "link"
  PROVE  temp[t] \in File
PROOF
  <1>1. temp[t] = [data |-> buf[t],
                   mode |-> IF dstStat[t] = NoFile THEN Umask[CreateMode(t)] ELSE dstStat[t]]
    BY DEF LocalInv, CarriedWasSeen, Carried
  <1>2. Umask[CreateMode(t)] \in Modes /\ dstStat[t] \in Modes \cup {NoFile}
    BY CreateModeType DEF LocalInv, LocalTypeOK
  <1>3. buf[t] \in Contents
    <2>1. call[t].op \in {"write", "copy"} /\ (call[t].op = "write" => call[t].data \in Contents)
      BY CallShape DEF LocalInv, LocalTypeOK, AtItsMethod
    <2>2. CASE call[t].op = "write"
      BY <2>1, <2>2 DEF LocalInv, CarriedWasSeen, Carried
    <2>3. CASE call[t].op = "copy"
      <3>1. PICK f \in sawFrom[t] : buf[t] = f.data
        BY <2>3 DEF LocalInv, CarriedWasSeen, Carried
      <3>2. f \in File
        BY <3>1 DEF LocalInv, LocalTypeOK, TypeOK
      <3>. QED BY <3>1, <3>2 DEF File
    <2>. QED BY <2>1, <2>2, <2>3
  <1>. QED BY <1>1, <1>2, <1>3 DEF File

\* Every system call of every thread preserves the invariant.
LEMMA StepInv ==
  ASSUME LocalInv, NEW t \in Threads, Step(t)
  PROVE  LocalInv'
PROOF
  <1>t. TypeOK /\ LocalTypeOK
    BY DEF LocalInv, LocalTypeOK
  <1>c. /\ call[t].op \in {"none", "read", "stat", "delete", "write", "rename", "copy"}
        /\ call[t] = NoCall <=> call[t].op = "none"
        /\ call[t] # NoCall => call[t].to \in Paths
        /\ call[t].op \in {"rename", "copy"} => call[t].from \in Paths
        /\ call[t].op = "write" => call[t].data \in Contents
    BY <1>t, CallShape
  <1>m. /\ pc[t] = "idle" <=> call[t] = NoCall
        /\ pc[t] = "stat" => call[t].op \in {"read", "stat", "delete"}
        /\ pc[t] = "open" => call[t].op = "read"
        /\ pc[t] = "unlink" => call[t].op = "delete"
        /\ pc[t] = "src" => call[t].op \in {"rename", "copy"}
        /\ pc[t] = "get" => call[t].op = "copy"
        /\ pc[t] = "dst" => call[t].op \in {"write", "rename", "copy"}
        /\ pc[t] \in {"temp", "fill", "link"} => call[t].op \in {"write", "copy"}
        /\ pc[t] = "move" => call[t].op = "rename"
    BY DEF LocalInv, AtItsMethod
  <1>f. files \in [Paths -> File \cup {NoFile}]
    BY <1>t DEF TypeOK
  <1>1. CASE \E c \in Calls : Begin(t, c)
    BY <1>1, BeginStep
  <1>2. CASE Fails(t) \/ CopyOntoItself(t)
    BY <1>2, <1>f, FinishStep DEF Fails, CopyOntoItself, Answers
  <1>3. CASE StatFile(t)
    <2>1. CASE Enoent(t, call[t].to)
      BY <2>1, EnoentStep
    <2>2. CASE ~Enoent(t, call[t].to)
      <3>1. /\ \E p \in {"open", "unlink"} : pc' = [pc EXCEPT ![t] = p]
            /\ pc[t] = "stat"
            /\ pc' = [pc EXCEPT ![t] = IF call[t].op = "read" THEN "open" ELSE "unlink"]
            /\ call[t].op \in {"read", "delete"}
            /\ UNCHANGED vars /\ UNCHANGED <<srcStat, dstStat, buf, temp>>
        BY <1>3, <2>2 DEF StatFile, Goto
      <3>2. LocalTypeOK' /\ NowIsSeen'
        <4>1. pc' \in [Threads -> PCs]
          BY <1>t, <3>1 DEF LocalTypeOK, PCs
        <4>. QED BY <1>t, <3>1, <4>1, WorkStep DEF LocalTypeOK
      <3>3. AtItsMethod'
        BY <1>t, <1>m, <3>1 DEF AtItsMethod, LocalInv, vars, LocalTypeOK
      <3>4. CarriedWasSeen'
        BY <1>t, <3>1 DEF CarriedWasSeen, Carried, LocalInv, vars, LocalTypeOK, CreateMode
      <3>. QED BY <3>2, <3>3, <3>4 DEF LocalInv
    <2>. QED BY <2>1, <2>2
  <1>4. CASE StatAnswers(t) \/ OpenFile(t)
    <2>1. CASE Enoent(t, call[t].to)
      BY <2>1, EnoentStep
    <2>2. CASE ~Enoent(t, call[t].to)
      <3>1. files[call[t].to] \in File
        BY <1>4, <1>c, <1>m, <1>f, <2>2 DEF StatAnswers, OpenFile
      <3>2. \E a \in Answers : Finish(t, files, a)
        BY <1>4, <2>2, <3>1 DEF StatAnswers, OpenFile, Answers, File
      <3>. QED BY <1>f, <3>2, FinishStep
    <2>. QED BY <2>1, <2>2
  <1>5. CASE Unlink(t)
    <2>1. CASE Enoent(t, call[t].to)
      BY <2>1, EnoentStep
    <2>2. CASE ~Enoent(t, call[t].to)
      <3>1. [files EXCEPT ![call[t].to] = NoFile] \in [Paths -> File \cup {NoFile}]
        BY <1>f
      <3>. QED BY <1>5, <2>2, <3>1, FinishStep DEF Unlink, Answers
    <2>. QED BY <2>1, <2>2
  <1>6. CASE StatSource(t)
    <2>1. CASE Enoent(t, call[t].from)
      BY <2>1, EnoentStep
    <2>2. CASE ~Enoent(t, call[t].from)
      <3>1. /\ pc[t] = "src" /\ (call[t].op = "rename" \/ call[t].from # call[t].to)
            /\ files[call[t].from] # NoFile
            /\ pc' = [pc EXCEPT ![t] = IF call[t].op = "copy" THEN "get" ELSE "dst"]
            /\ srcStat' = [srcStat EXCEPT ![t] = files[call[t].from].mode]
            /\ UNCHANGED vars /\ UNCHANGED <<dstStat, buf, temp>>
        BY <1>6, <2>2 DEF StatSource, Goto
      <3>2. files[call[t].from] \in File /\ files[call[t].from].mode \in Modes
        BY <1>c, <1>m, <1>f, <3>1 DEF File
      <3>3. LocalTypeOK' /\ NowIsSeen'
        <4>1. pc' \in [Threads -> PCs]
          BY <1>t, <3>1 DEF LocalTypeOK, PCs
        <4>2. srcStat' \in [Threads -> Modes \cup {NoFile}]
          BY <1>t, <3>1, <3>2 DEF LocalTypeOK
        <4>. QED BY <1>t, <3>1, <4>1, <4>2, WorkStep DEF LocalTypeOK
      <3>4. AtItsMethod'
        BY <1>t, <1>m, <3>1 DEF AtItsMethod, LocalInv, vars, LocalTypeOK
      <3>5. CarriedWasSeen'
        <4>1. call[t].op = "copy" => files[call[t].from] \in sawFrom[t]
          BY <1>c, <1>m, <3>1 DEF LocalInv, NowIsSeen
        <4>2. ASSUME NEW u \in Threads, u # t
              PROVE  pc'[u] = pc[u] /\ srcStat'[u] = srcStat[u] /\ CreateMode(u)' = CreateMode(u)
          BY <1>t, <3>1, <4>2 DEF LocalTypeOK, CreateMode, vars
        <4>3. pc'[t] \in {"get", "dst"} /\ srcStat'[t] = files[call[t].from].mode
              /\ (call[t].op = "copy" => pc'[t] = "get")
          BY <1>t, <3>1 DEF LocalTypeOK
        <4>. QED BY <1>m, <3>1, <4>1, <4>2, <4>3 DEF CarriedWasSeen, Carried, LocalInv, vars
      <3>. QED BY <3>3, <3>4, <3>5 DEF LocalInv
    <2>. QED BY <2>1, <2>2
  <1>7. CASE ReadSource(t)
    <2>1. CASE Enoent(t, call[t].from)
      BY <2>1, EnoentStep
    <2>2. CASE ~Enoent(t, call[t].from)
      <3>1. /\ pc[t] = "get" /\ files[call[t].from] # NoFile
            /\ pc' = [pc EXCEPT ![t] = "dst"]
            /\ buf' = [buf EXCEPT ![t] = files[call[t].from].data]
            /\ UNCHANGED vars /\ UNCHANGED <<srcStat, dstStat, temp>>
        BY <1>7, <2>2 DEF ReadSource, Goto
      <3>2. files[call[t].from] \in File /\ files[call[t].from].data \in Contents
        BY <1>c, <1>m, <1>f, <3>1 DEF File
      <3>3. LocalTypeOK' /\ NowIsSeen'
        <4>1. pc' \in [Threads -> PCs]
          BY <1>t, <3>1 DEF LocalTypeOK, PCs
        <4>2. buf' \in [Threads -> Contents \cup {Partial}]
          BY <1>t, <3>1, <3>2 DEF LocalTypeOK
        <4>. QED BY <1>t, <3>1, <4>1, <4>2, WorkStep DEF LocalTypeOK
      <3>4. AtItsMethod'
        BY <1>t, <1>m, <3>1 DEF AtItsMethod, LocalInv, vars, LocalTypeOK
      <3>5. CarriedWasSeen'
        <4>1. files[call[t].from] \in sawFrom[t]
          BY <1>c, <1>m, <3>1 DEF LocalInv, NowIsSeen
        <4>2. ASSUME NEW u \in Threads, u # t
              PROVE  pc'[u] = pc[u] /\ buf'[u] = buf[u]
          BY <1>t, <3>1, <4>2 DEF LocalTypeOK
        <4>3. pc'[t] = "dst" /\ buf'[t] = files[call[t].from].data
          BY <1>t, <3>1 DEF LocalTypeOK
        <4>4. ASSUME NEW u \in Threads PROVE CreateMode(u)' = CreateMode(u)
          BY <3>1 DEF CreateMode, vars
        <4>5. ASSUME NEW u \in Threads, u # t PROVE Carried(u)'
          BY <3>1, <4>2, <4>4, <4>5 DEF CarriedWasSeen, Carried, LocalInv, vars
        <4>6. Carried(t)'
          BY <1>m, <3>1, <4>1, <4>3 DEF CarriedWasSeen, Carried, LocalInv, vars
        <4>. QED BY <4>5, <4>6 DEF CarriedWasSeen
      <3>. QED BY <3>3, <3>4, <3>5 DEF LocalInv
    <2>. QED BY <2>1, <2>2
  <1>8. CASE StatTarget(t)
    <2>1. /\ pc[t] = "dst" /\ dstStat' = [dstStat EXCEPT ![t] = Bits(files[call[t].to])]
          /\ pc' = [pc EXCEPT ![t] = IF call[t].op = "rename" THEN "move" ELSE "temp"]
          /\ UNCHANGED vars /\ UNCHANGED <<srcStat, buf, temp>>
      BY <1>8 DEF StatTarget, Goto
    <2>2. Bits(files[call[t].to]) \in Modes \cup {NoFile}
      BY <1>c, <1>m, <1>f, <2>1, BitsType
    <2>3. LocalTypeOK' /\ NowIsSeen'
      <3>1. pc' \in [Threads -> PCs]
        BY <1>t, <2>1 DEF LocalTypeOK, PCs
      <3>2. dstStat' \in [Threads -> Modes \cup {NoFile}]
        BY <1>t, <2>1, <2>2 DEF LocalTypeOK
      <3>. QED BY <1>t, <2>1, <3>1, <3>2, WorkStep DEF LocalTypeOK
    <2>4. AtItsMethod'
      BY <1>t, <1>m, <2>1 DEF AtItsMethod, LocalInv, vars, LocalTypeOK
    <2>5. CarriedWasSeen'
      <3>1. Bits(files[call[t].to]) \in sawTo[t]
        BY <1>c, <1>m, <2>1 DEF LocalInv, NowIsSeen
      <3>2. ASSUME NEW u \in Threads, u # t PROVE pc'[u] = pc[u] /\ dstStat'[u] = dstStat[u]
        BY <1>t, <2>1, <3>2 DEF LocalTypeOK
      <3>3. pc'[t] \in {"move", "temp"} /\ dstStat'[t] = Bits(files[call[t].to])
        BY <1>t, <2>1 DEF LocalTypeOK
      <3>4. ASSUME NEW u \in Threads PROVE CreateMode(u)' = CreateMode(u)
        BY <2>1 DEF CreateMode, vars
      <3>5. ASSUME NEW u \in Threads, u # t PROVE Carried(u)'
        BY <2>1, <3>2, <3>4, <3>5 DEF CarriedWasSeen, Carried, LocalInv, vars
      <3>6. Carried(t)'
        BY <1>m, <2>1, <3>1, <3>3, <3>4 DEF CarriedWasSeen, Carried, LocalInv, vars
      <3>. QED BY <3>5, <3>6 DEF CarriedWasSeen
    <2>. QED BY <2>3, <2>4, <2>5 DEF LocalInv
  <1>9. CASE OpenTemp(t)
    <2> DEFINE new == [data |-> Partial,
                       mode |-> IF dstStat[t] = NoFile THEN Umask[CreateMode(t)] ELSE Private]
    <2>1. /\ pc[t] = "temp" /\ temp' = [temp EXCEPT ![t] = new]
          /\ pc' = [pc EXCEPT ![t] = "fill"]
          /\ UNCHANGED vars /\ UNCHANGED <<srcStat, dstStat, buf>>
      BY <1>9 DEF OpenTemp, Goto
    <2>2. Umask[CreateMode(t)] \in Modes
      BY <2>1, CreateModeType
    <2>3. new \in [data : Contents \cup {Partial}, mode : Modes]
      BY <2>2, LocalFsAssumption DEF LocalFsAssumption
    <2>4. LocalTypeOK' /\ NowIsSeen'
      <3>1. pc' \in [Threads -> PCs]
        BY <1>t, <2>1 DEF LocalTypeOK, PCs
      <3>2. temp' \in [Threads -> [data : Contents \cup {Partial}, mode : Modes] \cup {NoFile}]
        BY <1>t, <2>1, <2>3 DEF LocalTypeOK
      <3>. QED BY <1>t, <2>1, <3>1, <3>2, WorkStep DEF LocalTypeOK
    <2>5. AtItsMethod'
      BY <1>t, <1>m, <2>1 DEF AtItsMethod, LocalInv, vars, LocalTypeOK
    <2>6. CarriedWasSeen'
      <3>1. ASSUME NEW u \in Threads, u # t PROVE pc'[u] = pc[u] /\ temp'[u] = temp[u]
        BY <1>t, <2>1, <3>1 DEF LocalTypeOK
      <3>2. pc'[t] = "fill" /\ temp'[t] = new
        BY <1>t, <2>1 DEF LocalTypeOK
      <3>3. dstStat[t] = NoFile => new.mode = Umask[CreateMode(t)]
        OBVIOUS
      <3>4. ASSUME NEW u \in Threads PROVE CreateMode(u)' = CreateMode(u)
        BY <2>1 DEF CreateMode, vars
      <3> HIDE DEF new
      <3>. QED BY <1>m, <2>1, <3>1, <3>2, <3>3, <3>4 DEF CarriedWasSeen, Carried, LocalInv, vars
    <2>. QED BY <2>4, <2>5, <2>6 DEF LocalInv
  <1>10. CASE FillTemp(t)
    <2> DEFINE new == [data |-> buf[t],
                       mode |-> IF dstStat[t] = NoFile THEN temp[t].mode ELSE dstStat[t]]
    <2>1. /\ pc[t] = "fill" /\ temp' = [temp EXCEPT ![t] = new]
          /\ pc' = [pc EXCEPT ![t] = "link"]
          /\ UNCHANGED vars /\ UNCHANGED <<srcStat, dstStat, buf>>
      BY <1>10 DEF FillTemp, Goto
    <2>2. dstStat[t] = NoFile => temp[t].mode = Umask[CreateMode(t)]
      BY <2>1 DEF LocalInv, CarriedWasSeen, Carried
    <2>3. Umask[CreateMode(t)] \in Modes
      BY <2>1, CreateModeType
    <2>4. new \in [data : Contents \cup {Partial}, mode : Modes]
      <3>1. buf[t] \in Contents \cup {Partial} /\ dstStat[t] \in Modes \cup {NoFile}
        BY <1>t DEF LocalTypeOK
      <3>. QED BY <2>2, <2>3, <3>1
    <2>5. LocalTypeOK' /\ NowIsSeen'
      <3>1. pc' \in [Threads -> PCs]
        BY <1>t, <2>1 DEF LocalTypeOK, PCs
      <3>2. temp' \in [Threads -> [data : Contents \cup {Partial}, mode : Modes] \cup {NoFile}]
        BY <1>t, <2>1, <2>4 DEF LocalTypeOK
      <3>. QED BY <1>t, <2>1, <3>1, <3>2, WorkStep DEF LocalTypeOK
    <2>6. AtItsMethod'
      BY <1>t, <1>m, <2>1 DEF AtItsMethod, LocalInv, vars, LocalTypeOK
    <2>7. CarriedWasSeen'
      <3>1. ASSUME NEW u \in Threads, u # t PROVE pc'[u] = pc[u] /\ temp'[u] = temp[u]
        BY <1>t, <2>1, <3>1 DEF LocalTypeOK
      <3>2. pc'[t] = "link" /\ temp'[t] = new
        BY <1>t, <2>1 DEF LocalTypeOK
      <3>3. new = [data |-> buf[t],
                   mode |-> IF dstStat[t] = NoFile THEN Umask[CreateMode(t)] ELSE dstStat[t]]
        BY <2>2
      <3>4. ASSUME NEW u \in Threads PROVE CreateMode(u)' = CreateMode(u)
        BY <2>1 DEF CreateMode, vars
      <3> HIDE DEF new
      <3>. QED BY <1>m, <2>1, <3>1, <3>2, <3>3, <3>4 DEF CarriedWasSeen, Carried, LocalInv, vars
    <2>. QED BY <2>5, <2>6, <2>7 DEF LocalInv
  <1>11. CASE LinkTemp(t)
    <2>1. pc[t] = "link" /\ call[t] # NoCall
      BY <1>11, <1>c, <1>m DEF LinkTemp
    <2>2. temp[t] \in File
      BY <2>1, TempIsFile
    <2>3. [files EXCEPT ![call[t].to] = temp[t]] \in [Paths -> File \cup {NoFile}]
      BY <1>f, <2>2
    <2>. QED BY <1>11, <2>3, FinishStep DEF LinkTemp, Answers
  <1>12. CASE MoveFile(t)
    <2>1. CASE Enoent(t, call[t].from)
      BY <2>1, EnoentStep
    <2>2. CASE ~Enoent(t, call[t].from)
      <3>1. Moved(call[t].from, call[t].to) \in [Paths -> File \cup {NoFile}]
        BY <1>12, <1>t, <1>c, <1>m, <2>2, MovedType DEF MoveFile
      <3>. QED BY <1>12, <2>2, <3>1, FinishStep DEF MoveFile, Answers
    <2>. QED BY <2>1, <2>2
  <1>. QED BY <1>1, <1>2, <1>3, <1>4, <1>5, <1>6, <1>7, <1>8, <1>9, <1>10, <1>11, <1>12
       DEF Step

\* The driver starts within the invariant.
LEMMA InitInv == LocalInit => LocalInv
  BY DEF LocalInit, Init, LocalInv, LocalTypeOK, TypeOK, PCs, Answers, NowIsSeen,
         AtItsMethod, CarriedWasSeen, Carried, NoCall

\* So does a crashed and restarted one.
LEMMA CrashInv == LocalInv /\ ServerCrash => LocalInv'
  BY DEF ServerCrash, Crash, LocalInv, LocalTypeOK, TypeOK, PCs, Answers, NowIsSeen,
         AtItsMethod, CarriedWasSeen, Carried, NoCall

\* A step that leaves every variable alone preserves the invariant.
LEMMA StutterInv == LocalInv /\ UNCHANGED fsVars => LocalInv'
  BY DEF fsVars, vars, workVars, LocalInv, LocalTypeOK, TypeOK, NowIsSeen, AtItsMethod,
         CarriedWasSeen, Carried,
         CreateMode, Bits

\* The invariant of the driver, whatever requests, failures and crashes: what a
\* thread carries from one system call to the next was true since its request.
THEOREM Invariance == LocalSpec => []LocalInv
PROOF
  <1>1. LocalInv /\ [LocalNext]_fsVars => LocalInv'
    BY StepInv, CrashInv, StutterInv DEF LocalNext
  <1>. QED BY <1>1, InitInv, PTL DEF LocalSpec

\* A system call that finds nothing is the store's answer `missing`.
LEMMA EnoentRefines ==
  ASSUME NEW t \in Threads, call[t] # NoCall, call[t].op # "write",
         Enoent(t, Source(call[t]))
  PROVE  Missing(t)
  BY DEF Enoent, Missing, Finish

\* A system call of a thread is an operation of the store, the arrival of a
\* request, or invisible: read, stat and delete.
LEMMA SimpleRefines ==
  ASSUME LocalInv, NEW t \in Threads,
         StatFile(t) \/ StatAnswers(t) \/ OpenFile(t) \/ Unlink(t)
  PROVE  Serve(t) \/ UNCHANGED vars
PROOF
  <1>1. /\ call[t].op \in {"read", "stat", "delete"} /\ call[t] # NoCall
        /\ pc[t] = "open" => call[t].op = "read"
        /\ pc[t] = "unlink" => call[t].op = "delete"
    BY DEF StatFile, StatAnswers, OpenFile, Unlink, LocalInv, AtItsMethod
  <1>2. Source(call[t]) = call[t].to
    BY <1>1 DEF Source
  <1>3. CASE Enoent(t, call[t].to)
    BY <1>1, <1>2, <1>3, EnoentRefines DEF Serve
  <1>4. CASE ~Enoent(t, call[t].to)
    <2>1. CASE StatFile(t)
      BY <1>4, <2>1 DEF StatFile
    <2>2. CASE StatAnswers(t)
      BY <1>4, <2>2 DEF StatAnswers, Stat, Finish, Serve
    <2>3. CASE OpenFile(t)
      BY <1>1, <1>4, <2>3 DEF OpenFile, Read, Finish, Serve
    <2>4. CASE Unlink(t)
      BY <1>1, <1>4, <2>4 DEF Unlink, Delete, Finish, Serve
    <2>. QED BY <2>1, <2>2, <2>3, <2>4
  <1>. QED BY <1>3, <1>4

\* The rename(2) of the temporary file is the store's write or copy, with what
\* the thread saw at its target and its source.
LEMMA LinkRefines ==
  ASSUME LocalInv, NEW t \in Threads, LinkTemp(t)
  PROVE  Serve(t)
PROOF
  <1>1. /\ pc[t] = "link" /\ call[t].op \in {"write", "copy"}
        /\ dstStat[t] \in sawTo[t]
        /\ temp[t] = [data |-> buf[t],
                      mode |-> IF dstStat[t] = NoFile THEN Umask[CreateMode(t)] ELSE dstStat[t]]
    BY DEF LinkTemp, LocalInv, AtItsMethod, CarriedWasSeen, Carried
  <1>2. Put(t, buf[t], dstStat[t], CreateMode(t))
    BY <1>1 DEF LinkTemp, Finish, Put
  <1>3. CASE call[t].op = "write"
    <2>1. buf[t] = call[t].data /\ CreateMode(t) = Mode0666
      BY <1>3 DEF LocalInv, CarriedWasSeen, Carried, CreateMode
    <2>. QED BY <1>1, <1>2, <1>3, <2>1 DEF Write, Serve
  <1>4. CASE call[t].op = "copy"
    <2>1. PICK f \in sawFrom[t] : buf[t] = f.data
      BY <1>1, <1>4 DEF LocalInv, CarriedWasSeen, Carried
    <2>2. PICK g \in sawFrom[t] : srcStat[t] = g.mode
      BY <1>1, <1>4 DEF LocalInv, CarriedWasSeen, Carried
    <2>3. call[t].from # call[t].to
      BY <1>1, <1>4 DEF LocalInv, CarriedWasSeen, Carried
    <2>4. CreateMode(t) = g.mode
      BY <1>4, <2>2 DEF CreateMode
    <2>. QED BY <1>1, <1>2, <1>4, <2>1, <2>3, <2>4 DEF Copy, Serve
  <1>. QED BY <1>1, <1>3, <1>4

\* The system calls of write, copy and rename that read, or that rename(2).
LEMMA PutRefines ==
  ASSUME LocalInv, NEW t \in Threads,
         \/ CopyOntoItself(t) \/ StatSource(t) \/ ReadSource(t) \/ StatTarget(t)
         \/ OpenTemp(t) \/ FillTemp(t) \/ MoveFile(t)
  PROVE  Serve(t) \/ UNCHANGED vars
PROOF
  <1>1. call[t] # NoCall
    BY DEF CopyOntoItself, StatSource, ReadSource, StatTarget, OpenTemp, FillTemp,
           MoveFile, LocalInv, AtItsMethod
  <1>2. CASE CopyOntoItself(t)
    BY <1>1, <1>2 DEF CopyOntoItself, Finish, Failed, Serve
  <1>3. CASE StatTarget(t) \/ OpenTemp(t) \/ FillTemp(t)
    BY <1>3 DEF StatTarget, OpenTemp, FillTemp
  <1>4. CASE StatSource(t) \/ ReadSource(t) \/ MoveFile(t)
    <2>1. /\ call[t].op \in {"rename", "copy"}
          /\ pc[t] = "move" => call[t].op = "rename" /\ dstStat[t] \in sawTo[t]
      BY <1>4 DEF StatSource, ReadSource, MoveFile, LocalInv, AtItsMethod, CarriedWasSeen, Carried
    <2>2. Source(call[t]) = call[t].from
      BY <2>1 DEF Source
    <2>3. CASE Enoent(t, call[t].from)
      BY <1>1, <2>1, <2>2, <2>3, EnoentRefines DEF Serve
    <2>4. CASE ~Enoent(t, call[t].from)
      <3>1. CASE StatSource(t) \/ ReadSource(t)
        BY <2>4, <3>1 DEF StatSource, ReadSource
      <3>2. CASE MoveFile(t)
        BY <2>1, <2>4, <3>2 DEF MoveFile, Finish, Rename, Serve
      <3>. QED BY <1>4, <3>1, <3>2
    <2>. QED BY <2>3, <2>4
  <1>. QED BY <1>2, <1>3, <1>4

\* The local driver implements the store of the protocol: whatever the
\* interleaving of its system calls, and whatever fails, every request takes
\* effect whole and at one instant or not at all.
THEOREM Refinement == LocalSpec => Implements
PROOF
  <1>1. LocalInit => Init
    BY DEF LocalInit
  <1>2. ASSUME LocalInv, NEW t \in Threads, Step(t)
        PROVE  Serve(t) \/ UNCHANGED vars
    <2>1. CASE \E c \in Calls : Begin(t, c)
      BY <2>1 DEF Begin, Serve
    <2>2. CASE Fails(t)
      BY <1>2, <2>2 DEF Fails, Finish, Failed, Serve, LocalInv, AtItsMethod
    <2>3. CASE LinkTemp(t)
      BY <1>2, <2>3, LinkRefines
    <2>. QED BY <1>2, <2>1, <2>2, <2>3, SimpleRefines, PutRefines DEF Step
  <1>3. LocalInv /\ [LocalNext]_fsVars => [Next]_vars
    <2>1. UNCHANGED fsVars => UNCHANGED vars
      BY DEF fsVars
    <2>. QED BY <1>2, <2>1 DEF LocalNext, Next, ServerCrash
  <1>. QED BY <1>1, <1>3, Invariance, PTL DEF LocalSpec, Spec, Implements
==============================================================================
