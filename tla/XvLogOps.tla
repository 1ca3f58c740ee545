----------------------------- MODULE XvLogOps ------------------------------
(***************************************************************************)
(* First part of the proofs about XvLog: the inductive invariant LogInv,   *)
(* which says what the cache, the log and the header hold at each stage of *)
(* a commit and of recovery, and the steps of operations: each keeps       *)
(* LogInv and is a step of AtomicDisk or hidden from it.                   *)
(***************************************************************************)
EXTENDS XvLogRoom, FiniteSetTheorems, TLAPS

LogTypes ==
  /\ disk \in [Blocks -> Data]
  /\ logdisk \in [Slots -> Data]
  /\ head \in Seq(Blocks) /\ Len(head) <= LOGSIZE - 1
  /\ cache \in [Blocks -> Data \cup {NoBuf}]
  /\ dirty \subseteq Blocks
  /\ lh \in Seq(Blocks) /\ Len(lh) <= LOGSIZE - 1
  /\ committing \in BOOLEAN
  /\ tail \in 0 .. LOGSIZE - 1
  /\ mode \in {"up", "panic", "read_head", "install", "clear"}
  /\ pc \in [Procs -> {"user", "begin_op", "asleep", "op"} \cup CommitSteps]
  /\ held \in [Procs -> SUBSET Blocks]
  /\ touched \in [Procs -> SUBSET Blocks]

Running == mode \in {"up", "panic"}

\* A dirty buffer is valid; a clean one agrees with the disk.
Buffers ==
  \A b \in Blocks : IF b \in dirty THEN cache[b] # NoBuf
                    ELSE cache[b] = NoBuf \/ cache[b] = disk[b]

Inj(s) == \A i, j \in 1 .. Len(s) : s[i] = s[j] => i = j

Headers == Inj(lh) /\ Inj(head)

Counted == outstanding = Cardinality(InOp)

Alone ==
  /\ \A p \in Procs : pc[p] \in CommitSteps => committing
  /\ \A p, q \in Procs :
       pc[p] \in CommitSteps /\ pc[q] \in CommitSteps => p = q
  /\ committing => \E p \in Procs : pc[p] \in CommitSteps
  /\ committing => \A p \in Procs : pc[p] # "op"

\* The first n logged blocks are in the log.
Copied(n) == \A i \in 1 .. n : logdisk[i] = cache[lh[i]]

\* The first n logged blocks are home.
Installed(n) == \A i \in 1 .. n : logdisk[i] = disk[lh[i]]

\* Nothing is being committed.
Gathering ==
  /\ head = << >>
  /\ dirty = Logged(lh)
  /\ (\A p \in Procs : pc[p] # "op") => lh = << >>

Stage(p) ==
  /\ pc[p] = "write_log" => /\ head = << >> /\ dirty = Logged(lh)
                            /\ tail < Len(lh) /\ Copied(tail)
  /\ pc[p] = "write_head" => /\ head = << >> /\ dirty = Logged(lh)
                             /\ Len(lh) > 0 /\ Copied(Len(lh))
  /\ pc[p] = "install_trans" =>
       /\ head = lh /\ tail < Len(lh)
       /\ dirty = {lh[i] : i \in tail + 1 .. Len(lh)}
       /\ Installed(tail)
       /\ \A i \in tail + 1 .. Len(lh) : logdisk[i] = cache[lh[i]]
  /\ pc[p] = "clear_head" => head = lh /\ dirty = {} /\ Installed(Len(lh))
  /\ pc[p] = "committed" => head = << >> /\ lh = << >> /\ dirty = {}

Stages ==
  /\ Running /\ ~committing => Gathering
  /\ \A p \in Procs : Stage(p)

Recovery ==
  /\ ~Running => /\ ~committing /\ dirty = {}
                 /\ \A p \in Procs : pc[p] = "user"
  /\ mode = "read_head" => lh = << >> /\ tail = 0
  /\ mode = "install" => lh = head /\ tail < Len(lh) /\ Installed(tail)
  /\ mode = "clear" => lh = head /\ Installed(Len(lh))

LogInv ==
  /\ LogTypes
  /\ Buffers
  /\ Headers
  /\ Counted
  /\ Alone
  /\ Stages
  /\ Recovery
  /\ SleeperHasWaker
-----------------------------------------------------------------------------
(* The cache. *)

\* Recycling only empties clean buffers.
LEMMA RecycledCache ==
  ASSUME LogTypes, NEW c \in Recycled
  PROVE  /\ c \in [Blocks -> Data \cup {NoBuf}]
         /\ \A b \in Blocks :
              c[b] = cache[b] \/ (b \notin dirty /\ c[b] = NoBuf)
  BY DEF LogTypes, Recycled

\* So does bread, which then has the block in its buffer.
LEMMA BreadCache ==
  ASSUME LogTypes, Buffers, NEW b \in Blocks, NEW c \in Bread(b)
  PROVE  /\ c \in [Blocks -> Data \cup {NoBuf}]
         /\ \A x \in Blocks \ {b} :
              c[x] = cache[x] \/ (x \notin dirty /\ c[x] = NoBuf)
         /\ c[b] = IF cache[b] = NoBuf THEN disk[b] ELSE cache[b]
<1>1. PICK e \in IF cache[b] = NoBuf THEN Recycled ELSE {cache} :
        c = Loaded(e, b)
  BY DEF Bread
<1>2. /\ e \in [Blocks -> Data \cup {NoBuf}]
      /\ \A x \in Blocks :
           e[x] = cache[x] \/ (x \notin dirty /\ e[x] = NoBuf)
  BY <1>1, RecycledCache DEF LogTypes
<1>3. cache[b] # NoBuf => e = cache
  BY <1>1
<1>4. disk[b] \in Data
  BY DEF LogTypes
<1>5. cache[b] = NoBuf => e[b] = NoBuf
  BY <1>2
<1>. QED
  BY <1>1, <1>2, <1>3, <1>4, <1>5 DEF Loaded

\* The buffers of a step that recycles some of them and changes nothing else
\* stay right.
LEMMA BuffersRecycled ==
  ASSUME LogTypes, Buffers, cache' \in Recycled, disk' = disk, dirty' = dirty
  PROVE  Buffers' /\ cache' \in [Blocks -> Data \cup {NoBuf}]
<1>1. /\ cache' \in [Blocks -> Data \cup {NoBuf}]
      /\ \A b \in Blocks :
           cache'[b] = cache[b] \/ (b \notin dirty /\ cache'[b] = NoBuf)
  BY RecycledCache
<1>. QED
  BY <1>1 DEF Buffers
-----------------------------------------------------------------------------
(* The abstract state. *)

\* A header without blocks: recovery changes nothing.
LEMMA RecoveredEmpty ==
  ASSUME LogTypes, head = << >>
  PROVE  Recovered = disk
<1>1. Logged(head) = {}
  BY DEF Logged
<1>. QED
  BY <1>1 DEF Recovered, LogTypes

\* The same of the state after a step.
LEMMA RecoveredEmptyNext ==
  ASSUME disk' \in [Blocks -> Data], head' = << >>
  PROVE  Recovered' = disk'
<1>1. Logged(head)' = {}
  BY DEF Logged
<1>. QED
  BY <1>1 DEF Recovered

\* A header that fits names blocks of the log.
LEMMA HeadersFit ==
  ASSUME NEW n \in Nat, n <= LOGSIZE - 1, NEW i \in 1 .. n
  PROVE  i \in Slots /\ LogDisk(i) = logdisk[i]
  BY LogAssumption DEF Slots, LogDisk

\* A header with distinct blocks: recovery takes them from the log.
LEMMA RecoveredLogged ==
  ASSUME LogTypes, Inj(head)
  PROVE  /\ \A i \in 1 .. Len(head) : Recovered[head[i]] = logdisk[i]
         /\ \A b \in Blocks \ Logged(head) : Recovered[b] = disk[b]
<1>1. ASSUME NEW i \in 1 .. Len(head)
      PROVE  Recovered[head[i]] = logdisk[i]
  <2>1. head[i] \in Blocks /\ head[i] \in Logged(head)
    BY DEF LogTypes, Logged
  <2>2. (CHOOSE j \in 1 .. Len(head) : head[j] = head[i]) = i
    BY DEF Inj
  <2>3. LogDisk(i) = logdisk[i]
    BY HeadersFit DEF LogTypes
  <2>. QED
    BY <2>1, <2>2, <2>3, Zenon DEF Recovered
<1>2. \A b \in Blocks \ Logged(head) : Recovered[b] = disk[b]
  BY DEF Recovered
<1>. QED
  BY <1>1, <1>2

\* The same of the state after a step.
LEMMA RecoveredLoggedNext ==
  ASSUME head' \in Seq(Blocks), Len(head') <= LOGSIZE - 1, Inj(head)'
  PROVE  /\ \A i \in 1 .. Len(head') : Recovered'[head'[i]] = logdisk'[i]
         /\ \A b \in Blocks \ Logged(head)' : Recovered'[b] = disk'[b]
<1>1. ASSUME NEW i \in 1 .. Len(head')
      PROVE  Recovered'[head'[i]] = logdisk'[i]
  <2>1. head'[i] \in Blocks /\ head'[i] \in Logged(head)'
    BY DEF Logged
  <2>2. (CHOOSE j \in 1 .. Len(head') : head'[j] = head'[i]) = i
    BY DEF Inj
  <2>3. LogDisk(i)' = logdisk'[i]
    BY LogAssumption DEF LogDisk, Slots
  <2>. QED
    BY <2>1, <2>2, <2>3, Zenon DEF Recovered
<1>2. \A b \in Blocks \ Logged(head)' : Recovered'[b] = disk'[b]
  BY DEF Recovered
<1>. QED
  BY <1>1, <1>2

\* Recovered is a function on the blocks.
LEMMA RecoveredFun ==
  ASSUME LogTypes
  PROVE  Recovered = [b \in Blocks |-> Recovered[b]]
  BY DEF Recovered

\* A step that writes no block of the disk leaves it as it is.
LEMMA RecoveredKept ==
  ASSUME UNCHANGED diskVars
  PROVE  Recovered' = Recovered
  BY DEF Recovered, Logged, LogDisk, diskVars
-----------------------------------------------------------------------------
(* The initial state. *)

LEMMA LogInitInv ==
  ASSUME LogInit
  PROVE  LogInv
<1>1. LogTypes
  <2>1. head \in Seq(Blocks) /\ Len(head) = 0
    BY DEF LogInit
  <2>2. lh \in Seq(Blocks) /\ Len(lh) = 0
    BY DEF LogInit
  <2>3. LOGSIZE \in Nat /\ LOGSIZE >= 1
    BY LogAssumption
  <2>4. pc \in [Procs -> {"user", "begin_op", "asleep", "op"}
                           \cup CommitSteps]
    BY DEF LogInit
  <2>5. cache \in [Blocks -> Data \cup {NoBuf}] /\ dirty \subseteq Blocks
    BY DEF LogInit
  <2>6. held \in [Procs -> SUBSET Blocks] /\ touched \in [Procs -> SUBSET Blocks]
    BY DEF LogInit
  <2>7. /\ disk \in [Blocks -> Data] /\ logdisk \in [Slots -> Data]
        /\ committing \in BOOLEAN /\ tail = 0 /\ mode = "read_head"
    BY Zenon DEF LogInit
  <2>. QED
    BY <2>1, <2>2, <2>3, <2>4, <2>5, <2>6, <2>7 DEF LogTypes
<1>2. Buffers /\ Headers
  BY DEF LogInit, Buffers, Headers, Inj
<1>3. InOp = {}
  BY DEF LogInit, InOp
<1>4. Counted
  BY <1>3, FS_EmptySet DEF Counted, LogInit
<1>5. Alone /\ Stages /\ Recovery /\ SleeperHasWaker
  BY DEF LogInit, Alone, Stages, Stage, Recovery, Running, Installed,
         SleeperHasWaker, CommitSteps
<1>. QED
  BY <1>1, <1>2, <1>4, <1>5 DEF LogInv
-----------------------------------------------------------------------------
(* Operations. *)

\* Steps that the atomic disk does not see.
Hidden == Recovered' = Recovered /\ Seen' = Seen /\ InOp' = InOp

\* A recycled clean buffer is read again from the disk.
LEMMA SeenKept ==
  ASSUME Buffers, Running, Running', disk' = disk,
         \A b \in Blocks :
           cache'[b] = cache[b] \/ (b \notin dirty /\ cache'[b] = NoBuf)
  PROVE  Seen' = Seen
  BY DEF Seen, Running, Buffers

\* There are finitely many operations in progress.
LEMMA InOpFinite ==
  IsFiniteSet(InOp) /\ Cardinality(InOp) \in Nat
  BY LogAssumption, FS_Subset, FS_CardinalityType DEF InOp

\* begin_op keeps the invariant, and begins an operation or does nothing.
LEMMA BeginInv ==
  ASSUME LogInv, NEW p \in Procs, begin_op(p)
  PROVE  LogInv' /\ (Atomic!Begin(p) \/ Hidden)
<1>. USE DEF LogInv
<1>1. /\ UNCHANGED <<disk, logdisk, head, cache, dirty, lh, committing, tail,
                     mode, held, touched>>
      /\ mode = "up" /\ pc[p] \in {"user", "begin_op"}
      /\ pc \in [Procs -> {"user", "begin_op", "asleep", "op"}
                            \cup CommitSteps]
  BY DEF begin_op, diskVars, bufVars, LogTypes
<1>2. p \notin InOp /\ pc[p] \notin CommitSteps
  BY <1>1 DEF InOp, CommitSteps
<1>3. Recovered' = Recovered
  BY <1>1, RecoveredKept DEF diskVars
<1>4. Seen' = Seen
  BY <1>1, SeenKept DEF Running
<1>5. Buffers' /\ Headers'
  BY <1>1 DEF Buffers, Headers, Inj
<1>6. CASE ~committing /\ LogSpace
  <2>1. outstanding' = outstanding + 1 /\ pc' = [pc EXCEPT ![p] = "op"]
    BY <1>6 DEF begin_op
  <2>2. InOp' = InOp \cup {p}
    BY <1>1, <2>1 DEF InOp
  <2>3. Counted'
    BY <1>2, <2>1, <2>2, InOpFinite, FS_AddElement DEF Counted
  <2>4. \A q \in Procs : pc'[q] \in CommitSteps => pc[q] \in CommitSteps
                                                   /\ pc'[q] = pc[q]
    BY <1>1, <2>1 DEF CommitSteps
  <2>5. \A q \in Procs : pc[q] \notin CommitSteps
    BY <1>6 DEF Alone
  <2>6. \A q \in Procs : pc'[q] \notin CommitSteps
    BY <2>4, <2>5
  <2>7. Alone'
    BY <1>1, <1>6, <2>6 DEF Alone
  <2>8. pc'[p] = "op"
    BY <1>1, <2>1
  <2>9. Stages'
    BY <1>1, <2>6, <2>8 DEF Stages, Stage, Gathering, Running, Logged,
       CommitSteps
  <2>10. Recovery'
    BY <1>1 DEF Recovery, Running
  <2>11. SleeperHasWaker'
    BY <2>2 DEF SleeperHasWaker
  <2>12. LogTypes'
    BY <1>1, <2>1 DEF LogTypes
  <2>13. Atomic!Begin(p)
    BY <1>2, <1>3, <1>4, <2>2 DEF Atomic!Begin
  <2>. QED
    BY <1>5, <2>3, <2>7, <2>9, <2>10, <2>11, <2>12, <2>13
<1>7. CASE ~(~committing /\ LogSpace)
  <2>1. outstanding' = outstanding /\ pc' = [pc EXCEPT ![p] = "asleep"]
    BY <1>7 DEF begin_op
  <2>2. InOp' = InOp
    BY <1>1, <2>1 DEF InOp
  <2>3. Counted'
    BY <2>1, <2>2 DEF Counted
  <2>4. \A q \in Procs : pc'[q] \in CommitSteps <=> pc[q] \in CommitSteps
    BY <1>1, <2>1 DEF CommitSteps
  <2>5. \A q \in Procs : pc'[q] = pc[q] \/ pc'[q] = "asleep"
    BY <1>1, <2>1
  <2>6. \A q \in Procs : pc'[q] = "op" <=> pc[q] = "op"
    BY <1>1, <2>1
  <2>7. Alone'
    BY <1>1, <2>4, <2>6 DEF Alone
  <2>8. Stages'
    BY <1>1, <2>5, <2>6 DEF Stages, Stage, Gathering, Running, Logged,
       Copied, Installed
  <2>9. Recovery'
    BY <1>1 DEF Recovery, Running
  <2>10. SleeperHasWaker'
    <3>1. SUFFICES ASSUME ~committing, InOp = {} PROVE FALSE
      BY <1>1, <2>2 DEF SleeperHasWaker
    <3>2. lh = << >>
      BY <1>1, <3>1 DEF Stages, Gathering, Running, InOp
    <3>3. outstanding = 0
      BY <3>1, FS_EmptySet DEF Counted
    <3>4. LogSpace
      BY <3>2, <3>3, LogAssumption DEF LogSpace
    <3>. QED
      BY <1>7, <3>1, <3>4
  <2>11. LogTypes'
    BY <1>1, <2>1 DEF LogTypes
  <2>. QED
    BY <1>3, <1>4, <1>5, <2>2, <2>3, <2>7, <2>8, <2>9, <2>10, <2>11
       DEF Hidden
<1>. QED
  BY <1>6, <1>7

\* A step that only recycles and fills buffers leaves the stages as they
\* are: the contents they speak about are in dirty buffers.
LEMMA StagesKept ==
  ASSUME LogInv, mode = "up",
         UNCHANGED <<disk, logdisk, head, dirty, lh, committing, tail, mode,
                     pc>>,
         \A x \in dirty : cache'[x] = cache[x]
  PROVE  Stages'
<1>1. Running' /\ ~committing' => Gathering'
  BY DEF LogInv, Stages, Gathering, Running, Logged
<1>2. ASSUME NEW q \in Procs PROVE Stage(q)'
  <2>1. Stage(q)
    BY DEF LogInv, Stages
  <2>2. pc[q] = "write_log" => Copied(tail)'
    <3>1. SUFFICES ASSUME pc[q] = "write_log", NEW i \in 1 .. tail
                   PROVE  logdisk[i] = cache'[lh[i]]
      BY DEF Copied
    <3>2. dirty = Logged(lh) /\ tail < Len(lh) /\ logdisk[i] = cache[lh[i]]
      BY <2>1, <3>1 DEF Stage, Copied
    <3>3. lh[i] \in dirty
      BY <3>2 DEF Logged, LogInv, LogTypes
    <3>. QED
      BY <3>2, <3>3
  <2>3. pc[q] = "write_head" => Copied(Len(lh))'
    <3>1. SUFFICES ASSUME pc[q] = "write_head", NEW i \in 1 .. Len(lh)
                   PROVE  logdisk[i] = cache'[lh[i]]
      BY DEF Copied
    <3>2. dirty = Logged(lh) /\ logdisk[i] = cache[lh[i]]
      BY <2>1, <3>1 DEF Stage, Copied
    <3>. QED
      BY <3>2 DEF Logged
  <2>4. pc[q] = "install_trans" =>
          \A i \in tail + 1 .. Len(lh) : logdisk[i] = cache'[lh[i]]
    BY <2>1 DEF Stage
  <2>. QED
    BY <2>1, <2>2, <2>3, <2>4 DEF Stage, Installed, Logged
<1>. QED
  BY <1>1, <1>2 DEF Stages

\* A panic freezes the state.
LEMMA PanicInv ==
  ASSUME LogInv, NEW p \in Procs, log_panic(p)
  PROVE  LogInv' /\ Hidden
<1>1. /\ UNCHANGED <<disk, logdisk, head, cache, dirty, lh, outstanding,
                     committing, tail, pc, held, touched>>
      /\ mode = "up" /\ mode' = "panic"
  BY DEF log_panic, diskVars, bufVars, memVars
<1>2. Recovered' = Recovered
  BY <1>1, RecoveredKept DEF diskVars
<1>3. Seen' = Seen
  BY <1>1, SeenKept DEF Running, LogInv
<1>4. InOp' = InOp
  BY <1>1 DEF InOp
<1>5. LogTypes' /\ Buffers' /\ Headers' /\ Counted' /\ SleeperHasWaker'
  BY <1>1, <1>4 DEF LogInv, LogTypes, Buffers, Headers, Inj, Counted,
     SleeperHasWaker
<1>6. Alone'
  BY <1>1 DEF LogInv, Alone
<1>7. Stages' /\ Recovery'
  BY <1>1 DEF LogInv, Stages, Stage, Gathering, Running, Logged, Copied,
     Installed, Recovery
<1>. QED
  BY <1>2, <1>3, <1>4, <1>5, <1>6, <1>7 DEF LogInv, Hidden

\* bread fills a buffer; while blocks are copied to the log or installed
\* from it, the buffers that hold their contents are dirty and stay.
LEMMA FillInv ==
  ASSUME LogInv, NEW b \in Blocks, mode = "up", cache' \in Bread(b),
         UNCHANGED <<disk, logdisk, head, dirty, lh, outstanding, committing,
                     tail, mode, pc, touched>>,
         held' \in [Procs -> SUBSET Blocks]
  PROVE  LogInv' /\ Hidden
<1>1. /\ cache' \in [Blocks -> Data \cup {NoBuf}]
      /\ \A x \in Blocks \ {b} :
           cache'[x] = cache[x] \/ (x \notin dirty /\ cache'[x] = NoBuf)
      /\ cache'[b] = IF cache[b] = NoBuf THEN disk[b] ELSE cache[b]
  BY BreadCache DEF LogInv
<1>2. /\ disk[b] \in Data /\ NoBuf \notin Data
      /\ b \in dirty => cache'[b] = cache[b]
  BY <1>1, LogAssumption DEF LogInv, Buffers, LogTypes
<1>3. Recovered' = Recovered
  BY RecoveredKept DEF diskVars
<1>4. Seen' = Seen
  BY <1>1, <1>2 DEF Seen, LogInv, Buffers
<1>5. InOp' = InOp
  BY DEF InOp
<1>6. LogTypes' /\ Headers' /\ Counted' /\ SleeperHasWaker'
  BY <1>1, <1>5 DEF LogInv, LogTypes, Headers, Inj, Counted, SleeperHasWaker
<1>7. Buffers'
  BY <1>1, <1>2 DEF LogInv, Buffers
<1>8. Alone' /\ Recovery'
  BY DEF LogInv, Alone, Recovery, Running
<1>9. \A x \in dirty : cache'[x] = cache[x]
  BY <1>1, <1>2 DEF LogInv, LogTypes
<1>10. Stages'
  BY <1>9, StagesKept
<1>. QED
  BY <1>3, <1>4, <1>5, <1>6, <1>7, <1>8, <1>10 DEF LogInv, Hidden

\* A read, and the first half of log_write, fill a buffer.
LEMMA ReadInv ==
  ASSUME LogInv, NEW p \in Procs, NEW b \in Blocks,
         ReadBlock(p, b) \/ log_write(p, b)
  PROVE  LogInv' /\ Hidden
<1>1. /\ UNCHANGED <<disk, logdisk, head, dirty, lh, outstanding, committing,
                     tail, mode, pc, touched>>
      /\ mode = "up" /\ cache' \in Bread(b)
  BY DEF ReadBlock, log_write, diskVars, memVars
<1>2. held' \in [Procs -> SUBSET Blocks]
  BY DEF ReadBlock, log_write, LogInv, LogTypes
<1>. QED
  BY <1>1, <1>2, FillInv

\* The second half of log_write records the block once and pins its buffer;
\* it is the atomic disk's write.  That the header fits is not its doing.
LEMMA AppendInv ==
  ASSUME LogInv, NEW p \in Procs, NEW d \in Data, log_append(p, d),
         pc[p] = "op", Len(lh') <= LOGSIZE - 1
  PROVE  LogInv' /\ \E b \in Blocks : Atomic!Write(p, b, d)
<1>1. /\ UNCHANGED <<disk, logdisk, head, outstanding, committing, tail, mode,
                     pc>>
      /\ mode = "up" /\ pc[p] = "op"
      /\ held' = [held EXCEPT ![p] = {}]
  BY DEF log_append, diskVars
<1>2. PICK b \in held[p] :
        /\ cache' = [cache EXCEPT ![b] = d]
        /\ dirty' = dirty \cup {b}
        /\ touched' = [touched EXCEPT ![p] = @ \cup {b}]
        /\ lh' = IF b \in Logged(lh) THEN lh ELSE Append(lh, b)
  BY Zenon DEF log_append
<1>3. b \in Blocks
  BY DEF LogInv, LogTypes
<1>4. /\ cache' \in [Blocks -> Data \cup {NoBuf}]
      /\ \A x \in Blocks \ {b} : cache'[x] = cache[x]
      /\ cache'[b] = d
  BY <1>2, <1>3 DEF LogInv, LogTypes
<1>5. d # NoBuf
  BY LogAssumption
<1>6. ~committing /\ \A q \in Procs : pc[q] \notin CommitSteps
  BY <1>1 DEF LogInv, Alone
<1>7. lh \in Seq(Blocks) /\ Len(lh) \in Nat
  BY DEF LogInv, LogTypes
<1>8. /\ lh' \in Seq(Blocks)
      /\ Inj(lh') /\ Logged(lh') = Logged(lh) \cup {b}
  <2>1. CASE b \in Logged(lh)
    <3>1. lh' = lh /\ Logged(lh) = Logged(lh) \cup {b}
      BY <1>2, <2>1
    <3>2. Inj(lh) /\ lh \in Seq(Blocks)
      BY DEF LogInv, Headers, LogTypes
    <3>. QED
      BY <3>1, <3>2, Zenon
  <2>2. CASE b \notin Logged(lh)
    <3>1. lh' = Append(lh, b)
      BY <1>2, <2>2
    <3>2. /\ lh' \in Seq(Blocks) /\ Len(lh') = Len(lh) + 1
          /\ \A i \in 1 .. Len(lh) : lh'[i] = lh[i]
          /\ lh'[Len(lh) + 1] = b
      BY <1>3, <1>7, <3>1
    <3>3. \A i \in 1 .. Len(lh) : lh[i] # b
      BY <2>2 DEF Logged
    <3>4. Inj(lh')
      <4>1. SUFFICES ASSUME NEW i \in 1 .. Len(lh'), NEW j \in 1 .. Len(lh'),
                            lh'[i] = lh'[j]
                     PROVE  i = j
        BY DEF Inj
      <4>2. Inj(lh)
        BY DEF LogInv, Headers
      <4>. QED
        BY <1>7, <3>2, <3>3, <4>1, <4>2 DEF Inj
    <3>5. Logged(lh') = Logged(lh) \cup {b}
      <4>1. ASSUME NEW x \in Logged(lh') PROVE x \in Logged(lh) \cup {b}
        BY <1>7, <3>2, <4>1 DEF Logged
      <4>2. ASSUME NEW x \in Logged(lh) PROVE x \in Logged(lh')
        BY <1>7, <3>2, <4>2 DEF Logged
      <4>3. b \in Logged(lh')
        BY <1>7, <3>2 DEF Logged
      <4>. QED
        BY <4>1, <4>2, <4>3
    <3>. QED
      BY <3>2, <3>4, <3>5
  <2>. QED
    BY <2>1, <2>2
<1>9. Recovered' = Recovered
  BY <1>1, RecoveredKept DEF diskVars
<1>10. Seen' = [Seen EXCEPT ![b] = d]
  BY <1>1, <1>3, <1>4, <1>5, Zenon DEF Seen
<1>11. InOp' = InOp /\ p \in InOp
  BY <1>1 DEF InOp
<1>12. Buffers'
  BY <1>1, <1>2, <1>4, <1>5 DEF LogInv, Buffers
<1>13. Headers' /\ Counted' /\ SleeperHasWaker'
  BY <1>1, <1>8, <1>11 DEF LogInv, Headers, Inj, Counted, SleeperHasWaker
<1>14. Alone' /\ Recovery'
  BY <1>1 DEF LogInv, Alone, Recovery, Running
<1>15. Gathering
  BY <1>1, <1>6 DEF LogInv, Stages, Running
<1>16. Gathering'
  BY <1>1, <1>2, <1>8, <1>15 DEF Gathering
<1>17. Stages'
  BY <1>1, <1>6, <1>16 DEF Stages, Stage, CommitSteps
<1>18. held' \in [Procs -> SUBSET Blocks] /\ touched' \in [Procs -> SUBSET Blocks]
  BY <1>1, <1>2, <1>3 DEF LogInv, LogTypes
<1>19. dirty' \subseteq Blocks
  BY <1>2, <1>3 DEF LogInv, LogTypes
<1>20. LogTypes'
  BY <1>1, <1>4, <1>8, <1>18, <1>19 DEF LogInv, LogTypes
<1>21. Atomic!Write(p, b, d)
  BY <1>9, <1>10, <1>11 DEF Atomic!Write
<1>. QED
  BY <1>3, <1>12, <1>13, <1>14, <1>17, <1>20, <1>21 DEF LogInv

\* What wakeup(&log) does to the processes.
LEMMA WokenPc ==
  ASSUME NEW f \in [Procs -> {"user", "begin_op", "asleep", "op"}
                               \cup CommitSteps]
  PROVE  /\ Woken(f) \in [Procs -> {"user", "begin_op", "asleep", "op"}
                                     \cup CommitSteps]
         /\ \A q \in Procs : Woken(f)[q] # "asleep"
         /\ \A q \in Procs : f[q] # "asleep" => Woken(f)[q] = f[q]
         /\ \A q \in Procs : f[q] = "asleep" => Woken(f)[q] = "begin_op"
  BY DEF Woken

\* end_op ends an operation; the last one starts the commit.
LEMMA EndInv ==
  ASSUME LogInv, NEW p \in Procs, end_op(p)
  PROVE  LogInv' /\ Atomic!End(p)
<1>1. /\ UNCHANGED <<disk, logdisk, head, cache, dirty, lh, mode, held>>
      /\ mode = "up" /\ pc[p] = "op" /\ ~committing /\ tail' = 0
      /\ outstanding' = outstanding - 1
      /\ touched' = [touched EXCEPT ![p] = {}]
  BY DEF end_op, diskVars, bufVars
<1>2. pc \in [Procs -> {"user", "begin_op", "asleep", "op"} \cup CommitSteps]
  BY DEF LogInv, LogTypes
<1>3. \A q \in Procs : pc[q] \notin CommitSteps
  BY <1>1 DEF LogInv, Alone
<1>4. Gathering
  BY <1>1 DEF LogInv, Stages, Running
<1>5. Recovered' = Recovered
  BY <1>1, RecoveredKept DEF diskVars
<1>6. Seen' = Seen
  BY <1>1, SeenKept DEF Running, LogInv
<1>7. Buffers' /\ Headers' /\ Recovery'
  BY <1>1 DEF LogInv, Buffers, Headers, Inj, Recovery, Running
<1>8. touched' \in [Procs -> SUBSET Blocks]
  BY <1>1 DEF LogInv, LogTypes
<1>9. lh \in Seq(Blocks) /\ Len(lh) \in Nat
  BY DEF LogInv, LogTypes
<1>10. /\ Cardinality(InOp \ {p}) = Cardinality(InOp) - 1
       /\ InOp \ {p} = {} <=> outstanding' = 0
  <2>1. p \in InOp
    BY <1>1 DEF InOp
  <2>2. Cardinality(InOp \ {p}) = Cardinality(InOp) - 1
    BY <2>1, InOpFinite, FS_RemoveElement, Zenon
  <2>3. IsFiniteSet(InOp \ {p})
    BY InOpFinite, FS_RemoveElement
  <2>4. InOp \ {p} = {} <=> Cardinality(InOp \ {p}) = 0
    BY <2>3, FS_EmptySet
  <2>. QED
    BY <1>1, <2>2, <2>4 DEF LogInv, Counted
<1>11. CASE outstanding' = 0
  <2>1. /\ committing'
        /\ pc' = [pc EXCEPT ![p] = IF Len(lh) > 0 THEN "write_log"
                                   ELSE "committed"]
    BY <1>11, Zenon DEF end_op
  <2>2. InOp' = InOp \ {p}
    BY <1>2, <2>1 DEF InOp
  <2>3. /\ pc'[p] \in {"write_log", "committed"}
        /\ pc'[p] = "write_log" <=> Len(lh) > 0
        /\ \A q \in Procs \ {p} : pc'[q] = pc[q]
    BY <1>2, <2>1
  <2>4. \A q \in Procs : pc'[q] # "op"
    BY <1>10, <1>11, <2>2 DEF InOp
  <2>5. Alone'
    BY <1>3, <2>1, <2>3, <2>4 DEF Alone, CommitSteps
  <2>6. Len(lh) = 0 => lh = << >>
    BY <1>9
  <2>7. \A q \in Procs \ {p} : pc'[q] \notin CommitSteps
    BY <1>3, <2>3
  <2>8. Stage(p)'
    <3>1. CASE Len(lh) > 0
      BY <1>1, <1>4, <2>3, <3>1 DEF Stage, Gathering, Logged, Copied
    <3>2. CASE Len(lh) = 0
      <4>1. Logged(lh) = {}
        BY <2>6, <3>2 DEF Logged
      <4>. QED
        BY <1>1, <1>4, <2>3, <2>6, <3>2, <4>1 DEF Stage, Gathering
    <3>. QED
      BY <1>9, <3>1, <3>2
  <2>9. Stages'
    BY <2>1, <2>7, <2>8 DEF Stages, Stage, CommitSteps
  <2>10. Counted' /\ SleeperHasWaker'
    BY <1>1, <1>10, <2>1, <2>2 DEF LogInv, Counted, SleeperHasWaker
  <2>11. pc' \in [Procs -> {"user", "begin_op", "asleep", "op"}
                              \cup CommitSteps]
    BY <1>2, <2>1 DEF CommitSteps
  <2>12. LogTypes'
    BY <1>1, <1>8, <2>1, <2>11, LogAssumption DEF LogInv, LogTypes
  <2>13. Atomic!End(p)
    BY <1>1, <1>5, <1>6, <2>2 DEF Atomic!End, InOp
  <2>. QED
    BY <1>7, <2>5, <2>9, <2>10, <2>12, <2>13 DEF LogInv
<1>12. CASE outstanding' # 0
  <2>1. committing' = committing /\ pc' = Woken([pc EXCEPT ![p] = "user"])
    BY <1>12 DEF end_op
  <2>2. [pc EXCEPT ![p] = "user"]
          \in [Procs -> {"user", "begin_op", "asleep", "op"} \cup CommitSteps]
    BY <1>2
  <2>3. /\ pc' \in [Procs -> {"user", "begin_op", "asleep", "op"}
                               \cup CommitSteps]
        /\ \A q \in Procs : pc'[q] # "asleep"
        /\ \A q \in Procs : pc'[q] = "op" <=> pc[q] = "op" /\ q # p
        /\ \A q \in Procs : pc'[q] \notin CommitSteps
    <3>1. /\ pc' \in [Procs -> {"user", "begin_op", "asleep", "op"}
                                 \cup CommitSteps]
          /\ \A q \in Procs : pc'[q] # "asleep"
      BY <2>1, <2>2, WokenPc, Zenon
    <3>2. \A q \in Procs : \/ pc'[q] = [pc EXCEPT ![p] = "user"][q]
                           \/ /\ [pc EXCEPT ![p] = "user"][q] = "asleep"
                              /\ pc'[q] = "begin_op"
      BY <2>1 DEF Woken
    <3>3. \A q \in Procs : \/ q = p /\ pc'[q] = "user"
                           \/ q # p /\ pc'[q] = pc[q]
                           \/ /\ q # p /\ pc[q] = "asleep"
                              /\ pc'[q] = "begin_op"
      BY <1>2, <3>2
    <3>4. \A q \in Procs : pc'[q] \notin CommitSteps
      BY <1>3, <3>3 DEF CommitSteps
    <3>5. \A q \in Procs : pc'[q] = "op" <=> pc[q] = "op" /\ q # p
      BY <3>3
    <3>. QED
      BY <3>1, <3>4, <3>5
  <2>4. InOp' = InOp \ {p}
    BY <2>3 DEF InOp
  <2>5. InOp' # {}
    BY <1>10, <1>12, <2>4
  <2>6. Alone' /\ SleeperHasWaker'
    BY <1>1, <2>1, <2>3, Zenon DEF Alone, SleeperHasWaker
  <2>7. Gathering'
    BY <1>1, <1>4, <2>5 DEF Gathering, InOp, Logged
  <2>8. Stages'
    BY <2>3, <2>7 DEF Stages, Stage, CommitSteps
  <2>9. Counted'
    BY <1>1, <1>10, <2>4 DEF LogInv, Counted
  <2>10. LogTypes'
    <3>1. tail' \in 0 .. LOGSIZE - 1
      BY <1>1, LogAssumption
    <3>2. committing' \in BOOLEAN
      BY <2>1, Zenon DEF LogInv, LogTypes
    <3>3. pc' \in [Procs -> {"user", "begin_op", "asleep", "op"}
                               \cup CommitSteps]
      BY <2>3
    <3>. QED
      BY <1>1, <1>8, <3>1, <3>2, <3>3 DEF LogInv, LogTypes
  <2>11. Atomic!End(p)
    BY <1>1, <1>5, <1>6, <2>4 DEF Atomic!End, InOp
  <2>. QED
    BY <1>7, <2>6, <2>8, <2>9, <2>10, <2>11 DEF LogInv
<1>. QED
  BY <1>11, <1>12
==============================================================================
