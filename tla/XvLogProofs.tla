---------------------------- MODULE XvLogProofs -----------------------------
(***************************************************************************)
(* Proofs about XvLog, for any processes, blocks and log size.  XvLogOps   *)
(* has the invariant and the operations, XvLogCommit the commit; here are  *)
(* crash and recovery, and the theorems: a commit runs alone, a quiet log  *)
(* is empty and everything in it durable, no sleeper is forgotten, and the *)
(* log implements AtomicDisk.                                              *)
(***************************************************************************)
EXTENDS XvLogCommit
-----------------------------------------------------------------------------
(* Crash and recovery. *)

\* A crash falls back to what recovery will find.
LEMMA CrashInv ==
  ASSUME LogInv, crash
  PROVE  LogInv' /\ Atomic!Crash
<1>1. /\ UNCHANGED <<disk, logdisk, head>>
      /\ cache' = [b \in Blocks |-> NoBuf] /\ dirty' = {} /\ lh' = << >>
      /\ outstanding' = 0 /\ committing' = FALSE /\ tail' = 0
      /\ mode' = "read_head" /\ pc' = [p \in Procs |-> "user"]
      /\ held' = [p \in Procs |-> {}] /\ touched' = [p \in Procs |-> {}]
  BY Zenon DEF crash, diskVars
<1>2. Recovered' = Recovered
  BY <1>1, RecoveredKept DEF diskVars
<1>3. Seen' = Recovered'
  BY <1>1 DEF Seen
<1>4. InOp' = {}
  BY <1>1 DEF InOp
<1>5. Buffers'
  BY <1>1 DEF Buffers
<1>6. Headers'
  BY <1>1 DEF LogInv, Headers, Inj
<1>7. Counted'
  BY <1>1, <1>4, FS_EmptySet DEF Counted
<1>8. Alone' /\ Stages' /\ SleeperHasWaker'
  BY <1>1 DEF Alone, Stages, Stage, Running, SleeperHasWaker, CommitSteps
<1>9. Recovery'
  BY <1>1 DEF Recovery, Running
<1>10. LogTypes'
  <2>1. lh' \in Seq(Blocks) /\ Len(lh') = 0 /\ LOGSIZE - 1 \in Nat
    BY <1>1, LogAssumption
  <2>2. cache' \in [Blocks -> Data \cup {NoBuf}] /\ dirty' \subseteq Blocks
    BY <1>1
  <2>3. /\ held' \in [Procs -> SUBSET Blocks]
        /\ touched' \in [Procs -> SUBSET Blocks]
    BY <1>1
  <2>4. /\ pc' \in [Procs -> {"user", "begin_op", "asleep", "op"}
                               \cup CommitSteps]
        /\ mode' = "read_head" /\ tail' = 0
    BY <1>1
  <2>5. committing' \in BOOLEAN
    BY <1>1, Zenon
  <2>6. /\ disk' \in [Blocks -> Data] /\ logdisk' \in [Slots -> Data]
        /\ head' \in Seq(Blocks) /\ Len(head') <= LOGSIZE - 1
    BY <1>1 DEF LogInv, LogTypes
  <2>. QED
    BY <2>1, <2>2, <2>3, <2>4, <2>5, <2>6 DEF LogTypes
<1>11. Atomic!Crash
  BY <1>2, <1>3, <1>4 DEF Atomic!Crash
<1>. QED
  BY <1>5, <1>6, <1>7, <1>8, <1>9, <1>10, <1>11 DEF LogInv

\* While the machine recovers nobody runs.
LEMMA RecoveringQuiet ==
  ASSUME LogInv, ~Running,
         UNCHANGED <<outstanding, committing, pc>>
  PROVE  /\ Counted' /\ Alone' /\ SleeperHasWaker' /\ InOp' = InOp
         /\ ~committing /\ InOp = {}
         /\ \A p \in Procs : pc'[p] = "user"
<1>1. ~committing /\ \A p \in Procs : pc[p] = "user"
  BY DEF LogInv, Recovery
<1>2. InOp' = InOp /\ InOp = {}
  BY <1>1 DEF InOp
<1>3. Counted'
  BY <1>2 DEF LogInv, Counted
<1>4. Alone' /\ SleeperHasWaker'
  BY <1>1, Zenon DEF LogInv, Alone, SleeperHasWaker
<1>. QED
  BY <1>1, <1>2, <1>3, <1>4

\* recover_from_log ends with the committed contents at home.
LEMMA RecoverInv ==
  ASSUME LogInv, recover_from_log
  PROVE  LogInv' /\ Hidden
<1>1. /\ lh \in Seq(Blocks) /\ Len(lh) \in Nat /\ Len(lh) <= LOGSIZE - 1
      /\ head \in Seq(Blocks) /\ Len(head) \in Nat
      /\ Len(head) <= LOGSIZE - 1
      /\ tail \in Nat /\ LOGSIZE \in Nat /\ LOGSIZE - 1 \in Nat
  BY LogAssumption DEF LogInv, LogTypes
<1>2. CASE read_head
  <2>1. /\ UNCHANGED <<disk, logdisk, head, cache, dirty, outstanding,
                       committing, tail, pc, held, touched>>
        /\ mode = "read_head" /\ lh' = head
        /\ mode' = IF Len(head) > 0 THEN "install" ELSE "clear"
    BY <1>2, Zenon DEF read_head, diskVars, bufVars
  <2>2. /\ Counted' /\ Alone' /\ SleeperHasWaker' /\ InOp' = InOp
        /\ ~committing /\ \A p \in Procs : pc'[p] = "user"
    BY <2>1, RecoveringQuiet DEF Running
  <2>3. mode' \in {"install", "clear"} /\ tail = 0 /\ dirty = {}
    BY <2>1 DEF LogInv, Recovery, Running
  <2>4. Recovered' = Recovered
    BY <2>1, RecoveredKept DEF diskVars
  <2>5. Seen' = Seen
    BY <2>1, <2>3, <2>4 DEF Seen
  <2>6. Buffers' /\ Headers'
    BY <2>1 DEF LogInv, Buffers, Headers, Inj
  <2>7. Stages'
    BY <2>2, <2>3 DEF Stages, Stage, Running
  <2>8. Recovery'
    BY <1>1, <2>1, <2>2, <2>3 DEF Recovery, Installed, Running
  <2>9. LogTypes'
    BY <1>1, <2>1, <2>3 DEF LogInv, LogTypes
  <2>. QED
    BY <2>2, <2>4, <2>5, <2>6, <2>7, <2>8, <2>9 DEF LogInv, Hidden
<1>3. CASE recover_install
  <2>1. /\ UNCHANGED <<logdisk, head, lh, outstanding, committing, pc, held,
                       touched>>
        /\ mode = "install" /\ InstallBlock
        /\ mode' = IF tail' = Len(lh) THEN "clear" ELSE "install"
    BY <1>3, Zenon DEF recover_install, InstallBlock, memVars
  <2>2. /\ Counted' /\ Alone' /\ SleeperHasWaker' /\ InOp' = InOp
        /\ ~committing /\ \A p \in Procs : pc'[p] = "user"
    BY <2>1, RecoveringQuiet DEF Running
  <2>3. lh = head /\ tail < Len(lh) /\ Installed(tail) /\ dirty = {}
    BY <2>1 DEF LogInv, Recovery, Running
  <2>4. /\ cache' \in [Blocks -> Data \cup {NoBuf}]
        /\ disk' \in [Blocks -> Data]
        /\ Buffers' /\ Recovered' = Recovered
        /\ dirty' = dirty \ {lh[tail + 1]}
        /\ tail' = tail + 1 /\ tail' \in 0 .. LOGSIZE - 1
        /\ Installed(tail)'
    BY <2>1, <2>3, InstallEffect
  <2>5. mode' \in {"install", "clear"} /\ dirty' = {}
    BY <2>1, <2>3, <2>4
  <2>6. Seen' = Seen
    BY <2>1, <2>4, <2>5 DEF Seen
  <2>7. Headers'
    BY <2>1 DEF LogInv, Headers, Inj
  <2>8. Stages'
    BY <2>2, <2>5 DEF Stages, Stage, Running
  <2>9. Recovery'
    <3>1. CASE tail + 1 = Len(lh)
      BY <1>1, <2>1, <2>2, <2>3, <2>4, <2>5, <3>1
         DEF Recovery, Installed, Running
    <3>2. CASE tail + 1 # Len(lh)
      BY <1>1, <2>1, <2>2, <2>3, <2>4, <2>5, <3>2
         DEF Recovery, Installed, Running
    <3>. QED
      BY <3>1, <3>2
  <2>10. LogTypes'
    BY <2>1, <2>4, <2>5 DEF LogInv, LogTypes
  <2>. QED
    BY <2>2, <2>4, <2>6, <2>7, <2>8, <2>9, <2>10 DEF LogInv, Hidden
<1>4. CASE recover_clear
  <2>1. /\ UNCHANGED <<disk, logdisk, dirty, outstanding, committing, pc,
                       held, touched>>
        /\ tail' = 0 /\ mode = "clear" /\ mode' = "up" /\ cache' \in Recycled
        /\ lh' = << >> /\ head' = << >>
    BY <1>4, Zenon DEF recover_clear, ClearHead
  <2>2. /\ Counted' /\ Alone' /\ SleeperHasWaker' /\ InOp' = InOp
        /\ ~committing /\ \A p \in Procs : pc'[p] = "user"
    BY <2>1, RecoveringQuiet DEF Running
  <2>3. lh = head /\ Installed(Len(lh)) /\ dirty = {}
    BY <2>1 DEF LogInv, Recovery, Running
  <2>4. Buffers' /\ cache' \in [Blocks -> Data \cup {NoBuf}]
    BY <2>1, BuffersRecycled DEF LogInv
  <2>5. Recovered = disk
    BY <2>3, RecoveredInstalled
  <2>6. Recovered' = disk
    BY <2>1, RecoveredEmptyNext DEF LogInv, LogTypes
  <2>7. Seen = Recovered
    BY <2>1 DEF Seen
  <2>8. Seen' = disk
    <3>1. \A b \in Blocks : cache'[b] = NoBuf \/ cache'[b] = disk[b]
      BY <2>1, <2>3, <2>4 DEF Buffers
    <3>. QED
      BY <2>1, <3>1 DEF Seen, LogInv, LogTypes
  <2>9. Headers' /\ Recovery'
    BY <2>1 DEF Headers, Inj, Recovery, Running
  <2>10. Stages'
    BY <2>1, <2>2, <2>3 DEF Stages, Stage, Gathering, Running, Logged
  <2>11. LogTypes'
    <3>1. /\ lh' \in Seq(Blocks) /\ Len(lh') = 0
          /\ head' \in Seq(Blocks) /\ Len(head') = 0
      BY <2>1
    <3>. QED
      BY <1>1, <2>1, <2>4, <3>1 DEF LogInv, LogTypes
  <2>. QED
    BY <2>2, <2>4, <2>5, <2>6, <2>7, <2>8, <2>9, <2>10, <2>11
       DEF LogInv, Hidden
<1>. QED
  BY <1>2, <1>3, <1>4 DEF recover_from_log
-----------------------------------------------------------------------------
(* The reservation. *)

\* The strengthening of LogReserved: what an operation has touched is in the
\* log, a process outside an operation has touched nothing and logs nothing,
\* and the block that a process is logging is one it may write.
ReserveInv ==
  /\ \A p \in Procs : /\ IsFiniteSet(touched[p])
                      /\ touched[p] \subseteq Logged(lh)
                      /\ pc[p] # "op" => touched[p] = {} /\ held[p] = {}
                      /\ \A b \in held[p] : MayWrite(p, b)
  /\ LogReserved

\* The places are finitely many, and at most MAXOPBLOCKS for each operation.
LEMMA ReservedBound ==
  ASSUME LogInv
  PROVE  /\ IsFiniteSet(Reserved) /\ Cardinality(Reserved) \in Nat
         /\ outstanding \in Nat
         /\ Cardinality(Reserved) <= outstanding * MAXOPBLOCKS
<1>. DEFINE T == 1 .. MAXOPBLOCKS
<1>1. IsFiniteSet(T) /\ Cardinality(T) = MAXOPBLOCKS
  BY LogAssumption, FS_Interval
<1>2. IsFiniteSet(InOp) /\ outstanding = Cardinality(InOp) /\ outstanding \in Nat
  BY InOpFinite, FS_CardinalityType DEF LogInv, Counted
<1>. HIDE DEF T
<1>3. IsFiniteSet(InOp \X T) /\ Cardinality(InOp \X T) = outstanding * MAXOPBLOCKS
  BY <1>1, <1>2, FS_Product
<1>4. Reserved \subseteq InOp \X T
  BY DEF Reserved, T
<1>. QED
  BY <1>2, <1>3, <1>4, FS_Subset, FS_CardinalityType

\* A step after which fewer places are reserved and the log is no longer.
LEMMA ReservedShrinks ==
  ASSUME LogInv, LogReserved, Reserved' \subseteq Reserved, Len(lh') <= Len(lh),
         Len(lh') \in Nat, Len(lh) \in Nat
  PROVE  LogReserved'
<1>1. IsFiniteSet(Reserved) /\ Cardinality(Reserved) \in Nat
  BY ReservedBound
<1>2. Cardinality(Reserved') <= Cardinality(Reserved) /\ Cardinality(Reserved') \in Nat
  BY <1>1, FS_Subset, FS_CardinalityType
<1>. QED
  BY <1>1, <1>2, LogAssumption DEF LogReserved

\* What is reserved for an operation that begins, and for those in progress:
\* LogSpace counts MAXOPBLOCKS for each, and one of two writes less; the log
\* is empty when an operation begins alone.
LEMMA RoomForOne ==
  ASSUME LogInv, mode = "up", NEW p \in Procs, p \notin InOp, ~committing,
         LogSpace
  PROVE  Len(lh) + Cardinality(Reserved) + OpBlocks(p) <= LOGSIZE - 1
<1>. DEFINE T == 1 .. MAXOPBLOCKS
            R == Cardinality(Reserved)
            O == outstanding * MAXOPBLOCKS
<1>1. /\ Len(lh) \in Nat /\ R \in Nat /\ outstanding \in Nat /\ O \in Nat
      /\ IsFiniteSet(Reserved) /\ R <= O
      /\ MAXOPBLOCKS \in Nat \ {0} /\ LOGSIZE \in Nat
      /\ LOGSIZE > MAXOPBLOCKS
      /\ OpBlocks(p) \in Nat /\ OpBlocks(p) <= MAXOPBLOCKS
  BY ReservedBound, LogAssumption DEF LogInv, LogTypes, OpBlocks
<1>2. Len(lh) + (O + MAXOPBLOCKS) <= LOGSIZE
  BY <1>1 DEF LogSpace
<1>3. CASE InOp = {}
  <2>1. lh = << >>
    BY <1>3 DEF LogInv, Stages, Gathering, Running, InOp
  <2>2. Reserved = {}
    BY <1>3 DEF Reserved
  <2>3. R = 0
    BY <2>2, FS_EmptySet
  <2>. QED
    BY <1>1, <2>1, <2>3
<1>4. CASE p \notin FullOps
  <2>1. OpBlocks(p) = MAXOPBLOCKS - 1
    BY <1>4 DEF OpBlocks
  <2>. HIDE DEF R, O
  <2>. QED
    BY <1>1, <1>2, <2>1 DEF R
<1>5. CASE InOp # {} /\ p \in FullOps
  <2>1. PICK q \in InOp : TRUE
    BY <1>5
  <2>2. q \notin FullOps /\ q \in Procs
    BY <1>5, RoomAssumption DEF InOp
  <2>3. OpBlocks(q) < MAXOPBLOCKS
    BY <1>1, <2>2 DEF OpBlocks
  <2>4. /\ IsFiniteSet(InOp \X T) /\ Cardinality(InOp \X T) = O
        /\ <<q, MAXOPBLOCKS>> \in InOp \X T
    <3>1. IsFiniteSet(T) /\ Cardinality(T) = MAXOPBLOCKS
      BY LogAssumption, FS_Interval
    <3>2. IsFiniteSet(InOp) /\ outstanding = Cardinality(InOp)
      BY InOpFinite DEF LogInv, Counted
    <3>3. MAXOPBLOCKS \in T
      BY <1>1
    <3>. HIDE DEF T
    <3>. QED
      BY <2>1, <3>1, <3>2, <3>3, FS_Product
  <2>5. Reserved \subseteq (InOp \X T) \ {<<q, MAXOPBLOCKS>>}
    <3>1. ASSUME NEW s \in Reserved
          PROVE  s \in InOp \X T /\ s # <<q, MAXOPBLOCKS>>
      <4>1. s \in InOp \X T /\ s[2] <= OpBlocks(s[1])
        BY DEF Reserved
      <4>2. ASSUME s = <<q, MAXOPBLOCKS>> PROVE FALSE
        <5>1. s[1] = q /\ s[2] = MAXOPBLOCKS
          BY <4>2
        <5>. QED
          BY <1>1, <2>3, <4>1, <5>1 DEF OpBlocks
      <4>. QED
        BY <4>1, <4>2
    <3>. QED
      BY <3>1
  <2>. HIDE DEF T
  <2>6. /\ IsFiniteSet((InOp \X T) \ {<<q, MAXOPBLOCKS>>})
        /\ Cardinality((InOp \X T) \ {<<q, MAXOPBLOCKS>>}) = O - 1
    BY <2>4, FS_RemoveElement
  <2>7. R <= O - 1
    BY <2>5, <2>6, FS_Subset
  <2>. HIDE DEF R, O
  <2>. QED
    BY <1>1, <1>2, <2>7 DEF R
<1>. QED
  BY <1>3, <1>4, <1>5

\* begin_op: LogSpace leaves room for the places of one more operation.
LEMMA BeginReserve ==
  ASSUME LogInv, ReserveInv, NEW p \in Procs, begin_op(p)
  PROVE  ReserveInv'
<1>1. /\ UNCHANGED <<lh, held, touched>> /\ mode = "up"
      /\ pc[p] # "op" /\ touched[p] = {}
  BY DEF begin_op, ReserveInv
<1>2. pc \in [Procs -> {"user", "begin_op", "asleep", "op"} \cup CommitSteps]
      /\ Len(lh) \in Nat
  BY DEF LogInv, LogTypes
<1>3. \A q \in Procs : pc'[q] # "op" => pc[q] # "op"
  BY <1>1, <1>2 DEF begin_op
<1>4. LogReserved'
  <2>1. CASE pc' = [pc EXCEPT ![p] = "asleep"]
    <3>1. Reserved' = Reserved
      BY <1>1, <1>2, <2>1 DEF Reserved, InOp
    <3>. QED
      BY <1>1, <1>2, <3>1, ReservedShrinks DEF ReserveInv
  <2>2. CASE ~committing /\ LogSpace /\ pc' = [pc EXCEPT ![p] = "op"]
    <3>. DEFINE New == {p} \X (1 .. OpBlocks(p))
    <3>1. OpBlocks(p) \in Nat /\ OpBlocks(p) <= MAXOPBLOCKS
      BY LogAssumption DEF OpBlocks
    <3>2. InOp' = InOp \cup {p} /\ p \notin InOp
      BY <1>1, <1>2, <2>2 DEF InOp
    <3>3. Reserved' \subseteq Reserved \cup New
      BY <1>1, <3>1, <3>2, LogAssumption DEF Reserved
    <3>4. IsFiniteSet(New) /\ Cardinality(New) = OpBlocks(p)
      <4>1. /\ IsFiniteSet(1 .. OpBlocks(p))
            /\ Cardinality(1 .. OpBlocks(p)) = OpBlocks(p)
        BY <3>1, FS_Interval
      <4>2. IsFiniteSet({p}) /\ Cardinality({p}) = 1
        BY FS_Singleton, SMTT(30)
      <4>3. IsFiniteSet(New) /\ Cardinality(New) = 1 * OpBlocks(p)
        BY <4>1, <4>2, FS_Product, ZenonT(30)
      <4>. QED
        BY <3>1, <4>3
    <3>. HIDE DEF New
    <3>5. Len(lh) + Cardinality(Reserved) + OpBlocks(p) <= LOGSIZE - 1
      BY <1>1, <2>2, <3>2, RoomForOne
    <3>6. /\ Cardinality(Reserved') \in Nat
          /\ Cardinality(Reserved') <= Cardinality(Reserved) + OpBlocks(p)
      <4>1. IsFiniteSet(Reserved) /\ Cardinality(Reserved) \in Nat
        BY ReservedBound
      <4>2. /\ IsFiniteSet(Reserved \cup New) /\ IsFiniteSet(Reserved \cap New)
            /\ Cardinality(Reserved \cup New)
                 = Cardinality(Reserved) + Cardinality(New)
                   - Cardinality(Reserved \cap New)
        BY <3>4, <4>1, FS_Union, FS_Intersection
      <4>3. /\ Cardinality(Reserved') \in Nat
            /\ Cardinality(Reserved') <= Cardinality(Reserved \cup New)
        BY <3>3, <4>2, FS_Subset, FS_CardinalityType
      <4>4. Cardinality(Reserved \cap New) \in Nat
        BY <4>2, FS_CardinalityType
      <4>. QED
        BY <3>1, <3>4, <4>1, <4>2, <4>3, <4>4
    <3>. QED
      BY <1>1, <1>2, <3>1, <3>5, <3>6, ReservedBound, LogAssumption
      DEF LogReserved
  <2>. QED
    BY <2>1, <2>2 DEF begin_op
<1>5. \A q \in Procs : \A b : MayWrite(q, b)' <=> MayWrite(q, b)
  BY <1>1 DEF MayWrite
<1>. QED
  BY <1>1, <1>3, <1>4, <1>5 DEF ReserveInv

\* The first half of log_write: the block is one the operation may write.
LEMMA CheckReserve ==
  ASSUME LogInv, ReserveInv, NEW p \in Procs, NEW b \in Blocks, log_write(p, b)
  PROVE  ReserveInv'
<1>1. /\ UNCHANGED <<lh, pc, touched>> /\ pc[p] = "op" /\ MayWrite(p, b)
      /\ held' = [held EXCEPT ![p] = {b}]
  BY DEF log_write, memVars
<1>2. held \in [Procs -> SUBSET Blocks]
  BY DEF LogInv, LogTypes
<1>3. Reserved' = Reserved /\ Logged(lh)' = Logged(lh)
  BY <1>1 DEF Reserved, InOp, Logged
<1>4. \A q \in Procs : \A x : MayWrite(q, x)' <=> MayWrite(q, x)
  BY <1>1 DEF MayWrite
<1>. QED
  BY <1>1, <1>2, <1>3, <1>4 DEF ReserveInv, LogReserved

\* The second half: a block that makes the log longer uses up one of the
\* places of its operation; one that the operation has touched before is
\* absorbed.
LEMMA AppendReserve ==
  ASSUME LogInv, ReserveInv, NEW p \in Procs, NEW d \in Data, log_append(p, d)
  PROVE  ReserveInv' /\ pc[p] = "op" /\ Len(lh') <= LOGSIZE - 1
<1>0. PICK b \in held[p] :
        /\ lh' = IF b \in Logged(lh) THEN lh ELSE Append(lh, b)
        /\ touched' = [touched EXCEPT ![p] = @ \cup {b}]
  BY Zenon DEF log_append
<1>1. /\ pc[p] = "op" /\ pc' = pc /\ held' = [held EXCEPT ![p] = {}]
      /\ lh' = IF b \in Logged(lh) THEN lh ELSE Append(lh, b)
      /\ touched' = [touched EXCEPT ![p] = @ \cup {b}]
      /\ Cardinality(touched[p] \cup {b}) <= OpBlocks(p)
      /\ OpBlocks(p) \in Nat /\ OpBlocks(p) <= MAXOPBLOCKS
      /\ b \in Blocks /\ held \in [Procs -> SUBSET Blocks]
  <2>1. /\ pc' = pc /\ held' = [held EXCEPT ![p] = {}]
        /\ OpBlocks(p) \in Nat /\ OpBlocks(p) <= MAXOPBLOCKS
    BY LogAssumption DEF log_append, OpBlocks
  <2>2. held \in [Procs -> SUBSET Blocks] /\ b \in Blocks
    BY <1>0 DEF LogInv, LogTypes
  <2>3. pc[p] = "op" /\ MayWrite(p, b)
    BY <1>0 DEF ReserveInv
  <2>. QED
    BY <1>0, <2>1, <2>2, <2>3 DEF MayWrite
<1>2. lh \in Seq(Blocks) /\ touched \in [Procs -> SUBSET Blocks] /\ Len(lh) \in Nat
  BY DEF LogInv, LogTypes
<1>3. Logged(lh') = Logged(lh) \cup {b} /\ Len(lh') \in Nat /\ Len(lh') <= Len(lh) + 1
  <2>1. CASE b \in Logged(lh)
    BY <1>1, <1>2, <2>1
  <2>2. CASE b \notin Logged(lh)
    <3>1. /\ Len(lh') = Len(lh) + 1
          /\ \A i \in 1 .. Len(lh) : lh'[i] = lh[i]
          /\ lh'[Len(lh) + 1] = b
      BY <1>1, <1>2, <2>2
    <3>2. \A i : i \in 1 .. Len(lh') <=> i \in 1 .. Len(lh) \/ i = Len(lh) + 1
      BY <1>2, <3>1
    <3>. QED
      BY <1>2, <3>1, <3>2 DEF Logged
  <2>. QED
    BY <2>1, <2>2
<1>4. \A q \in Procs : touched'[q] = IF q = p THEN touched[p] \cup {b} ELSE touched[q]
  BY <1>1, <1>2
<1>5. IsFiniteSet(touched[p]) /\ IsFiniteSet(touched[p] \cup {b})
  BY FS_AddElement DEF ReserveInv
<1>6. InOp' = InOp /\ p \in InOp
  BY <1>1 DEF InOp
<1>7. LogReserved'
  <2>1. CASE b \in touched[p]
    <3>1. lh' = lh /\ touched' = touched
      BY <1>1, <1>2, <2>1 DEF ReserveInv
    <3>2. Reserved' = Reserved
      BY <1>6, <3>1, SMTT(30) DEF Reserved
    <3>. QED
      BY <1>2, <3>1, <3>2, ReservedShrinks DEF ReserveInv
  <2>2. CASE b \notin touched[p]
    <3>1. PICK c \in Nat : c = Cardinality(touched[p])
      BY <1>5, FS_CardinalityType
    <3>2. /\ Cardinality(touched[p] \cup {b}) = c + 1
          /\ c + 1 \in 1 .. MAXOPBLOCKS
          /\ c + 1 <= OpBlocks(p)
      <4>1. Cardinality(touched[p] \cup {b}) = Cardinality(touched[p]) + 1
        BY <1>5, <2>2, FS_AddElement
      <4>. QED
        BY <1>1, <3>1, <4>1, LogAssumption, SMTT(30)
    <3>3. <<p, c + 1>> \in Reserved
      <4>1. <<p, c + 1>> \in InOp \X (1 .. MAXOPBLOCKS)
        BY <1>6, <3>2
      <4>2. Cardinality(touched[p]) < c + 1 /\ c + 1 <= OpBlocks(p)
        BY <3>1, <3>2
      <4>. QED
        BY <4>1, <4>2 DEF Reserved
    <3>4. Reserved' \subseteq Reserved \ {<<p, c + 1>>}
      <4>1. SUFFICES ASSUME NEW q \in InOp, NEW k \in 1 .. MAXOPBLOCKS,
                            Cardinality(touched'[q]) < k
                     PROVE  /\ Cardinality(touched[q]) < k
                            /\ ~ (q = p /\ k = c + 1)
        BY <1>6 DEF Reserved, OpBlocks
      <4>2. CASE q = p
        <5>1. k > c + 1 /\ k \in Nat
          BY <1>4, <3>2, <4>1, <4>2, LogAssumption, SMTT(30) DEF InOp
        <5>. QED
          BY <3>1, <4>2, <5>1
      <4>3. CASE q # p
        BY <1>4, <4>1, <4>3 DEF InOp
      <4>. QED
        BY <4>2, <4>3
    <3>5. IsFiniteSet(Reserved) /\ Cardinality(Reserved) \in Nat
      BY ReservedBound
    <3>6. /\ IsFiniteSet(Reserved \ {<<p, c + 1>>})
          /\ Cardinality(Reserved \ {<<p, c + 1>>}) = Cardinality(Reserved) - 1
      BY <3>3, <3>5, FS_RemoveElement
    <3>7. /\ Cardinality(Reserved') <= Cardinality(Reserved \ {<<p, c + 1>>})
          /\ Cardinality(Reserved') \in Nat
      BY <3>4, <3>6, FS_Subset, FS_CardinalityType
    <3>8. Cardinality(Reserved') <= Cardinality(Reserved) - 1
      BY <3>6, <3>7
    <3>. QED
      BY <1>2, <1>3, <3>5, <3>7, <3>8, LogAssumption, SMTT(30) DEF LogReserved, ReserveInv
  <2>. QED
    BY <2>1, <2>2
<1>8. ASSUME NEW q \in Procs
      PROVE  /\ IsFiniteSet(touched'[q])
             /\ touched'[q] \subseteq Logged(lh')
             /\ pc'[q] # "op" => touched'[q] = {} /\ held'[q] = {}
             /\ \A x \in held'[q] : MayWrite(q, x)'
  <2>1. /\ IsFiniteSet(touched[q]) /\ touched[q] \subseteq Logged(lh)
        /\ pc[q] # "op" => touched[q] = {} /\ held[q] = {}
        /\ \A x \in held[q] : MayWrite(q, x)
    BY DEF ReserveInv
  <2>2. touched[p] \subseteq Logged(lh)
    BY SMTT(30) DEF ReserveInv
  <2>3. CASE q = p
    <3>1. touched'[p] = touched[p] \cup {b} /\ pc'[p] = "op" /\ held'[p] = {}
      BY <1>1, <1>4
    <3>2. touched[p] \cup {b} \subseteq Logged(lh')
      BY <1>3, <2>2
    <3>. QED
      BY <1>5, <2>3, <3>1, <3>2
  <2>4. CASE q # p
    <3>1. touched'[q] = touched[q] /\ held'[q] = held[q]
      BY <1>1, <1>4, <2>4
    <3>2. \A x : MayWrite(q, x)' <=> MayWrite(q, x)
      BY <3>1 DEF MayWrite
    <3>. QED
      BY <1>1, <1>3, <2>1, <3>1, <3>2
  <2>. QED
    BY <2>3, <2>4
<1>9. ReserveInv'
  BY <1>7, <1>8, SMTT(30) DEF ReserveInv, Logged
<1>10. Len(lh') <= LOGSIZE - 1
  <2>1. Cardinality(Reserved') \in Nat
    <3>1. Reserved' \subseteq InOp \X (1 .. MAXOPBLOCKS)
      BY <1>6 DEF Reserved
    <3>2. IsFiniteSet(InOp \X (1 .. MAXOPBLOCKS))
      <4>1. IsFiniteSet(1 .. MAXOPBLOCKS)
        BY LogAssumption, FS_Interval
      <4>2. IsFiniteSet(InOp)
        BY InOpFinite
      <4>. QED
        BY <4>1, <4>2, FS_Product, ZenonT(30)
    <3>. QED
      BY <3>1, <3>2, FS_Subset, FS_CardinalityType
  <2>. QED
    BY <1>3, <1>7, <2>1, LogAssumption DEF LogReserved
<1>. QED
  BY <1>1, <1>9, <1>10

\* A step that leaves the operations in progress and the log as they are.
LEMMA ReserveKept ==
  ASSUME LogInv, ReserveInv, UNCHANGED <<lh, pc, held, touched>>
  PROVE  ReserveInv'
<1>1. Reserved' = Reserved /\ Logged(lh)' = Logged(lh)
  BY DEF Reserved, InOp, Logged
<1>2. \A q \in Procs : \A x : MayWrite(q, x)' <=> MayWrite(q, x)
  BY DEF MayWrite
<1>. QED
  BY <1>1, <1>2 DEF ReserveInv, LogReserved

\* A step while no operation is in progress, or that ends all of them.
LEMMA NoneReserved ==
  ASSUME LogInv',
         \A p \in Procs : pc'[p] # "op" /\ touched'[p] = {} /\ held'[p] = {}
  PROVE  ReserveInv'
<1>1. Reserved' = {}
  BY SMTT(30) DEF Reserved, InOp
<1>2. Cardinality(Reserved') = 0 /\ IsFiniteSet({})
  BY <1>1, FS_EmptySet
<1>3. Len(lh') \in Nat /\ Len(lh') <= LOGSIZE - 1
  BY LogAssumption DEF LogInv, LogTypes
<1>4. LogReserved'
  BY <1>2, <1>3, LogAssumption DEF LogReserved
<1>5. \A p \in Procs : IsFiniteSet(touched'[p]) /\ touched'[p] \subseteq Logged(lh)'
  BY <1>2
<1>. QED
  BY <1>4, <1>5, Zenon DEF ReserveInv

\* end_op gives back the places of the operation.
LEMMA EndReserve ==
  ASSUME LogInv, ReserveInv, NEW p \in Procs, end_op(p)
  PROVE  ReserveInv'
<1>1. lh' = lh /\ touched' = [touched EXCEPT ![p] = {}] /\ Len(lh) \in Nat
      /\ touched \in [Procs -> SUBSET Blocks]
      /\ pc \in [Procs -> {"user", "begin_op", "asleep", "op"} \cup CommitSteps]
  BY DEF end_op, LogInv, LogTypes
<1>2. ASSUME NEW q \in Procs
      PROVE  (pc'[q] = "op") <=> (q # p /\ pc[q] = "op")
  BY <1>1, <1>2 DEF end_op, Woken
<1>3. InOp' = InOp \ {p}
  BY <1>2 DEF InOp
<1>4. Reserved' \subseteq Reserved
  <2>1. \A q \in InOp' : q \in InOp /\ touched'[q] = touched[q]
    BY <1>1, <1>3 DEF InOp
  <2>. QED
    BY <2>1 DEF Reserved
<1>5. LogReserved'
  BY <1>1, <1>4, ReservedShrinks DEF ReserveInv
<1>6. ASSUME NEW q \in Procs
      PROVE  /\ IsFiniteSet(touched'[q])
             /\ touched'[q] \subseteq Logged(lh')
             /\ pc'[q] # "op" => touched'[q] = {} /\ held'[q] = {}
             /\ \A x \in held'[q] : MayWrite(q, x)'
  <2>1. held' = held /\ held[p] = {}
    BY DEF end_op
  <2>2. CASE q = p
    BY <1>1, <2>1, <2>2, FS_EmptySet
  <2>3. CASE q # p
    <3>1. touched'[q] = touched[q]
      BY <1>1, <2>3
    <3>2. \A x : MayWrite(q, x)' <=> MayWrite(q, x)
      BY <3>1 DEF MayWrite
    <3>. QED
      BY <1>1, <1>2, <2>1, <2>3, <3>1, <3>2 DEF ReserveInv
  <2>. QED
    BY <2>2, <2>3
<1>. QED
  BY <1>5, <1>6 DEF ReserveInv

\* At boot no operation is in progress and the log is empty.
LEMMA ReserveInit ==
  ASSUME LogInit
  PROVE  ReserveInv
<1>1. /\ lh = << >> /\ touched = [p \in Procs |-> {}]
      /\ held = [p \in Procs |-> {}] /\ pc = [p \in Procs |-> "user"]
  BY DEF LogInit
<1>2. Reserved = {}
  BY <1>1 DEF Reserved, InOp
<1>3. Cardinality(Reserved) = 0 /\ IsFiniteSet({})
  BY <1>2, FS_EmptySet
<1>4. LogReserved
  BY <1>1, <1>3, LogAssumption DEF LogReserved
<1>. QED
  BY <1>1, <1>3, <1>4 DEF ReserveInv

\* Every step keeps the reservation.
LEMMA ReserveStep ==
  ASSUME LogInv, LogInv', ReserveInv, [LogNext]_logVars
  PROVE  ReserveInv'
<1>1. ASSUME NEW p \in Procs, commit(p) PROVE ReserveInv'
  <2>1. pc[p] \in CommitSteps /\ touched' = touched /\ held' = held
    BY <1>1 DEF commit, write_log, write_head, install_trans, InstallBlock,
       clear_head, ClearHead, committed, CommitSteps
  <2>2. InOp = {} /\ p \notin InOp
    BY <2>1, OneCommitter
  <2>3. \A q \in Procs : pc[q] # "op" /\ touched'[q] = {} /\ held'[q] = {}
    BY <2>1, <2>2, SMTT(30) DEF InOp, ReserveInv
  <2>4. \A q \in Procs : pc'[q] # "op"
    BY <1>1, <2>3, SMTT(30) DEF commit, write_log, write_head, install_trans, clear_head,
       committed, Woken, LogInv, LogTypes
  <2>. QED
    BY <2>3, <2>4, NoneReserved, SMTT(30)
<1>2. CASE recover_from_log
  <2>1. UNCHANGED <<pc, held, touched>> /\ ~Running
    BY <1>2 DEF recover_from_log, read_head, recover_install, InstallBlock,
       recover_clear, ClearHead, Running
  <2>2. \A q \in Procs : pc[q] = "user"
    BY <2>1 DEF LogInv, Recovery
  <2>. QED
    BY <2>1, <2>2, NoneReserved, Zenon DEF ReserveInv
<1>3. CASE crash
  BY <1>3, NoneReserved DEF crash
<1>4. ASSUME NEW p \in Procs, log_panic(p) PROVE ReserveInv'
  BY <1>4, ReserveKept DEF log_panic, memVars
<1>5. ASSUME NEW p \in Procs, NEW b \in Blocks, ReadBlock(p, b) PROVE ReserveInv'
  BY <1>5, ReserveKept DEF ReadBlock, memVars
<1>6. CASE UNCHANGED logVars
  BY <1>6, ReserveKept DEF logVars
<1>. QED
  BY <1>1, <1>2, <1>3, <1>4, <1>5, <1>6, BeginReserve, EndReserve,
     CheckReserve, AppendReserve
  DEF LogNext

-----------------------------------------------------------------------------
(* Theorems. *)

\* Every step keeps the invariant and is a step of the atomic disk, or hidden.
LEMMA LogNextStep ==
  ASSUME LogInv, ReserveInv, LogNext
  PROVE  LogInv' /\ (Atomic!AtomicNext \/ Hidden)
<1>1. ASSUME NEW p \in Procs, begin_op(p) \/ end_op(p)
      PROVE  LogInv' /\ (Atomic!AtomicNext \/ Hidden)
  BY <1>1, BeginInv, EndInv, Zenon DEF Atomic!AtomicNext
<1>2. ASSUME NEW p \in Procs, log_panic(p) \/ commit(p)
      PROVE  LogInv' /\ (Atomic!AtomicNext \/ Hidden)
  BY <1>2, PanicInv, WriteLogInv, WriteHeadInv, InstallInv, ClearHeadInv,
     CommittedInv, Zenon DEF commit, Atomic!AtomicNext
<1>3. ASSUME NEW p \in Procs, NEW b \in Blocks,
             ReadBlock(p, b) \/ log_write(p, b)
      PROVE  LogInv' /\ (Atomic!AtomicNext \/ Hidden)
  BY <1>3, ReadInv
<1>4. ASSUME NEW p \in Procs, NEW d \in Data, log_append(p, d)
      PROVE  LogInv' /\ (Atomic!AtomicNext \/ Hidden)
  <2>1. pc[p] = "op" /\ Len(lh') <= LOGSIZE - 1
    BY <1>4, AppendReserve
  <2>. QED
    BY <1>4, <2>1, AppendInv, Zenon DEF Atomic!AtomicNext
<1>5. CASE recover_from_log
  BY <1>5, RecoverInv
<1>6. CASE crash
  BY <1>6, CrashInv, Zenon DEF Atomic!AtomicNext
<1>. QED
  BY <1>1, <1>2, <1>3, <1>4, <1>5, <1>6, Zenon DEF LogNext

\* A step that changes nothing.
LEMMA LogStutter ==
  ASSUME LogInv, UNCHANGED logVars
  PROVE  LogInv' /\ Hidden
<1>1. UNCHANGED <<disk, logdisk, head, cache, dirty, lh, outstanding,
                  committing, tail, mode, pc, held, touched>>
  BY DEF logVars
<1>2. LogTypes' /\ Buffers' /\ Headers'
  BY <1>1 DEF LogInv, LogTypes, Buffers, Headers, Inj
<1>3. InOp' = InOp
  BY <1>1 DEF InOp
<1>4. Counted' /\ Alone' /\ SleeperHasWaker'
  <2>1. Counted' /\ SleeperHasWaker'
    BY <1>1, <1>3 DEF LogInv, Counted, SleeperHasWaker
  <2>2. Alone'
    BY <1>1 DEF LogInv, Alone
  <2>. QED
    BY <2>1, <2>2
<1>5. Stages'
  <2>1. Running' /\ ~committing' => Gathering'
    BY <1>1 DEF LogInv, Stages, Gathering, Running, Logged
  <2>2. ASSUME NEW p \in Procs PROVE Stage(p)'
    BY <1>1 DEF LogInv, Stages, Stage, Logged, Copied, Installed
  <2>. QED
    BY <2>1, <2>2 DEF Stages
<1>6. Recovery'
  BY <1>1 DEF LogInv, Recovery, Running, Installed
<1>7. Recovered' = Recovered
  BY <1>1, RecoveredKept DEF diskVars
<1>8. Seen' = Seen
  BY <1>1, <1>7 DEF Seen
<1>. QED
  BY <1>2, <1>3, <1>4, <1>5, <1>6, <1>7, <1>8 DEF LogInv, Hidden

\* LogInv and the reservation hold of every state log.c can reach, crashes
\* included.
THEOREM LogInvariance == LogSpec => [](LogInv /\ ReserveInv)
<1>1. LogInit => LogInv /\ ReserveInv
  BY LogInitInv, ReserveInit
<1>2. LogInv /\ ReserveInv /\ [LogNext]_logVars => LogInv' /\ ReserveInv'
  BY LogNextStep, LogStutter, ReserveStep
<1>. QED
  BY <1>1, <1>2, PTL DEF LogSpec

\* What begin_op has admitted fits in the log, with absorption and group
\* commit, although log_write tests the space without the lock: for any
\* number of processes and any log of more than MAXOPBLOCKS blocks.
THEOREM AdmittedFits == LogSpec => []LogReserved
<1>1. ReserveInv => LogReserved
  BY DEF ReserveInv
<1>. QED
  BY <1>1, LogInvariance, PTL

\* The log keeps its types; the header never outgrows lh.block.
THEOREM LogTypesKept == LogSpec => []LogTypeOK
<1>1. LogInv => LogTypeOK
  <2>1. SUFFICES ASSUME LogInv PROVE LogTypeOK
    OBVIOUS
  <2>2. /\ Cardinality(Procs) \in Nat
        /\ Cardinality(InOp) <= Cardinality(Procs)
        /\ Cardinality(InOp) \in Nat
    BY LogAssumption, InOpFinite, FS_Subset, FS_CardinalityType DEF InOp
  <2>3. outstanding \in 0 .. Cardinality(Procs)
    BY <2>1, <2>2 DEF LogInv, Counted
  <2>. QED
    BY <2>1, <2>3, LogAssumption DEF LogInv, LogTypes, LogTypeOK
<1>. QED
  BY <1>1, LogInvariance, PTL

\* Commits run one at a time, while no operation is in progress: end_op's
\* panic "log.committing" is unreachable.
THEOREM CommitAlone == LogSpec => []CommitsAlone
<1>1. LogInv => CommitsAlone
  <2>1. SUFFICES ASSUME LogInv PROVE CommitsAlone
    OBVIOUS
  <2>. DEFINE C == {p \in Procs : pc[p] \in CommitSteps}
  <2>2. committing <=> C # {}
    BY <2>1 DEF LogInv, Alone
  <2>3. committing => InOp = {}
    BY <2>1 DEF LogInv, Alone, InOp
  <2>4. ASSUME committing PROVE Cardinality(C) = 1
    <3>1. PICK p \in Procs : pc[p] \in CommitSteps
      BY <2>1, <2>4 DEF LogInv, Alone
    <3>2. C = {p}
      BY <2>1, <3>1 DEF LogInv, Alone
    <3>. QED
      BY <3>2, FS_Singleton
  <2>. QED
    BY <2>2, <2>3, <2>4 DEF CommitsAlone
<1>. QED
  BY <1>1, LogInvariance, PTL

\* After the last end_op everything written is on the disk for good.
THEOREM QuietLogDurable == LogSpec => []QuietDurable
<1>1. LogInv => QuietDurable
  <2>1. SUFFICES ASSUME LogInv, mode = "up", outstanding = 0, ~committing
                 PROVE  /\ Seen = Recovered /\ head = << >> /\ lh = << >>
                        /\ dirty = {}
    BY Zenon DEF QuietDurable
  <2>2. InOp = {}
    BY <2>1, InOpFinite, FS_EmptySet, Zenon DEF LogInv, Counted
  <2>3. head = << >> /\ lh = << >> /\ dirty = Logged(lh)
    BY <2>1, <2>2 DEF LogInv, Stages, Gathering, Running, InOp
  <2>4. dirty = {}
    BY <2>3 DEF Logged
  <2>5. Recovered = disk
    BY <2>1, <2>3, RecoveredEmpty DEF LogInv
  <2>6. Seen = disk
    BY <2>1, <2>4 DEF Seen, LogInv, LogTypes, Buffers
  <2>. QED
    BY <2>3, <2>4, <2>5, <2>6
<1>. QED
  BY <1>1, LogInvariance, PTL

\* begin_op never sleeps with nobody left to wake it.
THEOREM NoForgottenSleeper == LogSpec => []SleeperHasWaker
<1>1. LogInv => SleeperHasWaker
  BY DEF LogInv
<1>. QED
  BY <1>1, LogInvariance, PTL

\* log.c over bio.c implements the atomic disk, whatever the interleaving
\* and wherever the crashes fall, if at most one process has operations of
\* MAXOPBLOCKS blocks.
THEOREM LogImplementsAtomicDisk == LogSpec => OpsAtomic
<1>1. LogInit => Atomic!AtomicInit
  <2>1. SUFFICES ASSUME LogInit PROVE Atomic!AtomicInit
    OBVIOUS
  <2>2. LogTypes
    BY <2>1, LogInitInv DEF LogInv
  <2>3. Recovered = disk
    BY <2>1, <2>2, RecoveredEmpty DEF LogInit
  <2>4. Seen = Recovered
    BY <2>1 DEF LogInit, Seen
  <2>5. InOp = {}
    BY <2>1 DEF LogInit, InOp
  <2>6. disk \in [Blocks -> Data]
    BY <2>2 DEF LogTypes
  <2>. QED
    BY <2>3, <2>4, <2>5, <2>6 DEF Atomic!AtomicInit
<1>2. LogInv /\ ReserveInv /\ [LogNext]_logVars
        => [Atomic!AtomicNext]_(Atomic!atomicVars)
  <2>1. SUFFICES ASSUME LogInv, ReserveInv, [LogNext]_logVars
                 PROVE  Atomic!AtomicNext \/ Hidden
    BY DEF Hidden, Atomic!atomicVars
  <2>. QED
    BY <2>1, LogNextStep, LogStutter
<1>. QED
  BY <1>1, <1>2, LogInvariance, PTL DEF LogSpec, OpsAtomic, Atomic!AtomicSpec
==============================================================================
