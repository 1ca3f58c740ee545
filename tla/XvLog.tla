------------------------------- MODULE XvLog -------------------------------
(***************************************************************************)
(* The write-ahead log of xv6 (log.c) over the buffer cache (bio.c):       *)
(* concurrent file-system operations, group commit, installation, and      *)
(* recovery after a crash at any point.                                    *)
(*                                                                         *)
(* A disk block write is one sector and is atomic (BSIZE is 512), so the   *)
(* steps of a commit are its calls of bwrite.  An operation writes a block *)
(* in two steps: bread and the tests of log_write, made without log.lock,  *)
(* and then the append to the header under it.  The buffer's sleep-lock is *)
(* held from one to the other, so the change of its contents, which nobody *)
(* can see before brelse, is part of the second.                           *)
(*                                                                         *)
(* Home blocks are cached; the buffers of the log's own blocks are not,    *)
(* because they are only used by the committing process, which writes each *)
(* one before it releases it.  The log is followed on the disk by the      *)
(* first inode block: a header of LOGSIZE blocks runs over into it.        *)
(***************************************************************************)
EXTENDS Integers, Sequences, FiniteSets, FiniteSetsExt

CONSTANTS
  Procs,        \* processes that make file-system calls
  Blocks,       \* home blocks: bitmap, inode and data blocks
  Data,         \* contents of a block
  NoBuf,        \* the block has no buffer
  inodestart,   \* the home block behind the log (mkfs.c)
  MAXOPBLOCKS,  \* blocks an operation may write (param.h)
  LOGSIZE,      \* blocks of the on-disk log, its header included (mkfs.c)
  FullOps       \* processes whose operations write MAXOPBLOCKS blocks; those
                \* of the others write fewer

ASSUME LogAssumption ==
  /\ IsFiniteSet(Procs) /\ FullOps \subseteq Procs
  /\ NoBuf \notin Data
  /\ inodestart \in Blocks
  /\ MAXOPBLOCKS \in Nat \ {0}
  /\ LOGSIZE \in Nat /\ LOGSIZE > MAXOPBLOCKS

VARIABLES
  disk,         \* home blocks on the disk
  logdisk,      \* the log's data blocks on the disk
  head,         \* the block numbers in the on-disk header
  cache,        \* contents of each block's buffer, or NoBuf
  dirty,        \* blocks whose buffer has B_DIRTY
  lh,           \* log.lh, the in-memory header
  outstanding,  \* log.outstanding
  committing,   \* log.committing
  tail,         \* loop counter of write_log and install_trans
  mode,         \* "up", "panic", or where recover_from_log is
  pc,           \* where each process is
  held,         \* the block a process is logging: it has passed log_write's
                \* tests, and holds the buffer until brelse
  touched       \* the blocks a process's operation has written

logVars == <<disk, logdisk, head, cache, dirty, lh, outstanding, committing,
             tail, mode, pc, held, touched>>
diskVars == <<disk, logdisk, head>>
bufVars == <<cache, dirty>>
memVars == <<lh, outstanding, committing>>

Slots == 1 .. LOGSIZE - 1
CommitSteps == {"write_log", "write_head", "install_trans", "clear_head",
                "committed"}
Logged(seq) == {seq[i] : i \in 1 .. Len(seq)}
Held == UNION {held[p] : p \in Procs}

\* What the disk has at log.start + i.
LogDisk(i) == IF i \in Slots THEN logdisk[i] ELSE disk[inodestart]

LogInit ==
  /\ disk \in [Blocks -> Data]
  /\ logdisk \in [Slots -> Data]
  /\ head = << >>
  /\ cache = [b \in Blocks |-> NoBuf]
  /\ dirty = {}
  /\ lh = << >>
  /\ outstanding = 0
  /\ committing = FALSE
  /\ tail = 0
  /\ mode = "read_head"
  /\ pc = [p \in Procs |-> "user"]
  /\ held = [p \in Procs |-> {}]
  /\ touched = [p \in Procs |-> {}]
-----------------------------------------------------------------------------
(* The buffer cache. *)

\* A cache that forgets that B_DIRTY pins a buffer.
MutRecycleDirty ==
  {[b \in Blocks |-> IF b \in old THEN NoBuf ELSE cache[b]] :
     old \in SUBSET (Blocks \ Held)}

\* bget recycles buffers that are neither in use nor dirty.  Which ones, and
\* whether they held home blocks, is up to the least-recently-used list.
Recycled ==
  {[b \in Blocks |-> IF b \in old THEN NoBuf ELSE cache[b]] :
     old \in SUBSET (Blocks \ (dirty \cup Held))}

\* bread fills the buffer of b from the disk unless it is valid.
Loaded(c, b) == IF c[b] = NoBuf THEN [c EXCEPT ![b] = disk[b]] ELSE c

\* The cache after bread(b).
Bread(b) ==
  {Loaded(c, b) : c \in IF cache[b] = NoBuf THEN Recycled ELSE {cache}}

\* A read through the cache, inside an operation or outside one (readi).
ReadBlock(p, b) ==
  /\ mode = "up"
  /\ pc[p] \in {"user", "op"}
  /\ cache[b] = NoBuf
  /\ cache' \in Bread(b)
  /\ UNCHANGED <<diskVars, dirty, memVars, tail, mode, pc, held, touched>>
-----------------------------------------------------------------------------
(* Operations. *)

\* A test of the log space that only counts operations in progress.
MutForgetLogged == (outstanding + 1) * MAXOPBLOCKS <= LOGSIZE

\* The log space begin_op wants before it admits an operation.
LogSpace == Len(lh) + (outstanding + 1) * MAXOPBLOCKS <= LOGSIZE

\* A begin_op that counts the operation before it waits.
MutCountEarly(p) ==
  /\ mode = "up"
  /\ pc[p] \in {"user", "begin_op"}
  /\ outstanding' = outstanding + 1
  /\ pc' = [pc EXCEPT ![p] = IF ~committing /\ LogSpace THEN "op"
                             ELSE "asleep"]
  /\ UNCHANGED <<diskVars, bufVars, lh, committing, tail, mode, held,
                 touched>>

\* A begin_op that does not wait for a commit.
MutJoinCommit(p) ==
  /\ mode = "up"
  /\ pc[p] \in {"user", "begin_op"}
  /\ IF LogSpace
     THEN /\ outstanding' = outstanding + 1
          /\ pc' = [pc EXCEPT ![p] = "op"]
     ELSE /\ pc' = [pc EXCEPT ![p] = "asleep"]
          /\ UNCHANGED outstanding
  /\ UNCHANGED <<diskVars, bufVars, lh, committing, tail, mode, held,
                 touched>>

\* One round of begin_op's loop, under log.lock.
begin_op(p) ==
  /\ mode = "up"
  /\ pc[p] \in {"user", "begin_op"}
  /\ IF ~committing /\ LogSpace
     THEN /\ outstanding' = outstanding + 1
          /\ pc' = [pc EXCEPT ![p] = "op"]
     ELSE /\ pc' = [pc EXCEPT ![p] = "asleep"]
          /\ UNCHANGED outstanding
  /\ UNCHANGED <<diskVars, bufVars, lh, committing, tail, mode, held,
                 touched>>

\* What the callers write in one operation.
OpBlocks(p) == IF p \in FullOps THEN MAXOPBLOCKS ELSE MAXOPBLOCKS - 1
MayWrite(p, b) == Cardinality(touched[p] \cup {b}) <= OpBlocks(p)

TooBig == Len(lh) >= LOGSIZE \/ Len(lh) >= LOGSIZE - 1

\* bread and the tests of log_write, which are made before it acquires
\* log.lock.
log_write(p, b) ==
  /\ mode = "up"
  /\ pc[p] = "op" /\ held[p] = {}
  /\ b \notin Held
  /\ MayWrite(p, b)
  /\ ~TooBig /\ outstanding >= 1
  /\ cache' \in Bread(b)
  /\ held' = [held EXCEPT ![p] = {b}]
  /\ UNCHANGED <<diskVars, dirty, memVars, tail, mode, pc, touched>>

\* The rest of log_write, under log.lock, and brelse.  Nothing is tested
\* again.
log_append(p, d) ==
  /\ mode = "up"
  /\ \E b \in held[p] :
       /\ cache' = [cache EXCEPT ![b] = d]
       /\ lh' = IF b \in Logged(lh) THEN lh ELSE Append(lh, b)
       /\ dirty' = dirty \cup {b}
       /\ touched' = [touched EXCEPT ![p] = @ \cup {b}]
  /\ held' = [held EXCEPT ![p] = {}]
  /\ UNCHANGED <<diskVars, outstanding, committing, tail, mode, pc>>

\* The tests of log_write and end_op that stop the machine.
log_panic(p) ==
  /\ mode = "up"
  /\ pc[p] = "op" /\ held[p] = {}
  /\ \/ committing
     \/ outstanding < 1
     \/ TooBig /\ \E b \in Blocks \ Held : MayWrite(p, b)
  /\ mode' = "panic"
  /\ UNCHANGED <<diskVars, bufVars, memVars, tail, pc, held, touched>>

\* wakeup(&log)
Woken(f) == [p \in Procs |-> IF f[p] = "asleep" THEN "begin_op" ELSE f[p]]

\* end_op up to the call of commit; commit returns at once when nothing was
\* written.
end_op(p) ==
  /\ mode = "up"
  /\ pc[p] = "op" /\ held[p] = {}
  /\ ~committing
  /\ outstanding' = outstanding - 1
  /\ IF outstanding' = 0
     THEN /\ committing' = TRUE
          /\ pc' = [pc EXCEPT ![p] = IF Len(lh) > 0 THEN "write_log"
                                     ELSE "committed"]
     ELSE /\ pc' = Woken([pc EXCEPT ![p] = "user"])
          /\ UNCHANGED committing
  /\ tail' = 0
  /\ touched' = [touched EXCEPT ![p] = {}]
  /\ UNCHANGED <<diskVars, bufVars, lh, mode, held>>
-----------------------------------------------------------------------------
(* Commit. *)

\* One round of write_log.  Behind the last slot it writes inodestart, and
\* its write clears B_DIRTY there; when the block to copy is inodestart
\* itself, its second bread sleeps for the lock that the first one took.
write_log(p) ==
  /\ mode = "up"
  /\ pc[p] = "write_log"
  /\ LET b == lh[tail + 1]
         fits == tail + 1 \in Slots
     IN  /\ ~fits => b # inodestart
         /\ \E c \in Recycled :
              cache' = [Loaded(c, b) EXCEPT
                          ![inodestart] = IF fits THEN @ ELSE Loaded(c, b)[b]]
         /\ logdisk' = [i \in Slots |-> IF i = tail + 1 THEN cache'[b] ELSE logdisk[i]]
         /\ disk' = [disk EXCEPT ![inodestart] = IF fits THEN @ ELSE cache'[b]]
         /\ dirty' = dirty \ (IF fits THEN {} ELSE {inodestart})
  /\ tail' = tail + 1
  /\ pc' = IF tail' = Len(lh) THEN [pc EXCEPT ![p] = "write_head"] ELSE pc
  /\ UNCHANGED <<head, memVars, mode, held, touched>>

\* The real commit.
write_head(p) ==
  /\ mode = "up"
  /\ pc[p] = "write_head"
  /\ cache' \in Recycled
  /\ head' = lh
  /\ tail' = 0
  /\ pc' = [pc EXCEPT ![p] = "install_trans"]
  /\ UNCHANGED <<disk, logdisk, dirty, memVars, mode, held, touched>>

\* One round of install_trans: the log block goes through the home block's
\* buffer to the disk, and the write clears B_DIRTY.
InstallBlock ==
  LET b == lh[tail + 1]
      d == LogDisk(tail + 1)
  IN  /\ \E c \in Recycled : cache' = [c EXCEPT ![b] = d]
      /\ disk' = [disk EXCEPT ![b] = d]
      /\ dirty' = dirty \ {b}
      /\ tail' = tail + 1
      /\ UNCHANGED <<logdisk, head, memVars, held, touched>>

install_trans(p) ==
  /\ mode = "up"
  /\ pc[p] = "install_trans"
  /\ InstallBlock
  /\ pc' = IF tail' = Len(lh) THEN [pc EXCEPT ![p] = "clear_head"] ELSE pc
  /\ UNCHANGED mode

\* A commit that does not erase the transaction from the disk.
MutNoErase ==
  /\ cache' \in Recycled
  /\ lh' = << >>
  /\ UNCHANGED <<diskVars, dirty, outstanding, committing, held, touched>>

\* log.lh.n = 0 and the second write_head.
ClearHead ==
  /\ cache' \in Recycled
  /\ lh' = << >>
  /\ head' = << >>
  /\ UNCHANGED <<disk, logdisk, dirty, outstanding, committing, held, touched>>

clear_head(p) ==
  /\ mode = "up"
  /\ pc[p] = "clear_head"
  /\ ClearHead
  /\ pc' = [pc EXCEPT ![p] = "committed"]
  /\ UNCHANGED <<tail, mode>>

\* An end_op without its last wakeup.
MutNoWakeup(p) ==
  /\ mode = "up"
  /\ pc[p] = "committed"
  /\ committing' = FALSE
  /\ pc' = [pc EXCEPT ![p] = "user"]
  /\ tail' = 0
  /\ UNCHANGED <<diskVars, bufVars, lh, outstanding, mode, held, touched>>

\* An end_op that wakes the sleepers only if something was written.
MutWakeIfWritten(p) ==
  /\ mode = "up"
  /\ pc[p] = "committed"
  /\ committing' = FALSE
  /\ pc' = IF tail = 0 THEN [pc EXCEPT ![p] = "user"]
           ELSE Woken([pc EXCEPT ![p] = "user"])
  /\ tail' = 0
  /\ UNCHANGED <<diskVars, bufVars, lh, outstanding, mode, held, touched>>

\* The end of end_op.
committed(p) ==
  /\ mode = "up"
  /\ pc[p] = "committed"
  /\ committing' = FALSE
  /\ pc' = Woken([pc EXCEPT ![p] = "user"])
  /\ tail' = 0
  /\ UNCHANGED <<diskVars, bufVars, lh, outstanding, mode, held, touched>>
-----------------------------------------------------------------------------
(* Crash and recovery. *)

\* The machine stops; memory is lost.
crash ==
  /\ cache' = [b \in Blocks |-> NoBuf]
  /\ dirty' = {}
  /\ lh' = << >>
  /\ outstanding' = 0
  /\ committing' = FALSE
  /\ tail' = 0
  /\ mode' = "read_head"
  /\ pc' = [p \in Procs |-> "user"]
  /\ held' = [p \in Procs |-> {}]
  /\ touched' = [p \in Procs |-> {}]
  /\ UNCHANGED diskVars

\* recover_from_log: read_head, install_trans, clear the header.
read_head ==
  /\ mode = "read_head"
  /\ lh' = head
  /\ mode' = IF Len(head) > 0 THEN "install" ELSE "clear"
  /\ UNCHANGED <<diskVars, bufVars, outstanding, committing, tail, pc,
                 held, touched>>

recover_install ==
  /\ mode = "install"
  /\ InstallBlock
  /\ mode' = IF tail' = Len(lh) THEN "clear" ELSE "install"
  /\ UNCHANGED pc

recover_clear ==
  /\ mode = "clear"
  /\ ClearHead
  /\ tail' = 0
  /\ mode' = "up"
  /\ UNCHANGED pc

recover_from_log == read_head \/ recover_install \/ recover_clear

commit(p) ==
  \/ write_log(p)
  \/ write_head(p)
  \/ install_trans(p)
  \/ clear_head(p)
  \/ committed(p)

LogNext ==
  \/ \E p \in Procs : begin_op(p) \/ end_op(p) \/ log_panic(p) \/ commit(p)
  \/ \E p \in Procs, b \in Blocks : ReadBlock(p, b) \/ log_write(p, b)
  \/ \E p \in Procs, d \in Data : log_append(p, d)
  \/ recover_from_log
  \/ crash

\* The scheduler keeps running the booting process, a committing one, and
\* one that has the log's lock before it; and an operation is straight-line
\* code, which writes a finite number of times and then reaches its end_op.
LogFairness ==
  /\ WF_logVars(recover_from_log)
  /\ \A p \in Procs : /\ WF_logVars(commit(p))
                      /\ WF_logVars(\E d \in Data : log_append(p, d))
                      /\ SF_logVars(end_op(p))

LogSpec == LogInit /\ [][LogNext]_logVars /\ LogFairness
-----------------------------------------------------------------------------
(* Properties. *)

LogTypeOK ==
  /\ disk \in [Blocks -> Data]
  /\ logdisk \in [Slots -> Data]
  /\ head \in Seq(Blocks) /\ Len(head) <= LOGSIZE
  /\ cache \in [Blocks -> Data \cup {NoBuf}]
  /\ dirty \subseteq Blocks
  /\ lh \in Seq(Blocks) /\ Len(lh) <= LOGSIZE
  /\ outstanding \in 0 .. Cardinality(Procs)
  /\ committing \in BOOLEAN
  /\ tail \in 0 .. LOGSIZE
  /\ mode \in {"up", "panic", "read_head", "install", "clear"}
  /\ pc \in [Procs -> {"user", "begin_op", "asleep", "op"} \cup CommitSteps]
  /\ held \in [Procs -> SUBSET Blocks]
  /\ touched \in [Procs -> SUBSET Blocks]

\* What a reboot would make of the disk: blocks of a written header come from
\* the log.
Recovered ==
  [b \in Blocks |->
     IF b \in Logged(head)
     THEN LogDisk(CHOOSE i \in 1 .. Len(head) : head[i] = b)
     ELSE disk[b]]

\* What a read returns: nobody reads before recovery is over.
Seen ==
  IF mode \in {"up", "panic"}
  THEN [b \in Blocks |-> IF cache[b] = NoBuf THEN disk[b] ELSE cache[b]]
  ELSE Recovered

InOp == {p \in Procs : pc[p] = "op"}

Atomic == INSTANCE AtomicDisk
  WITH stable <- Recovered, current <- Seen, active <- InOp

\* Every step of the log, of the cache, of a crash and of recovery is a step
\* of the atomic disk or invisible to it: operations reach the disk whole and
\* reads see the latest write (commit, install_trans, recover_from_log, and
\* bget, which must not recycle a dirty buffer).
OpsAtomic == Atomic!AtomicSpec

\* A commit runs while no operation is in progress, and only one runs
\* (log.c: "only commits when there are no FS system calls active").
CommitsAlone ==
  LET Committers == {p \in Procs : pc[p] \in CommitSteps}
  IN  /\ committing <=> Committers # {}
      /\ committing => InOp = {} /\ Cardinality(Committers) = 1

\* When end_op has returned for the last operation, everything written is on
\* the disk for good and the log is empty.
QuietDurable ==
  mode = "up" /\ outstanding = 0 /\ ~committing =>
    Seen = Recovered /\ head = << >> /\ lh = << >> /\ dirty = {}

\* A process asleep in begin_op is never forgotten: an operation or a commit
\* is still in progress whose end will wake it.
SleeperHasWaker ==
  (\E p \in Procs : pc[p] = "asleep") => committing \/ InOp # {}

\* A process asleep in begin_op is woken, unless the machine has panicked.
SleepersWake ==
  \A p \in Procs : pc[p] = "asleep" ~> pc[p] # "asleep" \/ mode = "panic"
=============================================================================
