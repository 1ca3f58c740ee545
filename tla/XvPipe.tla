------------------------------- MODULE XvPipe -------------------------------
(***************************************************************************)
(* xv6 processes sharing a pipe: pipe.c, the reference counts of file.c    *)
(* that close it, and the process table underneath (XvProc).               *)
(*                                                                         *)
(* The processes are those a shell has forked around a pipe: each of them   *)
(* reads, writes, closes an end, kills another or exits, in any order.      *)
(* There are as many CPUs as processes and no clock tick, which loses no    *)
(* interleaving: a preempted process is one whose CPU takes its time.       *)
(*                                                                         *)
(* The counters nread and nwrite are unsigned integers that wrap: the      *)
(* model keeps them modulo Wrap, a multiple of PIPESIZE as 2^32 is.  The   *)
(* code never looks at a byte, so the bytes written are numbered: byte     *)
(* number k carries k, and one out of place shows.                         *)
(***************************************************************************)
EXTENDS XvProc

CONSTANTS PIPESIZE,
          Wrap,      \* 2^32 in the code
          Lengths,   \* the sizes n of a read() or a write()
          Sharing    \* who may hold which end to begin with

ASSUME PipeAssumption == /\ PIPESIZE \in Nat \ {0}
                         /\ Wrap \in Nat
                         /\ Wrap > PIPESIZE
                         /\ Wrap % PIPESIZE = 0
                         /\ Lengths \subseteq Nat
                         /\ Sharing \subseteq [Procs -> SUBSET {"r", "w"}]

VARIABLES plock,      \* the process holding p->lock, or 0
          nread, nwrite, data,
          readopen, writeopen,
          live,       \* the page of the pipe is allocated
          ref,        \* f->ref of the files of the two ends
          ofile,      \* the ends a process has open
          op,         \* the call a process is in
          left,       \* bytes it has still to copy
          got,        \* the byte copied last by the read holding the lock
          deserted    \* a killed writer left a full pipe and woke nobody

bufVars == <<nread, nwrite, data, got, deserted>>
openVars == <<readopen, writeopen, live, ref, ofile>>
pipeVars == <<plock, nread, nwrite, data, readopen, writeopen, live, ref,
              ofile, op, left, got, deserted>>
vars == <<procVars, pipeVars>>

Ends == {"r", "w"}
NoByte == -1
NreadChan == <<"nread">>
NwriteChan == <<"nwrite">>

\* After pipe() and the forks, with every process on a CPU in user mode.
Init ==
  /\ state = [p \in Procs |-> "RUNNING"]
  /\ pid = [p \in Procs |-> p]
  /\ parent = [p \in Procs |-> IF p = initproc THEN NoProc ELSE initproc]
  /\ killed = [p \in Procs |-> FALSE]
  /\ chan = [p \in Procs |-> NoChan]
  /\ nextpid = NPROC + 1
  /\ ptlock = NoProc
  /\ pc = [p \in Procs |-> "user"]
  /\ kid = [p \in Procs |-> NoProc]
  /\ exiting = [p \in Procs |-> FALSE]
  /\ plock = NoProc
  /\ nread = 0 /\ nwrite = 0
  /\ data = [i \in 0..(PIPESIZE - 1) |-> 0]
  /\ ofile \in Sharing
  /\ ref = [e \in Ends |-> Cardinality({p \in Procs : e \in ofile[p]})]
  /\ \A e \in Ends : ref[e] > 0
  /\ readopen = TRUE /\ writeopen = TRUE /\ live = TRUE
  /\ op = [p \in Procs |-> "none"]
  /\ left = [p \in Procs |-> 0]
  /\ got = NoByte
  /\ deserted = FALSE

Empty == nread = nwrite

\* One byte too many fits.
MutFull == nwrite = (nread + PIPESIZE + 1) % Wrap

Full == nwrite = (nread + PIPESIZE) % Wrap

-----------------------------------------------------------------------------
(* pipewrite().                                                            *)

StartCall(p, name, n, at) ==
  /\ Syscall(p)
  /\ op' = [op EXCEPT ![p] = name]
  /\ left' = [left EXCEPT ![p] = n]
  /\ Goto(p, at)
  /\ UNCHANGED <<state, pid, parent, killed, chan, nextpid, ptlock, kid,
                 exiting, plock, bufVars, openVars>>

sys_write(p, n) == "w" \in ofile[p] /\ StartCall(p, "write", n, "lock")
sys_read(p, n) == "r" \in ofile[p] /\ StartCall(p, "read", n, "lock")

\* acquire(&p->lock), on entry and at the end of sleep().
AcquirePipe(p) ==
  /\ OnCPU(p, "lock") \/ OnCPU(p, "awake")
  /\ plock = NoProc /\ plock' = p
  /\ Goto(p, op[p])
  /\ UNCHANGED <<state, pid, parent, killed, chan, nextpid, ptlock, kid,
                 exiting, bufVars, openVars, op, left>>

\* release(&p->lock) and return from the call.
ReturnFrom(p) ==
  /\ plock' = NoProc
  /\ op' = [op EXCEPT ![p] = "none"]
  /\ left' = [left EXCEPT ![p] = 0]
  /\ Goto(p, "ret")

PutByte(p) ==
  /\ OnCPU(p, "write") /\ left[p] > 0 /\ ~Full
  /\ data' = [data EXCEPT ![nwrite % PIPESIZE] = nwrite]
  /\ nwrite' = (nwrite + 1) % Wrap
  /\ left' = [left EXCEPT ![p] = @ - 1]
  /\ UNCHANGED <<procVars, plock, nread, openVars, op, got, deserted>>

WriteGivesUp(p) ==
  /\ OnCPU(p, "write") /\ left[p] > 0 /\ Full
  /\ ~readopen \/ killed[p]
  /\ deserted' = (deserted \/ readopen)
  /\ ReturnFrom(p)
  /\ UNCHANGED <<state, pid, parent, killed, chan, nextpid, ptlock, kid,
                 exiting, nread, nwrite, data, got, openVars>>

\* wakeup(&p->nread), then into sleep(&p->nwrite, &p->lock).
WriteWaits(p) ==
  /\ OnCPU(p, "write") /\ left[p] > 0 /\ Full
  /\ readopen /\ ~killed[p]
  /\ wakeup(NreadChan) /\ deserted' = FALSE
  /\ Goto(p, "sleep")
  /\ UNCHANGED <<pid, parent, killed, chan, nextpid, kid, exiting, plock,
                 nread, nwrite, data, got, openVars, op, left>>

WriteDone(p) ==
  /\ OnCPU(p, "write") /\ left[p] = 0
  /\ wakeup(NreadChan) /\ deserted' = FALSE
  /\ ReturnFrom(p)
  /\ UNCHANGED <<pid, parent, killed, chan, nextpid, kid, exiting, nread,
                 nwrite, data, got, openVars>>

-----------------------------------------------------------------------------
(* piperead(): waits while the pipe is empty and may still be written, and *)
(* then copies what there is.                                              *)

ReadGivesUp(p) ==
  /\ OnCPU(p, "read") /\ Empty /\ writeopen /\ killed[p]
  /\ ReturnFrom(p)
  /\ UNCHANGED <<state, pid, parent, killed, chan, nextpid, ptlock, kid,
                 exiting, bufVars, openVars>>

ReadWaits(p) ==
  /\ OnCPU(p, "read") /\ Empty /\ writeopen /\ ~killed[p]
  /\ Goto(p, "sleep")
  /\ UNCHANGED <<state, pid, parent, killed, chan, nextpid, ptlock, kid,
                 exiting, pipeVars>>

ReadStarts(p) ==
  /\ OnCPU(p, "read") /\ ~(Empty /\ writeopen)
  /\ Goto(p, "copy")
  /\ UNCHANGED <<state, pid, parent, killed, chan, nextpid, ptlock, kid,
                 exiting, pipeVars>>

\* A counter that does not wrap.
MutNoWrap(p) ==
  /\ OnCPU(p, "copy") /\ left[p] > 0 /\ ~Empty
  /\ got' = data[nread % PIPESIZE]
  /\ nread' = nread + 1
  /\ left' = [left EXCEPT ![p] = @ - 1]
  /\ UNCHANGED <<procVars, plock, nwrite, data, deserted, openVars,
                 op>>

TakeByte(p) ==
  /\ OnCPU(p, "copy") /\ left[p] > 0 /\ ~Empty
  /\ got' = data[nread % PIPESIZE]
  /\ nread' = (nread + 1) % Wrap
  /\ left' = [left EXCEPT ![p] = @ - 1]
  /\ UNCHANGED <<procVars, plock, nwrite, data, deserted, openVars,
                 op>>

ReadDone(p) ==
  /\ OnCPU(p, "copy") /\ (left[p] = 0 \/ Empty)
  /\ wakeup(NwriteChan)
  /\ ReturnFrom(p)
  /\ got' = NoByte
  /\ UNCHANGED <<pid, parent, killed, chan, nextpid, kid, exiting, nread,
                 nwrite, data, deserted, openVars>>

-----------------------------------------------------------------------------
(* sleep() on the pipe's lock.                                             *)

SleepChan(p) == IF op[p] = "read" THEN NreadChan ELSE NwriteChan

PipeSleepLock(p) == SleepLock(p) /\ UNCHANGED pipeVars

PipeSleepRelease(p) ==
  /\ SleepRelease(p)
  /\ plock' = NoProc
  /\ UNCHANGED <<bufVars, openVars, op, left>>

PipeSleepBlock(p) == SleepBlock(p, SleepChan(p)) /\ UNCHANGED pipeVars

-----------------------------------------------------------------------------
(* fileclose() of an end, from close() or from exit(): the last reference  *)
(* goes on to pipeclose(), which shuts the end under the pipe's lock, wakes *)
(* the processes waiting for the other end and frees a pipe with no end    *)
(* open.                                                                   *)

fileclose(p, e) ==
  /\ e \in ofile[p]
  /\ \/ Syscall(p)
     \/ OnCPU(p, "exit")
  /\ ofile' = [ofile EXCEPT ![p] = @ \ {e}]
  /\ ref' = [ref EXCEPT ![e] = @ - 1]
  /\ IF ref[e] = 1
     THEN op' = [op EXCEPT ![p] = e] /\ Goto(p, "pipeclose")
     ELSE UNCHANGED op /\ Goto(p, IF exiting[p] THEN "exit" ELSE "ret")
  /\ UNCHANGED <<state, pid, parent, killed, chan, nextpid, ptlock, kid,
                 exiting, plock, bufVars, readopen, writeopen, live, left>>

\* acquire(&p->lock) and the flag.
PipeCloseEnd(p) ==
  /\ OnCPU(p, "pipeclose")
  /\ plock = NoProc /\ plock' = p
  /\ IF op[p] = "w" THEN writeopen' = FALSE /\ UNCHANGED readopen
                    ELSE readopen' = FALSE /\ UNCHANGED writeopen
  /\ Goto(p, "closed")
  /\ UNCHANGED <<state, pid, parent, killed, chan, nextpid, ptlock, kid,
                 exiting, bufVars, live, ref, ofile, op, left>>

\* A pipeclose() that frees the pipe with its first end.
MutFreeEarly(p) ==
  /\ OnCPU(p, "closed")
  /\ wakeup(IF op[p] = "w" THEN NreadChan ELSE NwriteChan)
  /\ plock' = NoProc
  /\ live' = (readopen /\ writeopen)
  /\ deserted' = (deserted /\ op[p] = "r")
  /\ op' = [op EXCEPT ![p] = "none"]
  /\ Goto(p, IF exiting[p] THEN "exit" ELSE "ret")
  /\ UNCHANGED <<pid, parent, killed, chan, nextpid, kid, exiting, nread,
                 nwrite, data, got, readopen, writeopen, ref, ofile, left>>

\* The wakeup, the release and the kfree().
PipeCloseWake(p) ==
  /\ OnCPU(p, "closed")
  /\ wakeup(IF op[p] = "w" THEN NreadChan ELSE NwriteChan)
  /\ plock' = NoProc
  /\ live' = (readopen \/ writeopen)
  /\ deserted' = (deserted /\ op[p] = "r")
  /\ op' = [op EXCEPT ![p] = "none"]
  /\ Goto(p, IF exiting[p] THEN "exit" ELSE "ret")
  /\ UNCHANGED <<pid, parent, killed, chan, nextpid, kid, exiting, nread,
                 nwrite, data, got, readopen, writeopen, ref, ofile, left>>

-----------------------------------------------------------------------------
(* The process table.                                                      *)

\* exit() takes ptable.lock once every file is closed.
PipeExit(p) == ofile[p] = {} /\ exit(p) /\ UNCHANGED pipeVars

PipeProcStep(p) ==
  /\ \/ TrapKilled(p) \/ TrapReturn(p) \/ sys_exit(p) \/ scheduler(p)
     \/ \E victim \in 2..NPROC : kill(p, victim)
  /\ UNCHANGED pipeVars

\* What a process does by itself once it is inside a call.
InPipeCall(p) ==
  \/ AcquirePipe(p)
  \/ PutByte(p) \/ WriteGivesUp(p) \/ WriteWaits(p) \/ WriteDone(p)
  \/ ReadGivesUp(p) \/ ReadWaits(p) \/ ReadStarts(p) \/ TakeByte(p)
  \/ ReadDone(p)
  \/ PipeSleepLock(p) \/ PipeSleepRelease(p) \/ PipeSleepBlock(p)
  \/ PipeCloseEnd(p) \/ PipeCloseWake(p)

PipeStep(p) ==
  \/ PipeProcStep(p) \/ PipeExit(p)
  \/ \E n \in Lengths : sys_write(p, n) \/ sys_read(p, n)
  \/ \E e \in Ends : fileclose(p, e)
  \/ InPipeCall(p)

Next == \E p \in Procs : PipeStep(p)

Spec == Init /\ [][Next]_vars

-----------------------------------------------------------------------------
(* What the pipe promises.                                                 *)

PipeTypeOK ==
  /\ plock \in Procs \cup {NoProc} /\ ptlock \in Procs \cup {NoProc}
  /\ nread \in 0..(Wrap - 1) /\ nwrite \in 0..(Wrap - 1)
  /\ data \in [0..(PIPESIZE - 1) -> 0..(Wrap - 1)]
  /\ readopen \in BOOLEAN /\ writeopen \in BOOLEAN /\ live \in BOOLEAN
  /\ ref \in [Ends -> Nat]
  /\ ofile \in [Procs -> SUBSET Ends]
  /\ left \in [Procs -> Nat]
  /\ state \in [Procs -> ProcStates] /\ killed \in [Procs -> BOOLEAN]

\* The processes that are committed to sleep, or asleep, in a call.
Waiting(p, call) ==
  /\ op[p] = call
  /\ pc[p] = "block" \/ (pc[p] = "awake" /\ state[p] = "SLEEPING")

\* The holder of the pipe's lock is going to call wakeup() for them.
ReadersToBeWoken == /\ plock \in Procs
                    /\ \/ pc[plock] = "write"
                       \/ pc[plock] = "closed" /\ op[plock] = "w"
WritersToBeWoken == /\ plock \in Procs
                    /\ \/ pc[plock] = "copy"
                       \/ pc[plock] = "closed" /\ op[plock] = "r"

ReaderServed(p) == Waiting(p, "read") =>
                     (Empty /\ writeopen) \/ ReadersToBeWoken \/ deserted
WriterServed(p) == Waiting(p, "write") =>
                     (Full /\ readopen) \/ WritersToBeWoken

\* No wakeup is missed.  A process stays asleep in piperead() only while the
\* pipe is empty and open for writing, in pipewrite() only while it is full
\* and open for reading, or else the process that holds the pipe's lock is
\* about to wake it.  The one exception is the early return of pipewrite(): a
\* killed writer leaves the bytes it wrote without waking the readers.
NoMissedWakeup == \A p \in Procs : ReaderServed(p) /\ WriterServed(p)

\* The pipe is freed only once no process can reach it: the reference counts
\* of the two files count the processes that hold them, and a process inside
\* piperead(), pipewrite() or pipeclose() finds the pipe allocated.
PipeOutlivesUsers ==
  /\ \A e \in Ends : ref[e] = Cardinality({p \in Procs : e \in ofile[p]})
  /\ \A p \in Procs : op[p] # "none" \/ ofile[p] # {} => live

\* The circular buffer and its wrapping counters behave as a bounded queue.
Fifo == INSTANCE AbstractPipe
          WITH Bytes <- 0..(Wrap - 1), Capacity <- PIPESIZE,
               queue <- [i \in 1..((nwrite + Wrap - nread) % Wrap) |->
                           data[(nread + i - 1) % PIPESIZE]]

ImplementsFifo == Fifo!Spec

=============================================================================
