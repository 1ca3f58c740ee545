------------------------------- MODULE XvProc -------------------------------
(***************************************************************************)
(* The process table of xv6 (hw09 proc.c), with the parts of trap.c that   *)
(* decide when a process exits or gives up its CPU.                         *)
(*                                                                         *)
(* ptable.lock is a variable, because sleep() takes it before it lets go   *)
(* of the caller's lock and the order matters; a section that takes and    *)
(* releases ptable.lock in one stretch is a single step that needs the     *)
(* lock free.  The scheduler of a CPU picks any RUNNABLE process: its scan *)
(* of the table starts wherever its last choice left it.                   *)
(*                                                                         *)
(* A process is its slot in the table.  What it runs between two calls of  *)
(* this module belongs to the module that extends it.                      *)
(***************************************************************************)
EXTENDS Integers, FiniteSets

CONSTANTS NPROC,    \* slots of the process table
          NCPU,     \* processors
          MaxPid    \* bound: fork() is not called once nextpid is past it

ASSUME ProcAssumption == /\ NPROC \in Nat \ {0}
                         /\ NCPU \in Nat \ {0}
                         /\ MaxPid \in Nat \ {0}

VARIABLES state,    \* p->state
          pid,      \* p->pid, 0 in a slot that wait() has emptied
          parent,   \* p->parent, a slot or 0
          killed,   \* p->killed
          chan,     \* p->chan
          nextpid,
          ptlock,   \* the process holding ptable.lock, or 0
          pc,       \* where the process is in the kernel
          kid,      \* np, the local variable of fork()
          exiting   \* the process has entered exit()

procVars == <<state, pid, parent, killed, chan, nextpid, ptlock, pc, kid,
              exiting>>

Procs == 1..NPROC
initproc == 1
NoProc == 0
ProcStates == {"UNUSED", "EMBRYO", "SLEEPING", "RUNNABLE", "RUNNING", "ZOMBIE"}

\* A sleep channel is an address: that of a process, or of a field.
NoChan == <<>>
ProcChan(p) == <<"proc", p>>

First(S) == CHOOSE p \in S : \A q \in S : p <= q

\* userinit(), once the first process is on a CPU and back from forkret().
ProcInit ==
  /\ state = [p \in Procs |-> IF p = initproc THEN "RUNNING" ELSE "UNUSED"]
  /\ pid = [p \in Procs |-> IF p = initproc THEN 1 ELSE 0]
  /\ parent = [p \in Procs |-> NoProc]
  /\ killed = [p \in Procs |-> FALSE]
  /\ chan = [p \in Procs |-> NoChan]
  /\ nextpid = 2
  /\ ptlock = NoProc
  /\ pc = [p \in Procs |-> IF p = initproc THEN "user" ELSE "none"]
  /\ kid = [p \in Procs |-> NoProc]
  /\ exiting = [p \in Procs |-> FALSE]

-----------------------------------------------------------------------------
(* Helpers.  OnCPU: only the process a CPU is running takes a step.        *)

OnCPU(p, at) == state[p] = "RUNNING" /\ pc[p] = at

Goto(p, at) == pc' = [pc EXCEPT ![p] = at]

\* The table lock is taken and released within the step.
LockFree == ptlock = NoProc /\ ptlock' = NoProc

\* A system call of a process that has not been killed (trap.c checks first).
Syscall(p) == OnCPU(p, "user") /\ ~killed[p]

\* wakeup1(): the states after every sleeper on ch has been made runnable.
wakeup1(st, ch) ==
  [q \in Procs |-> IF st[q] = "SLEEPING" /\ chan[q] = ch
                   THEN "RUNNABLE" ELSE st[q]]

\* wakeup(): wakeup1 under ptable.lock.
wakeup(ch) == LockFree /\ state' = wakeup1(state, ch)

-----------------------------------------------------------------------------
(* trap.c: a killed process exits on its way into or out of the kernel,    *)
(* and a clock tick makes the running process yield, in user mode or in    *)
(* the kernel wherever it holds no lock (interrupts are off under a lock). *)

TrapKilled(p) ==
  /\ OnCPU(p, "user") /\ killed[p]
  /\ Goto(p, "exit")
  /\ exiting' = [exiting EXCEPT ![p] = TRUE]
  /\ UNCHANGED <<state, pid, parent, killed, chan, nextpid, ptlock, kid>>

TrapReturn(p) ==
  /\ OnCPU(p, "ret")
  /\ Goto(p, IF killed[p] THEN "exit" ELSE "user")
  /\ exiting' = [exiting EXCEPT ![p] = killed[p]]
  /\ UNCHANGED <<state, pid, parent, killed, chan, nextpid, ptlock, kid>>

\* A clock tick that preempts only processes it finds in the kernel.
MutTickKernelOnly(p) ==
  /\ state[p] = "RUNNING" /\ pc[p] # "user" /\ LockFree
  /\ state' = [state EXCEPT ![p] = "RUNNABLE"]
  /\ UNCHANGED <<pid, parent, killed, chan, nextpid, pc, kid, exiting>>

yield(p) ==
  /\ state[p] = "RUNNING" /\ LockFree
  /\ state' = [state EXCEPT ![p] = "RUNNABLE"]
  /\ UNCHANGED <<pid, parent, killed, chan, nextpid, pc, kid, exiting>>

\* scheduler() switches to p, which returns from sched() still holding
\* ptable.lock: wait() goes on with its scan under it, the others drop it.
scheduler(p) ==
  /\ state[p] = "RUNNABLE"
  /\ Cardinality({q \in Procs : state[q] = "RUNNING"}) < NCPU
  /\ ptlock = NoProc
  /\ ptlock' = IF pc[p] = "waiting" THEN p ELSE NoProc
  /\ state' = [state EXCEPT ![p] = "RUNNING"]
  /\ chan' = [chan EXCEPT ![p] = NoChan]
  /\ UNCHANGED <<pid, parent, killed, nextpid, pc, kid, exiting>>

-----------------------------------------------------------------------------
(* fork(): allocproc() takes a slot under the lock; the kernel stack and   *)
(* the memory are copied without it, and either may fail; the child is     *)
(* made RUNNABLE under it.  A failed fork leaves the pid in the slot.      *)

\* ++nextpid for nextpid++.
MutPreIncrement(p) ==
  /\ Syscall(p) /\ LockFree
  /\ nextpid <= MaxPid
  /\ LET unused == {q \in Procs : state[q] = "UNUSED"} IN
     IF unused = {}
     THEN Goto(p, "ret") /\ UNCHANGED <<state, pid, nextpid, kid>>
     ELSE LET np == First(unused) IN
          /\ state' = [state EXCEPT ![np] = "EMBRYO"]
          /\ pid' = [pid EXCEPT ![np] = nextpid + 1]
          /\ nextpid' = nextpid + 1
          /\ kid' = [kid EXCEPT ![p] = np]
          /\ Goto(p, "fork")
  /\ UNCHANGED <<parent, killed, chan, exiting>>

\* Pids that start over without a look at those in use.
MutPidWraps(p) ==
  /\ Syscall(p) /\ LockFree
  /\ LET unused == {q \in Procs : state[q] = "UNUSED"} IN
     IF unused = {}
     THEN Goto(p, "ret") /\ UNCHANGED <<state, pid, nextpid, kid>>
     ELSE LET np == First(unused) IN
          /\ state' = [state EXCEPT ![np] = "EMBRYO"]
          /\ pid' = [pid EXCEPT ![np] = nextpid]
          /\ nextpid' = IF nextpid = MaxPid THEN 2 ELSE nextpid + 1
          /\ kid' = [kid EXCEPT ![p] = np]
          /\ Goto(p, "fork")
  /\ UNCHANGED <<parent, killed, chan, exiting>>

allocproc(p) ==
  /\ Syscall(p) /\ LockFree
  /\ nextpid <= MaxPid
  /\ LET unused == {q \in Procs : state[q] = "UNUSED"} IN
     IF unused = {}
     THEN Goto(p, "ret") /\ UNCHANGED <<state, pid, nextpid, kid>>
     ELSE LET np == First(unused) IN
          /\ state' = [state EXCEPT ![np] = "EMBRYO"]
          /\ pid' = [pid EXCEPT ![np] = nextpid]
          /\ nextpid' = nextpid + 1
          /\ kid' = [kid EXCEPT ![p] = np]
          /\ Goto(p, "fork")
  /\ UNCHANGED <<parent, killed, chan, exiting>>

ForkFails(p) ==
  /\ OnCPU(p, "fork")
  /\ state' = [state EXCEPT ![kid[p]] = "UNUSED"]
  /\ kid' = [kid EXCEPT ![p] = NoProc]
  /\ Goto(p, "ret")
  /\ UNCHANGED <<pid, parent, killed, chan, nextpid, ptlock, exiting>>

fork(p) ==
  /\ OnCPU(p, "fork") /\ LockFree
  /\ parent' = [parent EXCEPT ![kid[p]] = p]
  /\ state' = [state EXCEPT ![kid[p]] = "RUNNABLE"]
  /\ kid' = [kid EXCEPT ![p] = NoProc]
  /\ pc' = [pc EXCEPT ![p] = "ret", ![kid[p]] = "user"]
  /\ exiting' = [exiting EXCEPT ![kid[p]] = FALSE]
  /\ UNCHANGED <<pid, killed, chan, nextpid>>

-----------------------------------------------------------------------------
(* exit(), wait() and kill().                                              *)

sys_exit(p) ==
  /\ Syscall(p) /\ p # initproc
  /\ Goto(p, "exit")
  /\ exiting' = [exiting EXCEPT ![p] = TRUE]
  /\ UNCHANGED <<state, pid, parent, killed, chan, nextpid, ptlock, kid>>

\* An exit() that wakes init for its orphans but forgets its own parent.
MutForgetParent(p) ==
  /\ OnCPU(p, "exit") /\ LockFree
  /\ LET orphans == {q \in Procs : parent[q] = p}
         all == IF \E q \in orphans : state[q] = "ZOMBIE"
                THEN wakeup1(state, ProcChan(initproc)) ELSE state
     IN  /\ state' = [all EXCEPT ![p] = "ZOMBIE"]
         /\ parent' = [q \in Procs |-> IF q \in orphans THEN initproc
                                                        ELSE parent[q]]
  /\ Goto(p, "none")
  /\ UNCHANGED <<pid, killed, chan, nextpid, kid, exiting>>

\* An exit() that keeps its children.
MutKeepChildren(p) ==
  /\ OnCPU(p, "exit") /\ LockFree
  /\ state' = [wakeup1(state, ProcChan(parent[p])) EXCEPT ![p] = "ZOMBIE"]
  /\ Goto(p, "none")
  /\ UNCHANGED <<pid, parent, killed, chan, nextpid, kid, exiting>>

\* The part of exit() under ptable.lock, once the files are closed.
exit(p) ==
  /\ OnCPU(p, "exit") /\ LockFree
  /\ LET woken == wakeup1(state, ProcChan(parent[p]))
         orphans == {q \in Procs : parent[q] = p}
         all == IF \E q \in orphans : state[q] = "ZOMBIE"
                THEN wakeup1(woken, ProcChan(initproc)) ELSE woken
     IN  /\ state' = [all EXCEPT ![p] = "ZOMBIE"]
         /\ parent' = [q \in Procs |-> IF q \in orphans THEN initproc
                                                        ELSE parent[q]]
  /\ Goto(p, "none")
  /\ UNCHANGED <<pid, killed, chan, nextpid, kid, exiting>>

sys_wait(p) ==
  /\ Syscall(p)
  /\ Goto(p, "wait")
  /\ UNCHANGED <<state, pid, parent, killed, chan, nextpid, ptlock, kid,
                 exiting>>

\* One turn of the loop of wait(), all of it under ptable.lock.
wait(p) ==
  /\ \/ OnCPU(p, "wait") /\ ptlock = NoProc
     \/ OnCPU(p, "waiting") /\ ptlock = p
  /\ ptlock' = NoProc
  /\ LET kids == {q \in Procs : parent[q] = p}
         dead == {q \in kids : state[q] = "ZOMBIE"}
     IN  \/ /\ dead # {}
            /\ pid' = [pid EXCEPT ![First(dead)] = 0]
            /\ parent' = [parent EXCEPT ![First(dead)] = NoProc]
            /\ killed' = [killed EXCEPT ![First(dead)] = FALSE]
            /\ state' = [state EXCEPT ![First(dead)] = "UNUSED"]
            /\ Goto(p, "ret")
            /\ UNCHANGED chan
         \/ /\ dead = {} /\ (kids = {} \/ killed[p])
            /\ Goto(p, "ret")
            /\ UNCHANGED <<state, pid, parent, killed, chan>>
         \/ /\ dead = {} /\ kids # {} /\ ~killed[p]
            /\ chan' = [chan EXCEPT ![p] = ProcChan(p)]
            /\ state' = [state EXCEPT ![p] = "SLEEPING"]
            /\ Goto(p, "waiting")
            /\ UNCHANGED <<pid, parent, killed>>
  /\ UNCHANGED <<nextpid, kid, exiting>>

\* A kill() that leaves its victim asleep.
MutKillNoWake(p, victim) ==
  /\ Syscall(p) /\ LockFree
  /\ LET found == {q \in Procs : pid[q] = victim} IN
     killed' = IF found = {} THEN killed
               ELSE [killed EXCEPT ![First(found)] = TRUE]
  /\ Goto(p, "ret")
  /\ UNCHANGED <<state, pid, parent, chan, nextpid, kid, exiting>>

\* kill() that makes its victim runnable whether or not it is asleep.
MutKillRevives(p, victim) ==
  /\ Syscall(p) /\ LockFree
  /\ LET found == {q \in Procs : pid[q] = victim} IN
     IF found = {} THEN UNCHANGED <<state, killed>>
     ELSE /\ killed' = [killed EXCEPT ![First(found)] = TRUE]
          /\ state' = [state EXCEPT ![First(found)] = "RUNNABLE"]
  /\ Goto(p, "ret")
  /\ UNCHANGED <<pid, parent, chan, nextpid, kid, exiting>>

\* kill(): the first slot with that pid, whatever its state.
kill(p, victim) ==
  /\ Syscall(p) /\ LockFree
  /\ LET found == {q \in Procs : pid[q] = victim} IN
     IF found = {} THEN UNCHANGED <<state, killed>>
     ELSE /\ killed' = [killed EXCEPT ![First(found)] = TRUE]
          /\ state' = [state EXCEPT ![First(found)] =
                         IF @ = "SLEEPING" THEN "RUNNABLE" ELSE @]
  /\ Goto(p, "ret")
  /\ UNCHANGED <<pid, parent, chan, nextpid, kid, exiting>>

-----------------------------------------------------------------------------
(* sleep(chan, lk) with lk another lock than ptable.lock.  The caller's pc *)
(* is "sleep" when it calls; the module that owns lk conjoins what happens *)
(* to lk: nothing in SleepLock, its release in SleepRelease, its           *)
(* acquisition after "awake".                                              *)

\* A sleep() that gives up lk before it holds ptable.lock.
MutSleepLock(p) ==
  /\ OnCPU(p, "sleep") /\ UNCHANGED ptlock
  /\ Goto(p, "release")
  /\ UNCHANGED <<state, pid, parent, killed, chan, nextpid, kid, exiting>>

SleepLock(p) ==
  /\ OnCPU(p, "sleep")
  /\ ptlock = NoProc /\ ptlock' = p
  /\ Goto(p, "release")
  /\ UNCHANGED <<state, pid, parent, killed, chan, nextpid, kid, exiting>>

SleepRelease(p) ==
  /\ OnCPU(p, "release")
  /\ Goto(p, "block")
  /\ UNCHANGED <<state, pid, parent, killed, chan, nextpid, ptlock, kid,
                 exiting>>

\* sched() hands ptable.lock to the scheduler, which drops it.
SleepBlock(p, ch) ==
  /\ OnCPU(p, "block")
  /\ chan' = [chan EXCEPT ![p] = ch]
  /\ state' = [state EXCEPT ![p] = "SLEEPING"]
  /\ ptlock' = NoProc
  /\ Goto(p, "awake")
  /\ UNCHANGED <<pid, parent, killed, nextpid, kid, exiting>>

-----------------------------------------------------------------------------
(* The table by itself: processes that fork, exit, wait and kill.  The     *)
(* only sleep is that of wait().  Bound: nobody kills init, whose exit()   *)
(* panics by design.                                                       *)

Victims == (0..MaxPid) \ {1}

InCall(p) ==
  TrapKilled(p) \/ TrapReturn(p) \/ ForkFails(p) \/ fork(p) \/ exit(p) \/ wait(p)

ProcNext == \E p \in Procs :
  \/ scheduler(p) \/ yield(p)
  \/ allocproc(p) \/ sys_exit(p) \/ sys_wait(p)
  \/ \E victim \in Victims : kill(p, victim)
  \/ InCall(p)

\* A scheduler scans the whole table over and over, so a process that is
\* RUNNABLE again and again is run again and again; a process that has a CPU
\* again and again gets a kernel step done between two clock ticks, and the
\* clock goes on interrupting it.
ProcFairness == \A p \in Procs : /\ SF_procVars(scheduler(p))
                                 /\ SF_procVars(yield(p))
                                 /\ SF_procVars(InCall(p))

ProcSpec == ProcInit /\ [][ProcNext]_procVars /\ ProcFairness

-----------------------------------------------------------------------------
(* What the process table promises.                                        *)

ProcTypeOK ==
  /\ state \in [Procs -> ProcStates]
  /\ pid \in [Procs -> 0..MaxPid]
  /\ parent \in [Procs -> Procs \cup {NoProc}]
  /\ killed \in [Procs -> BOOLEAN]
  /\ nextpid \in 2..(MaxPid + 1)
  /\ ptlock \in Procs \cup {NoProc}
  /\ kid \in [Procs -> Procs \cup {NoProc}]
  /\ exiting \in [Procs -> BOOLEAN]

\* A parent is never asleep in wait() while one of its children is a zombie:
\* exit() wakes the parent, and init for the zombies it hands over.
ZombieNoticed ==
  \A q \in Procs : state[q] = "ZOMBIE" =>
    ~(state[parent[q]] = "SLEEPING" /\ chan[parent[q]] = ProcChan(parent[q]))

\* Every process but init has a parent that can still wait() for it: exit()
\* passes the children of an exiting process to init.
ParentsLive ==
  \A q \in Procs \ {initproc} :
    state[q] \in {"SLEEPING", "RUNNABLE", "RUNNING", "ZOMBIE"} =>
      /\ parent[q] \in Procs
      /\ state[parent[q]] \in {"SLEEPING", "RUNNABLE", "RUNNING"}

\* A process asleep in wait() has not been killed: wait() tests killed under
\* the lock that kill() sets it under, and kill() wakes a sleeper.
WaiterNotKilled ==
  \A p \in Procs : state[p] = "SLEEPING" /\ chan[p] = ProcChan(p) => ~killed[p]

\* No two processes have the same pid: the pid of a slot that a failed fork()
\* left behind is overwritten before the slot is used again.
PidsDistinct ==
  \A p, q \in Procs : p # q /\ state[p] # "UNUSED" /\ state[q] # "UNUSED"
                        => pid[p] # pid[q]

\* A slot leaves the state ZOMBIE only in the wait() of its parent, and the
\* parent's own slot is still in use.
ReapedByParent ==
  [][\A q \in Procs : state[q] = "ZOMBIE" /\ state'[q] # "ZOMBIE" =>
       /\ state'[q] = "UNUSED"
       /\ state[parent[q]] = "RUNNING" /\ pc[parent[q]] \in {"wait", "waiting"}
    ]_procVars

\* A process in wait() that has a zombie child returns from it.
WaitReturns ==
  \A p \in Procs :
    (/\ pc[p] \in {"wait", "waiting"}
     /\ \E q \in Procs : parent[q] = p /\ state[q] = "ZOMBIE")
    ~> pc[p] = "ret"

=============================================================================
