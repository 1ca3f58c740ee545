---------------------------- MODULE XvProcProofs ----------------------------
(***************************************************************************)
(* Proofs about the xv6 process table for any number of slots and CPUs.    *)
(***************************************************************************)
EXTENDS XvProc, WellFoundedInduction, TLAPS

\* A loop over the table that stops at the first match finds a slot of the
\* set it looks for.
LEMMA FirstIn ==
  ASSUME NEW S \in SUBSET Procs, S # {}
  PROVE  First(S) \in S
  <1>1. S \subseteq Nat
    BY ProcAssumption DEF Procs
  <1>2. PICK x \in S : \A y \in S : ~(<<y, x>> \in OpToRel(<, Nat))
    BY <1>1, NatLessThanWellFounded, WFMin
  <1>3. \A y \in S : x <= y
    <2> SUFFICES ASSUME NEW y \in S, y < x PROVE FALSE
      BY <1>1
    <2>1. <<y, x>> \in Nat \X Nat /\ <<y, x>>[1] < <<y, x>>[2]
      BY <1>1
    <2>2. <<y, x>> \in OpToRel(<, Nat)
      BY <2>1, Zenon DEF OpToRel
    <2> QED BY <1>2, <2>2
  <1> QED BY <1>3 DEF First

\* init is a slot, and 0 is not one.
LEMMA InitIn == initproc \in Procs /\ NoProc \notin Procs
  BY ProcAssumption DEF initproc, NoProc, Procs

-----------------------------------------------------------------------------
(* The inductive invariant.                                                *)

Live == {"SLEEPING", "RUNNABLE", "RUNNING"}
PCs == {"none", "user", "ret", "fork", "exit", "wait", "waiting"}

\* init is always there to adopt orphans: nothing kills it.
InitLives == /\ state[initproc] \in Live
             /\ pid[initproc] = 1
             /\ ~killed[initproc]
             /\ pc[initproc] \notin {"exit", "none"}

\* The slot a fork() is filling is an EMBRYO of its own.
Embryos ==
  /\ \A p \in Procs : pc[p] = "fork" =>
       /\ kid[p] \in Procs
       /\ state[kid[p]] = "EMBRYO"
  /\ \A p, q \in Procs : p # q /\ pc[p] = "fork" /\ pc[q] = "fork"
                           => kid[p] # kid[q]

\* The only sleep is that of wait(), on the process's own address.
Sleepers ==
  \A p \in Procs : state[p] = "SLEEPING" =>
    pc[p] = "waiting" /\ chan[p] = ProcChan(p) /\ ~killed[p]

\* init has no parent, and no process is its own.
NoSelfParent == /\ parent[initproc] = NoProc
                /\ \A p \in Procs : parent[p] # p

PidsBelow == \A p \in Procs : pid[p] < nextpid

TableInv ==
  /\ ProcTypeOK
  /\ pc \in [Procs -> PCs]
  /\ DOMAIN chan = Procs
  /\ InitLives
  /\ Embryos
  /\ Sleepers
  /\ NoSelfParent
  /\ PidsBelow
  /\ PidsDistinct
  /\ ParentsLive
  /\ ZombieNoticed

\* userinit() leaves a table that satisfies the invariant.
LEMMA InitInv == ProcInit => TableInv
  <1> USE ProcAssumption DEF Procs, initproc, NoProc
  <1> SUFFICES ASSUME ProcInit PROVE TableInv
    OBVIOUS
  <1>1. ProcTypeOK /\ pc \in [Procs -> PCs] /\ DOMAIN chan = Procs
    BY DEF ProcInit, ProcTypeOK, ProcStates, PCs
  <1>2. InitLives /\ Embryos /\ Sleepers /\ PidsBelow /\ NoSelfParent
    BY DEF ProcInit, NoSelfParent, InitLives, Embryos, Sleepers, PidsBelow,
       Live
  <1>3. PidsDistinct /\ ParentsLive /\ ZombieNoticed
    BY DEF ProcInit, PidsDistinct, ParentsLive, ZombieNoticed
  <1> QED BY <1>1, <1>2, <1>3 DEF TableInv

\* trap(): a killed process turns to exit().
LEMMA TrapKilledInv ==
  ASSUME TableInv, NEW p \in Procs, TrapKilled(p)
  PROVE  TableInv'
  <1> USE DEF TrapKilled, OnCPU, Goto
  <1>1. (ProcTypeOK /\ pc \in [Procs -> PCs] /\ DOMAIN chan = Procs)'
    BY DEF TableInv, ProcTypeOK, ProcStates, PCs
  <1>2. InitLives'
    BY DEF TableInv, ProcTypeOK, ProcStates, PCs, InitLives, Live
  <1>3. Embryos'
    BY DEF TableInv, ProcTypeOK, ProcStates, PCs, Embryos
  <1>4. Sleepers'
    BY DEF TableInv, ProcTypeOK, ProcStates, PCs, Sleepers
  <1>5. NoSelfParent' /\ PidsBelow' /\ PidsDistinct'
    BY DEF TableInv, ProcTypeOK, ProcStates, PCs, PidsBelow, PidsDistinct,
           NoSelfParent, Embryos, NoProc, InitLives, Live
  <1>6. ParentsLive'
    BY DEF TableInv, ProcTypeOK, ProcStates, PCs, ParentsLive, InitLives, Live
  <1>7. ZombieNoticed'
    BY DEF TableInv, ProcTypeOK, ProcStates, PCs, ZombieNoticed, ParentsLive,
       InitLives, Sleepers
  <1> QED BY <1>1, <1>2, <1>3, <1>4, <1>5, <1>6, <1>7 DEF TableInv

\* trap(): the way back to user mode.
LEMMA TrapReturnInv ==
  ASSUME TableInv, NEW p \in Procs, TrapReturn(p)
  PROVE  TableInv'
  <1> USE DEF TrapReturn, OnCPU, Goto
  <1>1. (ProcTypeOK /\ pc \in [Procs -> PCs] /\ DOMAIN chan = Procs)'
    BY DEF TableInv, ProcTypeOK, ProcStates, PCs
  <1>2. InitLives'
    BY DEF TableInv, ProcTypeOK, ProcStates, PCs, InitLives, Live
  <1>3. Embryos'
    BY DEF TableInv, ProcTypeOK, ProcStates, PCs, Embryos
  <1>4. Sleepers'
    BY DEF TableInv, ProcTypeOK, ProcStates, PCs, Sleepers
  <1>5. NoSelfParent' /\ PidsBelow' /\ PidsDistinct'
    BY DEF TableInv, ProcTypeOK, ProcStates, PCs, PidsBelow, PidsDistinct,
           NoSelfParent, Embryos, NoProc, InitLives, Live
  <1>6. ParentsLive'
    BY DEF TableInv, ProcTypeOK, ProcStates, PCs, ParentsLive, InitLives, Live
  <1>7. ZombieNoticed'
    BY DEF TableInv, ProcTypeOK, ProcStates, PCs, ZombieNoticed, ParentsLive,
       InitLives, Sleepers
  <1> QED BY <1>1, <1>2, <1>3, <1>4, <1>5, <1>6, <1>7 DEF TableInv

\* yield() at a clock tick.
LEMMA yieldInv ==
  ASSUME TableInv, NEW p \in Procs, yield(p)
  PROVE  TableInv'
  <1> USE DEF yield, LockFree
  <1>1. (ProcTypeOK /\ pc \in [Procs -> PCs] /\ DOMAIN chan = Procs)'
    BY DEF TableInv, ProcTypeOK, ProcStates, PCs
  <1>2. InitLives'
    BY DEF TableInv, ProcTypeOK, ProcStates, PCs, InitLives, Live
  <1>3. Embryos'
    BY DEF TableInv, ProcTypeOK, ProcStates, PCs, Embryos
  <1>4. Sleepers'
    BY DEF TableInv, ProcTypeOK, ProcStates, PCs, Sleepers
  <1>5. NoSelfParent' /\ PidsBelow' /\ PidsDistinct'
    BY DEF TableInv, ProcTypeOK, ProcStates, PCs, PidsBelow, PidsDistinct,
           NoSelfParent, Embryos, NoProc, InitLives, Live
  <1>6. ParentsLive'
    BY DEF TableInv, ProcTypeOK, ProcStates, PCs, ParentsLive, InitLives, Live
  <1>7. ZombieNoticed'
    BY DEF TableInv, ProcTypeOK, ProcStates, PCs, ZombieNoticed, ParentsLive,
       InitLives, Sleepers
  <1> QED BY <1>1, <1>2, <1>3, <1>4, <1>5, <1>6, <1>7 DEF TableInv

\* scheduler() runs a process.
LEMMA schedulerInv ==
  ASSUME TableInv, NEW p \in Procs, scheduler(p)
  PROVE  TableInv'
  <1> USE DEF scheduler
  <1>1. (ProcTypeOK /\ pc \in [Procs -> PCs] /\ DOMAIN chan = Procs)'
    BY DEF TableInv, ProcTypeOK, ProcStates, PCs
  <1>2. InitLives'
    BY DEF TableInv, ProcTypeOK, ProcStates, PCs, InitLives, Live
  <1>3. Embryos'
    BY DEF TableInv, ProcTypeOK, ProcStates, PCs, Embryos
  <1>4. Sleepers'
    BY DEF TableInv, ProcTypeOK, ProcStates, PCs, Sleepers
  <1>5. NoSelfParent' /\ PidsBelow' /\ PidsDistinct'
    BY DEF TableInv, ProcTypeOK, ProcStates, PCs, PidsBelow, PidsDistinct,
           NoSelfParent, Embryos, NoProc, InitLives, Live
  <1>6. ParentsLive'
    BY DEF TableInv, ProcTypeOK, ProcStates, PCs, ParentsLive, InitLives, Live
  <1>7. ZombieNoticed'
    BY DEF TableInv, ProcTypeOK, ProcStates, PCs, ZombieNoticed, ParentsLive,
       InitLives, Sleepers
  <1> QED BY <1>1, <1>2, <1>3, <1>4, <1>5, <1>6, <1>7 DEF TableInv

\* A call of exit().
LEMMA sys_exitInv ==
  ASSUME TableInv, NEW p \in Procs, sys_exit(p)
  PROVE  TableInv'
  <1> USE DEF sys_exit, Syscall, OnCPU, Goto
  <1>1. (ProcTypeOK /\ pc \in [Procs -> PCs] /\ DOMAIN chan = Procs)'
    BY DEF TableInv, ProcTypeOK, ProcStates, PCs
  <1>2. InitLives'
    BY DEF TableInv, ProcTypeOK, ProcStates, PCs, InitLives, Live
  <1>3. Embryos'
    BY DEF TableInv, ProcTypeOK, ProcStates, PCs, Embryos
  <1>4. Sleepers'
    BY DEF TableInv, ProcTypeOK, ProcStates, PCs, Sleepers
  <1>5. NoSelfParent' /\ PidsBelow' /\ PidsDistinct'
    BY DEF TableInv, ProcTypeOK, ProcStates, PCs, PidsBelow, PidsDistinct,
           NoSelfParent, Embryos, NoProc, InitLives, Live
  <1>6. ParentsLive'
    BY DEF TableInv, ProcTypeOK, ProcStates, PCs, ParentsLive, InitLives, Live
  <1>7. ZombieNoticed'
    BY DEF TableInv, ProcTypeOK, ProcStates, PCs, ZombieNoticed, ParentsLive,
       InitLives, Sleepers
  <1> QED BY <1>1, <1>2, <1>3, <1>4, <1>5, <1>6, <1>7 DEF TableInv

\* A call of wait().
LEMMA sys_waitInv ==
  ASSUME TableInv, NEW p \in Procs, sys_wait(p)
  PROVE  TableInv'
  <1> USE DEF sys_wait, Syscall, OnCPU, Goto
  <1>1. (ProcTypeOK /\ pc \in [Procs -> PCs] /\ DOMAIN chan = Procs)'
    BY DEF TableInv, ProcTypeOK, ProcStates, PCs
  <1>2. InitLives'
    BY DEF TableInv, ProcTypeOK, ProcStates, PCs, InitLives, Live
  <1>3. Embryos'
    BY DEF TableInv, ProcTypeOK, ProcStates, PCs, Embryos
  <1>4. Sleepers'
    BY DEF TableInv, ProcTypeOK, ProcStates, PCs, Sleepers
  <1>5. NoSelfParent' /\ PidsBelow' /\ PidsDistinct'
    BY DEF TableInv, ProcTypeOK, ProcStates, PCs, PidsBelow, PidsDistinct,
           NoSelfParent, Embryos, NoProc, InitLives, Live
  <1>6. ParentsLive'
    BY DEF TableInv, ProcTypeOK, ProcStates, PCs, ParentsLive, InitLives, Live
  <1>7. ZombieNoticed'
    BY DEF TableInv, ProcTypeOK, ProcStates, PCs, ZombieNoticed, ParentsLive,
       InitLives, Sleepers
  <1> QED BY <1>1, <1>2, <1>3, <1>4, <1>5, <1>6, <1>7 DEF TableInv

\* allocproc() takes a free slot and a new pid.
LEMMA allocprocInv ==
  ASSUME TableInv, NEW p \in Procs, allocproc(p)
  PROVE  TableInv'
  <1> DEFINE unused == {q \in Procs : state[q] = "UNUSED"}
             np == First(unused)
  <1> USE ProcAssumption DEF allocproc, Syscall, OnCPU, Goto, LockFree
  <1>a. CASE unused = {}
    <2>a. /\ pc' = [pc EXCEPT ![p] = "ret"] /\ state[p] = "RUNNING"
          /\ UNCHANGED <<state, pid, nextpid, kid, ptlock, parent, killed,
                         chan, exiting>>
      BY <1>a
    <2> HIDE DEF allocproc
    <2>1. (ProcTypeOK /\ pc \in [Procs -> PCs] /\ DOMAIN chan = Procs)'
      BY <2>a, InitIn DEF TableInv, ProcTypeOK, ProcStates, PCs
    <2>2. InitLives'
      BY <2>a, InitIn DEF TableInv, ProcTypeOK, ProcStates, PCs, InitLives,
         Live
    <2>3. Embryos'
      BY <2>a, InitIn DEF TableInv, ProcTypeOK, ProcStates, PCs, Embryos
    <2>4. Sleepers'
      BY <2>a, InitIn DEF TableInv, ProcTypeOK, ProcStates, PCs, Sleepers
    <2>5. NoSelfParent' /\ PidsBelow' /\ PidsDistinct'
      BY <2>a, InitIn DEF TableInv, ProcTypeOK, ProcStates, PCs, PidsBelow,
         PidsDistinct,
           NoSelfParent, Embryos, NoProc, InitLives, Live
    <2>6. ParentsLive'
      BY <2>a, InitIn DEF TableInv, ProcTypeOK, ProcStates, PCs, ParentsLive,
         InitLives, Live
    <2>7. ZombieNoticed'
      BY <2>a, InitIn DEF TableInv, ProcTypeOK, ProcStates, PCs,
         ZombieNoticed, ParentsLive, InitLives, Sleepers
    <2> QED BY <2>1, <2>2, <2>3, <2>4, <2>5, <2>6, <2>7 DEF TableInv
  <1>b. CASE unused # {}
    <2>a. np \in Procs /\ state[np] = "UNUSED"
      BY <1>b, FirstIn
    <2>b. /\ state' = [state EXCEPT ![np] = "EMBRYO"]
          /\ pid' = [pid EXCEPT ![np] = nextpid]
          /\ nextpid' = nextpid + 1
          /\ kid' = [kid EXCEPT ![p] = np]
          /\ pc' = [pc EXCEPT ![p] = "fork"]
          /\ UNCHANGED <<parent, killed, chan, exiting, ptlock>>
          /\ nextpid <= MaxPid /\ state[p] = "RUNNING"
      BY <1>b
    <2>c. np # p
      BY <2>a
    <2> HIDE DEF np, unused, allocproc
    <2>1. (ProcTypeOK /\ pc \in [Procs -> PCs] /\ DOMAIN chan = Procs)'
      BY <2>a, <2>b, <2>c, InitIn DEF TableInv, ProcTypeOK, ProcStates, PCs
    <2>2. InitLives'
      BY <2>a, <2>b, <2>c, InitIn DEF TableInv, ProcTypeOK, ProcStates, PCs,
         InitLives, Live
    <2>3. Embryos'
      BY <2>a, <2>b, <2>c, InitIn DEF TableInv, ProcTypeOK, ProcStates, PCs,
         Embryos
    <2>4. Sleepers'
      BY <2>a, <2>b, <2>c, InitIn DEF TableInv, ProcTypeOK, ProcStates, PCs,
         Sleepers
    <2>5. NoSelfParent' /\ PidsBelow' /\ PidsDistinct'
      BY <2>a, <2>b, <2>c, InitIn DEF TableInv, ProcTypeOK, ProcStates, PCs,
         PidsBelow, PidsDistinct,
           NoSelfParent, Embryos, NoProc, InitLives, Live
    <2>6. ParentsLive'
      BY <2>a, <2>b, <2>c, InitIn DEF TableInv, ProcTypeOK, ProcStates, PCs,
         ParentsLive, InitLives, Live
    <2>7. ZombieNoticed'
      BY <2>a, <2>b, <2>c, InitIn DEF TableInv, ProcTypeOK, ProcStates, PCs,
         ZombieNoticed, ParentsLive, InitLives, Sleepers
    <2> QED BY <2>1, <2>2, <2>3, <2>4, <2>5, <2>6, <2>7 DEF TableInv
  <1> QED BY <1>a, <1>b

\* fork() gives its slot back.
LEMMA ForkFailsInv ==
  ASSUME TableInv, NEW p \in Procs, ForkFails(p)
  PROVE  TableInv'
  <1> USE DEF ForkFails, OnCPU, Goto
  <1>a. kid[p] \in Procs /\ state[kid[p]] = "EMBRYO"
    BY DEF TableInv, Embryos
  <1>1. (ProcTypeOK /\ pc \in [Procs -> PCs] /\ DOMAIN chan = Procs)'
    BY <1>a, InitIn DEF TableInv, ProcTypeOK, ProcStates, PCs
  <1>2. InitLives'
    BY <1>a, InitIn DEF TableInv, ProcTypeOK, ProcStates, PCs, InitLives, Live
  <1>3. Embryos'
    BY <1>a, InitIn DEF TableInv, ProcTypeOK, ProcStates, PCs, Embryos
  <1>4. Sleepers'
    BY <1>a, InitIn DEF TableInv, ProcTypeOK, ProcStates, PCs, Sleepers
  <1>5. NoSelfParent' /\ PidsBelow' /\ PidsDistinct'
    BY <1>a, InitIn DEF TableInv, ProcTypeOK, ProcStates, PCs, PidsBelow,
       PidsDistinct,
           NoSelfParent, Embryos, NoProc, InitLives, Live
  <1>6. ParentsLive'
    BY <1>a, InitIn DEF TableInv, ProcTypeOK, ProcStates, PCs, ParentsLive,
       InitLives, Live
  <1>7. ZombieNoticed'
    BY <1>a, InitIn DEF TableInv, ProcTypeOK, ProcStates, PCs, ZombieNoticed,
       ParentsLive, InitLives, Sleepers
  <1> QED BY <1>1, <1>2, <1>3, <1>4, <1>5, <1>6, <1>7 DEF TableInv

\* fork() makes the child runnable.
LEMMA forkInv ==
  ASSUME TableInv, NEW p \in Procs, fork(p)
  PROVE  TableInv'
  <1> USE DEF fork, OnCPU, LockFree
  <1>a. kid[p] \in Procs /\ state[kid[p]] = "EMBRYO"
    BY DEF TableInv, Embryos
  <1>1. (ProcTypeOK /\ pc \in [Procs -> PCs] /\ DOMAIN chan = Procs)'
    BY <1>a, InitIn DEF TableInv, ProcTypeOK, ProcStates, PCs
  <1>2. InitLives'
    BY <1>a, InitIn DEF TableInv, ProcTypeOK, ProcStates, PCs, InitLives, Live
  <1>3. Embryos'
    BY <1>a, InitIn DEF TableInv, ProcTypeOK, ProcStates, PCs, Embryos
  <1>4. Sleepers'
    BY <1>a, InitIn DEF TableInv, ProcTypeOK, ProcStates, PCs, Sleepers
  <1>5. NoSelfParent' /\ PidsBelow' /\ PidsDistinct'
    BY <1>a, InitIn DEF TableInv, ProcTypeOK, ProcStates, PCs, PidsBelow,
       PidsDistinct,
           NoSelfParent, Embryos, NoProc, InitLives, Live
  <1>6. ParentsLive'
    BY <1>a, InitIn DEF TableInv, ProcTypeOK, ProcStates, PCs, ParentsLive,
       InitLives, Live
  <1>7. ZombieNoticed'
    BY <1>a, InitIn DEF TableInv, ProcTypeOK, ProcStates, PCs, ZombieNoticed,
       ParentsLive, InitLives, Sleepers
  <1> QED BY <1>1, <1>2, <1>3, <1>4, <1>5, <1>6, <1>7 DEF TableInv

\* exit() wakes the parent of p and, for the zombies among its children,
\* init; the sleepers it wakes are all that sleep on those two addresses.
LEMMA exitInv ==
  ASSUME TableInv, NEW p \in Procs, exit(p)
  PROVE  TableInv'
  <1>a. /\ state[p] = "RUNNING" /\ pc[p] = "exit"
        /\ pc' = [pc EXCEPT ![p] = "none"]
        /\ parent' = [q \in Procs |-> IF parent[q] = p THEN initproc
                                                       ELSE parent[q]]
        /\ UNCHANGED <<pid, killed, chan, nextpid, kid, exiting, ptlock>>
    BY DEF exit, OnCPU, Goto, LockFree
  <1>b. p # initproc
    BY <1>a DEF TableInv, InitLives
  <1>c. /\ state' \in [Procs -> ProcStates]
        /\ state'[p] = "ZOMBIE"
        /\ \A q \in Procs \ {p} :
             \/ state'[q] = state[q]
             \/ state[q] = "SLEEPING" /\ state'[q] = "RUNNABLE"
    BY <1>a DEF exit, wakeup1, TableInv, ProcTypeOK, ProcStates
  <1>d. \A q \in Procs : state'[q] = "SLEEPING" =>
          /\ chan[q] # ProcChan(parent[p])
          /\ (\E z \in Procs : parent[z] = p /\ state[z] = "ZOMBIE")
                => chan[q] # ProcChan(initproc)
    BY <1>a DEF exit, wakeup1, TableInv, ProcTypeOK, ProcStates
  <1>1. (ProcTypeOK /\ pc \in [Procs -> PCs] /\ DOMAIN chan = Procs)'
    BY <1>a, <1>b, <1>c, <1>d, InitIn DEF TableInv, ProcTypeOK, ProcStates, PCs
  <1>2. InitLives'
    BY <1>a, <1>b, <1>c, <1>d, InitIn DEF TableInv, ProcTypeOK, ProcStates,
       PCs, InitLives, Live
  <1>3. Embryos'
    BY <1>a, <1>b, <1>c, <1>d, InitIn DEF TableInv, ProcTypeOK, ProcStates,
       PCs, Embryos
  <1>4. Sleepers'
    BY <1>a, <1>b, <1>c, <1>d, InitIn DEF TableInv, ProcTypeOK, ProcStates,
       PCs, Sleepers
  <1>5. NoSelfParent' /\ PidsBelow' /\ PidsDistinct'
    BY <1>a, <1>b, <1>c, <1>d, InitIn DEF TableInv, ProcTypeOK, ProcStates,
       PCs, PidsBelow, PidsDistinct,
           NoSelfParent
  <1>6. ParentsLive'
    BY <1>a, <1>b, <1>c, <1>d, InitIn DEF TableInv, ProcTypeOK, ProcStates,
       PCs, ParentsLive, InitLives, Live
  <1>7. ZombieNoticed'
    <2> SUFFICES ASSUME NEW q \in Procs, state'[q] = "ZOMBIE",
                        state'[parent'[q]] = "SLEEPING",
                        chan[parent'[q]] = ProcChan(parent'[q])
                 PROVE  FALSE
      BY <1>a DEF ZombieNoticed
    <2>1. q # initproc /\ parent'[q] \in Procs
      BY <1>2, <1>6 DEF ParentsLive, InitLives, Live
    <2>2. CASE q = p
      BY <1>a, <1>d, <2>1, <2>2 DEF TableInv, NoSelfParent
    <2>3. CASE q # p /\ parent[q] = p
      BY <1>a, <1>c, <1>d, <2>1, <2>3 DEF ProcStates
    <2>4. CASE q # p /\ parent[q] # p
      <3>1. parent'[q] = parent[q] /\ state[q] = "ZOMBIE"
        BY <1>a, <1>c, <2>4
      <3>2. state[parent[q]] = "SLEEPING"
        BY <1>c, <2>1, <3>1
      <3> QED BY <3>1, <3>2 DEF TableInv, ZombieNoticed
    <2> QED BY <2>2, <2>3, <2>4
  <1> QED BY <1>1, <1>2, <1>3, <1>4, <1>5, <1>6, <1>7 DEF TableInv

\* One turn of wait(): reap, give up or sleep.
LEMMA waitInv ==
  ASSUME TableInv, NEW p \in Procs, wait(p)
  PROVE  TableInv'
  <1> DEFINE kids == {q \in Procs : parent[q] = p}
             dead == {q \in kids : state[q] = "ZOMBIE"}
             z == First(dead)
  <1>a. /\ state[p] = "RUNNING" /\ pc[p] \in {"wait", "waiting"}
        /\ ptlock' = NoProc /\ UNCHANGED <<nextpid, kid, exiting>>
    BY DEF wait, OnCPU
  <1>b. CASE dead # {} /\ pc' = [pc EXCEPT ![p] = "ret"]
    <2>a. z \in Procs /\ state[z] = "ZOMBIE" /\ parent[z] = p
      BY <1>b, FirstIn
    <2>b. /\ pid' = [pid EXCEPT ![z] = 0]
          /\ parent' = [parent EXCEPT ![z] = NoProc]
          /\ killed' = [killed EXCEPT ![z] = FALSE]
          /\ state' = [state EXCEPT ![z] = "UNUSED"]
          /\ UNCHANGED chan
      BY <1>b, SMTT(30) DEF wait, Goto
    <2> HIDE DEF z, kids, dead
    <2>1. (ProcTypeOK /\ pc \in [Procs -> PCs] /\ DOMAIN chan = Procs)'
      BY <1>a, <1>b, <2>a, <2>b, InitIn, ProcAssumption DEF TableInv,
         ProcTypeOK, ProcStates, PCs
    <2>2. InitLives'
      BY <1>a, <1>b, <2>a, <2>b, InitIn, ProcAssumption DEF TableInv,
         ProcTypeOK, ProcStates, PCs, InitLives, Live
    <2>3. Embryos'
      BY <1>a, <1>b, <2>a, <2>b, InitIn, ProcAssumption DEF TableInv,
         ProcTypeOK, ProcStates, PCs, Embryos
    <2>4. Sleepers'
      BY <1>a, <1>b, <2>a, <2>b, InitIn, ProcAssumption DEF TableInv,
         ProcTypeOK, ProcStates, PCs, Sleepers
    <2>5. NoSelfParent' /\ PidsBelow' /\ PidsDistinct'
      BY <1>a, <1>b, <2>a, <2>b, InitIn, ProcAssumption DEF TableInv,
         ProcTypeOK, ProcStates, PCs, PidsBelow, PidsDistinct,
           NoSelfParent
    <2>6. ParentsLive'
      BY <1>a, <1>b, <2>a, <2>b, InitIn, ProcAssumption DEF TableInv,
         ProcTypeOK, ProcStates, PCs, ParentsLive, InitLives, Live
    <2>7. ZombieNoticed'
      BY <1>a, <1>b, <2>a, <2>b, InitIn, ProcAssumption DEF TableInv,
         ProcTypeOK, ProcStates, PCs,
             ZombieNoticed, ParentsLive, InitLives, Sleepers, Live
    <2> QED BY <2>1, <2>2, <2>3, <2>4, <2>5, <2>6, <2>7 DEF TableInv
  <1>c. CASE dead = {} /\ pc' = [pc EXCEPT ![p] = "ret"]
    <2>a. UNCHANGED <<state, pid, parent, killed, chan>>
      BY <1>a, <1>c DEF wait, Goto, TableInv, PCs
    <2>1. (ProcTypeOK /\ pc \in [Procs -> PCs] /\ DOMAIN chan = Procs)'
      BY <1>a, <1>c, <2>a, InitIn DEF TableInv, ProcTypeOK, ProcStates, PCs
    <2>2. InitLives'
      BY <1>a, <1>c, <2>a, InitIn DEF TableInv, ProcTypeOK, ProcStates, PCs,
         InitLives, Live
    <2>3. Embryos'
      BY <1>a, <1>c, <2>a, InitIn DEF TableInv, ProcTypeOK, ProcStates, PCs,
         Embryos
    <2>4. Sleepers'
      BY <1>a, <1>c, <2>a, InitIn DEF TableInv, ProcTypeOK, ProcStates, PCs,
         Sleepers
    <2>5. NoSelfParent' /\ PidsBelow' /\ PidsDistinct'
      BY <1>a, <1>c, <2>a, InitIn DEF TableInv, ProcTypeOK, ProcStates, PCs,
         PidsBelow, PidsDistinct,
           NoSelfParent
    <2>6. ParentsLive'
      BY <1>a, <1>c, <2>a, InitIn DEF TableInv, ProcTypeOK, ProcStates, PCs,
         ParentsLive, InitLives, Live
    <2>7. ZombieNoticed'
      BY <1>a, <1>c, <2>a, InitIn DEF TableInv, ProcTypeOK, ProcStates, PCs,
             ZombieNoticed, ParentsLive, InitLives, Sleepers, Live
    <2> QED BY <2>1, <2>2, <2>3, <2>4, <2>5, <2>6, <2>7 DEF TableInv
  <1>d. CASE dead = {} /\ pc' = [pc EXCEPT ![p] = "waiting"]
    <2>a. /\ ~killed[p]
          /\ chan' = [chan EXCEPT ![p] = ProcChan(p)]
          /\ state' = [state EXCEPT ![p] = "SLEEPING"]
          /\ UNCHANGED <<pid, parent, killed>>
      BY <1>a, <1>d DEF wait, Goto, TableInv, PCs
    <2>b. \A q \in Procs : state[q] = "ZOMBIE" => parent[q] # p
      BY <1>d
    <2>1. (ProcTypeOK /\ pc \in [Procs -> PCs] /\ DOMAIN chan = Procs)'
      BY <1>a, <1>d, <2>a, <2>b, InitIn DEF TableInv, ProcTypeOK, ProcStates,
         PCs
    <2>2. InitLives'
      BY <1>a, <1>d, <2>a, <2>b, InitIn DEF TableInv, ProcTypeOK, ProcStates,
         PCs, InitLives, Live
    <2>3. Embryos'
      BY <1>a, <1>d, <2>a, <2>b, InitIn DEF TableInv, ProcTypeOK, ProcStates,
         PCs, Embryos
    <2>4. Sleepers'
      BY <1>a, <1>d, <2>a, <2>b, InitIn DEF TableInv, ProcTypeOK, ProcStates,
         PCs, Sleepers
    <2>5. NoSelfParent' /\ PidsBelow' /\ PidsDistinct'
      BY <1>a, <1>d, <2>a, <2>b, InitIn DEF TableInv, ProcTypeOK, ProcStates,
         PCs, PidsBelow, PidsDistinct,
           NoSelfParent
    <2>6. ParentsLive'
      BY <1>a, <1>d, <2>a, <2>b, InitIn DEF TableInv, ProcTypeOK, ProcStates,
         PCs, ParentsLive, InitLives, Live
    <2>7. ZombieNoticed'
      BY <1>a, <1>d, <2>a, <2>b, InitIn DEF TableInv, ProcTypeOK, ProcStates,
         PCs,
             ZombieNoticed, ParentsLive, InitLives, Sleepers, Live
    <2> QED BY <2>1, <2>2, <2>3, <2>4, <2>5, <2>6, <2>7 DEF TableInv
  <1> QED BY <1>b, <1>c, <1>d DEF wait, Goto

\* kill() marks its victim and wakes it.
LEMMA killInv ==
  ASSUME TableInv, NEW p \in Procs, NEW victim \in Victims, kill(p, victim)
  PROVE  TableInv'
  <1> DEFINE found == {q \in Procs : pid[q] = victim}
             v == First(found)
  <1>a. /\ state[p] = "RUNNING" /\ pc[p] = "user"
        /\ pc' = [pc EXCEPT ![p] = "ret"]
        /\ UNCHANGED <<pid, parent, chan, nextpid, kid, exiting, ptlock>>
    BY DEF kill, Syscall, OnCPU, Goto, LockFree
  <1>b. CASE found = {}
    <2>a. UNCHANGED <<state, killed>>
      BY <1>b DEF kill
    <2>1. (ProcTypeOK /\ pc \in [Procs -> PCs] /\ DOMAIN chan = Procs)'
      BY <1>a, <2>a, InitIn DEF TableInv, ProcTypeOK, ProcStates, PCs
    <2>2. InitLives'
      BY <1>a, <2>a, InitIn DEF TableInv, ProcTypeOK, ProcStates, PCs,
         InitLives, Live
    <2>3. Embryos'
      BY <1>a, <2>a, InitIn DEF TableInv, ProcTypeOK, ProcStates, PCs, Embryos
    <2>4. Sleepers'
      BY <1>a, <2>a, InitIn DEF TableInv, ProcTypeOK, ProcStates, PCs, Sleepers
    <2>5. NoSelfParent' /\ PidsBelow' /\ PidsDistinct'
      BY <1>a, <2>a, InitIn DEF TableInv, ProcTypeOK, ProcStates, PCs,
         PidsBelow, PidsDistinct,
           NoSelfParent
    <2>6. ParentsLive'
      BY <1>a, <2>a, InitIn DEF TableInv, ProcTypeOK, ProcStates, PCs,
         ParentsLive, InitLives, Live
    <2>7. ZombieNoticed'
      BY <1>a, <2>a, InitIn DEF TableInv, ProcTypeOK, ProcStates, PCs,
             ZombieNoticed, ParentsLive, InitLives, Sleepers, Live
    <2> QED BY <2>1, <2>2, <2>3, <2>4, <2>5, <2>6, <2>7 DEF TableInv
  <1>c. CASE found # {}
    <2>a. v \in Procs /\ pid[v] = victim
      BY <1>c, FirstIn
    <2>b. v # initproc
      BY <2>a DEF TableInv, InitLives, Victims
    <2>c. /\ killed' = [killed EXCEPT ![v] = TRUE]
          /\ state' = [state EXCEPT ![v] = IF state[v] = "SLEEPING"
                                           THEN "RUNNABLE" ELSE state[v]]
      BY <1>c DEF kill
    <2> HIDE DEF v, found
    <2>1. (ProcTypeOK /\ pc \in [Procs -> PCs] /\ DOMAIN chan = Procs)'
      BY <1>a, <2>a, <2>b, <2>c, InitIn DEF TableInv, ProcTypeOK, ProcStates,
         PCs
    <2>2. InitLives'
      BY <1>a, <2>a, <2>b, <2>c, InitIn DEF TableInv, ProcTypeOK, ProcStates,
         PCs, InitLives, Live
    <2>3. Embryos'
      BY <1>a, <2>a, <2>b, <2>c, InitIn DEF TableInv, ProcTypeOK, ProcStates,
         PCs, Embryos
    <2>4. Sleepers'
      BY <1>a, <2>a, <2>b, <2>c, InitIn DEF TableInv, ProcTypeOK, ProcStates,
         PCs, Sleepers
    <2>5. NoSelfParent' /\ PidsBelow' /\ PidsDistinct'
      BY <1>a, <2>a, <2>b, <2>c, InitIn DEF TableInv, ProcTypeOK, ProcStates,
         PCs, PidsBelow, PidsDistinct,
           NoSelfParent
    <2>6. ParentsLive'
      BY <1>a, <2>a, <2>b, <2>c, InitIn DEF TableInv, ProcTypeOK, ProcStates,
         PCs, ParentsLive, InitLives, Live
    <2>7. ZombieNoticed'
      BY <1>a, <2>a, <2>b, <2>c, InitIn DEF TableInv, ProcTypeOK, ProcStates,
         PCs,
             ZombieNoticed, ParentsLive, InitLives, Sleepers, Live
    <2> QED BY <2>1, <2>2, <2>3, <2>4, <2>5, <2>6, <2>7 DEF TableInv
  <1> QED BY <1>b, <1>c

-----------------------------------------------------------------------------
(* The theorems.                                                           *)

\* Every step of every process keeps the invariant.
LEMMA StepInv == TableInv /\ [ProcNext]_procVars => TableInv'
  <1> SUFFICES ASSUME TableInv, [ProcNext]_procVars PROVE TableInv'
    OBVIOUS
  <1>1. ASSUME NEW p \in Procs,
               \/ scheduler(p) \/ yield(p)
               \/ allocproc(p) \/ sys_exit(p) \/ sys_wait(p)
               \/ \E victim \in Victims : kill(p, victim)
               \/ InCall(p)
        PROVE  TableInv'
    BY <1>1, schedulerInv, yieldInv, allocprocInv, sys_exitInv, sys_waitInv,
       killInv, TrapKilledInv, TrapReturnInv, ForkFailsInv, forkInv, exitInv,
       waitInv DEF InCall
  <1>2. CASE UNCHANGED procVars
    BY <1>2 DEF procVars, TableInv, ProcTypeOK, InitLives, Embryos, Sleepers,
       NoSelfParent, PidsBelow, PidsDistinct, ParentsLive, ZombieNoticed
  <1> QED BY <1>1, <1>2 DEF ProcNext

\* The invariant of the process table holds in every behaviour.
THEOREM Invariance == ProcSpec => []TableInv
  BY InitInv, StepInv, PTL DEF ProcSpec

\* Every process but init always has a parent able to wait() for it, however
\* fork(), exit(), wait() and kill() interleave.
THEOREM NoLostOrphans == ProcSpec => []ParentsLive
  BY Invariance, PTL DEF TableInv

\* exit() never leaves a parent asleep in wait() over a zombie child.
THEOREM NoUnseenZombie == ProcSpec => []ZombieNoticed
  BY Invariance, PTL DEF TableInv

\* kill() never leaves its victim asleep in wait().
THEOREM KillEndsWait == ProcSpec => []WaiterNotKilled
  <1>1. TableInv => WaiterNotKilled
    BY DEF TableInv, Sleepers, WaiterNotKilled
  <1> QED BY <1>1, Invariance, PTL

\* A pid names one process.
THEOREM UniquePids == ProcSpec => []PidsDistinct
  BY Invariance, PTL DEF TableInv

\* The table keeps its types.
THEOREM TypesKept == ProcSpec => []ProcTypeOK
  BY Invariance, PTL DEF TableInv

=============================================================================
