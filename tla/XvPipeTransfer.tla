---------------------------- MODULE XvPipeTransfer --------------------------
(***************************************************************************)
(* The inductive invariant of the xv6 pipe, and that the calls that move   *)
(* bytes, read(), write() and the sleep() inside them, keep it.            *)
(***************************************************************************)
EXTENDS XvPipe, FiniteSetTheorems, TLAPS

Critical == {"write", "read", "copy", "sleep", "release", "closed"}
Closing == {"pipeclose", "closed"}
Transfer == {"lock", "write", "read", "copy", "sleep", "release", "block",
             "awake"}
Outside == {"user", "ret", "exit", "none"}
PipePCs == Outside \cup Transfer \cup Closing
Ops == {"none", "read", "write", "r", "w"}
Holders(e) == {p \in Procs : e \in ofile[p]}
IsOpen(e) == IF e = "r" THEN readopen ELSE writeopen

\* A lock is held exactly inside its critical sections.
LocksOf(p) == /\ plock = p <=> pc[p] \in Critical
              /\ ptlock = p <=> pc[p] \in {"release", "block"}
LocksHeld == \A p \in Procs : LocksOf(p)

\* What a process is doing, and that only a process in sleep() is off its CPU.
ActivityOf(p) ==
  /\ state[p] # "RUNNING" => pc[p] \in {"awake", "none"}
  /\ state[p] = "SLEEPING" => pc[p] = "awake" /\ chan[p] = SleepChan(p)
  /\ pc[p] \in Outside => op[p] = "none"
  /\ pc[p] \in Transfer => op[p] \in {"read", "write"}
  /\ pc[p] = "write" => op[p] = "write"
  /\ pc[p] \in {"read", "copy"} => op[p] = "read"
  /\ pc[p] \in Closing => op[p] \in Ends
  /\ op[p] = "read" => "r" \in ofile[p]
  /\ op[p] = "write" => "w" \in ofile[p]
Activity == \A p \in Procs : ActivityOf(p)

\* An end is open while somebody holds it; the process that gave up the last
\* reference, and no other, shuts it.
EndsInv ==
  /\ \A e \in Ends : ref[e] = Cardinality(Holders(e))
  /\ \A e \in Ends : Holders(e) # {} => IsOpen(e)
  /\ \A p \in Procs : pc[p] \in Closing => Holders(op[p]) = {}
  /\ \A p \in Procs : pc[p] = "pipeclose" => IsOpen(op[p])
  /\ \A p, q \in Procs : p # q /\ pc[p] \in Closing /\ pc[q] \in Closing
                           => op[p] # op[q]
  /\ live \/ ~(readopen \/ writeopen)
  /\ \A p \in Procs : pc[p] = "closed" => live

\* A process that has decided to sleep still holds the lock under which it
\* found the pipe empty, or full.
CommittedOf(p) ==
  pc[p] \in {"sleep", "release"} =>
    /\ op[p] = "read" => Empty /\ writeopen
    /\ op[p] = "write" => Full /\ readopen
Committed == \A p \in Procs : CommittedOf(p)

Typing ==
  /\ PipeTypeOK
  /\ pc \in [Procs -> PipePCs]
  /\ op \in [Procs -> Ops]
  /\ DOMAIN chan = Procs
  /\ exiting \in [Procs -> BOOLEAN]
  /\ deserted \in BOOLEAN

PipeInv ==
  Typing /\ LocksHeld /\ Activity /\ EndsInv /\ Committed /\ NoMissedWakeup

\* The first state.
LEMMA HoldersFinite ==
  \A e : IsFiniteSet(Holders(e)) /\ Cardinality(Holders(e)) \in Nat
  <1>1. IsFiniteSet(Procs)
    BY ProcAssumption, FS_Interval DEF Procs
  <1> QED BY <1>1, FS_Subset, FS_CardinalityType DEF Holders

LEMMA ZeroOut == 0 \notin Procs
  BY ProcAssumption DEF Procs

LEMMA PipeInitInv == Init => PipeInv
  <1> SUFFICES ASSUME Init PROVE PipeInv
    OBVIOUS
  <1> USE ProcAssumption, PipeAssumption DEF Init, NoProc, Procs, Ends
  <1>0. ofile \in [Procs -> SUBSET Ends]
    OBVIOUS
  <1>1. \A e \in Ends : Cardinality(Holders(e)) \in Nat
    BY HoldersFinite
  <1>2. ref \in [Ends -> Nat]
    BY <1>1 DEF Holders
  <1>3. PipeTypeOK
    BY <1>0, <1>2 DEF PipeTypeOK, ProcStates
  <1>4. Typing
    BY <1>3, Zenon DEF Typing, PipePCs, Outside, Ops
  <1>5. LocksHeld /\ Activity /\ Committed
    BY DEF LocksHeld, LocksOf, Activity, ActivityOf, Committed, CommittedOf,
          Critical, Transfer, Closing, Outside
  <1>6. EndsInv
    BY DEF EndsInv, Closing, IsOpen, Holders
  <1>7. NoMissedWakeup
    BY DEF NoMissedWakeup, ReaderServed, WriterServed, Waiting
  <1> QED BY <1>4, <1>5, <1>6, <1>7 DEF PipeInv

\* Steps that open, close and share nothing leave the ends as they were.
LEMMA EndsFrame ==
  ASSUME EndsInv, UNCHANGED <<readopen, writeopen, live, ref, ofile>>,
         \A q \in Procs : pc'[q] \in Closing => /\ pc'[q] = pc[q]
                                               /\ op'[q] = op[q]
  PROVE  EndsInv'
  <1>1. \A e : Holders(e)' = Holders(e) /\ IsOpen(e)' = IsOpen(e)
    BY DEF Holders, IsOpen
  <1> QED BY <1>1 DEF EndsInv, Closing

\* After wakeup(ch) nobody waits on ch: no process is between the two steps of
\* sleep(), because ptable.lock was free.
LEMMA NobodyWaits ==
  ASSUME PipeInv, NEW ch, wakeup(ch), NEW r \in Procs,
         \/ pc'[r] = pc[r] /\ op'[r] = op[r]
         \/ pc'[r] \notin {"block", "awake"}
  PROVE  /\ ch = NreadChan => ~Waiting(r, "read")'
         /\ ch = NwriteChan => ~Waiting(r, "write")'
         /\ Waiting(r, "read")' => Waiting(r, "read")
         /\ Waiting(r, "write")' => Waiting(r, "write")
  <1>1. /\ state'[r] = "SLEEPING" => state[r] = "SLEEPING" /\ chan[r] # ch
        /\ pc[r] # "block"
    BY ZeroOut DEF wakeup, wakeup1, LockFree, PipeInv, Typing, PipeTypeOK,
       LocksHeld, LocksOf, NoProc
  <1>2. state[r] = "SLEEPING" => chan[r] = SleepChan(r)
    BY DEF PipeInv, Activity, ActivityOf
  <1> QED BY <1>1, <1>2 DEF Waiting, SleepChan

\* Entering read() or write().
LEMMA StartCallInv ==
  ASSUME PipeInv, NEW p \in Procs, NEW n \in Lengths,
         NEW name, \/ name = "read" /\ "r" \in ofile[p]
                   \/ name = "write" /\ "w" \in ofile[p],
         StartCall(p, name, n, "lock")
  PROVE  PipeInv'
  <1>1. Typing'
    BY PipeAssumption DEF PipeInv, Typing, PipeTypeOK, ProcStates, Ops, Ends,
       Activity, ActivityOf, PipePCs, Outside, Transfer, Closing, OnCPU, Goto,
       bufVars, openVars, StartCall, Syscall
  <1>2. ASSUME NEW q \in Procs PROVE LocksOf(q)'
    BY ZeroOut DEF PipeInv, LocksHeld, LocksOf, Activity, ActivityOf, Typing,
       Critical, Transfer, Outside, NoProc, OnCPU, Goto, bufVars, openVars,
       StartCall, Syscall
  <1>3. ASSUME NEW q \in Procs PROVE ActivityOf(q)'
    BY DEF PipeInv, Activity, ActivityOf, SleepChan, Typing, PipeTypeOK, Ends,
       PipePCs, Outside, Transfer, Closing, OnCPU, Goto, bufVars, openVars,
       StartCall, Syscall
  <1>f. /\ UNCHANGED <<readopen, writeopen, live, ref, ofile>>
        /\ \A q \in Procs :
             pc'[q] \in Closing => pc'[q] = pc[q] /\ op'[q] = op[q]
    BY DEF PipeInv, Typing, Activity, ActivityOf, Closing, Transfer, Outside,
       OnCPU, Goto, bufVars, openVars, StartCall, Syscall
  <1>4. EndsInv'
    BY <1>f, EndsFrame DEF PipeInv
  <1>5. ASSUME NEW q \in Procs PROVE CommittedOf(q)'
    BY ZeroOut DEF PipeInv, Committed, CommittedOf, Activity, ActivityOf,
       LocksHeld, LocksOf, Typing, Empty, Full, NoProc, Critical, OnCPU, Goto,
       bufVars, openVars, StartCall, Syscall
  <1>6. ASSUME NEW r \in Procs PROVE (ReaderServed(r) /\ WriterServed(r))'
    <2>1. ReaderServed(r)'
      BY ZeroOut DEF PipeInv, NoMissedWakeup, ReaderServed, WriterServed,
         Waiting, ReadersToBeWoken, WritersToBeWoken, LocksHeld, LocksOf,
         Activity, ActivityOf, Typing, Empty, Full, Critical, Closing,
         Transfer, Outside, Committed, CommittedOf, SleepChan, NoProc, OnCPU,
         Goto, bufVars, openVars, StartCall, Syscall
    <2>2. WriterServed(r)'
      BY ZeroOut DEF PipeInv, NoMissedWakeup, ReaderServed, WriterServed,
         Waiting, ReadersToBeWoken, WritersToBeWoken, LocksHeld, LocksOf,
         Activity, ActivityOf, Typing, Empty, Full, Critical, Closing,
         Transfer, Outside, Committed, CommittedOf, SleepChan, NoProc, OnCPU,
         Goto, bufVars, openVars, StartCall, Syscall
    <2> QED BY <2>1, <2>2
  <1> QED BY <1>1, <1>2, <1>3, <1>4, <1>5, <1>6 DEF PipeInv, LocksHeld,
     Activity, Committed, NoMissedWakeup

\* Taking the lock of the pipe.
LEMMA AcquirePipeInv ==
  ASSUME PipeInv, NEW p \in Procs, AcquirePipe(p)
  PROVE  PipeInv'
  <1>1. Typing'
    BY DEF PipeInv, Typing, PipeTypeOK, ProcStates, Ops, Ends, Activity,
       ActivityOf, PipePCs, Outside, Transfer, Closing, OnCPU, Goto, bufVars,
       openVars, AcquirePipe
  <1>2. ASSUME NEW q \in Procs PROVE LocksOf(q)'
    BY ZeroOut DEF PipeInv, LocksHeld, LocksOf, Activity, ActivityOf, Typing,
       Critical, Transfer, Outside, NoProc, OnCPU, Goto, bufVars, openVars,
       AcquirePipe
  <1>3. ASSUME NEW q \in Procs PROVE ActivityOf(q)'
    BY DEF PipeInv, Activity, ActivityOf, SleepChan, Typing, PipeTypeOK, Ends,
       PipePCs, Outside, Transfer, Closing, OnCPU, Goto, bufVars, openVars,
       AcquirePipe
  <1>f. /\ UNCHANGED <<readopen, writeopen, live, ref, ofile>>
        /\ \A q \in Procs :
             pc'[q] \in Closing => pc'[q] = pc[q] /\ op'[q] = op[q]
    BY DEF PipeInv, Typing, Activity, ActivityOf, Closing, Transfer, Outside,
       OnCPU, Goto, bufVars, openVars, AcquirePipe
  <1>4. EndsInv'
    BY <1>f, EndsFrame DEF PipeInv
  <1>5. ASSUME NEW q \in Procs PROVE CommittedOf(q)'
    BY ZeroOut DEF PipeInv, Committed, CommittedOf, Activity, ActivityOf,
       LocksHeld, LocksOf, Typing, Empty, Full, NoProc, Critical, OnCPU, Goto,
       bufVars, openVars, AcquirePipe
  <1>6. ASSUME NEW r \in Procs PROVE (ReaderServed(r) /\ WriterServed(r))'
    <2>1. ReaderServed(r)'
      BY ZeroOut DEF PipeInv, NoMissedWakeup, ReaderServed, WriterServed,
         Waiting, ReadersToBeWoken, WritersToBeWoken, LocksHeld, LocksOf,
         Activity, ActivityOf, Typing, Empty, Full, Critical, Closing,
         Transfer, Outside, Committed, CommittedOf, SleepChan, NoProc, OnCPU,
         Goto, bufVars, openVars, AcquirePipe
    <2>2. WriterServed(r)'
      BY ZeroOut DEF PipeInv, NoMissedWakeup, ReaderServed, WriterServed,
         Waiting, ReadersToBeWoken, WritersToBeWoken, LocksHeld, LocksOf,
         Activity, ActivityOf, Typing, Empty, Full, Critical, Closing,
         Transfer, Outside, Committed, CommittedOf, SleepChan, NoProc, OnCPU,
         Goto, bufVars, openVars, AcquirePipe
    <2> QED BY <2>1, <2>2
  <1> QED BY <1>1, <1>2, <1>3, <1>4, <1>5, <1>6 DEF PipeInv, LocksHeld,
     Activity, Committed, NoMissedWakeup

\* A byte written: the writer will wake the readers before it lets go.
LEMMA PutByteInv ==
  ASSUME PipeInv, NEW p \in Procs, PutByte(p)
  PROVE  PipeInv'
  <1>a. /\ nwrite' \in 0..(Wrap - 1) /\ left' \in [Procs -> Nat]
        /\ data' \in [0..(PIPESIZE - 1) -> 0..(Wrap - 1)]
    BY PipeAssumption DEF PipeInv, Typing, PipeTypeOK, PutByte
  <1>1. Typing'
    BY <1>a DEF PipeInv, Typing, PipeTypeOK, ProcStates, Ops, Ends, Activity,
       ActivityOf, PipePCs, Outside, Transfer, Closing, OnCPU, Goto, bufVars,
       openVars, PutByte, procVars
  <1>2. ASSUME NEW q \in Procs PROVE LocksOf(q)'
    BY ZeroOut DEF PipeInv, LocksHeld, LocksOf, Activity, ActivityOf, Typing,
       Critical, Transfer, Outside, NoProc, OnCPU, Goto, bufVars, openVars,
       PutByte, procVars
  <1>3. ASSUME NEW q \in Procs PROVE ActivityOf(q)'
    BY DEF PipeInv, Activity, ActivityOf, SleepChan, Typing, PipeTypeOK, Ends,
       PipePCs, Outside, Transfer, Closing, OnCPU, Goto, bufVars, openVars,
       PutByte, procVars
  <1>f. /\ UNCHANGED <<readopen, writeopen, live, ref, ofile>>
        /\ \A q \in Procs :
             pc'[q] \in Closing => pc'[q] = pc[q] /\ op'[q] = op[q]
    BY DEF PipeInv, Typing, Activity, ActivityOf, Closing, Transfer, Outside,
       OnCPU, Goto, bufVars, openVars, PutByte, procVars
  <1>4. EndsInv'
    BY <1>f, EndsFrame DEF PipeInv
  <1>5. ASSUME NEW q \in Procs PROVE CommittedOf(q)'
    BY ZeroOut DEF PipeInv, Committed, CommittedOf, Activity, ActivityOf,
       LocksHeld, LocksOf, Typing, Empty, Full, NoProc, Critical, OnCPU, Goto,
       bufVars, openVars, PutByte, procVars
  <1>6. ASSUME NEW r \in Procs PROVE (ReaderServed(r) /\ WriterServed(r))'
    <2>1. ReaderServed(r)'
      BY ZeroOut DEF PipeInv, NoMissedWakeup, ReaderServed, WriterServed,
         Waiting, ReadersToBeWoken, WritersToBeWoken, LocksHeld, LocksOf,
         Activity, ActivityOf, Typing, Empty, Full, Critical, Closing,
         Transfer, Outside, Committed, CommittedOf, SleepChan, NoProc, OnCPU,
         Goto, bufVars, openVars, PutByte, procVars
    <2>2. WriterServed(r)'
      BY ZeroOut DEF PipeInv, NoMissedWakeup, ReaderServed, WriterServed,
         Waiting, ReadersToBeWoken, WritersToBeWoken, LocksHeld, LocksOf,
         Activity, ActivityOf, Typing, Empty, Full, Critical, Closing,
         Transfer, Outside, Committed, CommittedOf, SleepChan, NoProc, OnCPU,
         Goto, bufVars, openVars, PutByte, procVars
    <2> QED BY <2>1, <2>2
  <1> QED BY <1>1, <1>2, <1>3, <1>4, <1>5, <1>6 DEF PipeInv, LocksHeld,
     Activity, Committed, NoMissedWakeup

\* The early return of pipewrite().
LEMMA WriteGivesUpInv ==
  ASSUME PipeInv, NEW p \in Procs, WriteGivesUp(p)
  PROVE  PipeInv'
  <1>1. Typing'
    BY DEF PipeInv, Typing, PipeTypeOK, ProcStates, Ops, Ends, Activity,
       ActivityOf, PipePCs, Outside, Transfer, Closing, OnCPU, Goto, bufVars,
       openVars, WriteGivesUp, ReturnFrom
  <1>2. ASSUME NEW q \in Procs PROVE LocksOf(q)'
    BY ZeroOut DEF PipeInv, LocksHeld, LocksOf, Activity, ActivityOf, Typing,
       Critical, Transfer, Outside, NoProc, OnCPU, Goto, bufVars, openVars,
       WriteGivesUp, ReturnFrom
  <1>3. ASSUME NEW q \in Procs PROVE ActivityOf(q)'
    BY DEF PipeInv, Activity, ActivityOf, SleepChan, Typing, PipeTypeOK, Ends,
       PipePCs, Outside, Transfer, Closing, OnCPU, Goto, bufVars, openVars,
       WriteGivesUp, ReturnFrom
  <1>f. /\ UNCHANGED <<readopen, writeopen, live, ref, ofile>>
        /\ \A q \in Procs :
             pc'[q] \in Closing => pc'[q] = pc[q] /\ op'[q] = op[q]
    BY DEF PipeInv, Typing, Activity, ActivityOf, Closing, Transfer, Outside,
       OnCPU, Goto, bufVars, openVars, WriteGivesUp, ReturnFrom
  <1>4. EndsInv'
    BY <1>f, EndsFrame DEF PipeInv
  <1>5. ASSUME NEW q \in Procs PROVE CommittedOf(q)'
    BY ZeroOut DEF PipeInv, Committed, CommittedOf, Activity, ActivityOf,
       LocksHeld, LocksOf, Typing, Empty, Full, NoProc, Critical, OnCPU, Goto,
       bufVars, openVars, WriteGivesUp, ReturnFrom
  <1>6. ASSUME NEW r \in Procs PROVE (ReaderServed(r) /\ WriterServed(r))'
    <2>1. ReaderServed(r)'
      BY ZeroOut, Zenon DEF PipeInv, NoMissedWakeup, ReaderServed,
         WriterServed, Waiting, ReadersToBeWoken, WritersToBeWoken, LocksHeld,
         LocksOf, Activity, ActivityOf, Typing, Empty, Full, Critical,
         Closing, Transfer, Outside, Committed, CommittedOf, SleepChan,
         NoProc, EndsInv, IsOpen, Holders, Ends, OnCPU, Goto, bufVars,
         openVars, WriteGivesUp, ReturnFrom
    <2>2. WriterServed(r)'
      BY ZeroOut DEF PipeInv, NoMissedWakeup, ReaderServed, WriterServed,
         Waiting, ReadersToBeWoken, WritersToBeWoken, LocksHeld, LocksOf,
         Activity, ActivityOf, Typing, Empty, Full, Critical, Closing,
         Transfer, Outside, Committed, CommittedOf, SleepChan, NoProc,
         EndsInv, IsOpen, Holders, Ends, OnCPU, Goto, bufVars, openVars,
         WriteGivesUp, ReturnFrom
    <2> QED BY <2>1, <2>2
  <1> QED BY <1>1, <1>2, <1>3, <1>4, <1>5, <1>6 DEF PipeInv, LocksHeld,
     Activity, Committed, NoMissedWakeup

\* A writer that finds the pipe full wakes the readers.
LEMMA WriteWaitsInv ==
  ASSUME PipeInv, NEW p \in Procs, WriteWaits(p)
  PROVE  PipeInv'
  <1>1. Typing'
    BY Zenon DEF PipeInv, Typing, PipeTypeOK, ProcStates, Ops, Ends, Activity,
       ActivityOf, PipePCs, Outside, Transfer, Closing, OnCPU, Goto, bufVars,
       openVars, WriteWaits, wakeup, wakeup1, LockFree
  <1>2. ASSUME NEW q \in Procs PROVE LocksOf(q)'
    BY ZeroOut DEF PipeInv, LocksHeld, LocksOf, Activity, ActivityOf, Typing,
       Critical, Transfer, Outside, NoProc, OnCPU, Goto, bufVars, openVars,
       WriteWaits, wakeup, wakeup1, LockFree
  <1>3. ASSUME NEW q \in Procs PROVE ActivityOf(q)'
    BY DEF PipeInv, Activity, ActivityOf, SleepChan, Typing, PipeTypeOK, Ends,
       PipePCs, Outside, Transfer, Closing, OnCPU, Goto, bufVars, openVars,
       WriteWaits, wakeup, wakeup1, LockFree
  <1>f. /\ UNCHANGED <<readopen, writeopen, live, ref, ofile>>
        /\ \A q \in Procs :
             pc'[q] \in Closing => pc'[q] = pc[q] /\ op'[q] = op[q]
    BY DEF PipeInv, Typing, Activity, ActivityOf, Closing, Transfer, Outside,
       OnCPU, Goto, bufVars, openVars, WriteWaits, wakeup, wakeup1, LockFree
  <1>4. EndsInv'
    BY <1>f, EndsFrame DEF PipeInv
  <1>5. ASSUME NEW q \in Procs PROVE CommittedOf(q)'
    BY ZeroOut DEF PipeInv, Committed, CommittedOf, Activity, ActivityOf,
       LocksHeld, LocksOf, Typing, Empty, Full, NoProc, Critical, OnCPU, Goto,
       bufVars, openVars, WriteWaits, wakeup, wakeup1, LockFree
  <1>6. ASSUME NEW r \in Procs PROVE (ReaderServed(r) /\ WriterServed(r))'
    <2>1. /\ Full /\ readopen
          /\ \/ pc'[r] = pc[r] /\ op'[r] = op[r]
             \/ pc'[r] \notin {"block", "awake"}
      BY DEF WriteWaits, ReturnFrom, OnCPU, Goto, PipeInv, Typing, LocksHeld,
         LocksOf, Critical, Activity, ActivityOf, Closing, Ends
    <2>2. /\ ~Waiting(r, "read")'
          /\ Waiting(r, "read")' => Waiting(r, "read")
          /\ Waiting(r, "write")' => Waiting(r, "write")
      BY <2>1, NobodyWaits DEF WriteWaits, NreadChan, NwriteChan
    <2>3. Full' /\ readopen'
      BY <2>1 DEF WriteWaits, Full, openVars
    <2> QED BY <2>2, <2>3 DEF ReaderServed, WriterServed
  <1> QED BY <1>1, <1>2, <1>3, <1>4, <1>5, <1>6 DEF PipeInv, LocksHeld,
     Activity, Committed, NoMissedWakeup

\* The end of pipewrite().
LEMMA WriteDoneInv ==
  ASSUME PipeInv, NEW p \in Procs, WriteDone(p)
  PROVE  PipeInv'
  <1>1. Typing'
    BY Zenon DEF PipeInv, Typing, PipeTypeOK, ProcStates, Ops, Ends, Activity,
       ActivityOf, PipePCs, Outside, Transfer, Closing, OnCPU, Goto, bufVars,
       openVars, WriteDone, ReturnFrom, wakeup, wakeup1, LockFree
  <1>2. ASSUME NEW q \in Procs PROVE LocksOf(q)'
    BY ZeroOut DEF PipeInv, LocksHeld, LocksOf, Activity, ActivityOf, Typing,
       Critical, Transfer, Outside, NoProc, OnCPU, Goto, bufVars, openVars,
       WriteDone, ReturnFrom, wakeup, wakeup1, LockFree
  <1>3. ASSUME NEW q \in Procs PROVE ActivityOf(q)'
    BY DEF PipeInv, Activity, ActivityOf, SleepChan, Typing, PipeTypeOK, Ends,
       PipePCs, Outside, Transfer, Closing, OnCPU, Goto, bufVars, openVars,
       WriteDone, ReturnFrom, wakeup, wakeup1, LockFree
  <1>f. /\ UNCHANGED <<readopen, writeopen, live, ref, ofile>>
        /\ \A q \in Procs :
             pc'[q] \in Closing => pc'[q] = pc[q] /\ op'[q] = op[q]
    BY DEF PipeInv, Typing, Activity, ActivityOf, Closing, Transfer, Outside,
       OnCPU, Goto, bufVars, openVars, WriteDone, ReturnFrom, wakeup, wakeup1,
       LockFree
  <1>4. EndsInv'
    BY <1>f, EndsFrame DEF PipeInv
  <1>5. ASSUME NEW q \in Procs PROVE CommittedOf(q)'
    BY ZeroOut DEF PipeInv, Committed, CommittedOf, Activity, ActivityOf,
       LocksHeld, LocksOf, Typing, Empty, Full, NoProc, Critical, OnCPU, Goto,
       bufVars, openVars, WriteDone, ReturnFrom, wakeup, wakeup1, LockFree
  <1>6. ASSUME NEW r \in Procs PROVE (ReaderServed(r) /\ WriterServed(r))'
    <2>1. /\ plock = p /\ pc[p] = "write"
          /\ \/ pc'[r] = pc[r] /\ op'[r] = op[r]
             \/ pc'[r] \notin {"block", "awake"}
      BY DEF WriteDone, ReturnFrom, OnCPU, Goto, PipeInv, Typing, LocksHeld,
         LocksOf, Critical, Activity, ActivityOf, Closing, Ends
    <2>2. /\ ~Waiting(r, "read")'
          /\ Waiting(r, "read")' => Waiting(r, "read")
          /\ Waiting(r, "write")' => Waiting(r, "write")
      BY <2>1, NobodyWaits DEF WriteDone, NreadChan, NwriteChan
    <2>3. ~WritersToBeWoken
      BY <2>1 DEF WritersToBeWoken
    <2>4. Full' = Full /\ readopen' = readopen
      BY DEF WriteDone, Full, openVars
    <2> QED BY <2>2, <2>3, <2>4 DEF PipeInv, NoMissedWakeup, ReaderServed,
           WriterServed
  <1> QED BY <1>1, <1>2, <1>3, <1>4, <1>5, <1>6 DEF PipeInv, LocksHeld,
     Activity, Committed, NoMissedWakeup

\* A killed reader returns from an empty pipe.
LEMMA ReadGivesUpInv ==
  ASSUME PipeInv, NEW p \in Procs, ReadGivesUp(p)
  PROVE  PipeInv'
  <1>1. Typing'
    BY DEF PipeInv, Typing, PipeTypeOK, ProcStates, Ops, Ends, Activity,
       ActivityOf, PipePCs, Outside, Transfer, Closing, OnCPU, Goto, bufVars,
       openVars, ReadGivesUp, ReturnFrom
  <1>2. ASSUME NEW q \in Procs PROVE LocksOf(q)'
    BY ZeroOut DEF PipeInv, LocksHeld, LocksOf, Activity, ActivityOf, Typing,
       Critical, Transfer, Outside, NoProc, OnCPU, Goto, bufVars, openVars,
       ReadGivesUp, ReturnFrom
  <1>3. ASSUME NEW q \in Procs PROVE ActivityOf(q)'
    BY DEF PipeInv, Activity, ActivityOf, SleepChan, Typing, PipeTypeOK, Ends,
       PipePCs, Outside, Transfer, Closing, OnCPU, Goto, bufVars, openVars,
       ReadGivesUp, ReturnFrom
  <1>f. /\ UNCHANGED <<readopen, writeopen, live, ref, ofile>>
        /\ \A q \in Procs :
             pc'[q] \in Closing => pc'[q] = pc[q] /\ op'[q] = op[q]
    BY DEF PipeInv, Typing, Activity, ActivityOf, Closing, Transfer, Outside,
       OnCPU, Goto, bufVars, openVars, ReadGivesUp, ReturnFrom
  <1>4. EndsInv'
    BY <1>f, EndsFrame DEF PipeInv
  <1>5. ASSUME NEW q \in Procs PROVE CommittedOf(q)'
    BY ZeroOut DEF PipeInv, Committed, CommittedOf, Activity, ActivityOf,
       LocksHeld, LocksOf, Typing, Empty, Full, NoProc, Critical, OnCPU, Goto,
       bufVars, openVars, ReadGivesUp, ReturnFrom
  <1>6. ASSUME NEW r \in Procs PROVE (ReaderServed(r) /\ WriterServed(r))'
    <2>1. ReaderServed(r)'
      BY ZeroOut DEF PipeInv, NoMissedWakeup, ReaderServed, WriterServed,
         Waiting, ReadersToBeWoken, WritersToBeWoken, LocksHeld, LocksOf,
         Activity, ActivityOf, Typing, Empty, Full, Critical, Closing,
         Transfer, Outside, Committed, CommittedOf, SleepChan, NoProc, OnCPU,
         Goto, bufVars, openVars, ReadGivesUp, ReturnFrom
    <2>2. WriterServed(r)'
      BY ZeroOut DEF PipeInv, NoMissedWakeup, ReaderServed, WriterServed,
         Waiting, ReadersToBeWoken, WritersToBeWoken, LocksHeld, LocksOf,
         Activity, ActivityOf, Typing, Empty, Full, Critical, Closing,
         Transfer, Outside, Committed, CommittedOf, SleepChan, NoProc, OnCPU,
         Goto, bufVars, openVars, ReadGivesUp, ReturnFrom
    <2> QED BY <2>1, <2>2
  <1> QED BY <1>1, <1>2, <1>3, <1>4, <1>5, <1>6 DEF PipeInv, LocksHeld,
     Activity, Committed, NoMissedWakeup

\* A reader that finds the pipe empty goes to sleep.
LEMMA ReadWaitsInv ==
  ASSUME PipeInv, NEW p \in Procs, ReadWaits(p)
  PROVE  PipeInv'
  <1>1. Typing'
    BY DEF PipeInv, Typing, PipeTypeOK, ProcStates, Ops, Ends, Activity,
       ActivityOf, PipePCs, Outside, Transfer, Closing, OnCPU, Goto, bufVars,
       openVars, ReadWaits, pipeVars
  <1>2. ASSUME NEW q \in Procs PROVE LocksOf(q)'
    BY ZeroOut DEF PipeInv, LocksHeld, LocksOf, Activity, ActivityOf, Typing,
       Critical, Transfer, Outside, NoProc, OnCPU, Goto, bufVars, openVars,
       ReadWaits, pipeVars
  <1>3. ASSUME NEW q \in Procs PROVE ActivityOf(q)'
    BY DEF PipeInv, Activity, ActivityOf, SleepChan, Typing, PipeTypeOK, Ends,
       PipePCs, Outside, Transfer, Closing, OnCPU, Goto, bufVars, openVars,
       ReadWaits, pipeVars
  <1>f. /\ UNCHANGED <<readopen, writeopen, live, ref, ofile>>
        /\ \A q \in Procs :
             pc'[q] \in Closing => pc'[q] = pc[q] /\ op'[q] = op[q]
    BY DEF PipeInv, Typing, Activity, ActivityOf, Closing, Transfer, Outside,
       OnCPU, Goto, bufVars, openVars, ReadWaits, pipeVars
  <1>4. EndsInv'
    BY <1>f, EndsFrame DEF PipeInv
  <1>5. ASSUME NEW q \in Procs PROVE CommittedOf(q)'
    BY ZeroOut DEF PipeInv, Committed, CommittedOf, Activity, ActivityOf,
       LocksHeld, LocksOf, Typing, Empty, Full, NoProc, Critical, OnCPU, Goto,
       bufVars, openVars, ReadWaits, pipeVars
  <1>6. ASSUME NEW r \in Procs PROVE (ReaderServed(r) /\ WriterServed(r))'
    <2>1. ReaderServed(r)'
      BY ZeroOut DEF PipeInv, NoMissedWakeup, ReaderServed, WriterServed,
         Waiting, ReadersToBeWoken, WritersToBeWoken, LocksHeld, LocksOf,
         Activity, ActivityOf, Typing, Empty, Full, Critical, Closing,
         Transfer, Outside, Committed, CommittedOf, SleepChan, NoProc, OnCPU,
         Goto, bufVars, openVars, ReadWaits, pipeVars
    <2>2. WriterServed(r)'
      BY ZeroOut DEF PipeInv, NoMissedWakeup, ReaderServed, WriterServed,
         Waiting, ReadersToBeWoken, WritersToBeWoken, LocksHeld, LocksOf,
         Activity, ActivityOf, Typing, Empty, Full, Critical, Closing,
         Transfer, Outside, Committed, CommittedOf, SleepChan, NoProc, OnCPU,
         Goto, bufVars, openVars, ReadWaits, pipeVars
    <2> QED BY <2>1, <2>2
  <1> QED BY <1>1, <1>2, <1>3, <1>4, <1>5, <1>6 DEF PipeInv, LocksHeld,
     Activity, Committed, NoMissedWakeup

\* A reader that has something to copy, or the end of file.
LEMMA ReadStartsInv ==
  ASSUME PipeInv, NEW p \in Procs, ReadStarts(p)
  PROVE  PipeInv'
  <1>1. Typing'
    BY DEF PipeInv, Typing, PipeTypeOK, ProcStates, Ops, Ends, Activity,
       ActivityOf, PipePCs, Outside, Transfer, Closing, OnCPU, Goto, bufVars,
       openVars, ReadStarts, pipeVars
  <1>2. ASSUME NEW q \in Procs PROVE LocksOf(q)'
    BY ZeroOut DEF PipeInv, LocksHeld, LocksOf, Activity, ActivityOf, Typing,
       Critical, Transfer, Outside, NoProc, OnCPU, Goto, bufVars, openVars,
       ReadStarts, pipeVars
  <1>3. ASSUME NEW q \in Procs PROVE ActivityOf(q)'
    BY DEF PipeInv, Activity, ActivityOf, SleepChan, Typing, PipeTypeOK, Ends,
       PipePCs, Outside, Transfer, Closing, OnCPU, Goto, bufVars, openVars,
       ReadStarts, pipeVars
  <1>f. /\ UNCHANGED <<readopen, writeopen, live, ref, ofile>>
        /\ \A q \in Procs :
             pc'[q] \in Closing => pc'[q] = pc[q] /\ op'[q] = op[q]
    BY DEF PipeInv, Typing, Activity, ActivityOf, Closing, Transfer, Outside,
       OnCPU, Goto, bufVars, openVars, ReadStarts, pipeVars
  <1>4. EndsInv'
    BY <1>f, EndsFrame DEF PipeInv
  <1>5. ASSUME NEW q \in Procs PROVE CommittedOf(q)'
    BY ZeroOut DEF PipeInv, Committed, CommittedOf, Activity, ActivityOf,
       LocksHeld, LocksOf, Typing, Empty, Full, NoProc, Critical, OnCPU, Goto,
       bufVars, openVars, ReadStarts, pipeVars
  <1>6. ASSUME NEW r \in Procs PROVE (ReaderServed(r) /\ WriterServed(r))'
    <2>1. ReaderServed(r)'
      BY ZeroOut DEF PipeInv, NoMissedWakeup, ReaderServed, WriterServed,
         Waiting, ReadersToBeWoken, WritersToBeWoken, LocksHeld, LocksOf,
         Activity, ActivityOf, Typing, Empty, Full, Critical, Closing,
         Transfer, Outside, Committed, CommittedOf, SleepChan, NoProc, OnCPU,
         Goto, bufVars, openVars, ReadStarts, pipeVars
    <2>2. WriterServed(r)'
      BY ZeroOut DEF PipeInv, NoMissedWakeup, ReaderServed, WriterServed,
         Waiting, ReadersToBeWoken, WritersToBeWoken, LocksHeld, LocksOf,
         Activity, ActivityOf, Typing, Empty, Full, Critical, Closing,
         Transfer, Outside, Committed, CommittedOf, SleepChan, NoProc, OnCPU,
         Goto, bufVars, openVars, ReadStarts, pipeVars
    <2> QED BY <2>1, <2>2
  <1> QED BY <1>1, <1>2, <1>3, <1>4, <1>5, <1>6 DEF PipeInv, LocksHeld,
     Activity, Committed, NoMissedWakeup

\* A byte read: the reader will wake the writers before it lets go.
LEMMA TakeByteInv ==
  ASSUME PipeInv, NEW p \in Procs, TakeByte(p)
  PROVE  PipeInv'
  <1>a. /\ nread' \in 0..(Wrap - 1) /\ left' \in [Procs -> Nat]
    BY PipeAssumption DEF PipeInv, Typing, PipeTypeOK, TakeByte
  <1>1. Typing'
    BY <1>a DEF PipeInv, Typing, PipeTypeOK, ProcStates, Ops, Ends, Activity,
       ActivityOf, PipePCs, Outside, Transfer, Closing, OnCPU, Goto, bufVars,
       openVars, TakeByte, procVars
  <1>2. ASSUME NEW q \in Procs PROVE LocksOf(q)'
    BY ZeroOut DEF PipeInv, LocksHeld, LocksOf, Activity, ActivityOf, Typing,
       Critical, Transfer, Outside, NoProc, OnCPU, Goto, bufVars, openVars,
       TakeByte, procVars
  <1>3. ASSUME NEW q \in Procs PROVE ActivityOf(q)'
    BY DEF PipeInv, Activity, ActivityOf, SleepChan, Typing, PipeTypeOK, Ends,
       PipePCs, Outside, Transfer, Closing, OnCPU, Goto, bufVars, openVars,
       TakeByte, procVars
  <1>f. /\ UNCHANGED <<readopen, writeopen, live, ref, ofile>>
        /\ \A q \in Procs :
             pc'[q] \in Closing => pc'[q] = pc[q] /\ op'[q] = op[q]
    BY DEF PipeInv, Typing, Activity, ActivityOf, Closing, Transfer, Outside,
       OnCPU, Goto, bufVars, openVars, TakeByte, procVars
  <1>4. EndsInv'
    BY <1>f, EndsFrame DEF PipeInv
  <1>5. ASSUME NEW q \in Procs PROVE CommittedOf(q)'
    BY ZeroOut DEF PipeInv, Committed, CommittedOf, Activity, ActivityOf,
       LocksHeld, LocksOf, Typing, Empty, Full, NoProc, Critical, OnCPU, Goto,
       bufVars, openVars, TakeByte, procVars
  <1>6. ASSUME NEW r \in Procs PROVE (ReaderServed(r) /\ WriterServed(r))'
    <2>1. ReaderServed(r)'
      BY ZeroOut DEF PipeInv, NoMissedWakeup, ReaderServed, WriterServed,
         Waiting, ReadersToBeWoken, WritersToBeWoken, LocksHeld, LocksOf,
         Activity, ActivityOf, Typing, Empty, Full, Critical, Closing,
         Transfer, Outside, Committed, CommittedOf, SleepChan, NoProc, OnCPU,
         Goto, bufVars, openVars, TakeByte, procVars
    <2>2. WriterServed(r)'
      BY ZeroOut DEF PipeInv, NoMissedWakeup, ReaderServed, WriterServed,
         Waiting, ReadersToBeWoken, WritersToBeWoken, LocksHeld, LocksOf,
         Activity, ActivityOf, Typing, Empty, Full, Critical, Closing,
         Transfer, Outside, Committed, CommittedOf, SleepChan, NoProc, OnCPU,
         Goto, bufVars, openVars, TakeByte, procVars
    <2> QED BY <2>1, <2>2
  <1> QED BY <1>1, <1>2, <1>3, <1>4, <1>5, <1>6 DEF PipeInv, LocksHeld,
     Activity, Committed, NoMissedWakeup

\* The end of piperead().
LEMMA ReadDoneInv ==
  ASSUME PipeInv, NEW p \in Procs, ReadDone(p)
  PROVE  PipeInv'
  <1>1. Typing'
    BY DEF PipeInv, Typing, PipeTypeOK, ProcStates, Ops, Ends, Activity,
       ActivityOf, PipePCs, Outside, Transfer, Closing, OnCPU, Goto, bufVars,
       openVars, ReadDone, ReturnFrom, wakeup, wakeup1, LockFree
  <1>2. ASSUME NEW q \in Procs PROVE LocksOf(q)'
    BY ZeroOut DEF PipeInv, LocksHeld, LocksOf, Activity, ActivityOf, Typing,
       Critical, Transfer, Outside, NoProc, OnCPU, Goto, bufVars, openVars,
       ReadDone, ReturnFrom, wakeup, wakeup1, LockFree
  <1>3. ASSUME NEW q \in Procs PROVE ActivityOf(q)'
    BY DEF PipeInv, Activity, ActivityOf, SleepChan, Typing, PipeTypeOK, Ends,
       PipePCs, Outside, Transfer, Closing, OnCPU, Goto, bufVars, openVars,
       ReadDone, ReturnFrom, wakeup, wakeup1, LockFree
  <1>f. /\ UNCHANGED <<readopen, writeopen, live, ref, ofile>>
        /\ \A q \in Procs :
             pc'[q] \in Closing => pc'[q] = pc[q] /\ op'[q] = op[q]
    BY DEF PipeInv, Typing, Activity, ActivityOf, Closing, Transfer, Outside,
       OnCPU, Goto, bufVars, openVars, ReadDone, ReturnFrom, wakeup, wakeup1,
       LockFree
  <1>4. EndsInv'
    BY <1>f, EndsFrame DEF PipeInv
  <1>5. ASSUME NEW q \in Procs PROVE CommittedOf(q)'
    <2>1. plock = p /\ pc[p] = "copy"
      BY DEF ReadDone, OnCPU, PipeInv, LocksHeld, LocksOf, Critical
    <2>2. pc[q] \notin {"sleep", "release"}
      BY <2>1 DEF PipeInv, LocksHeld, LocksOf, Critical
    <2>3. pc'[q] \in {pc[q], "ret"}
      BY DEF ReadDone, ReturnFrom, Goto, PipeInv, Typing
    <2> QED BY <2>2, <2>3 DEF CommittedOf
  <1>6. ASSUME NEW r \in Procs PROVE (ReaderServed(r) /\ WriterServed(r))'
    <2>1. /\ plock = p /\ pc[p] = "copy"
          /\ \/ pc'[r] = pc[r] /\ op'[r] = op[r]
             \/ pc'[r] \notin {"block", "awake"}
      BY DEF ReadDone, ReturnFrom, OnCPU, Goto, PipeInv, Typing, LocksHeld,
         LocksOf, Critical, Activity, ActivityOf, Closing, Ends
    <2>2. /\ ~Waiting(r, "write")'
          /\ Waiting(r, "read")' => Waiting(r, "read")
          /\ Waiting(r, "write")' => Waiting(r, "write")
      BY <2>1, NobodyWaits DEF ReadDone, NreadChan, NwriteChan
    <2>3. ~ReadersToBeWoken
      BY <2>1 DEF ReadersToBeWoken
    <2>4. UNCHANGED <<Empty, writeopen, deserted>>
      BY DEF ReadDone, Empty, openVars
    <2> QED BY <2>2, <2>3, <2>4 DEF PipeInv, NoMissedWakeup, ReaderServed,
           WriterServed
  <1> QED BY <1>1, <1>2, <1>3, <1>4, <1>5, <1>6 DEF PipeInv, LocksHeld,
     Activity, Committed, NoMissedWakeup

\* sleep() takes ptable.lock under the lock of the pipe.
LEMMA PipeSleepLockInv ==
  ASSUME PipeInv, NEW p \in Procs, PipeSleepLock(p)
  PROVE  PipeInv'
  <1>1. Typing'
    BY DEF PipeInv, Typing, PipeTypeOK, ProcStates, Ops, Ends, Activity,
       ActivityOf, PipePCs, Outside, Transfer, Closing, OnCPU, Goto, bufVars,
       openVars, PipeSleepLock, SleepLock, pipeVars
  <1>2. ASSUME NEW q \in Procs PROVE LocksOf(q)'
    BY ZeroOut DEF PipeInv, LocksHeld, LocksOf, Activity, ActivityOf, Typing,
       Critical, Transfer, Outside, NoProc, OnCPU, Goto, bufVars, openVars,
       PipeSleepLock, SleepLock, pipeVars
  <1>3. ASSUME NEW q \in Procs PROVE ActivityOf(q)'
    BY DEF PipeInv, Activity, ActivityOf, SleepChan, Typing, PipeTypeOK, Ends,
       PipePCs, Outside, Transfer, Closing, OnCPU, Goto, bufVars, openVars,
       PipeSleepLock, SleepLock, pipeVars
  <1>f. /\ UNCHANGED <<readopen, writeopen, live, ref, ofile>>
        /\ \A q \in Procs :
             pc'[q] \in Closing => pc'[q] = pc[q] /\ op'[q] = op[q]
    BY DEF PipeInv, Typing, Activity, ActivityOf, Closing, Transfer, Outside,
       OnCPU, Goto, bufVars, openVars, PipeSleepLock, SleepLock, pipeVars
  <1>4. EndsInv'
    BY <1>f, EndsFrame DEF PipeInv
  <1>5. ASSUME NEW q \in Procs PROVE CommittedOf(q)'
    BY ZeroOut DEF PipeInv, Committed, CommittedOf, Activity, ActivityOf,
       LocksHeld, LocksOf, Typing, Empty, Full, NoProc, Critical, OnCPU, Goto,
       bufVars, openVars, PipeSleepLock, SleepLock, pipeVars
  <1>6. ASSUME NEW r \in Procs PROVE (ReaderServed(r) /\ WriterServed(r))'
    <2>1. ReaderServed(r)'
      BY ZeroOut DEF PipeInv, NoMissedWakeup, ReaderServed, WriterServed,
         Waiting, ReadersToBeWoken, WritersToBeWoken, LocksHeld, LocksOf,
         Activity, ActivityOf, Typing, Empty, Full, Critical, Closing,
         Transfer, Outside, Committed, CommittedOf, SleepChan, NoProc, OnCPU,
         Goto, bufVars, openVars, PipeSleepLock, SleepLock, pipeVars
    <2>2. WriterServed(r)'
      BY ZeroOut DEF PipeInv, NoMissedWakeup, ReaderServed, WriterServed,
         Waiting, ReadersToBeWoken, WritersToBeWoken, LocksHeld, LocksOf,
         Activity, ActivityOf, Typing, Empty, Full, Critical, Closing,
         Transfer, Outside, Committed, CommittedOf, SleepChan, NoProc, OnCPU,
         Goto, bufVars, openVars, PipeSleepLock, SleepLock, pipeVars
    <2> QED BY <2>1, <2>2
  <1> QED BY <1>1, <1>2, <1>3, <1>4, <1>5, <1>6 DEF PipeInv, LocksHeld,
     Activity, Committed, NoMissedWakeup

\* sleep() lets go of the lock of the pipe.
LEMMA PipeSleepReleaseInv ==
  ASSUME PipeInv, NEW p \in Procs, PipeSleepRelease(p)
  PROVE  PipeInv'
  <1>1. Typing'
    BY DEF PipeInv, Typing, PipeTypeOK, ProcStates, Ops, Ends, Activity,
       ActivityOf, PipePCs, Outside, Transfer, Closing, OnCPU, Goto, bufVars,
       openVars, PipeSleepRelease, SleepRelease
  <1>2. ASSUME NEW q \in Procs PROVE LocksOf(q)'
    BY ZeroOut DEF PipeInv, LocksHeld, LocksOf, Activity, ActivityOf, Typing,
       Critical, Transfer, Outside, NoProc, OnCPU, Goto, bufVars, openVars,
       PipeSleepRelease, SleepRelease
  <1>3. ASSUME NEW q \in Procs PROVE ActivityOf(q)'
    BY DEF PipeInv, Activity, ActivityOf, SleepChan, Typing, PipeTypeOK, Ends,
       PipePCs, Outside, Transfer, Closing, OnCPU, Goto, bufVars, openVars,
       PipeSleepRelease, SleepRelease
  <1>f. /\ UNCHANGED <<readopen, writeopen, live, ref, ofile>>
        /\ \A q \in Procs :
             pc'[q] \in Closing => pc'[q] = pc[q] /\ op'[q] = op[q]
    BY DEF PipeInv, Typing, Activity, ActivityOf, Closing, Transfer, Outside,
       OnCPU, Goto, bufVars, openVars, PipeSleepRelease, SleepRelease
  <1>4. EndsInv'
    BY <1>f, EndsFrame DEF PipeInv
  <1>5. ASSUME NEW q \in Procs PROVE CommittedOf(q)'
    BY ZeroOut DEF PipeInv, Committed, CommittedOf, Activity, ActivityOf,
       LocksHeld, LocksOf, Typing, Empty, Full, NoProc, Critical, OnCPU, Goto,
       bufVars, openVars, PipeSleepRelease, SleepRelease
  <1>6. ASSUME NEW r \in Procs PROVE (ReaderServed(r) /\ WriterServed(r))'
    <2>1. ReaderServed(r)'
      BY ZeroOut DEF PipeInv, NoMissedWakeup, ReaderServed, WriterServed,
         Waiting, ReadersToBeWoken, WritersToBeWoken, LocksHeld, LocksOf,
         Activity, ActivityOf, Typing, Empty, Full, Critical, Closing,
         Transfer, Outside, Committed, CommittedOf, SleepChan, NoProc, OnCPU,
         Goto, bufVars, openVars, PipeSleepRelease, SleepRelease
    <2>2. WriterServed(r)'
      BY ZeroOut DEF PipeInv, NoMissedWakeup, ReaderServed, WriterServed,
         Waiting, ReadersToBeWoken, WritersToBeWoken, LocksHeld, LocksOf,
         Activity, ActivityOf, Typing, Empty, Full, Critical, Closing,
         Transfer, Outside, Committed, CommittedOf, SleepChan, NoProc, OnCPU,
         Goto, bufVars, openVars, PipeSleepRelease, SleepRelease
    <2> QED BY <2>1, <2>2
  <1> QED BY <1>1, <1>2, <1>3, <1>4, <1>5, <1>6 DEF PipeInv, LocksHeld,
     Activity, Committed, NoMissedWakeup

\* sleep() gives up the CPU.
LEMMA PipeSleepBlockInv ==
  ASSUME PipeInv, NEW p \in Procs, PipeSleepBlock(p)
  PROVE  PipeInv'
  <1>1. Typing'
    BY DEF PipeInv, Typing, PipeTypeOK, ProcStates, Ops, Ends, Activity,
       ActivityOf, PipePCs, Outside, Transfer, Closing, OnCPU, Goto, bufVars,
       openVars, PipeSleepBlock, SleepBlock, pipeVars
  <1>2. ASSUME NEW q \in Procs PROVE LocksOf(q)'
    BY ZeroOut DEF PipeInv, LocksHeld, LocksOf, Activity, ActivityOf, Typing,
       Critical, Transfer, Outside, NoProc, OnCPU, Goto, bufVars, openVars,
       PipeSleepBlock, SleepBlock, pipeVars
  <1>3. ASSUME NEW q \in Procs PROVE ActivityOf(q)'
    BY DEF PipeInv, Activity, ActivityOf, SleepChan, Typing, PipeTypeOK, Ends,
       PipePCs, Outside, Transfer, Closing, OnCPU, Goto, bufVars, openVars,
       PipeSleepBlock, SleepBlock, pipeVars
  <1>f. /\ UNCHANGED <<readopen, writeopen, live, ref, ofile>>
        /\ \A q \in Procs :
             pc'[q] \in Closing => pc'[q] = pc[q] /\ op'[q] = op[q]
    BY DEF PipeInv, Typing, Activity, ActivityOf, Closing, Transfer, Outside,
       OnCPU, Goto, bufVars, openVars, PipeSleepBlock, SleepBlock, pipeVars
  <1>4. EndsInv'
    BY <1>f, EndsFrame DEF PipeInv
  <1>5. ASSUME NEW q \in Procs PROVE CommittedOf(q)'
    BY ZeroOut DEF PipeInv, Committed, CommittedOf, Activity, ActivityOf,
       LocksHeld, LocksOf, Typing, Empty, Full, NoProc, Critical, OnCPU, Goto,
       bufVars, openVars, PipeSleepBlock, SleepBlock, pipeVars
  <1>6. ASSUME NEW r \in Procs PROVE (ReaderServed(r) /\ WriterServed(r))'
    <2>1. ReaderServed(r)'
      BY ZeroOut DEF PipeInv, NoMissedWakeup, ReaderServed, WriterServed,
         Waiting, ReadersToBeWoken, WritersToBeWoken, LocksHeld, LocksOf,
         Activity, ActivityOf, Typing, Empty, Full, Critical, Closing,
         Transfer, Outside, Committed, CommittedOf, SleepChan, NoProc, OnCPU,
         Goto, bufVars, openVars, PipeSleepBlock, SleepBlock, pipeVars
    <2>2. WriterServed(r)'
      BY ZeroOut DEF PipeInv, NoMissedWakeup, ReaderServed, WriterServed,
         Waiting, ReadersToBeWoken, WritersToBeWoken, LocksHeld, LocksOf,
         Activity, ActivityOf, Typing, Empty, Full, Critical, Closing,
         Transfer, Outside, Committed, CommittedOf, SleepChan, NoProc, OnCPU,
         Goto, bufVars, openVars, PipeSleepBlock, SleepBlock, pipeVars
    <2> QED BY <2>1, <2>2
  <1> QED BY <1>1, <1>2, <1>3, <1>4, <1>5, <1>6 DEF PipeInv, LocksHeld,
     Activity, Committed, NoMissedWakeup

=============================================================================
