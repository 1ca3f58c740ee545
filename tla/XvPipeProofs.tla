---------------------------- MODULE XvPipeProofs ----------------------------
(***************************************************************************)
(* Proofs about the xv6 pipe for any number of processes, any size of the  *)
(* buffer and any way of sharing the two ends.  The invariant and the      *)
(* calls that move bytes are in XvPipeTransfer; here are closing, the      *)
(* steps of the process table and the theorems.                            *)
(***************************************************************************)
EXTENDS XvPipeTransfer
-----------------------------------------------------------------------------
(* Closing. *)

\* pipeclose() shuts an end under the lock.
LEMMA PipeCloseEndInv ==
  ASSUME PipeInv, NEW p \in Procs, PipeCloseEnd(p)
  PROVE  PipeInv'
  <1>1. Typing'
    BY Zenon DEF PipeInv, Typing, PipeTypeOK, ProcStates, Ops, Ends, Activity,
       ActivityOf, PipePCs, Outside, Transfer, Closing, OnCPU, Goto, bufVars,
       openVars, PipeCloseEnd
  <1>2. ASSUME NEW q \in Procs PROVE LocksOf(q)'
    BY ZeroOut DEF PipeInv, LocksHeld, LocksOf, Activity, ActivityOf, Typing,
       Critical, Transfer, Outside, NoProc, OnCPU, Goto, bufVars, openVars,
       PipeCloseEnd
  <1>3. ASSUME NEW q \in Procs PROVE ActivityOf(q)'
    BY DEF PipeInv, Activity, ActivityOf, SleepChan, Typing, PipeTypeOK, Ends,
       PipePCs, Outside, Transfer, Closing, OnCPU, Goto, bufVars, openVars,
       PipeCloseEnd
  <1>4. EndsInv'
    <2>1. /\ \A e : Holders(e)' = Holders(e)
          /\ UNCHANGED <<live, ref, op>> /\ pc' = [pc EXCEPT ![p] = "closed"]
          /\ pc[p] = "pipeclose" /\ op[p] \in Ends
      BY DEF PipeInv, Activity, ActivityOf, Closing, PipeCloseEnd, OnCPU, Goto,
         Holders
    <2>2. \A e \in Ends \ {op[p]} : IsOpen(e)' = IsOpen(e)
      BY <2>1 DEF PipeCloseEnd, IsOpen, Ends
    <2>3. /\ Holders(op[p]) = {} /\ IsOpen(op[p])
          /\ \A q \in Procs \ {p} : pc[q] \in Closing => op[q] # op[p]
      BY <2>1 DEF PipeInv, EndsInv, Closing
    <2>4. live /\ (live \/ ~(readopen \/ writeopen))'
      BY <2>1, <2>3 DEF PipeInv, EndsInv, IsOpen
    <2>5. \A e \in Ends : (ref[e] = Cardinality(Holders(e)))'
      BY <2>1 DEF PipeInv, EndsInv
    <2>6. \A e \in Ends : (Holders(e) # {} => IsOpen(e))'
      BY <2>1, <2>2, <2>3 DEF PipeInv, EndsInv
    <2>7. ASSUME NEW q \in Procs
          PROVE  (/\ pc[q] \in Closing => Holders(op[q]) = {}
                  /\ pc[q] = "pipeclose" => IsOpen(op[q])
                  /\ pc[q] = "closed" => live)'
      <3>1. CASE q = p
        BY <2>1, <2>3, <2>4, <3>1 DEF PipeInv, Typing
      <3>2. CASE q # p
        BY <2>1, <2>2, <2>3, <2>4, <3>2 DEF PipeInv, EndsInv, Typing, Activity,
           ActivityOf, Closing
      <3> QED BY <3>1, <3>2
    <2>8. ASSUME NEW q \in Procs, NEW r \in Procs
          PROVE  (q # r /\ pc[q] \in Closing /\ pc[r] \in Closing
                    => op[q] # op[r])'
      BY <2>1 DEF PipeInv, EndsInv, Typing, Closing
    <2> QED BY <2>4, <2>5, <2>6, <2>7, <2>8 DEF EndsInv
  <1>5. ASSUME NEW q \in Procs PROVE CommittedOf(q)'
    BY ZeroOut DEF PipeInv, Committed, CommittedOf, Activity, ActivityOf,
       LocksHeld, LocksOf, Typing, Empty, Full, NoProc, Critical, OnCPU, Goto,
       bufVars, openVars, PipeCloseEnd
  <1>6. ASSUME NEW r \in Procs PROVE (ReaderServed(r) /\ WriterServed(r))'
    <2>1. /\ plock = NoProc /\ plock' = p /\ op[p] \in {"r", "w"}
          /\ pc[p] = "pipeclose" /\ pc' = [pc EXCEPT ![p] = "closed"]
          /\ UNCHANGED <<op, state, nread, nwrite, deserted>>
      BY DEF PipeCloseEnd, OnCPU, Goto, bufVars, PipeInv, Activity, ActivityOf,
         Closing, Ends
    <2>2. /\ Waiting(r, "read")' => Waiting(r, "read")
          /\ Waiting(r, "write")' => Waiting(r, "write")
      BY <2>1 DEF Waiting, PipeInv, Typing
    <2>3. ~ReadersToBeWoken /\ ~WritersToBeWoken
      BY <2>1, ZeroOut DEF ReadersToBeWoken, WritersToBeWoken, NoProc
    <2>4. /\ op[p] = "w" => ReadersToBeWoken' /\ readopen' = readopen
          /\ op[p] = "r" => WritersToBeWoken' /\ writeopen' = writeopen
      BY <2>1 DEF ReadersToBeWoken, WritersToBeWoken, PipeCloseEnd, PipeInv,
         Typing
    <2>5. UNCHANGED <<Empty, Full>>
      BY <2>1 DEF Empty, Full
    <2> QED BY <2>1, <2>2, <2>3, <2>4, <2>5 DEF PipeInv, NoMissedWakeup,
           ReaderServed, WriterServed
  <1> QED BY <1>1, <1>2, <1>3, <1>4, <1>5, <1>6 DEF PipeInv, LocksHeld,
     Activity, Committed, NoMissedWakeup

\* pipeclose() wakes the other side.
LEMMA PipeCloseWakeInv ==
  ASSUME PipeInv, NEW p \in Procs, PipeCloseWake(p)
  PROVE  PipeInv'
  <1>1. Typing'
    BY DEF PipeInv, Typing, PipeTypeOK, ProcStates, Ops, Ends, Activity,
       ActivityOf, PipePCs, Outside, Transfer, Closing, OnCPU, Goto, bufVars,
       openVars, PipeCloseWake, wakeup, wakeup1, LockFree
  <1>2. ASSUME NEW q \in Procs PROVE LocksOf(q)'
    BY ZeroOut DEF PipeInv, LocksHeld, LocksOf, Activity, ActivityOf, Typing,
       Critical, Transfer, Outside, NoProc, OnCPU, Goto, bufVars, openVars,
       PipeCloseWake, wakeup, wakeup1, LockFree
  <1>3. ASSUME NEW q \in Procs PROVE ActivityOf(q)'
    BY DEF PipeInv, Activity, ActivityOf, SleepChan, Typing, PipeTypeOK, Ends,
       PipePCs, Outside, Transfer, Closing, OnCPU, Goto, bufVars, openVars,
       PipeCloseWake, wakeup, wakeup1, LockFree
  <1>4. EndsInv'
    <2>1. /\ \A e : Holders(e)' = Holders(e) /\ IsOpen(e)' = IsOpen(e)
          /\ UNCHANGED <<ref, readopen, writeopen>>
          /\ live' = (readopen \/ writeopen)
      BY DEF PipeCloseWake, Holders, IsOpen
    <2>2. /\ pc'[p] \notin Closing /\ plock = p
          /\ \A q \in Procs \ {p} : pc'[q] = pc[q] /\ op'[q] = op[q]
      BY DEF PipeCloseWake, OnCPU, Goto, PipeInv, Typing, LocksHeld, LocksOf,
         Closing, Critical
    <2>3. \A q \in Procs : pc'[q] # "closed"
      BY <2>2 DEF PipeInv, LocksHeld, LocksOf, Closing, Critical
    <2>4. \A e \in Ends : (/\ ref[e] = Cardinality(Holders(e))
                           /\ Holders(e) # {} => IsOpen(e))'
      BY <2>1 DEF PipeInv, EndsInv
    <2>5. ASSUME NEW q \in Procs
          PROVE  (/\ pc[q] \in Closing => Holders(op[q]) = {}
                  /\ pc[q] = "pipeclose" => IsOpen(op[q]))'
      BY <2>1, <2>2 DEF PipeInv, EndsInv, Closing
    <2>6. ASSUME NEW q \in Procs, NEW r \in Procs
          PROVE  (q # r /\ pc[q] \in Closing /\ pc[r] \in Closing
                    => op[q] # op[r])'
      BY <2>2 DEF PipeInv, EndsInv
    <2> QED BY <2>1, <2>3, <2>4, <2>5, <2>6, Zenon DEF EndsInv
  <1>5. ASSUME NEW q \in Procs PROVE CommittedOf(q)'
    BY ZeroOut DEF PipeInv, Committed, CommittedOf, Activity, ActivityOf,
       LocksHeld, LocksOf, Typing, Empty, Full, NoProc, Critical, OnCPU, Goto,
       bufVars, openVars, PipeCloseWake, wakeup, wakeup1, LockFree
  <1>6. ASSUME NEW r \in Procs PROVE (ReaderServed(r) /\ WriterServed(r))'
    <2>1. /\ plock = p /\ pc[p] = "closed" /\ op[p] \in {"r", "w"}
          /\ \/ pc'[r] = pc[r] /\ op'[r] = op[r]
             \/ pc'[r] \notin {"block", "awake"}
      BY DEF PipeCloseWake, ReturnFrom, OnCPU, Goto, PipeInv, Typing,
         LocksHeld,
         LocksOf, Critical, Activity, ActivityOf, Closing, Ends
    <2>2. /\ op[p] = "w" => ~Waiting(r, "read")'
          /\ op[p] = "r" => ~Waiting(r, "write")'
          /\ Waiting(r, "read")' => Waiting(r, "read")
          /\ Waiting(r, "write")' => Waiting(r, "write")
      BY <2>1, NobodyWaits DEF PipeCloseWake, NreadChan, NwriteChan
    <2>3. /\ op[p] = "w" => ~WritersToBeWoken
          /\ op[p] = "r" => ~ReadersToBeWoken
      BY <2>1 DEF ReadersToBeWoken, WritersToBeWoken
    <2>4. UNCHANGED <<Empty, Full, readopen, writeopen>>
      BY DEF PipeCloseWake, Empty, Full
    <2>5. op[p] = "r" => deserted' = deserted
      BY DEF PipeCloseWake, PipeInv, Typing
    <2> QED BY <2>1, <2>2, <2>3, <2>4, <2>5 DEF PipeInv, NoMissedWakeup,
           ReaderServed, WriterServed
  <1> QED BY <1>1, <1>2, <1>3, <1>4, <1>5, <1>6 DEF PipeInv, LocksHeld,
     Activity, Committed, NoMissedWakeup

\* Giving up a reference to an end: with the last one the process turns to
\* pipeclose(), and until then nobody has shut the end.
LEMMA filecloseInv ==
  ASSUME PipeInv, NEW p \in Procs, NEW e \in Ends, fileclose(p, e)
  PROVE  PipeInv'
  <1>a. /\ state[p] = "RUNNING" /\ pc[p] \in {"user", "exit"}
        /\ e \in ofile[p]
        /\ ofile' = [ofile EXCEPT ![p] = @ \ {e}]
        /\ ref' = [ref EXCEPT ![e] = @ - 1]
        /\ UNCHANGED <<state, killed, chan, ptlock, exiting, plock, nread,
                       nwrite, data, got, deserted, readopen, writeopen, live,
                       left>>
    BY DEF fileclose, Syscall, OnCPU, bufVars
  <1>b. /\ Holders(e)' = Holders(e) \ {p} /\ p \in Holders(e)
        /\ \A f \in Ends \ {e} : Holders(f)' = Holders(f)
    BY <1>a DEF PipeInv, Holders, Typing, PipeTypeOK
  <1>c. /\ Cardinality(Holders(e)') = Cardinality(Holders(e)) - 1
        /\ Cardinality(Holders(e)') \in Nat
    <2>1. IsFiniteSet(Holders(e))
      BY HoldersFinite
    <2>2. Cardinality(Holders(e) \ {p}) = Cardinality(Holders(e)) - 1
      BY <1>b, <2>1, FS_RemoveElement, Zenon
    <2>3. IsFiniteSet(Holders(e) \ {p})
      BY <2>1, FS_RemoveElement
    <2>4. Cardinality(Holders(e) \ {p}) \in Nat
      BY <2>3, FS_CardinalityType
    <2> QED BY <1>b, <2>2, <2>4
  <1>d. ref'[e] = Cardinality(Holders(e)') /\ ref' \in [Ends -> Nat]
    BY <1>a, <1>c DEF PipeInv, EndsInv, Typing, PipeTypeOK
  <1>e. \/ /\ ref[e] = 1
           /\ op' = [op EXCEPT ![p] = e]
           /\ pc' = [pc EXCEPT ![p] = "pipeclose"]
        \/ /\ ref[e] # 1
           /\ op' = op
           /\ \/ pc' = [pc EXCEPT ![p] = "exit"]
              \/ pc' = [pc EXCEPT ![p] = "ret"]
    BY DEF fileclose, Goto
  <1>f. ref[e] = 1 => Holders(e)' = {}
    <2>1. IsFiniteSet(Holders(e)')
      BY <1>b, HoldersFinite, FS_RemoveElement
    <2>2. ref[e] = 1 => Cardinality(Holders(e)') = 0
      BY <1>c DEF PipeInv, EndsInv
    <2> QED BY <2>1, <2>2, FS_EmptySet
  <1>g. op[p] = "none"
    BY <1>a DEF PipeInv, Activity, ActivityOf, Outside
  <1>h. ofile' \in [Procs -> SUBSET Ends]
    BY <1>a DEF PipeInv, Typing, PipeTypeOK
  <1>i. pc' \in [Procs -> PipePCs] /\ op' \in [Procs -> Ops]
    BY <1>e DEF PipeInv, Typing, PipePCs, Outside, Closing, Ops, Ends
  <1>j. \A q \in Procs \ {p} : /\ pc'[q] = pc[q] /\ op'[q] = op[q]
                               /\ ofile'[q] = ofile[q]
    BY <1>a, <1>e DEF PipeInv, Typing, PipeTypeOK
  <1>k. \/ pc'[p] = "pipeclose" /\ op'[p] = e /\ Holders(e)' = {}
        \/ pc'[p] \in {"exit", "ret"} /\ op'[p] = "none"
    BY <1>e, <1>f, <1>g DEF PipeInv, Typing
  <1> HIDE DEF fileclose
  <1>1. Typing'
    BY <1>a, <1>d, <1>h, <1>i DEF PipeInv, Typing, PipeTypeOK
  <1>2. ASSUME NEW q \in Procs PROVE LocksOf(q)'
    BY Zenon, <1>a, <1>j, <1>k DEF PipeInv, LocksHeld, LocksOf, Critical
  <1>3. ASSUME NEW q \in Procs PROVE ActivityOf(q)'
    <2>1. CASE q = p
      BY <1>a, <1>k, <2>1 DEF ActivityOf, Outside, Transfer, Closing, Ends
    <2>2. CASE q # p
      BY Zenon, <1>a, <1>j, <2>2 DEF PipeInv, Activity, ActivityOf, SleepChan
    <2> QED BY <2>1, <2>2
  <1>4. EndsInv'
    <2>1. ASSUME NEW f \in Ends PROVE ref'[f] = Cardinality(Holders(f)')
      BY <1>a, <1>b, <1>d, Zenon DEF PipeInv, EndsInv, Typing, PipeTypeOK
    <2>2. /\ \A f : IsOpen(f)' = IsOpen(f)
          /\ Holders(e) # {} /\ IsOpen(e)
      BY <1>a, <1>b DEF PipeInv, EndsInv, IsOpen
    <2>3. ASSUME NEW f \in Ends PROVE Holders(f)' # {} => IsOpen(f)'
      BY <1>b, <2>2 DEF PipeInv, EndsInv
    <2>4. \A q \in Procs \ {p} : pc[q] \in Closing => op[q] \in Ends \ {e}
      BY <2>2 DEF PipeInv, EndsInv, Activity, ActivityOf
    <2>5. ASSUME NEW q \in Procs
          PROVE  (/\ pc[q] \in Closing => Holders(op[q]) = {}
                  /\ pc[q] = "pipeclose" => IsOpen(op[q])
                  /\ pc[q] = "closed" => live)'
      <3>1. CASE q = p
        BY <1>k, <2>2, <3>1 DEF Closing
      <3>2. CASE q # p
        BY <1>a, <1>b, <1>j, <2>2, <2>4, <3>2 DEF PipeInv, EndsInv, Closing
      <3> QED BY <3>1, <3>2
    <2>6. ASSUME NEW q \in Procs, NEW r \in Procs
          PROVE  (q # r /\ pc[q] \in Closing /\ pc[r] \in Closing
                    => op[q] # op[r])'
      BY <1>j, <1>k, <2>4 DEF PipeInv, EndsInv, Closing
    <2>7. (live \/ ~(readopen \/ writeopen))'
      BY <1>a DEF PipeInv, EndsInv
    <2> QED BY <2>1, <2>3, <2>5, <2>6, <2>7 DEF EndsInv
  <1>5. ASSUME NEW q \in Procs PROVE CommittedOf(q)'
    BY <1>a, <1>j, <1>k DEF PipeInv, Committed, CommittedOf, Empty, Full
  <1>6. ASSUME NEW r \in Procs PROVE (ReaderServed(r) /\ WriterServed(r))'
    <2>1. plock # p
      BY <1>a DEF PipeInv, LocksHeld, LocksOf, Critical
    <2>2. /\ Waiting(r, "read")' => Waiting(r, "read")
          /\ Waiting(r, "write")' => Waiting(r, "write")
      BY <1>a, <1>j, <1>k DEF Waiting
    <2>3. /\ ReadersToBeWoken' = ReadersToBeWoken
          /\ WritersToBeWoken' = WritersToBeWoken
      BY <1>a, <1>j, <2>1 DEF ReadersToBeWoken, WritersToBeWoken
    <2> QED BY <1>a, <2>2, <2>3 DEF PipeInv, NoMissedWakeup, ReaderServed,
           WriterServed, Empty, Full
  <1> QED BY <1>1, <1>2, <1>3, <1>4, <1>5, <1>6 DEF PipeInv, LocksHeld,
         Activity, Committed, NoMissedWakeup
-----------------------------------------------------------------------------
(* The process table. *)

\* A step of the process table that takes no lock, puts nobody to sleep and
\* moves processes only outside the pipe's functions.
LEMMA QuietStep ==
  ASSUME PipeInv, UNCHANGED pipeVars, UNCHANGED ptlock, DOMAIN chan' = Procs,
         pc' \in [Procs -> PipePCs], state' \in [Procs -> ProcStates],
         killed' \in [Procs -> BOOLEAN], exiting' \in [Procs -> BOOLEAN],
         \A q \in Procs : \/ pc'[q] = pc[q]
                          \/ pc[q] \in Outside /\ pc'[q] \in Outside,
         \A q \in Procs : state'[q] = "SLEEPING" => /\ state[q] = "SLEEPING"
                                                   /\ chan'[q] = chan[q],
         \A q \in Procs : state'[q] # "RUNNING" => pc'[q] \in {"awake", "none"}
  PROVE  PipeInv'
  <1>1. Typing'
    BY DEF PipeInv, Typing, PipeTypeOK, pipeVars
  <1>2. ASSUME NEW q \in Procs PROVE LocksOf(q)'
    BY DEF PipeInv, LocksHeld, LocksOf, pipeVars, Critical, Outside
  <1>3. ASSUME NEW q \in Procs PROVE ActivityOf(q)'
    <2>1. CASE pc'[q] = pc[q]
      BY <2>1 DEF PipeInv, Activity, ActivityOf, SleepChan, pipeVars
    <2>2. CASE pc[q] \in Outside /\ pc'[q] \in Outside
      BY <2>2 DEF PipeInv, Activity, ActivityOf, pipeVars, Outside, Transfer,
         Closing
    <2> QED BY <2>1, <2>2
  <1>4. EndsInv'
    <2>1. \A q \in Procs : pc'[q] \in Closing => /\ pc'[q] = pc[q]
                                                 /\ op'[q] = op[q]
      BY DEF pipeVars, Outside, Closing
    <2>2. UNCHANGED <<readopen, writeopen, live, ref, ofile>>
      BY DEF pipeVars
    <2> QED BY <2>1, <2>2, EndsFrame DEF PipeInv
  <1>5. ASSUME NEW q \in Procs PROVE CommittedOf(q)'
    BY DEF PipeInv, Committed, CommittedOf, pipeVars, Empty, Full, Outside
  <1>6. ASSUME NEW r \in Procs PROVE (ReaderServed(r) /\ WriterServed(r))'
    <2>1. /\ Waiting(r, "read")' => Waiting(r, "read")
          /\ Waiting(r, "write")' => Waiting(r, "write")
      BY DEF Waiting, pipeVars, Outside
    <2>2. plock \in Procs => pc'[plock] = pc[plock]
      BY DEF PipeInv, LocksHeld, LocksOf, Critical, Outside
    <2>3. /\ ReadersToBeWoken' = ReadersToBeWoken
          /\ WritersToBeWoken' = WritersToBeWoken
      BY <2>2 DEF ReadersToBeWoken, WritersToBeWoken, pipeVars
    <2>4. UNCHANGED <<Empty, Full, readopen, writeopen, deserted>>
      BY DEF pipeVars, Empty, Full
    <2> QED BY <2>1, <2>3, <2>4 DEF PipeInv, NoMissedWakeup, ReaderServed,
           WriterServed
  <1> QED BY <1>1, <1>2, <1>3, <1>4, <1>5, <1>6 DEF PipeInv, LocksHeld,
         Activity, Committed, NoMissedWakeup

\* Entering and leaving a call, and a CPU that takes up a process.
LEMMA TrapInv ==
  ASSUME PipeInv, NEW p \in Procs, UNCHANGED pipeVars,
         TrapKilled(p) \/ TrapReturn(p) \/ sys_exit(p) \/ scheduler(p)
  PROVE  PipeInv'
  <1>1. CASE scheduler(p)
    <2>1. /\ UNCHANGED <<killed, pc, exiting>>
          /\ ptlock = NoProc
          /\ ptlock' = IF pc[p] = "waiting" THEN p ELSE NoProc
          /\ chan' = [chan EXCEPT ![p] = NoChan]
          /\ state' = [state EXCEPT ![p] = "RUNNING"]
      BY <1>1 DEF scheduler
    <2>2. UNCHANGED ptlock
      BY <2>1 DEF PipeInv, Typing, PipePCs, Outside, Transfer, Closing
    <2>3. state' \in [Procs -> ProcStates] /\ DOMAIN chan' = Procs
      BY <2>1 DEF PipeInv, Typing, PipeTypeOK, ProcStates
    <2>4. ASSUME NEW q \in Procs
          PROVE  /\ state'[q] = "SLEEPING" => /\ state[q] = "SLEEPING"
                                              /\ chan'[q] = chan[q]
                 /\ state'[q] # "RUNNING" => pc'[q] \in {"awake", "none"}
      BY <2>1 DEF PipeInv, Typing, PipeTypeOK, Activity, ActivityOf
    <2> QED BY Zenon, <2>1, <2>2, <2>3, <2>4, QuietStep DEF PipeInv, Typing,
           PipeTypeOK
  <1>2. CASE TrapKilled(p) \/ TrapReturn(p) \/ sys_exit(p)
    <2>1. /\ UNCHANGED <<ptlock, chan, killed, state>> /\ pc[p] \in Outside
          /\ \E x \in Outside : pc' = [pc EXCEPT ![p] = x]
      BY Zenon, <1>2 DEF TrapKilled, TrapReturn, sys_exit, Syscall, OnCPU,
         Goto,
         Outside
    <2>2. \E x \in BOOLEAN : exiting' = [exiting EXCEPT ![p] = x]
      BY <1>2, Zenon DEF TrapKilled, TrapReturn, sys_exit, PipeInv, Typing,
         PipeTypeOK
    <2>3. state[p] = "RUNNING"
      BY <1>2 DEF TrapKilled, TrapReturn, sys_exit, Syscall, OnCPU
    <2>4. pc' \in [Procs -> PipePCs]
      BY <2>1 DEF PipeInv, Typing, PipePCs
    <2>5. exiting' \in [Procs -> BOOLEAN]
      BY <2>2, Zenon DEF PipeInv, Typing
    <2>6. ASSUME NEW q \in Procs
          PROVE  /\ \/ pc'[q] = pc[q]
                    \/ pc[q] \in Outside /\ pc'[q] \in Outside
                 /\ state'[q] # "RUNNING" => pc'[q] \in {"awake", "none"}
      BY <2>1, <2>3 DEF PipeInv, Typing, Activity, ActivityOf
    <2> QED BY Zenon, <2>1, <2>4, <2>5, <2>6, QuietStep DEF PipeInv, Typing,
           PipeTypeOK
  <1> QED BY <1>1, <1>2

\* exit() of a process that has closed its ends.
LEMMA PipeExitInv ==
  ASSUME PipeInv, NEW p \in Procs, PipeExit(p)
  PROVE  PipeInv'
  <1>1. /\ UNCHANGED <<ptlock, chan, killed, exiting>> /\ UNCHANGED pipeVars
        /\ pc[p] = "exit" /\ pc' = [pc EXCEPT ![p] = "none"]
    BY Zenon DEF PipeExit, exit, OnCPU, Goto, LockFree
  <1>2. /\ state' \in [Procs -> ProcStates] /\ state'[p] = "ZOMBIE"
        /\ \A q \in Procs \ {p} : \/ state'[q] = state[q]
                                  \/ /\ state[q] = "SLEEPING"
                                     /\ state'[q] = "RUNNABLE"
    BY Zenon DEF PipeExit, exit, wakeup1, PipeInv, Typing, PipeTypeOK,
       ProcStates
  <1>3. pc' \in [Procs -> PipePCs]
    BY <1>1 DEF PipeInv, Typing, PipePCs, Outside
  <1>4. ASSUME NEW q \in Procs
        PROVE  /\ \/ pc'[q] = pc[q]
                  \/ pc[q] \in Outside /\ pc'[q] \in Outside
               /\ state'[q] = "SLEEPING" => state[q] = "SLEEPING"
               /\ state'[q] # "RUNNING" => pc'[q] \in {"awake", "none"}
    BY <1>1, <1>2 DEF PipeInv, Typing, Activity, ActivityOf, Outside
  <1> QED BY Zenon, <1>1, <1>2, <1>3, <1>4, QuietStep DEF PipeInv, Typing,
     PipeTypeOK

\* kill() makes a sleeper runnable.
LEMMA killInv ==
  ASSUME PipeInv, NEW p \in Procs, NEW victim, kill(p, victim),
         UNCHANGED pipeVars
  PROVE  PipeInv'
  <1>1. /\ state[p] = "RUNNING" /\ pc[p] = "user"
        /\ pc' = [pc EXCEPT ![p] = "ret"]
        /\ UNCHANGED <<chan, exiting, ptlock>>
    BY DEF kill, Syscall, OnCPU, Goto, LockFree
  <1>2. /\ state' \in [Procs -> ProcStates] /\ killed' \in [Procs -> BOOLEAN]
        /\ \A q \in Procs : \/ state'[q] = state[q]
                            \/ state[q] = "SLEEPING" /\ state'[q] = "RUNNABLE"
    <2> DEFINE found == {q \in Procs : pid[q] = victim}
               v == First(found)
    <2>1. CASE found = {}
      BY <2>1 DEF kill, PipeInv, Typing, PipeTypeOK
    <2>2. CASE found # {}
      <3>1. /\ killed' = [killed EXCEPT ![v] = TRUE]
            /\ state' = [state EXCEPT ![v] = IF state[v] = "SLEEPING"
                                             THEN "RUNNABLE" ELSE state[v]]
        BY Zenon, <2>2 DEF kill
      <3> HIDE DEF v, found
      <3> QED BY <3>1, Zenon DEF PipeInv, Typing, PipeTypeOK, ProcStates
    <2> QED BY <2>1, <2>2
  <1>3. pc' \in [Procs -> PipePCs]
    BY <1>1 DEF PipeInv, Typing, PipePCs, Outside
  <1>4. ASSUME NEW q \in Procs
        PROVE  /\ \/ pc'[q] = pc[q]
                  \/ pc[q] \in Outside /\ pc'[q] \in Outside
               /\ state'[q] = "SLEEPING" => state[q] = "SLEEPING"
               /\ state'[q] # "RUNNING" => pc'[q] \in {"awake", "none"}
    BY <1>1, <1>2 DEF PipeInv, Typing, Activity, ActivityOf, Outside
  <1> QED BY <1>1, <1>2, <1>3, <1>4, QuietStep DEF PipeInv, Typing

-----------------------------------------------------------------------------
(* The theorems.                                                           *)

\* Every step of every process keeps the invariant.
LEMMA PipeStepInv == PipeInv /\ [Next]_vars => PipeInv'
  <1> SUFFICES ASSUME PipeInv, [Next]_vars PROVE PipeInv'
    OBVIOUS
  <1>1. ASSUME NEW p \in Procs, PipeProcStep(p) PROVE PipeInv'
    BY <1>1, TrapInv, killInv DEF PipeProcStep
  <1>2. ASSUME NEW p \in Procs, InPipeCall(p) PROVE PipeInv'
    BY <1>2, AcquirePipeInv, PutByteInv, WriteGivesUpInv, WriteWaitsInv,
       WriteDoneInv, ReadGivesUpInv, ReadWaitsInv, ReadStartsInv, TakeByteInv,
       ReadDoneInv, PipeSleepLockInv, PipeSleepReleaseInv, PipeSleepBlockInv,
       PipeCloseEndInv, PipeCloseWakeInv DEF InPipeCall
  <1>3. ASSUME NEW p \in Procs, NEW n \in Lengths,
               sys_write(p, n) \/ sys_read(p, n)
        PROVE  PipeInv'
    BY <1>3, StartCallInv DEF sys_write, sys_read
  <1>4. CASE UNCHANGED vars
    <2> USE <1>4 DEF vars, procVars, pipeVars
    <2>1. Typing'
      BY DEF PipeInv, Typing, PipeTypeOK
    <2>2. LocksHeld' /\ Committed'
      BY DEF PipeInv, LocksHeld, LocksOf, Committed, CommittedOf, Empty, Full
    <2>3. Activity'
      BY DEF PipeInv, Activity, ActivityOf, SleepChan
    <2>4. EndsInv'
      BY Zenon, EndsFrame DEF PipeInv
    <2>5. NoMissedWakeup'
      BY DEF PipeInv, NoMissedWakeup, ReaderServed, WriterServed, Waiting,
         ReadersToBeWoken, WritersToBeWoken, Empty, Full
    <2> QED BY <2>1, <2>2, <2>3, <2>4, <2>5 DEF PipeInv
  <1>5. ASSUME NEW p \in Procs, PipeStep(p) PROVE PipeInv'
    BY <1>1, <1>2, <1>3, <1>5, PipeExitInv, filecloseInv DEF PipeStep
  <1> QED BY <1>4, <1>5 DEF Next

\* The invariant holds in every behaviour.
THEOREM PipeInvariance == Spec => []PipeInv
  BY PipeInitInv, PipeStepInv, PTL DEF Spec

\* sleep() and wakeup() around the pipe's lock lose no wakeup, but for the
\* readers a killed writer leaves behind: for every number of processes, every
\* buffer size and every sharing of the ends.
THEOREM WakeupsReachSleepers == Spec => []NoMissedWakeup
  BY PipeInvariance, PTL DEF PipeInv

\* pipeclose() frees the pipe only when nobody can use it any more, and the
\* reference counts of the two files are exact.
THEOREM FreedAfterUse == Spec => []PipeOutlivesUsers
  <1>1. PipeInv => PipeOutlivesUsers
    <2> SUFFICES ASSUME PipeInv PROVE PipeOutlivesUsers
      OBVIOUS
    <2>1. \A e \in Ends : ref[e] = Cardinality({p \in Procs : e \in ofile[p]})
      BY DEF PipeInv, EndsInv, Holders
    <2>2. \A p \in Procs : ofile[p] # {} => live
      BY DEF PipeInv, Typing, PipeTypeOK, EndsInv, Holders, IsOpen, Ends
    <2>3. \A p \in Procs : op[p] # "none" => live
      BY Zenon, <2>2 DEF PipeInv, Typing, Activity, ActivityOf, EndsInv,
         IsOpen,
         PipePCs, Outside, Transfer, Closing, Ends
    <2> QED BY <2>1, <2>2, <2>3 DEF PipeOutlivesUsers
  <1> QED BY <1>1, PipeInvariance, PTL

\* The pipe keeps its types.
THEOREM PipeTypes == Spec => []PipeTypeOK
  BY PipeInvariance, PTL DEF PipeInv, Typing

=============================================================================
