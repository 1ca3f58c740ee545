----------------------------- MODULE XvLogCommit ----------------------------
(***************************************************************************)
(* Second part of the proofs about XvLog: each step of a commit keeps the  *)
(* invariant LogInv of XvLogOps and is hidden from AtomicDisk, but for the *)
(* write of the header, which is its Commit.                               *)
(***************************************************************************)
EXTENDS XvLogOps
-----------------------------------------------------------------------------
(* Commit. *)

\* Whoever commits is alone and no operation is in progress.
LEMMA OneCommitter ==
  ASSUME LogInv, NEW p \in Procs, pc[p] \in CommitSteps
  PROVE  /\ committing /\ InOp = {}
         /\ \A q \in Procs \ {p} : pc[q] \notin CommitSteps
  BY DEF LogInv, Alone, InOp

\* A step of the committing process to another step of its commit.
LEMMA AloneKept ==
  ASSUME LogInv, NEW p \in Procs, NEW s \in CommitSteps,
         pc[p] \in CommitSteps, pc' \in {pc, [pc EXCEPT ![p] = s]},
         UNCHANGED <<committing, outstanding, mode>>, mode = "up"
  PROVE  /\ Alone' /\ Counted' /\ SleeperHasWaker' /\ InOp' = InOp
         /\ pc' \in [Procs -> {"user", "begin_op", "asleep", "op"}
                                \cup CommitSteps]
         /\ \A q \in Procs \ {p} : pc'[q] \notin CommitSteps
<1>1. pc \in [Procs -> {"user", "begin_op", "asleep", "op"} \cup CommitSteps]
  BY DEF LogInv, LogTypes
<1>2. /\ committing /\ InOp = {}
      /\ \A q \in Procs \ {p} : pc[q] \notin CommitSteps
  BY OneCommitter
<1>3. \A q \in Procs \ {p} : pc'[q] = pc[q]
  BY <1>1
<1>4. pc'[p] \in CommitSteps
  BY <1>1
<1>5. InOp' = InOp
  <2>1. pc[p] # "op" /\ pc'[p] # "op"
    BY <1>4 DEF CommitSteps
  <2>. QED
    BY <1>3, <2>1 DEF InOp
<1>6. Alone'
  BY <1>2, <1>3, <1>4, <1>5 DEF Alone, InOp
<1>7. Counted' /\ SleeperHasWaker'
  BY <1>2, <1>5 DEF LogInv, Counted, SleeperHasWaker
<1>8. pc' \in [Procs -> {"user", "begin_op", "asleep", "op"} \cup CommitSteps]
  BY <1>1
<1>. QED
  BY <1>2, <1>3, <1>5, <1>6, <1>7, <1>8

\* A dirty buffer is not recycled; the rest of the cache may be.
LEMMA RecycledKept ==
  ASSUME LogInv, mode = "up", cache' \in Recycled,
         UNCHANGED <<disk, dirty, mode>>
  PROVE  /\ Buffers' /\ Seen' = Seen
         /\ cache' \in [Blocks -> Data \cup {NoBuf}]
         /\ \A x \in dirty : cache'[x] = cache[x]
<1>1. /\ cache' \in [Blocks -> Data \cup {NoBuf}]
      /\ \A x \in Blocks :
           cache'[x] = cache[x] \/ (x \notin dirty /\ cache'[x] = NoBuf)
  BY RecycledCache DEF LogInv
<1>2. Buffers'
  BY BuffersRecycled DEF LogInv
<1>3. Seen' = Seen
  BY <1>1, SeenKept DEF LogInv, Running
<1>4. \A x \in dirty : cache'[x] = cache[x]
  BY <1>1 DEF LogInv, LogTypes
<1>. QED
  BY <1>1, <1>2, <1>3, <1>4

\* write_log copies a pinned buffer to the log.
LEMMA WriteLogInv ==
  ASSUME LogInv, NEW p \in Procs, write_log(p)
  PROVE  LogInv' /\ Hidden
<1>1. pc[p] = "write_log"
  BY DEF write_log
<1>2. /\ head = << >> /\ dirty = Logged(lh) /\ tail < Len(lh) /\ Copied(tail)
  BY <1>1 DEF LogInv, Stages, Stage
<1>3. /\ lh \in Seq(Blocks) /\ Len(lh) \in Nat /\ Len(lh) <= LOGSIZE - 1
      /\ tail \in Nat /\ LOGSIZE \in Nat /\ logdisk \in [Slots -> Data]
      /\ dirty \subseteq Blocks
  BY LogAssumption DEF LogInv, LogTypes
<1>4. /\ UNCHANGED <<disk, head, dirty, lh, outstanding, committing, mode,
                     held, touched>>
      /\ mode = "up" /\ pc[p] = "write_log" /\ tail' = tail + 1
      /\ logdisk' = [logdisk EXCEPT ![tail + 1] = cache'[lh[tail + 1]]]
      /\ pc' = IF tail' = Len(lh) THEN [pc EXCEPT ![p] = "write_head"] ELSE pc
      /\ \E c \in Recycled : cache' = Loaded(c, lh[tail + 1])
  <2>1. tail + 1 \in Slots
    BY <1>2, <1>3 DEF Slots
  <2>2. /\ \E c \in Recycled :
             cache' = [Loaded(c, lh[tail + 1]) EXCEPT ![inodestart] = @]
        /\ disk' = [disk EXCEPT ![inodestart] = @] /\ dirty' = dirty \ {}
        /\ logdisk' = [i \in Slots |-> IF i = tail + 1 THEN cache'[lh[tail + 1]]
                                       ELSE logdisk[i]]
    BY <2>1, Zenon DEF write_log
  <2>3. /\ disk' = disk /\ dirty' = dirty
        /\ logdisk' = [logdisk EXCEPT ![tail + 1] = cache'[lh[tail + 1]]]
    BY <1>3, <2>1, <2>2 DEF LogInv, LogTypes
  <2>4. PICK c \in Recycled :
          cache' = [Loaded(c, lh[tail + 1]) EXCEPT ![inodestart] = @]
    BY <2>2
  <2>5. Loaded(c, lh[tail + 1])
          = [x \in Blocks |-> Loaded(c, lh[tail + 1])[x]]
    BY <2>4, RecycledCache DEF Loaded, LogInv
  <2>6. cache' = Loaded(c, lh[tail + 1])
    BY <2>4, <2>5
  <2>7. \E d \in Recycled : cache' = Loaded(d, lh[tail + 1])
    BY <2>6
  <2>8. /\ UNCHANGED <<head, lh, outstanding, committing, mode, held, touched>>
        /\ mode = "up" /\ tail' = tail + 1
        /\ pc' = IF tail' = Len(lh) THEN [pc EXCEPT ![p] = "write_head"] ELSE pc
    BY Zenon DEF write_log, memVars
  <2>. QED
    BY <1>1, <2>3, <2>7, <2>8, Zenon
<1>5. \A i \in 1 .. tail + 1 : lh[i] \in dirty /\ i \in Slots
  BY <1>2, <1>3 DEF Logged, Slots
<1>6. cache' \in Recycled
  <2>1. PICK c \in Recycled : cache' = Loaded(c, lh[tail + 1])
    BY <1>4
  <2>2. cache[lh[tail + 1]] # NoBuf
    BY <1>3, <1>5 DEF LogInv, Buffers
  <2>3. c[lh[tail + 1]] # NoBuf
    BY <1>3, <1>5, <2>2, RecycledCache DEF LogInv
  <2>. QED
    BY <2>1, <2>3 DEF Loaded
<1>7. /\ Buffers' /\ Seen' = Seen
      /\ cache' \in [Blocks -> Data \cup {NoBuf}]
      /\ \A x \in dirty : cache'[x] = cache[x]
  BY <1>4, <1>6, RecycledKept
<1>8. cache[lh[tail + 1]] \in Data
  BY <1>3, <1>5 DEF LogInv, Buffers, LogTypes
<1>9. /\ logdisk' \in [Slots -> Data]
      /\ \A i \in 1 .. tail + 1 : logdisk'[i] = cache'[lh[i]]
  <2>1. logdisk' \in [Slots -> Data]
    BY <1>4, <1>3, <1>5, <1>7, <1>8
  <2>2. ASSUME NEW i \in 1 .. tail PROVE logdisk'[i] = cache'[lh[i]]
    <3>1. i # tail + 1 /\ i \in Slots /\ lh[i] \in dirty
      BY <1>3, <1>5
    <3>2. logdisk'[i] = logdisk[i] /\ logdisk[i] = cache[lh[i]]
      BY <1>4, <1>2, <1>3, <3>1 DEF Copied
    <3>. QED
      BY <1>7, <3>1, <3>2
  <2>3. logdisk'[tail + 1] = cache'[lh[tail + 1]]
    BY <1>4, <1>3, <1>5
  <2>. QED
    BY <1>3, <2>1, <2>2, <2>3
<1>10. /\ Alone' /\ Counted' /\ SleeperHasWaker' /\ InOp' = InOp
      /\ pc' \in [Procs -> {"user", "begin_op", "asleep", "op"}
                             \cup CommitSteps]
      /\ \A q \in Procs \ {p} : pc'[q] \notin CommitSteps
  <2>1. pc' \in {pc, [pc EXCEPT ![p] = "write_head"]}
    BY <1>4
  <2>. QED
    BY <1>4, <2>1, AloneKept, Zenon DEF CommitSteps
<1>11. Recovered' = Recovered
  BY <1>4, <1>2, RecoveredEmpty, RecoveredEmptyNext DEF LogInv, LogTypes
<1>12. Headers'
  BY <1>4 DEF LogInv, Headers, Inj
<1>13. LogTypes'
  BY <1>4, <1>2, <1>3, <1>7, <1>9, <1>10 DEF LogInv, LogTypes
<1>14. Recovery'
  BY <1>4 DEF Recovery, Running
<1>15. Stage(p)'
  <2>1. CASE tail + 1 = Len(lh)
    <3>1. pc'[p] = "write_head"
      BY <1>4, <2>1 DEF LogInv, LogTypes
    <3>. QED
      BY <1>4, <1>2, <1>3, <1>9, <2>1, <3>1 DEF Stage, Copied, Logged
  <2>2. CASE tail + 1 # Len(lh)
    <3>1. pc'[p] = "write_log" /\ tail + 1 < Len(lh)
      BY <1>4, <1>2, <1>3, <2>2
    <3>. QED
      BY <1>4, <1>2, <1>9, <3>1 DEF Stage, Copied, Logged
  <2>. QED
    BY <2>1, <2>2
<1>16. committing'
  BY <1>4, OneCommitter DEF CommitSteps
<1>17. Stages'
  BY <1>10, <1>15, <1>16 DEF Stages, Stage, CommitSteps
<1>. QED
  BY <1>7, <1>10, <1>11, <1>12, <1>13, <1>14, <1>17 DEF LogInv, Hidden

\* The first write of the header is the atomic disk's commit.
LEMMA WriteHeadInv ==
  ASSUME LogInv, NEW p \in Procs, write_head(p)
  PROVE  LogInv' /\ Atomic!Commit
<1>1. /\ UNCHANGED <<disk, logdisk, dirty, lh, outstanding, committing, mode,
                     held, touched>>
      /\ mode = "up" /\ pc[p] = "write_head" /\ tail' = 0 /\ head' = lh
      /\ pc' = [pc EXCEPT ![p] = "install_trans"] /\ cache' \in Recycled
  BY DEF write_head, memVars
<1>2. head = << >> /\ dirty = Logged(lh) /\ Copied(Len(lh))
  BY <1>1 DEF LogInv, Stages, Stage
<1>3. /\ lh \in Seq(Blocks) /\ Len(lh) \in Nat /\ Len(lh) <= LOGSIZE - 1
      /\ Inj(lh) /\ LOGSIZE - 1 \in Nat
  BY LogAssumption DEF LogInv, LogTypes, Headers
<1>4. /\ Buffers' /\ Seen' = Seen
      /\ cache' \in [Blocks -> Data \cup {NoBuf}]
      /\ \A x \in dirty : cache'[x] = cache[x]
  BY <1>1, RecycledKept
<1>5. /\ Alone' /\ Counted' /\ SleeperHasWaker' /\ InOp' = InOp
      /\ pc' \in [Procs -> {"user", "begin_op", "asleep", "op"}
                             \cup CommitSteps]
      /\ \A q \in Procs \ {p} : pc'[q] \notin CommitSteps
  BY <1>1, AloneKept, Zenon DEF CommitSteps
<1>6. committing' /\ InOp = {}
  BY <1>1, OneCommitter DEF CommitSteps
<1>7. Headers' /\ Inj(head)' /\ head' \in Seq(Blocks)
  BY <1>1, <1>3 DEF Headers, Inj
<1>8. Recovered' = Seen
  <2>1. /\ \A i \in 1 .. Len(lh) : Recovered'[lh[i]] = logdisk[i]
        /\ \A b \in Blocks \ Logged(lh) : Recovered'[b] = disk[b]
    BY <1>1, <1>3, <1>7, RecoveredLoggedNext DEF Logged
  <2>2. ASSUME NEW b \in Blocks PROVE Recovered'[b] = Seen[b]
    <3>1. Seen[b] = IF cache[b] = NoBuf THEN disk[b] ELSE cache[b]
      BY <1>1 DEF Seen
    <3>2. CASE b \in Logged(lh)
      <4>1. PICK i \in 1 .. Len(lh) : b = lh[i]
        BY <3>2 DEF Logged
      <4>2. cache[b] # NoBuf /\ logdisk[i] = cache[b]
        BY <1>2, <3>2, <4>1 DEF Copied, LogInv, Buffers
      <4>. QED
        BY <2>1, <3>1, <4>1, <4>2
    <3>3. CASE b \notin Logged(lh)
      BY <1>2, <2>1, <3>1, <3>3 DEF LogInv, Buffers
    <3>. QED
      BY <3>2, <3>3
  <2>3. Recovered' = [b \in Blocks |-> Recovered'[b]]
    BY DEF Recovered
  <2>4. Seen = [b \in Blocks |-> Seen[b]]
    BY <1>1 DEF Seen
  <2>. QED
    BY <2>2, <2>3, <2>4, Zenon
<1>9. Atomic!Commit
  BY <1>4, <1>5, <1>6, <1>8 DEF Atomic!Commit
<1>10. Recovery'
  BY <1>1 DEF Recovery, Running
<1>11. LogTypes'
  BY <1>1, <1>3, <1>4, <1>5 DEF LogInv, LogTypes
<1>12. Stage(p)'
  <2>1. pc'[p] = "install_trans"
    BY <1>1 DEF LogInv, LogTypes
  <2>2. Len(lh) > 0
    BY <1>1 DEF LogInv, Stages, Stage
  <2>3. \A i \in 1 .. Len(lh) : logdisk[i] = cache'[lh[i]]
    BY <1>2, <1>4 DEF Copied, Logged
  <2>. QED
    BY <1>1, <1>2, <1>3, <2>1, <2>2, <2>3 DEF Stage, Installed, Logged
<1>13. Stages'
  BY <1>5, <1>6, <1>12 DEF Stages, Stage, CommitSteps
<1>. QED
  BY <1>4, <1>5, <1>7, <1>9, <1>10, <1>11, <1>13 DEF LogInv

\* One round of install_trans, in a commit or in recovery: the block is home,
\* and what a reboot would find is what it would have found before.
LEMMA InstallEffect ==
  ASSUME LogInv, InstallBlock, head = lh, tail < Len(lh),
         lh[tail + 1] \in dirty => logdisk[tail + 1] = cache[lh[tail + 1]]
  PROVE  /\ cache' \in [Blocks -> Data \cup {NoBuf}]
         /\ disk' \in [Blocks -> Data]
         /\ Buffers' /\ Recovered' = Recovered
         /\ dirty' = dirty \ {lh[tail + 1]}
         /\ tail' = tail + 1 /\ tail' \in 0 .. LOGSIZE - 1
         /\ \A x \in dirty' : cache'[x] = cache[x]
         /\ Installed(tail) => Installed(tail)'
         /\ disk' = [disk EXCEPT ![lh[tail + 1]] = logdisk[tail + 1]]
         /\ cache'[lh[tail + 1]] = logdisk[tail + 1]
         /\ \A x \in Blocks \ {lh[tail + 1]} :
              cache'[x] = cache[x] \/ (x \notin dirty /\ cache'[x] = NoBuf)
<1>. DEFINE b == lh[tail + 1]
            d == logdisk[tail + 1]
<1>0. LogDisk(tail + 1) = d
  BY LogAssumption DEF LogDisk, Slots, LogInv, LogTypes
<1>1. /\ disk' = [disk EXCEPT ![b] = d] /\ dirty' = dirty \ {b}
      /\ tail' = tail + 1
      /\ UNCHANGED <<logdisk, head, lh, outstanding, committing, touched>>
  BY <1>0 DEF InstallBlock, memVars
<1>2. PICK c \in Recycled : cache' = [c EXCEPT ![b] = d]
  BY <1>0, Zenon DEF InstallBlock
<1>3. /\ lh \in Seq(Blocks) /\ Len(lh) \in Nat /\ Len(lh) <= LOGSIZE - 1
      /\ tail \in Nat /\ LOGSIZE \in Nat /\ logdisk \in [Slots -> Data]
      /\ dirty \subseteq Blocks /\ disk \in [Blocks -> Data] /\ Inj(lh)
  BY LogAssumption DEF LogInv, LogTypes, Headers
<1>4. b \in Blocks /\ tail + 1 \in Slots /\ tail + 1 \in 1 .. Len(lh)
  BY <1>3 DEF Slots
<1>5. d \in Data /\ d # NoBuf
  BY <1>3, <1>4, LogAssumption
<1>6. /\ c \in [Blocks -> Data \cup {NoBuf}]
      /\ \A x \in Blocks :
           c[x] = cache[x] \/ (x \notin dirty /\ c[x] = NoBuf)
  BY RecycledCache DEF LogInv
<1>7. /\ cache' \in [Blocks -> Data \cup {NoBuf}] /\ cache'[b] = d
      /\ \A x \in Blocks \ {b} :
           cache'[x] = cache[x] \/ (x \notin dirty /\ cache'[x] = NoBuf)
  BY <1>2, <1>4, <1>5, <1>6
<1>8. /\ disk' \in [Blocks -> Data] /\ disk'[b] = d
      /\ \A x \in Blocks \ {b} : disk'[x] = disk[x]
  BY <1>1, <1>3, <1>4, <1>5
<1>9. Buffers'
  BY <1>1, <1>7, <1>8 DEF LogInv, Buffers
<1>10. Installed(tail) => Installed(tail)'
  <2>1. SUFFICES ASSUME Installed(tail), NEW i \in 1 .. tail + 1
                 PROVE  logdisk[i] = disk'[lh[i]]
    BY <1>1 DEF Installed
  <2>2. CASE i = tail + 1
    BY <1>8, <2>2
  <2>3. CASE i # tail + 1
    <3>1. i \in 1 .. tail /\ i \in 1 .. Len(lh) /\ lh[i] \in Blocks
      BY <1>3, <2>3
    <3>2. lh[i] # b
      BY <1>3, <1>4, <2>3, <3>1 DEF Inj
    <3>. QED
      BY <1>8, <2>1, <3>1, <3>2 DEF Installed
  <2>. QED
    BY <2>2, <2>3
<1>11. Recovered' = Recovered
  <2>1. \A x \in Blocks \ Logged(head) : disk'[x] = disk[x]
    BY <1>4, <1>8 DEF Logged
  <2>2. /\ Inj(head) /\ Inj(head)' /\ head \in Seq(Blocks)
        /\ Logged(head)' = Logged(head) /\ Len(head) <= LOGSIZE - 1
    BY <1>1, <1>3 DEF Inj, Logged
  <2>3. /\ \A i \in 1 .. Len(head) : Recovered'[head[i]] = logdisk[i]
        /\ \A x \in Blocks \ Logged(head) : Recovered'[x] = disk'[x]
    BY <1>1, <2>2, RecoveredLoggedNext
  <2>4. /\ \A i \in 1 .. Len(head) : Recovered[head[i]] = logdisk[i]
        /\ \A x \in Blocks \ Logged(head) : Recovered[x] = disk[x]
    BY <2>2, RecoveredLogged DEF LogInv
  <2>5. ASSUME NEW x \in Blocks PROVE Recovered'[x] = Recovered[x]
    BY <2>1, <2>3, <2>4 DEF Logged
  <2>. QED
    BY <2>5 DEF Recovered
<1>12. \A x \in dirty' : cache'[x] = cache[x]
  BY <1>1, <1>3, <1>7
<1>. QED
  BY <1>1, <1>3, <1>7, <1>8, <1>9, <1>10, <1>11, <1>12

\* Once every block of the header is home, recovery changes nothing.
LEMMA RecoveredInstalled ==
  ASSUME LogInv, head = lh, Installed(Len(lh))
  PROVE  Recovered = disk
<1>1. /\ \A i \in 1 .. Len(head) : Recovered[head[i]] = logdisk[i]
      /\ \A b \in Blocks \ Logged(head) : Recovered[b] = disk[b]
  BY RecoveredLogged DEF LogInv, Headers
<1>2. ASSUME NEW b \in Blocks PROVE Recovered[b] = disk[b]
  BY <1>1 DEF Logged, Installed
<1>3. Recovered = [b \in Blocks |-> Recovered[b]]
  BY RecoveredFun DEF LogInv
<1>. QED
  BY <1>2, <1>3 DEF LogInv, LogTypes

\* install_trans in a commit: nothing visible changes.
LEMMA InstallInv ==
  ASSUME LogInv, NEW p \in Procs, install_trans(p)
  PROVE  LogInv' /\ Hidden
<1>1. /\ UNCHANGED <<logdisk, head, lh, outstanding, committing, mode, held,
                     touched>>
      /\ mode = "up" /\ pc[p] = "install_trans" /\ InstallBlock
      /\ pc' = IF tail' = Len(lh) THEN [pc EXCEPT ![p] = "clear_head"] ELSE pc
  BY Zenon DEF install_trans, InstallBlock, memVars
<1>2. /\ head = lh /\ tail < Len(lh) /\ Installed(tail)
      /\ dirty = {lh[i] : i \in tail + 1 .. Len(lh)}
      /\ \A i \in tail + 1 .. Len(lh) : logdisk[i] = cache[lh[i]]
  BY <1>1 DEF LogInv, Stages, Stage
<1>3. /\ lh \in Seq(Blocks) /\ Len(lh) \in Nat /\ Len(lh) <= LOGSIZE - 1
      /\ tail \in Nat /\ LOGSIZE \in Nat /\ Inj(lh)
      /\ logdisk \in [Slots -> Data] /\ disk \in [Blocks -> Data]
  BY LogAssumption DEF LogInv, LogTypes, Headers
<1>4. /\ lh[tail + 1] \in dirty /\ lh[tail + 1] \in Blocks
      /\ logdisk[tail + 1] = cache[lh[tail + 1]]
      /\ tail + 1 \in Slots
  BY <1>2, <1>3 DEF Slots
<1>5. /\ cache' \in [Blocks -> Data \cup {NoBuf}]
      /\ disk' \in [Blocks -> Data]
      /\ Buffers' /\ Recovered' = Recovered
      /\ dirty' = dirty \ {lh[tail + 1]}
      /\ tail' = tail + 1 /\ tail' \in 0 .. LOGSIZE - 1
      /\ \A x \in dirty' : cache'[x] = cache[x]
      /\ Installed(tail)'
      /\ disk' = [disk EXCEPT ![lh[tail + 1]] = logdisk[tail + 1]]
      /\ cache'[lh[tail + 1]] = logdisk[tail + 1]
      /\ \A x \in Blocks \ {lh[tail + 1]} :
           cache'[x] = cache[x] \/ (x \notin dirty /\ cache'[x] = NoBuf)
  BY <1>1, <1>2, <1>4, InstallEffect
<1>6. Seen' = Seen
  <2>1. ASSUME NEW x \in Blocks
        PROVE  (IF cache'[x] = NoBuf THEN disk'[x] ELSE cache'[x])
               = (IF cache[x] = NoBuf THEN disk[x] ELSE cache[x])
    <3>1. CASE x = lh[tail + 1]
      BY <1>3, <1>4, <1>5, <3>1, LogAssumption DEF LogInv, Buffers
    <3>2. CASE x # lh[tail + 1]
      <4>1. disk'[x] = disk[x]
        BY <1>3, <1>5, <3>2
      <4>2. cache'[x] = cache[x] \/ (x \notin dirty /\ cache'[x] = NoBuf)
        BY <1>5, <3>2
      <4>. QED
        BY <4>1, <4>2 DEF LogInv, Buffers
    <3>. QED
      BY <3>1, <3>2
  <2>. QED
    BY <1>1, <2>1 DEF Seen
<1>7. /\ Alone' /\ Counted' /\ SleeperHasWaker' /\ InOp' = InOp
      /\ pc' \in [Procs -> {"user", "begin_op", "asleep", "op"}
                             \cup CommitSteps]
      /\ \A q \in Procs \ {p} : pc'[q] \notin CommitSteps
  <2>1. pc' \in {pc, [pc EXCEPT ![p] = "clear_head"]}
    BY <1>1
  <2>. QED
    BY <1>1, <2>1, AloneKept, Zenon DEF CommitSteps
<1>8. Headers'
  BY <1>1 DEF LogInv, Headers, Inj
<1>9. Recovery'
  BY <1>1 DEF Recovery, Running
<1>10. LogTypes'
  BY <1>1, <1>5, <1>7 DEF LogInv, LogTypes
<1>11. dirty' = {lh[i] : i \in tail + 2 .. Len(lh)}
  <2>1. ASSUME NEW i \in tail + 2 .. Len(lh) PROVE lh[i] # lh[tail + 1]
    BY <1>2, <1>3 DEF Inj
  <2>2. \A i \in tail + 1 .. Len(lh) :
          i = tail + 1 \/ i \in tail + 2 .. Len(lh)
    BY <1>3
  <2>3. \A i \in tail + 2 .. Len(lh) : i \in tail + 1 .. Len(lh)
    BY <1>3
  <2>. QED
    BY <1>2, <1>5, <2>1, <2>2, <2>3
<1>12. Stage(p)'
  <2>1. CASE tail + 1 = Len(lh)
    <3>1. pc'[p] = "clear_head"
      BY <1>1, <1>5, <2>1 DEF LogInv, LogTypes
    <3>2. dirty' = {}
      BY <1>3, <1>11, <2>1
    <3>. QED
      BY <1>1, <1>2, <1>5, <2>1, <3>1, <3>2 DEF Stage, Installed
  <2>2. CASE tail + 1 # Len(lh)
    <3>1. pc'[p] = "install_trans" /\ tail + 1 < Len(lh)
      BY <1>1, <1>2, <1>3, <1>5, <2>2
    <3>2. \A i \in tail + 2 .. Len(lh) : logdisk[i] = cache'[lh[i]]
      BY <1>2, <1>3, <1>5, <1>11
    <3>3. tail' + 1 = tail + 2
      BY <1>3, <1>5
    <3>4. dirty' = {lh'[i] : i \in tail' + 1 .. Len(lh')}
      BY <1>1, <1>11, <3>3, Zenon
    <3>5. \A i \in tail' + 1 .. Len(lh') : logdisk'[i] = cache'[lh'[i]]
      BY <1>1, <3>2, <3>3, Zenon
    <3>6. head' = lh' /\ tail' < Len(lh') /\ Installed(tail)'
      BY <1>1, <1>2, <1>5, <3>1
    <3>. QED
      BY <3>1, <3>4, <3>5, <3>6, Zenon DEF Stage
  <2>. QED
    BY <2>1, <2>2
<1>13. committing'
  BY <1>1, OneCommitter DEF CommitSteps
<1>14. Stages'
  BY <1>7, <1>12, <1>13 DEF Stages, Stage, CommitSteps
<1>. QED
  BY <1>5, <1>6, <1>7, <1>8, <1>9, <1>10, <1>14 DEF LogInv, Hidden

\* The second write of the header erases a transaction that is home.
LEMMA ClearHeadInv ==
  ASSUME LogInv, NEW p \in Procs, clear_head(p)
  PROVE  LogInv' /\ Hidden
<1>1. /\ UNCHANGED <<disk, logdisk, dirty, outstanding, committing, tail, mode,
                     held, touched>>
      /\ mode = "up" /\ pc[p] = "clear_head" /\ cache' \in Recycled
      /\ lh' = << >> /\ head' = << >>
      /\ pc' = [pc EXCEPT ![p] = "committed"]
  BY DEF clear_head, ClearHead
<1>2. head = lh /\ dirty = {} /\ Installed(Len(lh))
  BY <1>1 DEF LogInv, Stages, Stage
<1>3. /\ Buffers' /\ Seen' = Seen
      /\ cache' \in [Blocks -> Data \cup {NoBuf}]
  BY <1>1, RecycledKept
<1>4. Recovered' = disk
  BY <1>1, RecoveredEmptyNext DEF LogInv, LogTypes
<1>5. Recovered = disk
  BY <1>2, RecoveredInstalled
<1>6. /\ Alone' /\ Counted' /\ SleeperHasWaker' /\ InOp' = InOp
      /\ pc' \in [Procs -> {"user", "begin_op", "asleep", "op"}
                             \cup CommitSteps]
      /\ \A q \in Procs \ {p} : pc'[q] \notin CommitSteps
  BY <1>1, AloneKept, Zenon DEF CommitSteps
<1>7. Headers' /\ Recovery'
  BY <1>1 DEF Headers, Inj, Recovery, Running
<1>8. LogTypes'
  <2>1. /\ lh' \in Seq(Blocks) /\ Len(lh') = 0
        /\ head' \in Seq(Blocks) /\ Len(head') = 0
        /\ LOGSIZE - 1 \in Nat
    BY <1>1, LogAssumption
  <2>. QED
    BY <1>1, <1>3, <1>6, <2>1 DEF LogInv, LogTypes
<1>9. Stage(p)'
  <2>1. pc'[p] = "committed"
    BY <1>1 DEF LogInv, LogTypes
  <2>. QED
    BY <1>1, <1>2, <2>1 DEF Stage
<1>10. committing'
  BY <1>1, OneCommitter DEF CommitSteps
<1>11. Stages'
  BY <1>6, <1>9, <1>10 DEF Stages, Stage, CommitSteps
<1>. QED
  BY <1>3, <1>4, <1>5, <1>6, <1>7, <1>8, <1>11 DEF LogInv, Hidden

\* The end of end_op opens the log again and wakes everyone.
LEMMA CommittedInv ==
  ASSUME LogInv, NEW p \in Procs, committed(p)
  PROVE  LogInv' /\ Hidden
<1>1. /\ UNCHANGED <<disk, logdisk, head, cache, dirty, lh, outstanding,
                     mode, held, touched>>
      /\ mode = "up" /\ pc[p] = "committed" /\ committing' = FALSE
      /\ tail' = 0
      /\ pc' = Woken([pc EXCEPT ![p] = "user"])
  BY DEF committed, diskVars, bufVars
<1>2. head = << >> /\ lh = << >> /\ dirty = {}
  BY <1>1 DEF LogInv, Stages, Stage
<1>3. /\ InOp = {} /\ \A q \in Procs \ {p} : pc[q] \notin CommitSteps
  BY <1>1, OneCommitter DEF CommitSteps
<1>4. pc \in [Procs -> {"user", "begin_op", "asleep", "op"} \cup CommitSteps]
  BY DEF LogInv, LogTypes
<1>5. [pc EXCEPT ![p] = "user"]
        \in [Procs -> {"user", "begin_op", "asleep", "op"} \cup CommitSteps]
  BY <1>4
<1>6. /\ pc' \in [Procs -> {"user", "begin_op", "asleep", "op"}
                             \cup CommitSteps]
      /\ \A q \in Procs : pc'[q] # "asleep"
  BY <1>1, <1>5, WokenPc, Zenon
<1>7. \A q \in Procs : \/ pc'[q] \in {"user", "begin_op"}
                       \/ q # p /\ pc'[q] = pc[q]
  BY <1>1, <1>4 DEF Woken
<1>8. \A q \in Procs : pc'[q] # "op" /\ pc'[q] \notin CommitSteps
  BY <1>3, <1>7 DEF InOp, CommitSteps
<1>9. InOp' = InOp
  BY <1>3, <1>8 DEF InOp
<1>10. Recovered' = Recovered
  BY <1>1, RecoveredKept DEF diskVars
<1>11. Seen' = Seen
  BY <1>1, SeenKept DEF Running, LogInv
<1>12. Buffers' /\ Headers' /\ Recovery' /\ Counted'
  BY <1>1, <1>9 DEF LogInv, Buffers, Headers, Inj, Recovery, Running, Counted
<1>13. Alone' /\ SleeperHasWaker'
  BY <1>1, <1>6, <1>8, Zenon DEF Alone, SleeperHasWaker
<1>14. Gathering'
  BY <1>1, <1>2 DEF Gathering, Logged
<1>15. Stages'
  BY <1>8, <1>14 DEF Stages, Stage, CommitSteps
<1>16. LogTypes'
  <2>1. tail' \in 0 .. LOGSIZE - 1
    BY <1>1, LogAssumption
  <2>. QED
    BY <1>1, <1>6, <2>1, Zenon DEF LogInv, LogTypes
<1>. QED
  BY <1>9, <1>10, <1>11, <1>12, <1>13, <1>15, <1>16 DEF LogInv, Hidden
==============================================================================
