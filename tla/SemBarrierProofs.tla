--------------------------- MODULE SemBarrierProofs ---------------------------
(***************************************************************************)
(* Proofs about the semaphore barrier of hw06 for any number of processes. *)
(***************************************************************************)
EXTENDS SemBarrier, FiniteSetTheorems, TLAPS

\* The number of processes is a positive natural number.
LEMMA CountType == bb_count \in Nat \ {0}
  BY ProcessAssumption, FS_CardinalityType, FS_EmptySet DEF bb_count

\* A set of processes is finite and no larger than count; it is everyone when
\* it has count members.
LEMMA CountedBound ==
  ASSUME NEW C \in SUBSET Process
  PROVE  /\ IsFiniteSet(C)
         /\ Cardinality(C) \in Nat
         /\ Cardinality(C) <= bb_count
         /\ Cardinality(C) >= bb_count => C = Process
  <1>1. IsFiniteSet(C) /\ Cardinality(C) \in Nat /\ Cardinality(C) <= bb_count
    BY ProcessAssumption, FS_Subset, FS_CardinalityType DEF bb_count
  <1>2. Cardinality(C) >= bb_count => Cardinality(Process) = Cardinality(C)
    BY <1>1, CountType DEF bb_count
  <1> QED BY <1>1, <1>2, ProcessAssumption, FS_Subset

IInv == SemTypeOK /\ CountingInv

\* One step of barrier_wait by p keeps the invariant: the increment happens
\* under the mutex, and bb->barrier rises only when everyone is counted.
LEMMA StepInv ==
  ASSUME IInv, NEW p \in Process, sem_barrier_wait(p)
  PROVE  IInv'
  <1> USE CountType, ProcessAssumption
  <1>0. Counted \in SUBSET Process
    BY DEF Counted
  <1>1. CASE sem_wait_mutex(p)
    <2>1. Critical = {} /\ Critical' = {p} /\ Counted' = Counted
      BY <1>1 DEF sem_wait_mutex, IInv, SemTypeOK, CountingInv, Critical, Counted, SemPC
    <2>2. SemTypeOK'
      BY <1>1, <2>1 DEF sem_wait_mutex, IInv, SemTypeOK, CountingInv, SemPC
    <2>3. bb_mutex' = 0
      BY <1>1, <2>1 DEF sem_wait_mutex, IInv, CountingInv
    <2>4. CountingInv'
      BY <1>1, <2>1, <2>3 DEF sem_wait_mutex, IInv, SemTypeOK, CountingInv
    <2> QED BY <2>2, <2>4 DEF IInv
  <1>2. CASE count_me(p)
    <2>1. p \in Critical /\ Critical' = Critical
      BY <1>2 DEF count_me, IInv, SemTypeOK, Critical, SemPC
    <2>2. p \notin Counted /\ Counted' = Counted \cup {p}
      BY <1>2 DEF count_me, IInv, SemTypeOK, Counted, SemPC
    <2>3. bb_seen' = Cardinality(Counted')
      BY <1>0, <1>2, <2>2, CountedBound, FS_AddElement DEF count_me, IInv, CountingInv
    <2>4. SemTypeOK'
      BY <1>2 DEF count_me, IInv, SemTypeOK, SemPC
    <2>5. bb_barrier = 0 /\ \A q \in Process : at[q] \notin {"post", "left"}
      BY <1>2, <2>2 DEF IInv, CountingInv, SemTypeOK
    <2>6. CountingInv'
      BY <1>2, <2>1, <2>3, <2>4, <2>5 DEF count_me, IInv, SemTypeOK, CountingInv
    <2> QED BY <2>4, <2>6 DEF IInv
  <1>3. CASE sem_post_mutex(p)
    <2>1. p \in Critical /\ bb_mutex = 0
      BY <1>3 DEF sem_post_mutex, IInv, CountingInv, Critical
    <2>2. Critical' = {}
      BY <1>3, <2>1 DEF sem_post_mutex, IInv, SemTypeOK, CountingInv, Critical, SemPC
    <2>3. Counted' = Counted
      BY <1>3 DEF sem_post_mutex, IInv, SemTypeOK, Counted, SemPC
    <2>4. SemTypeOK' /\ bb_mutex' = 1
      BY <1>3, <2>1 DEF sem_post_mutex, IInv, SemTypeOK, SemPC
    <2>5. CountingInv'
      BY <1>3, <2>2, <2>3, <2>4 DEF sem_post_mutex, IInv, SemTypeOK, CountingInv
    <2> QED BY <2>4, <2>5 DEF IInv
  <1>4. CASE test_seen(p)
    <2>1. Critical' = Critical /\ Counted' = Counted
      BY <1>4 DEF test_seen, IInv, SemTypeOK, Critical, Counted, SemPC
    <2>2. SemTypeOK'
      BY <1>4 DEF test_seen, IInv, SemTypeOK, SemPC
    <2>3. at'[p] = "post" => Counted = Process
      BY <1>0, <1>4, CountedBound DEF test_seen, IInv, SemTypeOK, CountingInv
    <2>4. CountingInv'
      BY <1>4, <2>1, <2>2, <2>3 DEF test_seen, IInv, SemTypeOK, CountingInv
    <2> QED BY <2>2, <2>4 DEF IInv
  <1>5. CASE sem_post_barrier(p)
    <2>1. Critical' = Critical /\ Counted' = Counted /\ Counted = Process
      BY <1>5 DEF sem_post_barrier, IInv, SemTypeOK, CountingInv, Critical, Counted, SemPC
    <2>2. SemTypeOK'
      BY <1>5 DEF sem_post_barrier, IInv, SemTypeOK, SemPC
    <2>3. CountingInv'
      BY <1>5, <2>1, <2>2 DEF sem_post_barrier, IInv, SemTypeOK, CountingInv
    <2> QED BY <2>2, <2>3 DEF IInv
  <1>6. CASE sem_wait_barrier(p)
    <2>1. Critical' = Critical /\ Counted' = Counted /\ Counted = Process
      BY <1>6 DEF sem_wait_barrier, IInv, SemTypeOK, CountingInv, Critical, Counted, SemPC
    <2>2. SemTypeOK'
      BY <1>6 DEF sem_wait_barrier, IInv, SemTypeOK, SemPC
    <2>3. CountingInv'
      BY <1>6, <2>1, <2>2 DEF sem_wait_barrier, IInv, SemTypeOK, CountingInv
    <2> QED BY <2>2, <2>3 DEF IInv
  <1> QED BY <1>1, <1>2, <1>3, <1>4, <1>5, <1>6 DEF sem_barrier_wait

\* The mutex guards the increment and seen counts the processes past it, in
\* every reachable state (barrier.c:43-56).
THEOREM Counting == SemSpec => [](SemTypeOK /\ CountingInv)
  <1>1. make_sem_barrier => IInv
    <2> SUFFICES ASSUME make_sem_barrier PROVE IInv
      OBVIOUS
    <2>1. Counted = {} /\ Critical = {}
      BY DEF make_sem_barrier, Counted, Critical
    <2> QED
      BY <2>1, FS_EmptySet DEF make_sem_barrier, IInv, SemTypeOK, CountingInv, SemPC
  <1>2. IInv /\ [SemNext]_semVars => IInv'
    <2> SUFFICES ASSUME IInv, [SemNext]_semVars PROVE IInv'
      OBVIOUS
    <2>1. CASE UNCHANGED semVars
      BY <2>1 DEF semVars, IInv, SemTypeOK, CountingInv, Critical, Counted
    <2> QED BY <2>1, StepInv DEF SemNext, SemFinished
  <1> QED BY <1>1, <1>2, PTL DEF SemSpec, IInv

\* The semaphore barrier implements the abstract barrier: nobody passes the
\* last sem_wait before everyone is counted (barrier.c:38-73).
THEOREM Refinement == SemSpec => SemImplementsBarrier
  <1>1. make_sem_barrier => SemAbstract!Init
    BY DEF make_sem_barrier, SemAbstract!Init, Counted
  <1>2. IInv /\ [SemNext]_semVars => [SemAbstract!Next]_(SemAbstract!abstractVars)
    <2> SUFFICES ASSUME IInv, [SemNext]_semVars
                 PROVE  [SemAbstract!Next]_(SemAbstract!abstractVars)
      OBVIOUS
    <2> DEFINE arr == [p \in Process |-> IF p \in Counted THEN 1 ELSE 0]
               lft == [p \in Process |-> IF at[p] = "left" THEN 1 ELSE 0]
    <2>1. ASSUME NEW p \in Process, sem_wait_mutex(p) PROVE UNCHANGED <<arr, lft>>
      BY <2>1 DEF sem_wait_mutex, IInv, SemTypeOK, Counted, SemPC
    <2>2. ASSUME NEW p \in Process, count_me(p) PROVE SemAbstract!Arrive(p)
      <3>1. Counted' = Counted \cup {p} /\ p \notin Counted
        BY <2>2 DEF count_me, IInv, SemTypeOK, Counted, SemPC
      <3>2. UNCHANGED lft /\ at[p] # "left"
        BY <2>2 DEF count_me, IInv, SemTypeOK, SemPC
      <3>3. ASSUME NEW q \in Process
            PROVE  arr'[q] = IF q = p THEN arr[q] + 1 ELSE arr[q]
        BY <3>1
      <3>4. arr' = [arr EXCEPT ![p] = @ + 1]
        BY <3>3
      <3> QED BY <3>1, <3>2, <3>4 DEF SemAbstract!Arrive
    <2>3. ASSUME NEW p \in Process, sem_post_mutex(p) PROVE UNCHANGED <<arr, lft>>
      BY <2>3 DEF sem_post_mutex, IInv, SemTypeOK, Counted, SemPC
    <2>4. ASSUME NEW p \in Process, test_seen(p) PROVE UNCHANGED <<arr, lft>>
      BY <2>4 DEF test_seen, IInv, SemTypeOK, Counted, SemPC
    <2>5. ASSUME NEW p \in Process, sem_post_barrier(p) PROVE UNCHANGED <<arr, lft>>
      BY <2>5 DEF sem_post_barrier, IInv, SemTypeOK, Counted, SemPC
    <2>6. ASSUME NEW p \in Process, sem_wait_barrier(p) PROVE SemAbstract!Leave(p)
      <3>1. Counted = Process /\ Counted' = Counted
        BY <2>6 DEF sem_wait_barrier, IInv, SemTypeOK, CountingInv, Counted, SemPC
      <3>2. ASSUME NEW q \in Process
            PROVE  lft'[q] = IF q = p THEN lft[q] + 1 ELSE lft[q]
        BY <2>6 DEF sem_wait_barrier, IInv, SemTypeOK
      <3>4. lft' = [lft EXCEPT ![p] = @ + 1] /\ at[p] # "left"
        BY <2>6, <3>2 DEF sem_wait_barrier
      <3>3. \A q \in Process : lft[p] < arr[q]
        BY <3>1, <3>4
      <3> QED BY <3>1, <3>3, <3>4 DEF SemAbstract!Leave
    <2>7. CASE UNCHANGED semVars
      BY <2>7 DEF semVars, Counted, SemAbstract!abstractVars
    <2> QED
      BY <2>1, <2>2, <2>3, <2>4, <2>5, <2>6, <2>7
      DEF SemNext, sem_barrier_wait, SemFinished, SemAbstract!Next, SemAbstract!abstractVars
  <1> QED
    BY <1>1, <1>2, Counting, PTL DEF SemSpec, IInv, SemImplementsBarrier, SemAbstract!Spec
=============================================================================
