-------------------------- MODULE CondBarrierProofs --------------------------
(***************************************************************************)
(* Proofs about the barrier of hw07 for any number of threads and rounds.  *)
(***************************************************************************)
EXTENDS CondBarrier, FiniteSetTheorems, TLAPS

\* The threads asleep in pthread_cond_wait.
Waiters == {t \in Thread : pc[t] = "waiting"}

\* The number of threads is a positive natural number, and so is finite.
LEMMA SeenType == seen \in Nat \ {0}
  BY ThreadAssumption, FS_CardinalityType, FS_EmptySet DEF seen

\* A set of waiters that misses t and has at least seen - 1 members holds
\* every thread but t: this is when barrier_wait broadcasts.
LEMMA LastArrival ==
  ASSUME NEW W \in SUBSET Thread, NEW t \in Thread, t \notin W,
         Cardinality(W) + 1 >= seen
  PROVE  W = Thread \ {t}
  <1>1. IsFiniteSet(W) /\ Cardinality(W) \in Nat
    BY ThreadAssumption, FS_Subset, FS_CardinalityType
  <1>2. W \cup {t} \in SUBSET Thread /\ IsFiniteSet(Thread)
    BY ThreadAssumption
  <1>3. Cardinality(W \cup {t}) = Cardinality(W) + 1
    BY <1>1, FS_AddElement
  <1>4. Cardinality(W \cup {t}) <= Cardinality(Thread)
    BY <1>2, FS_Subset
  <1>5. Cardinality(Thread) = Cardinality(W \cup {t})
    BY <1>1, <1>3, <1>4, SeenType DEF seen
  <1>6. Thread = W \cup {t}
    BY <1>2, <1>5, FS_Subset
  <1> QED BY <1>6

\* A thread that is not the last leaves at least one thread uncounted.
LEMMA WaitersBound ==
  ASSUME NEW W \in SUBSET Thread
  PROVE  IsFiniteSet(W) /\ Cardinality(W) \in Nat /\ Cardinality(W) <= seen
  BY ThreadAssumption, FS_Subset, FS_CardinalityType DEF seen

\* Type correctness: every variable of the barrier keeps its range, and count
\* stays below seen (barrier.c:42-52).
THEOREM TypeCorrect == Spec => []TypeOK
  <1>1. make_barrier => TypeOK
    BY SeenType, ThreadAssumption DEF make_barrier, TypeOK, PC
  <1>2. TypeOK /\ [Next]_barrierVars => TypeOK'
    <2> SUFFICES ASSUME TypeOK, [Next]_barrierVars PROVE TypeOK'
      OBVIOUS
    <2> USE SeenType, ThreadAssumption DEF TypeOK, PC
    <2>1. ASSUME NEW t \in Thread, barrier_lock(t) PROVE TypeOK'
      BY <2>1 DEF barrier_lock
    <2>2. ASSUME NEW t \in Thread, barrier_last(t) PROVE TypeOK'
      BY <2>2 DEF barrier_last
    <2>3. ASSUME NEW t \in Thread, barrier_cond_wait(t) PROVE TypeOK'
      BY <2>3 DEF barrier_cond_wait
    <2>4. ASSUME NEW t \in Thread, barrier_reacquire(t) PROVE TypeOK'
      BY <2>4 DEF barrier_reacquire
    <2>5. ASSUME NEW t \in Thread, barrier_return(t) PROVE TypeOK'
      BY <2>5 DEF barrier_return
    <2>6. CASE UNCHANGED barrierVars
      BY <2>6 DEF barrierVars
    <2> QED
      BY <2>1, <2>2, <2>3, <2>4, <2>5, <2>6
      DEF Next, barrier_wait, Finished
  <1> QED BY <1>1, <1>2, PTL DEF Spec

\* The inductive invariant behind the barrier: the owner of the mutex is the
\* thread in the critical section, count is the number of sleepers, and every
\* thread has been counted once per broadcast, the sleepers once more.
THEOREM Generations == Spec => []GenerationInv
  <1>1. make_barrier => GenerationInv
    <2> SUFFICES ASSUME make_barrier PROVE GenerationInv
      OBVIOUS
    <2>1. {t \in Thread : pc[t] = "waiting"} = {}
      BY DEF make_barrier
    <2> QED
      BY <2>1, FS_EmptySet, ThreadAssumption
      DEF make_barrier, GenerationInv, MutexOwned, Arrivals
  <1>2. TypeOK /\ GenerationInv /\ [Next]_barrierVars => GenerationInv'
    <2> SUFFICES ASSUME TypeOK, GenerationInv, [Next]_barrierVars
                 PROVE  GenerationInv'
      OBVIOUS
    <2> USE SeenType, ThreadAssumption
    <2>0. Waiters \in SUBSET Thread /\ count = Cardinality(Waiters)
      BY DEF GenerationInv, Waiters
    <2>1. ASSUME NEW t \in Thread, barrier_lock(t) PROVE GenerationInv'
      <3>1. Waiters' = Waiters
        BY <2>1 DEF barrier_lock, Waiters, TypeOK
      <3> QED
        BY <2>0, <2>1, <3>1
        DEF barrier_lock, TypeOK, GenerationInv, MutexOwned, Arrivals, Waiters
    <2>2. ASSUME NEW t \in Thread, barrier_last(t) PROVE GenerationInv'
      <3>1. Waiters = Thread \ {t}
        BY <2>0, <2>2, LastArrival DEF barrier_last, Waiters
      <3>2. pc' = [u \in Thread |-> IF u = t THEN "unlock" ELSE "woken"]
        BY <2>2, <3>1 DEF barrier_last, Waiters, TypeOK
      <3>3. Waiters' = {}
        BY <3>2 DEF Waiters
      <3>4. count' = Cardinality({u \in Thread : pc'[u] = "waiting"})
        BY <2>2, <3>3, FS_EmptySet DEF barrier_last, Waiters
      <3>5. MutexOwned'
        BY <2>2, <3>1, <3>2 DEF barrier_last, MutexOwned, GenerationInv, Waiters
      <3>6. ASSUME NEW u \in Thread
            PROVE  Arrivals(u)' = gen' + (IF pc'[u] = "waiting" THEN 1 ELSE 0)
        <4>1. CASE u = t
          BY <4>1, <2>2, <3>2 DEF barrier_last, Arrivals, GenerationInv, TypeOK
        <4>2. CASE u # t
          BY <4>2, <2>2, <3>1, <3>2
          DEF barrier_last, Arrivals, GenerationInv, TypeOK, Waiters
        <4> QED BY <4>1, <4>2
      <3> QED BY <3>4, <3>5, <3>6 DEF GenerationInv
    <2>3. ASSUME NEW t \in Thread, barrier_cond_wait(t) PROVE GenerationInv'
      <3>1. Waiters' = Waiters \cup {t} /\ t \notin Waiters
        BY <2>3 DEF barrier_cond_wait, Waiters, TypeOK
      <3>2. count' = Cardinality(Waiters')
        BY <2>0, <2>3, <3>1, WaitersBound, FS_AddElement DEF barrier_cond_wait
      <3>3. MutexOwned'
        BY <2>3 DEF barrier_cond_wait, MutexOwned, GenerationInv, TypeOK
      <3>4. ASSUME NEW u \in Thread
            PROVE  Arrivals(u)' = gen' + (IF pc'[u] = "waiting" THEN 1 ELSE 0)
        BY <2>3 DEF barrier_cond_wait, Arrivals, GenerationInv, TypeOK
      <3> QED BY <3>2, <3>3, <3>4 DEF GenerationInv, Waiters
    <2>4. ASSUME NEW t \in Thread, barrier_reacquire(t) PROVE GenerationInv'
      <3>1. Waiters' = Waiters
        BY <2>4 DEF barrier_reacquire, Waiters, TypeOK
      <3> QED
        BY <2>0, <2>4, <3>1
        DEF barrier_reacquire, TypeOK, GenerationInv, MutexOwned, Arrivals, Waiters
    <2>5. ASSUME NEW t \in Thread, barrier_return(t) PROVE GenerationInv'
      <3>1. Waiters' = Waiters
        BY <2>5 DEF barrier_return, Waiters, TypeOK
      <3>2. MutexOwned'
        BY <2>5 DEF barrier_return, MutexOwned, GenerationInv, TypeOK
      <3>3. ASSUME NEW u \in Thread
            PROVE  Arrivals(u)' = gen' + (IF pc'[u] = "waiting" THEN 1 ELSE 0)
        BY <2>5 DEF barrier_return, Arrivals, GenerationInv, TypeOK
      <3> QED BY <2>0, <2>5, <3>1, <3>2, <3>3 DEF barrier_return, GenerationInv, Waiters
    <2>6. CASE UNCHANGED barrierVars
      BY <2>6 DEF barrierVars, GenerationInv, MutexOwned, Arrivals
    <2> QED
      BY <2>1, <2>2, <2>3, <2>4, <2>5, <2>6
      DEF Next, barrier_wait, Finished
  <1> QED BY <1>1, <1>2, TypeCorrect, PTL DEF Spec

\* Without spurious wakeups the barrier implements the abstract one: nobody
\* returns from its k-th barrier_wait before every thread has been counted k
\* times, for any number of threads and calls (barrier.c:38-55).
THEOREM Refinement == Spec => ImplementsBarrier
  <1>1. make_barrier => Abstract!Init
    BY DEF make_barrier, Abstract!Init, Arrivals
  <1>2. TypeOK /\ GenerationInv /\ [Next]_barrierVars
          => [Abstract!Next]_(Abstract!abstractVars)
    <2> SUFFICES ASSUME TypeOK, GenerationInv, [Next]_barrierVars
                 PROVE  [Abstract!Next]_(Abstract!abstractVars)
      OBVIOUS
    <2> DEFINE arr == [t \in Thread |-> Arrivals(t)]
    <2>0. ASSUME NEW t \in Thread PROVE Arrivals(t) \in Nat /\ round[t] \in Nat
      BY DEF Arrivals, TypeOK
    <2>1. ASSUME NEW t \in Thread, barrier_lock(t) PROVE UNCHANGED <<arr, round>>
      BY <2>1 DEF barrier_lock, Arrivals, TypeOK
    <2>2. ASSUME NEW t \in Thread, barrier_last(t) PROVE Abstract!Arrive(t)
      <3>0. ASSUME NEW u \in Thread
            PROVE  Arrivals(u)' = IF u = t THEN Arrivals(u) + 1 ELSE Arrivals(u)
        BY <2>2 DEF barrier_last, Arrivals, TypeOK
      <3>1. arr' = [arr EXCEPT ![t] = @ + 1]
        BY <3>0
      <3>2. arr[t] = round[t]
        BY <2>2 DEF barrier_last, Arrivals, TypeOK
      <3> QED BY <2>2, <3>1, <3>2 DEF barrier_last, Abstract!Arrive
    <2>3. ASSUME NEW t \in Thread, barrier_cond_wait(t) PROVE Abstract!Arrive(t)
      <3>0. ASSUME NEW u \in Thread
            PROVE  Arrivals(u)' = IF u = t THEN Arrivals(u) + 1 ELSE Arrivals(u)
        BY <2>3 DEF barrier_cond_wait, Arrivals, TypeOK
      <3>1. arr' = [arr EXCEPT ![t] = @ + 1]
        BY <3>0
      <3>2. arr[t] = round[t]
        BY <2>3 DEF barrier_cond_wait, Arrivals, TypeOK
      <3> QED BY <2>3, <3>1, <3>2 DEF barrier_cond_wait, Abstract!Arrive
    <2>4. ASSUME NEW t \in Thread, barrier_reacquire(t) PROVE UNCHANGED <<arr, round>>
      BY <2>4 DEF barrier_reacquire, Arrivals, TypeOK
    <2>5. ASSUME NEW t \in Thread, barrier_return(t) PROVE Abstract!Leave(t)
      <3>1. UNCHANGED arr
        BY <2>5 DEF barrier_return, Arrivals, TypeOK
      <3>2. round[t] + 1 = gen
        BY <2>5 DEF barrier_return, GenerationInv, Arrivals, TypeOK
      <3>3. ASSUME NEW u \in Thread PROVE round[t] < arr[u]
        BY <2>0, <3>2 DEF GenerationInv, TypeOK
      <3> QED BY <2>5, <3>1, <3>3 DEF barrier_return, Abstract!Leave
    <2>6. CASE UNCHANGED barrierVars
      BY <2>6 DEF barrierVars, Arrivals, Abstract!abstractVars
    <2> QED
      BY <2>1, <2>2, <2>3, <2>4, <2>5, <2>6
      DEF Next, barrier_wait, Finished, Abstract!Next, Abstract!abstractVars
  <1> QED
    BY <1>1, <1>2, TypeCorrect, Generations, PTL
    DEF Spec, ImplementsBarrier, Abstract!Spec
=============================================================================
