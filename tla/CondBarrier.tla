----------------------------- MODULE CondBarrier -----------------------------
(***************************************************************************)
(* The condition-variable barrier of hw07/unnas-hw07/barrier.c.            *)
(*                                                                         *)
(* The C struct calls the number of threads still expected "seen" and the  *)
(* number that have arrived "count".  pthread_cond_wait is called once,    *)
(* with no loop around it, so a spurious wakeup (which POSIX allows) lets  *)
(* a thread through.  Next leaves spurious wakeups out; SampleSort has a   *)
(* specification with them.                                                *)
(***************************************************************************)
EXTENDS Naturals, FiniteSets

CONSTANTS Thread,     \* the threads that share the barrier
          NoThread,   \* the owner of a free mutex
          Rounds      \* bound: how often each thread calls barrier_wait

ASSUME ThreadAssumption ==
  /\ Thread # {}
  /\ IsFiniteSet(Thread)
  /\ NoThread \notin Thread
  /\ Rounds \in Nat

VARIABLES pc,      \* where each thread stands in barrier_wait
          mutex,   \* the owner of bb->mutex
          count,   \* bb->count
          round,   \* completed calls of barrier_wait, per thread
          gen      \* history: broadcasts so far

barrierVars == <<pc, mutex, count, round, gen>>

\* bb->seen, the argument of make_barrier.
seen == Cardinality(Thread)

PC == {"out", "locked", "waiting", "woken", "unlock"}

make_barrier ==
  /\ pc = [t \in Thread |-> "out"]
  /\ mutex = NoThread
  /\ count = 0
  /\ round = [t \in Thread |-> 0]
  /\ gen = 0

barrier_lock(t) ==
  /\ pc[t] = "out"
  /\ round[t] < Rounds
  /\ mutex = NoThread
  /\ mutex' = t
  /\ pc' = [pc EXCEPT ![t] = "locked"]
  /\ UNCHANGED <<count, round, gen>>

\* Mutant: count is not reset when the last thread arrives.
MutNoReset(t) ==
  /\ pc[t] = "locked"
  /\ count + 1 >= seen
  /\ count' = count + 1
  /\ gen' = gen + 1
  /\ pc' = [u \in Thread |-> IF u = t THEN "unlock"
                             ELSE IF pc[u] = "waiting" THEN "woken" ELSE pc[u]]
  /\ UNCHANGED <<mutex, round>>

\* Mutant: the barrier opens one thread too soon.
MutOffByOne(t) ==
  /\ pc[t] = "locked"
  /\ count + 2 >= seen
  /\ count' = 0
  /\ gen' = gen + 1
  /\ pc' = [u \in Thread |-> IF u = t THEN "unlock"
                             ELSE IF pc[u] = "waiting" THEN "woken" ELSE pc[u]]
  /\ UNCHANGED <<mutex, round>>

\* Mutant: pthread_cond_signal instead of pthread_cond_broadcast.
MutSignal(t) ==
  /\ pc[t] = "locked"
  /\ count + 1 >= seen
  /\ count' = 0
  /\ gen' = gen + 1
  /\ \E W \in SUBSET {u \in Thread : pc[u] = "waiting"} :
       /\ Cardinality(W) = 1 \/ \A u \in Thread : pc[u] # "waiting"
       /\ pc' = [u \in Thread |-> IF u = t THEN "unlock"
                                  ELSE IF u \in W THEN "woken" ELSE pc[u]]
  /\ UNCHANGED <<mutex, round>>

\* ++count reaches seen: reset, broadcast, and go on to the unlock.
barrier_last(t) ==
  /\ pc[t] = "locked"
  /\ count + 1 >= seen
  /\ count' = 0
  /\ gen' = gen + 1
  /\ pc' = [u \in Thread |-> IF u = t THEN "unlock"
                             ELSE IF pc[u] = "waiting" THEN "woken" ELSE pc[u]]
  /\ UNCHANGED <<mutex, round>>

\* ++count stays below seen: pthread_cond_wait releases the mutex and sleeps.
barrier_cond_wait(t) ==
  /\ pc[t] = "locked"
  /\ count + 1 < seen
  /\ count' = count + 1
  /\ mutex' = NoThread
  /\ pc' = [pc EXCEPT ![t] = "waiting"]
  /\ UNCHANGED <<round, gen>>

\* pthread_cond_wait returns without a broadcast.
SpuriousWakeup(t) ==
  /\ pc[t] = "waiting"
  /\ pc' = [pc EXCEPT ![t] = "woken"]
  /\ UNCHANGED <<mutex, count, round, gen>>

\* A woken thread owns the mutex again before pthread_cond_wait returns.
barrier_reacquire(t) ==
  /\ pc[t] = "woken"
  /\ mutex = NoThread
  /\ mutex' = t
  /\ pc' = [pc EXCEPT ![t] = "unlock"]
  /\ UNCHANGED <<count, round, gen>>

\* Mutant: the early return without the unlock.
MutNoUnlock(t) ==
  /\ pc[t] = "unlock"
  /\ pc' = [pc EXCEPT ![t] = "out"]
  /\ round' = [round EXCEPT ![t] = @ + 1]
  /\ UNCHANGED <<mutex, count, gen>>

barrier_return(t) ==
  /\ pc[t] = "unlock"
  /\ mutex' = NoThread
  /\ pc' = [pc EXCEPT ![t] = "out"]
  /\ round' = [round EXCEPT ![t] = @ + 1]
  /\ UNCHANGED <<count, gen>>

barrier_wait(t) ==
  \/ barrier_lock(t)
  \/ barrier_last(t)
  \/ barrier_cond_wait(t)
  \/ barrier_reacquire(t)
  \/ barrier_return(t)

\* Every thread has made all its calls: nothing is left to do.
Finished ==
  /\ \A t \in Thread : pc[t] = "out" /\ round[t] = Rounds
  /\ UNCHANGED barrierVars

Next ==
  \/ \E t \in Thread : barrier_wait(t)
  \/ Finished

Spec == make_barrier /\ [][Next]_barrierVars

-----------------------------------------------------------------------------

\* Every variable stays in its range, and bb->count never reaches bb->seen
\* outside the critical section.
TypeOK ==
  /\ pc \in [Thread -> PC]
  /\ mutex \in Thread \cup {NoThread}
  /\ count \in 0 .. seen - 1
  /\ round \in [Thread -> Nat]
  /\ gen \in Nat

\* How many times t has been counted by barrier_wait (the ++count line).
Arrivals(t) ==
  round[t] + (IF pc[t] \in {"waiting", "woken", "unlock"} THEN 1 ELSE 0)

\* bb->count and the condition variable are only touched by the thread that
\* owns bb->mutex: the owner is exactly the thread inside the critical section.
MutexOwned ==
  \A t \in Thread : (pc[t] \in {"locked", "unlock"}) <=> (mutex = t)

\* The strengthening that makes the refinement below inductive: the waiters are
\* the threads counted since the last broadcast, and count is their number.
GenerationInv ==
  /\ MutexOwned
  /\ count = Cardinality({t \in Thread : pc[t] = "waiting"})
  /\ \A t \in Thread : Arrivals(t) = gen + (IF pc[t] = "waiting" THEN 1 ELSE 0)

\* The barrier implements the abstract one: being counted is arriving,
\* returning from barrier_wait is leaving.
Abstract == INSTANCE AbstractBarrier
  WITH Process <- Thread, arrived <- [t \in Thread |-> Arrivals(t)], left <- round

\* Refinement: the barrier keeps the abstract barrier's promise through every
\* reuse (barrier.c:38-55).
ImplementsBarrier == Abstract!Spec

=============================================================================
