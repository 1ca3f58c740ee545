------------------------------ MODULE SemBarrier ------------------------------
(***************************************************************************)
(* The semaphore barrier of hw06/hw06-starter/barrier.c, shared by         *)
(* processes and never reset: each process calls barrier_wait once.  The   *)
(* fields of bb carry its name, to tell them from those of CondBarrier.    *)
(***************************************************************************)
EXTENDS Naturals, FiniteSets

CONSTANT Process   \* the processes that share the barrier

ASSUME ProcessAssumption == Process # {} /\ IsFiniteSet(Process)

VARIABLES bb_mutex,     \* value of bb->mutex
          bb_barrier,   \* value of bb->barrier
          bb_seen,      \* bb->seen
          at,           \* where each process stands in barrier_wait
          mine,         \* the local variable seen
          ii            \* the posting loop's counter

semVars == <<bb_mutex, bb_barrier, bb_seen, at, mine, ii>>

\* bb->count, the argument of make_barrier.
bb_count == Cardinality(Process)

make_sem_barrier ==
  /\ bb_mutex = 1
  /\ bb_barrier = 0
  /\ bb_seen = 0
  /\ at = [p \in Process |-> "start"]
  /\ mine = [p \in Process |-> 0]
  /\ ii = [p \in Process |-> 0]

\* Mutant: bb->mutex is not taken before the increment.
MutNoMutex(p) ==
  /\ at[p] = "start"
  /\ at' = [at EXCEPT ![p] = "count"]
  /\ UNCHANGED <<bb_mutex, bb_barrier, bb_seen, mine, ii>>

sem_wait_mutex(p) ==
  /\ at[p] = "start"
  /\ bb_mutex > 0
  /\ bb_mutex' = bb_mutex - 1
  /\ at' = [at EXCEPT ![p] = "count"]
  /\ UNCHANGED <<bb_barrier, bb_seen, mine, ii>>

count_me(p) ==
  /\ at[p] = "count"
  /\ bb_seen' = bb_seen + 1
  /\ mine' = [mine EXCEPT ![p] = bb_seen + 1]
  /\ at' = [at EXCEPT ![p] = "unlock"]
  /\ UNCHANGED <<bb_mutex, bb_barrier, ii>>

\* Mutant: after the unlock every process takes itself for the last one.
MutAllLast(p) ==
  /\ at[p] = "unlock"
  /\ bb_mutex' = bb_mutex + 1
  /\ mine' = [mine EXCEPT ![p] = bb_count]
  /\ at' = [at EXCEPT ![p] = "test"]
  /\ UNCHANGED <<bb_barrier, bb_seen, ii>>

sem_post_mutex(p) ==
  /\ at[p] = "unlock"
  /\ bb_mutex' = bb_mutex + 1
  /\ at' = [at EXCEPT ![p] = "test"]
  /\ UNCHANGED <<bb_barrier, bb_seen, mine, ii>>

\* Mutant: > instead of >=.
MutStrictTest(p) ==
  /\ at[p] = "test"
  /\ at' = [at EXCEPT ![p] = IF mine[p] > bb_count THEN "post" ELSE "wait"]
  /\ UNCHANGED <<bb_mutex, bb_barrier, bb_seen, mine, ii>>

test_seen(p) ==
  /\ at[p] = "test"
  /\ at' = [at EXCEPT ![p] = IF mine[p] >= bb_count THEN "post" ELSE "wait"]
  /\ UNCHANGED <<bb_mutex, bb_barrier, bb_seen, mine, ii>>

\* Mutant: the loop posts once too often.
MutExtraPost(p) ==
  /\ at[p] = "post"
  /\ IF ii[p] <= bb_count
     THEN /\ bb_barrier' = bb_barrier + 1
          /\ ii' = [ii EXCEPT ![p] = @ + 1]
          /\ UNCHANGED at
     ELSE /\ at' = [at EXCEPT ![p] = "wait"]
          /\ UNCHANGED <<bb_barrier, ii>>
  /\ UNCHANGED <<bb_mutex, bb_seen, mine>>

\* One turn of the loop that posts count times.
sem_post_barrier(p) ==
  /\ at[p] = "post"
  /\ IF ii[p] < bb_count
     THEN /\ bb_barrier' = bb_barrier + 1
          /\ ii' = [ii EXCEPT ![p] = @ + 1]
          /\ UNCHANGED at
     ELSE /\ at' = [at EXCEPT ![p] = "wait"]
          /\ UNCHANGED <<bb_barrier, ii>>
  /\ UNCHANGED <<bb_mutex, bb_seen, mine>>

sem_wait_barrier(p) ==
  /\ at[p] = "wait"
  /\ bb_barrier > 0
  /\ bb_barrier' = bb_barrier - 1
  /\ at' = [at EXCEPT ![p] = "left"]
  /\ UNCHANGED <<bb_mutex, bb_seen, mine, ii>>

sem_barrier_wait(p) ==
  \/ sem_wait_mutex(p)
  \/ count_me(p)
  \/ sem_post_mutex(p)
  \/ test_seen(p)
  \/ sem_post_barrier(p)
  \/ sem_wait_barrier(p)

SemFinished == (\A p \in Process : at[p] = "left") /\ UNCHANGED semVars

SemNext == (\E p \in Process : sem_barrier_wait(p)) \/ SemFinished

SemSpec == make_sem_barrier /\ [][SemNext]_semVars

-----------------------------------------------------------------------------

SemPC == {"start", "count", "unlock", "test", "post", "wait", "left"}

\* Every variable stays in its range; mutex is a binary semaphore.
SemTypeOK ==
  /\ bb_mutex \in {0, 1}
  /\ bb_barrier \in Nat
  /\ bb_seen \in Nat
  /\ at \in [Process -> SemPC]
  /\ mine \in [Process -> Nat]
  /\ ii \in [Process -> Nat]

Counted == {p \in Process : at[p] \notin {"start", "count"}}

Critical == {p \in Process : at[p] \in {"count", "unlock"}}

\* The strengthening behind the refinement: seen counts the processes past the
\* increment, nobody's copy exceeds it, the mutex guards the increment, and the
\* barrier semaphore is only ever raised once everyone has been counted.
CountingInv ==
  /\ bb_mutex = IF Critical = {} THEN 1 ELSE 0
  /\ \A p, q \in Critical : p = q
  /\ bb_seen = Cardinality(Counted)
  /\ \A p \in Process : mine[p] <= bb_seen
  /\ (bb_barrier > 0 \/ \E p \in Process : at[p] \in {"post", "left"})
       => Counted = Process

\* Exactly one process opens the barrier, so the posts are used up: a later
\* sem_wait on bb->barrier would block (barrier.c:58-68).
PostsUsedUp == (\A p \in Process : at[p] = "left") => bb_barrier = 0

\* The barrier implements the abstract one: being past the increment is
\* arriving, being past the last sem_wait is leaving.
SemAbstract == INSTANCE AbstractBarrier
  WITH arrived <- [p \in Process |-> IF p \in Counted THEN 1 ELSE 0],
       left <- [p \in Process |-> IF at[p] = "left" THEN 1 ELSE 0]

\* Refinement: nobody leaves before everyone has arrived (barrier.c:38-73).
SemImplementsBarrier == SemAbstract!Spec

=============================================================================
