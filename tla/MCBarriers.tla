----------------------------- MODULE MCBarriers -----------------------------
(* The two barriers of the course for TLC: the semaphore barrier of hw06,    *)
(* used once, or the condition-variable barrier of hw07, used Rounds times.  *)
EXTENDS CondBarrier, SemBarrier

VARIABLE part

InitBoth == make_barrier /\ make_sem_barrier /\ part \in {"sem", "cond"}

SemStep(p) ==
  part = "sem" /\ sem_barrier_wait(p) /\ UNCHANGED <<barrierVars, part>>

CondStep(t) == part = "cond" /\ barrier_wait(t) /\ UNCHANGED <<semVars, part>>

\* Everyone has made all calls on the barrier in use.
Through ==
  IF part = "sem" THEN \A p \in Process : at[p] = "left"
  ELSE \A t \in Thread : pc[t] = "out" /\ round[t] = Rounds

NextBoth ==
  \/ \E p \in Process : SemStep(p)
  \/ \E t \in Thread : CondStep(t)
  \/ Through /\ UNCHANGED <<barrierVars, semVars, part>>

\* The kernel keeps running every thread that is not blocked.
BarriersSpec ==
  /\ InitBoth
  /\ [][NextBoth]_<<barrierVars, semVars, part>>
  /\ \A p \in Process : WF_semVars(SemStep(p))
  /\ \A t \in Thread : WF_barrierVars(CondStep(t))

\* Everyone gets through the barrier, as often as it is used: no wakeup is lost
\* between the unlock inside pthread_cond_wait and the broadcast (hw07
\* barrier.c:44-52), and enough posts are made (hw06 barrier.c:58-72).
BarriersOpen == <>Through

=============================================================================
