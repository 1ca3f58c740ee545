----------------------------- MODULE AtomicDisk -----------------------------
(***************************************************************************)
(* What log.c promises to the file system built on it.  Operations write   *)
(* blocks between begin_op and end_op; a commit makes everything written   *)
(* so far permanent at once, and only while no operation is in progress;   *)
(* a crash falls back to the last commit.  So after a crash each operation *)
(* has happened completely or not at all.                                  *)
(***************************************************************************)
CONSTANTS Procs, Blocks, Data

VARIABLES
  stable,   \* what the disk holds after a crash and a reboot
  current,  \* what a read of each block returns now
  active    \* the processes inside an operation

atomicVars == <<stable, current, active>>

AtomicInit ==
  /\ stable \in [Blocks -> Data]
  /\ current = stable
  /\ active = {}

Begin(p) ==
  /\ p \notin active
  /\ active' = active \cup {p}
  /\ UNCHANGED <<stable, current>>

Write(p, b, d) ==
  /\ p \in active
  /\ current' = [current EXCEPT ![b] = d]
  /\ UNCHANGED <<stable, active>>

End(p) ==
  /\ p \in active
  /\ active' = active \ {p}
  /\ UNCHANGED <<stable, current>>

Commit ==
  /\ active = {}
  /\ stable' = current
  /\ UNCHANGED <<current, active>>

Crash ==
  /\ current' = stable
  /\ active' = {}
  /\ UNCHANGED stable

AtomicNext ==
  \/ \E p \in Procs : Begin(p) \/ End(p)
  \/ \E p \in Procs, b \in Blocks, d \in Data : Write(p, b, d)
  \/ Commit
  \/ Crash

AtomicSpec == AtomicInit /\ [][AtomicNext]_atomicVars
=============================================================================
