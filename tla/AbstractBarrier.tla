--------------------------- MODULE AbstractBarrier ---------------------------
(***************************************************************************)
(* What both barriers promise (hw06 and hw07 barrier.h): a process that    *)
(* has arrived for the k-th time leaves only when everyone has.            *)
(***************************************************************************)
EXTENDS Naturals

CONSTANT Process

VARIABLES arrived,   \* how often each process has arrived
          left       \* how often each process has left

abstractVars == <<arrived, left>>

Init ==
  /\ arrived = [p \in Process |-> 0]
  /\ left = [p \in Process |-> 0]

Arrive(p) ==
  /\ arrived[p] = left[p]
  /\ arrived' = [arrived EXCEPT ![p] = @ + 1]
  /\ UNCHANGED left

Leave(p) ==
  /\ \A q \in Process : left[p] < arrived[q]
  /\ left' = [left EXCEPT ![p] = @ + 1]
  /\ UNCHANGED arrived

Next == \E p \in Process : Arrive(p) \/ Leave(p)

Spec == Init /\ [][Next]_abstractVars

=============================================================================
