---------------------------- MODULE AbstractPipe ----------------------------
(***************************************************************************)
(* What a pipe promises to the processes that share it: a bounded first-in *)
(* first-out channel of bytes.  A byte is delivered once, in the order the *)
(* bytes were written, whoever reads it; and no byte is discarded.         *)
(***************************************************************************)
EXTENDS Integers, Sequences

CONSTANTS Bytes, Capacity

VARIABLES queue,   \* bytes written and not yet read
          got      \* the byte the read in progress copied last, or NoByte

NoByte == -1

Init == queue = <<>> /\ got = NoByte

Write(b) ==
  /\ Len(queue) < Capacity
  /\ queue' = Append(queue, b)
  /\ UNCHANGED got

Read ==
  /\ queue # <<>>
  /\ got' = Head(queue)
  /\ queue' = Tail(queue)

\* read() has returned.
Return == got' = NoByte /\ UNCHANGED queue

Next == (\E b \in Bytes : Write(b)) \/ Read \/ Return

Spec == Init /\ [][Next]_<<queue, got>>

=============================================================================
