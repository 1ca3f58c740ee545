------------------------------ MODULE SampleSort ------------------------------
(***************************************************************************)
(* The threaded sample sort of hw07/unnas-hw07/ssort.c on top of its       *)
(* barrier.  Thread is 0 .. P-1; input values are integers, as read from   *)
(* the file and converted to float (a monotone conversion).                *)
(***************************************************************************)
EXTENDS CondBarrier, Integers, Sequences, SequencesExt

CONSTANTS Inputs,   \* the input arrays main may read
          FltMax    \* FLT_MAX, above every input value

ASSUME InputAssumption ==
  /\ Thread = 0 .. seen - 1
  /\ Rounds = 1
  /\ \A a \in Inputs : Len(a) >= 3 * (seen - 1)    \* copy_rand_values stays in bounds
  /\ \A a \in Inputs : \A i \in DOMAIN a : a[i] \in Int /\ a[i] < FltMax

VARIABLES input,    \* the shared input array
          sizes,    \* sizes[p], written by worker p
          output,   \* the shared output array
          file,     \* the output file, one word per element; word 1 is the header
          wpc,      \* where each worker stands in partition_worker
          local,    \* local_array, sorted
          jj,       \* output index of the worker's partition
          ii,       \* the worker's loop counter
          pos,      \* file offset of the worker's descriptor, in words
          main      \* threads created, or joined (counted past P), by main

sortVars == <<input, sizes, output, file, wpc, local, jj, ii, pos, main>>
vars == <<barrierVars, sortVars>>

P == seen

qsort_floats(s) == SortSeq(s, <)

\* The 3(P-1) candidates are the first ones of the array in random order; the
\* sort removes the randomness.  samples[0] is 0 and samples[P] is FLT_MAX.
fill_samples(data) ==
  LET rSort == qsort_floats(SubSeq(data, 1, 3 * (P - 1)))
  IN  [p \in 0 .. P |-> IF p = 0 THEN 0 ELSE IF p = P THEN FltMax ELSE rSort[3 * p - 1]]

\* Mutant: the upper sample is taken into the partition.
MutInclusive(t) ==
  LET samples == fill_samples(input)
      InRange(x) == x >= samples[t] /\ x <= samples[t + 1]
  IN  qsort_floats(SelectSeq(input, InRange))

Partition(t) ==
  LET samples == fill_samples(input)
      InRange(x) == x >= samples[t] /\ x < samples[t + 1]
  IN  qsort_floats(SelectSeq(input, InRange))

Header == FltMax

\* write(2) at a word offset: a gap before it reads as zero.
WriteAt(f, p, v) ==
  [i \in 1 .. (IF Len(f) > p THEN Len(f) ELSE p + 1) |->
     IF i = p + 1 THEN v ELSE IF i <= Len(f) THEN f[i] ELSE 0]

\* main up to the first pthread_create.
Init ==
  /\ make_barrier
  /\ input \in Inputs
  /\ sizes = [t \in Thread |-> 0]
  /\ output = [i \in 1 .. Len(input) |-> 0]
  /\ file = <<Header>>
  /\ wpc = [t \in Thread |-> "none"]
  /\ local = [t \in Thread |-> <<>>]
  /\ jj = [t \in Thread |-> 0]
  /\ ii = [t \in Thread |-> 0]
  /\ pos = [t \in Thread |-> 0]
  /\ main = 0

pthread_create ==
  /\ main < P
  /\ wpc' = [wpc EXCEPT ![main] = "scan"]
  /\ main' = main + 1
  /\ UNCHANGED <<barrierVars, input, sizes, output, file, local, jj, ii, pos>>

pthread_join ==
  /\ main >= P
  /\ main < 2 * P
  /\ wpc[main - P] = "done"
  /\ main' = main + 1
  /\ UNCHANGED <<barrierVars, input, sizes, output, file, wpc, local, jj, ii, pos>>

\* Build the local array, sort it, publish its size.
partition_scan(t) ==
  /\ wpc[t] = "scan"
  /\ local' = [local EXCEPT ![t] = Partition(t)]
  /\ sizes' = [sizes EXCEPT ![t] = Len(Partition(t))]
  /\ wpc' = [wpc EXCEPT ![t] = "barrier"]
  /\ UNCHANGED <<barrierVars, input, output, file, jj, ii, pos, main>>

\* Mutant: the worker does not wait at the barrier.
MutNoBarrier(t) ==
  /\ wpc[t] = "barrier"
  /\ wpc' = [wpc EXCEPT ![t] = "offset"]
  /\ UNCHANGED <<barrierVars, input, sizes, output, file, local, jj, ii, pos, main>>

partition_barrier(t) ==
  /\ wpc[t] = "barrier"
  /\ barrier_wait(t)
  /\ wpc' = [wpc EXCEPT ![t] = IF round'[t] = 1 THEN "offset" ELSE @]
  /\ UNCHANGED <<input, sizes, output, file, local, jj, ii, pos, main>>

\* Mutant: the offset loop stops one partition short.
MutShortOffset(t) ==
  /\ wpc[t] = "offset"
  /\ IF ii[t] < t - 1
     THEN /\ jj' = [jj EXCEPT ![t] = @ + sizes[ii[t]]]
          /\ ii' = [ii EXCEPT ![t] = @ + 1]
          /\ UNCHANGED wpc
     ELSE /\ wpc' = [wpc EXCEPT ![t] = "open"]
          /\ UNCHANGED <<jj, ii>>
  /\ UNCHANGED <<barrierVars, input, sizes, output, file, local, pos, main>>

\* One turn of the loop that adds up the sizes of the partitions before t.
partition_offset(t) ==
  /\ wpc[t] = "offset"
  /\ IF ii[t] < t
     THEN /\ jj' = [jj EXCEPT ![t] = @ + sizes[ii[t]]]
          /\ ii' = [ii EXCEPT ![t] = @ + 1]
          /\ UNCHANGED wpc
     ELSE /\ wpc' = [wpc EXCEPT ![t] = "open"]
          /\ UNCHANGED <<jj, ii>>
  /\ UNCHANGED <<barrierVars, input, sizes, output, file, local, pos, main>>

\* open(O_CREAT | O_TRUNC | O_RDWR), then seek past the header and the offset.
partition_open(t) ==
  /\ wpc[t] = "open"
  /\ file' = <<>>
  /\ pos' = [pos EXCEPT ![t] = jj[t] + 1]
  /\ ii' = [ii EXCEPT ![t] = 0]
  /\ wpc' = [wpc EXCEPT ![t] = "write"]
  /\ UNCHANGED <<barrierVars, input, sizes, output, local, jj, main>>

\* One turn of the output loop: the file first, then the output array.
partition_write(t) ==
  /\ wpc[t] = "write"
  /\ ii[t] < Len(local[t])
  /\ LET element == local[t][ii[t] + 1]
     IN  /\ file' = WriteAt(file, pos[t], element)
         /\ output' = [output EXCEPT ![ii[t] + jj[t] + 1] = element]
  /\ pos' = [pos EXCEPT ![t] = @ + 1]
  /\ ii' = [ii EXCEPT ![t] = @ + 1]
  /\ UNCHANGED <<barrierVars, input, sizes, wpc, local, jj, main>>

partition_close(t) ==
  /\ wpc[t] = "write"
  /\ ii[t] >= Len(local[t])
  /\ wpc' = [wpc EXCEPT ![t] = "done"]
  /\ UNCHANGED <<barrierVars, input, sizes, output, file, local, jj, ii, pos, main>>

partition_worker(t) ==
  \/ partition_scan(t)
  \/ partition_barrier(t)
  \/ partition_offset(t)
  \/ partition_open(t)
  \/ partition_write(t)
  \/ partition_close(t)

Joined == main = 2 * P

Exited == Joined /\ UNCHANGED vars

SortNext ==
  \/ pthread_create
  \/ pthread_join
  \/ \E t \in Thread : partition_worker(t)
  \/ Exited

\* A worker that waits at the barrier wakes up without a broadcast.
SpuriousStep(t) == SpuriousWakeup(t) /\ UNCHANGED sortVars

\* The sort where pthread_cond_wait may return at any time.
SpuriousSpec == Init /\ [][SortNext \/ \E t \in Thread : SpuriousStep(t)]_vars

\* Runnable threads keep running.
SortSpec ==
  /\ Init
  /\ [][SortNext]_vars
  /\ WF_vars(pthread_create)
  /\ WF_vars(pthread_join)
  /\ \A t \in Thread : WF_vars(partition_worker(t))

-----------------------------------------------------------------------------

\* Every variable of the sort stays in its range; no output index leaves the array.
SortTypeOK ==
  /\ TypeOK
  /\ sizes \in [Thread -> 0 .. Len(input)]
  /\ Len(output) = Len(input)
  /\ \A t \in Thread : jj[t] + Len(local[t]) <= Len(input)
  /\ main \in 0 .. 2 * P

\* A worker past the barrier sees the final size of every partition: "Wait for
\* everyone to make their local arrays" (ssort.c:110).
SizesFinalAfterBarrier ==
  \A t, u \in Thread :
    wpc[t] \in {"offset", "open", "write", "done"} => sizes[u] = Len(Partition(u))

NonNegative(s) == LET Keep(x) == x >= 0 IN SelectSeq(s, Keep)

\* When main has joined the workers, the part of the output array they wrote
\* holds every input value from 0 up, in order.  For an input without negative
\* values, the only kind that tools/gen-input.c writes, the output array is the
\* sorted input and the sizes add up to its length, as test.pl:83 asks.  Of a
\* negative value nothing is said: samples[0] is 0, so one below the first
\* sample is in no partition (ssort.c:69, 97) and is lost.
OutputSorted ==
  LET written == FoldFunction(+, 0, sizes)
  IN  Joined => NonNegative(SubSeq(output, 1, written))
                  = qsort_floats(NonNegative(input))

\* When main has joined the workers, the output file holds the sorted input
\* after its header: "Write the data out to the file." (ssort.c:113).
FileSorted ==
  Joined => Len(file) = Len(input) + 1 /\ Tail(file) = qsort_floats(input)

\* Every worker gets through the barrier and main joins them all.
SortTerminates == <>Joined

=============================================================================
