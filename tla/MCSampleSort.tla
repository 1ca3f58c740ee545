----------------------------- MODULE MCSampleSort -----------------------------
(***************************************************************************)
(* Small inputs for SampleSort.                                            *)
(***************************************************************************)
EXTENDS SampleSort

\* Two workers: arrays of three or four values, none of them negative.
TwoWorkerInputs == [1 .. 3 -> 0 .. 2] \cup {<<2, 1, 2, 1>>}

\* Three workers: arrays of six values around the two samples, with ties, with
\* an empty partition, and with values below 0.
ThreeWorkerInputs ==
  {<<3, 1, 2, 3, 1, 2>>, <<1, 1, 1, 1, 1, 1>>, <<0, 0, 5, 1, 5, 0>>,
   <<4, 1, 3, 2, 6, 5, 0>>, <<2, -1, 3, -2, 1, 2>>, <<-1, -1, 2, -1, -1, -1>>}

=============================================================================
