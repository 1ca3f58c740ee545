------------------------------ MODULE MCXvPipe ------------------------------
(* Three processes, each with one end: a writer, a reader and one of either. *)
EXTENDS XvPipe

MCSharing == {f \in [Procs -> {{"r"}, {"w"}}] : f[1] = {"w"} /\ f[2] = {"r"}}

=============================================================================
