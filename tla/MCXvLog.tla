------------------------------ MODULE MCXvLog -------------------------------
(***************************************************************************)
(* XvLogRoom on a disk that mkfs has just made, zeroes everywhere          *)
(* (mkfs.c:110-111).  Either there are few operations and they write what  *)
(* they like, or there are more and all they write is zeroes: the first is *)
(* for what the disk holds, the second for what begin_op admits.           *)
(***************************************************************************)
EXTENDS XvLogRoom

CONSTANTS FewOps, MoreOps

VARIABLES
  opsLeft,   \* operations that may still begin, after a crash too
  contents   \* what they write

mcVars == <<logVars, opsLeft, contents>>

MCInit ==
  /\ LogInit
  /\ disk = [b \in Blocks |-> 0]
  /\ logdisk = [i \in Slots |-> 0]
  /\ \/ opsLeft = FewOps /\ contents = Data
     \/ opsLeft = MoreOps /\ contents = {0}

MCNext ==
  /\ LogNext
  /\ opsLeft' = opsLeft - Cardinality(InOp' \ InOp)
  /\ opsLeft' >= 0
  /\ \A b \in Blocks : cache'[b] \in contents \cup {NoBuf}
  /\ UNCHANGED contents

MCSpec == MCInit /\ [][MCNext]_mcVars /\ LogFairness
=============================================================================
