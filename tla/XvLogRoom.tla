----------------------------- MODULE XvLogRoom ------------------------------
(***************************************************************************)
(* The room in the log.  begin_op reserves MAXOPBLOCKS blocks for each     *)
(* operation out of LOGSIZE (log.c:132), but one of the LOGSIZE blocks of  *)
(* the log is its header (mkfs.c:25, log.c:218): operations that all use   *)
(* up what param.h grants them do not fit.  The operations of the file     *)
(* system stay below it (filewrite, file.c:168-175, is the largest); here  *)
(* it is enough that at most one process has operations as large as        *)
(* MAXOPBLOCKS.                                                            *)
(***************************************************************************)
EXTENDS XvLog

ASSUME RoomAssumption == \A p, q \in FullOps : p = q

\* The blocks that the operations in progress may still add to the log.
Reserved ==
  {s \in InOp \X (1 .. MAXOPBLOCKS) :
     Cardinality(touched[s[1]]) < s[2] /\ s[2] <= OpBlocks(s[1])}

\* The log's data blocks hold what is in the header and all that the
\* operations begin_op has admitted may still write, so that log_write may
\* test the length of the header without the lock and append later
\* (log.c:132, 218-230).
LogReserved == Len(lh) + Cardinality(Reserved) <= LOGSIZE - 1
=============================================================================
