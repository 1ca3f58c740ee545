------------------------------ MODULE BlockHeap ------------------------------
(***************************************************************************)
(* The free list that the three allocators of the repository share: hw08's *)
(* hmalloc.c (cell_insert_block, three-word cells) and challenge02's       *)
(* hwx_malloc.c and opt_malloc.c (llist_insert, two-word cells).           *)
(*                                                                         *)
(* Memory is a function from word addresses to words; one word is the      *)
(* eight bytes of a size_t or of a pointer.  A free block starts with its  *)
(* size and holds the pointer to the next cell in its last cell word, so a *)
(* store to a cell that is larger than its block lands where it would land *)
(* in the program.                                                         *)
(***************************************************************************)
EXTENDS Integers, FiniteSets

CONSTANTS PageSize,  \* words of a page (512 in the program)
          CellSize,  \* words of a list cell: 3 in hw08, 2 in challenge02
          NPages     \* bound: pages mmap can hand out, numbered 1..NPages

ASSUME HeapAssumption == /\ PageSize \in Nat /\ CellSize \in {2, 3}
                         /\ PageSize > CellSize /\ NPages \in Nat \ {0}

NULL == 0
Page == 1..NPages
Base(p) == p * PageSize
PageWords(p) == Base(p)..(Base(p) + PageSize - 1)
Address == 0..(Base(NPages + 1) - 1)

\* The word of a cell that holds its `rest' (hw08) or `next' (ch02) pointer.
RestAt(c) == c + CellSize - 1

-----------------------------------------------------------------------------
(* Insertion by address, joining neighbours that touch.  Each of the four  *)
(* outcomes is the one of cell_insert_block; a heap is a record of the     *)
(* memory and of the head the caller stores.                               *)

\* Mutant: a cell that grew at its end is not joined with the cell behind it.
RECURSIVE MutJoinOnce(_, _, _)
MutJoinOnce(m, c, h) ==
  CASE h = NULL -> [mem |-> [m EXCEPT ![RestAt(c)] = NULL], head |-> c]
    [] h # NULL /\ c < h ->
         IF c + m[c] = h
         THEN [mem |-> [m EXCEPT ![c] = @ + m[h], ![RestAt(c)] = m[RestAt(h)]],
               head |-> c]
         ELSE [mem |-> [m EXCEPT ![RestAt(c)] = h], head |-> c]
    [] h # NULL /\ c >= h ->
         IF h + m[h] = c
         THEN [mem |-> [m EXCEPT ![h] = @ + m[c]], head |-> h]
         ELSE LET r == MutJoinOnce(m, c, m[RestAt(h)])
              IN  [mem |-> [r.mem EXCEPT ![RestAt(h)] = r.head], head |-> h]

RECURSIVE insert(_, _, _)
insert(m, c, h) ==
  CASE h = NULL -> [mem |-> [m EXCEPT ![RestAt(c)] = NULL], head |-> c]
    [] h # NULL /\ c < h ->
         IF c + m[c] = h
         THEN [mem |-> [m EXCEPT ![c] = @ + m[h], ![RestAt(c)] = m[RestAt(h)]],
               head |-> c]
         ELSE [mem |-> [m EXCEPT ![RestAt(c)] = h], head |-> c]
    [] h # NULL /\ c >= h ->
         IF h + m[h] = c
         THEN LET grown == [m EXCEPT ![h] = @ + m[c]]
              IN  insert(grown, h, grown[RestAt(h)])
         ELSE LET r == insert(m, c, m[RestAt(h)])
              IN  [mem |-> [r.mem EXCEPT ![RestAt(h)] = r.head], head |-> h]

-----------------------------------------------------------------------------
(* First fit: the first cell of at least n words, unlinked; NULL if none.  *)
(* The first cell is unlinked by moving the head, a later one by storing   *)
(* its successor in its predecessor.                                       *)
RECURSIVE AfterHead(_, _, _)
AfterHead(m, prev, n) ==
  LET c == m[RestAt(prev)]
  IN  CASE c = NULL -> [mem |-> m, block |-> NULL]
        [] c # NULL /\ m[c] >= n ->
             [mem |-> [m EXCEPT ![RestAt(prev)] = m[RestAt(c)]], block |-> c]
        [] c # NULL /\ m[c] < n -> AfterHead(m, c, n)

get_free_block(m, h, n) ==
  IF h # NULL /\ m[h] >= n
  THEN [mem |-> m, head |-> m[RestAt(h)], block |-> h]
  ELSE IF h = NULL
       THEN [mem |-> m, head |-> NULL, block |-> NULL]
       ELSE LET r == AfterHead(m, h, n)
            IN  [mem |-> r.mem, head |-> h, block |-> r.block]

\* xx / yy rounded up.
div_up(xx, yy) == IF (xx \div yy) * yy = xx THEN xx \div yy ELSE xx \div yy + 1

\* The first addresses mmap may return for n pages when `mapped' are in use:
\* the kernel chooses, so adjacent mappings and gaps are both possible.
Mappable(mapped, n) ==
  {p \in Page : p + n - 1 \in Page /\ p..(p + n - 1) \cap mapped = {}}

\* A fresh anonymous mapping reads as zero.
Zeroed(m, p, n) ==
  [a \in DOMAIN m |-> IF a \in UNION {PageWords(q) : q \in p..(p + n - 1)}
                      THEN 0 ELSE m[a]]

\* Mutants: the leftover's size with its sign wrong; the block keeps its old
\* size; the header word is not counted.
MutSplitSign(m, h, b, s, n) ==
  IF s - n > CellSize
  THEN LET r == insert([m EXCEPT ![b + n] = n - s], b + n, h)
       IN  [mem |-> r.mem, head |-> r.head, size |-> n]
  ELSE [mem |-> m, head |-> h, size |-> s]

MutKeepSize(m, h, b, s, n) ==
  IF s - n > CellSize
  THEN LET r == insert([m EXCEPT ![b + n] = s - n], b + n, h)
       IN  [mem |-> r.mem, head |-> r.head, size |-> s]
  ELSE [mem |-> m, head |-> h, size |-> s]

MutNoHeader(m, h, b, s, n) ==
  IF s - n > CellSize
  THEN LET r == insert([m EXCEPT ![b + n - 1] = s - n + 1], b + n - 1, h)
       IN  [mem |-> r.mem, head |-> r.head, size |-> n - 1]
  ELSE [mem |-> m, head |-> h, size |-> s]

\* Splitting a block b of size s for a request of n words: the leftover goes
\* on the list unless it is too small for a cell.  Yields the heap and the
\* size the block keeps.
Split(m, h, b, s, n) ==
  IF s - n > CellSize
  THEN LET r == insert([m EXCEPT ![b + n] = s - n], b + n, h)
       IN  [mem |-> r.mem, head |-> r.head, size |-> n]
  ELSE [mem |-> m, head |-> h, size |-> s]

-----------------------------------------------------------------------------
(* Reading the list back, for the properties.                              *)
RECURSIVE Cells(_, _)
Cells(m, h) == IF h = NULL THEN {} ELSE {h} \cup Cells(m, m[RestAt(h)])

Extent(a, n) == a..(a + n - 1)
=============================================================================
