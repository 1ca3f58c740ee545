------------------------------- MODULE HMalloc -------------------------------
(***************************************************************************)
(* hw08: the single-threaded "husky malloc" (hmalloc.c, hmalloc.h).  A     *)
(* program calls xmalloc and xfree in any order; sizes are in words.       *)
(***************************************************************************)
EXTENDS BlockHeap, TLC

CONSTANTS Requests,  \* the sizes, in words, the program asks for
          MaxLive    \* bound: blocks the program holds at a time

ASSUME RequestAssumption == Requests \subseteq Nat \ {0} /\ MaxLive \in Nat

VARIABLES mem,       \* the words of the address space
          head,      \* free_list_head
          mapped,    \* pages currently mapped
          live,      \* blocks the program holds: start |-> words it asked for
          stats,     \* pages_mapped - pages_unmapped
          fate,      \* "running", or how the program ended: "assert", "fault"
          spoiled    \* history: a call of xfree has damaged a neighbour

vars == <<mem, head, mapped, live, stats, fate, spoiled>>

Free == Cells(mem, head)

TypeOK == /\ mem \in [Address -> Nat]
          /\ head \in Address
          /\ mapped \subseteq Page
          /\ DOMAIN live \subseteq Address
          /\ stats \in Int
          /\ fate \in {"running", "assert", "fault"}
          /\ spoiled \in BOOLEAN

Init == /\ mem = [a \in Address |-> 0]
        /\ head = NULL
        /\ mapped = {}
        /\ live = << >>
        /\ stats = 0
        /\ fate = "running"
        /\ spoiled = FALSE

Hold(b, n) == live' = live @@ (b :> n)

\* The end of xmalloc: the size goes in the first word of the block; the
\* n words behind it are the program's, which this program keeps at 0.
Finish(m, b, size, n) ==
  /\ mem' = [a \in Address |-> CASE a = b -> size
                                 [] a \in Extent(b + 1, n) -> 0
                                 [] OTHER -> m[a]]
  /\ Hold(b, n)

\* A request below a page that the free list can serve.
xmalloc_reuse(n) ==
  LET r == get_free_block(mem, head, n + 1)
      s == Split(r.mem, r.head, r.block, r.mem[r.block], n + 1)
  IN  /\ n + 1 < PageSize
      /\ r.block # NULL
      /\ head' = s.head
      /\ Finish(s.mem, r.block, s.size, n)
      /\ UNCHANGED <<mapped, stats, fate, spoiled>>

\* A request below a page that needs a new page.
xmalloc_page(n) ==
  /\ n + 1 < PageSize
  /\ get_free_block(mem, head, n + 1).block = NULL
  /\ \E p \in Mappable(mapped, 1) :
       LET s == Split(Zeroed(mem, p, 1), head, Base(p), PageSize, n + 1)
       IN  /\ head' = s.head
           /\ Finish(s.mem, Base(p), s.size, n)
           /\ mapped' = mapped \cup {p}
  /\ stats' = stats + 1
  /\ UNCHANGED <<fate, spoiled>>

\* A request of a page or more: whole pages of its own.
xmalloc_large(n) ==
  LET pages == div_up(n + 1, PageSize)
  IN  /\ n + 1 >= PageSize
      /\ \E p \in Mappable(mapped, pages) :
           /\ Finish(Zeroed(mem, p, pages), Base(p), PageSize * pages, n)
           /\ mapped' = mapped \cup p..(p + pages - 1)
      /\ stats' = stats + pages
      /\ UNCHANGED <<head, fate, spoiled>>

\* mmap fails: MAP_FAILED is not 0, so it passes the assert, and the stores
\* through it (the leftover's size, or the block's own) fault.
xmalloc_fails(n) ==
  /\ n + 1 < PageSize => get_free_block(mem, head, n + 1).block = NULL
  /\ fate' = "fault"
  /\ UNCHANGED <<mem, head, mapped, live, stats, spoiled>>

Forget(b) == live' = [a \in DOMAIN live \ {b} |-> live[a]]

\* xfree of a block below a page: back on the list, joined with neighbours.
\* One smaller than a cell that finds no neighbour on the list has its rest
\* stored over the first word of the block behind it.
xfree_list(b) ==
  LET r == insert(mem, b, head)
  IN  /\ mem[b] < PageSize
      /\ mem' = r.mem
      /\ head' = r.head
      /\ spoiled' = (r.mem[b] < CellSize /\ b \in Cells(r.mem, r.head))
      /\ Forget(b)
      /\ UNCHANGED <<mapped, stats, fate>>

\* xfree of a block of a page or more: munmap, which needs a page address and
\* rounds the length up to whole pages; assert(rv == 0) stops the program.
xfree_unmap(b) ==
  /\ mem[b] >= PageSize
  /\ IF b % PageSize = 0
     THEN LET first == b \div PageSize
          IN  /\ mapped' = mapped \ first..(first + div_up(mem[b], PageSize) - 1)
              /\ stats' = stats - mem[b] \div PageSize
              /\ Forget(b)
              /\ UNCHANGED fate
     ELSE fate' = "assert" /\ UNCHANGED <<mapped, stats, live>>
  /\ spoiled' = (mem[b] % PageSize # 0)
  /\ UNCHANGED <<mem, head>>

xmalloc == /\ Cardinality(DOMAIN live) < MaxLive
           /\ \E n \in Requests :
                \/ xmalloc_reuse(n) \/ xmalloc_page(n) \/ xmalloc_large(n)
                \/ xmalloc_fails(n)

xfree == \E b \in DOMAIN live : xfree_list(b) \/ xfree_unmap(b)

\* What a program does with a heap that is damaged is not followed.
Next == fate = "running" /\ ~spoiled /\ (xmalloc \/ xfree)

Spec == Init /\ [][Next]_vars

-----------------------------------------------------------------------------
(* xfree damages a neighbour in two ways, both marked by spoiled: it puts a  *)
(* block on the list that is smaller than a cell (hmalloc.h:89,106), and it  *)
(* unmaps a block that is larger than a page but not whole pages             *)
(* (hmalloc.c:188).  The properties hold up to that call.                    *)

\* Until a call of xfree damages a neighbour, the blocks the program holds and
\* the cells of the free list, each taken with the size in its first word, tile
\* the mapped pages: no two overlap, no mapped word is lost, and nothing outside
\* a mapping is handed out; and the statistics count these pages, pages_mapped -
\* pages_unmapped.  (xmalloc's split, xfree, cell_insert_block.)
BlocksTile ==
  LET starts == DOMAIN live \cup Free
      mine(w) == {b \in starts : w \in Extent(b, mem[b])}
  IN  ~spoiled =>
        /\ DOMAIN live \cap Free = {}
        /\ \A p \in mapped : \A w \in PageWords(p) : Cardinality(mine(w)) = 1
        /\ \A b \in starts :
             \A w \in Extent(b, mem[b]) : w \div PageSize \in mapped
        /\ stats = Cardinality(mapped)

\* The free list is in address order and no two of its cells touch: "Any two
\* adjacent blocks on the free list get coalesced" (hmalloc.h:96).
Coalesced ==
  ~spoiled =>
    \A c \in Free : mem[RestAt(c)] = NULL \/ c + mem[c] < mem[RestAt(c)]

\* The size in the first word of a block the program holds covers the request
\* and that word: "Use the start of the block to store its size"
\* (hmalloc.c:84), until the block is freed or a smaller one before it is.
HeaderCoversRequest ==
  ~spoiled => \A b \in DOMAIN live : mem[b] >= live[b] + 1

\* assert(rv == 0) after munmap (hmalloc.c:189) never fails.
UnmapSucceeds == fate # "assert"
=============================================================================
