-------------------------------- MODULE Nufs --------------------------------
(***************************************************************************)
(* hw10: nufs, a FUSE file system in a 256-page image (pages.c, bitmap.c,  *)
(* inode.c, directory.c, storage.c and the callbacks of nufsmount.c).      *)
(*                                                                         *)
(* FUSE calls one operation at a time.  An operation is one action, with   *)
(* the bitmap and inode updates of the whole call chain.  Paths are        *)
(* sequences of names.  The size of a file is counted in directory entries *)
(* (64 bytes in the program), of which a page holds EntriesPerPage.  File  *)
(* data is left out; directory entries and block pointers are kept.        *)
(***************************************************************************)
EXTENDS Integers, FiniteSets, Sequences, SequencesExt

CONSTANTS Path,            \* bound: the paths that are used
          PAGE_COUNT,      \* pages of the image (256)
          INODE_COUNT,     \* inodes of the image (64)
          EntriesPerPage,  \* directory entries on a page (64)
          MaxSize          \* bound: largest file, in entries

ASSUME NufsAssumption ==
  /\ PAGE_COUNT \in Nat /\ PAGE_COUNT > 1 /\ INODE_COUNT \in Nat \ {0}
  /\ EntriesPerPage \in Nat \ {0} /\ MaxSize \in Nat
  /\ \A p \in Path : p # << >> /\ (Len(p) > 1 => Front(p) \in Path)

VARIABLES pbm,      \* page bitmap: the pages marked in use
          ibm,      \* inode bitmap: the inodes marked in use
          node,     \* the inode table
          dirpage,  \* page |-> the directory entries it holds
          indpage,  \* page |-> its words, read as block pointers
          given,    \* history: the paths the last operation was given
          crashed   \* an assertion failed or a wild number was used

vars == <<pbm, ibm, node, dirpage, indpage, given, crashed>>

NUM_PTRS == 2
PageBits == 32768   \* 8 * 4096
NONE == -1          \* "no page" and "no inode" (-1), "no entry" (-ENOENT)
Page == 0..(PAGE_COUNT - 1)
Inum == 0..(INODE_COUNT - 1)
Root == 0
Name == UNION {ToSet(p) : p \in Path}
Entry == [name : Name, inum : Inum]
MaxBlocks == (MaxSize + EntriesPerPage - 1) \div EntriesPerPage

\* File data and directory entries, read as block pointers, are wild numbers.
DataWords == [k \in 0..MaxBlocks |-> PageBits]

bytes_to_pages(size) == IF size % EntriesPerPage = 0
                        THEN size \div EntriesPerPage
                        ELSE size \div EntriesPerPage + 1

TypeOK ==
  /\ pbm \subseteq Page
  /\ ibm \subseteq Inum
  /\ node \in [Inum -> [refs : Int, mode : {"none", "dir", "file"},
                        size : Nat, ptrs : [0..NUM_PTRS - 1 -> Page],
                        iptr : Page]]
  /\ dirpage \in [Page -> Seq(Entry)]
  /\ crashed \in BOOLEAN

\* storage_init on a new image: page 0 holds the bitmaps, page 1 the inodes,
\* inode 0 is the root directory.
Init ==
  /\ pbm = {0, 1}
  /\ ibm = {Root}
  /\ node = [i \in Inum |->
               [refs |-> 0, mode |-> IF i = Root THEN "dir" ELSE "none",
                size |-> 0, ptrs |-> [k \in 0..NUM_PTRS - 1 |-> 0], iptr |-> 0]]
  /\ dirpage = [p \in Page |-> << >>]
  /\ indpage = [p \in Page |-> [k \in 0..MaxBlocks |-> 0]]
  /\ given = {}
  /\ crashed = FALSE

-----------------------------------------------------------------------------
(* pages.c and bitmap.c.  A disk is the record of everything an operation  *)
(* changes; an operation computes the disk it leaves behind.               *)

Disk == [pbm |-> pbm, ibm |-> ibm, node |-> node, dirpage |-> dirpage,
         indpage |-> indpage, crashed |-> crashed]

LowestFree(bits, first, count) ==
  LET free == {k \in first..(count - 1) : k \notin bits}
  IN  IF free = {} THEN NONE ELSE Min(free)

\* Mutant: the scan runs one past the last page.
MutOnePast(d) == LowestFree(d.pbm, 1, PAGE_COUNT + 1)

alloc_page(d) == LowestFree(d.pbm, 1, PAGE_COUNT)

\* alloc_page's bitmap_put.
Marked(d) == [d EXCEPT !.pbm = @ \cup ({alloc_page(d)} \cap Page)]

\* Clearing bit n of the page bitmap.  The inode bitmap follows it in page 0,
\* whose other bits are in nobody's use; a number of PageBits or more clears a
\* bit of the inode table in page 1, or of what comes behind.
free_page(d, n) ==
  IF n < PageBits THEN [d EXCEPT !.pbm = @ \ {n}, !.ibm = @ \ {n - PAGE_COUNT}]
  ELSE [d EXCEPT !.crashed = TRUE]

\* What the first word of page 0 reads as: the low bits of the page bitmap.
Word0(d) == FoldSet(LAMBDA p, sum : sum + 2^p, 0, {p \in d.pbm : p < 32})

\* Page 0 is read as an indirect block when an inode never had one.
inode_get_pnum(d, i, fpn) ==
  IF fpn < NUM_PTRS THEN d.node[i].ptrs[fpn]
  ELSE IF d.node[i].iptr = 0 /\ fpn = NUM_PTRS THEN Word0(d)
  ELSE d.indpage[d.node[i].iptr][fpn - NUM_PTRS]

-----------------------------------------------------------------------------
(* inode.c *)

alloc_inode(d) == LowestFree(d.ibm, 0, INODE_COUNT)

free_inode(d, i) == [d EXCEPT !.ibm = @ \ {i}]

\* One turn of grow_inode's loop: block number b gets a page, and block
\* NUM_PTRS brings the indirect page with it.  alloc_page's -1 would be used
\* as an address.
GrowBlock(d, i, b) ==
  LET ready == IF b # NUM_PTRS THEN d
               ELSE [Marked(d) EXCEPT !.node[i].iptr = alloc_page(d)]
      p == alloc_page(ready)
      e == Marked(ready)
  IN  CASE d.crashed \/ p = NONE -> [d EXCEPT !.crashed = TRUE]
        [] ~d.crashed /\ p # NONE /\ b < NUM_PTRS ->
             [e EXCEPT !.node[i].ptrs[b] = p]
        [] ~d.crashed /\ p # NONE /\ b >= NUM_PTRS ->
             [e EXCEPT !.indpage[e.node[i].iptr][b - NUM_PTRS] = p]

grow_inode(d, i, size) ==
  LET have == bytes_to_pages(d.node[i].size)
      want == bytes_to_pages(size)
      grown == FoldLeft(LAMBDA e, b : GrowBlock(e, i, b), d,
                        [k \in 1..(want - have) |-> have + k - 1])
  IN  [grown EXCEPT !.node[i].size = size]

\* The loop frees inode_get_pnum(node, blocks_on_node) for the block counts
\* from `have' down to `want' + 1; the indirect page goes whenever the blocks
\* left fit the direct pointers.
shrink_inode(d, i, size) ==
  LET have == bytes_to_pages(d.node[i].size)
      want == bytes_to_pages(size)
      FreeBlock(e, b) == free_page(e, inode_get_pnum(e, i, b))
      freed == FoldLeft(FreeBlock, d, [k \in 1..(have - want) |-> have - k + 1])
      noind == IF want <= NUM_PTRS THEN free_page(freed, freed.node[i].iptr)
               ELSE freed
  IN  [noind EXCEPT !.node[i].size = size]

-----------------------------------------------------------------------------
(* directory.c *)

Entries(d, dir) == SubSeq(d.dirpage[d.node[dir].ptrs[0]], 1, d.node[dir].size)

Slots(d, dir, name) ==
  LET s == Entries(d, dir) IN {k \in DOMAIN s : s[k].name = name}

directory_lookup(d, dir, name) ==
  LET found == Slots(d, dir, name)
  IN  IF found = {} THEN NONE ELSE Entries(d, dir)[Min(found)].inum

tree_lookup(d, path) ==
  FoldLeft(LAMBDA dir, name : IF dir = NONE THEN NONE
                              ELSE directory_lookup(d, dir, name), Root, path)

\* dirname(path), looked up; basename(path) is Last(path).
tree_lookup_stop_early(d, path) == tree_lookup(d, Front(path))

directory_put(d, dir, name, i) ==
  LET g == grow_inode(d, dir, d.node[dir].size + 1)
      p == g.node[dir].ptrs[0]
  IN  IF g.crashed THEN g
      ELSE [g EXCEPT
              !.node[i].refs = @ + 1,
              !.indpage[p] = DataWords,
              !.dirpage[p] = Append(SubSeq(@, 1, d.node[dir].size),
                                    [name |-> name, inum |-> i])]

\* Mutant: the inode is freed while one reference is left.
MutDeleteEarly(d, dir, name) ==
  LET s == Entries(d, dir)
      k == Min(Slots(d, dir, name))
      i == s[k].inum
      less == [d EXCEPT !.node[i].refs = @ - 1,
                        !.dirpage[d.node[dir].ptrs[0]] =
                           SubSeq([@ EXCEPT ![k] = s[Len(s)]], 1, Len(s) - 1)]
  IN  shrink_inode(IF less.node[i].refs <= 2 THEN free_inode(less, i) ELSE less,
                   dir, Len(s) - 1)

\* Mutant: the last entry is dropped instead of moved to the freed slot.
MutDropLast(d, dir, name) ==
  LET s == Entries(d, dir)
      i == s[Min(Slots(d, dir, name))].inum
      less == [d EXCEPT !.node[i].refs = @ - 1]
  IN  shrink_inode(IF less.node[i].refs <= 0 THEN free_inode(less, i) ELSE less,
                   dir, Len(s) - 1)

\* The last entry moves to the freed slot.
directory_delete(d, dir, name) ==
  LET s == Entries(d, dir)
      k == Min(Slots(d, dir, name))
      i == s[k].inum
      less == [d EXCEPT !.node[i].refs = @ - 1,
                        !.dirpage[d.node[dir].ptrs[0]] =
                           SubSeq([@ EXCEPT ![k] = s[Len(s)]], 1, Len(s) - 1)]
  IN  shrink_inode(IF less.node[i].refs <= 0 THEN free_inode(less, i) ELSE less,
                   dir, Len(s) - 1)

-----------------------------------------------------------------------------
(* storage.c, called by the nufs_* callbacks.  The kernel resolves a path  *)
(* before it calls: the parent is a directory that exists.                 *)

\* The kernel's walk: one component at a time, through directories only.
Walk(d, path) ==
  FoldLeft(LAMBDA i, name : IF i = NONE \/ d.node[i].mode # "dir" THEN NONE
                            ELSE directory_lookup(d, i, name), Root, path)

InDir(path) == LET i == Walk(Disk, Front(path))
               IN  i # NONE /\ node[i].mode = "dir"
IsA(path, mode) == LET i == Walk(Disk, path) IN i # NONE /\ node[i].mode = mode
Parent(path) == tree_lookup_stop_early(Disk, path)
At(path) == tree_lookup(Disk, path)

Return(d, paths) ==
  /\ pbm' = d.pbm /\ ibm' = d.ibm /\ node' = d.node
  /\ dirpage' = d.dirpage /\ indpage' = d.indpage /\ crashed' = d.crashed
  /\ given' = paths

\* Bound: a directory stays on its one page.
RoomIn(dir) == node[dir].size < EntriesPerPage

\* alloc_inode's -1 is passed to get_inode, whose assertion fails.
storage_mknod(path, mode) ==
  LET dir == Parent(path)
      i == alloc_inode(Disk)
      made == [Disk EXCEPT !.ibm = @ \cup {i}, !.node[i].size = 0,
                           !.node[i].mode = mode, !.node[i].refs = 1]
  IN  /\ InDir(path) /\ RoomIn(dir)
      /\ IF directory_lookup(Disk, dir, Last(path)) > 0
         THEN Return(Disk, {path})
         ELSE IF i = NONE
         THEN Return([Disk EXCEPT !.crashed = TRUE], {path})
         ELSE Return(directory_put(made, dir, Last(path), i), {path})

\* Called for files; the kernel sends directories to rmdir.
storage_unlink(path) ==
  LET i == At(path)
  IN  /\ IsA(path, "file")
      /\ Return(directory_delete([Disk EXCEPT !.node[i].refs = @ - 1],
                                 Parent(path), Last(path)), {path})

storage_link(from, to) ==
  LET i == At(from)
      put == directory_put(Disk, Parent(to), Last(to), i)
  IN  /\ IsA(from, "file") /\ InDir(to) /\ RoomIn(Parent(to))
      /\ IF At(to) # NONE
         THEN Return(Disk, {from, to})
         ELSE Return(IF put.crashed THEN put
                     ELSE [put EXCEPT !.node[i].refs = @ + 1], {from, to})

\* A target that exists is of the same kind; a directory does not move below
\* itself.  An existing target stays where it is.
storage_rename(path, to) ==
  LET i == At(path)
      put == directory_put(Disk, Parent(to), Last(to), i)
  IN  /\ ~IsPrefix(path, to) /\ Walk(Disk, path) # NONE
      /\ InDir(to) /\ RoomIn(Parent(to))
      /\ At(to) # NONE => node[At(to)].mode = node[i].mode
      /\ Return(IF put.crashed THEN put
                ELSE directory_delete(put, Parent(path), Last(path)), {path, to})

BlockPages(d, i) ==
  {inode_get_pnum(d, i, b) : b \in 0..(bytes_to_pages(d.node[i].size) - 1)}

Resized(i, size) ==
  CASE node[i].size < size -> grow_inode(Disk, i, size)
    [] node[i].size > size -> shrink_inode(Disk, i, size)
    [] OTHER -> Disk

\* storage_write resizes the file to the end of the write and then copies into
\* its pages; a wild number of a page is used as an address.
storage_write(path, write_size) ==
  LET i == At(path)
      sized == Resized(i, write_size)
      data == BlockPages(sized, i)
  IN  /\ IsA(path, "file")
      /\ Return([sized EXCEPT
                   !.crashed = @ \/ ~(data \subseteq Page),
                   !.indpage = [p \in Page |-> IF p \in data THEN DataWords
                                              ELSE @[p]]], {path})

storage_truncate(path, size) ==
  /\ IsA(path, "file")
  /\ Return(Resized(At(path), size), {path})

\* nufs_rmdir computes -ENOTEMPTY but returns 0, and removes nothing.
nufs_rmdir(path) ==
  /\ IsA(path, "dir")
  /\ Return(Disk, {path})

\* Unmounting and storage_init on the image: pages_init sets bit 0 again.
storage_init ==
  Return([Disk EXCEPT !.pbm = @ \cup {0}], {})

Next ==
  /\ ~crashed
  /\ \/ \E p \in Path, mode \in {"dir", "file"} : storage_mknod(p, mode)
     \/ \E p \in Path : storage_unlink(p)
     \/ \E p, q \in Path : storage_link(p, q)
     \/ \E p, q \in Path : storage_rename(p, q)
     \/ \E p \in Path, size \in 1..MaxSize : storage_write(p, size)
     \/ \E p \in Path, size \in 0..MaxSize : storage_truncate(p, size)
     \/ \E p \in Path : nufs_rmdir(p)
     \/ storage_init

Spec == Init /\ [][Next]_vars

-----------------------------------------------------------------------------
(* Properties *)

Links(i) == {<<d, k>> \in ibm \X (1..EntriesPerPage) :
               /\ node[d].mode = "dir"
               /\ k <= node[d].size
               /\ Entries(Disk, d)[k].inum = i}

\* An inode is in use exactly as long as a directory entry names it: however
\* mknod, link, rename and unlink move refs, the last unlink of a file frees its
\* inode and no earlier one does, and no name is left without an inode.
\* (directory_put, directory_delete, storage_link, storage_unlink.)
FreedWithLastName ==
  ~crashed => \A i \in Inum \ {Root} : i \in ibm <=> Links(i) # {}

Uses(i) == BlockPages(Disk, i)
             \cup IF bytes_to_pages(node[i].size) > NUM_PTRS THEN {node[i].iptr}
                  ELSE {}

\* A page that holds a block of a file or directory in use is marked in the
\* page bitmap and belongs to nobody else, so the next alloc_page cannot hand
\* it out again.  (alloc_page, free_page, grow_inode, shrink_inode.)
PagesOwned ==
  ~crashed => \A i \in ibm : /\ Uses(i) \subseteq pbm \ {0, 1}
                             /\ \A j \in ibm \ {i} : Uses(i) \cap Uses(j) = {}

\* No directory holds a name twice (a rename onto a name that exists breaks
\* this, see storage_rename).
UniqueNames == \A d \in ibm : node[d].mode = "dir" =>
                 \A name \in Name : Cardinality(Slots(Disk, d, name)) <= 1

\* While names are unique, an operation changes only what the paths it was
\* given name, and what lies below them: deleting an entry, which moves the
\* last one to its slot, loses or redirects no other name.
OthersUntouched ==
  [][UniqueNames /\ ~crashed' => \A p \in Path :
       (\A a \in given' : ~IsPrefix(a, p)) => Walk(Disk, p) = Walk(Disk', p)]_vars

=============================================================================
