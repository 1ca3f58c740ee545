# A TLA+ verification of the computer-systems course code

TLA+ models of the programs in this repository, TLC configurations that check
them on small instances, and TLAPS proofs of the most important properties for
every instance. Paths below are relative to the repository root; `xv6/` stands
for `hw09/unnas-hw09/xv6/`.

## 1. The system

The repository is a semester of systems programs. They share no code at run
time, except that an idea (the barrier, the free list, the token vector) comes
back in several of them.

| part | sources | state | operations | what is hard |
|---|---|---|---|---|
| xv6 processes | `xv6/proc.c`, `trap.c`, `spinlock.c` | the process table and its lock | fork, exit, wait, kill, sleep, wakeup, scheduler | lost wakeups, orphans and zombies, kill racing sleep |
| xv6 pipes | `xv6/pipe.c`, `file.c` | a ring with two wrapping counters, two open flags, reference counts | read, write, close | several readers and writers on two channels, who frees the pipe |
| xv6 log | `xv6/log.c`, `bio.c` | on-disk log and header, in-memory header, cache | begin_op, log_write, end_op, commit, recovery | a crash between any two disk writes, group commit, full log |
| xv6 files | `xv6/fs.c`, `file.c`, `sysfile.c` | inodes, directories, open files, byte statistics | open, link, unlink, create, exec, getiostats | reference and link counts across unlocked stretches |
| xv6 devices | `xv6/ide.c`, `console.c`, `kbd.c`, `uart.c` | request queue, input ring | interrupts against sleeping processes | a request or a line nobody is woken for |
| xv6 memory | `xv6/kalloc.c`, `vm.c`, `exec.c` | free pages, page tables | kalloc, copyuvm, exec | failure half way |
| sample sort with threads | `hw07/unnas-hw07` | `sizes`, `output`, the output file, the barrier | the partition workers, `barrier_wait` | what is final after the barrier; one file opened by all |
| sample sort with processes | `hw06/hw06-starter` | two semaphores in shared memory | `barrier_wait` | who posts, how often |
| husky malloc | `hw08/unnas-hw08` | a free list threaded through mapped pages | `xmalloc`, `xfree` | splitting, coalescing over page borders, header sizes |
| threaded allocators | `ch02/challenge02` | the same list, locked or per thread | `xmalloc`, `xfree`, `xrealloc` | realloc, blocks that change threads |
| nufs | `hw10/unnas-fshw` | a 256-page image: bitmaps, inodes, directories | the FUSE callbacks | link counts, page ownership, names that replace each other |
| nush | `ch01/challenge01` | the tree of processes, descriptors | pipelines, redirection, `&&`, `\|\|`, `&` | who forks, who waits, who returns to the command loop |
| small programs | `hw03`, `hw04`, `hw05`, `notes` | arrays, token vectors | sorting, tokenizing | boundaries |

`PROJECT.json` lists every part with its sources and whether it is modelled.

## 2. Modules

| module | stands for | shown to implement |
|---|---|---|
| `AbstractBarrier` | what a barrier promises: nobody leaves round n before everybody has arrived at it | |
| `CondBarrier` | `hw07/unnas-hw07/barrier.c` (mutex and condition variable) | `AbstractBarrier` |
| `SemBarrier` | `hw06/hw06-starter/barrier.c` (two semaphores) | `AbstractBarrier` |
| `SampleSort` | `hw07/unnas-hw07/ssort.c` composed with `CondBarrier` | |
| `BlockHeap`, `HMalloc` | the free list and `xmalloc`/`xfree` of `hw08/unnas-hw08` | |
| `Nufs` | `hw10/unnas-fshw`: storage, inodes, directories, pages | |
| `XvProc` | `xv6/proc.c` with the kill tests of `trap.c` | |
| `AbstractPipe` | a bounded first-in first-out channel | |
| `XvPipe` | `xv6/pipe.c` composed with `XvProc` and the reference counts of `file.c` | `AbstractPipe` |
| `AtomicDisk` | a disk on which groups of operations happen whole or not at all | |
| `XvLog` | `xv6/log.c` over the cache of `bio.c` and a disk that can stop | `AtomicDisk` |
| `XvLogRoom` | `XvLog` for operations that fit: what `begin_op` has promised and what the log holds | |

`MCSampleSort`, `MCNufs` and `MCXvPipe` only give constants their values.
`MCBarriers` runs either barrier, `MCXvLog` bounds the operations of `XvLogRoom`.
`CondBarrierProofs`, `SemBarrierProofs`, `XvProcProofs`, `XvPipeTransfer`,
`XvPipeProofs`, `XvLogOps`, `XvLogCommit` and `XvLogProofs` hold proofs.
Operators named `Mut...` are deliberately wrong versions of a definition, each
the smallest plausible bug; every checked property is known to fail for one of
them.

### How the models follow the code

**CondBarrier.** `barrier_wait` is cut at the places where another thread can
run: taking the mutex, the counted arrival that ends in `pthread_cond_wait`
(which releases the mutex in the same step), the last arrival that resets the
count and broadcasts, taking the mutex back, unlocking and returning.
`SpuriousWakeup` is what POSIX allows; it is part of a specification of its own,
because the code does not test again after waking.

**SemBarrier.** One action per semaphore operation, and one each for the
increment and the unlocked test of `seen`. The fields of the structure keep
their prefix (`bb_seen`, `bb_count`), so that `MCBarriers` can extend both
barriers.

**SampleSort.** `main` creates and joins; a worker scans its partition, waits
at the barrier (the actions of `CondBarrier`), adds up the sizes of the
partitions before its own, opens the output file, which truncates it, writes
word by word at its offset, and ends. The 3(P-1) sample candidates are the
first elements of the array in random order; the sort that follows removes the
randomness, so the samples are a function of the input.

**HMalloc.** Memory is a function from word addresses to words, and the list is
threaded through that memory, so a store past a small block lands where the
program's would. First fit, the split and `cell_insert_block` are translated
over these words. `mmap` returns any free range of pages, or fails: the code
then compares with 0 instead of `MAP_FAILED` and faults (`xmalloc_fails`).
`munmap` needs a page address and rounds up. `fate` says whether an assertion or
a fault has ended the program. `spoiled` is a history variable: a call of
`xfree` has damaged a neighbour, by making a cell of a block too small for one
or by unmapping a block that is not whole pages; what the program does after
that is not followed.

**Nufs.** FUSE (run with `-s`, `hw10/unnas-fshw/Makefile`) calls one operation
at a time, so a callback is one action, with the bitmap, inode and directory
updates of its whole call chain computed on a record of the disk. Sizes are in
directory entries. Failed assertions and wild numbers set `crashed`: `-1` used as
a page or an inode, a word of file data or of a directory entry read as a page
number through an indirect page that was given away, and a page number of 32768
or more, whose bit `free_page` would clear in the inode table or behind it.
The kernel walks the path before it calls FUSE; that is the one external
assumption. Mounting again is an action.

**XvProc.** A process is its slot. `ptable.lock` is a variable, since `sleep`
takes it before it drops the caller's lock; a section that takes and releases
it in one stretch is one step that needs the lock free. `pc` says where in the
kernel a process is. The scheduler picks any RUNNABLE process. `kill` compares
the pid of every slot, free ones too, as the code does.

**XvPipe.** `piperead`, `pipewrite` and `pipeclose` are cut at every byte and
at the three steps of `sleep` (take `ptable.lock`, drop the pipe's lock, block).
The counters are kept modulo `Wrap`. Bytes are numbered, so one out of place
shows. `deserted` is a history variable: a killed writer has returned without
waking the readers (`pipe.c:86-89`).

**XvLog.** A process opens an operation, writes blocks through the cache and
ends it; the last one out commits: it copies the blocks to the log one at a
time, writes the header, installs, erases the header and wakes the sleepers.
`log_write` is two steps, because its tests come before `acquire(&log.lock)`:
`log_write` reads the block and tests, `log_append` changes it and the header;
between the two the process holds the buffer (`held`), and other processes may
append. A header longer than the log makes `write_log` and `install_trans` use
the block behind the log, `inodestart`, as the code does. `log_panic` is the
panics of `log_write` and `end_op`. `crash` forgets memory and leaves the disk,
at any step, also of recovery. A block write is atomic (a sector is). The cache
may drop any clean buffer that nobody holds at any `bread`. `FullOps` names the
processes whose operations write all of `MAXOPBLOCKS`; `XvLogRoom` assumes at
most one, which is more than the code does (`file.c:168-175`).

## 3. What TLC checks

Times are for two workers.

| run | instance | properties |
|---|---|---|
| `barriers` | 3 threads in 3 rounds, or 4 processes | `TypeOK`, `GenerationInv`, `ImplementsBarrier` (refinement) of `CondBarrier`; `SemTypeOK`, `CountingInv`, `PostsUsedUp`, `SemImplementsBarrier` of `SemBarrier`; `BarriersOpen` (liveness) of both |
| `sample_sort_three` | 3 workers, 6 or 7 elements with ties and negatives | `SortTypeOK`, `SizesFinalAfterBarrier`, `OutputSorted`, `SortTerminates` |
| `hmalloc_reuse` | 2 pages of 12 words, 3 live blocks, requests of 1, 4, 7, 10 and 13 words | `TypeOK`, `BlocksTile`, `Coalesced`, `HeaderCoversRequest` |
| `nufs_names` | 4 paths, 3 inodes, 5 pages | `TypeOK`, `FreedWithLastName`, `OthersUntouched` |
| `xv_proc_table` | 3 slots, 1 CPU, 3 forks | `ProcTypeOK`, `ZombieNoticed`, `ParentsLive`, `WaiterNotKilled`, `PidsDistinct`, `ReapedByParent`, `WaitReturns` |
| `xv_pipe_share` | 3 processes, 2 bytes, counters modulo 4 | `PipeTypeOK`, `NoMissedWakeup`, `PipeOutlivesUsers`, `ImplementsFifo` |
| `xv_log_crash` | 2 processes, 4 blocks, 3 log slots | `LogTypeOK`, `CommitsAlone`, `LogReserved`, `QuietDurable`, `SleeperHasWaker`, `OpsAtomic`, `SleepersWake` |

`nufs_names` (200 000 states) and `xv_log_crash` (255 000) are the longest, under
two minutes each; `hmalloc_reuse` has the most states, 1.5 million.

`OutputSorted` compares the values that are not negative, in order and in
number, with the sorted input: the input generator makes no others
(`tools/gen-input.c:44-45`), and a negative value is in no worker's range
(section 6). `BlocksTile`, `Coalesced` and `HeaderCoversRequest` hold until a
call has set `spoiled`. `FreedWithLastName` says when an inode is freed and
nothing of the value of `refs`, which is twice the number of links.

Five runs end in a counterexample; each shows a disagreement between the code
and what a comment or an assertion of the repository says of it.

| run | property | what happens |
|---|---|---|
| `sample_sort_spurious` | `SizesFinalAfterBarrier` | `pthread_cond_wait` is called once, without testing again (`hw07/unnas-hw07/barrier.c:51`): a spurious wakeup passes the barrier while `sizes` are still zero. `ssort.c:110`: "Wait for everyone to make their local arrays". |
| `sample_sort_file` | `FileSorted` | every worker opens the output with `O_TRUNC` (`ssort.c:120`) and erases the header and what others wrote. `ssort.c:113`: "Write the data out to the file." |
| `hmalloc_assert` | `UnmapSucceeds` | blocks of adjacent pages are joined, and a block whose leftover is too small for a cell is handed out whole; it can be a page long and start inside a page, so the `munmap` of `xfree` fails its assertion (`hmalloc.c:188-189`). |
| `nufs_share` | `PagesOwned` | `shrink_inode` frees through pointers it leaves in the inode (`inode.c:144`); a second shrink frees a page that by then belongs to another file. |
| `xv_log_overrun` | `OpsAtomic` | `param.h:10-11` calls `MAXOPBLOCKS` the "max # of blocks any FS op writes" and `LOGSIZE` the "max data blocks in on-disk log", but the log has its header among the `LOGSIZE` blocks (`mkfs.c:25`) and `log_write` tests for room before it has the lock (`log.c:218`): two operations of `MAXOPBLOCKS` blocks make a header longer than the log, and `write_log` writes the first inode block before the commit. xv6's own operations write fewer blocks. |

### Bounds

- Three threads or processes are the least for which "one is late while two
  are fast" happens at a barrier; two rounds are needed for reuse, and a third for
  a thread that is a round behind.
- Six or seven elements and three workers give two samples, an empty partition,
  ties on a sample and negative values (below the first sample, which is 0). Inputs
  shorter than 3(P-1) are excluded: `copy_rand_values` would read past them.
- Two pages of twelve words let blocks coalesce over a page border. The requests
  of `hmalloc_reuse` give blocks smaller than a cell, splits with and without a
  leftover cell, and a block of two pages; requests just below a page are
  `hmalloc_assert`.
- In `nufs_names` files have at most one page, so that the flaw of `nufs_share`
  does not stop the other questions; three inodes and five pages still let the
  image run full. Three names in the root let a rename there, which deletes the
  old entry by moving the last one, disturb a neighbour; the name in a
  subdirectory gives renames into and out of a directory.
- Three slots are a parent, a child and init; with `NPROC` 4 and `MaxPid` 5 the
  invariants of `XvProc` were checked as well, without the liveness property.
  Nobody kills init, whose exit panics by design.
- A pipe of two bytes with counters modulo 4 fills, empties and wraps within
  two writes of three bytes. Every process starts with one end. A third process
  shares either end.
- In `xv_log_crash` the operations of one process write up to two of four blocks
  and those of the other one, and the log holds three, so the log fills, an
  operation has to wait, and blocks are absorbed. Two operations (after a crash
  too) write either of two values; runs with four operations write one value,
  which is enough for admission. `xv_log_overrun` is unbounded, with
  `MAXOPBLOCKS` 1 and `LOGSIZE` 2.

### Fairness

- Barriers and sample sort: weak fairness of every thread. A thread that can
  run is scheduled by the operating system, and a mutex in these programs is
  always released.
- `XvProc`: strong fairness of `scheduler`, `yield` and a kernel step, per
  process. The scheduler scans the whole table round and round, so a process
  that is RUNNABLE again and again is run; a running process gets a kernel step
  done between two ticks again and again, though `ptable.lock` and the tick
  keep disabling it.
- `XvLog`: weak fairness of recovery, of the steps of a commit and of
  `log_append`, and strong fairness of `end_op`: an operation is straight-line
  code, which writes a finite number of times and reaches its `end_op`, though
  `end_op` is disabled between the two halves of each `log_write`. Nothing is
  assumed of `begin_op`, so `SleepersWake` says that a sleeper is woken, not that
  it is admitted: the code keeps no order among those it wakes.
- `XvPipe` and `HMalloc`, `Nufs` are checked for safety only and may stop.

## 4. What is proved

All theorems hold for every value of the constants that satisfies the `ASSUME`
of the module: any number of threads, processes, blocks, log slots, any buffer
size.

| theorem | says |
|---|---|
| `CondBarrierProofs!TypeCorrect`, `Generations` | types; the inductive invariant below |
| `CondBarrierProofs!Refinement` | `CondBarrier` without spurious wakeups implements `AbstractBarrier` |
| `SemBarrierProofs!Counting`, `Refinement` | the counting invariant; `SemBarrier` implements `AbstractBarrier` |
| `XvProcProofs!NoLostOrphans`, `NoUnseenZombie`, `KillEndsWait`, `UniquePids`, `TypesKept` | the invariants of the process table |
| `XvPipeProofs!WakeupsReachSleepers`, `FreedAfterUse`, `PipeTypes` | no missed wakeup; the pipe outlives its users; types |
| `XvLogProofs!LogImplementsAtomicDisk` | the log implements the atomic disk through crashes in commits and in recovery |
| `XvLogProofs!AdmittedFits` | what `begin_op` has admitted fits in the log (`LogReserved`) |
| `XvLogProofs!QuietLogDurable`, `CommitAlone`, `NoForgottenSleeper`, `LogTypesKept` | the invariants of the log |

**Barriers.** `GenerationInv` says that `count` is the number of threads asleep
and that each thread has arrived once per broadcast, and once more if it is
asleep. The last arrival finds everybody else asleep because the count can only
reach `seen` when the sleepers are all the other threads (`LastArrival`,
from the cardinality of a subset). For the semaphores, `CountingInv` says that
the mutex guards the increment, that `seen` is the number of processes past it,
and that the second semaphore rises only when all are counted.

**Process table.** `TableInv` adds to the properties: init lives, has no parent
and is not killed; the slot a fork is filling is an EMBRYO that no other fork
fills; every sleeper sleeps in `wait`, on its own address, and is not killed;
pids are below `nextpid`. Without the embryos, `exit` could hand a half-made
child to init; without "sleepers are not killed", a kill before the sleep would
break `WaiterNotKilled`.

**Pipe.** `PipeInv` adds: who holds which lock follows from where it is
(`LocksHeld`); what a process is doing (`Activity`); an end is open while held,
and only the process that gave up the last reference shuts it (`EndsInv`); and
a process that has decided to sleep still holds a lock under which it found the
pipe empty or full (`Committed`). `Committed` is the heart: between the test and the sleep no
other process can have changed the pipe. `XvPipeTransfer` proves that the steps
of reading, writing and sleeping keep the invariant, `XvPipeProofs` does the
same for closing, exit and kill and states the theorems.

**Log.** `LogInv` says: a clean buffer agrees with the disk (`Buffers`); the
headers name a block once; `outstanding` counts the open operations; a buffer
that a process holds is cached and held by nobody else; a committer is alone; and for each stage of a commit and of recovery which blocks
are already in the log, and which are home (`Stages`, `Recovery`). The
refinement maps the stable disk to what recovery would make of the disk now,
the current disk to what a read returns, and the active set to the open
operations. Then the header write is the commit step of the atomic disk and
every other disk write is invisible: `write_log` because the header does not
name the slots yet, `install_trans` and recovery because a block of the header
is read from the log, erasing the header because all blocks are home.
All of this needs a header that fits in the log, and since `log_write` tests its
length without the lock, the fit must come from `begin_op`. `ReserveInv` says
that the header, together with what the open operations may still write
(`Reserved`) has at most `LOGSIZE - 1` blocks, that what an operation has
written is in the header, and that the block a process has tested and holds is
one it may still write. `begin_op` checks for
`MAXOPBLOCKS` per operation out of `LOGSIZE`. By `RoomAssumption` at most one
process has operations as large as that, so of two or more open operations one
reserves less than it is counted for, which makes up for the header's block; an
operation that begins alone finds the log empty, and `LOGSIZE > MAXOPBLOCKS`
(`BeginReserve`). An append uses a
block of the reserve or absorbs (`AppendReserve`).
`XvLogOps` treats the operations, `XvLogCommit` the commit, `XvLogProofs` the
crash, the recovery and the theorems.

**Only model-checked.** Liveness (`BarriersOpen`, `SortTerminates`,
`WaitReturns`, `SleepersWake`) is out of the prover's reach. `ImplementsFifo`
needs induction over the queue. `ReapedByParent`, `PostsUsedUp` and everything
about sample sort, husky malloc and nufs, whose operators are recursive or fold
over sequences, stay with TLC.

## 5. Hazards

`PROJECT.json` lists the hazards that later work starts from, at the line
where each bites, with the properties that would catch it. Smaller ones met in
the survey:

- `hw07/unnas-hw07/utils.c:67` reads 3(P-1) candidates whatever the size of the input.
- `hw06/hw06-starter/ssort.c:99,107`: `fork` failing is taken for the parent's
  branch, and the child does not leave the loop; the program is an unfinished stub.
- `hw10/unnas-fshw/storage.c:224`, `inode.c:111`: running out of inodes or pages
  gives -1, which is used as an index (`crashed` in the model);
  `directory.c:84`: a 65th entry, reachable with hard links only; the image is a shared mapping
  with no protection against a crash between two stores.
- `xv6/proc.c:90`: `nextpid` is never reused and overflows after 2^31 forks;
  `proc.c:95,194`: fork failing half way; `pipe.c:87`: a reader that holds the write end too.
- `xv6/log.c:133`: a woken `begin_op` can find the log full for ever.
- `xv6/fs.c:707`, `sysfile.c:181,250`, `file.c:51,146`, `sysfile.c:445`,
  `console.c:221`: planned with the modules of section 7.
- `ch02/challenge02/hwx_malloc.c:91,267`, `ch01/challenge01/execute_tokens.c:146`: likewise.

## 6. Observations

Things the models or the reading showed that are not runs:

- hw07: the samples start at 0 and a worker takes the values between two of them
  (`ssort.c:69,97`), so negative values are dropped and the rest of the output
  array keeps what it held.
- hw08: a request of one word gives a block smaller than a list cell; freeing
  it overwrites the neighbour's header (`hmalloc.h:89`). A failed `mmap` passes
  `assert(new_bstart != 0)` (`hmalloc.c:106,127`).
- nufs: directories keep the pages they no longer need (`inode.c:144`),
  `st_nlink` is twice the number of links (`inode.c:179`), renaming onto an
  existing name leaves two entries (`storage.c:364`), `rmdir` returns 0
  without removing anything, also for a directory that is not empty (`nufsmount.c:168`).
- xv6: `kill` also marks free slots whose old pid matches, and `allocproc` does
  not clear the mark (`proc.c:486`). A process killed between the test of
  `killed` and the sleep in `piperead` stays asleep until the next write or
  close. A killed writer wakes nobody (`pipe.c:86-89`).
- xv6: `iostats_alloc` computes its address with pointer arithmetic on the file
  (`fs.c:457`); `dup` and `close` clear statistics that are shared
  (`sysfile.c:51,108`); a failed read adds -1 (`file.c:146`); `sys_exec` clears
  all statistics before it knows that `exec` succeeds (`sysfile.c:444-447`).

## 7. Not modelled, and the plan

Out of scope: boot code, assembly and device registers, page table bits, `mkfs`,
user and test programs, formatting and printing, the lecture notes. `hw04/unnas-hw04/hashmap.c` is
unfinished. In the modelled parts: file data and time stamps in nufs, floats
(integers stand for them), the addresses and registers of processes, reference
counts and waiting in the buffer cache.

Next, in this order:

1. **XvBuf**: `bget`, `bread`, `bwrite`, `brelse` with reference counts and sleep locks,
   `iderw` and `ideintr` with their queue, over `XvProc`'s sleep and wakeup.
   Properties: a buffer in use is not recycled, one buffer per block, every
   request is answered. Proof: the first two.
2. **XvFs**: inodes and directories (`iget`, `ilock`, `iput`, `dirlink`,
   `namex`, link, unlink, create) over `AtomicDisk`. Properties: link counts
   follow the entries whenever no operation is open, a crash leaves a consistent tree,
   nobody waits for itself.
3. **XvFile**: the file table, descriptors and the statistics hw09 adds, with
   what `test1.c` to `test3.c` expect; `sys_exec`'s clearing as a finding.
4. **HwxMalloc, OptMalloc**: ch02's allocators over `BlockHeap`, with threads
   and `xrealloc`; **KrMalloc** for `xv6_malloc.c` and `umalloc.c`; the `dibs`
   protocol of `ivec_main.c`.
5. **Nush**: the process tree of each operator and the shells that return to
   the command loop.
6. **Algorithms**: `quicksort`, the tokenizers and `svec`, each against a
   reference definition over bounded inputs, in one run.
7. **XvConsole** and **XvVm**: the input ring; page accounting of fork and exec.
