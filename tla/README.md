# A TLA+ verification of the Xv6 kernel in this repository

The subject is `src/Xv6/kernel`: a small multiprocessor Unix kernel in C, with a
crash-safe file system. (`sys_cow`, the one system call this tree adds, has no state.)
The modules model the parts of the kernel that are hard to test: the write-ahead log,
the buffer cache, the disk driver with its device, the process table with its scheduler,
traps with spin locks and context switches, memory with page tables and `exec`, pipes with
the open files that refer to them, inodes with the system calls that make and remove
names, the contents of files from the image that `mkfs` makes, and the console with its UART. `PROJECT.json` lists the components, the runs, the source lines of
every definition, the hazards and the theorems.

## The system

From the bottom up, with the state each part keeps and how the parts interact:

| Part | Source | State | Used by |
|---|---|---|---|
| disk driver | `virtio_disk.c` | descriptors, avail and used ring, `b->disk` | buffer cache; woken by the interrupt handler |
| buffer cache, sleep-locks | `bio.c`, `sleeplock.c` | LRU list, `refcnt`, `valid`, lock of each buffer | log, inodes |
| log | `log.c` | `lh`, `outstanding`, `committing`; header and log blocks on disk | every file-system call |
| inodes, directories, paths | `fs.c` | `itable`, inodes and entries on disk | `sysfile.c`, `exec.c` |
| open files, pipes | `file.c`, `pipe.c` | `ftable`, the ring of bytes, open ends | `sysfile.c`, `fork`, `exit` |
| processes, scheduler | `proc.c`, `swtch.S` | `proc[]`, `wait_lock` | everything that sleeps |
| traps, spin locks | `trap.c`, `trampoline.S`, `kernelvec.S`, `spinlock.c` | control registers, `cpus[]` with `noff` and `intena`, `ticks` | everything |
| memory | `kalloc.c`, `vm.c`, `exec.c` | free list, page tables | `fork`, `exec`, user copies |
| console, uart, printing | `console.c`, `uart.c`, `plic.c`, `printf.c` | input line, output ring, `panicked` | device files, `panic` |
| file-system builder | `mkfs/mkfs.c` | the image | the first state of the disk |

What makes it hard: processes interleave wherever a lock is released; `kill()` takes none
of the locks of the code it interrupts; `swtch()` hands a lock from one context to
another; the device runs on while its interrupt is handled; the machine may stop at any
disk write, also during recovery; and counts (references, links, pins, reservations) are
kept in several places that have to agree.

## Modules

| Module | Models | Atomic step |
|---|---|---|
| `AtomicDisk` | what the log promises: operations that are atomic across crashes | |
| `Log` | `log.c` over the cache and the disk, with crashes and recovery | a hold of `log.lock`; half a disk write |
| `LogInvariant`, `LogPhases`, `LogProofs` | the proofs about `Log` | |
| `Blocks` | what the buffer cache promises: one lockable copy of each block | |
| `Bcache` | `bio.c`, `sleeplock.c` | a hold of `bcache.lock` or of a sleep-lock's spinlock |
| `BcacheProofs` | the proofs about `Bcache` | |
| `BlockDevice` | what `virtio_disk_rw()` promises: one transfer per call | |
| `VirtioDisk` | `virtio_disk.c` and the device | a hold of `vdisk_lock`; one turn of the handler's loop |
| `VirtioDiskProofs` | the proofs about `VirtioDisk` | |
| `Proc` | `proc.c`: scheduler, `fork`, `exit`, `wait`, `kill`, `sleep`, `wakeup` | a hold of `p->lock`; from one acquire to the next |
| `ProcProofs` | the proofs about `Proc` | |
| `Fifo` | what a pipe promises: a bounded queue | |
| `Pipe` | `pipe.c`, and the parts of `file.c` and `sysfile.c` it needs | one byte; a hold of `ftable.lock` |
| `PipeProofs` | the proofs about `Pipe` | |
| `Rings` | lemmas on rings with wrapping indices, for `PipeProofs` and `VirtioDiskProofs` | |
| `Inode` | `fs.c` from `ialloc()` to `namex()`; open, mkdir, link, unlink, chdir, close | a hold of `itable.lock`, of a block of inodes, or of an inode |
| `Mkfs` | `mkfs.c`: layout, bitmap, inodes and blocks of the image, as definitions | |
| `ByteFiles` | what a file promises: bytes read and written in whole chunks, and which of them last | |
| `Content` | `balloc`, `bfree`, `bmap`, `readi`, `writei`, `itrunc` of `fs.c`; `fileread`, `filewrite` of `file.c` | a hold of one buffer |
| `Vm` | `kalloc.c` and `vm.c`, as definitions over a state of memory | |
| `AddressSpace` | what memory promises: each process has pages of its own | |
| `Memory` | `fork`, `exec`, `sbrk`, `exit`, `wait` as far as they use memory; user copies | a system call, in which any `kalloc()` may fail |
| `Trap` | `spinlock.c`, `trap.c`, `trampoline.S`, `kernelvec.S`, `swtch.S`, the scheduler, the clock, `sys_sleep` | what a hart does between two points where an interrupt or another hart may interfere |
| `Tty` | what a terminal promises: lines, in order, each character once | |
| `Console` | `console.c`, `uart.c`, `printf.c`, the UART and its interrupt | one access to the UART; a hold of a spin lock |
| `MC...` | symmetry and values of constants for TLC | |

Actions have the names of the functions they model; a function that gives up its lock on
the way is several actions (`iput`, `itrunc`, `ifreed`, `idrop`). Variables have the names
of the fields. Code that waits at `sleep(chan, lk)` is a location of the process.
A definition named for what it gets wrong and placed just before its correct form is a plausible fault; `PROJECT.json` says which property finds it.

The layers meet through their abstract specifications: `VirtioDisk` implements
`BlockDevice`, on which `Bcache` rests with its one-step transfers; `Bcache` implements
`Blocks`, which is the cache that `Log` and `Content` use; `Log` implements `AtomicDisk`,
which is why `Inode` and `Content` treat their disk as one that a crash does not tear.
`Content` starts from the image of `Mkfs`. Its `OpFits` says that no operation writes more
blocks than it reserves, with the code's own formula for the chunks of `filewrite()`;
`log_ops` assumes one block less (see the bounds). `Trap` justifies that the other modules take a
hold of a spin lock as one step and `sleep()` as atomic. The implementations are checked one by one;
that they fit together is an argument on paper (see the plan).

## Runs

| Run | Instance | Result |
|---|---|---|
| `log_crash` | 3 processes, 2 blocks, 2 contents, room for 2 reservations, crashes anywhere | `Log` implements `AtomicDisk` (`CrashAtomic`); a commit is alone; when idle all is durable; each logged block is pinned once |
| `log_ops` | 3 processes, 3 blocks, room for 2 reservations, with fairness | the reservation is enough when calls stay below it (`OperationsFit`); whoever sleeps in `begin_op()` is woken |
| `proc` | 3 entries, 2 CPUs, 4 pids, one pid that may be killed, with fairness | one CPU per process; no entry is freed under a CPU; children always have a parent that can wait and whose sleep no exit escapes; only the named process is killed; init frees every exited process it is the parent of |
| `disk` | 3 callers, 2 contents, 8 descriptors, indices modulo 16 | no descriptor shared or lost; no completion or wake-up missed; implements `BlockDevice` |
| `bcache` | 2 processes, 3 buffers, 4 blocks, 2 pins | a block is cached once, `refcnt` exact, a sleeper's lock has a holder (`BuffersInOrder`); implements `Blocks` |
| `pipe` | 3 processes, pipe of 2 bytes, counters modulo 4, calls of 3 bytes | implements `Fifo`; freed with its last descriptor and not before; sleepers sleep for a reason |
| `inode` | 2 processes, 3 inodes, 1 name | the table counts its references exactly and agrees with the disk; `iput()` never sleeps under `itable.lock`; a named inode is allocated; no panic |
| `inode_leak` | the same | **violated**: an inode without links or references stays allocated |
| `trap` | 2 harts, 2 threads, a clock that wraps | no check of `spinlock.c`, `proc.c` and `trap.c` fails, `noff` counts locks, every thread has the interrupt state it expects (`LockDiscipline`); `tp` is the hart's number wherever a thread resumes; no tick is missed by a sleeper |
| `console` | up to 2 readers, 2 writers, a `printf()` and a `panic()`, both rings of 2, indices modulo 4, with fairness | input implements `Tty`; output is a queue; sleepers sleep for a reason; every write ends; a panic gets its message out; the UART is never given more than its FIFO holds |
| `memory` | 2 processes, 31 frames, tables of two levels, 5 calls, any `kalloc()` failing | each page is free once or used once; no panic; user code and user copies reach exactly the process's own pages; implements `AddressSpace` |
| `content` | 2 processes, 4 open files of 3 inodes, 17 blocks of 2 bytes, 3 calls, copies that fail and buffers that are recycled | a block is marked used if and only if it has exactly one place; no operation writes more blocks than it reserves; `bmap()` never allocates for a reader; implements `ByteFiles` |

`MCLog` with `log_full.cfg`, `MCProc` with `proc_kill_race.cfg` and `MCInode` with `inode_dotdot.cfg`
are three more configurations, in which TLC finds behaviours the findings below describe.

### Why the bounds are enough

* `log_crash`: a second block makes half-installed transactions possible and a second
  content tells old from new; with three processes one sleeps, one is active and one
  commits. `log_ops` has `MAXOPBLOCKS = 2` and calls that write one block. The code's own
  calls stay below their reservation too, which is an argument from its constants and not a
  result of a run: `filewrite()` writes at most 3 blocks of bytes at a time, which touch 4
  blocks, the indirect block, the inode and the bitmap's only block (`FSSIZE` is 2000 and `BPB` 8192): 7
  of 10. The small disk of `content` has two bitmap blocks, and there `OpFits` is met with
  equality. `log_full.cfg` is the case where calls use all they reserve.
* `proc`: init, a parent and a child that becomes an orphan, with a CPU for two of them. A
  pid is never reused; four of them recycle an entry. Four entries (without the temporal
  property, which allows no symmetry) have been checked too.
* `disk`: eight descriptors hold two requests and leave two over, so that a third caller
  fails half-way. Indices wrap after 16 requests instead of 2^16; both are multiples of
  `NUM`, which is what the code relies on. Two contents tell a write that reaches the wrong
  block from one that does not. A fourth caller, so that two wait for descriptors and wake
  each other, has been checked with a single content (333,216 states): all properties hold.
* `bcache`: more blocks than buffers, and pins for all buffers but one, so that recycling and
  `panic("bget: no buffers")` happen.
* `pipe`: calls are longer than the pipe, the counters wrap after two fillings, and three
  processes give two readers or two writers with a partner. All processes may exit, so
  deadlock is not checked.
* `inode`: one name suffices for collisions, a file and a directory fit beside the root. The
  second process only creates, unlinks and changes directory, which keeps the run
  at two million states; all calls by both with paths of two names (28 million states)
  hold too. `..` is left to `inode_dotdot.cfg`, since the invariants fail behind it.
* `trap`: `MaxActors` bounds harts plus threads by three: two threads on one hart switch to
  one another through the scheduler, one thread moves between two harts. One clock
  interrupt of hart 0 wraps `ticks` and wakes sleepers; timer interrupts of every hart, which
  cause the switches, come at any point where interrupts are on.
* `console`: `Scenarios` lists who takes part and what is typed: lines that end, fill the buffer,
  are erased, or end in `^D` with and without characters before it; two writers, writers
  with an echo, with `printf()`, with a panic. Rings of two fill at once, and `Used = 3` makes all
  indices wrap. The threads finish, so deadlock is not checked.
* `memory`: with a radix of 7 and 4 bytes per page, segments, the stack, the guard page and the
  arguments each cross a page, and the two pages of the kernel lie in the last table. The 31 frames
  are enough for `exec()`, which holds the old and the new image at once, beside a second process. `MaxAllocs`
  exceeds the number of pages that `exec()` takes, so every call of `kalloc()` fails in some
  behaviour. The programs include one whose segments overlap, one that is no program, one
  that is shorter than it says and one whose segment wraps around.
* `content`: one direct block and one indirect block make every kind of block appear in a file of six
  bytes, the bitmap has two blocks, and the disk has fewer free blocks than two files may take.
  One file of three bytes is open twice, once by each process, and one open file is shared, so that a read
  meets a write, a truncation or an extension of the bytes it is reading. A write of four bytes takes
  several chunks, each of whose copies may fail after any number of bytes; a block may be recycled at any time
  the log does not hold it. Numbers are modulo 16, and `fileread()` is also called with the length -1.
  Calls end after `MaxCalls`, so deadlock is not checked.

### Fairness

* `log_ops`: a process inside a call is scheduled again and again (weak fairness for its
  next step: the scheduler is round-robin and timer interrupts preempt), and a call ends
  after finitely many writes (strong fairness for `end_op`, since a buffer may be in
  use by others in between). Sleep-locks are not fair, hence `ReadersNeverStop` in
  `WokenUp`: readers that hold buffers again and again for ever are excluded.
* `proc`: CPUs leave `sched()`; a pending timer interrupt is taken when interrupts are on;
  some thread that can go on in the kernel does, and so does init; the scheduler's loop comes by
  init's entry; `user/init.c` calls `wait()` for ever. A process that spins in
  `acquire(&wait_lock)` has interrupts off and is not preempted. No fairness is assumed of
  other user programs.
* `console`: the UART sends what it has, its interrupt is taken by some hart, and every thread
  goes on when it can. Nothing is assumed of the one who types.

## Findings

1. `inode_leak` (`fs.c:357`): `iput()` drops its reference in a second critical section. An
   inode that is reallocated, unlinked and put in between is freed by neither `iput()`.

Facts that the models show and that no comment or test of the repository contradicts:

* `log.c:220` (`log_full.cfg`): `mkfs` makes `nlog = LOGSIZE` blocks, one of which is the header;
  `begin_op()` reserves up to `LOGSIZE`, so that `log_write()` panics. Latent: no call of this
  tree writes `MAXOPBLOCKS` distinct blocks.
* `proc.c:427` (`proc_kill_race.cfg`): a `kill()` between `wait()`'s check of `killed(p)` and
  `sleep()` wakes nobody; the process stays asleep until a child exits.
* `fs.c:314` (`inode_dotdot.cfg`): a removed directory that is still a current directory keeps
  its `..`; once the parent is freed as well, looking it up panics.
* `proc.c:592`: `kill(0)` matches the pid of `UNUSED` entries and kills the next process in one
  of them: with 0 in `KillArgs`, `OnlyTheNamedDies` fails.
* `pipe.c:84`: a writer killed after it has put some bytes returns without waking the
  readers; `NobodyForgotten` says that no reader is forgotten as long as nobody is killed.
* `mkfs.c:166`: a root directory that exactly fills its blocks gets a size one block too large. Reading
  it makes `bmap()` allocate outside of a transaction, which panics in `log_write()`. It takes
  62 files; `MkfsAssumption` excludes it.
* `fs.c:522`: when the copy from a process fails half-way in `writei()`, the bytes copied so far are
  visible but not logged: they vanish when the buffer is recycled, unless a later write logs the same block.
  `IsByteFiles` promises no more than that: the bytes `write()` counts last, the others may go at any time.
* `uart.c:122`: as many harts as there are may write to the UART after having found it idle,
  which works because it has a FIFO (`NoOverrun`).
* `log.c:131`: operations that overlap for ever and write only blocks already in the log put
  the commit off without bound; the code makes no promise there.

## Proofs

`LogProofs` proves, for all values of the constants that satisfy `LogAssumption` (any
finite set of processes, any blocks and contents, any size of the log):

* `TypeCorrect`, `CommitsAlone`, `PinsMatch`, `Durable`: `TypeOK`, `CommitAlone`,
  `PinnedIffLogged` and `IdleIsDurable` are invariants;
* `LogIsAtomic`: `Log` implements `AtomicDisk`.

They rest on the inductive invariant `IInv` of `LogInvariant`. None of the properties is
inductive: that a crash leaves whole operations depends on which of the three copies
of a block (cache, log, home) is good in each phase of `commit()` and of the
recovery. `IInv` has four parts beside the types: `Control` (who commits, and that
nobody is active then), `Locks` (the holder of a buffer is where it says it is), `Header`
(distinct blocks, at most `LogBlocks - 1`, each pinned once until installed) and `Phases`
(the copies). `LogInvariant` proves that a step preserves the first three, action by
action, `LogPhases` the last. `LogProofs` then shows that every step is a step of
`AtomicDisk` or a stutter: copying between cache, log and home changes neither what
readers see nor what a crash would leave, except for `write_head()`, the commit.

`BcacheProofs` proves `CacheInOrder` and `CacheIsTransparent` (`BuffersInOrder` and the
refinement of `Blocks`) for any finite set of processes, any blocks and any number of buffers.
Neither is inductive: the counts say nothing of the contents. The invariant adds `Places` (a process past `bget()` has
a buffer of the block it asked for, also while it waits for the lock), `Locks` (the lock's holder
is where it says it is), `Pins` (a pinned block stays cached) and `Clean` (a valid buffer that is neither
locked nor pinned equals its block on the disk, so that recycling it loses nothing).

`ProcProofs` proves, for any sets of CPUs and entries of `proc[]` and any pids:

* `ProcessOnOneCpu` and `NoCpuOnFreed` (`OneCpuPerProcess`, `FreedIsOffCpu`), from `Cpus` and
  `Places`: whoever owns `p->lock` across `swtch()` is the CPU that is leaving `p`, and
  the state of a process says where its kernel thread stands;
* `ExitIsSeen` (`ExitReachesParent`), from `WaitLock`, `Forks`, `Parents`, `Scans` and
  `Sleepers`. The property speaks of moments when `wait_lock` is free; in between an exit has
  happened and its `wakeup()` has not. `Sleepers` says who is about to wake whom,
  `Scans` what a parent's loop has already ruled out, and `Forks` that a child that `fork()` has
  not finished is seen by nobody else;
* `KillsTheNamed` (`OnlyTheNamedDies`) under the hypothesis that nobody calls `kill(0)`, without
  which it is false (see the findings); it needs beside the invariant that an `UNUSED` entry has no pid.

`PipeProofs` proves `PipeIsKept` and `NoneForgotten` (`DescriptorsKeepPipe`, `NobodyForgotten`) for any
finite set of processes and any sizes. `Files` and `Ends` say that all descriptors of an end name
one open file, so that its count finds the last of them, and that whoever closes an end is the last
to refer to it. `Writers` and `Readers` say of every moment, not only of those when `pi->lock`
is free, that a sleeper has a reason to sleep or that the holder of the lock will wake it.
`PipeIsFifo` says that `Pipe` implements `Fifo`, whenever the range of `nread` and `nwrite`
is a multiple of `PIPESIZE` and larger than it (2^32 and 512 in the code). Beside the invariant it needs that `nwrite`
is never more than `PIPESIZE` ahead of `nread`, and that less than `PIPESIZE` further on there is another
cell.

`VirtioDiskProofs` proves `DescriptorsKept`, `SleepersAreShort`, `NoneLost` and `DiskPerforms` (`ChainsPartition`,
`NoDescIsShort`, `CompletionsReach` and `PerformsRequest`, the refinement of `BlockDevice`) for any buffers, any `NUM` and any range
of the ring indices that is a larger multiple of it (8 and 2^16 in the code). None is inductive: a completion is
a number in a ring, and says nothing of whose request it is. `Linked`, `Disjoint` and `FreeIsRest` say that
a chain belongs to one caller from `alloc3_desc()` to `free_chain()`, so that its first descriptor names the request;
`Requests` what the device and the handler find there; `InOnePlace` and `OnceInRing` that this number is in exactly one of
the avail ring, the device and the used ring until the handler has seen it; `RingsFit` that neither ring
overflows, since there are as many cells as descriptors.

The invariants of these modules were checked by TLC before they were proved, on the instances of the
runs and, for `Proc`, with four entries.

What is only model-checked: all liveness properties (which the prover cannot do), `OperationsFit`, and
everything about `Inode`, `Content`, `Memory`, `Trap` and `Console`. `Vm` and `Memory` walk page tables
with recursive operators, and `Mkfs` builds its image with one, so that they and the modules that extend
them are out of the prover's reach.

## What the models leave out

* `Log`: reads inside an operation, and two buffers held at once. A crash tears a block
  that is being written, except the header, whose bytes lie in one sector. The buffers of
  log blocks are written through.
* `Proc`: exit status, page tables, files. The two `wakeup()` passes of `exit()` are one
  pass for both channels. Scans of `proc[]` go in any order. A `kill()` that finds no
  process and a `fork()` that finds no entry change nothing and are not steps. Nobody
  kills init, and init does not fault. Only `wait()` sleeps.
* `VirtioDisk`: a buffer stands for its block and its caller (justified by `Bcache`); entries
  nobody reads again are cleared; the device reports no errors; the set-up is `Init`.
* `Bcache`: a process has one buffer at a time, and callers pin what they change before they
  release it, as `log_write()` does.
* `Pipe`: one page, one descriptor per end and process, no entry of `proc[]` recycled.
  `sys_pipe` that fails closes what it opened and is not a step. `sleep()` on a pipe is one
  step with the release of `pi->lock`.
* `Inode`: contents of files (see `Content`), `.`, device files, crashes, and the log's own
  waiting. The table has an entry for every inode, so that `iget()` does not run out of them. A
  process has one open file; `fork` is not modelled here. A process that panics goes no
  further; `NeverPanics` says that none does.
* `Content`: names, and crashes inside an operation (`Log` has them). Each process writes a byte of
  its own, which tells the writes apart. An open file stays with its inode; closing and unlinking are
  in `Inode`. A buffer is recycled only when unlogged bytes make a difference.
* `Vm`, `Memory`: the pages of a process hold one value each, except that fields of a page table
  are kept exactly. `wait()` takes any `ZOMBIE` child; files, parents and locks are in `Proc`
  and `Pipe`. `MAXARG` and the several ways in which an ELF file is bad are one error path.
* `Trap`: system calls other than `sleep`, exceptions, and the checks of `killed` (they are in `Proc`
  and `Pipe`). A scheduler looks at the entries of `proc[]` in any order.
* `Console`: formatting, and characters that the UART loses because nobody fetches them. What
  `printf()` prints is one character. Harts are counted, not told apart (`Trap` does that).
* Not modelled at all, and why: `string.c` (loops over bytes that the modules use as single
  steps), the machine instructions of `entry.S` and `start.c` (they run once, before there is any
  concurrency; their effect is the initial state of `Trap`), `ramdisk.c` (not built), the
  table of system calls in `syscall.c` (no state), and the user programs and tests under `user/`
  (sequential programs over the system calls).

## Plan

Done: the modules above; the invariants of the log, the buffer cache, the disk driver, the processes and the pipes;
the refinements of the log, the buffer cache, the disk driver and the pipe.

1. Compositions: `Bcache` over `VirtioDisk`; `Log` over `Bcache`, to settle whether `NBUF`
   suffices; `Inode` with `Content` over `AtomicDisk`, with crashes.
2. Theorems: `OperationsFit` of `Log`; `TableMirrorsDisk` of `Inode`; the
   counting part of `LockDiscipline` of `Trap`; `NoOverrun` of `Console`.
