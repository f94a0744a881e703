# A verification project for this xv6-riscv kernel

The repository is xv6-riscv with `strace`, `sigalarm`/`sigreturn`, five
schedulers chosen at build time (RR, FCFS, PBS, MLFQ, LBS) and copy-on-write
`fork`. This directory holds TLA+ models of the kernel (`src/src/kernel/`) and of
the shell and the memory allocator that run on it (`src/src/user/`), the TLC runs
that check them, and TLAPS proofs. `PROJECT.json` maps every
definition to the lines it models and lists components, runs, hazards and
theorems.

## 1. Inventory

| Part | State | Operations | What is hard about it | What should hold |
|---|---|---|---|---|
| Process table, `proc.c`, `trap.c` | `struct proc`, `p->lock`, `wait_lock`, `struct cpu` | fork, exit, wait, kill, sleep, wakeup, yield, sched, scheduler, trap entry and exit | locks handed across `swtch`, wakeups between a test and a sleep, slots reused | one hart per kernel stack, no lost wakeup, children always have a live parent, a killed sleeper exits |
| Copy-on-write memory, `vm.c`, `kalloc.c`, `trap.c`, `exec.c` | page tables, `refCount`, free list | fork (`uvmcopy`), store fault, `copyout`, exec, sbrk, freeproc | chains of forks, memory running out half way, permissions of shared pages | exact counts, shared frames not writable, sharing invisible |
| Reference counts on several harts, `kalloc.c` | `refCount` outside `kmem.lock` | kalloc, kfree, refInc | updates lost between load and store | no page lost |
| Redo log, `log.c`, `bio.c` | disk, header, `struct log`, pinned buffers | begin_op, log_write, end_op, commit, recovery | crashes between disk writes, overlapping calls, space reservation | all or nothing, commit alone, sleepers woken |
| MLFQ, `queue.c`, `proc.c`, `trap.c` | five rows of cells, `size`, `back`, `in_queue`, `ticks_used` | push, pop, remove, aging, demotion, preemption | three copies of the same fact, updated in different functions | queued means RUNNABLE, rows without holes, counts exact |
| Alarms, `sysproc.c`, `trap.c` | `alarm_ticks`, `max_alarm_ticks`, `alarm_trap` | sigalarm, sigreturn, timer interrupt | one field is both a count and the mark of a running handler | handler not reentered, registers restored |
| FCFS, `proc.c` | creation times | scan | switches to a process inside the scan | oldest first |
| PBS, `proc.c` | static priority, run and sleep ticks, `sched_ct` | scan, `set_static_priority`, `get_dynamic_priority` | lock kept across the scan, unsigned arithmetic | best priority first, harts do not block each other |
| LBS, `proc.c` | tickets, 16-bit shift register | draw, `settickets` | one draw per process | nobody starves |
| Pipes, `pipe.c` | ring buffer, two counters, two open flags | write, read, close | full and empty sleepers, close and kill while asleep, counters that wrap | FIFO, no lost wakeup |
| Buffer cache and sleep-locks, `bio.c`, `sleeplock.c` | LRU list, `refcnt`, `valid` | bget, bread, brelse, bpin | two lookups of one block, recycling | one buffer per block |
| Inodes, directories, `fs.c`, `sysfile.c` | inode table, link counts | iget, ilock, iput, link, unlink, create, namex | free while looked up, lock order | count is the number of references, no inode freed in use |
| File contents, `fs.c`, `file.c` | bitmap, direct and indirect blocks, offsets | balloc, bmap, itrunc, readi, writei | disk full half way, block borders, shared offsets | a block has one owner, files hold what was written |
| Open files, `file.c` | file table, descriptors | dup, close, read, write | shared offsets, close of the last reference | count is the number of descriptors |
| Disk driver, `virtio_disk.c` | descriptor ring, `used_idx` | rw, intr | interrupt against submission, ring full | a descriptor has one owner, a request completes |
| Console and UART | two ring buffers | read, write, intr | full and empty sleepers | no lost character while there is room |
| Spinlocks, `spinlock.c` | `locked`, `noff`, `intena` | acquire, release, push_off, pop_off | interrupts inside critical sections | nesting restores interrupts |
| System calls and strace, `syscall.c` | trace mask, dispatch tables | syscall, trace | argument register reused for the result | trace prints the call's own argument |
| Ticks and times, `trap.c`, `sysproc.c` | `ticks`, `rtime`, `wtime`, `etime` | clockintr, update_time, waitx, sleep | unsigned subtraction, wake-up each tick | times add up |
| Shell, `user/sh.c`, `user/init.c` | processes, descriptors | main, runcmd, fork1 | many processes share pipe ends; wait counts children | each program has its own ends only, foreground jobs are over at the prompt |
| Parser, `user/sh.c` | one line, pointers into it | gettoken, peek, parse functions, nulterminate | tokens that touch, a buffer cut in place | exactly the grammar |
| Allocator, `user/umalloc.c` | ring of free blocks | malloc, morecore, free | frees in any order, memory that does not adjoin | every unit in one block |
| Boot, assembly, PLIC, printf, strings, mkfs, other user programs | | | straight-line or sequential | not modelled |

Parts interact through: `p->lock` (every scheduler, sleep and wakeup), the
timer interrupt (schedulers, MLFQ, alarms, ticks), the page allocator (fork,
exec, pipes), sleep-locks (buffers, inodes), and the log (every change of the
file system).

## 2. Plan

Done, in the order it was done:

1. `Proc` with proofs, `Cow` refining `AddrSpace`, `RefCount`, `Log` refining
   `Durable`, `Mlfq`, `Alarm`.
2. `Pipe` refining `Fifo`; `Bio` refining `Blocks` above `DiskIO`, and `Virtio`
   refining `DiskIO`; `Uart` refining `Fifo`; `Console` refining `Tty`; `Files` and
   `FileData`; `Sched` for FCFS, PBS and LBS; `Ticks`; `Spinlock`; `Shell`,
   `Parse` against `Grammar`, `Malloc`.
3. Proofs about `Spinlock`, `Sched`, `Cow`, `Log`, `Pipe`, `Alarm` and `Ticks`: their
   safety properties, and the refinements `PrivateMemory`, `AllOrNothing` and
   `PipeIsFifo`.

What would come next:

4. Compositions: `Log` above `Bio` instead of its own cache, `Files` inside the
   transactions of `Log`.
5. Proofs: `ChildrenCollected` of `Proc`, `QueuesExact` of `Mlfq`, and the refinements
   `CacheIsBlocks`, `TransfersOnce`, `InputIsLines` and `OutputIsFifo`.

## 3. Modules

### Proc (`proc.c`, `trap.c`): the process table

State: `state chan killed pid parent nextpid` are the fields of the same names;
`plock` and `wait_lock` hold the hart that owns a spinlock; `cproc` is
`c->proc`. `cpc` says whether a hart is in its scheduler loop, runs a process,
or has just come back from `swtch`; `pc`, `ctx`, `idx`, `arg` and `havekids` are a
process's program counter, saved context and locals.

One action is one critical section, that is the code between two lock operations
another hart can observe. `SchedPick` and `SchedReturn` are the scheduler loop;
`Swtch` and `Resume` are sched() and the code after it; `DoYield` is yield. fork
is `ForkScan` (allocproc's scan), `ForkFull`, `ForkFail`, `ForkCopied`,
`ForkParent`, `ForkRunnable`; exit is `ExitLock`, `Reparent`, the wakeups of
init and of the parent (`WakeSlot`, `WakeDone`), `ExitZombie`; wait scans with
`WaitSkip`, `WaitReap`, `WaitBadAddr`, `WaitEnd` and then sleeps; kill scans
with `KillScan`. Which RUNNABLE process a scheduler picks is left open, so the
module stands for the RR, FCFS, PBS and LBS builds: each locks the slot and tests
RUNNABLE before it switches. `RR` says whether `kerneltrap` yields.

Left out: memory and files (an allocation may fail at any call), exit statuses,
`waitx` (a copy of wait with times).

### Cow (`vm.c`, `kalloc.c`, `trap.c`, `exec.c`) and AddrSpace

A page table is `pa[p]`, the frame behind each page, and the sets `W[p]`, `U[p]`
and `COW[p]` of pages with that bit. `tf` and `tables` are the pages a
process owns in the kernel, `ref` and `freelist` the allocator, `mem` the
contents of frames. `text` and `guard` remember what exec mapped without PTE_W
and PTE_U. Each kernel operation is one action, with its out-of-memory variants:
`Fork`/`ForkFail`, `CowFault`/`CowFaultNoMemory`, `CopyOut`/`CopyOutCow`/
`CopyOutNull`, `Grow`, `Shrink`, `Exec`, `FreeProc`, and `Store` for a store the
MMU permits. The kernel's stores through a null pointer become `panicked`.

`AddrSpace` is what programs are promised: private memory that fork copies at
once. `PrivateMemory` states that Cow implements it with `mem <- View`, the
pages a process sees.

### RefCount (`kalloc.c`)

The counts with `refIdx(pa)++` and `refIdx(pa)--` split in a load and a store.
Processes take, share and give up pages; any number of operations overlap.

### Log (`log.c`, `bio.c`) and Durable

`home`, `logb` and `head` are the disk, `cache` and `pin` the buffer cache as
far as the log depends on it, `lh`, `outstanding` and `committing` are
`struct log`. A system call is `BeginOp`, any number of `Modify` and `LogWrite` (up to
MAXOPBLOCKS blocks), `EndOp`; the last one commits, one disk write per step:
`WriteLog` blocks, `WriteHead`, `Install` blocks, `Erase`. `Crash` may come
between any two steps; `Recovery` reads the header and installs again, and may be
interrupted by another crash.

`Durable` is the promise: calls change a memory image; a commit, possible only
when no call is half way, makes all changes durable at once; a crash goes back
to the last commit. `AllOrNothing` states that Log implements it, where the
disk of Durable is what recovery would produce now.

### Mlfq (`queue.c`, `proc.c`, `trap.c`)

`mq` holds `sched_queue` as one array of cells (row k starts at k * NPROC) with
`back` and `size` and each process's `in_queue`, `queue_position`, `ticks_used`
and `curr_wait_time`. `Age`, `Push` and `Pop` are the three loops of the
scheduler. `UserTick` and `KernelTick` are timer interrupts, `CountTick` and
`Demoted` the two outcomes of the code that counts the slice. That code also
has a loop that preempts the process for a better queue; it has no action
because it never finds one: a process that wakes up is queued only by the
scheduler, and the scheduler takes the best queue. `NoneBetter` states that.
One hart: the queues have no lock. When a row is full, the shifting loop of
`pop_queue` leaves a copy in the last cell; the model stops when a row is full.

### Alarm (`sysproc.c`, `trap.c`)

One process with a program counter, in the main program or in the handler, and
`a0`. `Fire` and `Tick` are the timer interrupts of usertrap, `Sigalarm`,
`SigreturnDone` and `SigreturnFails` the system calls. `frames` records, for the
properties only, what alarms have interrupted.

### Sched (`proc.c`): FCFS, PBS and LBS

`build` says which of the three was compiled. `st`, `plock`, `ctime`, `sp`, `ct`
and `tickets` are `state`, `lock`, `ctime`, `static_priority`, `sched_ct` and the
tickets of a slot; a hart has its place in the loop (`hpc`), the index of the scan
(`hat`), its choice (`hmin`: `p_least_time`, `minproc` or `p`) and, for PBS, the
minimum it compares with (`hval`). `FcfsLook` reads without the lock and `FcfsTry`
locks and looks again; `PbsScan` keeps the lock of its choice and releases the one it
gives up; `LbsScan` draws for each process. `RunBegin`, `GiveUp` and `SwitchBack` are
the two halves of a switch. `ClockTick` is the timer interrupt of a hart that holds no
process lock, and `UpdateTime` one slot of update_time, under that slot's lock, while
the other harts scan, switch and hold their choices. `DP` is get_dynamic_priority; its
difference is unsigned, so a priority below 0 counts as 100, the worst. fork, wait and
wakeup are single steps here: their locking is the subject of `Proc`.

### Spinlock (`spinlock.c`, `sched`, `sleep` and `yield` in `proc.c`)

Per hart `sie` (interrupts enabled), `noff` and `intena`; per lock its owner; per
context (a kernel thread or a hart's scheduler) the lock it spins for, and whether
`kerneltrap` runs on top of it. acquire is two steps, before and at the swap. A context
takes any lock it does not hold, in any order and depth. `ToSched` is the acquire of
p->lock in yield, with no other lock held, and in sleep and exit, with one held;
`GiveUpLock` is the release of that one. A thread in sched() keeps `intena` in its local
`saved` and may be resumed on another hart.

### Ticks (`trap.c`, `proc.c`, `sysproc.c`)

`ticks` modulo `TickMod`; `clockintr` holds `tickslock` and takes one process lock after
another (`UpdateSlot`), then wakes the sleepers one by one (`WakeTask`), while other
harts run, create and end processes. `SysSleep`, `SleepCheck`, `SleepEnter`,
`SleepBack` and `SleepReturn` are sys_sleep. killed() in `SleepCheck` and the sleep in
`SleepEnter` are two steps, because kill, which takes p->lock only, can fall
between them; `missed` records that it did.

### Pipe (`pipe.c`) and Fifo

`nread` and `nwrite` modulo `UintMod`, `data`, `readopen`, `writeopen` as in
`struct pipe`; `holds` says which ends a process has open. One step moves a byte or lies
between two uses of `pi->lock`. `WriteWait` and `ReadWait` are the tests that
decide to sleep, `WriteSleep` and `ReadSleep` the sleep; a kill may come
in between. `FileClose` counts the descriptor down and
`PipeClose` closes the end. `Fifo` is a bounded queue whose ends can be closed.

### Bio (`bio.c`, `sleeplock.c`), Blocks and DiskIO; Virtio (`virtio_disk.c`)

`Bio` has the buffers, the LRU list and the sleep-locks, one step per
critical section, and its users: bread, changes, bwrite, bpin, bunpin, brelse. When every
buffer is in use bget panics (`BgetNone`) and the model ends. It rests on
`DiskIO`, which says that a transfer happens once between the call of
virtio_disk_rw and its return; `Virtio` (descriptors, both rings, the device and the
interrupt handler) is shown to implement `DiskIO`. `Blocks` is what the cache
promises: an array of blocks, each used by one process at a time.

### Uart (`uart.c`), Console (`console.c`), Fifo and Tty

`Uart` is the transmit buffer, the transmitter and its interrupt, the echo that
bypasses the buffer, and consolewrite. Its queue, as `Fifo` sees it, is the character
in THR followed by the buffer: the UART takes its head when it has sent it. `Console` is
`cons.buf` with its three indices, consoleintr key by key, and consoleread, whose
killed() (`NoLine`) and sleep (`SleepOnLine`) are two steps with room for a kill. `Tty`
is the promise: a line is edited until it is ended and read byte by byte afterwards.

### Files (`fs.c`, `sysfile.c`, `file.c`)

`di` and `ents` are inodes and directories on disk, `ic`, `iref` and `ilk` the inode
table (contents, `ref`, holder of the sleep-lock), `file` and `ofile` open files,
`cwd` current directories; `k` is the record of a call under way. A step is a section
under one inode lock. `Namex` walks a path, from the root or the current directory, one
element per turn, ".." among them; `Create*`, `Unlink*`, `Link*`,
`Open*`, `Chdir*`, `Close`, `ForkFiles`, `Exit*` are the calls, and `Iput`,
`IputLast`, `IputFree`, `IputDrop` the branches of iput. Three variables are history:
`late` and `lost` are the entries made in directories that were already removed, and `cut`
the removed directories whose parent has been freed as well, so that their ".." names a
free or a reused inode. A lookup of such a ".." ends the model
(`fpanic = "freed .."`).

### FileData (`fs.c`, `file.c`)

`bitmap`, `addrs`, `ind` and `data` are the disk; `off` the shared offsets; `content` is
history: what the writes should have made of each byte, as a set of values. balloc, bfree,
bmap, itrunc are operators; a block of readi or writei is a step under the inode's lock; a
write is cut into transactions of `MaxChunk` bytes. copyin and copyout go page by page, so
a user address that fails (`WriteFault`, `ReadFault`) fails after some bytes of the
block: those of a write are in the buffer, though writei neither counts nor logs them.

### Shell, Parse, Grammar, Malloc (`user/`)

`Shell` turns a command tree into the system calls of each process (`runcmd`), and
executes them; a fork or a pipe may fail. `Parse` is the recursive-descent parser on positions of a line, with
recursive operators; `Grammar` defines the parse trees of a token sequence as sets,
without reference to the parser. `Malloc` is the ring of free blocks; one turn of
malloc's loop is one step. Its requests are below `MaxUnits` (2^27 - 1 units of 16 bytes):
that is the most for which morecore's argument of sbrk is an int.

### MC modules

TLC runs are few and components many, so an MC module puts several components that
share no variable side by side: `part`, chosen at the start and never changed, says
which one moves; the others rest in one initial state. The states of a run are
the sum of those of its parts, not the product, and no behaviour of a part is lost.

## 4. Runs

| Run | Instance | Shows |
|---|---|---|
| ProcSafe | 4 slots, 2 harts, 5 pids, kill of pid 2, no kernel preemption | `TypeOK`, `Exclusive`, `SchedPanics`, `ChildrenCollected`, `OnlyKilledIfAsked` |
| ProcLive | 3 slots, 1 hart, 4 pids, kernel preemption | `WaitReturns`, `KilledSleeperExits` |
| Live | Log: 2 calls, 2 blocks, 2 values, LOGSIZE 4, MAXOPBLOCKS 2, log of 3 blocks | `LogSafe`, `AllOrNothing`, `SleeperWakes` |
| | Alarm: 2+2 places, intervals -1..2, 3 calls of sigalarm | `AlarmSafe`, `ResumesWhereInterrupted`, `TicksServed` |
| | Ticks: 2 processes, ticks modulo 4, sleep(2), the clock waits for a process 2 ticks old | `ClockSafe` |
| SchedRun | Mlfq: 2 processes, rows of 3, 3 queues, aging after 1 tick | `QueuesExact` |
| | Sched: 3 builds, 2 harts, 3 slots, 1 tick | `RunsOnOneHart`, `SchedLocksExact`, `PbsChoiceStands` |
| | Spinlock: 2 harts, 2 threads, 2 locks | `NoSelfDeadlock`, `NestingExact` |
| FilesRun | Files: 2 processes, 3 inodes, names a and b, 1 open file; 4 calls on directories, or 5 on files | `InodesExact`, `NoLockCycle` |
| | FileData: 2 processes, 2 files, 3 blocks of 2 bytes, 1 direct and 1 indirect block | `FilesExact`, `OffsetsMoveOn` |
| Devices | Bio: 2 processes, 2 buffers, 3 blocks | `BuffersExact`, `CacheIsBlocks` |
| | Virtio: 2 callers, 4 or 6 descriptors | `DriverExact`, `TransfersOnce` |
| | Uart: 2 writers, buffer of 2 | `OutputFlows`, `OutputIsFifo` |
| | Console: 2 readers, buffer of 3, six keys | `ReadersServed`, `InputIsLines` |
| UserRun | Cow: 2 processes, 2 pages, 9 frames | `FramesExact`, `PrivateMemory` |
| | Pipe: 2 processes, 2 bytes, counters modulo 4 | `PipeSafe`, `PipeIsFifo` |
| | Shell: up to 6 processes, 3 sessions | `Plumbing`, `ForegroundDone` |
| | Parse: every line of up to 5 of 9 characters, MAXARGS 3 | `LinesParsed` |
| | Malloc: heap of 7 units, requests of 1, 2 and 4 | `HeapExact` |
| ProcKill0 | 3 slots, kill of pid 0 | violates `OnlyKilledIfAsked` |
| CowPerms | 2 processes, text, guard and stack page | violates `PermissionsKept` |
| RefLeak | 4 processes, 3 pages | violates `NoLostPages` |
| MlfqAging | rows of 3 | violates `NeverPopsNothing` |
| AlarmA0 | as Alarm in Live, 2 calls | violates `AllRegistersRestored` |

A component's safety invariants that belong together are one property, the conjunction
of the module's definitions, with its type invariant among them:

| Property | Says |
|---|---|
| `Exclusive` | no two harts on one kernel stack (`OneStack`); an unlocked slot is RUNNING exactly while a hart executes it (`RunningIsRun`) |
| `ChildrenCollected` | a child's parent is in use (`ParentAlive`); a parent asleep in wait has no zombie nobody will tell it of (`NoLostWakeup`) |
| `LogSafe` | logged blocks stay in the cache (`PinExact`), the header has room for what admitted calls may still log (`RoomForAll`), log_write panics only when they have logged all of it but what the header block takes from LOGSIZE (`PanicOnlyWhenSpent`), nobody writes during a commit (`CommitAlone`), a sleeper has a waker (`SleeperHasWaker`) |
| `AlarmSafe` | no alarm inside a handler that has not set one itself (`OffInHandler`) |
| `TicksServed` | a killed process exits (`KilledExits`), a set alarm goes off (`AlarmGoesOff`) |
| `QueuesExact` | queued means RUNNABLE, entries are true, rows have no holes, one process runs, no better one is queued |
| `PbsChoiceStands` | a process that a PBS scan has chosen stays RUNNABLE and as good as the first one it met, while other harts switch and update_time walks through the table |
| `ClockSafe` | sleep is long enough (`SleptEnough`) and not longer, a killed process sleeps only if the kill fell between killed() and sleep() and then up to the next tick (`NobodyOversleeps`), run time exceeds life time by one tick at most (`RtimeWithinLife`) |
| `NestingExact` | noff counts locks (`NoffExact`), interrupts come back (`InterruptsRestored`), yield, sleep and exit reach sched() with p->lock alone (`SchedReady`) |
| `InodesExact` | reference counts, link counts, names of allocated inodes, no panic but by a ".." whose inode was freed |
| `NoLockCycle` | no processes wait for each other's inodes, though paths go down and up; nobody leaves the kernel with an inode locked |
| `FilesExact` | the bitmap is the set of blocks in use, files hold what was written except for bytes in front of a failing user page, reads return it |
| `FramesExact` | counts of frames are exact (`RefExact`), shared frames are write-protected (`SharedProtected`) |
| `BuffersExact` | one buffer per block, counts exact, sleepers on a buffer's lock have a holder to wake them |
| `DriverExact` | each descriptor is free or in one request, no panic, sleepers have requests under way |
| `OutputFlows` | the UART never stalls with bytes to send, writers sleep only on a full buffer |
| `ReadersServed` | no reader of the console sleeps on an ended line, or killed unless the kill fell between killed() and sleep() |
| `PipeSafe` | a freed pipe is out of reach, sleepers have a reason to sleep: a killed one too sleeps only on a full or an empty pipe |
| `LinesParsed` | a line gives the tree of the grammar, or an error when it has none; words are cut where they end |
| `HeapExact` | every unit is in one block, the ring is sorted and merged, one sbrk is enough for a request |

`CacheIsBlocks`, `TransfersOnce`, `OutputIsFifo`, `InputIsLines`, `PipeIsFifo`,
`PrivateMemory` and `AllOrNothing` are refinements of the abstract modules. Each speaks
about the part that moves; the others rest.

Why the bounds are enough:

- *Proc.* Four slots are the least in which a process that is not init exits while its
  own child is a zombie, so that adoption and the wakeup of init matter; five pids let
  a slot be used again. Two harts give every race over one lock.
- *Cow.* Two processes and two pages let a page be shared, copied, freed and reused, and
  9 frames are few enough for every out-of-memory path to be taken.
- *Log.* Two blocks make a transaction that a crash can cut. LOGSIZE 4 admits two calls of
  MAXOPBLOCKS 2, and a log of 3 blocks, header included, has room for two: log_write panics
  when two blocks are logged and either call writes on. mkfs makes the log LOGSIZE blocks long;
  it is shorter here so that two home blocks are enough to reach the panic.
- *Mlfq.* Rows of three with two processes do not fill before the first aging; three queues have a top, a
  middle and a bottom.
- *Sched.* Three slots let a scan replace its choice while another hart holds a third
  process; two harts race for each lock. `MaxCt` and `MaxTicks` of 1 tell younger from
  older and scheduled from not scheduled; `UntilMaxTicks` ends the clock interrupts of PBS
  there, after one that may find every hart at any point of its scan. `PriorityArgs` is one number below 0, for
  which unsigned arithmetic gives the worst priority.
- *Ticks.* The counter starts at its largest value: it wraps at the first tick, and a
  process may be created and fall asleep before that. sleep(2) takes two ticks, so that
  the first wakes a process that must sleep again. `WrapsOnce` stops the clock before it
  reaches its largest value again.
- *Spinlock.* Two locks and two p->locks nest up to four deep; sleep and exit come with a
  lock, yield without.
- *Files.* In the part "dirs" two processes make directories inside each other's,
  removed ones included, and look up `../a` and `a/..`: paths of two elements in both
  directions. In "files" they make, open, link and remove files and a directory of the same
  name in the root, and in a current directory that may be removed. Three inodes are used up
  and freed again.
- *FileData.* Three blocks are one fewer than two files can need, so the disk fills
  between the indirect block and the data block; writes of 3 bytes cross a block
  border and are cut in two transactions, and fail before or inside a block.
- *Bio.* Two buffers for three blocks make every miss recycle, or panic when both are in
  use.
- *Virtio.* Four descriptors make the second caller wait, six let both be in flight; ring
  indices wrap.
- *Uart, Console, Pipe.* Buffers of two or three items fill, empty and wrap.
- *Shell.* Pipelines of three, lists inside pipelines, redirections and background jobs;
  with six or four slots some forks fail.
- *Parse.* Five characters are enough for two operators with their operands, `(w)` with a
  redirection sign, and one word more than MAXARGS allows.
- *Malloc.* Seven units hold three blocks with a neighbour on either side.

`MaxPid`, `MaxProcs`, `MaxCalls`, `MaxLife` and the cap on waiting times (`WaitCap`:
only "longer than MAXWAITTIME" is ever tested) bound the rest.

Deadlock is checked in SchedRun, FilesRun, Devices and UserRun. Where a part may
really stop (all processes killed, the pipe gone, a panic, two harts that take two
spinlocks in opposite orders) its MC module has a stuttering step, `Rests`, `Stuck` or
`Halted`, for that. In Live, whose parts stop after a panic, an exit or at a bound of the
clock, `Rests` is always possible: there progress is what `SleeperWakes` and
`TicksServed` are about. In the other runs CHECK_DEADLOCK is FALSE, because the bounds on
forks and calls, an exit of the only process and a panic let the model stop.

`RowsExact` is about the time before the first aging (`aged` is FALSE); what
happens to the counts afterwards is the subject of MlfqAging.

### Fairness

- `Proc`: a hart's scheduler loop and a process inside the kernel keep going
  (every hart executes instructions for ever). Strong fairness for kernel steps and
  for picking a given RUNNABLE process: spinlocks and the table scan do not pass over
  one waiter for ever. The RR scan visits every slot in order, which gives that; FCFS,
  PBS and LBS do not promise it, so the liveness results speak about RR. The
  clock interrupts user code again and again.
- `Log`: a thread in begin_op that is awake, in log_write or in commit proceeds,
  and recovery proceeds. A call ends if it can again and again (system calls
  terminate). Nothing is assumed about when calls begin or when crashes happen.
- `Alarm`: the clock keeps ticking.

### What the violation runs show

- **ProcKill0.** `kill` compares pids without looking at the state and a free slot
  has pid 0, so `kill(0)` marks a free slot; allocproc does not clear `killed`.
- **CowPerms.** `uvmcopy` makes read-only and guard pages copy-on-write too, and copyout
  (`vm.c:381`), like the fault handler (`trap.c:96`), maps every copy R|W|X|U.
- **RefLeak.** Two kfree of a shared page on two harts both load 2 and store 1: the
  page is on no free list and no process has it.
- **MlfqAging.** `remove_queue` changes neither `size` nor `back`; the scheduler
  later pops from a queue that is empty.
- **AlarmA0.** syscall() stores the result of sigreturn in the a0 just restored.

Seen while modelling, without a run of its own:

- Memory: a store to an address without a page-table page makes usertrap dereference 0
  (`StoreFar`); a copy-on-write fault without free memory stores through 0
  (`CowFaultNoMemory`).
- Alarms: `sigalarm` inside a handler erases the mark that sigreturn needs
  (`SigreturnFails`).
- Schedulers: in the MLFQ build a timer interrupt from user mode yields before the slice
  is counted (`UserTick`). That `yield()` is compiled into every build, so FCFS, PBS and
  LBS are preempted in user mode too (`GiveUp`), where `src/README.md` says "Note, FCFS is
  non preemptive." FCFS switches inside its scan; PBS compares every candidate with the
  priority of the first one it met (`hval`), not of the best; `set_static_priority`
  returns in the first turn of its loop; the niceness division gives 0 unless a process has
  not run; LBS draws once per RUNNABLE process.
- Log: begin_op reserves against LOGSIZE while log_write panics at `log.size - 1`, and mkfs
  makes `log.size` equal to LOGSIZE with the header included. Calls that log all that is
  reserved for them reach the panic (the first disjunct of `LogWrite`);
  `PanicOnlyWhenSpent` says that no others do.
- Sleep and kill: sys_sleep, consoleread, piperead and pipewrite test killed() and then
  sleep, and kill takes p->lock only. A kill between the two finds the process RUNNING and
  wakes nobody: it sleeps, killed, until the next tick, line or use of the pipe (`missed` in
  `Ticks` and `Console`, the labels `write_full` and `wait_empty` in `Pipe`).
- Times: waitx's waiting time can be -1 when `etime` is read before the tick that
  update_time has already counted; `sleep` of a negative number waits about 2^32 ticks.
- Pipes: pipewrite of a killed process returns -1 without waking readers of the bytes it
  has already put in (`unannounced` in `SleepersJustified`).
- Files: ".." of a removed directory can name an inode that has been freed: ilock then
  panics with "ilock: no type" (`fs.c:314`), or the lookup goes on in whatever the inode was
  reused for. `FsNeverPanics` excepts this case (`freed ..`), which the run reaches, and no
  other. An entry made in a removed directory disappears with it, and its
  inode keeps a link nobody can remove (`lost`).
- File contents: copyin fails at a page, not at a block. A write whose buffer ends in an
  unmapped page leaves the bytes before it in the cached block, uncounted and not logged
  (`WriteFault`).
- Allocator: a request of 2^27 units or more makes morecore pass sbrk a number that is not
  an int (`MaxUnits`).
- Shell: of `w >a >b` the outermost redirection is opened first; when the second fork of a
  pipeline fails the first child is left to init.
- strace: syscall() stores the result in a0 before the trace prints the arguments.

## 5. Proofs

For any number of slots and harts and any arguments of kill, `ProcProofs` proves

- `TypeCorrect`: `Spec => []TypeOK`.
- `Exclusion`: `Spec => []Exclusive`.
- `SchedNeverPanics`: `Spec => []SchedPanics`.

`OneStack` is not inductive: that no second hart enters a stack follows from
who holds which lock where. The invariant `Ctl` says it:
`CpuInv` and `OneCpu` (c->proc is set outside the scan, and a process is the
c->proc of one hart), `RunInv` (the process a hart runs is RUNNING until sched, and
its lock is held by that hart from before sched until after the switch), `OffInv`
(a process on no hart is off its stack and not RUNNING), `LockInv` (who can hold a
slot's lock), `ForkInv` and `CopyInv` (a slot that fork builds is USED and has one
builder), `WaitInv` (who holds wait_lock) and `CtxInv` (a zombie is never switched
in). Most kernel steps disturb `Ctl` in the same way, so one lemma about a generic
step (`Move`) is proved once and each action is shown to be an instance of it; the
steps that take or pass p->lock are proved one by one.

For any number of harts, threads and locks, `SpinlockProofs` proves

- `HandlersCannotDeadlock`: `SpinSpec => []NoSelfDeadlock`.
- `InterruptsComeBack`: `SpinSpec => []NestingExact`.

They depend on each other: interrupts are off because noff is not zero, and they
come back because the outermost pop_off finds the `intena` of this thread. `SInv` adds types
(no handler interrupts code that holds a lock), where threads run (`RunInv`), who may spin
(`SpinInv`), that a thread around sched() owns its own lock or spins for it (`OwnInv`), that
on its way there it has one lock besides at most, and in sched() none (`OneInv`), that a
hart holds finitely many locks (`FinInv`), and that `intena`, or the local copy of a thread
that is switched out, is what its frame needs (`IntenaInv`, `SavedInv`).

For any number of harts and slots and each of the three builds, `SchedProofs` proves

- `OneHartEach`: `SchedSpec => []RunsOnOneHart`.
- `LocksExact`: `SchedSpec => []SchedLocksExact`.
- `ChoiceStands`: `SchedSpec => []PbsChoiceStands`, for priorities that are any integers.

`KInv` adds types, that a hart past its scan has a choice (`KMin`) and that the choice of a PBS
scan, whose lock is held, stays RUNNABLE (`KRunnable`). `RunsOnOneHart` is a
statement about all harts at once; `RunsSame`, `RunsMore` and `RunsLess` say when a step
keeps it, and each action is shown to be one of the three. For `ChoiceStands`, `KValue`
says of each scan that its choice is no worse than `hval`, and `KWalk` that update_time is in
the table: what changes a priority needs the lock of the slot, which the scan holds.

For any number of processes, pages and frames, `CowProofs` proves

- `CountsExact`: `Spec => []FramesExact`.
- `SharingUnobservable`: `Spec => PrivateMemory`.

`CInv` adds where pages are (`Layout`), that no page table maps a frame twice
(`Injective`), that kernel pages have one owner (`OneOwner`), and ties count, free list and
mappings of each frame together (`Counted`). fork and exec change many frames at once;
lemmas about a set of frames gained or given up carry `Counted` over. The refinement
follows because a frame that two page tables map is never stored to.

For any number of calls, blocks and values, any LOGSIZE of at least MAXOPBLOCKS and any
size of the log on the disk, `LogProofs` proves (with the invariant and its steps in
`LogStepProofs`)

- `LogIsSafe`: `Spec => []LogSafe`.
- `LogIsAtomic`: `Spec => AllOrNothing`.

`LInv` says what each phase of a commit, a crash and a recovery finds: no block is logged
twice (`Distinct`), memory after a crash is empty (`Down`), `outstanding` and
`committing` count (`Counts`), what calls have logged (`Calls`), one pin for each entry not yet
installed (`Pins`), the header is empty except while its blocks are installed (`Header`),
and which of cache, log block and home agree (`Contents`). Then each step is, for
`Durable`, a change, a commit, a crash or nothing: only `WriteHead` changes what a recovery
would produce.

For any number of processes and any PIPESIZE that divides the range of the counters,
`PipeProofs` proves

- `PipeIsSafe`: `[]PipeSafe`.
- `PipeIsQueue`: `PipeIsFifo`, both conjuncts.

`PInv` says who holds the lock (`LockHeld`), that calls have an end open (`Calls`) and when
ends are open (`EndsOpen`); that a sleeper waits for what it waits for, or the process that
has changed it is still under the lock and will wake it (`WritersWait`, `ReadersWait`);
that a test made before the sleep still holds at the sleep (`AboutToSleep`); and that a reader
has something to copy (`CopyHasData`).

For any intervals and programs, any number of processes and sleep arguments, and any lifetime
below the range of `ticks`, `TimerProofs` proves

- `AlarmIsSafe`: `AlarmSpec => []AlarmSafe`.
- `HandlersResume`: `AlarmSpec => ResumesWhereInterrupted`.
- `ClockIsSafe`: `TicksSpec => []ClockSafe`.

`AInv` adds that handlers nest only after one of them has called sigalarm, and that while
the alarm is off `alarm_trap` is the innermost interrupted context. `TInv` says of each
process how its times and its age relate before and after update_time has passed its slot
(`Accounted`), that the unsigned difference in sys_sleep is the number of ticks that passed
(`InSleep`), that no tick comes between the test and the sleep (`GoesToSleep`), and that
wakeup has been at a sleeper's slot or will come to it (`SleepsRightly`).

The assumptions are those the modules state: the sizes are positive (a machine has at
least 4 frames), the values that stand for "nobody" are not harts, locks or processes, a
hart is not a lock, pids are naturals, tickets are positive, the calls of the log are finitely
many and LOGSIZE admits one of them, the range of the pipe's counters is a
multiple of PIPESIZE and larger, and a process lives for less than the range of `ticks`.

Only model-checked: `ChildrenCollected` and `OnlyKilledIfAsked` of `Proc`; `Mlfq`,
`Files`, `FileData`, `Bio`, `Virtio`, `Uart`, `Console`, `Shell`, `Parse`, `Malloc`,
`RefCount`; and every liveness property. Liveness under fairness is out of the prover's
reach, as is what the recursive parser computes.

## 6. Not modelled

- Boot, assembly, the PLIC, the set-up of the kernel page table and of the devices:
  straight-line code that runs once; its effect, a switch, a trap or an interrupt, is a
  step of the other modules.
- System call dispatch and strace: a table look-up and a print in one process.
- printf and string helpers; ELF parsing; copyinstr; filestat. copyin and copyout appear
  by what they do to their caller: they fail, or fail half way.
- The shift register of random(): the draw of LBS is any number.
- mkfs, and user programs other than init, the shell and the allocator: the kernel is
  modelled for every sequence of calls within the bounds.
- MLFQ on several harts, and rows that are full: the queues have no lock, and nothing
  can be promised of them.
- The inode table and the file table when they are full of entries in use beyond the
  one open file of FilesRun.
