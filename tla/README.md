# Verification of the OS_2023 programs

The repository holds a semester of operating-systems programs: a thread pool, a
parallel Game of Life, a shell, a program that packs files into an inode image, a
linked-list tutorial, and two copies of the xv6 kernel: `xv6_work` with a lottery
scheduler and extra system calls, `xv6_new_7` with demand paging.  This directory
holds TLA+ specifications of the parts that keep state, the TLC configurations that
check them, and machine-checked proofs about thirteen of them.

Source paths below are relative to `src/`.  `PROJECT.json` maps every definition to
the lines it models.

## Contents

1. [The system](#the-system): the parts, their state, how they interact, what is hard
2. [Modules](#modules): which module models what, and how it corresponds to the code
3. [Runs](#runs): what each check shows, its bounds and why they are enough
4. [Fairness and deadlock](#fairness-and-deadlock)
5. [Proofs](#proofs)
6. [What the checks found](#what-the-checks-found)
7. [What is not modelled](#what-is-not-modelled)
8. [Plan](#plan)
9. [Running](#running)

## The system

### Thread pool (`pool/pool.cc`, `pool.h`)

State: a FIFO of `Task` pointers, two maps from a task's name to a status (0 or 1) and
to a condition variable, a stop flag, three mutexes (`queue_lock`, `map_lock`,
`stop_lock`) and the worker threads.  Operations: `SubmitTask`, `WaitForTask`, `Stop`,
and the loop `run_task` of each worker.  Tasks may themselves call `SubmitTask` and
`WaitForTask` (`pool-test.cc`), so workers are clients too.

Hard: a task is in the queue before its map entry exists; the map lock is taken inside
the queue lock; signals may come before the sleep or without need; idle workers spin on
two mutexes; `Stop` races with everything.  Correct when: tasks start in order, once, by
one worker; a wait returns only after its task has ended, and always returns; `Stop`
returns, lets running tasks finish and leaves nothing locked.

### Game of Life (`life/`)

State: two boards.  `simulate_life_serial` computes into a second board and swaps the
contents; `simulate_life_parallel` deals the cells out to threads that meet at one
barrier per step and each swap their own pointers.  `main.cc` runs both and compares.

Hard: one barrier instead of two, the remainder in the division of the cells, the parity
of the number of steps.  Correct when: no two threads touch a cell in conflict, every
cell is computed once per step, the result is Life's and both versions agree.

### xv6 processes and the lottery scheduler (`xv6_work/proc.c`, `sysproc.c`, `trap.c`)

State: the process table (state, pid, parent, channel, killed flag, tickets, kernel
stack), `c->proc` of each CPU, `nextpid`, and the clock with `tickslock`.  Operations:
`fork` (through `allocproc`), `exit`, `wait`, `kill`, `sleep`/`wakeup`, `yield`,
`settickets`, the clock interrupt, and each CPU's `scheduler`.

Hard: everything happens between any two releases of `ptable.lock` on any CPU; slots are
used again; fork can fail with a slot, a pid and a stack in hand; a wakeup must not fall
between a test and a sleep; children change parents.  Correct when: pids are unique, a
process runs on one CPU, parents live, stacks are neither lost nor missing, no wakeup is
lost, killed processes exit, and draws are won in proportion to tickets.

### xv6 file system: log, buffer cache, inodes (`log.c`, `bio.c`, `ide.c`, `fs.c`, `sysfile.c`)

The log makes groups of block writes atomic over crashes: `begin_op`, `log_write` and
`end_op` keep a list of blocks and counts of operations; `commit` writes copies, then a
header, then the home blocks, then an empty header; recovery repeats the second half.
The buffer cache keeps one copy of a block in one buffer with a reference count, a sleep
lock and a place in an LRU list; the disk driver keeps a queue of buffers of which the
interrupt serves the first.  The inode table keeps in-memory inodes with a reference
count, a sleep lock and a copy of the link count, beside the inodes on disk and the
directory that names them.

Hard: crashes between any two disk writes, also during recovery; an operation that goes
on while another is waiting for room; a buffer that is chosen before it is locked; a
request queued while the disk is busy; unlink, link, create and close of one file at a
time when nobody holds all the locks.  Correct when: a crash leaves the state between
two operations, finished operations stay, a read returns the last content, an inode that
is named or open is not freed and is freed afterwards, and the counts are true.

The file systems of the two kernels differ only in extra system calls.

### xv6 pipes, files and the console (`pipe.c`, `file.c`, `console.c`)

A pipe: a ring of 512 bytes with two counters that wrap at 2^32, a flag for each end, and
the reference counts of the two files.  The console: a ring of 128 characters with three
indices (read, committed, edited).  Hard: the last close of an end drops the count
and closes the pipe in two steps; readers and writers sleep on each other and can be
killed; processes share ends by fork; keys arrive while lines are being read, and a full
ring commits a line that has no end.  Correct when: a pipe is a stream of bytes, its page
lives exactly as long as it is used, the console is a line-edited terminal, and nobody
sleeps past what it waits for.

### xv6 spinlocks and the switch (`spinlock.c`, `proc.c`)

State: of a lock its bit and owner; of a processor the interrupt flag, the depth `ncli` of
`pushcli` and the flag `intena` it saved.  Hard: bit and owner are two writes; `intena`
belongs to the processor but is wanted by the thread, which may sleep on one processor and
go on on another; `ptable.lock` is taken by one thread and released by the next.  Correct
when: locks exclude, no interrupt comes where a lock is held, and each thread gets its
interrupts back.

### xv6 demand paging (`xv6_new_7/vm.c`, `kalloc.c`, `trap.c`, `exec.c`)

State: the free list of frames; for each process a size, a page directory, page tables
and entries.  `sbrk` only moves the size; the first touch of a page allocates it; `fork`
copies the pages the parent has, `exec` builds a new space beside the old one, `wait`
frees the space.  Hard: all CPUs share the free list, and fork, exec and faults can fail
after any number of allocations.  Correct when: every frame has one use, and each
process sees a private memory that keeps what was written to it.

### User memory allocator (`umalloc.c`)

State: a circular list of free blocks in the order of their addresses, kept in the memory
itself.  `free` finds the place from wherever the last search stopped and joins
neighbours, `malloc` cuts from the upper end, `morecore` extends the heap by `sbrk`, which
may fail.  Correct when: heap, free blocks and granted blocks divide the memory, and a
request fails only when there is no block for it.

### Directories and file contents (`fs.c`, `sysfile.c`, `mkfs.c`)

State: inodes of which some are directories, working directories, open files; block
numbers in inodes and indirect blocks, and a bitmap.  Hard: paths are walked without a
lock between elements, while others remove and make directories; working directories stay
in use after removal; a crash forgets who held a file that has no name; the same block is
named by bitmap, inode and indirect block.  Correct when: names are a tree with true link
counts, nothing allocated gets lost, every block has one use, and a file reads back as it
was written.

### Shell (`shell/main.cc`)

State: the line, its commands and pipes, the children and their statuses.  Hard: every
descriptor of every pipe must be closed in every process but the two that use it;
redirections and programs fail in the child; statuses come in any order.  Correct when:
programs get the descriptors of their place in the line, the shell waits for all of them,
prints what they returned and comes back.

### Inode image packer (`inodes/disk_image.c`)

State: an image of blocks, the table of used blocks the tool rebuilds by walking all
inodes.  Hard: four levels of indirection, in placing, walking and extracting.  Correct
when: inserting leaves the other files alone, and extracting gives back what was put in.

### The xv6 shell and grep (`sh.c`, `grep.c`)

State of the shell: a tree of commands, the processes that run its parts and their
descriptors.  Hard: lists, pipelines, blocks, background commands and redirections nest
in any order, every kind of node forks or waits in its own way, and three processes close
the ends of each pipe by hand.  Correct when: the commands a line means run, with its
files and pipes and in its order, a line with an error runs nothing, and the prompt comes
back.  State of grep: a buffer that holds the beginning of a line between two reads.
Hard: reads that end anywhere, and a matcher of three functions that call each other.
Correct when: the lines printed are those the pattern denotes.

### List tutorial (`C_Tutorial_#1/list.h`)

State: nodes linked both ways between two dummies.  Correct when: the walk meets what was
inserted and not removed, in order, both ways.

### The other parts

Of xv6 boot and devices, the system-call entry, the other user programs, kernel tests and
build tools.  See
[What is not modelled](#what-is-not-modelled).

### How the parts interact

    user programs --- system calls ---> ProcTable  (fork, exit, wait, kill, sleep)
      |   \                                |  sleep / wakeup, used by every part below
      |    `- malloc ---> UMalloc          |
      |                     | sbrk         v
      |---- page faults ----+------> Paging      (its fork, exec, exit, wait are the
      |                                           memory side of ProcTable's)
      |---- read, write, close ----> Pipe, Console
      |---- open, link, unlink ----> Directory   (walks and entries)
      |                                 |  iget, ilock, iput
      |                                 v
      |                              InodeCache  (each call is one log operation)
      `---- read, write -----------> FileContent |  begin_op, log_write, end_op
                                        `-----> FsLog      (pins buffers by B_DIRTY)
                                                 |  bread, bwrite, brelse
                                                 v
                                             BufferCache ---> disk queue and interrupt

    Spinlock is below all of them: every critical section of the kernel.
    UserShell and Grep are user programs of xv6, Shell is one of a host system with the
    same calls.

The modules of the kernel share no variables.  Each states the interface of the one below
it as an assumption that module checks: FsLog treats the cache as blocks that may be
dropped unless pinned, which is BufferCache's `NewestRead` together with the choice of
`Unused`; InodeCache treats the disk as one inode read or written at a time, and
FileContent and Directory a call as a transaction, which is FsLog's `LogIsAtomic`;
Directory counts references where InodeCache has the table that counts them; a critical
section is one step because of Spinlock's `SpinExclusive`; sleeping is one step with
giving up the lock, which is ProcTable's `NoLostWakeup`.

## Modules

Every system module has its state as VARIABLES, one action per handler or critical
section, and parameters as CONSTANTS with named ASSUMEs.  What the code does under a
lock it does not give up is one action; every place where another thread, process, CPU
or the disk can get in ends an action.  Operators marked `Mutant` are plausible
mistakes in the code that the runs must catch; no specification uses them.

| Code | Specification | Promise it implements | Instances | Proofs |
|------|---------------|-----------------------|-----------|--------|
| `pool/` | ThreadPool | TaskPool | MCThreadPool | HostProofs |
| `life/life-serial.cc` | LifeSerial | | | |
| `life/life-parallel.cc` | LifeParallel | Life (over LifeRules) | | LifeProofs |
| `life/main.cc` | LifeMain: LifeParallel and LifeSerial together | | MCLife | LifeProofs |
| `xv6_work/proc.c` ... | ProcTable | | MCProcTable, MCUserland | ProcTableProofs |
| `log.c` | FsLog | AtomicDisk | (itself) | FsLogProofs |
| `bio.c`, `ide.c`, `sleeplock.c` | BufferCache | | (itself) | DiskProofs |
| `pipe.c`, `file.c` | Pipe | ByteStream | MCStreams | StreamProofs |
| `console.c` | Console | Terminal | MCStreams | StreamProofs |
| `spinlock.c`, `proc.c` (switch) | Spinlock | | MCStreams | StreamProofs |
| `xv6_new_7/vm.c` ... | Paging | AddressSpace | MCMemory | MemoryProofs |
| `umalloc.c` | UMalloc | | MCMemory | MemoryProofs |
| `fs.c`, `sysfile.c` | InodeCache | | MCInodeCache, MCNames | NameProofs |
| | Directory | | MCNames | DiskProofs |
| `fs.c`, `mkfs.c` | FileContent | ByteFiles | MCFiles | NameProofs |
| `shell/main.cc` | Shell | | MCShell, MCFiles | HostProofs |
| `inodes/disk_image.c` | ImagePacker | | MCFiles | |
| `xv6_work/sh.c` | UserShell | | MCUserland | |
| `xv6_work/grep.c` | Grep | | MCUserland | |
| `C_Tutorial_#1/list.h` | LinkedList | | MCUserland | MemoryProofs |

MCStreams, MCMemory, MCNames, MCFiles and MCUserland put several specifications beside each other
that share no variable: a behaviour picks one `part` at its start and takes that part's
steps only.  Every property is about one part, so the run checks each part as it would
alone.

### ThreadPool and TaskPool

`task_queue`, `status` (the two maps have the same keys, so one function stands for
both; `Absent` is no entry), `stopCalled` and the owners of the three mutexes are the
fields of the class; `pc`, `cur` (`current_task`) and `arg` are the threads' locals.
Acquiring a mutex is one action, the critical section up to its release another, so
`Enqueue`, `InsertLock`, `Insert`, `SubmitReturn` are lines 100-110 of `pool.cc` in four
steps.  `CondWait` releases the lock and sleeps, as `pthread_cond_wait` does;
`SpuriousWakeup` is what POSIX allows it.  `Report` wakes at most one sleeper.
`MaySubmit`, `MayWait` and `MayStop` are the contract of `pool.h:41-49`: names are not
used twice at a time, a task is waited for once, `Stop` comes last.  A task that waits
does so for a task that does not wait itself; without such a rule the pool deadlocks when
every worker waits, and no text of the pool promises otherwise.

TaskPool has no threads, locks or maps: a queue, the running, ended and collected tasks.
The mapping reads `running` off `cur` and counts a task as ended when its worker has
reported it.

### LifeRules, Life, LifeSerial, LifeParallel, LifeMain

LifeRules has boards and the rule on a 3x3 window.  LifeSerial computes a cell per step
into `next_state`, whose border stays what it was, and swaps.  LifeParallel has one
program counter, cell counter, step counter and pointer (`src`) per thread; the barrier
is `pthread_barrier_wait`, whose last arrival lets all through.  `Join` is the end of
`simulate_life_parallel`, with the copy after an odd number of steps.  Life is one board
and one step.  LifeMain runs LifeSerial first and LifeParallel after it on a copy of the
same board, as `main` does, and compares.

### ProcTable

The fields of `struct proc` are functions on slots; `at` is where a process's kernel
thread is, `np` the slot its `fork` is filling, `until` the tick `sys_sleep` waits for.
`fork` is `AllocProc`, `AllocStack`, `CopyChild`, `Publish`, with `ForkFull` and
`ForkFails` for what can go wrong between them; `exit` is one action (it never gives up
`ptable.lock`): both wakeups, the adoption loop, `ZOMBIE`, and the switch.  One turn of
`wait`'s loop is `Reap`, `NoChild` or `WaitSleep`.  `sys_sleep` is `TakeTicks`,
`SleepOnTicks`, `Relock`, `SleepOver`; the clock interrupt is `TickBegin` and `TickEnd`,
because it holds `tickslock` while it takes `ptable.lock`.  `Schedule` is one lottery:
`Draws` includes the total, the loop subtracts tickets until the number is below 0, and
the draw that equals the total picks nobody.  A process preempted in the kernel resumes
where it was.  A process that spins for `tickslock` has interrupts off
(`InterruptsOff`).

### FsLog and AtomicDisk

`home`, `logBlock` and `header` are the disk; `cache` and `pinned` the buffers; `lh`,
`outstanding` and `committing` are `struct log`.  `BeginOp` either admits the operation
or puts it to sleep.  `LogWrite` is a change of a buffer with the `log_write` that
follows, absorption included; it panics when the log is full.  The last `EndOp` starts
the commit, whose disk writes are an action each (`CopyToLog`, `WriteHead`, `Install`,
`Erase`); `FinishCommit` is the last critical section of `end_op`.  `Crash` is possible
at every step and leaves only the disk; recovery is `ReadHead`, the same `Install` and
`Erase`, and `Recovered`.

AtomicDisk writes a volatile image and makes it durable in one step when no operation is
under way.  Its `durable` is what recovery would make of the disk now (`Durable`), so
the one step that commits is `WriteHead`.

### BufferCache

`block`, `refcnt`, `valid`, `dirty`, `data` are fields of `struct buf`; `holder` is the
sleep lock, `lru` the list, `idequeue` the driver's queue, `started` whether its head was
given to the disk.  `Bget` is the search and the recycling under `bcache.lock`;
`AcquireSleep`/`LockSleep` come after it.  `Iderw` queues, `Ideintr` transfers the head,
wakes its process and starts the next, `IderwReturn` is the test after the sleep.
`ReleaseSleep` and `Brelse` are the two halves of `brelse`; `MovedToFront` is the change of
the list.  `newest` is a history
variable.

### Pipe and ByteStream

`nread` and `nwrite` count modulo `WRAP`, `data` is the ring.  `FileClose` is
`fileclose` up to the release of `ftable.lock` and `PipeClose` what follows; `PipeWrite`
and `PipeRead` are what is done between the lock and its release or the sleep, a loop
over bytes at a time.  `result` is the outcome of the last step when it ends a read, so
that ByteStream can say which bytes were returned.  `cut` is a history variable: a killed
writer has put bytes and told nobody.

### Console and Terminal

`rd`, `wr`, `ed` are `input.r`, `.w`, `.e`, modulo a multiple of the ring's size as
unsigned counters are.  `ConsoleIntr` is what one key does: a character is stored if there
is room, and a line is committed by its end, by ^D or by a full ring, with the wakeup;
^U and ^H take back what is not committed.  `ConsoleRead` is `consoleread` from the lock
to the sleep or the return, including ^D put back for the next reader.  Terminal is a line
being edited and a queue of committed characters.

### Spinlock

One processor's `acquire` is `Pushcli`, `TestHolding`, `Xchg`, `Acquired`; its `release`
`Disown`, `Unlock`, `Popcli`.  `Interrupt` comes between any two instructions at which the
flag is on, and its handler takes locks as the kernel does.  `Leave` and `Resume` are
`sched` and `scheduler` around `swtch`: a thread that leaves saves `intena`, the scheduler
picks up `ptable.lock` with its own, and a thread's first run is `forkret`.  `Sti` is the
head of the scheduler's loop.  Panics set `broken`.  Locks are taken in the order of their
numbers (xv6's own convention); no thread takes one it holds.

### UMalloc

`hdr` is the memory's headers (`ptr`, `size` in headers), `freep` the list's entry, `brk`
the heap's end, `live` what was handed out.  `Malloc` with `FoundBefore`, `KeepWhole` and
`Cut` is the search, with `More` for `morecore` and its `free`; `Free` is `free` with both
joins (`JoinUpper`, `JoinLower`).  `Grab` is an `sbrk` by the program itself, which makes
the heap have gaps.

### InodeCache

`dir` is one directory (its own inode stays in the table), `type` and `nlink` the inodes
on disk, `cache` the table.  A call is as many actions as there are places where it may
sleep: `sys_open` is `Open`, `OpenLocked`, or `Create`, `Ialloc`, `CreateInit`,
`CreateEnter`, `Created`; `sys_unlink` is `Unlink`, `UnlinkClear`, `Unlinked`; `sys_link`
is `Link`, `LinkCount`, `LinkEnter` with `LinkNowhere`, `LinkTaken` and `LinkBad` for its
errors; `iput` is `PutKeeps` or `PutFrees` and `PutInvalidates`, then `PutDrops`.  Failing
to get a file or a descriptor is a branch of `OpenLocked` and `Created`.  The panics of a
full table and a full disk are actions; "ilock: no type" and "unlink: nlink < 1" are what
`AllocatedWhileUsed` excludes.

### Directory

`tree` is the inodes with their entries in slot order, as the calls in progress and the
buffers see them, `saved` what the log has committed; `cwd` and `open` are the references of
processes besides those of a walk.  `Walk` is one round of `namex`'s loop.  Each of
`CreateNew`, `CreateOld`, `OpenPath`, `UnlinkPath`, `LinkFirst`, `LinkSecond`,
`LinkUndo`, `Chdir` and `CloseFile` is what its call does under one inode's lock (two, when
it holds the parent's).  `Iput` frees what has no link and no other reference.  When no
call is in progress `saved` follows `tree`; `Crash` returns to it, at any time, and forgets
all references.  `lost` remembers the inodes the code loses: those made or linked in a
directory that was removed before, and those held without a name at a crash.  `SoundDisk`
says what disks the runs and the proofs start from: a tree with exact counts.  `Reachable` is
the least set that has the root and what its directories name, stated as the meet of all
such sets rather than by steps, so that it can be reasoned about.

### FileContent and ByteFiles

`MkFs` lays a disk out as `mkfs.c` does, files included, so the run starts from the disk
the build makes.  `Bmap` allocates, `Itrunc` frees, `Writei` and `Readi` go unit by unit
with their checks of offset and length (sums wrap at `Width`).  A call that runs out of
blocks panics, and the machine starts again from the disk, where the transaction was not
written.  `core` is what the inode table holds.  ByteFiles is a string of bytes per file.
The loops of `mkfs`, `writei` and `readi` are recursive functions on the units done so far.
`MkfsAssumption` says that `mkfs` has ended well: its `assert(fbn < MAXFILE)` held, the disk
was large enough, and the rounding of the root's size added no hole (see below).

### Shell

Each process has its descriptors `fd` (what they are open on, and close-on-exec), its
`job` (the line, the commands, the pipes, how many waits are left) and its place `at`.
`Words`, `Commands` and `Parsed` cut the line as `main.cc` does, badly formed lines too.
`ReadLine` reads, parses and makes the pipes; `Fork` is one round of the loop;  `Start` is
the child from `fork` to `execv`: `Setup` does the `dup2`s, closes and `FD_CLOEXEC`s of
its place, and if a file cannot be opened or the program not be started the child becomes
a second shell inside the same loop, as in the code.  `CloseAll`, `Wait` and `WaitFails`
end the line.  The kernel below the shell (`wait`, `pipe`, end of input when no write end
is open) is external.  `RoomAssumption` keeps to lines whose pipes fit in the descriptors
of a process, `2n + 1` for `n` commands: a `pipe` that fails, after which the code goes on
with zeros (`main.cc:139-144`), is in `Piped` but never happens.

### UserShell

`Tokens` cuts a line as `gettoken` does, and `ParseLine`, `ParsePipe`, `ParseBacks`,
`ParseExec`, `ParseBlock`, `ParseWords` and `ParseRedirs` are the functions of the parser
with a flag for a panic; the tree is a record per command.  A redirection that comes later
is outside of the earlier ones, so it is opened first and the earlier one counts.  Each
process has its `task` (the rest of the tree it runs, the waits it has left, its line),
its parent `boss` and its descriptors `seat`; `RunExec`, `RunRedir`, `RunList`, `RunPipe`,
`RunRight`, `RunBack` and `WaitReturns` are `runcmd` between two forks, waits or
programs, `GetCmd` a turn of `main`'s loop with the child's parse.  The kernel below is
external: `fork` fails when no process is free, `pipe` whenever it likes, `wait` collects
any child that has ended or fails without one, and a program that reads a pipe ends only
after the pipe's end.

The properties do not parse: `Input`, `Output`, `Starts`, `Follows` and `Detached` read
off the positions of a line's tokens and how deep in parentheses they are what each
command's files and neighbours are and when it may start, and `Grammatical` which lines
have no error.

### Grep

`MatchHere`, `MatchStar` and `Match` are the three functions.  `GrepRead` is one turn of
the loop for a read of any length that fits: whole lines are matched and printed, and the
rest is moved to the front unless no line has ended in the buffer (`m = 0`).  The
property's `Denotes` has no recursion over the text: the set of positions that each item
of the pattern leads to.

### LinkedList

`heap` is the nodes by address, and `malloc` gives any address that is free.
`ListRemoveHead` takes a node from `malloc` and forgets it, as the code does, and frees the
one it unlinks, so that addresses come back.

### ImagePacker

Each action is one run of the tool: `Create`, `Insert`, `Extract`.  `PlaceFile` allocates
blocks in the order the code does through `PlaceIndirect`, `PlaceDoubly`, `PlaceTriply`;
`Populate` and the `Walk` operators rebuild the table of used blocks; the `Extract`
operators write what they find.  Unused pointers of an inode hold what `malloc` left
(`Garbage`).  The property's `DataBlock` finds a chunk by arithmetic instead of by walking.

### Paging and AddressSpace

`vm[p]` is a page directory: its frame, the frame of each table, and for each page a
frame and the user bit.  `build` is the directory `copyuvm` or `exec` is filling.  A fork
is `ForkBegin` and a `ForkCopy` or `ForkSkip` per page, then `ForkDone`, or `ForkFails`,
or the panic; an exec is `ExecBegin`, `ExecPage`, `ExecCommit` or `ExecFails`.  A fault
is `FaultWalk`, which allocates the table, and `FaultMap` or `FaultFails`.  The walk's
null pointer and the failed `kalloc` are modelled by what they do: without a table, `*pte`
reads the process's own page 0; without a frame, `memset` clears page 0 and the entry made
points at physical 2^31, where there is no memory, so that freeing it panics.

Which frame `kalloc` returns is the constant operator `Pick`: frames on the free list hold
junk and are never compared, so the choice changes names only.

AddressSpace has no frames: each process has a memory; a page nobody wrote reads zero;
fork copies what is below the size; exec replaces everything; guard pages and pages never
grown over are not written.  `Starve` names the one thing the kernel cannot keep: a fault
without memory costs a process its page 0.

## Runs

All runs are exhaustive over the bounds given; every property of a passing run is
violated by at least one mutant of the code.

| Run | Property | What it says |
|-----|----------|--------------|
| pool | StatusSound | what a caller reads under a name is the state of the last task submitted under it; no entry is made or missed by accident |
| | WaitAfterRun, ImplementsTaskPool | order, one start, one end, waits after ends |
| | StopQuiesces | after `Stop`: no lock held, no task half done |
| | CallsReturn | every wait and every proper `Stop` comes to an end |
| life | CellsDivided, BoardsSound | each cell is one thread's; one barrier is enough (no two threads on a cell in conflict) |
| | ParallelImplementsLife, VersionsAgree, CallReturns | every interleaving computes Life, the versions agree on dead borders, the call returns |
| proc_table | ProcessesSound | pids, CPUs, parents and kernel stacks stay consistent through fork, failure, exit, reuse |
| | NoLostWakeup | nobody sleeps past an exited child, its kill, or its tick |
| | LotteryFair | a process wins as many draws as it has tickets |
| userland | KilledExits | a killed process exits, wherever it was |
| | UserShellSound, UserShellReturns | exactly the commands run that the line means, connected as typed and in order; the prompt comes back |
| | GrepFinds | the lines printed are those the pattern denotes, however the input comes |
| | ListIsQueue | the list is a queue, the same both ways |
| log | LogIsAtomic, LogSound | a crash leaves a state between operations; what ended is durable; a block that differs from the disk stays pinned and listed |
| | SleepersRetry | `begin_op` is woken |
| buffers | BuffersSound, BreadReturns | one copy, the last content, and every read returns |
| streams | PipeSound, PipeIsStream | a pipe's page lives as long as it is used, no lost wakeup (but the one below), a FIFO of bytes |
| | ConsoleIsTerminal, ConsoleWakesReaders | lines are edited, committed and read once; nobody sleeps beside input |
| | SpinExclusive, SpinFlagSound | locks exclude; interrupts off under locks, back on for the thread; no panic of the lock code |
| memory | FramesUsedOnce, MemoryKept | no frame is lost, shared or freed twice; memory is private and kept |
| | HeapSound | heap, free blocks and granted blocks divide the memory; requests fail only for want of room |
| names | TableSound | what is named or open is not freed; link and reference counts; the table agrees with the disk |
| | TreeSound, DirNothingLost | names are a tree with true counts; an allocated inode has a name or a holder |
| files | ShellSound, ShellReturns | programs get their descriptors; the prompt leaves no child and no descriptor behind and prints every status; a line comes to its end |
| | FsBlocksOnce, FsImplementsFiles | every block has one use; a file is its bytes |
| | PackerTrue | an insert leaves files alone; extraction gives them back and lists only unused blocks |
| inode_leak | FreedWhenUnused | violated: see findings |
| shell_hang | ShellNeverHangs | violated: see findings |

### Bounds

- **pool**: two workers and two clients are enough for two threads at each lock at once,
  a worker inside a task that calls the pool while the other runs, and a `Stop` against
  both.  Of three tasks two share a name, so a name is used again after it was collected;
  one may submit and one may wait.  Each task is submitted once, so the state is finite.
- **life**: 4x4 boards, every one with a dead border and one with live cells on it; three
  threads share 16 cells as 6, 5, 5, so there is a remainder and ranges that end in the
  middle of a row; 0 to 3 steps give both parities and a step in which a fast thread is
  ahead of a slow one on both boards.
- **proc_table**: three slots (init, and two that are freed and used again), two CPUs,
  two pids beyond init's, after which fork fails as it does with a full table; one tick;
  kill names one of the children; 0 or 1 tickets.  Two processes can be in the same
  system call on two CPUs, and a grandchild can be orphaned.  CPUs are symmetric.
- **userland**: the process table with one CPU, 1 ticket each, pid 2 killed at any time,
  in any state, without `sleep`.  Twenty lines for the shell: each kind of command in each
  other, pipelines and lists in blocks and blocks in them, every error of the parser, a
  word too many, missing programs and files; a second line while a background command may
  still run; five processes, as many as the longest of these lines uses at a time, so that
  on the second line `fork` may fail in the middle of a pipeline.  Eleven patterns with
  every operator alone, beside the others and as a plain letter, five inputs in all
  divisions into reads of up to three characters.  A list at five addresses with three
  insertions, so that freed nodes are used again.
- **log**: two operations of up to two blocks among three: they overlap in one block at
  least, fill the log's room when both are open (`MAXOPBLOCKS` 2, `LOGSIZE` 4), and a
  process that ends its operation and begins another beside an open one must wait.  `NLOG` is 4, so the disk has room for three blocks besides the
  header, all there are.  Two contents per block tell old from new.
  Crashes are not bounded.
- **buffers**: three blocks for two buffers, so that a buffer is recycled under another
  process's eyes, and both can be pinned; two processes on the same or different blocks.
- **streams**: a pipe with a ring of 2 and counters modulo 4, so that both wrap; a message
  longer than the ring and a short one; reads that ask for less and more than there is;
  three processes, two of them killed at a time; processes are symmetric.  A console with
  a ring of 3 and indices modulo 6, seven keys of one letter and all the special ones, two
  readers: the ring wraps and fills, and a ^D is put back.  Two processors, two threads,
  `ptable.lock` and another lock: a thread moves to the other processor, and locks nest.
- **memory**: three pages in two tables, so a table can be missing; 13 frames, one less
  than two full processes need, so every allocation can fail with something already
  taken; `sbrk` by -1 and 2; two forks or execs.  `MCPick` gives each use of a frame two
  favourites.  A heap of ten units that grows by three: requests of one, three and five
  units, cuts, exact fits, joins on both sides, gaps and refusals.
- **names**: two names, three inodes and two table entries, so a table entry is recycled
  and the table can be full.  The race of two calls about one file needs a third process
  that opens or creates meanwhile: three processes work when one inode is taken outside
  the directory (`crowd`), two of the three at a time when all are free (`pair`).
  Processes and names are symmetric.  The tree has three inodes, two processes, four calls out
  of twelve and one crash, from an empty disk and from one with /a/b: enough for a walk
  into a directory that is removed meanwhile, for an inode used again, and for a crash in
  every state.
- **files**: lines of one to three commands with every kind of failure; two of them one
  after the other, and five processes, so that a stray and the shell both have children.
  A disk of twelve blocks with one direct and one indirect block per file, so that a
  call can run out of blocks; offsets before, at and after block borders and at the wrap of `Width`.
  An image of 28 blocks with two direct blocks and two pointers per block, so that a file
  of eleven chunks needs all four levels.
- **inode_leak** and **shell_hang** use the same bounds with two inodes, and with one line.

## Fairness and deadlock

- **pool**: strong fairness of each thread's step.  The mutexes are pthread's and give no
  order, and idle workers release and take them for ever: a thread is enabled again and
  again but never for good.  Strong fairness says that the operating system runs every
  thread and that a thread that keeps asking for a mutex that is free again and again
  gets it.  Clients need not call anything; a task's `Run()` is assumed to return.
- **life**: weak fairness of each thread and of the main thread: all steps stay enabled
  until taken.
- **userland**: strong fairness of winning a lottery, of being preempted and of each
  process's kernel steps, weak fairness of the clock's second half.  A lottery is held
  for ever and the draw is uniform, so a process that has tickets and is runnable again
  and again wins with probability 1; the clock interrupts every process that runs
  (`trap.c:103-105`).  User code is not assumed to do anything.  For UserShell weak
  fairness of each process: the scheduler runs it, and a program ends, one that reads a pipe
  when it has seen the pipe's end.  Nobody need type anything.
- **log**: weak fairness of recovery, of commit, of each operation's end, and of the
  retry of a process that was woken in `begin_op`.  A system call in an operation does a
  bounded number of writes and no waiting for another operation.  New operations need not
  begin.
- **buffers**: weak fairness of the interrupt and of a process's steps that stay
  enabled; strong fairness of taking a sleep lock that is free again and again and of
  releasing it, since a holder may read and write in between.

- **files**: weak fairness of each process of the shell: it runs, and a program that
  has all its input ends.  A filter waits for the end of its input, and nothing is assumed
  about when that comes.  shell_hang assumes the same.

Deadlock checking is off where the system may stop by itself: the pool after `Stop`,
Life after the join, the process table after "init exiting" and with all tickets at 0,
paging and the buffer cache after a panic, malloc's heap at its end, the pipe when the
last process was killed, the console after its last key, the shells after their last
line, grep at its end.
It is also off for the log, where a crash is possible at every step, so that a deadlock
check would say nothing; its progress is in SleepersRetry instead.  In names it is on: a
panicked machine stutters explicitly (`Halted`) and the tree may rest at its bounds
(`Rests`), so a deadlock would be a circle of inode locks.

## Proofs

TLAPS checks thirty-eight theorems for every value of the constants that satisfies the named
assumptions, from nothing else.

**HostProofs** has the theorems about the two programs with threads and processes of the
host system, the thread pool and the shell.

The thread pool (any numbers of workers, clients, tasks, names; `ThreadsAssumption`,
`TasksAssumption`).  `TypeCorrect` rests on `TInv`, the types with `LocalsOK`: a worker
has a task exactly from the pop to the report, a thread has an argument exactly inside a
call.  `StatusCorrect` (StatusSound) and `WaitCorrect` rest on `PoolInv`.  StatusTellsTruth alone is not
inductive: that an entry is there when the report comes needs `LocksOK` (who is in which
critical section owns which mutex: a pushed task's submitter still holds `queue_lock`,
so it cannot be popped before `Insert`); that a status belongs to the task asked about
needs `TasksOK` (a task is with one thread, in the queue once, or reported, never in two
of these places), `CallsOK` (who submits and waits for what) and `NamesOK` (outstanding
tasks have different names).  `StopCorrect` (StopQuiesces) and `PoolRefined`
(ImplementsTaskPool) add `PlacedInv`: `OwnersOK` (who owns a mutex is in its critical
section), `AloneOK` (while one client is in Stop the others are idle, and the mutexes are
destroyed after every worker has left its loop) and `KeptOK` (a task that was submitted and
has not ended is on its way into the queue, in it, or with a worker).  A step of the pool is then one of TaskPool's: the
push is Submit, the pop Start, the report End and the end of a wait Collect, and every
other step leaves the four sets alone.  That there is room to start one more task
(`RoomToRun`) is counted: the worker that pops is not among those that run, so `Workers`
has to be finite.

The shell (any lines, programs, files, ways to end, descriptors and process slots;
`ShellAssumption`, `RoomAssumption`): `ShellIsSound` is ShellSound, from the invariant
`ShellInv`, which TLC has also checked.  ShellSound speaks of programs that run and of the prompt; what is between
is in four parts.  `ShellTypes` has the records.  `ShellLine` says that the shell and its
children are a `Family`: there is one table `T` with the terminal and the two ends of each
pipe (`Piping`), the shell has it until it closes the pipes, a child has it after the fork,
and a program has what `Prepared` says, its own two files and the terminal.  It also has
`Counted`: while the shell forks it has at most as many children as commands it has passed, and
while it waits at most as many as waits are left, so that none is left at the prompt,
whatever was skipped.  `Outcomes` and `Said` split the children in those it still has and
the `Settled`: each exit status is printed at least as often as settled children ended so,
and a status that is printed, or will be printed again by a wait that fails, is one of
theirs.  Strays are other shells with their own children and do not matter to it.

Four lemmas carry the rest.  `CommandsMatch` is the parser: for a well-formed line what
`Parsed` collects word by word is the grammar over positions that ShellWiring uses
(`Segment`, `Files`, `Plain`).  `MakePipesIs` says which descriptors the pipes get, in
order from 3, which is what lets the code find an end by its index.  `SetupFits` and
`RedirectedFits` say what `dup2`, `FD_CLOEXEC`, the redirections and `exec` leave of `T`.

**LifeProofs** (any board size, number of threads and of steps; `SizeAssumption`,
`ThreadsAssumption`, `StartsAssumption`).  `DivisionCorrect` is CellsDivided: `Ordered` shows that later
ranges start after earlier ones end, `Covered` that every cell is in a range, both from
`Division` (quotient and remainder); `InRange`, which says that each thread's counter is
in or just past its range, is inductive and gives CellsDivided through them.
`BoardsCorrect` (BoardsSound) and `LifeRefined` (ParallelImplementsLife) rest on `LifeInv`,
which adds `Rounds` (a thread is in the round of the barrier that is open or has one swap
to make; nobody is a round ahead, since a round ends when all have come) and `Written` (the
board that is not read holds, in the cells computed so far, the next generation of the one
that is).  With these the last thread to come completes a whole generation, and the
barrier's opening is Life's step.
`VersionsCorrect` (VersionsAgree) adds `AgreeInv` over both runs: there is one sequence of
boards `g`, each the next generation of the one before (`Generations`), in which the
parallel run stands at `g[released]` and, if the border of `g[0]` is dead, the serial run
at `g[step]` with its second board filled up to `at` (`SerialFollows`).  No generation
changes a border, so a dead one in the result was dead in the input; the serial version
starts from a cleared second board, and only with a dead border do its two boards agree
there.

**ProcTableProofs** (any table size, CPUs, pids and arguments; `NprocAssumption`,
`PidAssumption`, `ChoicesAssumption`).  `IInv` is one inductive invariant with a lemma
per conjunct.  `ForkersOwn` (who is inside fork fills an EMBRYO of its own and is not
asleep) is what keeps a half-made child from being reaped, scheduled or given twice.
`PidsUnique` needs `PidsGiven` (live pids are below `nextpid`).  `ParentLives` needs
`Parents`: free and half-made slots have no parent, nobody is its own, init never dies
(with `exit` as one action no child is left behind).  `StacksAccounted` needs where
`fork` is.  `NoSleepPastTick` needs `Sleepers`, which is stronger while another process
has `tickslock`: only the timer changes `ticks`, and between its two halves the sleepers
may be late.  `ProcessesCorrect` and `WakeupsCorrect` put the conjuncts together
into what the run checks.  The slots are chosen with `Min`, so `MinIsMember` (a set of naturals that is not
empty contains its minimum) is proved from the well-foundedness of the naturals.  The
same lemma gives induction over slots, for `LotteryCorrect` (LotteryFair): the sums that
the scheduler's loops make exist, are naturals and never fall (`SumExists`, `SumGrows`), so
the draws of a process are the interval between the sums before and after its slot
(`DrawsAreTickets`), which has as many elements as it has tickets.

**StreamProofs** has the theorems about the three specifications of MCStreams.

Pipe (any finite set of processes, any ring, messages and reads; `SizeAssumption`):
`PipeCorrect` is PipeSound.  Its inductive invariant `PInv` is
`Counted` (a file's `ref` is the number of processes that have it), `Placed` (who reads
or writes has the end open; an end is closed for good by one process, after its count is
0) and `Opened` (a flag of the pipe is set until that process has cleared it), with
`Types` and NoSleepPastBytes.  `Placed` is what keeps two last closers, or a closer and a
new pipe on the same page, apart.  The counters are handled by `Advance`: a difference
taken modulo WRAP grows and shrinks by what is put and taken, whatever wraps in between,
so `Full` and `Empty` are what the comparisons of `pipe.c` take them for.
`PipeRefined` (PipeIsStream) reads the stream off the ring as a `Window` of slots that
begins at `nread`; `WriteAppends` and `ReadTakes` show what putting and taking do to the
sequence, and `SlotAfterWrap` that a counter names the same slot after it
wrapped, which is where `WRAP % PIPESIZE = 0` is needed.

Console (any ring, keys and readers; `ConsoleAssumption`, which says that the editing keys
are different and that the ring's size divides Wrap): `ConsoleRefined` (ConsoleIsTerminal)
rests on `ConsoleInv`: `Indices` (the three indices are in order and at most a ring apart)
and `Unbroken` (no newline in the line that is still edited, so that killing the line stops
where the commit was).  The committed queue and the edited line are again windows, one from
`rd` to `wr` and one from `wr` to `ed`.  `ConsoleWakes` (ConsoleWakesReaders) is the last
conjunct of `ConsoleInv`.

Spinlock (any processors, threads and locks; `SpinAssumption`): `MutualExclusion` rests on `LockInv`: a lock's bit is set exactly while one processor
holds it; `OwnerOK` says when the owner is missing nevertheless (between the exchange and
the second write, and between the two writes of `release`); `WantOK` that a processor is
taking a lock it has not got.  `FlagCorrect` rests on `FlagInv` over it:
`CountOK` (`ncli` is the number of locks held and the one being taken or just given back),
`FlagOK` (interrupts are on only with a count of 0 and outside handlers, and a thread in
its own code has them on or will get them back from `intena`), and `ParkedOK` (the
`intena` that a thread saved when it was switched away from is the one it needs).
`NextUnbroken` shows that each panic's condition is false; the check "sched locks" is where
`CountOK` is needed, since a thread leaves with one lock and a count of 1.

**FsLogProofs** (any blocks and data, any finite set of processes, any sizes of the log;
`SizesAssumption`).  `LogCorrect` (LogSound) and `LogRefined` (LogIsAtomic) rest on `LInv`:
`Seats` (operations are under way only while nobody commits, one process commits, and
nobody is in the file system while the machine boots), `Headers` (in which phases the
header on disk is empty and in which it is the list in memory), `Contents` (what each phase
of commit and recovery has copied and installed so far, and that outside of them exactly
the listed blocks are pinned and differ from the disk) and `Drained` (nothing is listed
when the last operation has been committed).  `DurableKept` shows that no step but the
header write moves what a crash would leave, `CommitPoint` that the header write makes it
what the buffers have; the step of the refinement follows by cases.

**DiskProofs** has the theorems about the blocks of the disk and the tree of names in them.

The buffer cache (any blocks and data, any finite sets of buffers and processes;
`NoneAssumption`, `FiniteAssumption`): `BuffersCorrect` is BuffersSound.  Its invariant
`BInv` says that a buffer's reference count is the number of processes that have it
(`Counted`) and that they asked for its block (`Asked`), so that a buffer in use is never
chosen for another; that a block is in one buffer (`Unique`); that one process is between
`acquiresleep` and `releasesleep` (`Held`); that the driver's queue holds, once each, the
buffers whose holders wait for the disk (`Queued`); and where the newest content of a block
is (`Contents`): in the buffer that has it, or on the disk.

Directories (any finite sets of users and of inode numbers, any calls, any disks to start
from on which no inode was lost before; `DirectoryAssumption`, `DisksAssumption`, which
mkfs's disk meets by `EmptyDiskSound`): `TreeCorrect` is TreeSound and `NothingLost`
DirNothingLost.  Neither is inductive: both speak of what the root reaches, and a step that
cuts or adds an entry must be seen not to change what hangs elsewhere.  Their
invariant, `TreeInv`, therefore speaks of every inode, reached or not, and holds of the tree
the calls see and of the one the log has committed (`TabSound` of each): `TreeShape` says
what entries a directory may have; `CountsLinks` that no count is below the names, the
".."s and the half-made links, and is exactly that for what is not lost; `HidesLost`
that what is named in a directory that cannot be reached is lost, and with a lost
sub-directory its directory; `KeepsHeld` that an inode without a link is free, held or
lost.  `UserOK` says what a process that is inside a call holds, in particular that a
directory it has walked to stays allocated, though perhaps removed.  Each action is put
together from a few changes of the table: an entry added or cut, an inode made, a count
raised or lowered, a reference given up.  Each change has a lemma that says what it does
to `TabSound`, and `ReachFrom` is the induction they share: what is reached is the root or is
named in something reached.  What makes unlink safe is that a directory without entries
has nothing hanging from it, so that cutting its name changes what is reached by that
directory alone, and that only the last reference frees.

**MemoryProofs** (any finite set of at least four frames, any processes, any size of the
address space and of a table, any choice `Pick` of the frame that kalloc hands out;
`PagingAssumption`).  Fewer than four frames would have the first process panic in
`userinit` (`proc.c:130`).  `FramesCorrect` (FramesUsedOnce) rests on `MemInv`: `Spaced`
(within a space no frame is named twice, and a mapped page has its table), `Shared` (the
free list and the frames of every space, of every space under construction and of every
kernel stack are a partition, `Split`), `Steady` (what a process has by its state: a space
under construction only inside fork and exec, nothing mapped from the page they are at
on, a stack as long as the slot is used) and `Embryos` (a fork has its child to itself, so
that ForkDone overwrites nobody's space and ForkFails frees nobody's stack).  The lemmas
`SplitTaken`, `SplitGiven` and `SplitMoved` are the only ways in which the partition
changes.  That the number of holders is the number of frames in use follows because naming
a frame is an injection from one to the other (`HeldOnce`, `MemInvFrames`).
`MemoryRefined` (MemoryKept) adds `KeptInv`: `Reached` (a live process has its page 0, and
nothing mapped at or beyond its largest size), `Copying` and `Loading` (how far fork's copy
agrees with its parent, and exec's with the program), and `Faulting`: a fault without
a page table goes on only when the first word of page 0 is zero, which is why a fault that
then gets no frame and clears page 0 at worst (FaultFails) changes nothing that the process
sees.  A process that a step does not concern sees no change because no frame of its spaces
is written (`Bystander`, `OthersUntouched`); the step of the process itself is one of
AddressSpace's or a stutter, one lemma per action (`WriteSeen` ... `ExecCommitSeen`).

The list of the tutorial (any addresses, data and insertions; `ListAssumption`):
`ListCorrect` is ListIsQueue.  Its invariant `ListInv` says that some sequence of different
addresses leads from the head to the tail along `next` and back along `pred` (`Chain`);
an insertion puts the new node before its last, a removal drops its second.  That the walks
`Ahead` and `Back` go along it is an induction over the positions (`Follows`).

The allocator of user programs (a heap, a header, a least chunk and requests of any size;
`MallocAssumption`): `HeapCorrect` is HeapSound.  Its invariant `HeapInv` says that some
set of blocks divides exactly what `morecore` got (`Heap`) and that those of them that the
program does not have are, with `base`, a ring in the order of addresses (`Ring`) in which
no block touches the next (`Unjoined`).  A walk from any block meets every block before it
is back (`MetOnce`), so the two searches find what they look for wherever `freep` points
(`BeforeIs`, `FoundIs`).  `free` is an insertion and up to two joins: each takes one block
from the list of those that may still touch their neighbour (`MergeKeeps`, `FreedKeeps`);
`malloc` takes a block out or its end off (`CutKeeps`).  After `morecore` the search cannot
fail, because the new block is large enough, joined or not.

**NameProofs** (any finite sets of processes and names, any inodes and table entries;
`InodeAssumption`).  `TableCorrect` is TableSound.  Its invariant `TableInv` says what a
process has by where it is (`Placed`, `DirLocked`, `Locked`); that an entry's count is the
number of references (`Referred`) and an inode's link count that of its names and of the
calls that are ahead of or behind their name (`Linked`); that a valid entry says what the
disk says (`Agrees`); that what somebody works on, has open or has a name is allocated
(`Used`, `NamesUsed`); and that an inode between `ialloc` and its first link is met by
nobody who will still look at it (`New`), because others can have its entry only on their
way to give it up.  `Agrees` has to allow for `iput` between `type = 0` and `valid = 0`, while another process
may allocate the same inode: it then gets the old entry, whose link count is 0 already.
Each step is one of three kinds: it gets an entry (`IgetStep`), rewrites the one it works on
(`RewriteStep`) or gives it up (`PutDropsKeeps`); `OthersKeep` shows once what all of them
leave the other processes, and `RefsMoved`, `LinksMoved` and `LinksNamed` how the counts
follow.  `PutFreesKeeps` is the heart: a valid entry with one reference and no link belongs
to an inode that has neither a name nor another user.

The contents of files (any number of packed files, any contents, any sizes of a block, of an
inode and of the disk, any calls; `ContentAssumption`, `MkfsAssumption`): `ContentCorrect` is
FsBlocksOnce and `FilesRefined` FsImplementsFiles, from one invariant, `ContentSound`.  It
says that numbers name used data blocks and every used block after the metadata has a name
(`BlocksListed`), that no block has two (`BlocksSingle`), that each unit of a file is where
its number leads (`UnitStored`), and that the table holds what the disk has.  `UnitStored`
also says that a block that a file has but has not filled holds zeros, which is what the
padding of the root reads as.  `balloc` gives the first free block by `FirstOf`; a number set in an
inode (`AddressTaken`) or in an indirect block (`EntryTaken`) keeps all of this, since the
block was free and is zero (`BlockTaken`), and so does a unit put where its offset says,
because different offsets are at different places (`OffsetsApart`, `UnitPut`).  `BmapIs`
puts together what bmap does in its cases; the loops follow by induction over the units
done (`PutLoop`, `GetLoop`, `AppendedIs`), for which the recursive functions must be shown
to exist first (`PutPathExists`, ...).  A write inside a file finds its blocks there, so
that the inode that `writei` does not write back has not changed (`WriteiIs`); a read
allocates nothing, so it cannot panic (`ReadiIs`); `ItruncIs` frees what one file names and
no more.  `MadeIs` is mkfs's loop over its files, and `InitSound` the rounding of the root:
its last block is there already, because its entries do not fill blocks.

Only model-checked: all liveness (fairness and ENABLED are outside the prover);
UserShellSound and GrepFinds, whose modules use RECURSIVE operators; and PackerTrue, whose
module is built from folds of folds over block tables and has no proof yet.

## What the checks found

Two runs end in a counterexample to what a comment or document of the code says.

- **iput** (`inode_leak`; `xv6_work/fs.c:327-351`): "If that was the last reference and
  the inode has no links to it, free the inode".  `iput` decides under the sleep lock and
  drops its reference in a later critical section.  A process that saw a link left can be
  overtaken by an `unlink`, which sees two references and leaves the freeing to it:
  neither frees the inode.
- **a command that cannot be started** (`shell_hang`; `shell/main.cc:223-242`): "exit with
  exit status 255" and "Make sure the code does not hang" (`instructions_summary.txt:22,
  51`).  The child goes on as a second shell in the middle of the loop with every pipe end
  open.  In `a | bad | c` it forks a `c` of its own, and each `c` waits for the end of a
  pipe that the other processes keep open.  ShellReturns shows that without such a stray
  every line comes to its end.

Seen while modelling, without a run of their own:

- `kill(0)` succeeds (`xv6_work/proc.c:549-563`): `kill` does not look at the state of a
  slot, unused slots have pid 0, and `allocproc` does not clear `killed`, so the next
  process forked into the first unused slot dies at its first trap.  "Kill the process with
  the given pid" says otherwise.  The module models it (`Kill` ranges over `KillPids`).
- `fork` after `sbrk` (`xv6_new_7/vm.c:316-331`): pages the parent has not touched should be
  skipped ("just skip it for now child will A.O.D"), but when no page of a whole page table
  (4 MB) was touched, `walkpgdir` finds no table and `copyuvm` panics.  Paging's
  `ForkPanic` is that step, and the memory run takes it.
- The serial Life zeroes the border of its second board and then swaps boards, so a live
  border comes and goes with the parity of the steps; the comment (`life-serial.cc:7`)
  says the edges are fixed to 0, and the parallel version keeps them as they were.
  `main.cc` would report a disagreement on such a board.  VersionsAgree is stated for dead
  borders.
- The lottery's comment (`proc.c:403`) says "0 or less"; the code picks below 0
  (`proc.c:409`), which is what makes LotteryFair true, since `random_at_most` includes
  its argument.  The draw that equals the total picks nobody, and the lottery is repeated.
- `mkfs.c:25` gives the log `LOGSIZE` blocks, its header included, while `begin_op`
  admits operations for `LOGSIZE` blocks of data: three full operations panic in
  `log_write` ("too big a transaction") although `begin_op` let them in.
- A writer to a pipe that is killed after filling it returns without the wakeup
  (`pipe.c:86-89`): a reader asleep on it sleeps past bytes until the next write or the
  last close.  NoSleepPastBytes names this case with `cut`.
- A page fault with no memory left goes on with a null pointer (`trap.c:111-117`).
- `settickets` takes any number; a process with 0 tickets does not run while others have
  some.
- `bget` panics with "no buffers" when all are dirty and uncommitted (`bio.c:92`): `LOGSIZE`
  and `NBUF` are both 30.  BufferCache reaches that panic.
- `mkfs` leaves a hole in the root directory when its entries fill blocks exactly
  (`mkfs.c:161`): the size is rounded up past the last block, and the first `readi` there
  allocates a block outside a transaction, and the inode in memory alone names it.  This
  takes 30 files (32 entries of 16 bytes fill a block), and neither Makefile has as many.
  The proof of FsBlocksOnce shows where it would fail: `MkfsAssumption` excludes it.
- A file or directory created or linked in a directory that was removed meanwhile is lost
  (`sysfile.c:260`), and such a directory's ".." may name an inode that was freed or is used
  for something else.  Directory's `lost` names the inodes; a crash while an unlinked file
  is open loses that one as well (`fs.c:334`).
- `malloc` of nearly 2^32 bytes wraps in its first line (`umalloc.c:69`).
- The shell: a blank line aborts it (a vector of size -2); a command without a word, as in
  `> g`, has a null name, and printing it spoils `cout`; statuses are printed under
  names in line order though they are collected in the order the children end; malformed
  redirections still run their command; a `pipe()` that fails leaves its two descriptors 0.
- The xv6 shell: of two redirections of one descriptor the first on the line counts, since
  the last is opened first (`sh.c:386-392`); `>>` writes from the beginning, and `>` does
  not cut an old file, since `open` has neither mode; a pipeline whose second `fork` fails
  leaves its left command running without a parent (`sh.c:111`).
- `grep` drops what it has read of a line when no line has ended in its buffer yet
  (`grep.c:29-30`: `m = 0`), so a line that comes in two reads may be matched by its end
  only; a last line without a newline is never printed.  GrepFinds names the first case
  with `cuts`.
- `list_remove_head` allocates a node that it never uses (`list.h:90-91`).
- The packer: what follows a file whose last block is partly filled is more of whatever the
  zero pointers name; `-create` begins with an empty image whatever was there; only the
  first quarter of a block decides whether it is empty, so inodes further back are not
  found; an inode's unused pointers are what `malloc` left.

## What is not modelled

- **Kernel tests and the other user programs** (`usertests.c` in both kernels,
  `pagingtestlib.h`, `lotterytest*.c`, the smaller commands): clients of the system calls, a third of all lines.
  They were read as statements of what the kernel should do.
- **The second copy of each kernel file**: `xv6_work` and `xv6_new_7` have the same file
  system, pipes, console, spinlocks and allocator but for a few system calls; each part is
  modelled from one copy.
- **Boot, traps, devices**: hardware access.  The clock, the keyboard and the disk's
  interrupt are actions of ProcTable, Console, Spinlock and BufferCache.
- **System-call entry and counters** (`writecount`, `shutdown`, the argument checks),
  **build tools** other than mkfs: straight-line code or build-time programs.
- Left out inside modelled parts: in ProcTable files and page tables (Pipe and Paging
  have them) and `times_scheduled`; in BufferCache more than one buffer per process and
  the second disk; in InodeCache and FileContent devices; in Directory the characters of
  names; in Console the echo; in Paging sizes that are not whole pages, faults from kernel
  mode (which take the same path), addresses above `KERNBASE`, and the calls that only
  print tables; in FsLog an operation that waits for a buffer; in Shell and UserShell what
  programs write, and where `cd` leads; in Grep more than one file; in ImagePacker the host's files and argument checks; in Life's driver the command
  line, the board's text format and the cycle counts.
- `xv6_new_7/proc.c` differs from `xv6_work/proc.c` by the lottery and its system calls;
  ProcTable models the latter.

Together the mapped lines are a small share of all lines, because tests, user programs and
the second kernel tree are most of them; of the code that keeps state, little is left.

## Plan

Done, in this order: ThreadPool with its abstract pool, proofs of its types, statuses and
waits; the Life modules; ProcTable and its proofs; FsLog; BufferCache; Pipe; Paging;
InodeCache; Spinlock and its proofs; Console; UMalloc; Directory; FileContent; Shell;
ImagePacker; UserShell; Grep; LinkedList.

Next, modelling: an operation of FsLog that waits for a buffer of BufferCache, and the
system calls of `sysfile.c` that run out of files or descriptors.

Next, proofs, in order of what they would add:

1. ImagePacker: PackerTrue, with its folds written as recursive functions.
2. UserShell: UserShellSound, with its parser written as recursive functions.

## Running

    tlc -workers 2 -config MCThreadPool.cfg MCThreadPool.tla
    tlapm ProcTableProofs.tla

A configuration has the name of its module; `MCInodeLeak.cfg` is for MCInodeCache and
`MCShellHang.cfg` for MCShell, and BufferCache needs no module of its own for its model
values.  The longest run takes between two and three minutes.
