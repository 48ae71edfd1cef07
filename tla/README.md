# mjos: TLA+ models, checks and proofs

mjos is a small x86_64 kernel in C and C++. This directory models it in TLA+,
checks the models with TLC on small instances, and proves with TLAPS that the
locks, the pipe, the mailbox, the scheduler, the frame allocator and the disk
driver are right for instances of any size. Paths below are relative to `src/kernel/`.

## How the kernel runs

Only CPU 0 is started (`wakeup_aps` in `arch/x86_64/kernel.c` has no caller), so
all concurrency is preemption: the timer interrupt (`loapic_timer_proc` in
`arch/x86_64/dev/loapic.c`) calls `tick_proc`, then `schedule()`, and system
calls run with interrupts enabled. A thread can lose the CPU between any two
instructions of the kernel, except where it has disabled interrupts:
`irq_spin_take` and `do_quit_thread`. `init_main` loops for ever, so the run
queue is never empty. A process has one thread.

## Inventory

| part | state | operations | interacts with | hard behaviour | what makes it correct |
|---|---|---|---|---|---|
| spin locks (`spin.c`) | `tkt`, `svc`, interrupt flag | raw and irq take and give | pipe, messages, watchdogs | preemption with the lock held, wrap-around, interrupt against thread | exclusion, order, no starvation, the interrupt never waits |
| frame allocator (`memory/page.c`) | `page_arr`, three lists sharing its links, two counters | boot, `frame_alloc`, `frame_release`, page operations | slab, processes | stale links, exhaustion, double release, no lock | lists agree with states, no frame in two hands |
| slab, kmalloc (`memory/slab.c`, `kmalloc.c`) | partial list and count per cache, free chain per slab | alloc, free, realloc | frame allocator | any order of frees, giving slabs back | no object twice or lost, lists agree with slabs |
| scheduler, semaphores (`process/scheduler.c`, `spin.c`) | run queue, blocked list, current, semaphore values | `schedule`, `thread_wait`, `thread_resume`, P, V | everything that sleeps | preemption inside P, V and `thread_wait` | one list per thread, permits respected, wake-ups arrive, runnable threads run |
| processes (`process/process.c`, `process_helper.cpp`, `elf.c`, `memory/sbrk.c`) | pids, page tables, memory list, heap, descriptors | create, exec, sbrk, exit, waitpid | scheduler, frames, files, signals | exit against waiters, pid reuse, page arithmetic, errors that show in another process | pids distinct, exits wake waiters, every frame has one use, a program finds its segments and arguments |
| pipe (`fs/pipe/pipe.cpp`) | ring buffer, positions, lock | read, write, close | spin lock, file table | check before lock, chunks of several calls, signal handlers above a thread that has the lock | a bounded queue of bytes |
| messages (`process/ipc.c`) | mailbox, two locks as semaphores | send, read | spin lock | empty messages, size read after unlock | every message read once, nobody waits for nothing |
| signals (`process/signal.cpp`) | handler lists, pending signals | send, register, unregister, check | scheduler, exit | unregistering during a broadcast | each handler once, wrappers freed once |
| files (`fs/vfs.cpp`, `fs/syscall_handler.cpp`) | descriptors, `open_cnt`, working directory | open, close, inherit, chdir, getcwd, link, unlink | processes, ext2, pipe | closing a shared file | a file lives while a descriptor names it |
| ext2 (`fs/ext2`) | bitmaps, counters, inodes, directory entries, iterator buffers; memory and disk | create, mkdir, link, unlink, move, copy, read, write, mount | block cache | many writes per call, copies of inodes, index arithmetic | disk agrees with memory, image is consistent, data is kept, a walk meets the file's blocks |
| block cache (`dev/sata_dev.cpp`, `libc++/include/lru.hpp`) | LRU pool of sectors | read, write, evict | AHCI | eviction, failed reads | the pool is in order of use and says what the disk says |
| AHCI (`dev/ahci.c`) | port, command table, registers | init, read, write | drive | errors and ends between two polls, calls that overlap without a lock | a call by itself moves its sector |
| keyboard, shell (`arch/x86_64/dev/ps2_keyboard.c`, `src/user/shell`) | automaton, signals, characters | interrupt, signal, read | signals, pipe | codes of several bytes, a handler inside the main loop | what is read is what was typed |
| boot (`arch/x86_64`, `dev/pci.c`) | tables, vectors, IO APIC entries | `kernel_main` in order | firmware | any order and number of tables | interrupts reach their handlers |
| libraries (`misc/vsnprintf.c`, `libc`, `libcxxrt`) | exceptions, guards, lists of destructors | format, paths, throw, catch, new, atexit | compiled code | truncation, nesting, per-thread data that is lost, two threads at one guard | see the properties |

## Modules

| module | models | uses |
|---|---|---|
| `FifoLock` | what a lock promises: a line per lock, served in order | |
| `SpinLock` | `spin.c` locks, timer interrupt | refines `FifoLock` |
| `PageList`, `PageFrames` | `pglist_*`, `frame_alloc`, `frame_release` as functions of a record | |
| `FrameAllocator` | boot and page operations as a state machine | `PageFrames` |
| `Slab` | `slab.c` and `kmalloc.c` | `PageFrames` |
| `Scheduler` | `scheduler.c`, P and V, create, exit and waitpid | |
| `BoundedPipe`, `Pipe` | what a pipe promises; `pipe.cpp` read and write | `Pipe` refines `BoundedPipe` |
| `Ipc` | `ipc.c` | |
| `Signals` | `signal.cpp` | |
| `Files` | descriptors of processes, path lookup, `init_main` | |
| `UserMemory` | page tables, exec, arguments, sbrk, exit | |
| `Ext2`, `Ext2Iterator` | the file system; the walk over index blocks | |
| `BlockCache`, `Ahci` | the sector pool; driver and drive | |
| `Keyboard` | from scan codes to the shell's command | |
| `Platform`, `PlatformInputs` | `kernel_main`; machines to boot on | |
| `Format` | `vsnprintf` | |
| `Paths`, `PathCalls` | cwalk; its calls against what paths mean | |
| `EhTables`, `TypeInfo`, `Personality` | exception tables, casts and catch matching, the personality's decision, as functions | each uses those before it |
| `Exceptions`, `EhInputs` | throwing, catching, counting; classes and functions to do it with | results of `Personality` |
| `CxxRuntime` | guards, new and delete, `__cxa_atexit` | |
| `ListOps` | lists without repetitions, walked and thinned out | used by `Scheduler` |
| `Lemmas` | induction, wrapping counters, the line at a ticket lock, lists, the page lists of one memory | used by the proofs |
| `SpinLockProofs`, `PipeProofs`, `IpcProofs`, `SchedulerProofs`, `FrameAllocatorProofs`, `SlabProofs`, `AhciProofs` | theorems about the module they are named after | that module, `Lemmas` |
| `MC*` | constants for TLC; `MCParts` is the bench described below | |

**SpinLock.** One action per step a preemption can separate: drawing a ticket,
the poll that succeeds, giving the lock back. A failed raw poll changes nothing
and is a stutter; a failed irq poll restores the interrupt flag and is an action.
The timer interrupt is a context of its own: `TimerInterrupt` enters it,
`tick_proc` takes the watchdog lock once or more, `schedule` leaves it for any
thread. `TicketMod` stands for 2^32.

**PageList, PageFrames, FrameAllocator.** The lists are modelled link by link,
because the interesting part is that three lists share `next` and `prev` and
that `pglist_pop_tail` leaves a stale `next`. Page tables are reduced to the
frames that `page_table_set_entry` takes. `held` counts the callers that hold a
frame; callers release what they hold. Frame 0 is the failure value, and callers
that got it release it like any other. `release_mem_list` is the loop of
`destroy_process`, which releases a second, wrong frame for every page table.
`Drift` bounds how far that lets `mem_free_cnt` run ahead. An operation is one
step; the code takes no lock here, so races inside an operation are out of the
model (they are hazards).

**Slab.** Objects are numbered, the chain of free objects runs through
`link`. `MCSlab` has two caches, with two objects and one object to a slab, and a
threshold of 2 instead of 5. A slab given back while its cache still lists it is
recorded in `stray`, and the model stops there: what follows in the code is the
use of a freed frame. `krealloc` only grows: it copies `old_size` bytes (`kmalloc.c:98`),
which in a smaller object would overwrite the links of its neighbours, and its callers
(`libc++/include/vector.hpp:24`, `libcxxrt/typeinfo.cc:91`) ask for no less than they have.
`MaxCnt` bounds `partial_cnt`, which grows by one for every
listed slab given back. `users` are the other parts of the kernel that take and
release frames.

**Scheduler.** `pc` says where a thread is in P, V or `thread_wait`; the timer
(`schedule`) can come at each of these points. `limbo` is the point between the
two list operations of `thread_wait`: a thread that loses the CPU there is on no
list and never runs again, which `OnOneList` allows at that point only.
`do_quit_thread` runs with interrupts disabled and is one step. A list operation,
`schedule()` and `create_process` are one step each. The walk of `thread_resume` at
an exit is modelled link by link (`Visit`): it resumes threads while it stands on them, so
where it goes on depends on when `next` is read.

**Pipe.** The check before the lock, the ticket, the size of the chunk, the copy,
the move of the position and giving back the lock are separate steps of every
thread; data and length shrink with the chunk, which is what the recursive call
gets. The check reads both positions in one step; they are read again under the lock,
and what the check saw decides only whether the call gives up. `signalCheck` is a handler
that runs above a thread when it is switched to, with interrupts disabled. If it writes
the pipe while somebody is in line for the lock, it spins and nothing else ever runs
(`stopped`); the shell's `on_signal` can do this (`src/user/shell/shell.cpp:77`, with
the main loop in `:55`). If nobody is, it is a write like the others.
The constructor does not initialise the lock: `PIPE_File` starts it with
equal counters or with counters that no thread's ticket can meet. Differences in
between, where some threads would be served and others not until the counters
wrap, are left out.

**The newer modules keep their state in one record variable** (`ipc`, `sig`,
`fs`, `um`, ...), whose fields are listed under `VARIABLE`. A fault field
(`fault`, `stray`, `hollow`, `lost`) records that the code has just used a null
or freed pointer, overrun a buffer or failed an `assert`; the model stops there,
because what follows is not determined by the source, and the invariants say what
holds until then. Which faults can be reached is listed below.

**Ipc.** Taking a ticket, the poll that succeeds, copying the bytes, storing the
size and giving a lock are separate steps of every thread. `wr` is given by the
reader and `rd` by senders. `hollow` is set when an empty message is read: that
path gives both locks, and from then on two senders may be inside at once.

**Signals.** One signal type. `signalNext` moves a broadcast along the handler
list; a process handles its signals when it goes back to user mode
(`signalCheck`) and may register, unregister or end before. An item that is freed
while a wrapper points at it makes the wrapper `loose`; the next step over it is
the fault `stray`.

**Files.** One action per system call, all of them for any process; `destroy_process`
and `copy_file` are what exit and creation do to descriptors. Path lookup walks a
small tree with `.` and `..`. Pipes count with `open_cnt`, files do not.

**UserMemory.** Cells instead of bytes, `PageSize` cells to a page, `Per` entries
to a table. `create_user_page` and `page_table_set_entry` take frames and leave
old contents in a table they add; the program loader is one step per segment. The
text of the arguments has no terminator of its own: it ends at the low byte of
the first pointer, which is zero because the block is page aligned.

**Ext2.** `disk` is what a mount would read, the rest what memory holds. An
operation is one step that ends with all its writes; `Remount` forgets memory. A file is
unlinked through its directory (`unlink`, which `move` uses) or by the system call
(`SysUnlink`), which releases the inode and leaves the name where it is: such names are
kept in `left`, the properties except them, and a call by one is a fault. A directory
from which a name was removed ends inside its block (`Length`), because the size of the
list is not lowered and no entry is taken for the last one; the comment at
`ext2_dentry.cpp:123` says that the last one fills the block.
One block group, files of direct blocks only, a directory is one block. **Ext2Iterator**
has the index blocks: two direct pointers, two pointers to an index block, two
levels, so that every change of level happens in a file of seven blocks.

**BlockCache, Ahci.** The cache calls the driver through results only: a read
succeeds or fails. A call of the cache is one step, although `sata_dev.cpp` has no lock, so
`PoolSound` is about calls one after the other. `Ahci` has the driver between two polls,
the drive as an actor of its own, and several callers: all of them use slot 0, because
`find_cmdslot` looks at no bit, and nothing keeps their calls apart. `alone` marks the
calls that no other overlapped. Results are the numbers of the code, in which a read that
failed returns `false`, the 0 of success.

**Keyboard.** The bytes on the wire, the automaton, the signal queue and the
shell: `on_signal` runs between any two characters of the main loop.

**Platform.** `kernel_main` is one action that runs the step at `pc`; the MADT is
read entry by entry. The firmware is chosen from `PlatformInputs`: every order of
entries, one or two IO APICs, moved keyboard interrupts, wrong checksums, a tree of
buses behind bridges. Polarity and trigger of an interrupt override are one mode, since
both are copied the same way. `cpu_init` changes nothing the model keeps.

**Format.** `misc/vsnprintf.c` and `libc/stdio/vsnprintf.c` are the same text up
to an include and the return type; the map names whole functions in one of them
and their parts in the other. `Meant` says what C prescribes; it is compared for the
directives that are `Plain`, and the code is known to differ for the others.

**Paths.** Positions in a sequence of characters instead of pointers, one operator
per function of cwalk. `PathCalls` gives the reference: the names that are left
when every `..` has taken one away. Excluded from comparison are inputs where the
code is known to differ: relative paths with a first name of one character, paths
without a segment, different roots, and names that are beginnings of each other.

**EhTables, TypeInfo, Personality, Exceptions.** The tables g++ would write are
read byte by byte; the result for every call site and type is computed once
(`Handlers`), and `Exceptions` uses it while it throws through stacks of up to
four frames. Compiled code and the unwinder are external. `exception.cc` is
commented out of `libcxxrt/Makefile` and the kernel is built without exceptions:
the module is about the code that is kept in the tree, with the `pthread.c` of the
tree. There `pthread_once` runs `init_key` in every call but the first, so every
`thread_info()` has a new key and makes a new structure, until the keys run out. What
`__cxa_begin_catch` stores is there for the `__cxa_end_catch` that comes next and for
nothing later; a rethrow never finds its exception and terminates, and
`__cxa_current_primary_exception` always returns null, so that there are no dependent
exceptions. Emergency buffers are not needed: `kmalloc` never returns null.

**CxxRuntime.** Read and compare-and-swap of a guard are separate steps, and so
are the entries of the walk in `__cxa_finalize`, which frees an entry before it
reads its successor; whether the entry was given out in between is kept in `taken`, even
if it was given back.

**MCParts.** Thirteen parts share no state in the model, so one run checks them all:
`part` chooses the part, its variable starts at its module's `Init`, the others are
0. The tables of pure functions (paths, formats, exception handlers) are constants
given by the cfg, so that TLC computes them once and then looks at every entry.

## Runs

| run | bounds | result |
|---|---|---|
| `spinlock` | 3 threads, interrupt, 1 raw lock and the watchdog lock, 5 counter values | `TypeOK`, `MutualExclusion`, `InterruptNeverSpins`, refinement of `FifoLock`, `NoStarvation` hold |
| `frames` | 9 frames: DMA, reserved, 5 kernel (image of 2, one of them a boot table), 2 map | `TypeOK`, `ListsSound`, `CountsSound`, `NoDoubleUse` hold |
| `slab` | 3 frames, 2 caches | `TypeOK`, `ObjectsSound`, `SlabsSound`, `PartialCntCovers` hold until a slab is given back while listed, with a `krealloc` that grows |
| `slab_given_back_while_listed` | same | `FloatingIsNotListed` is violated: a finding |
| `scheduler` | init and 2 threads, 1 semaphore | `TypeOK`, `OnOneList`, `SemAccounting`, `SemaphoreSafe`, `RunnableRuns` hold |
| `exit` | init and 3 processes, no semaphore | `PidsSound`, `ExitWakesAll` hold |
| `verhoog_lost_wakeup` | as `scheduler` | `VerhoogFindsWaiter` is violated: a finding |
| `pipe` | 2 threads that both read and write, ring of 3 bytes, calls of up to 2 bytes, 2 byte values | `TypeOK`, `ChunkInBounds`, refinement of `BoundedPipe`, `CallsReturn` hold, the last unless a signal handler spins on the lock |
| `ext2` | 1 file name, 1 directory name, 4 inodes, 3 blocks of 2 units, 2 entries to a directory, 1 open file | `DiskIsCurrent`, `FsckClean`, `ContentsKept` hold until a fault, but for names that the unlink system call leaves |
| `parts` | see the `INSTANCE` lines of `MCParts` and below | one property per part holds |
| `sector_write_reversed` | 3 sectors, pool of 2 | `WriteInCache` is violated: a finding |
| `iterator_block_pos` | as the iterator in `parts` | `BlockPosReal` is violated: a finding |

The bounds let the hard cases happen: the ticket counter wraps (5 values, 4
contexts), both frame lists run empty, a slab fills, drains and is given back,
three threads are enough for one to hold a permit while one waits and one gives,
exit needs two waiters for one pid, and a ring of three wraps inside a call of
two bytes, runs full and runs empty. Threads of the pipe alternate between reading
and writing, so two of them give two readers as well as two writers. In `ext2` the
blocks, the inodes and a directory run full, a file has two names and is open while
it is unlinked.

| part of `parts` | property | bounds |
|---|---|---|
| mailbox | `MailboxSound` | 2 senders, 1 reader, sizes 0 and 1, counters wrap at 4 |
| signals | `SignalsSound` | 2 processes, one without a handler, 2 items, 2 signals |
| iterator | `WalkMeetsFile` | 2 direct pointers, index blocks of 2, 14 blocks, files of up to 7 |
| cache | `PoolSound` | 3 sectors, pool of 2: every third sector evicts |
| disk | `TransferIsTheCall` | 2 callers, 2 ports with anything attached, 2 sectors |
| paths | `PathsSound` | every path of up to 5 pieces, pairs of up to 2, buffers of 0, 1, 3 and 9 |
| files | `FilesSound` | init and 2 processes, 3 descriptors, 1 file and the pipes, 3 paths |
| keyboard | `TypedIsRead` | 4 presses and releases of 6 keys, one of every form of scan code |
| exceptions | `ExceptionsSound` | 3 exceptions, 4 frames, 5 kinds of call site, 6 keys |
| format | `FormatSound` | all flags, widths, precisions, qualifiers and conversions of one directive; int of 5 bits, long long of 7 |
| boot | `PlatformSound` | the machines of `PlatformInputs` |
| memory | `UserMemorySound` | 2 processes, 3 command lines, 29 frames, growth by 6 and shrinking by 3 cells |
| runtime | `CxxRuntimeSound` | 2 threads, 2 cells, 2 libraries, 3 destructors |

**Deadlock** is checked in `spinlock`, `scheduler` and `exit`. `frames` and `slab`
stop at a failed `assert`, which halts the machine, and a pipe whose lock was not
initialised stops when all its threads spin; `ext2` and `parts` stop at faults, and
the parts that only look at a table have no steps to speak of. These say
`CHECK_DEADLOCK FALSE`.

**Fairness.** `SpinLock`: the timer fires again and again (an interrupt that comes
while interrupts are disabled stays pending in the local APIC), its handler runs
to its end, the run queue is a round robin that gives every thread the CPU, and a
time slice is long enough for a poll or for leaving a critical section. Takers that run
with interrupts disabled inside a signal handler are outside that model.
`Scheduler`: the timer never stops, and nothing else is assumed; so `RunnableRuns`
has to except behaviours in which threads are inserted in front of the queue for
ever. `Pipe`: a thread in `read` or `write` never sleeps, so it keeps getting the
CPU, as long as no signal handler spins with interrupts disabled, which `CallsReturn`
excepts; and it is about times without new calls, since a writer that finds
the pipe full again and again may be overtaken for ever. The other specifications
state no fairness: their properties are invariants.

**Findings.** (1) `cache_obj_release` takes a slab without neighbours for an
unlisted one; with `partial_cnt` too high, because giving back a listed slab does
not decrement it, the only slab of the list is given back while it is listed. (2)
A P that is preempted between its decrement and `thread_wait` misses the V that
was meant for it. (3) `SataDev::write` copies from the cache to the caller's
buffer, so written data is lost. (4) `load_buf` does not record the number of an
index block that it reads, so a write-back of the buffer goes elsewhere.

## Where the models stop

These are the faults the models can reach. No document promises otherwise for
them, so they are not runs of their own; they bound what the invariants say.

* slab: `krealloc` to a smaller size (`kmalloc.c:98`) is not taken.
* pipe: a signal handler waits for the lock with interrupts disabled (`signal.cpp:160`).
* messages: reading an empty message gives both locks (`ipc.c:23-24`).
* signals: a wrapper whose item was unregistered is passed on (`signal.cpp:63`).
* files: `File::close` deletes a file that children still have (`vfs.cpp:142`);
  `do_lseek`, `do_getdent` and `do_fstat` do not look whether there is a file;
  `getcwd` writes its zero behind a full buffer.
* user memory: exit releases a page made from the number of a table's frame
  (`process.c:201`); a table that is added on demand keeps old entries; a range is
  mapped over pages in use, since only its first page is looked at; exec keeps the
  handler of the old program when the new one has none (`process_helper.cpp:87`);
  shrinking swaps two arguments (`sbrk.c:23`).
* ext2: the group of the last inode is one too high (`ext2_fs.cpp:166`); without
  space block 0 is used; without an inode `mkdir` uses a null pointer; a full
  directory wraps `rec_len`; a directory that is moved is deleted, because `link`
  refuses it; a file is used after `inflate` replaced its inode, or grown after it
  was shortened, over blocks that are free; a name is used that the unlink system call
  left behind (`syscall_handler.cpp:137`).
* keyboard: `parse_cmd` and `promote` write into `buf` while the loop of the shell
  still has characters in it to look at (`src/user/shell/shell.cpp:33`).
* exceptions: the end of an outer catch after a nested one, which does not find its
  exception; a rethrow; no key left; `calloc`, which does not clear what it returns.
* format: a number that is cut off never ends (`vsnprintf.c:147`); `%c` that is cut
  off does not take its argument.
* runtime: `__cxa_finalize` reads an entry after it was freed and given out again, whether or not it
  is free once more (`cxa_atexit.c:57`).

## Proofs

The theorems are about `Spec` of the module as TLC runs it, for every value of its
constants. `IInv` is the inductive invariant of each proof module; the parts of it that
TLC can evaluate were invariants of a TLC run before they were proved (not the lists and
ghosts that it says exist).

| module | theorems | constants are free but for |
|---|---|---|
| `SpinLockProofs` | `Invariance`, `TypeCorrect`, `MutualExclusionHolds`, `InterruptNeverSpinsHolds`, `FifoRefinement` (`Spec => FifoLockSpec`) | finitely many threads, the interrupt is not one, the watchdog lock is not raw, more counter values than contexts |
| `PipeProofs` | `Invariance`, `TypeCorrect`, `ChunkInBoundsHolds`, `QueueRefinement` (`Spec => PipeIsQueue`) | `PipeAssumption`: finitely many threads, fewer than counter values; a ring that is not empty |
| `IpcProofs` | `MailboxSoundHolds` | `IpcAssumption`: finitely many senders, fewer than counter values; one reader |
| `SchedulerProofs` | `Invariance`, `TypeCorrect`, `OnOneListHolds`, `PidsSoundHolds`, `SemAccountingHolds`, `SemaphoreSafeHolds`, `ExitWakesAllHolds` (an action property) | `SchedulerAssumption`: finitely many threads, no more than there are pids, init is one of them; the address of a semaphore is not a pid |
| `FrameAllocatorProofs` | `Invariance`, `TypeCorrect`, `ListsSoundHolds`, `CountsSoundHolds`, `NoDoubleUseHolds` | `FramesAssumption`: kinds of memory are disjoint, the image is kernel memory, frame 0 is in none |
| `SlabProofs` | `Invariance`, `TypeCorrect`, `ObjectsSoundHolds`, `SlabsSoundHolds`, `PartialCntCoversHolds` | `SlabAssumption`: there are frames, objects fit in a page, every size asked for has a class, the names of the caches are not those of the other lists |
| `AhciProofs` | `TransferIsTheCallHolds` | `AhciAssumption`: ports are numbered from 1 |

`IpcAssumption` and `AhciAssumption` are hypotheses of their theorems, because the
modules are instantiated by `MCParts`; `PartsAssumption` there has TLC evaluate them
for the instances it checks. The others are `ASSUME`s of the component's module.

**Ticket locks.** Mutual exclusion alone is not inductive. `TicketInv` adds that the
tickets in use are distinct, that they are exactly the ones from `svc` up to `tkt`,
modulo the wrap, and that a holder's ticket is the one being served. Distances are
measured with `Gap`, so that no step compares wrapped counters by order;
`GapInjective`, `GapServe` and `GapDraw` say how distances behave when a counter
moves. That a new ticket differs from the old ones needs room: `RoomForOneMore`
shows by counting that the counter cannot catch up with `svc`. `IrqInv` says who can
be interrupted: whoever asks for the watchdog lock has interrupts disabled and runs.
The refinement needs the line as a sequence: `LineShape` shows that the tickets in
use, by distance from `svc`, list every context that asks once, and then drawing a
ticket appends to it (`DrawIsAsk`) and giving the lock takes its head (`GiveIsLeave`).
The pipe and the mailbox have the same lock inside; `InOrder` of `Lemmas` is that
invariant for a set of holders, and the wrap is argued there once.

**Pipe.** The check at the start of `read` and `write` is made without the lock, so it
says nothing later; what is measured under the lock must stay good until the copy.
`ChunkInBounds` and `ChunkInv` say so for every place between taking the lock and
giving it back, and `LockInv` that nobody else is there; a lock that was not
initialised is the second disjunct, `Stuck`, in which nobody gets that far. `OwnStep`
and `OtherStep` prove that a thread's step keeps its own part of the invariant and
that of any other thread. For the refinement, the contents of the ring are a function
of the positions; that `move` of a writer appends and of a reader removes exactly the
chunk is arithmetic of `round` with at most one wrap (`ModCases`).

**Mailbox.** The two locks are used as semaphores: a sender takes `wr` and gives `rd`,
the reader takes `rd` and gives `wr`. The invariant says whose turn it is
(`PhaseInv`), counts the reader as holder of `wr` from the end of a send to the end
of the read (`Holders`), and gives the number of open tickets of `rd`
(`ReadLockInv`). It is claimed only until an empty message is read.

**Scheduler.** `PlaceInv` ties the place in `thread_wait` to the list. `SemAccounting`
is not inductive alone, since it says nothing about who is about to wait: `SemValue`
says that permits, balance and the threads inside P add up to the initial value, and
`SemaphoreSafe` follows from both. The walk of an exit over `blocked_threads` is a recursive
function; `PidWalk` is its equation, and `ResumePidIs` shows by induction over the turns of
the loop that the threads before the cursor are settled, those behind it untouched, and so
that at the end exactly the waiters have moved to the run queue. `ExitWakesAll` follows
from it.

**Frame allocator.** `MemInv` says that the links make three lists (`Chain`: a sequence
of frames that `prev` walks from the tail and `next` from the head), disjoint, with
exactly the frames whose state puts them there. `next` of the tail is free in a chain,
because `pglist_pop_tail` does not clear it; but `pglist_remove` decides by it whether
the frame is the last one, so the lists it is used on must end cleanly. For the list
of occupied frames, which is never popped, that is part of `MemInv`, and for the free
list it is part of the boot invariant, which ends before the first `frame_alloc`. Without it the
invariant is not inductive. `PushLists`, `PopLists` and `RemoveLists` of `Lemmas` describe
the list operations on a memory with any set of lists; `PushMem`, `PopMem` and `RemoveMem`
are what they say of this one, `AllocMem` and `ReleaseMem` the two operations built from them; the actions
apply them once or twice. `BootInv` says what each phase of booting has done: which
frames have no state yet, which of the image are moved, which boot tables are given up.
`ListsSound` walks with the bounded walk of `PageList`; `WalkIs` shows that it meets
the chain.

**Slab.** The model does not store which class a slab belongs to, since the code does
not either: `kfree_s` finds the cache again from the size. The invariant therefore says
that there are two ghosts, the class that owns each slab (`own`) and the frames of each
list (`B`), for which the state is `Sound`. `ObjInv` is about the objects: the chain
through the free objects of a slab holds exactly those of its class that are not in use,
each once (`FreeIs`), `inuse` counts the others, and an address in use lies in a slab of
the class that its size has, so that `kfree_s` finds the right cache. `ListInv` is about
the frames: the partial lists share their links with the lists of free and occupied
frames, and the lemmas about page lists are the ones the frame allocator uses. Two of its
parts are not in any property and are what makes it inductive: all lists but the free one
end cleanly, and a slab on no list has no neighbours (`FloatingUnlinked`), so that
`cache_obj_release` errs only in the other direction, with a listed slab that is alone.
After that happened only `Weak` holds: the objects are still sound, but the frame is on
two lists. `IInv` says `Weak` always and `Sound` while `stray` is empty; `ObjectsSound`
needs only the first, the other two properties the second. Each operation is proved for
any sound state (`Sound` is about a record, not about the variables), because `krealloc`
allocates and releases in one step.

**Disk driver.** `DriveInv`: an error stops the drive for good with its bit of `ci` set,
and while it is not stopped it works only when some call waits. `AloneInv`: while a call
that no other overlaps is under way, nobody else is in the driver. `CallInv`: then the table
is its command from `build` on, and the bit of `ci` tells whether its sector was moved. The
number of callers is arbitrary, and a call after others that overlapped is covered.

Three things were changed in the models for the proofs, and none changes a
behaviour: the walk over a list is a recursive function (`ListOps`), the type of
`boot.at` has its bounds as conjuncts of `TypeOK`, and `SlabAssumption` says that there
are frames and that no cache is called `free` or `occupied`.

Only model-checked:

* everything under fairness (`NoStarvation`, `RunnableRuns`, `CallsReturn`), which is
  out of the prover's reach;
* what the tables compute (`PathsSound`, `FormatSound`, the personality part of
  `ExceptionsSound`, `WalkMeetsFile`): modules with recursive operators, on inputs
  that are enumerated;
* `Ext2`, `Signals`, `BlockCache`, `Files`, `Keyboard`, `Platform`,
  `UserMemory`, `CxxRuntime`: no proofs yet.

## Not modelled

Console and serial output, cmos, the bits of registers and descriptors; the
demangler of libcxxrt (`libelftc_dem_gnu3.c`, a parser without state that nothing
in the kernel calls), string functions, containers that the models do not use; the
Windows style of cwalk and `guess_style`; ELF printing; `copy_page`, `process_list`
and children of processes, slabs of more than a page, several block groups,
`unlink_children`, `getdent`, `stat`, seeks behind the end, emergency buffers and dependent
exceptions; the i686 and EFI ports, which are not built; user
programs other than the shell. `PROJECT.json` lists every part and why.

## Plan

1. `schedule`, `thread_resume` and `find_usable_pid` in preemptible steps,
   `process_list`; the page lists and the block cache without a lock.
2. Several block groups; slabs of several pages.
3. Proofs: the block cache, signals, the file table.
