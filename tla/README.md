# A verification project for the osc-2025-nycu kernel

The repository holds a bare-metal AArch64 kernel for the Raspberry Pi 3, in
seven directories, one per lab: each is the kernel of the one before with a
part added (UART, boot loader, interrupts and timers, memory allocators,
threads and signals, virtual memory, a virtual file system).  The models follow
the last one, `lab7-virtual-filesystem`, and name the lab where an earlier one
differs in a way they can tell.  Paths below are under `src/`; without a
directory, under `src/lab7-virtual-filesystem/kernel/`.

The processor is one core.  All concurrency is preemption: a timer tick or a
UART interrupt between any two instructions while interrupts are enabled, and
system calls run with interrupts enabled (`interrupt_handler.c:38`).

## 1. Inventory

| Component | State | Operations | Hard behaviour | What makes it correct |
|---|---|---|---|---|
| Buddy system, `buddy.c` | `page_pool` (order, status), `free_area` (list, count) | `buddy_init`, `memory_reserve`, `__allocate_pages`, `__free_pages` | stale headers inside blocks; splits and merges in any order; ranges that cut blocks | each page has one holder; headers tell the truth; nothing stays uncoalesced; reserved pages stay reserved |
| Lists, `include/lib/list.h` | `next`, `prev` | add, delete, empty, first entry | a tick between two stores | rings stay sound and hold what is free |
| Slabs and kmalloc, `slab.c`, `kmalloc.c` | caches, partial and full lists, slab headers | `allocate`, `free` | a slab moves between lists; no page left; width of `int` | callers' bytes are disjoint; every pointer goes back where it came from |
| Threads, `thread.c`, `sched.S` | the ring, state, pid, context, the current task | `schedule`, `switch_to`, `thread_create`, exit, kill, reap | preemption inside ring updates, between choice and switch, before a child is ready | every runnable task gets its turn; none after its end; stacks freed once |
| Signals, `signal.c` | pending bits, handlers, `signal_handling`, `sigframe` | delivery, `sigreturn`, `signal`, `sigkill` | delivery between any two steps of the program, a handler or a system call | a handler returns to the program; what was sent is what is delivered |
| Exception entry and exit, `interrupt.S`, `sched.S` | trap frames, `ELR_EL1`, `SPSR_EL1`, `sp`, `tpidr_el1`, DAIF | `save_all`, `load_all`, `eret`, `from_el1_to_el0`, `irq_handler`, `trap_handler`, `switch_to` | interrupts nested in an exit path or in a switch | a program goes on where it was, as itself |
| Timers, deferred tasks, lab 3 `timeout.c`, `task.c`, `timer.S` | two heaps, the timer's time | set, expire, run | interrupts nested in a queue that is half changed | each task runs once, and not before its time |
| UART, `drivers/uart.c` | rx and tx buffers, their indices | interrupt handlers, `async_gets`, `async_putchar` | handlers against the reader's loads and stores | lines and echo are what was typed |
| Names: `vfs.c`, and the directories of `tmpfs.c`, `initramfs.c` | vnodes, mounts, `cwd`, `fdtable` | open, close, lookup, mkdir, mount, chdir, fork | two calls in one directory, calls refused below, a mount half made, fork's late copies | a path names one vnode; an open file keeps its name |
| Contents: `tmpfs.c`, `initramfs.c`, `syscall.c` | data, `datasize`, `f_pos`, the pool of struct files | read, write, lseek64, close, fork, exec | tests of a size that changes, positions past the end, a file read after it was closed | a read returns what was written |
| Virtual memory, lab 6 `vm.c` | page tables | `walk`, `map_pages` | | see section 6 |
| Mailbox, boot loader, cpio, device tree, startup allocator, shell, console, strings | little or none | straight-line code | | |

Interactions.  Everything allocates through `allocate`: thread_create its task
and stacks, signal its stack, exec its image.  `allocate` calls the slab
allocator or the buddy system; the slab allocator gets its pages from the buddy
system; both keep their lists with `list.h`.  The timer interrupt calls
`schedule` and, for the task that goes on, `signal`; both of them read and
write the `task_struct`s that system calls of other tasks write.  Struct files
are chunks of the slab allocator, so that a closed file's memory is the next
file's.  Exec reads its program through the virtual file system.

The hazards of this code, each at its line and with the properties that cover
it or a note why none does, are the list `hazards` of `PROJECT.json`.

## 2. Modules

    BlockGeometry    blocks of 2^k pages, the pool, get_buddy_index
    PageAllocator    abstract: what a page allocator promises
    Buddy            buddy.c, one loop iteration a step, free lists as sets
      MCBuddy        small pools; the ASSUME that BuddyOf is the xor of the code
    BuddyPages       the page headers and the history both models of buddy.c have
    KernelList       list.h: an operation is the sequence of its stores
    BuddyList        buddy.c again: pointers, stores, several threads
      BuddyProofs    lemmas about blocks and rings, theorems about both
    Heap             abstract: what allocate and free promise
    Kmalloc          kmalloc.c and slab.c over the abstract page allocator
      KmallocProofs  theorems about Kmalloc
    Threads          thread.c, irq_handler, fork, exec, exit, kill, idle
      ThreadsProofs  theorems about Threads
    Exceptions       interrupt.S, sched.S and the handlers around their bodies
      ExceptionsProofs
    Signals          signal.c and the system calls around it
    PathNames        the path operators of vfs.c, and what a path means
    Vfs              vfs.c over the directories of tmpfs and initramfs
      VfsProofs      theorems about Vfs
    ByteFile         abstract: a file with descriptors, each with a position
    FileIO           what files hold: read, write, lseek64, close, fork, exec
      FileIOProofs   theorems about FileIO
    TimerQueue       lab 3's timers and deferred tasks
      InterruptProofs  theorems about TimerQueue and Signals
    Uart             the asynchronous half of drivers/uart.c
      UartProofs     theorems about Uart

A module `MC<name>` instantiates each of them for TLC.

Composition.  Buddy and BuddyList EXTEND BuddyPages, and BuddyList also EXTENDS
KernelList; Vfs EXTENDS PathNames; Kmalloc has the promise of PageAllocator in place of the buddy
system, and FileIO a free list of chunks in place of Kmalloc.  Threads and
Exceptions divide the scheduler between them: Threads has the ring and takes a
switch for a step, Exceptions has the registers and lets any task be chosen.
Vfs and FileIO divide the files: names and the tree, and contents and positions.

Refinements.  `Buddy` and `BuddyList` implement `PageAllocator`
(`AllocatorPromise`, `ListsPromise`), `Kmalloc` implements `Heap` (`HeapPromise`), and what one
task sees of a tmpfs file in `FileIO` is a `ByteFile` (`BytesKept`).

Definitions whose comment begins "A slip" or "Slips" are mutated forms of the
definition that follows them: each property is shown to fail with one of them
(`mutants` in `PROJECT.json`).  They take no part in any specification.

Some properties are conjunctions of named parts, each stated with a comment of
its own: `PoolSound` (`Coalesced`, `CountsExact`, `ReservedExactly`),
`ListsSound` (`RingsHoldTheRest`, `FirstEntryOfNonEmpty`,
`ReservedStaysReserved`, `NoDoubleAllocation`), `HeapSound` (`SlabsAccountForChunks`, `FreeGoesHome`),
`SoundWhenMasked` (`PidsDiffer`, `ReadyWhenResumed`, `TerminatedStaysOff`),
`StacksSound` (`WaitingLeadHome`), `TreeSound` (`NothingLost`), `PathsSound`
(`StaysFromRoot`, `OpenFilesKeepTheirNames`), `FileSound` (`SizeCoversWrites`),
`QueuesSound` (`EachTaskOnce`, `EarliestOnTop`, `OnlyCutsGoWild`), `LinesSound`
(`LinesAreWhatWasTyped`, `NothingMadeUp`) and `EchoSound`
(`SendsWhatIsThere`, `EchoComplete`).  Where the module has no theorem on types,
its `TypeOK` is among the parts.

Most of this kernel runs with interrupts enabled, and much of it is not safe
then.  Its models keep what goes wrong, and record in a history variable which
window it came through: `overlap`, `stale`, `raced`, `torn`, `lapped`, `hasty`,
`past`, `cut`, `events`.  The properties say that nothing goes wrong except through
these windows, which is as much as the code gives, and each window is named by
the code's own steps, so that it can be closed there.

### Buddy

`order`, `status`, `free_area` and `nr_free` are the fields of `page_t` and
`free_area_t`; `pc`, `target`, `current_order`, `want` and `range` are the
locals of the call in progress; `asked`, `withheld`, `live` and `refused` are
history for the properties.  One step is one iteration of a loop: `Take`,
`Split`, `Return` and `Fail` are `__allocate_pages`; `Free`, `Merge`, `Insert`
are `__free_pages`; `MemoryReserve`, `ReserveBlock`, `ReserveSplit`,
`ReserveNext` are `memory_reserve`.  A free list is a set, so popping its first
page is popping some page: the properties then hold in whatever order the list
is kept.  The headers of pages inside blocks are kept as the code leaves them.

If the merge loop meets a page that is on no list, `list_del` writes through
stale pointers, which sets cannot express: `MergeUnlisted` stops the model with
`pc = "corrupt"`.  `OnlyReservedMisleads` says exactly when that can be.

### BuddyList

`links` are all `next` and `prev` pointers, list heads included (as negative
numbers).  A list operation is a sequence of stores read off the links when the
operation is called; `StoreStep` makes one.  `running` has the processor; a step
of another thread is a tick before it.  `MaxCuts` bounds how many ticks come
inside calls: none is lab 6's fork, which brackets its body with `disable_irq`
and `enable_irq`; in lab 7 both are commented out.  Once more than `CutsAtCall`
calls were cut, no further call begins.  `torn` records a tick that came when the
call it cut held a block, had chosen a list, or was between its stores, and a
merge that took a reserved block.  `InitLinks` says which links `buddy_init`
leaves; `MCBuddyList` evaluates it against the calls of `list_add_tail` that make
them.  `Pop` on a list that has become empty takes the memory around the list
head for a `page_t`; the thread is then `"wild"`.  The update of `nr_free`, which
no code reads, is left to `Buddy`.

### Kmalloc

Addresses are bytes, with pages of 64 bytes and chunks of 8 and 16 in the runs.
`blocks` are the buddy blocks out, `slabs` the `slab_t` at the head of each slab
page, `partial` and `full` the lists of each cache (sequences, first entry
first: `list_add` puts in front).  A call is one step.  `ToInt` is the
conversion of the argument to `int`, here of `IntBits` bits; the sizes of the run
and of the theorems (`SizeAssumption`) are below the point where it would wrap, so
what larger requests become is shown by no property.  A slab for which
no page was left is built at address NULL, as the code does.

### Threads

`next`, `prev`, `state`, `pid`, `context` are fields of `task_struct`,
`current` is `tpidr_el1`, `masked` the DAIF bits, `th` the place of each task in
its code and its locals.  `Tick` is the timer interrupt, possible between any
two steps of the current task while interrupts are enabled; the rest of
`irq_handler` runs when the task is resumed.  `schedule` called by a task is two
steps, the choice and the switch.  `enqueue` and `dequeue` are one step per
store to another task's link; `id_counter++` is a load and a store.  `context`
abstracts the saved registers to what they make a task do when it is resumed.

`switch_to` ends with `ret` to the saved `lr` (`sched.S:21`), which for a task that
never ran is the function `thread_create` was given: `run_fork_test` of `fork_demo`,
which goes to user mode through `from_el1_to_el0`; `foo` of `thread_demo`, which
stays in the kernel and calls `schedule` itself, with the mask the processor had;
0 for a fork that has not set the context yet; the image of the shell's `exec`,
which would then run at EL1.  The last two leave the kernel's code (`"wild"`).
`exec` means to enter its task otherwise: `SpawnUserProgram` is everything up to the
write of `tpidr_el1` (`shell.c:132`), `EnterProgram` the rest up to `eret`.  A tick
between the two saves a context that is half the shell's (`"cut"`); one before the
first has saved a context of the shell that is never used in time (`"outdated"`).

Constants tell the labs apart: `MaskedFork` and `ExecState` (labs 5 and 6
against lab 7), `ShellJobs` and `Kill`.  `threads_lab5` is lab 5 as committed:
fork is between `disable_irq` and `enable_irq`, `main.c:25` enables the timer, the
shell has `fork_demo` and `thread_demo`, its `exec` creates no task, and no program
that is run calls `kill`.  (Lab 6 masks fork too, but its shell has neither demo,
its `exec` creates a task, its `irq_handler` can call `kill`, and
`src/lab6-virtual-memory/kernel/main.c:29` has the timer commented out.)  `raced`
holds the tasks whose `id_counter++` another `thread_create` cut into: with fork
masked that can only be the shell.

### Exceptions

A point, `pc`, is a place in the code with the registers alive there.  `elr`,
`spsr`, `sp` and `tpidr` are the processor's; `stack` holds the frames that
`save_all` pushes, `context` the `lr` and `sp` of `task_struct`.  `Irq` may come
wherever interrupts are enabled, also in the kernel.  `load_all`, the `eret`
after it, `from_el1_to_el0` and `switch_to` are cut into the accesses that an
interrupt can come between.  Three windows are recorded: `"return"`, after the
first `msr` and before the `eret` (`ELR_EL1` and `SPSR_EL1` are then the nested
interrupt's when it returns); `"switch"`, after `switch_to` has saved the
context of a task that is to go on and before it is the next one (the nested
`schedule` saves over it); `"stale"`, a switch to a task that ended after it was
chosen.  Once a window was hit no more interrupts follow in
the model.

### Signals

`point` is where a task is (the program, the handler of a signal, with the call
in progress), what a trap frame holds; `sigframe` is the point saved.
`DeliverSignal` is `signal` with its loop, in one step, since it runs with
interrupts disabled.  `sigkill` is a load (`SyscallSigkill`) and a store
(`StorePending`).  `owed`, `shifted`, `torn`, `strayed` are history.  A task
without a handler for the signal dies (`thread_exit`).

`exec` is lab 7's.  `SyscallExec` stores `TASK_PENDING` (`syscall.c:58`), `ExecDone`
clears handlers and pending bits and goes to the new program.  The task then runs
until another one takes a step: `schedule` passes it over from there on, and its
state is `"off"`.  `ExecFails` is a file that cannot be opened, or no memory:
`trap_handler` goes to `context.lr` all the same (`interrupt_handler.c:50-51`), which
is the start of the program or an address in the kernel, and `signal_handling`
stays as it was; `strayed` says so.

### PathNames and Vfs

A path is the sequence of its characters.  `AbsolutePath` is the loop of
`get_absolute_path`, one character a step of a fold; `Meaning` is what a path
means, a walk from the root that `..` takes back by one name.  The two agree
while no name begins with a dot and `..` is met at most one level below the root
(`ResolvesShallow`, for every path of up to five characters): the loop takes
back everything up to the first slash, and takes `.` and `..` for components
wherever a name begins with them.

A vnode and its inode are one record of `vnodes`.  `Open` is `syscall_open` with
`vfs_open`'s lookup; where that fails, `CreateIn` is the search of the directory
and the test of its type and room, `Store` the entry, `NameIt` the `strcpy` of
its name and the descriptor.  `Mkdir` is the same without a look at names.
`Mount`, `Attach`, `EnterSetup` and `Setup` are `vfs_mount`: between the second
and the last a vnode has a mount without a root.  `ListStart`, `ListNext` and
`Fill` are `initramfs_mount`, with `ramfs_get_filelist`'s one buffer for all
callers.  `ForkCwd` and `ForkFile` are what `syscall_fork` copies after the
child is on the ring.  `lapped` holds the vnodes at which two calls overlapped,
`hasty` the children that used their directory or files before they had their
copies, and those whose parent forked them before it had its own (`PassesOn`).

### ByteFile and FileIO

One tmpfs file and one file of the archive, struct files from a free list on
which the last freed is the first given out, and the descriptors of two tasks.
A call is cut where it looks at or sets `datasize`, or reads the data: `WriteCopy`,
`WriteTest`, `WriteSet`; `ReadTest`, `ReadLen`, `ReadCopy`, `ReadAdvance`; and where
it touches the table: `Close` frees the struct file and `CloseClear` clears the
descriptor (`syscall.c:140-141`); `Fork` puts the child on the ring, `ForkAllocate`
gives it one struct file after the other and `ForkFill` copies into it
(`syscall.c:91-95`), while the child already runs.  A child that calls on a file that
is allocated and not filled follows whatever the chunk held (`Unfilled`).
Exec's `vfs_read` after `vfs_close` (`syscall.c:59`) is `ExecReadAgain`: the
struct file is on the free list then, with the link of the list for its vnode, or
already another task's.  What exec reads is left out; the position it moves is
not.  `offset` is a `long` and positions are `size_t`: both are taken modulo
`SizeMod`, so that a seek to -1 is one to the last position (`Wrapped`).  A write
past `MAX_FILE_SIZE` and a short read from past the end leave the model (`"wild"`).

### TimerQueue

The program is a stack of frames, of which the last runs: the shell that sets
timeouts, and on top of it interrupts that nest, each with the loop of
`execute_tasks`.  The heaps are arrays with `size`; `add_task` and `pop_task` are
cut where the interrupt handler, which is one step while it is masked, can come
in between: the test of the capacity (`AddTest`, `task.c:11`) and the load of the
size that is then used (`AddLoad`, line 12) are two steps, as are the two tests for
an empty queue (`LoopTest`, `PopTest`), the read of the first task (`PopTop`) and the
load of the size that is counted down (`PopSize`, `task.c:75`).  Where an interrupt
has drained the queue meanwhile the size would become -1 and the first task run
twice; where one has filled it, the next task would be stored past the last slot.
The model stops at these steps (`"wild"`), and `OnlyCutsGoWild` says that it stops
only after an interrupt came in one of the named windows.  `cut` names them:
`"queue"`, a heap half changed, or tested and not yet changed; `"test"`, between the
two tests for an empty queue; `"timer"`, between a task being queued and the timer
being set for it.

### Uart

`read_idx` and `write_idx` are the tops of two stacks, which is what the buffers
are: one index each.  An interrupt handler is one step, the reader's loads and
stores of an index are steps of their own.  `typed`, `edited`, `asked`, `sent` and `lines` are
history: the bytes that came, the lines they make with `Erase` applied (`Edit`,
one byte at a time), the bytes put in the tx buffer, those that left it, and the
lines `async_gets` returned.  `line` and `idx` are the line buffer, `buffer` of
`lib/io.c`, and its index: `buffer[idx++]` and `buffer[--idx]` test nothing, so an
erase on an empty line stores below it and a long line above it (`"under"`,
`"over"`), after which the reader goes on or is lost.  The tx handler's reset of an
index that points behind the buffer is in `TxIrq`.  `events` names what makes lines
and echo differ from what was typed.

## 3. Runs

| Run | Bounds | Shows |
|---|---|---|
| `buddy_pages` | MAX_ORDER 2, 12 pages, ranges 2..3, 3..4, 6..6 | reservations that overlap, cross top blocks or have no length, in any order, then all calls: pages are held once, headers tell, buddies coalesce, counts are exact, requests are refused only when they must be |
| `buddy_list_ticks` | MAX_ORDER 2, 8 pages, 2 threads, one top block reserved, 3 ticks inside calls | the same pointer by pointer: rings stay sound unless torn |
| `kmalloc_heap` | 4 pages of 64 bytes, 2 caches, sizes at each boundary, 4 pointers | callers' memory is disjoint, slabs account for their chunks |
| `threads_lab5` | 4 tasks, fork masked, no kill, 2 tasks from `fork_demo` and `thread_demo` | the properties of a correct scheduler, but for two named windows, and round robin (liveness) |
| `threads_lab7` | 4 tasks, all unmasked, kill, one task from `fork_demo`, `thread_demo` or `exec` | each failure has one of the named windows behind it |
| `exceptions_nested` | 3 tasks, 2 frames on a stack | programs come home, waiting contexts lead home, a handler keeps its mask |
| `signals_calls` | 2 tasks, one of which calls exec, 3 signals of which 2 are sent and one handled | handlers, fork and exec in handlers, torn updates; delivery goes on (liveness) |
| `vfs_names` | 2 tasks, 7 vnodes, 2 entries a directory, 2 mounts, paths of one name or two | names, descriptors and the tree agree; paths resolve |
| `vfs_mounts` | 2 tasks, 8 vnodes, 3 mounts, an archive of two files | an archive that was mounted alone is complete, with `open` and `mkdir` refused in it |
| `fileio_calls` | 2 tasks, one of which calls exec, a descriptor each, a file of 2 bytes, 2 struct files, seeks to 0, 2 and -1, counts 1 and 2 | sizes, contents and positions, close and fork cut in the middle, exec's late read |
| `timers_tasks` | 4 tasks, delays 1 and 2, queues of 3, one second, nesting of 3 | no task lost, doubled or early, no store outside a queue; each runs (liveness) |
| `uart_typing` | 3 bytes typed, buffers of 3, a line buffer of 2 | lines and echo; a line that ends is returned (liveness) |

Why the bounds are enough.  *Buddy*: three top blocks and three orders have a
merge that stops at the top, one that stops at a used buddy, one at a buddy
that is split, and a buddy index in either direction; the ranges cut blocks of
every order above 0, and one top block stays whole.  *BuddyList*: two threads
are what it takes to cut an operation, and three ticks let each be cut and
resumed; after the first tick no call begins, but those that have begun end.
What is reserved is a whole block, so no reserved block is merged in this run:
`buddy_pages` and the theorems have ranges that leave free neighbours.
*Kmalloc*: a slab of cache 16 has two chunks and of cache 8 four, three pages
are available, so slabs become full and partial again while other slabs of the
cache exist; the sizes lie on and next to each boundary, and a block of two
pages with one of a page leaves no page for a slab.  *Threads*: four tasks are
the shell, a parent, a child that is being created and one that is being reaped;
two tasks from the shell let a fork of the first meet the shell's second
`thread_create` in `threads_lab5`; in `threads_lab7` one is enough, since its forks
are unmasked and meet each other and `kill_zombies`.
*Exceptions*: two frames are a system call and an interrupt in it, or an
interrupt and one in its tail; a third would be taken by the same code in the
same states.  Three tasks are one that switches out, one that comes in, and one
whose stack must not change.  *Signals*: signals 2 and 3 are the least pair of
which one is shifted into another number that is itself a signal; one task calls exec,
while the other sends to it before, in and after the call.  *Vfs*: two
entries fill a directory with one task still in its search; the mount point
`/i` has the archive (the path `/i/k` of the models), `/d` is a directory made
meanwhile.  *FileIO*: a position at the end, in the middle and past the end of
what was written, and below 0; two struct files, of which one is closed and at
once given to the other task, by open or by fork.  *TimerQueue*:
three slots are the least heap in which a task has two children, and a fourth
task finds it full.  For an interrupt to fill the queue between the test and the
use of its size takes two tasks that set others and frames six deep, more than this
run has; draining one between its test and its use takes three frames, and the
run has it.  The theorem covers both, for any depth.  *Uart*: three bytes are a
letter, one that edits or follows it, and the end of the line; the third finds the
last slot taken, as it finds the line buffer full after two letters.

Named bounds: `Tasks` bounds the tasks ever created (`task_struct`s are never
freed by the code), `ShellTasks` how many of them the shell creates, `freed`
counts to two; `MaxVnodes`, `MaxMounts` and `MaxCwd` bound what the code never
frees, `MaxCuts` the ticks inside calls, `MaxFrames` and `MaxDepth` nesting,
`MaxNow` time and `MaxTyped` input; `Sizes`, `Ranges`, `Kills`, `Handled`,
`OpenPaths`, `Counts`, `Offsets`, `Delays` and their like are the inputs.

Symmetry is used where the runs check safety only: threads of `buddy_list_ticks`,
pointers of `kmalloc_heap`, tasks but the shell in `threads_lab7` and
`exceptions_nested`, bytes of `fileio_calls`.

Deadlock is checked in `kmalloc_heap` and `threads_lab5`.  The other models stop
where the code has left what they describe (`"corrupt"`, `"wild"`, after a window
of `Exceptions` was hit), or at one of the named bounds, or, in `signals_calls`,
when all tasks have ended.

Fairness.  `Threads!FairSpec` is weak fairness of `Tick`, as `irq_handler` arms
the timer each time (`set_shedule_timer`, line 110), and of the steps of a task
that is inside the kernel, idle or in `foo`; user programs owe nothing.
`FairSignalSpec` of `Signals` is weak fairness of delivery (every task that `schedule`
may choose is interrupted again and again, see `EveryTaskGetsItsTurn`; one that is
`TASK_PENDING` owes nothing, and `SignalsGetThrough` does not speak of it) and of a store that is
due, and strong fairness of `Sigreturn`: a handler returns, although it may be
interrupted or make calls of its own on the way.  `TimerQueue!FairSpec`: time
passes, a timer interrupt that is due is taken, and the processor runs the last
frame; setting timers and the UART's interrupts owe nothing.  `Uart!FairSpec`:
the reader's loop runs, and the tx interrupt comes while it is enabled; nobody
must type.

## 4. Proofs

TLAPS checks these for every value of the constants that satisfies the named
`ASSUME`s of the modules.  The assumptions say of which kind a constant is, and
beyond that: that the number of pages is a multiple of the greatest block
(`PoolAssumption`), the geometry of a slab page, whose header leaves room for a
chunk of the largest cache (`SlabAssumption`, `slab.h` and `slab.c:25`), that a
request fits an `int` unless it is one whose conversion is modelled
(`SizeAssumption`), that the bytes of the line discipline are different
(`UartAssumption`), as are `/` and `.` (`PathAssumption`), and that tasks, and struct files, are finitely many.  Powers
of two are described by facts the provers cannot derive, since they follow by
induction: `PowAssumption` (the last of its facts is divisibility) and the
conjunct on `2 ^ IntBits`.  TLC evaluates every assumption for the constants of
the runs.  That `BuddyOf` is the exclusive or of the code is evaluated by
`MCBuddy`.

In each module the properties of the runs are not inductive one by one, and the
theorem `Inductive` is of the invariant that is.  TLC checked each of these
invariants on the constants of a run before it was proved.

**BuddyProofs.**  `TypeCorrect`, `NoPageTwiceNoPageLost`, `HeadersTruthful`,
`ReservedAlone`, `ListsIntact`, `PoolAlwaysSound`, and `KeepsPromise`, that Buddy
implements PageAllocator.  That two blocks never overlap after a merge rests on
the buddy being a whole block with the order the header tells, which rests on
headers of listed, live and withheld blocks being right, and this again on the
blocks being aligned and disjoint, so that a write to one header is a write to no
other.  `IInv` is the conjunction of types, alignment of every block held, the
partition, the headers, and what each `pc` says of the locals (a block in hand
has an order no less than the one wanted while it is being split, and so on).
`PInv` adds what `PoolSound` needs in the middle of a call: which block may have a
free buddy while it is split or merged, how far a count is from its list, and
which pages of the range in progress are withheld already.  In the refinement
the step that refuses has the burden: if no list from the order wanted upwards
has a block, no aligned block of that order is without an owner, because
neighbours that are both free would have been merged.  The arithmetic (halves
of a block partition it; two aligned blocks are nested or apart; the buddy of a
block makes with it an aligned block of the next order) comes first in the
module; `KmallocProofs` repeats the few of these lemmas that it needs.

`ListsAlwaysSound` and `ListsKeepPromise` are about `BuddyList`, from the
invariant `LInv` (`ListsInductive`).  `Walk` is a recursive function, of which
nothing can be proved by induction; so a list is said to be a `Ring`: head and
entries are closed under `next` and `prev`, the two undo each other, and no proper
part that has the head is closed under `next`.  That a ring without an entry, or
with one more, is a ring follows from that directly, whatever its length
(`RingDeleted`, `RingAdded`), and `RingWalk` shows once, by the least number of
steps after which it would be wrong, that a walk meets what is on the ring and
nothing else.  The stores of an operation are a fold, which `AppliedEach` takes
apart store by store.  `LInv` speaks of the links as they will be when the call
that has the processor has made its stores (`Made`): these are rings, the blocks
on them together with the live, the withheld and the one in the call's hand are a
partition, and the headers tell who has what (`Sane`).  A store then changes
nothing, and each other step moves a block from one holder to another, cuts one or
joins two.  A tick while a call searches or after its last store leaves all this
true for the next thread, and any other sets `torn`.  For `memory_reserve` the
invariant has the two cursors of `list_for_each_safe`: `pos` is on the ring of its
order or its head, and `n` is what follows it, also after the block at `pos` was
taken off and its halves were put on another ring.

**KmallocProofs.**  `HeapAlwaysSound`, and `KeepsPromise`, that Kmalloc implements
Heap.  The invariant is stated of a heap given by its parts (`Sound(B, S, P, F, H)`:
blocks, slabs, partial and full lists, pointers), so that `slab_create` and the
chunk that is taken from the new slab are two steps of the proof where they are
one of the code.  It says that each slab and each allocation has a part of the
memory of its own; that each chunk of a slab is on its free list or with one
pointer, and never both; that a slab is on one list of one cache, on `full` when
nothing is left in it.  Why `free` always finds the allocator a pointer came from
is a lemma of its own (`PageTells`): a chunk never starts a page, as the header
does, and a block always does.

**ThreadsProofs.**  `WalksEnd`, `OnlyStaleRevives`, `OnlyUnreadyWild`,
`StacksAlwaysFreedOnce`, `OnlyOverlapLoses` and `AlwaysSoundWhenMasked`.  Ticks cut
ring updates into each other anywhere, and lists with lost and dangling entries
are reachable, so there is no sequence the ring could be said to be.  What
always holds is a rank (`Ranked`): a number for each task that was ever appended,
greater than those of all before it, such that `next` leads to a task of a higher
rank or to pid 0 and `prev` to one of a lower rank.  Each store keeps it, because
each takes its value from `prev` of the head or from the neighbours of an
appended task, whatever other updates did meanwhile.  Hence the loops of
`schedule`, `get_thread` and `thread_stop` end.  `Fresh` is what holds until a
choice goes stale (who runs is not terminated, and whom the current task chose is
still as it was when chosen); `Mended` is, while no two updates have overlapped,
the ring that will be there when the update in progress is done; `Orderly`,
`Numbering` and `Counting` are for lab 5 (`AlwaysSoundWhenMasked` has `Lab5` as a
hypothesis: masked fork, no kill, no `exec` from the shell; the number of tasks and of
commands is any).  An unset child is known to one task, which runs and cannot be
interrupted; only the shell can be cut in its `id_counter++`; and as long as nobody is,
one task at a time is in it and every pid given out is below `id_counter`.

**ExceptionsProofs.**  `AlwaysComesHome`, `StacksAlwaysSound`, `HandlerNeverDisturbed`
and the action property `FramesAlwaysUntouched`.  What brings a program home are
the frames below the point where its task is, and the registers alive there.
`GoesOn` says for one point what must lie below it, `FramesSound` that each frame
of a stack was pushed at such a point, `Waiting` that a task that is switched out
has such a stack.  A point may hold another one in a register, and a frame may
hold that, to any depth: types are therefore stated with a set of points closed
under it.  The proof found a third window that the runs' properties had not
named: `switch_to` may go to a task that ended between the choice and the switch
(`"stale"` in `events`), which resumes frames that nobody kept.

**InterruptProofs** has what an interrupt does before it returns, of two modules
it extends together; the names of `Signals` have a prefix where they would meet
those of `TimerQueue` (`SignalInit`, `SignalSpec` and so on).

`QueuesAlwaysSound`, `NeverBeforeDue`.  `IInv` has three layers.  Whatever an
interrupt meets, the shell lies below the interrupts, and no slot that was never
written is taken, also by a `pop_task` whose `size` was changed under it
(`NoGarbageTaken`).  As long as no interrupt has met a queue half changed
(`Whole`), only the running frame is in the middle of a change (`OneChanges`) and
what it has read is still so (`ReadsHold`); every task that was set is in one
place of five, the two queues, the frames, the tasks dropped and those that ran
(`OnePlace`); and the timer queue is a heap but for the one task that rises in it
(`HeapRising`).  As long as no interrupt came between a new first task and its
timer either, and every delay fits the timer's register, the timer is not after
the first task (`OnTime`).  `Add` and `Pop` gather the slots a task passes through
with a recursive function.  That this is a path, each of whose slots is left for
the next, would be an induction; it is proved instead from the least number of
steps at which it would fail (`LeastNumber`, `CollectorExists`,
`CollectedIsPath`).  What the loops do to the queue is then a permutation along
that path (`ShiftKeeps`, `AddHolds`, `PopHolds`).
The proof attempt changed the model: with nesting deeper than the run's, an
interrupt that comes after `add_timer_task` has read the size of an empty timer
queue can still run a deferred task that sets another, into the slot that the
interrupted call then writes.  `cut` records this case now as well.

`HandlersReturnToProgram`, `SignalsAccounted`, `SignalTypesHold`.  The invariant
adds that a task in a handler that has not been forked there, nor come there after
a failed exec, has `signal_handling` set and its program in `sigframe`: this is why `signal`'s early
return protects the frame.

**FileIOProofs.**  `FileAlwaysSound`, `DescriptorsApart`, the action properties
`PositionsAlwaysMoveAlone` and `ReadsAlwaysSound`, and `FileKeepsItsPromise`, that
FileIO as one task sees it implements ByteFile.  A call is cut into steps, so what it
read from its struct file in one has to hold in the next: that rests on the struct
file being the call's own.  `Owned` says of every struct file that it is on the free
list, or of one descriptor that is not being closed, or of one exec that has not
closed it yet; a descriptor between `vfs_close` and its clearing has none of its
own.  On this rest the positions, which no one else moves, and what a read in
progress knows of the size.  That a whole read copies nothing unwritten needs that
every byte below `datasize` was written (`FilledIn`) and that a position that no
seek or exec has moved is not past it.

**VfsProofs.**  `TreeAlwaysSound`, `ArchiveAlwaysComplete`, `NamesAlwaysApart`,
`PathsAlwaysSound` and the action property `ForkHandsDown`.  In the first part of
the module, which is about the tree, what a walk along a path returns is not
computed: the steps after it are shown right whatever vnode it found.  `Tree` has
the types, and that
a directory and its entries belong to one file system, so that a call that adds
to tmpfs disturbs no archive.  `ArchiveInv` says of a mount that has `file_list`
to itself how much of the list is read and how much of the directory filled
(`OwnList`), and that two mounts fill two directories.  `NamesInv` needs that a
vnode is one entry of one directory (`OneEntry`), since a name is written into a
vnode and not into an entry; that of two calls that add to one directory the
second has put it in `lapped` (`OneAdder`); and that a create still has not found
its name when it writes it (`Looked`).  In `ForkInv` the child of a fork in
progress has what its parent has copied so far, and no more (`Copied`), and no
task has two parents.  `TreeInv` has how full a directory is at each point of the
call that fills it (`Sizes`), where mounts, descriptors and the histories point
(`Links`, `Handles`), and in `Found` that every vnode but the root is led to by
an older one.  For that a mount in progress must have its struct mount in the
tree, without a root and to itself (`Hooked`), and a create must not write over
an entry, which is `Looked` of `NamesInv`.  `NothingLost` used to say that all
vnodes are reached from the root, by a fold; the form that is proved implies it,
since a chain of older vnodes ends at the root.  The proof attempt changed the model: with three tasks a
child may fork before its parent's copies have reached it, and then gives its own
child an incomplete set; with the two tasks of `vfs_names` this cannot happen.
It is now one of the cases `hasty` records, and the theorem holds for any number
of tasks.

The second part, for `PathsAlwaysSound`, does compute walks.  `get_absolute_path`,
the names of a path and the lookup are folds, which the community modules define
by a recursive function on sets of indices.  That the function exists, and has
after each element the value that the loop has, is proved once from the least
number for which it would fail (`LeastNumber`, `UpTo`, `FoldExists`, `FoldPrefix`).
A character of `get_absolute_path` then leaves a path from the root in which no
name begins with a dot (`Settled`, `Scanned`); the names of a path are those of its
dirname and its basename (`LastComponent`); and a lookup goes from vnode to vnode
(`Walks`), and through mounts to newer ones only, so that it ends (`Newer`,
`Grounded`, `MountedTo`).  A step of another task leaves what a walk found where
nothing overlapped and nothing was mounted: a new entry, and an entry that gets
its name, is the last of its directory (`Unnamed`, `NamesKept`), while a search
takes the first of a name (`FindFirst`, `LookupStays`).  `PathInv` says that an open
file is found by its path (`Stands`), and of a create that has not finished that
the search of its directory is right and the name still missing (`Will`), which
makes the new entry the one that is found when it has its name (`NamedFound`).
Empty names are left out in `OpenFilesKeepTheirNames` for that reason: they find
an entry that waits for its name.  The proof attempt changed a property:
`StaysFromRoot` is false for paths with a name that begins with a dot and is
neither `.` nor `..`, of which the run had none; it now says so.

**UartProofs.**  `EchoAlwaysSound`, `LinesAlwaysSound`.  Between the reader's load and
store of an index the tx handler may count it down; `Spare` says that the
index stored is then one too many and never too few, for which reason the
handler never counts below zero.  `OneAtATime` has the bytes put, on their way and
sent as one sequence while no two met; `Popping`, `LineTyped` and `InOrder` say of
each point of `async_gets` which part of what was typed is in the line and which
is still in the buffer, until the line leaves its own buffer below or above.

Only model-checked:

- Liveness (`EveryTaskGetsItsTurn`, `SignalsGetThrough`, `SetTasksRun`,
  `LinesReturn`): the prover does not handle liveness under fairness, or ENABLED.
- `ResolvesShallow`: that `get_absolute_path` gives what a path means is evaluated
  on paths of five characters.  That what it gives begins at the root, which the
  lookup relies on, is proved.

No module has a RECURSIVE operator.

## 5. Where the code and its documents disagree

1. `include/lib/list.h:127` says of `list_first_entry` that the list "is
   expected to be not empty".  `__allocate_pages` tests and takes with
   interrupts enabled: another thread can empty the list in between
   (`FirstEntryOfNonEmpty` without its exception for torn calls fails).
2. `main.c:32-36` reserves spin tables, the kernel, the device tree, the
   initramfs and the user stack.  `__free_pages` (`buddy.c:133`) stops at
   `PAGE_USED` only and merges with a reserved buddy, whose page is then handed
   out.  It needs a reserved block with a free buddy, and `memory_reserve`, which
   takes the page at the rounded end as well, leaves such blocks
   (`OnlyReservedMisleads` names the state).
3. `slab_create` (`slab.c:21`) does not test for NULL; callers such as
   `syscall_exec` do test what `allocate` returns.
4. `allocate(int)` (`kmalloc.c:4`) gives a chunk for 2^31 bytes; the test in
   `src/lab4-memory-allocator/kernel/main.c:99` expects "no print".
5. The loops over a directory (`tmpfs.c:97,116,153`) run to `MAX_DIR_ENTRY`
   inclusive, where `include/kernel/tmpfs.h:9` declares that many entries: a search
   for a name that a full directory does not have goes on in the data pointer.

Behaviour that no document speaks about, and that the models show: tasks lost
to overlapping ring updates; a terminated task revived; a child resumed at
address 0; stacks freed twice; programs resumed at another's `ELR_EL1`; signals
delivered under a smaller number; a task deaf to signals after a failed exec in a
handler;
a task left `TASK_PENDING` by lab 7's exec; files and archives lost to calls that
overlap in a directory or a file list; a directory opened in place of a file that
could not be created; deferred tasks lost or run twice; the shell's `exec` entering
its image at EL1; a descriptor that points to another task's struct file between
`vfs_close` and its clearing; bytes read in the order
opposite to the one in which they came; `cd .a` at the root, which makes the
working directory `a` without a `/`, of which the lookup then drops the first
character.  These are the exceptions named in the properties.

## 6. Not modelled, and why

- Virtual memory.  Lab 6 as committed maps nothing: `allocate` returns a virtual
  address, `map_pages` takes it for a physical one and adds the offset again
  (`src/lab6-virtual-memory/kernel/vm.c:70`), so the first access through the new
  table faults and `trap_handler` ends the task.
- Mailbox: one request and its answer, polled; the device's side is not in the
  repository.  Boot loader, cpio and device tree readers, startup allocator,
  console, strings: straight lines and parsers without state that outlives a call.
- Slab calls that preempt each other: a call of `Kmalloc` is one step.
- The walk of `thread_stop` and `get_thread` is one step.
- Killing pid 0: `schedule` then may have no task to find, and its loop no end.
- `signo` and `signum` out of range, and `lseek64` of a descriptor that is not
  open: the code does not test them, and what they reach depends on the layout
  of `task_struct`.
- What exec's reads copy, and how far they overwrite the image: `FileIO` has the
  struct file and its position only.
- Names and paths longer than their buffers, and writes past `MAX_FILE_SIZE`:
  the models stop there, since what is overwritten belongs to others.
- Delays of more than 32 bits of timer ticks (`timer.S:35`): `Tval` has the width,
  but the runs keep to delays that fit.
- What is freed twice (lab 4's `main.c:88,96`): `Kmalloc`'s callers free what
  they hold.
- The stacks' contents, copied by fork; the models abstract them to frames,
  `context` and `point`.
- Boot order (`main.c:22-30`): interrupts and the timer are enabled before the
  allocator and the threads exist.
- The earlier labs.  Six of the seven directories repeat, file by file, most of
  what the next one has; a definition here stands for one copy, and the lines of
  the others are not counted as modelled.

## 7. Plan

One module is left to write: `SlabList`, the slab calls of lab 7 store by store with
two threads, on `KernelList`, the way `BuddyList` does it for the page allocator.  It
would state what becomes of two system calls that take the same first object
(`slab.c:58`).
