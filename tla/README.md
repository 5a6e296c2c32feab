# Pintos kernel: a TLA+ verification project

This directory specifies the kernel in `src/pintos/src`: a Pintos with the
threads, user-program and file-system projects worked on.  It says what the
concurrent parts of the kernel promise, checks with TLC on small instances that
the code keeps the promises, and proves the most important of them with TLAPS
for any number of threads, locks, conditions, processes, pages and sectors.

The machine is a PC with one CPU.  All concurrency comes from interrupts: a
timer interrupt may preempt the running thread wherever interrupts are on, and
device handlers change the state that threads share with them.  Code that runs
with interrupts off is atomic, and every model here is cut exactly there.

## 1. Inventory

`.` stands for `src/pintos/src`.

| Component | State | Operations | Uses / is used by | Modules |
|---|---|---|---|---|
| Scheduler, `threads/thread.c` | `ready_list`, status of each thread, running thread, `idle_thread`, `thread_ticks`, `next_tid` | create, block, unblock, yield, exit, tick, idle, schedule | synch.c blocks and unblocks through it; `allocate_tid` uses a lock of synch.c | `Thread`, `Synch` |
| Synchronisation, `threads/synch.c` | value and wait list of each semaphore, holder of each lock, waiters of each condition | sema down/try/up, lock acquire/try/release, cond wait/signal/broadcast | everything above it | `Synch`, `Monitor` |
| Interrupt core, `threads/interrupt.c` | interrupt level, yield-on-return flag, handler table | enable, disable, dispatch | timer, keyboard, serial, disk handlers | in the models of its users |
| Timer, `devices/timer.c` | `ticks`, `loops_per_tick` | interrupt, sleep (a busy loop of yields), calibrate, delays | `thread_tick` | `Thread`, `Clock`, `Library` |
| Interrupt queues, `devices/intq.c`, with `input.c`, `serial.c`, `kbd.c` | circular buffers, waiter pointers, a lock, the port's interrupt enable register | getc, putc, wait, signal, notify | threads on one side, handlers on the other | `Serial`, `Fifo` |
| Console, `lib/kernel/console.c`, `debug.c`, `lib/stdio.c` | `console_lock`, its depth, whether it is used at all | puts, putbuf, printf, panic | serial and video below, system calls above | `Console`, `Format` |
| Video, `devices/vga.c` | frame buffer, cursor, cursor registers | putc | console | `Screen` |
| Processes, `userprog/process.c` | `process_list` of `struct process` (parent, children, dead, loaded, exit status, executable, two semaphores), address space, stack | execute, start, load, wait, exit | scheduler, semaphores, heap, file system, page directories | `Process`, `Loader`, `CommandLine`, `Files` |
| Page directories, `userprog/pagedir.c` | two-level tables | create, map, look up, destroy | the loader | `Loader` |
| System calls, `userprog/syscall.c` | `filesys_lock`, open files of each process | 13 calls | processes, file system, input, console | `Process`, `Files`, `Console` |
| Exceptions, `userprog/exception.c` | fault counter | page fault, kill | processes | `Process`, `Console` |
| Page and block allocators, `threads/palloc.c`, `malloc.c` | bitmaps, arenas, free lists, locks | get, free | everything | `Alloc` |
| Disk, `devices/disk.c` | per channel: lock, semaphore, `expecting_interrupt`; disk or not | start-up, read, write, interrupt | free map, inodes, cache | `Disk` |
| Free map, `filesys/free-map.c` | bitmap of sectors and its file | allocate, release, open, close | inodes, filesys | `Files`, `Blocks` |
| Inodes and buffer cache, `filesys/inode.c` | open inodes, reference and deny counts, block indexes, cache of 64 sectors | create, open, close, remove, read, write (with growth) | directories, files | `Files`, `Blocks` |
| Directories, files, file system, `filesys/*.c` | entries; position and deny flag; root directory | lookup, add, remove, open, close, seek, create, start, shutdown | system calls | `Files`, `FileStore` |
| Kernel library, `lib/kernel/`, `lib/` | lists, hash tables, bitmaps; none for the rest | insert, remove, sort, rehash, scan, divide, copy, format | everything | `List`, `Hash`, `Bitmap`, `Library`, `Format` |
| Boot, user library, tests, tools | | | see `PROJECT.json` | |

What is hard here, and what each part has to get right:

* **Scheduler.** `elem` of a `struct thread` is one list element for the run
  queue and for every wait list.  A thread unblocked in a wrong state, or put on
  two lists, corrupts both.  Before `idle()` has run for the first time there is
  nothing to fall back on when the run queue is empty.  Correct: the run queue is exactly the
  set of ready threads, one thread runs, every ready thread runs in the end, and
  no two threads have one tid.
* **Synchronisation.** `sema_up` does not hand the unit over: a thread that
  never slept may take it before the sleeper runs.  `lock_acquire` and
  `lock_release` write the semaphore and the holder apart, and `cond_wait`
  releases the lock and goes to sleep in four preemptible steps, one of them
  under a semaphore of its own.  Correct: mutual exclusion, no lost wakeup, no
  signal lost or doubled, first-come-first-served signals.
* **Interrupt queues.** A handler moves a byte at any moment a thread has
  interrupts on; the port's enable register is a cached function of both queues;
  `wait` asserts a condition that another thread may have changed while the
  caller slept on the lock.  Correct: bytes in order, none lost or doubled, no
  sleeper forgotten, the register exact.
* **Processes.** Parent and child race at start (the struct of the child is made
  after the child may run), at the load (the parent may not sleep yet) and at
  exit (the test of `is_dead` and the sleep are apart); `process_list` is walked and
  changed with interrupts on and no lock; structs are freed by
  whoever believes to be last.  Correct: a wait returns the status of the child it is
  for, exactly once; an exec says whether the load worked; nobody uses a struct
  that is not there.
* **File system.** Only read and write take `filesys_lock`.  The cache is filled
  and emptied across blocking disk calls without a lock; an inode is on the open
  list before it has been read; nothing is undone when the disk is full; a
  shutdown keeps what `inode_close` has written.  Correct: a sector has one owner,
  counts are exact, a file reads as it was written, also after a reset.
  `inode.c`, `free-map.c` and `disk.c` hold unresolved merge-conflict markers.
* **Disk.** Two threads, two disks and one interrupt share a channel; an interrupt is
  the answer to a request only while `expecting_interrupt` is set.  Correct: every
  request moves its own sector and is answered.
* **Clock.** `ticks` is 64 bits wide on a 32-bit machine, and a handler writes it.
* **Console.** Two locks are held across code that may fault, a page that held one may
  become another thread, and a panic must print whoever holds them.
* **Program start.** Sizes, offsets and addresses come from a file; every page must be
  freed once, however far the load got; arguments are pushed on one page.
* **Allocators.** One lock each, with a few paths around it.
* **Library.** Pointer surgery, in-place sorting, rehashing, widths and rounding.

`PROJECT.json` lists each of these hazards at its line, with the properties that
cover it, or the reason why none does.

## 2. Modules

| Module | What it is |
|---|---|
| `Thread` | the scheduler: one step per call, everything under interrupts off atomic |
| `Synch` | EXTENDS `Thread`: semaphores, locks, conditions, thread creation, idle |
| `Monitor` | what locks and conditions promise, abstractly |
| `Process` | exec, start, wait, exit of user processes |
| `Serial` | interrupt queues, serial port, input buffer |
| `Fifo` | what an interrupt queue promises, abstractly |
| `Clock` | `ticks` and sleeping |
| `Console` | messages, the two locks around them, dying processes, panics |
| `Alloc` | page allocator and, on top of it, block allocator |
| `Files` | system calls, directory, inodes, cache, free map and disk contents, with shutdown and start |
| `FileStore` | what the file system promises, abstractly |
| `Blocks` | direct and indirect sectors of one file |
| `Disk` | the driver of one channel and its two disks |
| `Loader`, `CommandLine` | the address space and the stack a program starts with |
| `List`, `Hash`, `Bitmap`, `Screen` | data structures, each against what it stands for |
| `Library`, `Format` | arithmetic, sorting, copying, delays; `printf` |
| `Devices` | `Serial`, `Clock` and `Console` side by side |
| `SynchProofs` | theorems about `Thread` and `Synch` |
| `ProcessProofs`, `AllocProofs` | theorems about `Process` and `Alloc` |
| `SerialProofs`, `DeviceProofs`, `DiskProofs` | theorems about `Serial`, `Devices` and `Disk` |
| `FilesSteps`, `FilesProofs` | theorems about `Files`: the invariant and half of the steps, the other half and the theorems |
| `MCSynch`, `MCProcess`, `MCAlloc`, `MCFiles`, `MCDevices` | instances of one module each |
| `MCParts` | instances of `Disk` and of the nine modules that compute |

`Devices` and `MCParts` put several modules into one specification: they EXTEND one, `Serial`
and `Disk`, and have the others by INSTANCE.  The variable `part` names the one that an
execution is of, and the variables of the others stay as they are: the modules stand side by
side, they are not composed.  They share no state in the code either, but for the order of
locks, which `Console` has in it.  As an execution of another part leaves the variables of
`Serial`, or `Disk`, in an initial state, every execution is one of that module too.

### Thread and Synch

`current`, `status`, `readyList`, `idleThread`, `threadTicks` are the variables of
`thread.c`.  `intr[t]` is the interrupt level at which `t` continues: `thread_block`
is called with interrupts off and returns so, whereas a preempted thread comes
back to code with interrupts on.  `Schedule(st, q)` is `schedule()` together with
`next_thread_to_run` and `schedule_tail`; its caller has changed the statuses to
`st` and the queue to `q`.  `SchedNext` lets the running thread call anything at all
whose ASSERTs hold; `Synch` narrows this down to the calls that are really made,
and `UsesScheduler` states that it does.

`frame[t]` of `Synch` says where in `synch.c` or `thread_create` the thread `t` is:
the label, the lock, semaphore, new thread or condition of the call.  The header
of the module shows how every function is cut.  A thread at `"code"` runs the
client's own code and may call anything whose preconditions hold (the ASSERTs: a
lock is not acquired twice, a lock released or a condition used only by its holder;
and, from the clients: a thread holds no lock when it exits, and each condition has
one lock).  The list elements are abstracted to sequences.  `allocate_tid` is
modelled with its lock, its load and its store.  `InterruptUp` is a device handler
that ups a semaphore.

`Monitor` has an owner per lock, a queue per condition, and `resume`, the lock a
signalled thread must take back.  Waiting is one step.  Under the mapping at the end of `Synch` a thread in
`lock_acquire` owns the lock from the moment it has taken the semaphore, and a
thread in `cond_wait` is waiting from the moment it has released the lock, although
its list element was in place before: it holds the lock until then, so that no
other thread can have looked.

### Process

`proc[p]` is the struct of `p`, and `at[p]` where its thread is.  `process_list` is the doubly
linked list it is in the code: `next` and `prev` are the pointers, `First` and `End` the head and the tail
element.  Every call to `find_process()` is a walk of it, one `list_next()` per step (`Search`, `Walk`,
`Found`); `list_push_back()` and `list_remove()` store one pointer per step (`Link`, `Tie`; `Skip`, `Close`), and
`free()` is a step after them (`Free`).  `op[p]` is where the thread stands in one of the three.  `list` is the set of structs linked in,
`freed` that of structs given back; a step that uses a null or freed struct, or fails an ASSERT, is `Fault`, after which
nothing more happens (in `page_fault` the handler needs the same struct).  Tests of a wait list and the
`sema_up` that follows are two steps, so that two exiting children may both find their parent asleep and bring its
semaphore to 2.  Each `sema_down` is one step and one more when the thread was woken.  `thread_create()` and
`malloc()` may fail.  `exited`, `reaped` and `ret` are
history variables: what a process ended with, whose status has been delivered,
and what the last call of each process returned.

The code does not meet its contract in all circumstances.  `Assume` is the
set of conditions a run grants, and each violation run drops one of them:

| Condition | Meaning | Without it |
|---|---|---|
| `atomic` | no other thread runs while one is inside a walk of `process_list`, before it uses the struct it found, or in a change of the list (`InList`) | `process_walk` |
| `prompt` | no other thread runs in the windows of `InWindow` | `process_exec_race` |
| `onechild` | a process waits for one child before it starts the next | `process_siblings` |
| `reap` | a process waits for its children before it exits | `process_orphan` |
| `zeroed` | memory from `malloc` reads as 0 | uninitialised `exec_file` is closed |
| `memory` | `thread_create()` and `malloc()` find memory | `free()` of a pointer into a page, or a null struct (`process.c:88-96`) |

These are assumptions on the schedule and on the programs, not promises of the
kernel: the passing run `process` shows exactly that the six together suffice.  `prompt` and `atomic` take away
schedules that a timer can produce, so that of hazards that live in those windows the run shows only that nothing
else goes wrong; the violation runs show what goes wrong in them.

`NoWakeupLost` says that exec and wait return, as a safety property: a parent that sleeps has the `sema_up` of
its child still to come, and one that was woken finds the unit.

A process that `kill()` ends (`exception.c:93`) has no status stored; `exited` is `ByKernel` for it, and
`WaitContract` leaves open what a wait for it returns.

### Serial

`buf`, `head`, `tail` are the two circular queues: `"rx"`, the input buffer, and `"tx"`,
the transmit queue.  `off` says who runs with interrupts off.  `waiter`, `lock` and
`lockq` are the waiter pointer, the lock and its sleepers of each queue.  `ier` is
written where the code calls `write_ier`.  The keyboard's and the port's
handler both feed `"rx"`.  `level[t]` is the interrupt level at which `serial_putc`
was called: with interrupts off and a full queue it polls and never sleeps.

`Serialised` states that callers with interrupts on come one at a time to each
queue, because `console_lock` (writers) and `filesys_lock` (readers, in `sys_read`)
see to it.  Without it the ASSERT of `wait()` can fail, since a thread that slept on
the lock of the queue does not test the queue again before it waits.
`NoSleeperForgotten` says that a thread asleep on a queue is its waiter and that
the queue is still full, or empty.  `Fifo` is the abstract queue; both queues implement it.

### Clock

`ticks` is `lo` and `hi`, words of `Word` values.  `timer_ticks()` turns interrupts off,
loads the words one after the other, and restores the level; the timer's interrupt comes
only while nobody has them off.  `since` is the ghost of the time of the call:
`SleptEnough` compares it with the time at which `timer_sleep()` returns.

### Console

A thread is the page of its `struct thread`, because that is what the locks remember as
their holder.  A process that faults inside `sys_read` or `sys_write` ends with
`filesys_lock` held, and possibly `console_lock`; its page may then become another
thread, whom `lock_held_by_current_thread` takes for the holder.  `broken` is the ghost
set of the locks left behind so.  `MessagesRight` says that, until there is a panic, one
thread prints at a time and holds `console_lock` while it does, that the depth is what the holder
has nested, that both locks are held exactly by those who are about it but for those in
`broken`, and that nothing panics but a thread in such a page and a read into memory that is only
to be read.  A panic turns interrupts off and prints with or without the lock.

### Alloc

`used` is the bitmap of a pool, tested and set one bit per step, since another thread
may come between any two.  `kind` and `cnt` are what is at the start of a page: the
`desc` and `free_cnt` of `struct arena`, the client's data, or the 0xcc of
`palloc_free_multiple`; so a step that looks at the header of an arena that has gone
back to the pool sees something else there.  `freeList` holds blocks, `owned` what has
been returned to each client.  The lock of the pool and those of the descriptors are
reduced to their holders, which `LocksExclude` and `FreeLockTaken` justify: a free lock is taken by
someone, and not by a thread one could name.
`palloc_free_multiple` takes no lock: `Fill` and the steps of `Clear` may come between a
`Scan` and a `Flip` of another thread, and `PagesAccounted` says that this is harmless.
A client passes to `free` only what it has been given, and passes it once.

### Files and FileStore

One process is a list `todo[p]` of tasks: the pieces of a call between two accesses to the
disk or two functions that may wait.  A task that needs a sector goes through the cache:
`is_hit()` and, on a miss, `new_entry()` (which takes the oldest entry off the list), the
write-back of that entry, the read, and the insertion, each a step of its own.  `disk` is
what the disk holds, so `CallHalt`, `PowerOff` and `Boot` can switch the machine off with
the cache not written back, as the commented-out loop in `filesys_done()` leaves it.
`Then(p, new)` puts tasks in front of the rest of a call, which is how `inode_close` gives
back or flushes every sector, and `inode_write_at` grows a file.  A block of a file is one
of a few values; a position counts blocks.  When the disk is full, growth panics
(`direct_allocate` is the only one to look), as the code does.  A name that `dir_add()` refuses as invalid is refused by
`Unique` before it looks anything up; a descriptor that `find_file()` does not know ends the process in
`CallRead`, `CallWrite` and `CallSeek`, and the ASSERTs of `sys_seek()` and `file_seek()` panic.  The buffers
that processes pass are mapped: a fault under `filesys_lock` is left to `Console`, which has the lock it leaves behind.

`FileStore` has names, files as rows of blocks, handles and denied writes, and no
disk.  Under the mapping at the end of `Files` a block is what the cache, an entry
on its way to the disk, or the disk holds, in that order; `FilesSpec` is the refinement.
It covers a reset: what was closed before survives it.

The file system does not keep its promises for every schedule and history.
`Assume` says what the run grants; with any one of the three dropped TLC reports
`FilesSpec` as violated:

| Condition | Meaning | Why the code needs it |
|---|---|---|
| `alone` | only reads and writes of open files run beside each other | all other calls enter directory, free map and inodes without a lock; an inode is on the open list before it is read |
| `noreuse` | no free sector is cached when a call that allocates starts | `inode_close` leaves the sectors of a removed file in the cache, and new blocks are zeroed past the cache |
| `quiet` | the machine is switched off between calls | `sys_halt` waits for nobody, and nothing is written back |

Where `inode.c` and `free-map.c` hold conflict markers, `Files` and `Blocks` follow the side
named HEAD.

### Blocks

One file of at most `DirectCnt + IndirectCnt` sectors, created, grown and removed on a
small disk, some sectors of which other files have taken.  The operators `AllocateAll`,
`FillTable` and so on carry the state through the loops of `inode.c`; a buffer that was
never filled holds `Junk`.  `BlocksRight` says that, as long as the disk has not been found
full, each call leaves the file with distinct sectors that are its own, none of them its table;
that growth moves no sector and zeroes the new ones; and that a panic comes only from
growth that finds too few sectors, or from growth that crosses the end of the direct sectors but ends too soon
behind it, which is what the order of two assignments at `inode.c:522` makes of it.  What a
full disk leaves behind is in the model, and nothing is claimed of it.

### Disk

`at[t]` is the next thing a thread does in `disk_read`, `disk_write` or
`identify_ata_device`.  The device takes a command, is busy, raises an interrupt with data
or after storing, and may fail any command; a reset may leave an interrupt that nobody waits
for.  The driver's polls are assumed to be answered within their time limits.  `platter` is what is on the
disks.  `Served` relates the request of a thread to the device, the platter and what it
gets; `DiskAnswered` says that every request ends or panics.

### Loader and CommandLine

`Loader` reads program headers that may be anything in `Phdr` (misaligned, past the end of
the file, overlapping, wrapping round the address space), installs page after page in a two-level
page directory, any allocation failing or not, sets up the stack, and ends with the pages
given back.  A page is taken, filled and mapped in three steps; `hand` is the page (`kpage`) in between, which the
error paths must give back, and `panic` an ASSERT of `palloc_free_multiple()`, to which no page may be given
twice.  `ImageRight` compares memory, byte for byte and with its write permission,
with what the headers ask for, and counts the pages.  `CommandLine` follows the string from
`process_execute` through `strlcpy`, `strtok_r` and the pushes, over memory as bytes;
`ArgumentsRight` follows the pointers from `esp` and finds the words again, as long as the
array and the page are large enough.

### List, Hash, Bitmap, Screen, Library, Format

`List` has the pointers `next` and `prev`; `OperationRight` states the effect of each
operation on the sequence read from them, forwards and backwards.  Sorting, merging and
finding runs are there loop by loop.  `Hash` has bucket sequences; its `rehash()` walks the old ones element by element,
and what `list_next()` says is that of the list an element is in at that moment, so that it matters that
the next one is looked up before the move.  `Bitmap`
words, masks and partial words, `Screen` rows, wrapping, scrolling and the two cursor
registers; their `OperationRight` compare each step with a set or a grid.  `Library` and
`Format` have one call as their state and compare the algorithm with its mathematical meaning,
for all small inputs: the 64-bit division by parts, heap sort, binary search, overlapping copies,
and the flags, widths, precisions and types of `printf`.  `Library` has the first loop of
`timer_calibrate()` only: the second sets bits that are too many together (see the observations in section 3), and no property
calls that right.  `FormatRight` makes no claim about fields whose width is a negative star under the flag 0
(`PadsTwice`), which the code pads on both sides.  Some of these modules use
RECURSIVE operators; none is used by a module with proofs.

## 3. Runs

| Run | Instance | States | Shows |
|---|---|---|---|
| `synch` | 4 thread pages + idle, `tid_lock` and one lock, one condition, one client semaphore up to 1, tids to 4, slice of 1 tick, symmetry | 111,282 | all safety properties of `Synch`, and `Monitor` implemented |
| `synch_live` | 3 threads + idle, one lock, one condition, fairness | 58,472 | ready threads run, free locks are taken, signals arrive |
| `process` | `Boot` and two processes, all six conditions, symmetry | 57,482 | the contracts of exec and wait, no lost wakeup, no fault |
| `devices` | serial: 2 writers, 1 reader, 2 bytes, queues of 3 slots (2 bytes); clock: 2 sleepers, words of one bit, naps of 1 and 2 ticks, clock to 3; console: 3 pages | 81,285 | FIFO, exact register, no forgotten sleeper; no early and no lost wakeup; messages whole, calls and panics end |
| `alloc` | 2 threads, 2 pages, one descriptor with 2 blocks per arena, requests of 1 or 2 whole pages | 336,696 | memory is exclusive, none is lost, the ASSERTs hold, calls return |
| `files` | 2 processes, 2 names, 3 sectors for files, cache of 2, files of up to 2 blocks, 6 calls, one leaked handle, symmetry, all three conditions | 426,093 | a sector has one owner, counts are exact, `FileStore` implemented, through resets |
| `parts` | see below | 248,453 | the disk driver, the loader, command lines, sectors of a file, data structures, library, `printf` |
| `process_siblings`, `process_orphan`, `process_exec_race`, `process_walk` | as `process`, one condition dropped | | a comment of the code that the code does not keep |
| `files_race` | as `files`, without `alone` | | a comment of the code that the code does not keep |

In `synch` two creators with two fresh pages let two calls of `allocate_tid` overlap.  Four threads that also
use the client's objects would be too many states, so the constraint `Bounded` of `MCSynch` cuts the search: with the fourth
page taken, or a tid above 4, no client's lock, semaphore or condition is in use.  Three threads do everything.

`parts` has: a channel with 2 disks of 2 sectors, the start-up thread and one more; 4 list
elements of 2 keys in 2 lists; 5 hash elements, of which two are equal and a third collides with them;
bitmaps of 0 and 3 bits in words of 2; a display of 3 by 3; pages of 2 bytes, 5 for the user and
3 for the kernel, up to 2 program headers, 9 frames; lines of up to 6 characters, 2
arguments fit; 9 sectors, of which others may hold 2, files of 2 direct and 3 indirect
sectors, 5 calls; words of 4 bits for division (all pairs of 8 and 8 bits), arrays of 4 of 3 values; 5-bit integers for `printf`.

Why the bounds are enough to be interesting: with three threads one holds a lock,
one sleeps and a third comes in between, which is what barging and lost wakeups
need; `MaxTid` 4 lets every other thread be created and, with three, one page be used again; a slice of
one tick preempts anywhere.  A semaphore of at
most 1 already distinguishes a kept from a lost unit; the proofs need no bound.  A
queue of three slots is empty, half full and full, and its positions wrap.  A clock whose
words have one bit carries at every second tick, so that a torn read is off by a whole word at
once.  Three pages are two processes and a kernel thread, or a dead process, its successor on
the same page and a bystander.  Two
pages are enough for two arenas, or an arena and a page of somebody else's, or a big block
of two pages, and always few enough to run out; arenas of two blocks are empty, half used
and full.  A process, its child and its grandchild, or a parent and its two children, are the families in which
the code of `process_exit` takes each of its branches.  Six calls create, open, write and close a file, reset the
machine and look again; with three sectors a file of two blocks fills the disk, and a cache of two
evicts what was just written.  Two direct and three indirect sectors put
creation and growth before, on and behind the boundary.  Three bits in words of two make a whole
and a partial word, and four elements merge in two rounds.

Each property of a passing run has a mutant in `PROJECT.json`: a plausible slip in
one definition (a dropped wakeup, a kept list element, a lock not taken) that
makes TLC report the property.

**Deadlock** is checked in the `synch`, `alloc` and `files` runs.  It is not where the
system may stop: in `Process` all processes have ended, or a fault has; in `parts` a
computation is over or the disk has panicked; in `devices` the clock has reached its bound, or
the console has panicked.

**Fairness.** The timer does not stop (`WF(TimerInterrupt)`) and idle loops.  In `Synch` each
thread inside `synch.c` gets on with it if it runs again and again: strong fairness,
because preemption disables the step, and a time slice of real instructions is long
enough for one step, though not for a whole call.  Client code, devices and
keys need never act, so that no property rests on somebody releasing a lock.

`lock_release()` hands a lock to nobody.  A waiter it wakes goes to sleep again if it finds the lock taken, so a thread
that uses a lock over and over and blocks with it held can keep another from it for ever.  A thread that waits for a
lock is therefore only weakly fair in `Alloc`, in the console's part of `devices` and in the disk's part of `parts`: it gets the lock for
certain if the lock stays free.  `CallReturns`, `CallsEnd` and `DiskAnswered` accordingly promise that a call ends *or*
other threads' calls return without end; what they exclude is that all stop, and that a call hangs while the others are at rest.

In the serial port's and the clock's parts of `devices` threads are strongly fair, since their steps are also disabled while
others have interrupts off; there callers of a queue come one at a time (`Serialised`), so that its lock
is never waited for.  The interrupts of the timer and of the
transmitter are strongly fair, for they stay pending until somebody turns interrupts on; handlers run to their ends.
`CallersServed` excludes an endless stream of
writers with interrupts off, who never wait and can take all the room.  `CallsEnd` excepts who
waits for a key and who waits for a lock that a fault has left behind.
In `parts` the device, its interrupt and the start-up code are weakly fair.
`Process` and `Files` claim no liveness.

**Findings.** Five comments in the code are not kept by it; each has a violation run.
(1) A wait for one of two children returns when the other exits
(`process.c:316`, against 229-230).  (2) A process whose parent is dead frees its own struct and goes on with it
(`process.c:311-321`, against the cases named at 309 and 315).  (3) A child scheduled before
`process_execute` has made its struct finds none (`process.c:87`, against 52-54).  (4) A walk of `process_list`
that is preempted goes on from a struct that is no longer on the list (`process.c:745`, against `list.c:225-227`).  (5) Two creates
of one name at once both succeed (`filesys.c:65`, against 54).

Observations met while modelling that contradict no comment; the models do what the code does:

* The second loop of `timer_calibrate` (`timer.c:70`) tries each lower bit with the highest alone: if one bit fits, all
  below it are set too, and the result may be nearly twice what fits in a tick, against the comment at
  `timer.c:23`.  No property is about it.
* A process that an exception kills has no exit status stored (`exception.c:93`), so that a wait returns what the
  struct held, against `process.c:229-231`.
* `process_wait` tests `is_dead` and then sleeps (`process.c:254`): a child that dies in between wakes nobody, and
  the parent sleeps for ever; so does one in `process_execute` whose child reports its load too early (`process.c:160`).
  Without `prompt` TLC finds `NoWakeupLost` violated.
* A negative `*` sets MINUS after the test that takes back ZERO (`stdio.c:390`): such a field is
  padded on both sides, wider than asked.  `FormatRight` excepts it by name.
* `inode_create` answers true although the disk became full and sectors or the table are missing, and `BlocksRight` claims
  nothing of such a file; growth that reaches the end of the direct sectors in the middle of a write goes on from the
  wrong block or panics (`inode.c:522`).  `Blocks` states when.
* `byte_to_sector` (`inode.c:97`) indexes the doubly indirect table with a negative number, and
  `doubly_allocate` (901) reads `index` unset.
* `process_exit` frees the `struct file` of an open file without closing the inode: `leaked`.
* A fault inside `sys_read` or `sys_write` leaves `filesys_lock` held for ever: `broken`.

## 4. Proofs

`SynchProofs` first proves `SchedSpec => []SchedInv`: for any set of threads and any time slice
the run queue is exactly the set of ready threads without repetition, exactly one thread
runs, and as long as `idle_thread` is not set idle itself is on the queue or
running.  `SchedInv` is inductive as it stands; the lemmas say what `Schedule`
and the queue operators do to it.

It then proves of `Synch`, from
`ThreadAssumption`, `SynchAssumption` and, where threads are counted, `FiniteThreads` (every
thread takes a page of memory) only:

| Theorem | Statement |
|---|---|
| `SynchStep` | `IInv /\ [Next]_vars => IInv'` |
| `SynchCorrect` | `Spec => []IInv` |
| `SynchTypes` | `Spec => []TypeOK` |
| `WaitListsExact` | `Spec => []WaitListExact` |
| `LocksExclude` | `Spec => []MutualExclusion` |
| `SchedulerSafe` | `Spec => []SchedInv` |
| `SynchUsesScheduler` | `Spec => [][SchedNext]_schedVars` |
| `TidsUnique` | `Spec => []TidUnique` |
| `WakeupsKept` | `Spec => []NoLostWakeup` |
| `SignalsExact` | `Spec => []SignalAccounted` |
| `SynchImplementsMonitor` | `Spec => MonitorSpec` |

`MutualExclusion` is not inductive alone.  `IInv` adds: the scheduler's and the wait lists'
invariants (a woken thread is in `sema_down`, so that `thread_unblock` finds it blocked);
`FrameOK`, which ties the label of a frame to the lock, the thread and the condition
in it (a thread about to set `holder` has a lock to set, one at `"rel"` has the right
one); `CreatorsOK`, that a thread being created has one creator, is blocked and stands at the
start of its code, which is what separates it from a sleeper; and `HoldersOK`, that who is entered as the holder
is the thread whose frame permits it.  The proof takes these conjuncts
one at a time: for each there is a lemma for the steps that leave it alone (`FrameMove`,
`CreatorMove`, `WaitersMove`, `OwnGain`/`OwnLose`) and a step lemma
with one case per action; `SynchStep` puts them together.

`TidUnique` needs more than `IInv`: a tid exists in three places on its way, in `next_tid`, in
the register of the thread between the load and the store of `next_tid++`, and in the frame of a thread that has not yet
written it to the new struct.  `TidInv` follows it through them; that only one thread is in
the first two at a time is `MutualExclusion` of `tid_lock`, which is why the proof builds on `TInv == IInv /\ TidInv`.

`NoLostWakeup` compares two numbers, the value of a semaphore and the threads that have been woken for it.
A woken thread and one on its way into the loop have the same frame; what tells
them apart is the interrupt level, which `thread_block` leaves off.  `SleepersOff` says that of the threads
that still sleep, and with it each step is a case of adding or taking away one thread on one side or the other.

`SignalAccounted` counts too, but `SignalInv` says it without counting: a
`semaphore_elem` is on the list of its condition, or held by one thread in `cond_signal`, or
its semaphore is 1; the three exclude each other, and a thread in `cond_wait` is in one.  Four
kinds of step move it from one place to the next, and all others are `Quiet`.

`SynchImplementsMonitor` builds on both.  `cond_wait` joins the list, gives up the lock in two
steps, and only then waits; in `Monitor` these are one step.  `MonitorInv` says why
nobody can tell: a thread in between is the last on the list, all before it wait
already, and who signals holds the lock of the condition, which the thread in between has not yet
given up.  The refinement mapping leaves such a thread off the list; every step is
then `Dull` (it touches no condition, and at most takes or releases one lock), or one of six
that touch a condition, each with its lemma.

`ProcessProofs` proves, from `ProcessAssumption` and, where it says so, `Careful` (`Assume` is all six
conditions of the table in section 2):

| Theorem | Statement |
|---|---|
| `ProcessTypes` | `Spec => []TypeOK` |
| `NeverFaults` | `Careful`: `Spec => []NoFault` |
| `CallsRight` | `Careful`: `Spec => []CallsContract` |
| `WakeupsKept` | `Careful`: `Spec => []NoWakeupLost` |
| `WaitReportsOnce` | `Careful`: `Spec => WaitOnce` |

The first holds for every subset of the conditions, also after a fault; it bounds no semaphore, because without
`prompt` and `onechild` two siblings may both up one.

The others need `Good`: `CallInv`, and a numbering of the elements of `process_list` under which it is `Linked`.  `NoFault`
says that no step uses a struct that is NULL or freed, so the
invariant must say for each label whose struct is where: a process that can still call is on the list,
with everyone on its list of children (`Life`, `Children`); the parent of whoever is on the list can still call
(`Parent`, which is what `reap` buys); and a parent in `exec` or `wait` and its child are at most so far
apart (`Loading`, `Execing`, `Waiting`).  The last is where the semaphores come in: a parent that has seen its child
alive is asleep before the child comes to its `sema_up`, so that a semaphore is 0 except between
waking a sleeper and its return (`Fields`).
`Linked` speaks of the pointers: the elements in the order of their numbers are one chain from `First` to `End`
(`Chain`); a `prev` pointer is right but in the middle of a change (`Behind`); and a walk stands on the list, not behind what it
looks for (`Stands`), so that it finds exactly what is on the list.  The numbers are a witness, and the proof of each
change of the list gives the new ones: no induction over the list is needed.
`prompt` is used as `OneWindow`, `atomic` as `OneInList`, `onechild` in `Children`.  `CallsContract` speaks of the last call
after it has returned; `Said` is inductive because no child comes back from its exit or from having loaded.
`WaitReportsOnce` rests on `Waiting`: who is about to collect a child still has it among those not collected.

`AllocProofs` proves, from `AllocAssumption` only (any pool, any descriptors, any number of threads):

| Theorem | Statement |
|---|---|
| `AllocTypes` | `Spec => []TypeOK` |
| `MemoryExclusive` | `Spec => []Exclusive` |
| `ArenasExact` | `Spec => []ArenaExact` |
| `PagesKept` | `Spec => []PagesAccounted` |

None of the three is inductive, and each needs the others: pages stay apart because the bitmap is right,
the bitmap is right because an arena goes back once, and that rests on `free_cnt`.  `AllocInv` therefore
says it all at once, for every point of the code.  `Disjoint`: a page has one owner for one reason (in transit
through `palloc.c`, or part of one piece of memory).  `Accounted`: the bit of a page is set exactly if it has an owner
or is an arena.  `ArenaOK`: each block of an arena is on the free list or with one thread; none is once the
arena is on its way back (`Dies`), which is the moment between the loop that empties the list and the
fill with 0xcc; and all are on the list only while the thread that got the arena is about to take one, still
under the lock, which is why `free_cnt` cannot come to `BlocksPerArena` but in `free`.

What makes the missing lock of `palloc_free_multiple` harmless is `ScanOK` with `Mine`: bits are set only under
the lock, so that the free bits a scan has passed are still free when it flips them; clearing a bit disturbs nobody,
for the page has no other owner.  `OthersKept` turns this into a lemma once for all actions; each step then shows only what it
does to its own thread, to its pages (`DisjointStep`, `AccountedStep`) and to at most one arena (`ArenasMove`).
`ArenaExact` counts; `ArenaCounts` gets its numbers from a partition of the indices of an arena and three bijections.
`Without`, the loop of `list_remove`, is a recursive function: that it removes just the blocks of a page (`WithoutFacts`)
is shown at the least index at which it could be wrong, without an induction theorem.

`SerialProofs` proves, from `SerialAssumption` only:

| Theorem | Statement |
|---|---|
| `SerialTypes` | `Spec => []TypeOK` |
| `RegisterExact` | `Spec => []IerExact` |
| `SleepersKept` | `Serialised => (Spec => []NoSleeperForgotten)` |
| `QueuesFifo` | `Spec => Fifos` |

Its first lemmas are about circular buffers: what lies between two positions, written without the
modulo, grows at the end when a byte is put in and loses its head when one is taken out.  `SerialInv`
says who may be named as a waiter or on a lock's list (`NamesExact`), who has a byte
to write (`BytesExact`), and when the register is exact (`RegisterInv`: whenever interrupts are on,
and while a thread called with interrupts on has them off; not during a poll, which puts the
register right only when its byte is in).  `QueuesFifo` needs no more than that.
`SleepersKept` needs `Serialised`, and `SleepInv` says what it buys: the lock of a queue is held by the
thread that waits or is just back from waiting, and by nobody else, so that the lock's list stays empty and no
thread comes to `wait()` from a sleep on the lock.  What makes a sleeper's condition last is that whoever gets
through was not blocked, hence nobody was.

`DeviceProofs` proves, from `SerialAssumption` and `DevicesAssumption` (the width of a word, that naps are
numbers, that the kernel's thread is a page) only:

| Theorem | Statement |
|---|---|
| `SleepsEnough` | `DevicesSpec => []SleptEnough` |
| `MessagesOrdered` | `DevicesSpec => []MessagesRight` |
| `DevicesImplementSerial` | `DevicesSpec => Spec`, so that what `SerialProofs` proves holds there too |

`ClockInv` adds to `SleptEnough` that a thread between its two loads has interrupts off, so that the word it has
loaded is the one still in `ticks`.

`ConsoleInv` adds to `MessagesRight` types, what a
thread has to do at each place, that the console is without its lock exactly after a panic, and
`"console" \in broken => "filesys" \in broken`.  The last is what makes the depth right.  A thread in a page that has
inherited `console_lock` counts its message, and if a fault struck it there the count would never
come down again, so that every later `release_console` in this page would only count.  It takes a write
to be struck in a message, a write holds `filesys_lock`, and that lock was left behind in the same page when
`console_lock` was: nobody writes any more.  TLC finds `ConsoleInv` inductive for two pages when it starts in each of its states.

`DiskProofs` proves `DiskAssumption => (Spec => []Served)`.  At most one thread has the channel, the start-up
without the lock (`Exclusive`); `Stage` says for each place of its request what the device does and whether the
interrupt of its command is still to come, is pending or has been counted (`Quiet`, `Told`); and when nobody has
the channel no interrupt can count (`Unheard`), because `select_device_wait` drops what is left of a reset, and
every command whose interrupt counts has a thread that takes it from `completion_wait`, unless the kernel panics.

`FilesProofs` proves, from `FilesAssumption`, `NoneAssumption` and `Careful` (`Assume` is all three conditions of the
table in section 2), for any number of processes, names, sectors and values, a cache of any size, files of any length
and any number of calls and resets:

| Theorem | Statement |
|---|---|
| `FilesSafe` | `Careful`: `Spec => []FilesInv` |
| `FilesTypeCorrect` | `Careful`: `Spec => []TypeOK` |
| `FilesSectorsOwned` | `Careful`: `Spec => []SectorsOwned` |
| `FilesCountsExact` | `Careful`: `Spec => []CountsExact` |

Without the conditions the two properties are not there to be proved; `NoneAssumption` says that `None`, which stands for NULL, is
no process, sector, open file or cached block.  `SectorsOwned` and `CountsExact` say nothing of what a call has in hand when it is
half way, so that neither is inductive.  `FilesInv` says it, and reads it off the plan of the call:

* `Fit` describes plans without saying which call made them: which task may follow which (`MayFollow`), which may stand
  before which at all (`MayPrecede`), and that a task which begins something has the one that ends it behind it (`Paired`).
  That a step leaves a plan that is `Fit` is one lemma for taking the head off and one for putting tasks in front (`Then`).
* `Turn(p)`: with `alone`, p is the only process in the middle of a call; the others want nothing or wait for `filesys_lock`.
* The cache holds a block once and, while p is in a miss, has room for one (`CacheRight`).  A miss moves blocks from the cache
  by way of `victim` to the disk, and from the disk into the cache: `Logical`, what a reader finds, stays.
* The map, as a reader finds it, is the one in memory unless the next task is to write it; the directory is a function from names to
  sectors, and no two names have one sector (`SystemData`).
* The counts of an inode are its leaked handles, its executables, its open files, and one more while the call has it in hand
  (`Counted`, `Held`); it is marked as removed exactly if it has no name (`Unnamed`).
* A file is as long as it has sectors, unless it is growing; its inode in memory is the one on the disk, unless that is about
  to be written; and the sector of its inode is not in the cache (`FileRight`), which matters because `inode.c` reads and
  writes inodes past the cache.  This is what `noreuse` buys.
* The sectors in use are those of the files, those of the file being made, those the call is about to give back, and `lost`,
  and these are disjoint (`OwnersRight`, `NewRight`).

`quiet` comes in at a reset: no call is half way, and the map, the directory and every inode are on the disk, the first
because `filesys_done` closes its file, the others because nothing else is kept back, so that
`Boot` finds there what was in memory (`StoredRight`).  The proof has a lemma for each task and each way it can go,
which shows, conjunct by conjunct, what the task does to `Focus`, and one for each call, which shows that its plan is `Fit` and
has no trace of the call before it.  `inode_close` takes most room: nearly every call ends with one, and it
has four endings.  The run `files` checks the three properties.

Only model-checked:

* Liveness, in all modules: it is out of TLAPS's reach without ENABLED.
* `FilesSpec`, the refinement of `FileStore`.  It needs one more layer above `FilesInv`, the contents of every block of every
  file through each step of the cache; TLC checks it through resets.
* `StartsRight`, `LibraryRight`, `BlocksRight` and `OperationsRight`, of the modules of `parts` that compute.  Several of them
  have RECURSIVE operators, which leave TLAPS without its arithmetic, and what their loops compute would be proved
  by induction, for which the theorems of its library cannot be used.

## 5. Not modelled

* Scheduler: running out of pages in `thread_create`, stack overflow checks, priorities (nothing reads them).
* Files: the doubly indirect level (its arithmetic is broken at `inode.c:97` and 901, and no
  file that reaches it reads back); `dir_readdir`, `file_reopen`, `file_read_at` and `file_write_at`
  (no call reaches them); `fsutil.c`; several open files of one process; a failing write of the map.
* Devices: the second disk channel, partitions, the port's polled mode before the queues exist,
  `serial_flush`, scan codes, the boot-time set-up of timer and interrupt controllers.
* Console: printing from handlers, hex dumps, backtraces.
* Processes: `process_activate`, the registers, segment descriptors, the TLB, accessed and dirty bits.
* Memory: the set-up of the page pools and the second pool, which shares nothing with the first.
* Library: `random.c` and the one-loop functions of `string.c`, `stdlib.c` and `ctype.h`.
* Boot (`init.c`, `loader.S`, `start.S`): runs once, before there is a second thread.
* User programs, tests and tools; `inode_.c`, and the `inode.c` and `inode.h` at the top of the
  repository, which no Makefile builds; `vm/`, which is only a Makefile.

`PROJECT.json` gives the reason for each component.

## 6. Plan

What is left, in this order:

1. A proof of the refinement of `FileStore`, on top of `FilesInv`.
2. Several open files per process in `Files`, and files whose blocks are found through `Blocks`.
3. The doubly indirect level, once the conflict in `inode.c` is resolved.
