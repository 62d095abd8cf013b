# Bikeshed64 in TLA+

TLA+ models of the parts of Bikeshed64 that keep state and are hard to test:
the process scheduler with the system calls and the timer that drive it, the
queues and the block allocator under it, the memory from the BIOS memory map to
page tables, kernel heap and loaded programs, the drivers for the keyboard, PCI
and sound, and the tetris program. TLC checks them on small instances;
the modules whose names end in `Proofs` hold theorems for every instance, checked by
TLAPS.

Run a configuration with `tlc -config X.cfg M`, the proofs of a
module with `tlapm M.tla`.

## The system

Bikeshed64 is a 64-bit x86 kernel in C for one CPU, with a few user programs.
Interrupt and system-call handlers run with interrupts disabled and to their
end, so there is no concurrency between handlers. What runs beside them is
hardware: the local APIC timer counts down during a handler, and an interrupt
that arrives meanwhile is pending until a process runs again. Between handlers
any process may be the one that runs.

| Component | State | Operations | Interaction |
|---|---|---|---|
| scheduler (`scheduler.c`) | PCBs, four ready queues, the sleep queue with relative times, `current_pcb`, `quantum_left`, `prev_ticks` | `schedule`, `dispatch`, `get_next_sleep`, `sleep_pcb`, `cleanup_pcb` | called by the system calls and the timer interrupt; programs the timer, switches address spaces |
| system calls (`syscalls.c`) | none of their own | fork, exec (empty), exit, msleep, set_priority, key_avail, get_key | every entry stops the timer; fork, exit and msleep end in `dispatch`, the others return to the caller |
| APIC timer (`apic.c`) | delay, count, pending interrupt | set delay, start, stop, elapsed | interrupt calls `dispatch` |
| queue, stack, block allocator (`data_structures/`) | linked nodes, free stack, `implicit_next` | enqueue, enqueue_prio, dequeue; alloc, free | queue nodes are blocks; their first word links queue and free stack |
| physical allocator (`phys_alloc.c`) | stack of 2MiB chunks, list of 4KiB pools | alloc/free of both sizes | used by paging, so by fork, exit and the ELF loader |
| keyboard (`keyboard.c`, `ulib.c`) | ring buffer, shift state | interrupt handler, char_available, get_char | `read_key` polls through two system calls and `msleep(0)` |
| paging (`paging.c`) | page-table trees in the memory they lie in | map, unmap, reset, clone, clean up, look up | fork clones, exit cleans up, the loader resets and maps, the kernel heap maps; takes frames from the physical allocator |
| boot memory map (`physical.c`) | the regions of the BIOS map, the kernel's own page tables | cut out the kernel, count, make room for tables, map all memory | feeds the physical allocator with chunks |
| watermark allocator (`watermark.c`) | current address, page address, size | two allocation calls | the kernel heap; maps pages as it grows down |
| linked list (`linkedlist.c`) | nodes with next and prev, head, tail, size | insert, remove, destroy | used by PCI and sound |
| ELF loader (`elf.c`) | the program's pages while it is loaded | `elf_create_process` | called once, for init (`scheduler.c:98`; the system call `exec` is an empty stub); resets and fills a page table |
| PCI (`pci.c`) | list of the functions found | scan, size the registers, three searches | sound asks it for its controller |
| sound (`sound.c`) | command and response rings, widgets and paths, stream descriptors and registers | set up, send, poll; enumerate, search; set up streams, play | the controller reads and writes the rings while the driver polls |
| tetris (`tetris.c`) | board, piece, state of the game, screen | one round of the game loop | reads keys, sleeps, writes the screen memory |
| interrupt entry and TSS, console, boot code, shell | | | out of scope (below) |

What is hard here: the timer racing the entry of a system call; a timer that is
stopped and charged as if it had run out; sleep times that are rewritten while
the sleep queue is walked; a tail pointer that is not always maintained; nodes
whose link word belongs to two structures in turn; lists that are entered and
left in several places; resources at their limit; two system calls that only
make sense together; page tables that share some entries and copy others, and are
cleaned up in pieces; rounding, where a page, an alignment or the end of memory
does not divide; a controller that works on the rings beside the driver; data
from files or hardware that decides how far a loop or a recursion goes.
`PROJECT.json` lists each of these at its line.

## Modules

| Module | Models |
|---|---|
| `Scheduler` | scheduler, system calls, timer; the composition of the three |
| `ProcessTable` | what the scheduler promises: the lives of processes |
| `SchedulerProofs` | theorems about `Scheduler`: its invariants, its queue nodes, and that it implements `ProcessTable` |
| `NodeQueues` | `queue.c`, `block.c`, `stack.c` on the level of nodes and pointers |
| `QueueSpec`, `NodeQueueProofs` | what they promise: FIFO queues and an ordered queue with shared capacity; and the proof that they keep it |
| `PhysAlloc` | `phys_alloc.c` |
| `Keyboard`, `KeyboardProofs` | `keyboard.c` and `read_key` of `ulib.c`, and theorems about them |
| `TypeAhead` | what the ring buffer promises: a FIFO queue of characters |
| `Paging` | `paging.c`, with the calls of loader, fork, exit and kernel heap |
| `AddressSpaces` | what paging promises: each process has a map of its own, the kernel's is shared |
| `MemoryMap` | `physical.c` and `setup_physical_allocator` |
| `WaterMark`, `WaterMarkProofs` | `watermark.c`, and theorems about it |
| `ElfLoader` | `elf.c` |
| `MemoryProofs` | theorems about `PhysAlloc`, `MemoryMap` and `ElfLoader` |
| `LinkedList`, `ListSpec`, `LinkedListProofs` | `linkedlist.c`, the sequence it promises to be, and the proof that it is |
| `Pci` | `pci.c` and the search for the controller in `sound_init` |
| `CommandRing`, `RemoteCall` | CORB and RIRB of `sound.c`, and what `poll_command` promises |
| `SoundPaths` | enumeration of codecs and widgets, search for output paths |
| `SoundStreams` | stream buffers and registers, playing the test sound |
| `DeviceProofs` | theorems about `CommandRing`, `SoundStreams` and `Pci` |
| `Tetris`, `TetrisProofs` | `tetris.c`, and theorems about it |
| `MCScheduler`, `MCPaging`, `MCKeyboard` | workloads, layouts and tables for TLC |
| `MCStructures`, `MCMemory`, `MCVirtual`, `MCInput`, `MCDevices` | several components in one run, see "Runs" |

`Scheduler` composes scheduler, system calls and timer; `Paging` composes page
tables and frames with the loader, fork, exit and the heap. `NodeQueues`
justifies the sequences of `Scheduler`, `LinkedList` those of `Pci` and the
sound modules, and `CommandRing` the verbs of `SoundPaths` that are one step.

### Scheduler

`kpc` is the stage the kernel is at: `user`, or one of
`dispatch`, `enqueue_prio`, `get_next_sleep`, `resume`, in this order, then
`user` again or `halted` after a panic. The stages exist so that the timer can
tick inside a handler and so that the loop of `queue_enqueue_prio` is one step
per comparison; no other handler runs between them.

* `Tick` is the hardware: one ms on a running one-shot timer. `TimerInterrupt`
  is `timer_handler`. `Trap` is `syscall_interrupt` up to the call: it stops the
  timer, and if the timer was in its last ms the interrupt may just have become
  pending.
* `Fork`, `Exit`, `Msleep`, `SetPriority`, `NonDispatchingCall` are the system
  calls. A call number out of range is `Exit`. A workload (`Program`) says which
  process makes which calls.
* `Dispatch` is `dispatch` up to `get_next_sleep`: it charges the elapsed time
  to the quantum and puts the current process away if it is KILLED, SLEEPING or
  out of quantum. `EnqueueFirst`, `WalkOn`, `InsertBefore`, `InsertLast` are
  `queue_enqueue_prio` with `sleep_insert`. `NoSleeper`, `WakeSleeper`,
  `ChargeSleeper` are `get_next_sleep` with the choice of the next delay.
  `ResumeCurrent`, `PickNext`, `NothingToRun` are the rest of `dispatch`.
* The ready queues are sequences (`NodeQueues` justifies that); the sleep queue
  is the sequence found by following `next`, plus `sleep_tail` and `sleep_size`,
  because `queue_enqueue_prio` lets them disagree.
* After `timer_stop` the count register reads 0 and `timer_get_elapsed` returns
  the whole delay; the model has this because `Elapsed` is computed from
  `timer_count` as in the code.
* `cleanups` counts how often `virt_cleanup_table` was called for a process.

A write through a tail pointer to a node that has been freed (possible with
three sleepers) stops the model with `freed_node`: what it does to the
allocator's memory is not followed further.

### NodeQueues, PhysAlloc, Keyboard

Each handler is atomic, so in these modules an action is a whole function, or
what `scheduler.c` does with several of them in one go. `NodeQueues` keeps `next`
and `data` per node; the queues and the allocator's free stack are linked through
the same `next`. `PhysAlloc` keeps the header of each pool, `next`, `prev` and
`on_list` included; free stacks are sequences. Its callers free only what they
hold. `Keyboard` keeps the ring buffer as it is; the key table is a constant.

### Paging, MemoryMap, WaterMark, ElfLoader

`Paging` keeps tables as frames of words, with the free stack linked through the
first word of free frames as in `phys_alloc.c`. Each function of `paging.c` is an
operator from memory to memory in the order of the code; `page_4KIB` is the frame
the next allocation returns. A panic is a field of the memory after which
nothing changes. The actions are the callers: `MapKernel` (the heap), `CreateInit`,
`Map` and `Reset` (the loader), `Unmap`, `Fork` with the store through the looked-up
address, `Exit`, and `Write`, a store of a process through `Walk`, which is the
processor's page walk. `AddressSpaces` has neither tables nor frames, only what a
process reads at an address; the refinement mapping reads it through `Walk`.

`MemoryMap` takes a step per round of the loops: `Cut` and `Extras`
(`get_total_usable_ram`), `Place` (room for the tables), `Tables`, and `PushChunks`.
Memory is counted in small units: 4KiB, 2MiB and 1GiB are `SMALL`, `LARGE`, `GIB`.

`WaterMark` makes a call in steps, `StartAlloc`, `MapPage` for each page and
`Return`, because a page may fail half-way. `ElfLoader` has a step per page:
`CheckHeader`, `NextHeader`, `LoadPage`, `MapStack`; its file is a constant, a byte of
memory is the offset in the file it was copied from, 0 for a cleared one and `Junk`
for a leftover. Addresses are those of 64 bits, with sums that wrap as in `elf.c:93`, of which
the page tables tell `TRANSLATED` apart, the upper half of these being the kernel's. What `virt_map_page` does to a page that is in the way is taken
from `paging.c`.

### LinkedList, Pci, sound

`LinkedList` has the nodes with their pointers; a null element that is used stops
the model. `ListSpec` is a sequence of elements with their data and three calls, which
change it right behind an element or empty it; `IsSequence` says that every step is one
of them and (`CallsAgree`) that each call of the code is the one of its name, with the
caller's element and data. `Pci` separates the four accesses to a base address register
that `pci_get_memory_size` makes; the other registers of a function are read at once. The
scan ends early at a header type it does not know (`bad header`), and where the water
mark has no room for the next function (`no memory`): `water_mark_alloc` panics itself,
so the assertion behind it (`pci.c:99`) never sees NULL. How much room there is on a
machine is the constant `PciRoom`.

`CommandRing` has the driver's steps (`at` is where it is in `poll_command`) and the
controller's, `Fetch` and `Respond`, which may come between any two of them. The
ring pointers and the run bits are the registers. In `SoundPaths` the recursion of
`hda_dfs` is `frames`, a stack of a widget and the connections left. In
`SoundStreams` a stream register is programmed step by step while the old stream
may be running; `pages` says which frame is mapped where and `memory` what is in it.
`SoundStreams` and `SoundPaths` are joined by the constant `Outputs`: what the one
may find is what the other may be given. It holds paths that end at their only converter
(`PathOf`), since `hda_dfs` returns at the first one it meets.

`sound_init` is commented out in `kmain.c`, so these parts run only when it is
enabled.

### Tetris

A step is a round of the game loop: the keys read since the last round, which the
code keeps as a set of flags, and one case of `update`. The screen is the board's
part of it, a cell being two characters wide.

## Runs

| Run | Result | Shows |
|---|---|---|
| `scheduler`: `MCScheduler.cfg` | passes, 291 022 states | `Placement`, `NoLostProcess`, `AddressSpaceMatches`, `TimerCoversWork`, `AssertionsHold`, `NodesAccounted`, `DeadlinesKept`, and that `Scheduler` implements `ProcessTable` (`Lifecycle`) |
| `scheduler_progress`: `MCSchedulerLive.cfg` | passes | with an idle init: `NoPanic`, `SleepersWake`, `HighReadyRuns` |
| `structures`: `MCStructures.cfg` | passes, 52 717 states | `NodesInOnePlace`, the queues implement `QueueSpec` (`ListsAreQueues`); `Linked`, the list implements `ListSpec` (`IsSequence`) |
| `memory`: `MCMemory.cfg` | passes, 294 444 states | boot memory map: `ChunksExact`, `ChunksBacked`; physical allocator: `PagesAccounted`, `ListIntact`, `PanicJustified`; loader: `ProgramsLoaded`, `HeaderErrorsHarmless` |
| `paging`: `MCVirtual.cfg` | passes, 80 762 states | `MemoryAccounted` (each frame is free or in one place), `KernelShared`, and that the tables implement `AddressSpaces` (`Isolation`); kernel heap: `GivenIsSound` of the watermark allocator |
| `input`: `MCInput.cfg` | passes, 69 062 states | keyboard: `KeysInOrder` (implements `TypeAhead`), `ReadKeyBlocks`, `ReaderServed`; tetris: `BoardConsistent`, `BoardChanges`, `GameGoesOn` |
| `devices`: `MCDevices.cfg` | passes, 179 244 states | PCI: `DevicesListed`; rings: `RingsIntact`, and they implement `RemoteCall` (`IsRemoteCall`); paths: `PathsRight`; streams: `RouteOpen`, `ProgrammedStopped`; all loops: `LoopsEnd` |
| `lost_sleeper`: `MCSchedulerLost.cfg` | `NoLostProcess` violated | a stale tail pointer cuts a sleeper off |
| `untimed_init`: `MCSchedulerSpin.cfg` | `InitInterrupted` violated | after set_priority the timer stays off |
| `phys_bad_free`: `MCPhysAllocBadFree.cfg` | `BadFreeIsBad` violated | a legal free panics when the list is empty |
| `two_readers`: `MCKeyboardTwoReaders.cfg` | `ReadKeyBlocks` violated | two readers race between two calls |
| `paging_exit`: `MCPaging.cfg` | `MemoryAccounted` violated | the code's two clean-ups free every frame twice |

Five runs check several modules at once. Each of their MC modules EXTENDS some of the
modules and INSTANCEs the others; the variable `part`, chosen at the start, says which
of them the behaviour is about, and the variables of the others do not change.
`part` couples nothing, nor need it in `MCVirtual`, where the tables make the calls of the
heap themselves: the modules meet through what they promise each other, as the
section above says, and a property of one module is restated in the MC module as
`part = ... => ...` or for the steps of its part.

Several invariants are conjunctions of named parts, which say in the module what each
is about: `ChunksExact` that the chunks handed out are usable, free, distinct and
complete and that the total is their sum, `PagesAccounted` that no page is used twice
and none lost, `PanicJustified` that out-of-memory means it and no assertion fails,
`ProgramsLoaded` that the image is what the file says, that nothing of it is in the
kernel's part if its segments are canonical and that a program whose segments are
backed by the file loads, `DevicesListed` that the list is the bus, with the registers
back in place, as far as the scan came, and that it stopped for a reason, and so on.

Bounds. Three PCBs give one running, one queued and one sleeping process, or two
sleepers and one that runs, which is all `queue_enqueue_prio` gets right; the run
with more sleepers shows why the bound `MaxSleepers = 2` is there. Sleep times
0, 1 and 3 with a quantum of 2 cover the yield, a sleeper due within the quantum
and one that outlasts it; the priority arguments are the two ends and one that is
too large. `NumQNodes` is one more than the PCBs, the least that suffices.
`ForkLimit` above the number of PCBs reaches the exhausted allocator. In
`PhysAlloc` three pools are needed to unlink one from the middle of the list. In
`Keyboard` `MaxAhead = BUFFER_SIZE - 1` is tight: with `MaxAhead = BUFFER_SIZE`
`KeysInOrder` fails. In `NodeQueues` four nodes allow the free stack, a queue and
the ordered queue to be non-empty together.

In `Paging` a table has two entries, one for processes and one for the kernel, the
lowest number at which the halves differ; a process has a small page and a large one beside its page table, as the loader lays
out program and segments. Fourteen frames and two chunks hold exactly two such processes;
with the first page of the kernel mapped a frame is missing for the copy, with the
second also a chunk. The kernel's pages are mapped before there is a process, so
`KernelShared` is checked of entries that are there when a process is made; a new entry of the
uppermost table made later would be seen by no process that lives already. `MaxFrees` bounds the calls that give memory back, after which
it is handed out again.
`ExitCleanups = 1` in the passing runs, since with the code's 2 the first exit of
any process ends in the counterexample of `paging_exit` and nothing behind it would be
seen. The unit sizes of `MemoryMap` keep the order of the real ones, and its regions
begin and end inside, at and beside the kernel, a chunk and a GiB; the map has up to
two regions, usable or not, in any order. Pages of 2 and 4 bytes in `ElfLoader` allow sizes below, at
and above a page; two segments may or may not share one, as the linker script lays
them out. 80 addresses, of which the tables translate 40 and a process has 20, leave a gap
between the halves; `WildSegments` begin or end at its borders, in it, in the kernel's
half and, with a sum that wraps, in both. `WaterMark` has two and a half pages. Four nodes let `LinkedList` remove
at the head, in the middle and at the tail. The rings of `CommandRing` have 2, 3 and 4
entries for 2, 16 and 256; all combinations of the two are tried, and both wrap. Four
widgets give `SoundPaths` paths over mixers, dead ends and shared converters;
`MaxFrames` is above the longest path without a cycle. Three slots of two functions
with two registers let `Pci` meet holes, bridges, a header of unknown type and two controllers in any order, and to run out of memory
where the `pci_config_t` or only its list node does not fit. A
board of 4 by 4 with P_O and P_T can fill one line, two at once and the whole board;
the set of keys in a round includes two keys at a time.

Deadlock is allowed where the kernel may panic, since a halted kernel stops, and where
a part ends: the loader, the scan, the enumeration, the test sound and the reading of
the memory map when they are done, the watermark allocator when its space is used up,
the linked list where a null pointer is used, the game when it is quit. The liveness
run of the scheduler checks for it; in the others the liveness properties
(`ReaderServed`, `GameGoesOn`, `IsRemoteCall`, `LoopsEnd`) say which parts go on.

Fairness. `FairSpec` makes the timer count while it runs, takes a pending
interrupt when a process runs, and lets a handler run to its end: hardware and
straight-line code. No process is obliged to make a system call. `PollingSpec`
adds that a process left without a timer yields, as the only programs that make
such calls do (`read_key`); the run `untimed_init` is what happens without it. In the
liveness run time passes only in user mode, handlers being much shorter than a
millisecond. In `Keyboard`, a reader inside `read_key` is scheduled again and
again. `LoopsEnd` needs only that straight-line code goes on; it counts as an end also where the
driver waits for an answer that never comes, where its stack overflows, and where the scan
stops, and it is `PathsRight` and `StopsRight` that bound the causes of these. In
`CommandRing` the driver goes on and the controller fetches and answers whenever it
can, which is what `poll_command` waits for; `IsRemoteCall` includes that each call
returns. `GameGoesOn` assumes that the game loop is not left while the program runs:
`msleep` returns (`SleepersWake`).

## Proofs

Each component's theorems rest on the named assumption about its constants, which TLC
evaluates in the run of that component. A theorem that needs more says so.

**Scheduler** (`ConstantsAssumption`): every set of PCBs, every workload, every quantum
and, where `MaxSleepers` is not mentioned, any number of sleepers. `SchedulerProofs` has

* `TypeCorrect`: `TypeOK`, and `HasCurrent`: `current_pcb` is not NULL where the
  kernel uses it without a test.
* `PlacementHolds`: `Placement`. A PCB moved into a queue must not already be in
  one; that needs to know where the current process is at each stage, so the
  invariant is `Placement /\ CurrentInv`.
* `AddressSpaceHolds`: `AddressSpaceMatches`, with `SpaceInv`: a READY current
  process is in its address space at every stage, and an address space is freed
  only of a process that is KILLED.
* `TimerCovers`: `TimerCoversWork`, with `TimerInv`, which relates delay, count,
  quantum and the first sleeper at each stage of a handler.
* `NoAssertionFails`: `AssertionsHold`, assuming `MaxSleepers <= 2`, with
  `SleepInv`: until the kernel halts the sleep queue's size field is the number of
  its nodes, at most two, and its tail pointer is the last of them; a process is
  inserted only when there is at most one. With three sleepers the walk of
  `queue_enqueue_prio` breaks this, as `lost_sleeper` shows.
* `NothingLost`: `NoLostProcess`, assuming `MaxSleepers <= 2`. From `SleepInv` the
  tail pointer is the last node, so that every insertion keeps the nodes already
  there; with three sleepers it is false.
* `DeadlinesHold`: `DeadlinesKept`, assuming `MaxSleepers <= 2`, with which it is true
  ("Where the code and its words disagree"). `LeftInv` says what is left for a sleeper
  at each stage, also for the one in hand while `queue_enqueue_prio` compares it with
  the first and rewrites both times; `WalkInv` that the walk stays in the queue.

Its second part has

* `NodesSuffice`: `NodesAccounted`, for finitely many PCBs and a node more than there
  are of them (`EnoughNodes`). The invariant `NodeInv` counts: the queues hold one node
  for each process that has neither exited nor is current, where `sleep_size` stands for
  the sleep queue, also for the processes it has lost; a node in hand between `schedule`
  and `queue_enqueue_prio` is counted by none.
* `NeverStops`: `NoPanic`, for `EnoughNodes` and the workload `IdleInit`: init neither
  exits nor sleeps, no fork is one too many, priorities are valid, two sleep at most.
  `PanicInv` leaves the panics that `NodesSuffice` and `NoAssertionFails` exclude; that
  `dispatch` finds no process cannot happen because init is READY, hence in a ready queue.
* `Implements`: `Scheduler` implements `ProcessTable` (`Lifecycle`). A process of the
  highest priority is chosen although `dispatch` sees queues only, because a READY process
  that does not run is in a ready queue (`ReadyQueued`) and in the one of its priority
  (`ReadyPlaced`).

**Queues and their nodes** (`NodeAssumption`): every number of nodes, every set of queues
and items; and `TwoSleepers`, the bound of `MaxSorted`, as in the scheduler's theorems.
`NoNodeLost`: `NodesInOnePlace`; `QueuesImplemented`: `ListsAreQueues`, that the linked
lists implement `QueueSpec`, on which the sequences of `Scheduler` rest. The invariant is
that there are a sequence of nodes for each queue and one for the free stack which are
what heads, sizes, tails and `next` say (`Chain`, `QueueIs`, `StackIs`), with no node in two
of them and each node that was ever handed out in one (`Apart`). It needs all of the parts:
`queue_enqueue` writes through the tail into a node which, if it were on the free stack,
would give the next allocation a node in use. The tail of an empty queue may be anything;
that of the sleep queue is right only because at most one element is in it when a second
is put in its place. `ListOfChain` says that following `next` finds the sequence.

**Physical allocator** (`PhysAssumption`): every finite set of chunks, every number of
pages. `PagesAlwaysAccounted`, `ListAlwaysIntact`, `PanicAlwaysJustified`:
`PagesAccounted`, `ListIntact`, `PanicJustified`. They have one inductive invariant,
because they need each other: a page is given twice if a full pool is on the list, and
a pool is lost if the list is broken. `PoolOK` says that the free pages of a pool, on its
stack or never handed out, are the ones not used; `ListOf` that some sequence of pools is
what head, `next` and `prev` say, the `prev` of the head apart, which the code leaves
stale. That `Reached`, which follows the pointers, finds this sequence is `ReachedIsRange`.

**ELF loader** (`ElfAssumption`): every file, any number of addresses and of pages of the
kernel, every size of the two kinds of page that divide each other and the user's part, every place and size of stack and context that are
apart, any amount of memory. `HeadersHarmless`: `HeaderErrorsHarmless`; `ProgramsAreLoaded`:
`ProgramsLoaded`. Pages are aligned, so two that share an address are nested (`Nested`), and
what `virt_map_page` keeps is apart from what it maps (`KeptApart`, `MapsPage`). `PlacesInv`
gives the types and relates the three variables of the copy loop to the header. `ImageInv`
says that the segments passed are in place, and of the current one as many bytes as pages
were mapped, whose address is where the copying has come: once the copying is ahead of
the pages the next page is one already mapped and the loader panics (`InStep`), so that a
loader that goes on has cleared the rest of the right page. Later segments lie higher,
and a page replaces nothing below it (`BelowStays`). That order of the segments
(`AsLinked`) is assumed of the image only: with segments in descending order a large page
can replace a small one without an error. `BackedInv` says that the pages are
those of the program so far; each new one is apart from them, and as all of them fit,
one that is still missing fits (`MemoryLeft`). `UserOnly`, the part about the kernel's pages,
is assumed of canonical segments (`Canonical`), those for which the sum of `elf.c:93`
neither wraps nor lies between the halves; a page mapped for one, the extra page
included, begins no higher than its end, which the test has put below the kernel.

**Linked list** (`LinkedListAssumption`): every set of nodes and data. `AlwaysLinked`:
`Linked`; `Implements`: `IsSequence`. `Linked` is not inductive, since what a removal
leaves behind depends on all links; the invariant is that some sequence of nodes is the
list (`Holds`), and each call turns it into the sequence with a node more or less (`Ins`,
`Del`, which `InsertAt` and `RemoveAt` of the abstract list are shown to be), with the data
the others had (`EntriesInserted`, `EntriesRemoved`). `CallKept` is that each call makes the
change of its own name, at the element the caller gave. The invariant says nothing of
`prev`, which removal does not maintain. The calls that fault are included.

**Rings** (`CommandRingAssumption`): every ring size, no choice of which is larger than
"large", every set of verbs. `RingsAlwaysIntact`: `RingsIntact`; `Implements`: the safety
half of `IsRemoteCall`. `CommandInv` says where the one command is at each of the driver's
steps: nowhere, in the CORB, inside the codec, or answered.

**Sound streams** (`SoundStreamsAssumption`): every number of streams, every list of paths
of any length, whatever the firmware left in the registers. `RouteIsOpen`: `RouteOpen`;
`ProgrammedWhileStopped`: `ProgrammedStopped`. In the invariant `StreamsMade` says which
frames the streams have, `PathSet` that the widgets before the visited one are set, and
`Programmed` how far the one register has come, and that the others have no buffer. That
`configure_stream` runs before the sound is started is not said by the code of
`hda_test_sound`, which calls it at the widget that is a converter: it holds because the
last widget of a path is one and no other is (`PathOf`), which the run `devices` checks of
the paths `SoundPaths` finds (`PathsConnect`).

**PCI** (`PciAssumption`): every machine, with any number of slots, functions and registers,
whose regions have sizes that divide the values of a register. `BusLeftAsFound`: the parts of
`DevicesListed` but the last; `DevicesAreListed`: all of it, provided that the functions of a
device are of one vendor (`OneVendor`), since the list has the vendor of function 0. The
invariant says of each register what is in it while another is sized (`RegistersInv`), what
has been read and found so far (`SizingInv`), and that the list has exactly what the loops
are past (`Passed`, `ListInv`), counted by `Room`; and that what is listed has the memory it
takes and a scan that has stopped is at a function with a cause to (`StopsRight`). Nothing
is assumed of the headers or of the memory there is (`PciRoom`). That what was read can be written back
is `KeptTwice`, that two's complement of the masked ones is the size `SizedIsRight`, both
for every size.

**Keyboard** (`KeyboardAssumption`): every buffer size, scan code table and number of
readers.

* `TypeCorrect`: `TypeOK`; both indices stay in the buffer also when it overflows.
* `InOrder`: `KeysInOrder`, that is that the ring implements `TypeAhead`, if fewer
  characters are unread than there are slots (`MaxAhead < BUFFER_SIZE`). `RingInv`
  says that `next_index` is `buffer_size` slots after `last_index`, around the end.
* `Blocks`: `ReadKeyBlocks` with one reader; with two it is false, as the run
  `two_readers` shows.

**Watermark allocator** (`WaterMarkAssumption`): every space, page size and set of sizes
and alignments.

* `TypeCorrect`: `TypeOK`, whose equation is that `current_size` is exactly what lies
  between the location and the current address.
* `Disjoint`: `NoOverlap`; `StaysWithin`: `WithinSpace`; `Backed`: `GivenIsMapped`;
  `Sound`: all of it, as the run `paging` checks it.

The inductive invariant `IInv` adds that every region given lies between the current
address and the location, that the pages mapped are those from the page address up,
and that a region whose pages are still being mapped is the lowest one.

**Boot memory map** (`MapAssumption`): every size of page, table and kernel, every report of
the BIOS in which no memory is usable twice; the kernel starts in the first large page and
not at 0. `ChunksAreExact`: `ChunksExact`; `ChunksAreBacked`: `ChunksBacked`. The invariant
`MapInv` says what each round has left of an entry (`KeptInv`: by `KeptFacts` an entry is
never split, since the first case of `get_total_usable_ram` takes what the fourth is for),
that the memory counted is that of the entries passed (`TotalInv`, the cardinality of
disjoint intervals), that exactly one entry starts with the page tables (`PlacedInv`), and
that the stack holds the chunks of the entries passed (`PushedInv`). `ChunksOfRegion` is what
the roundings come to: a region gives the large pages that lie in it, each once.
`TablesBound` and `DirectoriesReach` are about the roundings of the number of tables: they
are never too few for the space, and reach the end of memory if half a GiB is rounded up.

**Tetris** (`TetrisAssumption`): every size of the board, every choice of the seven pieces,
every set of keys. `BoardHolds`: `BoardConsistent`. Its inductive invariant adds that what
falls is one of the pieces (`PieceKnown`), so that a drop must collide somewhere
(`Bottom`), and that while lines flash they are the full ones and the flashing is not over
(`FlashingFull`): `clear_lines` goes by the lines found some rounds before. `MovesFit` says
that `handle_actions` leaves the piece where it fits, and a dropped one where it can go
no further, which is why a piece that is placed twice is placed at one place.
`BoardChangesRightly`: `BoardChanges`, which fixes every cell of the board after every step:
a landing paints the four cells of the piece, which were free and below which it could not
go (`Lands`), the end of the flashing removes the full lines (`ClearsFullLines`), and any
other step leaves the board as it is. The two indices of `clear_lines` are followed by
`Falls_to`: the row that is copied to a row lies as many rows above it as there are full
lines below it (`SourceRow`).

**Recursive functions.** `TimeUntil`, `Reached`, `InOrder`, `list` and `source` are defined by recursion,
and the prover has no induction for them. Where the value is known, the proofs name it,
show that it solves the recursion, and compare it with the function the definition
chooses: the first place where the two differ (`Least`, from the library's theorem that
`<` is well-founded on the naturals) would have a place before it. `TimeUntil` is a sum
and is unfolded as far as two sleepers need.

**Only model-checked:** all liveness properties and the liveness half of `IsRemoteCall`
(fairness and ENABLED are out of the prover's reach); `Paging`, whose operators are
folds within folds over memory that each of them changes, and in which nothing short of
the whole tree of tables is inductive; and `SoundPaths`, where that the search misses no
path is an induction over the path.

## Where the code and its words disagree

Five disagreements are shown by a run and are findings in `PROJECT.json`. The models
follow the code in these as well, and the properties of the passing runs are worded
so that they hold of it; each can be seen by stating the quoted promise as a property.

* Sleep queue. With two sleepers queued, `queue_enqueue_prio` can put a third behind
  one that wakes later (`queue.c:57`), while `sleep_insert` has made the times relative
  as if it were before it: `DeadlinesKept` fails with `MaxSleepers = 3`, although
  `queue.h:39` calls it a priority queue.
* fork. `alloc_pcb` panics when no PCB is left and never returns NULL
  (`scheduler.c:67`), although `syscalls.c:58` handles that.
* Physical allocator. `phys_free_2MIB` expects a physical address and is given the
  virtual one of an emptied pool (`phys_alloc.c:337`): `stack_push` writes to an address
  that is not canonical.
* Paging. A large page overwrites the entry of a page table without a test
  (`paging.c:211`), so the second page of the kernel heap replaces the table that maps
  the screen. The lookup returns 1 for an unmapped page of a table that exists
  (`paging.c:489`) and cuts the offset in a large page to 12 bits (`paging.c:471`), against
  `paging.h:141`. Flags go into upper tables only when these are created
  (`paging.c:216`), so a user page below a kernel page's table is not accessible, against
  `paging.h:80`. `virt_clone_mapping` panics where `paging.h:157` promises NULL.
* Boot memory map. Memory that ends in the lower half of a GiB is handed out but not
  mapped (`physical.c:91`). In a region around the kernel what lies above it is dropped
  (`physical.c:365`), although `physical.c:361` splits it.
* Watermark allocator. It grows down but pads up (`watermark.c:25`), so an aligned
  allocation is not aligned, against `watermark.h:48`.
* ELF loader. A page of zeros behind the data is mapped twice and panics
  (`elf.c:143`); a segment that ends at a page boundary takes the next page as well
  (`elf.c:107`), so that a neighbour cannot be mapped. The test that keeps programs out of
  kernel memory (`elf.c:93`) adds 64-bit numbers: a segment that starts in the kernel's half
  and whose end wraps, or one that ends between the halves, passes it and is mapped in
  entries the kernel shares. This is the exception of `UserOnly`.
* Linked list. Removal leaves `prev` of the following element (`linkedlist.c:103`);
  insertion behind the tail uses NULL (`linkedlist.c:62`); `destroy` is called without
  a test (`linkedlist.c:111`), although `linkedlist.h:39` allows NULL.
* Sound. After a codec with audio, a second codec is asked at an address where there is
  none and the driver waits for ever (`sound.c:880`); a cycle among the connections makes
  `hda_dfs` recurse without end (`sound.c:731`): these are the two exceptions of
  `LoopsEnd` and `PathsRight`. The address of a stream's buffers is advanced before it is
  recorded (`sound.c:949`), so the sound is written to the page behind the one the
  controller was told. With one path only, the second is used all the same
  (`sound.c:1070`).
* PCI. The vendor recorded is that of function 0 (`pci.c:85`); the upper half of a
  64-bit register is sized as a register (`pci.c:221`); the multi-function flag stays in
  `header_type` (`pci.c:122`), which trips an assertion of `sound_init`.

## Not modelled

* Register contents and return values of system calls other than fork's; the assembly
  that saves registers, enters long mode or loads the kernel; the boot loader.
* Console and serial output, the words of the shell, and the debugging hook that
  scrolls the screen on `1` and `2` in the keyboard handler.
* In paging: `virt_map_phys_range`, which only the sound driver calls, the static map
  of all memory, and the TLB.
* In the sound driver: the mapping and interrupt set-up of `sound_init`, immediate
  commands, the fields of widgets that no decision uses, and the audio format.
* In tetris: the score, the box of the next piece, the random numbers and the words
  "Game Over!".

Two facts met on the way that break no stated promise: a PCI device with one function
that answers for all function numbers is listed eight times, and `ring_buffer_size` never
returns 0 when the write pointer is behind the read pointer, which is harmless while one
verb is outstanding.

## Plan

1. `msleep` with its integer widths; the scroll-back of text mode.
