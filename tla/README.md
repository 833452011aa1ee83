# TLA+ models and proofs for riscv-os

This directory holds a verification development for a small RISC-V system: the
single-hart teaching kernel in `src/os`, the boot loader in `src/boot` that starts
it, and the parts of the firmware (`src/opensbi-1.2`) under it in which several
harts run at once. TLC checks small instances; TLAPS proves the main invariants
for every value of the constants.

## The system and its parts

| Part | Source | Module | Coverage |
|---|---|---|---|
| Frame allocator | `os/src/address.c`, `stack.c` | `FrameStack`, `FrameAllocator`, `FramePool`, `FrameAllocatorProofs` | all operations |
| Page tables | `address.c` | `Sv39`, `KernelSpace` | all but `PageTable_unmap` |
| Kernel address space | `address.c` | `KernelSpace` | `kvm_make`, `proc_mapstacks`, `kvminit` |
| Processes, scheduler | `task.c`, `trap.c` | `Tasks`, `TasksProofs` | all calls and traps |
| Process memory | `task.c`, `trap.c`, `loader.c`, `address.c` | `KernelMem`, `ProcessMemory` | fork, exec, recycle, getchar |
| Loader, program image | `loader.c`, `build.c` | `Loader`, `MCLoader`, `KernelMem`, `UserApps` | image, headers, segments, lookup by name |
| User programs | `os/user/*.c`, `lib/user_syscall.c` | `UserApps`, `UserAppsProofs` | their system calls |
| Trap entry, context switch | `kerneltrap.S`, `trap.c` | `Traps`, `TrapsProofs` | registers, trap pages, task contexts |
| Timer | `timer.c`, `sbi_timer.c`, `aclint_mtimer.c` | `Timer`, `TimerProofs`, `Tasks` | setting and delivering a deadline |
| Boot loader, firmware boot, hart states | `boot/start.s`, `fw_base.S`, `sbi_init.c`, `sbi_hsm.c`, `sbi_domain_finalize` | `Boot`, `MCBoot`, `BootProofs` | lotteries, waits, start, stop, suspend |
| Firmware spin lock | `riscv_locks.c` | `SpinLock`, `LockedFifoProofs` | all operations |
| Firmware fifo | `sbi_fifo.c` | `Fifo`, `BoundedQueue`, `LockedFifo`, `LockedFifoProofs` | all operations |
| Remote fences | `sbi_tlb.c`, `sbi_ipi.c` | `RemoteFence`, `MCRemoteFence`, `RemoteFenceProofs` | `sfence.vma`, `fence.i`, stop and start |
| Console output, SBI wrappers, rest of firmware, emulator | `printf.c`, `sbi.c`, `opensbi-1.2`, `qemu` | none | see "Not modelled" |

How they interact. After reset every hart runs `start.s`, copies the images and
enters the firmware. One hart boots it and starts the two domains; hart 0 enters
the kernel. A trap enters `trap_handler`, which either yields (timer) or runs a
system call. All kernel code runs with interrupts off on one hart, so it is atomic
between two calls of `__switch`; the only interleaving points are `__sys_yield`
inside a handler and the return to user mode. `fork`, `exec` and `recycle` call the
page table code, which calls the frame allocator. A `panic()` or failed `assert`
spins for ever, so it ends a behaviour. `set_next_trigger` calls the firmware,
whose timer code programs the comparator. The firmware runs on all harts and
shares memory between them; there a step is one access to shared memory.

## Modules

### Kernel

**FrameStack** has the C structs of the allocator as records:
`[current, recycled]`, with `recycled = [data, top]`. `StackFrameAllocator_alloc`
and `_dealloc` return the new struct. `data` holds only the live entries.

**FrameAllocator** is the state machine of `kalloc` and `kfree` on the global
`memory_allocator`. Callers may give back any frame of the pool at any time, even
one they do not hold. The ghosts `held`, `lost` and `peak` record ownership,
frames forgotten by a full stack, and the largest demand so far.

**FramePool** is the abstract promise: a set of free frames; `Take` moves any free
frame to its user, `Give` moves it back, `Drop` forgets it when the pool cannot
remember more than `Capacity` frames, and the kernel stops only when nothing is
free or a free frame is given back. `FrameAllocator!ImplementsPool` is the
refinement, with `free` mapped to the recycled frames and those beyond the
frontier.

**Tasks** is the process table. `task_state`, `pid`, `parent`, `current`, `top` and
`next_pid` are the C variables; `pc[s]` is where the saved context of slot `s`
continues (in user mode, or after the `__sys_yield` of the handler it names);
`timer` is off, armed or pending. An action runs from a trap, or from a return
of `__switch`, up to the next `__switch` or return to user mode. `sys_yield` is
one operator with the code's two steps: the candidate `(current + 1) % top` is
made `Running`, then the current task is made `Ready` if its state is `Running`.

**UserApps** puts the four shipped programs on top of `Tasks`: `upc[s]` is the next
call of the program in slot `s`. Calls that only print are left out.

**Sv39** has page tables in a memory of words. The record `k` has the allocator,
the contents of all frames and the panic reason. A page table entry is the
integer `ppn * 2^10 + flags`, as in the code. The recursion of
`free_page_table` is written out for its three levels.

**KernelMem** composes `Tasks` with `Sv39`. Its actions conjoin an action of
`Tasks` with the memory operations that the handler makes, in the code's order.
`proc_pagetable`, `load_segment`, `uvm_copy`, `free_child` and
`free_proc_memory` have the names of the code. `base_size` counts pages. A table
has `E` entries instead of 512.

**ProcessMemory** is what `KernelMem` promises to programs: private maps from pages
to contents, changed only by the process on the hart. The refinement mapping
translates every user page through the page tables in memory.

**Traps** adds the registers to `Tasks`: the record `m` has the hart's general and
supervisor registers, the `TrapContext` of every slot and its `task_context`.
`alltraps`, `restore` and `switch` are the three assembly routines; `Handler`,
`Ecall`, `Return` and `TrapReturn` are the parts of `trap_handler` and
`trap_return` around a system call. The handler's local `cx` is kept in `s0`,
which only `__switch` preserves. Registers that the code treats alike are
represented by one of them. A program computes on `t0` and `s0` and makes any
system call.

**Sequencing** has the operator `With`, which names an intermediate value in the
sequential code of `Sv39` and `Traps`.

**KernelSpace** is the kernel's own page table on `Sv39`: the three calls of
`PageTable_map` in `kvm_make`, the kernel stacks of `proc_mapstacks` and `kvminit`.
`loop` holds the locals of the call in progress, and a step is one round of its
loop. Here addresses are in bytes and pages have `PAGE_SIZE` bytes.

**Loader** goes on where `KernelSpace` ends, as `os_main` does. `insert_app_data`
(of `build.c`) lays the files out in the kernel's image; `load_app` and
`get_app_data_by_name` pick one; `NextHeader`, `LoadPage` and `MapStack` are the
loops of `load_segment`. A byte of a file is the pair of the file and its offset,
so that a byte from a wrong place is visible. **MCLoader** has the files.

### Firmware

**SpinLock** is the ticket lock at the level of single accesses: the `amoadd` of
`spin_lock`, its loop of loads, `lr`/`sc` of `spin_trylock` with the reservation,
and load and store of `spin_unlock`. Tickets wrap after `TicketMax`.

**Fifo** has one action per function of `sbi_fifo.c`; **BoundedQueue** is the
sequence it implements. **LockedFifo** composes `SpinLock` with the same functions
write by write, and shows that they take effect one after the other as in `Fifo`.

**RemoteFence** is `sbi_tlb_request`: for each target, merge with or enqueue an
entry in its fifo, set the event, ring, wait for the acknowledgement and work off
the own fifo meanwhile. A target clears its device bit, exchanges its events, takes
entries, flushes and acknowledges. Harts of `Stopping` leave and come back; on the
way up `sbi_ipi_init` resets the events and clears the device in two steps,
`sbi_tlb_init` the acknowledgement word and the fifo in two more, and the hart is
`STARTED` only after that, while others may still send to it with an old mask. The
ghost `owed` has the pages each caller still has to see flushed. The fifo is the
bounded queue, and its functions are single steps. **MCRemoteFence** has the calls.

**Boot** is the way of every hart from reset through `start.s`, both lotteries, the
waits and `sbi_domain_finalize` into supervisor mode, and the calls `hart_start`,
`hart_stop` and both kinds of `hart_suspend` from there. `pc[h]` is where hart `h`
is. The history variables `asked`, `entry` and `overtaken` say where a hart was told
to enter supervisor mode, where it did, and which harts did so while a start call had
yet to store their address. **MCBoot** has the board's domains.

**Timer** is one hart's timer: the kernel reads `mtime` and adds an interval; the
firmware writes the comparator, withdraws the old tick, enables the machine
interrupt; the clock advances between any two of these. With `Sstc` it writes
`stimecmp` instead. `MayStop` allows the hart to stop and start.

## Runs

| Run | Bounds | Shows |
|---|---|---|
| `frame_allocator` | 5 frames, stack of 3 | `Partition`, `LostOnlyPastCapacity`, refinement of `FramePool` |
| `tasks` | 4 slots, pids up to 5 | `TopCountsRunnable`, `HartRunsLiveTask`, `ProcessTree`, `UniquePids`, `WaitsForChild`, `Lifecycle` |
| `tasks_round_robin` | 4 slots, pids up to 3, no exits | `RunnableBelowTop`, `EveryTaskRuns` |
| `user_apps` | 4 slots, pids up to 7, loops of 2 rounds, 5 commands | `PanicsOnlyOnBadName`, `AppsBelowTop`, `OneReader`, `RecycleHasChild`, `ShellReturns` |
| `kernel_mem` | 3 slots, 2 forks, 1 exec, 35 frames, 8 pages | `FramesExclusive`, `NoLeak`, `TrapPages`, `NoMemoryAssert`, refinement of `ProcessMemory` |
| `traps` | 3 slots, 2 forks, 2 programs, 1 data value | `KernelEntry`, `HandlerFindsItsContext`, `KernelKeepsRegisters`, `ForkReturnsTwice` |
| `locked_fifo` | 3 harts, 4 ticket values, 2 entries, 2 data values | `MutualExclusion`, `FunctionsAreAtomic`, `EveryWaiterServed` |
| `remote_fence` | 3 harts, fifos of 1 entry, 4 pages, 2 asids, one hart stops | `FencedOnReturn`, `NoneTooMany`, `NoEntryForgotten`, `EveryRequestReturns` |
| `boot` | 3 harts, 2 domains, 2 callers, 1 address | `OneColdBootHart`, `EntersWhereAsked`, `NoHang`, `StateIsTrue`, `NoWakeUpLost` |
| `os_main` | 3 kernel stacks, tables of 4 entries, pages of 2 bytes, 1 or 2 of 26 files, 3 sizes of text | `KernelMap`, `LoadsTheFile`, `StackSeparated` |
| `zombie_runs` | 4 slots | violated: `ZombieRunsNoMore` |
| `recycle_starves` | 4 slots | violated: `RecycleGivesWay` |

Why the bounds are enough for the cases of interest. A stack of three for five
frames overflows, and frames are handed out both from the stack and from the
frontier. Four slots allow a parent, two children and a gap between them; five
pids reuse a slot twice. In `kernel_mem` two big processes and an exec do not fit
into the pool, so memory also runs out; two forks reuse the frames of a freed
process; the two programs differ in their number of pages and page tables.
In `traps` three processes can wait in three different handlers at once, a slot is
used again after its process was recycled, and the value a program computes differs
from the zero it starts with; the programs loop, so program counters need no bound.
`MaxPid`, `MaxExec` and `Rounds` are the bounds on counters.

In `locked_fifo` there is one ticket value more than harts, the fewest with which
the lock works, so the counters wrap all the time; two entries make the ring full,
empty and wrapped. In `remote_fence` the calls of the three harts find fifos full,
are merged, are skipped because a waiting entry covers them, and reach the limit
over which everything is flushed. With fifos of one entry a request is only ever
merged into the first entry; merging into later ones rests on
`FencesAreDoneOnReturn`, which holds for every length. In `boot` the third hart is no domain's boot hart;
two callers race to start each other while going down. As `Pace` is `"first"` there,
hart 0 has drawn both lotteries before another hart comes to them: harts that draw at
the same time are covered by the theorem `OneHartBootsCold` and not by the run. In
`os_main` text, data and
`.bss` end on and off page boundaries, and the second file begins behind an
alignment gap.

Deadlock is not checked where a behaviour may end in `panic()`, and in `boot`, where
all harts may be stopped. It is checked in `locked_fifo` and `remote_fence`.

### What the violated runs show

`__sys_yield` takes `(_current + 1) % _top` for the next slot, which presumes that
the runnable tasks are in slots `0 .. _top - 1`. That is so while nothing exits
(`RunnableBelowTop`) and for the shipped programs, which nest their processes like
a stack (`AppsBelowTop`). In general it is not:

* `zombie_runs`: a process exits when the candidate slot holds an earlier Zombie that
  its parent has not recycled yet. `__sys_yield` returns to the process that exits, and
  the kernel panics with "Zombie exit failed" although other tasks are ready. In the
  run task 1 forks 2 and 3 and exits; when task 2 exits, `_top` is 2 and slot 1 is the
  candidate. The comment on `__sys_exit` says a Zombie runs no more.
* `recycle_starves`: a parent waits in `recycle`, the candidate slot is empty, and
  the loop spins in the kernel. The comment in the loop says the parent gives way.

### Where the models show more than the runs check

The passing runs of the firmware hold under constants or hypotheses that the code
alone does not guarantee. Each is a place a reader may want to know of:

* `Pace = "first"` (`boot`): no hart enters the firmware while another still copies
  it, and the others enter it only after hart 0 has drawn the lottery. The code
  relies on the delay loop at `start.s:95` for both. With `"none"` a slow copy resets
  the lotteries and `OneColdBootHart` fails. With `"copied"` a hart that is no
  domain's boot hart may win and enter supervisor mode at `FW_JUMP_ADDR`:
  `EntersWhereAsked` fails.
* `overtaken` (`boot`): `sbi_hsm_hart_start` makes the target `START_PENDING` before it
  stores the target's address (`sbi_hsm.c:271` and `284`), and nothing makes the target
  wait for the store. One that leaves its `wfi` in between and is through its warm boot
  first enters at its old address, and the late store may then replace the address of a
  suspend. `Boot` has these behaviours; `EntersWhereAsked` leaves out the harts to which
  this happens, until they are told anew with no store outstanding.
* An event set while its target is between the two halves of `sbi_ipi_init`
  (`sbi_ipi.c:259` and `265`), by a sender whose mask is old, loses its interrupt: the
  bit in `ipi_type` stays without one until the next event. For fences this is harmless
  to the entry (`NoEntryForgotten`), since `sbi_tlb_init` empties the fifo afterwards;
  the sender of the erased entry waits for ever, as in the next item. For interrupts
  of supervisor mode, which are not modelled, it may matter.
* `sbi_fifo_init` takes no lock and initialises the lock too. `RemoteFence` has it as
  one step that may come before or after an enqueue of another hart, not within one.
* `EveryRequestReturns` supposes that no hart stops: `sbi_ipi_send_many` reads the
  mask of started harts once, and a target that stops before the entry is queued
  never acknowledges it.
* The comment at `sbi_tlb.c:377-384` fears a deadlock of two harts that each wait for
  space in the other's fifo. The call of `tlb_process_count` below it, at line 385,
  works off the own fifo in every round and prevents that. The case takes two more harts
  whose entries fill the two fifos, because a hart has one entry at a time; so the three
  harts of `remote_fence` do not reach it. With `Harts = {0, 1, 2, 3}`,
  `Calls <- FullCalls` and `Stopping = {}` in `RemoteFence.cfg` they do, and
  `EveryRequestReturns` holds (310876 states, three minutes); without the call at line
  385 it fails there, with harts 0 and 1 waiting for each other.
* The calls of `MCRemoteFence` have no range that wraps. `tlb_range_check` takes a
  range that ends at the top of the address space, or the pair (0, 0) for
  everything, for a range that a waiting entry may cover, and skips it:
  with such calls `FencedOnReturn` fails.
* `__sys_yield` of the only task switches to itself and leaves it `Ready` while it
  runs. This is harmless, since `__sys_yield` accepts both states, and `Tasks`
  models it.

Two more are visible in the code without a model: `get_time_us` divides `mtime` by
10000 ticks and so returns milliseconds (`timer.c:28`), and the assertion of
`PageTable_unmap` (`address.c:320`), which nothing calls, demands an invalid entry.

## Fairness

`KernelFairness` is weak fairness of steps that the hart cannot avoid: kernel code
goes on to its next switch, mtime reaches the deadline, a pending interrupt is
taken. `EveryTaskRuns` excludes exits (see above), and repeated `set_trigger` calls
once the timer is set: each moves the deadline. `AppFairness` adds strong fairness
of each process's own calls while it has the hart: a quantum of a millisecond is
long enough for a program to reach its next call, although a single quantum may
end before it does. Nobody is assumed to type anything. `ShellReturns` is about the
first shell and the programs `time` and `print`, which end; `user_shell` and `atest`
(which executes a shell) do not. A shell below the first may start `print` when the
table is full, and `print` then loops for ever.

In the firmware every hart goes on with what it is doing (weak fairness of its
steps); a hart in supervisor mode need not call anything. `EveryRequestReturns`
supposes in addition that calls cease at some time: a hart that drains its fifo
while waiting can be kept busy by others that fence it again and again.

## Proofs

`FrameAllocatorProofs` assumes `FrameBounds` (a pool `Start..End-1`) and
`StackBound` (a non-empty stack). The inductive invariant is `TypeOK`,
`Partition`, `NoDuplicates` and `FrontierTight` together. `Partition` alone is
not inductive: a pop removes a frame from the recycled set only because the stack
has no duplicate of it. `PushFacts` and `PopFacts` say what push and pop do to
the set of entries; the counting in `FrontierTight` uses that held, recycled and
lost frames are disjoint. `LostOnlyPastCapacity` and the refinement
`ImplementsPool` follow from the invariant: a full stack of different frames has
`MAX_SIZE` of them. `TypeOK`, `NoDuplicates` and `FrontierTight` are proved and no
longer part of the run.

`TasksProofs` assumes `TaskBound` (at least one slot) and `PidBound`. The
inductive invariant joins all six state properties. They need each other: `_top`
stays positive because slot 0 never exits, which rests on pid 0 belonging to slot
0 (`UniquePids`); `WaitsForChild` needs the tree, because a child of a waiting
process can only be taken away by the process's own recycle; the tree needs
parents to be older than children, so that an exiting process is not its own
ancestor. One lemma per kind of step (`YieldStep`, `SysForkStep`, `ExitStep`,
`ReapStep`) proves the invariant, `QuietStep` the rest. `Lifecycle` is proved
from the invariant; `PrefixHolds` shows `RunnableBelowTop` for the specification
without exits.

`UserAppsProofs` builds on it, with no assumption on the programs' names or on what
is typed. `StackInv` says that the processes form a stack: the runnable slots are
those below `_top`, each the child of the one below, all but the last are at a call
that comes with a child (`HasChild`), and a Zombie can only be slot `_top`, a child
of the last. `ProgramInv` says at which calls each program can be, and that slot 0
is `atest`, then a shell for ever. With the two, only the last process exits, and the
one below is waiting for it. The four state properties of the run follow for every
size of the table.

`TrapsProofs` builds on the invariant of `Tasks` too and assumes only `DataIsWords`.
`TrapInv` ties the three copies of a process's registers together. The hart is
either in user mode with the registers that `__alltraps` relies on (`AtUser`) or in
a handler on the current slot's kernel stack (`InHandler`). Every runnable slot's
trap page leads to the kernel and to its own stack (`Entry`). The task context of
every other slot continues where `pc` says: in `trap_return` if it never ran, or
behind the `__switch` of its handler, with its own stack and `s0` (`Saved`).
`KernelEntry` and `HandlerFindsItsContext` follow. The two action properties need a
step by step argument: `Seen` is what a process would find in its registers, and one
lemma per kind of call (`CallKeeps`, `CallYields`, `CallReturns`, `CallExec`,
`CallFork`), of resumption and for the timer says how it changes `Seen` of every
process.

`LockedFifoProofs` has lock and fifo. It assumes `TicketBound`: fewer harts than
ticket values. The inductive invariant of the lock, `TicketsInLine`, says that the
harts with a ticket are as many as the tickets from `owner` to `next`, that all have
different ones and that a holder has `owner`. `Dist` is the distance going round;
`DistNext` and `DistServed` say how the two steps that move a counter change it.
`OneHolder` covers `spin_trylock` too, which no function of the fifo uses and
`locked_fifo` therefore does not run. `FifoRefinement` shows that `Fifo` implements
`BoundedQueue` for every size and set of data, with the entries from the tail on as
refinement mapping; it needs only that the count and the tail stay in range.
`LockedFunctionsAreAtomic` connects the two: a function that runs write by write
under the lock is one step of `Fifo`, at its last write. The invariant says which
writes the holder has done; that nobody else writes is `OneHolder`.

`TimerProofs` has `TimerConstants` (frequency, interval and step are positive
numbers) as a hypothesis of each theorem. `TimerInv` says that comparator and
deadline agree, that a tick which is raised is due except between the write of the
comparator and the withdrawal of the old tick, and that the machine interrupt is
enabled until it is taken. `NoTickIsEarly` excludes a hart that has Sstc and stops,
because `sbi_timer_exit` leaves `stimecmp` as it was; the kernel never stops a hart.
`Timer` has no run of its own, only these proofs.

`BootProofs` proves `OneColdBootHart` for every number of harts, under
`Pace # "none"`. `BootInv` says that a copy is under way only before the first
lottery, that one hart at a time prepares the memory, which resets the second
lottery, and that until then nobody is past the wait for it. `HsmInv` builds on it
and on `DomainHarts` (each domain has a boot hart of its own): it gives for each
place in the code the states a hart can be in there, and says that the boot harts
which `sbi_domain_finalize` has yet to start are stopped. It needs `BootInv` because
a second cold boot would set the states up again. `HartsEnterWhereAsked` is proved
under the hypothesis of the run, `Pace = "first"`, with `FirstHasDomain` (hart 0 boots
a domain) and callers that are harts. `AskedInv` says that every hart that is not
`overtaken` and on its way to supervisor mode finds the address it was last asked to
enter at, or a starter has yet to store it, or the boot hart has not yet come to its
own domain; and that the target of a store still due is on its way up, or overtaken.

`RemoteFenceProofs` assumes `SizesAssumption` (positive sizes, an address space of
whole pages) and `CallsAssumption` (requests have the fields of `sbi_tlb_info`).
`FenceTypes` and `Locals` say what a hart's locals hold at each place.
`NoEntryForgotten` is inductive with the types alone: it names the one who will
see to an entry, from the sender about to set the event over the pending interrupt to
the target that works off its whole fifo, and every step hands this on to the next.
Between the reset of the events and the reset of the fifo it claims nothing, and the
latter leaves no entry. For
`NoneTooMany` the invariant is `Single`: of the entries in the fifos, the
acknowledgements being given and the caller's `tlb_sync` word, at most one is there
for a caller that waits, and none for another. A count is not inductive as it
stands, because merging an entry unites two sets of sources; `One` states it with
places instead. For `FencedOnReturn` it is `Covered`: a target that is no longer to
be served owes the caller nothing, one still to be served at most what the request
flushes; while an entry names the caller it covers what the current target owes, and
when the acknowledgement is on its way that target owes nothing. Merging keeps that
because the united range contains both, and `NoneTooMany` is needed because an
acknowledgement of another entry would come too early. The theorem has
the hypothesis `WholeCalls`: a range, once one over the limit has become a flush of
everything, starts with a page, does not wrap and is not the pair (0, 0). The code
accepts other ranges, and for them the property fails: an entry (0, 0) is empty to
`tlb_range_check`, and a range merged into it replaces it.

Only model-checked: the liveness properties (fairness and `ENABLED` are out of reach
of the prover), the four invariants of `KernelMem` and its refinement of
`ProcessMemory`, and `KernelMap`, `LoadsTheFile` and `StackSeparated` of `os_main`.
`KernelMem` walks three levels of tables in a memory of words; what its loops over
pages, levels and entries leave behind for every size is induction over data, which
the prover cannot do, and the same holds of the loops over pages and headers in
`KernelSpace` and `Loader`.

## Not modelled

* Most of the third-party trees. The source tree has more than 900000 lines, of
  which the system's own code (`src/os`, `src/boot`) is about 3000; the rest is
  QEMU, a program of another kind that only emulates the board, and OpenSBI with
  drivers for many boards. About 2800 lines are modelled, well under one percent of
  the whole; a coverage of the whole tree of, say, a third would mean to model QEMU
  and is not aimed at. Of OpenSBI, the models take what several harts share: lock,
  fifo, fences, boot and hart states, timer. Left out of it are console, PMU, memory
  protection, trap redirection, parsing of device trees, the hypervisor fences
  (which go the way of `sfence.vma`), interrupts sent to supervisor mode, and halt.
* Console output: formatting into a local buffer, without state that another part
  sees. The shell's line editing likewise; it appends to `line[1024]` without looking
  at the length.
* `PageTable_unmap`, `get_time_us`: see above.
* What compiled C code does with registers: `Traps` assumes the calling convention.
  `sepc` is advanced by 8 as in the code, although `ecall` has 4 bytes. In the listing
  `os/user/print.txt:436-441` the skipped bytes are the moves `a5 := a0` and
  `a0 := a5`, so the stub still returns `a0`; another compiler may place something
  else there.
* Accessed and dirty bits and caches; the memory model of the harts: accesses to
  shared memory take effect in program order, where the firmware has its fences.
* The timer, failing calls and user faults in `KernelMem`: they do not touch
  memory, and the switch of an interrupt is the switch of `SysYield`.
* Addresses outside the user half passed to `getchar`; user pointers in general are
  whole pages. Segments that are not page aligned or overlap; `user.ld` makes none.
  A `.bss` that begins with bytes of the file: whole pages are copied whatever
  `p_filesz` says, and `LoadsTheFile` is about the bytes in the file.
* 32-bit wrap-around of pids.
* The frames and tables under `Loader`'s pages, which are those of `KernelMem`;
  there, `Start` is the frontier after boot.
* Build files, the stub of the trusted domain, commented-out code.

## Possible further work

A proof that `KernelMem` owns its frames exclusively, from a specification of the
page table operations by what they do to the set of frames.
