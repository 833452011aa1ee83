------------------------------ MODULE KernelMem ------------------------------
(***************************************************************************)
(* Processes with their memory: the composition of the process model       *)
(* Tasks with the page tables of Sv39 and the frame allocator.  fork       *)
(* copies an address space, exec replaces one, recycle frees one           *)
(* (os/src/task.c, os/src/trap.c, os/src/loader.c).                        *)
(*                                                                         *)
(* The address space has E^3 pages (eight for E = 2): the last is the      *)
(* trampoline, the one before it the trap page, the others are the user's. *)
(* Of a trap page only the word that names the kernel stack is modelled.   *)
(* A kernel that has panicked never runs a process again, so a step that   *)
(* panics leaves the memory as it was.                                     *)
(***************************************************************************)
EXTENDS Tasks, Sv39

CONSTANTS
  Values,       \* what a process may write
  Buffers,      \* the pages it writes to, or passes to getchar
  MaxExec       \* bound: the number of execs explored

ASSUME KernelBelowStart == Start > 0
ASSUME BuffersInUserHalf == Buffers \subseteq 0..(E * E * E - 3)
ASSUME ExecBound == MaxExec \in Nat

VARIABLES
  kmem,         \* the record k of Sv39
  root_ppn,     \* tasks[s].pagetable.root_ppn
  trap_cx_ppn,  \* tasks[s].trap_cx_ppn
  base_size,    \* tasks[s].base_size, in pages
  execs         \* execs so far

memvars == <<kmem, root_ppn, trap_cx_ppn, base_size, execs>>
allvars == <<vars, memvars>>

TRAMPOLINE == E * E * E - 1
TRAPFRAME == E * E * E - 2
UserPages == 0..(TRAPFRAME - 1)
trampoline == Start - 1      \* a frame of the kernel's text

KERNEL_SP == 0
kstack(s) == s + 1           \* every slot has a kernel stack of its own

-----------------------------------------------------------------------------
(***************************************************************************)
(* Programs: the segments of an ELF image, in pages.                       *)
(***************************************************************************)
PF_X == 1
PF_W == 2
PF_R == 4

flags_to_mmap_prot(flags) ==
  (IF Has(flags, PF_R) THEN PTE_R ELSE 0) + (IF Has(flags, PF_W) THEN PTE_W ELSE 0)
    + (IF Has(flags, PF_X) THEN PTE_X ELSE 0)

\* A segment of consecutive pages, each filled with one word.
Segment(vpn, flags, words) == [vpn |-> vpn, flags |-> flags, words |-> words]

atest == << Segment(1, PF_R + PF_X, <<11>>) >>
shell == << Segment(1, PF_R + PF_X, <<21>>), Segment(2, PF_R + PF_W, <<22, 23>>) >>
Programs == {atest, shell}

-----------------------------------------------------------------------------
(***************************************************************************)
(* Setting up an address space.                                            *)
(***************************************************************************)
proc_pagetable(k, trap_ppn) ==
  With(kalloc(k), LAMBDA root :
    [k |-> PageTable_map(PageTable_map(root.k, root.ppn, TRAMPOLINE, trampoline, PTE_R + PTE_X),
                         root.ppn, TRAPFRAME, trap_ppn, PTE_R + PTE_W),
     root |-> root.ppn])

\* A fresh frame with the given contents, mapped at vpn.
MapFresh(k, root, vpn, page, flags) ==
  With(kalloc(k), LAMBDA new :
    PageTable_map(memcpy(new.k, new.ppn, page), root, vpn, new.ppn, flags))

StackTop(segments) ==
  LET last == segments[Len(segments)] IN last.vpn + Len(last.words) + 2

SegmentPage(seg, j) ==
  [vpn   |-> seg.vpn + j - 1,
   page  |-> [i \in Words |-> seg.words[j]],
   flags |-> PTE_U + flags_to_mmap_prot(seg.flags)]

\* The segments, an unmapped page, and the stack; StackTop is also the size.
load_segment(k, root, segments) ==
  LET loadPage(acc, p) == MapFresh(acc, root, p.vpn, p.page, p.flags)
      load(acc, seg) == FoldLeft(loadPage, acc,
                                 [j \in 1..Len(seg.words) |-> SegmentPage(seg, j)])
  IN  MapFresh(FoldLeft(load, k, segments), root, StackTop(segments) - 1, ZeroPage,
               PTE_R + PTE_W + PTE_U)

\* A plausible bug: the child gets the father's frames.
ShareFrames(k, father, child, size) ==
  LET share(acc, i) ==
        Then(acc, LAMBDA j :
          LET place == find_pte(j, father, i - 1)
              pte == At(j, place)
          IN  IF place = NULLPTE THEN j
              ELSE PageTable_map(j, child, i - 1, PageTableEntry_ppn(pte),
                                 PageTableEntry_flags(pte)))
  IN  FoldLeft(share, k, [i \in 1..size |-> i])

\* uvm_copy, for the pages below size that the father has.
uvm_copy(k, father, child, size) ==
  LET copy(acc, i) ==
        Then(acc, LAMBDA j :
          LET place == find_pte(j, father, i - 1)
              pte == At(j, place)
          IN  IF place = NULLPTE THEN j
              ELSE MapFresh(j, child, i - 1, j.mem[PageTableEntry_ppn(pte)],
                            PageTableEntry_flags(pte)))
  IN  FoldLeft(copy, k, [i \in 1..size |-> i])

-----------------------------------------------------------------------------
(***************************************************************************)
(* Tearing one down.  exec keeps the trap page, recycle frees it; the      *)
(* trampoline is the kernel's and is only unmapped.                        *)
(***************************************************************************)
ReleaseSpace(k, root, size, trapToo) ==
  exec_free_lowhalf(page_unmap_free(page_unmap_free(k, root, TRAMPOLINE, 1, FALSE),
                                    root, TRAPFRAME, 1, trapToo), root, size)

\* A plausible bug: the trap page of a dead process is only unmapped.
KeepTrapPage(k, root, size) == ReleaseSpace(k, root, size, FALSE)

free_child(k, root, size) == ReleaseSpace(k, root, size, TRUE)

\* A plausible bug: exec frees the tables with the trampoline still mapped.
KeepTrampoline(k, root, size) ==
  exec_free_lowhalf(page_unmap_free(k, root, TRAPFRAME, 1, FALSE), root, size)

free_proc_memory(k, root, size) == ReleaseSpace(k, root, size, FALSE)

-----------------------------------------------------------------------------
(***************************************************************************)
(* os_main loads the first program into slot 0; app_init fills its trap    *)
(* page.                                                                   *)
(***************************************************************************)
MemInit ==
  \E trap \in {kalloc(Boot)} : \E space \in {proc_pagetable(trap.k, trap.ppn)} :
      /\ Init
      /\ kmem = Store(load_segment(space.k, space.root, atest),
                      trap.ppn, KERNEL_SP, kstack(0))
      /\ root_ppn = [s \in Slots |-> IF s = 0 THEN space.root ELSE 0]
      /\ trap_cx_ppn = [s \in Slots |-> IF s = 0 THEN trap.ppn ELSE 0]
      /\ base_size = [s \in Slots |-> IF s = 0 THEN StackTop(atest) ELSE 0]
      /\ execs = 0

structs == <<root_ppn, trap_cx_ppn, base_size, execs>>

\* The kernel panicked on the way to k.
PanicAt(k) ==
  /\ ~Ok(k)
  /\ kmem' = PanicWith(kmem, k.panic)
  /\ UNCHANGED <<vars, structs>>

-----------------------------------------------------------------------------
(***************************************************************************)
(* The system calls that change memory.                                    *)
(***************************************************************************)
\* A plausible bug: the child's trap page keeps the father's kernel stack.
KeepKernelSp(k, father_trap, child_trap, child) ==
  Then(k, LAMBDA j : memcpy(j, child_trap, j.mem[father_trap]))

\* The child's trap page is the father's, but for the kernel stack.
CopyTrapPage(k, father_trap, child_trap, child) ==
  Then(k, LAMBDA j : Store(memcpy(j, child_trap, j.mem[father_trap]),
                           child_trap, KERNEL_SP, kstack(child)))

\* alloc_proc and the copies of __sys_fork, for the child in slot child.
ForkMemory(child) ==
  With(kalloc(kmem), LAMBDA trap :
    With(proc_pagetable(trap.k, trap.ppn), LAMBDA space :
      [k    |-> CopyTrapPage(uvm_copy(space.k, root_ppn[current], space.root,
                                      base_size[current]),
                             trap_cx_ppn[current], trap.ppn, child),
       trap |-> trap.ppn,
       root |-> space.root]))

MemFork ==
  /\ InUser /\ next_pid <= MaxPid
  /\ \E child \in Slots :
       /\ alloc_proc(child)
       /\ \E m \in {ForkMemory(child)} :
            \/ PanicAt(m.k)
            \/ /\ Ok(m.k)
               /\ SysFork
               /\ kmem' = m.k
               /\ root_ppn' = [root_ppn EXCEPT ![child] = m.root]
               /\ trap_cx_ppn' = [trap_cx_ppn EXCEPT ![child] = m.trap]
               /\ base_size' = [base_size EXCEPT ![child] = base_size[current]]
               /\ UNCHANGED execs

\* A new page table with the old trap page; the old one is freed at the end.
MemExec(segments) ==
  /\ InUser /\ execs < MaxExec
  /\ \E space \in {proc_pagetable(kmem, trap_cx_ppn[current])} :
     \E freed \in {free_proc_memory(load_segment(space.k, space.root, segments),
                                   root_ppn[current], base_size[current])} :
       \/ PanicAt(freed)
       \/ /\ Ok(freed)
          /\ kmem' = freed
          /\ root_ppn' = [root_ppn EXCEPT ![current] = space.root]
          /\ base_size' = [base_size EXCEPT ![current] = StackTop(segments)]
          /\ execs' = execs + 1
          /\ UNCHANGED <<vars, trap_cx_ppn>>

Clear(field, child) == [field EXCEPT ![child] = 0]

MemReap ==
  \E child \in ZombiesOf(current) :
    /\ Scans
    /\ \A other \in ZombiesOf(current) : child <= other
    /\ \E freed \in {free_child(kmem, root_ppn[child], base_size[child])} :
         \/ PanicAt(freed)
         \/ /\ Ok(freed)
            /\ RecycleReap
            /\ kmem' = freed
            /\ root_ppn' = Clear(root_ppn, child)
            /\ trap_cx_ppn' = Clear(trap_cx_ppn, child)
            /\ base_size' = Clear(base_size, child)
            /\ UNCHANGED execs

-----------------------------------------------------------------------------
(***************************************************************************)
(* Writes.  A process writes through the hardware's walk of its page       *)
(* table; the kernel writes the character of getchar through uptr_to_kptr. *)
(* Programs pass addresses of the user half.                               *)
(***************************************************************************)
\* A plausible bug: the address is looked up in the first process's table.
InFirstSpace(k, vpn) == find_pte(k, root_ppn[0], vpn)

uptr_to_kptr(k, vpn) == find_pte(k, root_ppn[current], vpn)

WriteTo(k, place, value) == Store(k, PageTableEntry_ppn(At(k, place)), 0, value)

UserWrite(vpn, value) ==
  LET place == find_pte(kmem, root_ppn[current], vpn)
  IN  /\ InUser
      /\ place # NULLPTE
      /\ Has(At(kmem, place), PTE_W) /\ Has(At(kmem, place), PTE_U)
      /\ kmem' = WriteTo(kmem, place, value)
      /\ UNCHANGED <<vars, structs>>

\* *pte is read whether or not find_pte found an entry; address 0 is not
\* mapped in the kernel.
MemGetchar(vpn, c) ==
  LET place == uptr_to_kptr(kmem, vpn)
  IN  IF place = NULLPTE
        THEN PollsConsole /\ PanicAt(PanicWith(kmem, "trap from kernel"))
        ELSE /\ GetcharDone
             /\ kmem' = WriteTo(kmem, place, c)
             /\ UNCHANGED structs

-----------------------------------------------------------------------------
MemSyscall ==
  \/ MemFork \/ MemReap
  \/ \E segments \in Programs : MemExec(segments)
  \/ \E vpn \in Buffers, c \in Values : MemGetchar(vpn, c)

\* Steps that leave memory alone.  The timer is left out: the switch that an
\* interrupt makes is that of SysYield, which a process may call at any time.
\* So are the calls that fail, and the panics of Tasks that end a run.
MemIdle ==
  /\ SysYield \/ YieldReturn \/ SysExit \/ ExitReturn \/ GetcharWait \/ RecycleWait
  /\ UNCHANGED memvars

MemNext ==
  /\ Ok(kmem)
  /\ \/ MemSyscall \/ MemIdle
     \/ \E vpn \in Buffers, value \in Values : UserWrite(vpn, value)

MemSpec == MemInit /\ [][MemNext]_allvars

-----------------------------------------------------------------------------
(***************************************************************************)
(* Properties.                                                             *)
(***************************************************************************)
Live == {s \in Slots : task_state[s] # "UnInit"}

\* The tables below the frame ppn, as the entries of its words point to them.
TablesIn(ppn) ==
  {PageTableEntry_ppn(kmem.mem[ppn][i]) :
     i \in {j \in Words : PageTableEntry_is_valid(kmem.mem[ppn][j])}}

MidTables(s) == TablesIn(root_ppn[s])
LeafTables(s) == UNION {TablesIn(t) : t \in MidTables(s)}
MappedPages(s) == {v \in VPNs : find_pte(kmem, root_ppn[s], v) # NULLPTE}
Translate(s, vpn) == At(kmem, find_pte(kmem, root_ppn[s], vpn))
FrameOf(s, vpn) == PageTableEntry_ppn(Translate(s, vpn))

\* The frames of process s: its page tables, its pages and its trap page.
Owned(s) ==
  {root_ppn[s], trap_cx_ppn[s]} \cup MidTables(s) \cup LeafTables(s)
    \cup {FrameOf(s, v) : v \in MappedPages(s) \cap UserPages}

\* A frame has one owner: no two processes share one, no process uses a frame
\* for two purposes, and nobody uses a recycled or a never allocated frame.
FramesExclusive ==
  /\ \A s, t \in Live : s # t => Owned(s) \cap Owned(t) = {}
  /\ \A s \in Live :
       /\ Owned(s) \subseteq (Start..(kmem.a.current - 1)) \ Entries(kmem.a.recycled)
       /\ Cardinality(Owned(s)) =
            2 + Cardinality(MidTables(s)) + Cardinality(LeafTables(s))
              + Cardinality(MappedPages(s) \cap UserPages)

\* Every frame that was handed out belongs to a process or is recycled: fork,
\* exec and recycle leak none, whatever order they are called in.
NoLeak ==
  Start..(kmem.a.current - 1) =
    Entries(kmem.a.recycled) \cup UNION {Owned(s) : s \in Live}

\* Each process, Zombies included, has the trampoline and its own trap page
\* mapped for the kernel only, and its trap page names its own kernel stack.
TrapPages ==
  \A s \in Live :
    /\ MappedPages(s) \ UserPages = {TRAMPOLINE, TRAPFRAME}
    /\ FrameOf(s, TRAMPOLINE) = trampoline
    /\ FrameOf(s, TRAPFRAME) = trap_cx_ppn[s]
    /\ ~Has(Translate(s, TRAMPOLINE), PTE_U) /\ ~Has(Translate(s, TRAPFRAME), PTE_U)
    /\ kmem.mem[trap_cx_ppn[s]][KERNEL_SP] = kstack(s)

\* The memory code stops the kernel only when memory is full or a process
\* passes an unmapped buffer: no assert of PageTable_map, no leaf met by
\* free_page_table and no double free is ever reached.
NoMemoryAssert == kmem.panic \in {"no", "memory is full", "trap from kernel"}

\* The memory of a process as the hardware shows it.
UserView(s) ==
  LET place(v) == find_pte(kmem, root_ppn[s], v)
  IN  [v \in {u \in UserPages : place(u) # NULLPTE} |->
         LET pte == At(kmem, place(v))
         IN  [flags |-> PageTableEntry_flags(pte),
              page |-> kmem.mem[PageTableEntry_ppn(pte)]]]

\* The pages a program starts with, read off its segments.
Image(segments) ==
  LET pages == UNION {{SegmentPage(segments[i], j) : j \in 1..Len(segments[i].words)} :
                        i \in 1..Len(segments)}
                 \cup {[vpn |-> StackTop(segments) - 1, page |-> ZeroPage,
                        flags |-> PTE_R + PTE_W + PTE_U]}
  IN  [v \in {p.vpn : p \in pages} |->
         LET p == CHOOSE q \in pages : q.vpn = v
         IN  [flags |-> p.flags + PTE_V, page |-> p.page]]

Memory ==
  INSTANCE ProcessMemory WITH
    Images <- {Image(p) : p \in Programs},
    FirstImage <- Image(atest),
    space <- [s \in Slots |-> IF s \in Live THEN UserView(s) ELSE <<>>],
    running <- current,
    stopped <- ~Ok(kmem)

\* Page tables, frames and copies give every process the private memory that
\* ProcessMemory promises: fork copies, exec replaces, a write or a getchar
\* changes one page of the caller, and no other step is seen by any process.
ImplementsProcessMemory == Memory!Spec
=============================================================================
