----------------------------- MODULE KernelSpace -----------------------------
(***************************************************************************)
(* The kernel's own address space (kvm_make, proc_mapstacks, PageTable_map *)
(* and kvminit of os/src/address.c) on the page tables of Sv39, which have *)
(* E entries here.  Addresses are counted in bytes, a page has PAGE_SIZE;  *)
(* KERNBASE, the linker's symbols and PHYSTOP are page aligned.            *)
(***************************************************************************)
EXTENDS Sv39

CONSTANTS
  PAGE_SIZE,
  KERNBASE,        \* address of the kernel; it is loaded below frame Start
  ETexts,          \* the places where the linker may put etext
  MAX_TASK_NUM

ASSUME KernelAssumption ==
  /\ \A a \in ETexts \cup {KERNBASE} : a % PAGE_SIZE = 0
  /\ \A e \in ETexts : KERNBASE < e /\ e <= Start * PAGE_SIZE

VARIABLES
  k,               \* the record of Sv39
  root,            \* kernel_pagetable.root_ppn
  etext,
  calls,           \* calls of PageTable_map that have returned
  loop,            \* the call in progress: its locals
  stacks,          \* the frames under the kernel stacks, in order
  satp             \* the table the hart uses; 0 before kvminit sets it

kernel == <<k, root, etext, calls, loop, stacks, satp>>

PHYSTOP == End * PAGE_SIZE
MAXVA == E * E * E * PAGE_SIZE
TRAMPOLINE == -PAGE_SIZE                   \* the last page of 64 bits
KSTACK(p) == TRAMPOLINE - (p + 1) * 2 * PAGE_SIZE
trampoline == KERNBASE + PAGE_SIZE

virt_addr_from_size_t(v) == v % MAXVA
floor_virts(va) == va \div PAGE_SIZE
floor_phys(pa) == pa \div PAGE_SIZE

Idle == [vpn |-> 0, ppn |-> 0, last_page |-> -1, flags |-> 0]

KernelInit ==
  /\ k = Boot /\ root = 0 /\ etext \in ETexts
  /\ calls = 0 /\ loop = Idle /\ stacks = <<>> /\ satp = 0

-----------------------------------------------------------------------------
LastPage(va, size) == (va + size - 1) \div PAGE_SIZE

\* PageTable_map(va, pa, size, flags) up to its loop, in memory m
PageTable_map_begin(m, va, pa, size, flags) ==
  IF size = 0
    THEN k' = PanicWith(m, "page size is 0") /\ UNCHANGED loop
    ELSE /\ k' = m
         /\ loop' = [vpn |-> floor_virts(va), ppn |-> floor_phys(pa),
                     last_page |-> LastPage(va, size), flags |-> flags]

\* One round of the loop
PageTable_map_per_page ==
  /\ loop # Idle /\ Ok(k)
  /\ k' = PageTable_map(k, root, loop.vpn, loop.ppn, loop.flags)
  /\ IF loop.vpn + 1 <= loop.last_page
       THEN /\ loop' = [loop EXCEPT !.vpn = @ + 1, !.ppn = @ + 1]
            /\ UNCHANGED calls
       ELSE loop' = Idle /\ calls' = calls + 1
  /\ UNCHANGED <<root, etext, stacks, satp>>

Before(n) == Ok(k) /\ root # 0 /\ loop = Idle /\ calls = n

kvm_make ==
  /\ root = 0
  /\ \E r \in {kalloc(k)} : k' = r.k /\ root' = r.ppn
  /\ UNCHANGED <<etext, calls, loop, stacks, satp>>

MapText ==
  /\ Before(0)
  /\ PageTable_map_begin(k, KERNBASE, KERNBASE, etext - KERNBASE, PTE_R + PTE_X)
  /\ UNCHANGED <<root, etext, calls, stacks, satp>>

MapData ==
  /\ Before(1)
  /\ PageTable_map_begin(k, etext, etext, PHYSTOP - etext, PTE_R + PTE_W)
  /\ UNCHANGED <<root, etext, calls, stacks, satp>>

MapTrampoline ==
  /\ Before(2)
  /\ PageTable_map_begin(k, virt_addr_from_size_t(TRAMPOLINE), trampoline, PAGE_SIZE, PTE_R + PTE_X)
  /\ UNCHANGED <<root, etext, calls, stacks, satp>>

\* mutant: the stacks follow each other without a gap
StackWithoutGap ==
  /\ \E p \in 0..(MAX_TASK_NUM - 1), r \in {kalloc(k)} :
       /\ Before(3 + p)
       /\ stacks' = Append(stacks, r.ppn)
       /\ PageTable_map_begin(r.k, virt_addr_from_size_t(TRAMPOLINE - (p + 1) * PAGE_SIZE),
                              r.ppn * PAGE_SIZE, PAGE_SIZE, PTE_R + PTE_W)
  /\ UNCHANGED <<root, etext, calls, satp>>

\* One round of proc_mapstacks
proc_mapstacks ==
  /\ \E p \in 0..(MAX_TASK_NUM - 1), r \in {kalloc(k)} :
       /\ Before(3 + p)
       /\ stacks' = Append(stacks, r.ppn)
       /\ PageTable_map_begin(r.k, virt_addr_from_size_t(KSTACK(p)),
                              r.ppn * PAGE_SIZE, PAGE_SIZE, PTE_R + PTE_W)
  /\ UNCHANGED <<root, etext, calls, satp>>

\* kvminit reads the entry of the first kernel stack, then turns paging on.
kvminit ==
  /\ Before(3 + MAX_TASK_NUM) /\ satp = 0
  /\ IF find_pte(k, root, floor_virts(virt_addr_from_size_t(KSTACK(0)))) = NULLPTE
       THEN k' = PanicWith(k, "null pointer") /\ UNCHANGED satp
       ELSE satp' = root /\ UNCHANGED k
  /\ UNCHANGED <<root, etext, calls, loop, stacks>>

kvm_step ==
  \/ kvm_make \/ MapText \/ MapData \/ MapTrampoline \/ proc_mapstacks
  \/ PageTable_map_per_page \/ kvminit

-----------------------------------------------------------------------------
Entry(vpn) == At(k, find_pte(k, satp, vpn))

\* The pages that translate, with the frame and the rights of each
Mapped == {<<v, PageTableEntry_ppn(Entry(v)), PageTableEntry_flags(Entry(v))>> :
             v \in {w \in VPNs : find_pte(k, satp, w) # NULLPTE}}

Stack(p) == E * E * E - 1 - 2 * (p + 1)

\* kvm_make meets no assertion, empty allocator or null pointer, and with
\* paging on the kernel's image and all frames are where they were, text
\* executable and the rest writable but never both; the last page is the
\* trampoline; each process has a kernel stack of its own; nothing else
\* translates, so the page under every stack is a guard (include/address.h).
KernelMap ==
  /\ Ok(k)
  /\ satp # 0 => Mapped =
      {<<v, v, PTE_V + PTE_R + PTE_X>> : v \in floor_virts(KERNBASE)..(floor_virts(etext) - 1)}
      \cup {<<v, v, PTE_V + PTE_R + PTE_W>> : v \in floor_virts(etext)..(End - 1)}
      \cup {<<E * E * E - 1, floor_phys(trampoline), PTE_V + PTE_R + PTE_X>>}
      \cup {<<Stack(p), stacks[p + 1], PTE_V + PTE_R + PTE_W>> : p \in 0..(MAX_TASK_NUM - 1)}

=============================================================================
