-------------------------------- MODULE Sv39 --------------------------------
(***************************************************************************)
(* Three-level page tables in physical memory (os/src/address.c), as       *)
(* operators on a record k: the frame allocator k.a, the contents k.mem of *)
(* every frame, and k.panic, the panic() or assert() that stopped the      *)
(* kernel.  After a panic nothing changes any more.                        *)
(*                                                                         *)
(* A frame holds E words; E is 512 in the code.  A word is a page table    *)
(* entry, ppn * 2^10 + flags as in PageTableEntry_new, or data.            *)
(***************************************************************************)
EXTENDS FrameStack, Sequencing, SequencesExt

CONSTANT E      \* words of a frame, entries of a page table

ASSUME TableSize == E \in Nat /\ E >= 2

Words == 0..(E - 1)
ZeroPage == [i \in Words |-> 0]
VPNs == 0..(E * E * E - 1)

-----------------------------------------------------------------------------
(***************************************************************************)
(* Then goes on with the next statement unless the kernel has panicked.    *)
(***************************************************************************)
Ok(k) == k.panic = "no"

Then(k, Step(_)) == With(k, LAMBDA j : IF Ok(j) THEN Step(j) ELSE j)

PanicWith(k, why) == [k EXCEPT !.panic = why]

-----------------------------------------------------------------------------
(***************************************************************************)
(* kalloc and kfree with the memory they clear and the panics they raise.  *)
(***************************************************************************)
Boot == [a |-> StackFrameAllocator_new, mem |-> [f \in Frames |-> ZeroPage],
         panic |-> "no"]

\* The frame and the memory left behind (any frame, after a panic).
kalloc(k) ==
  With(k, LAMBDA j :
    IF ~Ok(j) \/ IsExhausted(j.a)
      THEN [k |-> IF Ok(j) THEN PanicWith(j, "memory is full") ELSE j, ppn |-> Start]
      ELSE With(StackFrameAllocator_alloc(j.a), LAMBDA r :
             [k |-> [j EXCEPT !.a = r.a, !.mem[r.ppn] = ZeroPage], ppn |-> r.ppn]))

kfree(k, ppn) ==
  Then(k, LAMBDA j :
    IF ~NotYetAllocated(j.a, ppn) /\ AlreadyRecycled(j.a, ppn)
      THEN PanicWith(j, "this page has not been alloced")
      ELSE [j EXCEPT !.a = StackFrameAllocator_dealloc(@, ppn)])

Store(k, ppn, i, word) == Then(k, LAMBDA j : [j EXCEPT !.mem[ppn][i] = word])
memcpy(k, to, page) == Then(k, LAMBDA j : [j EXCEPT !.mem[to] = page])

-----------------------------------------------------------------------------
(***************************************************************************)
(* Page table entries.                                                     *)
(***************************************************************************)
PTE_V == 1
PTE_R == 2
PTE_W == 4
PTE_X == 8
PTE_U == 16

PageTableEntry_new(ppn, flags) == ppn * 1024 + flags
PageTableEntry_ppn(pte) == pte \div 1024
PageTableEntry_flags(pte) == pte % 256
Has(pte, flag) == (pte \div flag) % 2 = 1
Or(flags, flag) == IF Has(flags, flag) THEN flags ELSE flags + flag
PageTableEntry_is_valid(pte) == Has(pte, PTE_V)
IsTablePointer(pte) == ~Has(pte, PTE_R) /\ ~Has(pte, PTE_W) /\ ~Has(pte, PTE_X)

get_page_offset(vpn) == <<(vpn \div (E * E)) % E, (vpn \div E) % E, vpn % E>>

-----------------------------------------------------------------------------
(***************************************************************************)
(* Walks.  find_pte returns the place of the last-level entry, or NULLPTE. *)
(***************************************************************************)
NULLPTE == [table |-> -1, i |-> 0]

At(k, place) == k.mem[place.table][place.i]

find_pte(k, root, vpn) ==
  LET idx == get_page_offset(vpn)
      p1 == k.mem[root][idx[1]]
      p2 == k.mem[PageTableEntry_ppn(p1)][idx[2]]
      place == [table |-> PageTableEntry_ppn(p2), i |-> idx[3]]
  IN  IF /\ PageTableEntry_is_valid(p1)
         /\ PageTableEntry_is_valid(p2)
         /\ PageTableEntry_is_valid(At(k, place))
        THEN place ELSE NULLPTE

\* One level of find_pte_create: the table behind entry i, made if missing.
Descend(walk, i) ==
  With(walk, LAMBDA w :
    IF ~Ok(w.k) THEN w
    ELSE IF PageTableEntry_is_valid(w.k.mem[w.ppn][i])
      THEN [k |-> w.k, ppn |-> PageTableEntry_ppn(w.k.mem[w.ppn][i])]
      ELSE With(kalloc(w.k), LAMBDA new :
             [k |-> Store(new.k, w.ppn, i, PageTableEntry_new(new.ppn, PTE_V)),
              ppn |-> new.ppn]))

find_pte_create(k, root, vpn) ==
  LET idx == get_page_offset(vpn)
  IN  With(Descend(Descend([k |-> k, ppn |-> root], idx[1]), idx[2]), LAMBDA w :
        [k |-> w.k, place |-> [table |-> w.ppn, i |-> idx[3]]])

\* PageTable_map of one page, which is how the code for processes uses it.
PageTable_map(k, root, vpn, ppn, flags) ==
  With(find_pte_create(k, root, vpn), LAMBDA r :
    IF Ok(r.k) /\ PageTableEntry_is_valid(At(r.k, r.place))
      THEN PanicWith(r.k, "assert: already mapped")
      ELSE Store(r.k, r.place.table, r.place.i,
                 PageTableEntry_new(ppn, Or(flags, PTE_V))))

-----------------------------------------------------------------------------
(***************************************************************************)
(* Unmapping.                                                              *)
(***************************************************************************)
UnmapPage(k, root, vpn, free) ==
  Then(k, LAMBDA j : With(find_pte(j, root, vpn), LAMBDA place :
    IF place = NULLPTE THEN j
    ELSE Store(IF free THEN kfree(j, PageTableEntry_ppn(At(j, place))) ELSE j,
               place.table, place.i, 0)))

page_unmap_free(k, root, vpn, num_pages, free) ==
  FoldLeft(LAMBDA acc, i : UnmapPage(acc, root, vpn + i - 1, free), k,
           [i \in 1..num_pages |-> i])

\* One call of the recursive free_page_table, given the call for the level
\* below: clear every entry after freeing its table, then free this frame.
FreeTable(k, ppn, FreeBelow(_, _)) ==
  LET clear(acc, i) ==
        Then(acc, LAMBDA j :
          LET pte == j.mem[ppn][i]
          IN  IF ~PageTableEntry_is_valid(pte) THEN j
              ELSE IF IsTablePointer(pte)
                THEN Store(FreeBelow(j, PageTableEntry_ppn(pte)), ppn, i, 0)
                ELSE PanicWith(j, "free_page_table error"))
  IN  kfree(FoldLeft(clear, k, [i \in 1..E |-> i - 1]), ppn)

\* The recursion goes through three levels; the walks make no deeper table.
FreeNothing(k, ppn) == PanicWith(k, "fourth level")
FreeLeafTable(k, ppn) == FreeTable(k, ppn, FreeNothing)
FreeMidTable(k, ppn) == FreeTable(k, ppn, FreeLeafTable)
free_page_table(k, ppn) == FreeTable(k, ppn, FreeMidTable)

\* base_size is counted in pages.
exec_free_lowhalf(k, root, pages) ==
  free_page_table(page_unmap_free(k, root, 0, pages, TRUE), root)
=============================================================================
