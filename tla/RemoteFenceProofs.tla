--------------------------- MODULE RemoteFenceProofs ---------------------------
(***************************************************************************)
(* Remote fences for every number of harts, every fifo size, every page    *)
(* size and address space, and whatever harts stop and start: no entry is  *)
(* left in a fifo without a notice, no acknowledgement meets another       *)
(* request, and a fence that returns has been carried out everywhere.      *)
(***************************************************************************)
EXTENDS RemoteFence, FiniteSetTheorems, TLAPS

\* A non-empty set of naturals has a least element, which sbi_ffs finds.
LEMMA MinIn ==
  ASSUME NEW S, S \subseteq Nat, S # {}
  PROVE  Min(S) \in S
<1>1. PICK x \in S : \A y \in S : ~(<<y, x>> \in OpToRel(<, Nat))
  BY NatLessThanWellFounded, WFMin, Zenon
<1>2. \A y \in S : ~(y < x)
  BY <1>1, Zenon DEF OpToRel
<1>3. \A y \in S : x <= y
  BY <1>2
<1> QED
  BY <1>3, Zenon DEF Min

\* A queue with one entry replaced is a queue of the same length.
LEMMA EntryReplaced ==
  ASSUME NEW S, NEW seq \in Seq(S), NEW i \in 1..Len(seq), NEW e \in S
  PROVE  /\ [seq EXCEPT ![i] = e] \in Seq(S)
         /\ Len([seq EXCEPT ![i] = e]) = Len(seq)
OBVIOUS

-----------------------------------------------------------------------------
\* Where a hart is and, while it works off its fifo, where it goes on
Starting == {"init", "init_device", "init_sync", "init_fifo", "init_done"}
Labels == {"run", "send", "enqueue", "set_bit", "ring", "sync", "drain", "ack",
           "ipi", "exit", "halt", "stopped"} \cup Starting
Backs == {"run", "halt", "enqueue", "sync"}

\* It has no request, or one with a target that it is at work on.
Idle(l, b) ==
  \/ l \in {"run", "exit", "ipi", "halt", "stopped"} \cup Starting
  \/ l \in {"drain", "ack"} /\ b \in {"run", "halt"}
Busy(l, b) ==
  \/ l \in {"enqueue", "set_bit", "ring", "sync"}
  \/ l \in {"drain", "ack"} /\ b \in {"enqueue", "sync"}

\* struct sbi_tlb_info in a fifo: some hart waits for it.
Queued == [fn : {"none", "fence_i", "sfence_vma", "sfence_vma_asid"}, asid : Asids \cup {0},
           start : 0..(Space - 1), size : 0..(Space - 1), smask : (SUBSET Harts) \ {{}}]

FenceTypes ==
  /\ pc \in [Harts -> Labels] /\ back \in [Harts -> Backs]
  /\ req \in [Harts -> Tinfo] /\ todo \in [Harts -> SUBSET Harts]
  /\ fifo \in [Harts -> Seq(Queued)]
  /\ sync \in [Harts -> {0, 1}]
  /\ ipi_type \in [Harts -> SUBSET {"TLB"}] /\ msip \in [Harts -> BOOLEAN]
  /\ acks \in [Harts -> SUBSET Harts]
  /\ DOMAIN owed = Harts /\ \A s \in Harts : DOMAIN owed[s] = Harts

\* The locals of a hart fit where it is.
Locals ==
  \A h \in Harts :
    /\ Busy(pc[h], back[h]) => todo[h] # {}
    /\ Idle(pc[h], back[h]) => todo[h] = {}
    /\ pc[h] = "ipi" => back[h] \in {"run", "halt"}
    /\ pc[h] = "ack" <=> acks[h] # {}

\* The hart that a busy hart is at work on is one of its targets.
LEMMA TargetIn ==
  ASSUME FenceTypes, NEW h \in Harts, todo[h] # {}
  PROVE  NextTarget(h) \in todo[h] /\ NextTarget(h) \in Harts
<1>1. todo[h] \subseteq Harts /\ todo[h] \subseteq Nat
  BY SizesAssumption, Zenon DEF FenceTypes
<1> QED
  BY <1>1, MinIn, Zenon DEF NextTarget

\* The upgrade of a range gives a range.
LEMMA UpgradedType ==
  ASSUME NEW r \in Tinfo
  PROVE  Upgraded(r) \in Tinfo /\ Upgraded(Upgraded(r)) = Upgraded(r)
<1>1. CASE r.size > FlushLimit
  <2>1. /\ Upgraded(r) = [r EXCEPT !.start = 0, !.size = FLUSH_ALL]
        /\ FLUSH_ALL \in 0..(Space - 1) /\ 0 \in 0..(Space - 1)
    BY <1>1, SizesAssumption DEF Upgraded, FLUSH_ALL
  <2>2. /\ Upgraded(r) \in Tinfo /\ Upgraded(r).start = 0 /\ Upgraded(r).size = FLUSH_ALL
    BY <2>1, Zenon DEF Tinfo
  <2>3. [Upgraded(r) EXCEPT !.start = 0, !.size = FLUSH_ALL] = Upgraded(r)
    BY <2>2, Zenon DEF Tinfo
  <2> QED
    BY <2>2, <2>3, Zenon DEF Upgraded
<1>2. CASE ~(r.size > FlushLimit)
  BY <1>2, Zenon DEF Upgraded
<1> QED
  BY <1>1, <1>2, Zenon

\* A new entry has its sender as its source.
LEMMA EntryType ==
  ASSUME NEW r \in Tinfo, NEW h \in Harts
  PROVE  Entry(r, h) \in Queued /\ Entry(r, h).smask = {h}
BY Zenon DEF Entry, Tinfo, Queued

\* A merged entry has its sender as one more source.
LEMMA MergedType ==
  ASSUME NEW r \in Tinfo, NEW h \in Harts, NEW e \in Queued
  PROVE  Merged(e, r, h) \in Queued /\ Merged(e, r, h).smask = e.smask \cup {h}
BY Zenon DEF Merged, Entry, Tinfo, Queued

\* The entry that the callback chooses exists.
LEMMA HitIn ==
  ASSUME NEW f \in Seq(Queued), NEW r, Hits(f, r) # {}
  PROVE  /\ Min(Hits(f, r)) \in 1..Len(f)
         /\ tlb_update_cb(r, f[Min(Hits(f, r))]) # "UNCHANGED"
<1>1. Hits(f, r) \subseteq Nat
  BY DEF Hits
<1>2. Min(Hits(f, r)) \in Hits(f, r)
  BY <1>1, MinIn, Zenon
<1> QED
  BY <1>2, Zenon DEF Hits

-----------------------------------------------------------------------------
\* An acknowledgement can come from an entry i of fifo f.
Asks(f, i, s) == i \in 1..Len(f) /\ s \in f[i].smask

\* A hart has been served by its target but does not know it yet.
Waits(l, b) ==
  \/ l \in {"set_bit", "ring", "sync"}
  \/ l \in {"drain", "ack"} /\ b = "sync"

\* An acknowledgement to s has one place: an entry of fifos f, a hart that works
\* through the sources a of an entry, or the word y of s; and there is none
\* while s does not wait.
One(f, a, y, waits, s) ==
  /\ \A t, u \in Harts, i, j \in Nat : Asks(f[t], i, s) /\ Asks(f[u], j, s) => t = u /\ i = j
  /\ \A t, u \in Harts, i \in Nat : Asks(f[t], i, s) => s \notin a[u]
  /\ \A t, u \in Harts : s \in a[t] /\ s \in a[u] => t = u
  /\ y # 0 \/ ~waits => \A t \in Harts : s \notin a[t] /\ \A i \in Nat : ~Asks(f[t], i, s)
  /\ ~waits => y = 0

Single ==
  \A s \in Harts : One(fifo, acks, sync[s], Waits(pc[s], back[s]), s)

\* Nobody waits when the fifos are empty.
LEMMA NoneAskAtFirst ==
  ASSUME Init
  PROVE  \A s, t \in Harts, i \in Nat : ~Asks(fifo[t], i, s)
<1> SUFFICES ASSUME NEW s \in Harts, NEW t \in Harts, NEW i \in Nat PROVE ~Asks(fifo[t], i, s)
  BY Zenon
<1>1. fifo[t] = <<>>
  BY Zenon DEF Init
<1>2. ~(i \in 1..Len(<<>>))
  OBVIOUS
<1> QED
  BY <1>1, <1>2, Zenon DEF Asks

-----------------------------------------------------------------------------
\* Numbers: a whole number of pages, and what the page loop computes from it
LEMMA PageNumbers ==
  ASSUME NEW n \in Nat
  PROVE  /\ n % PageSize = 0 => n = (n \div PageSize) * PageSize
         /\ n \div PageSize \in Nat
         /\ (n * PageSize) \div PageSize = n
         /\ n * PageSize \in Nat
<1>1. PageSize \in Nat \ {0}
  BY SizesAssumption, Zenon
<1> QED
  BY <1>1

\* A remainder of a smaller number is the number.
LEMMA ModSmall ==
  ASSUME NEW d \in Nat \ {0}, NEW n \in Nat, n < d
  PROVE  n % d = n
OBVIOUS

\* Page numbers are ordered as the addresses.
LEMMA PageOrder ==
  ASSUME NEW m \in Nat, NEW n \in Nat
  PROVE  m * PageSize < n * PageSize <=> m < n
<1>1. PageSize \in Nat \ {0}
  BY SizesAssumption, Zenon
<1> QED
  BY <1>1

-----------------------------------------------------------------------------
\* A range that starts with a page and ends before the address space does, and
\* is not the (0, 0) that stands for everything
Whole(r) ==
  \/ r.fn = "fence_i"
  \/ /\ r.fn \in {"sfence_vma", "sfence_vma_asid"}
     /\ r.start % PageSize = 0
     /\ r.start + r.size < Space
     /\ ~(r.start = 0 /\ r.size = 0)

\* The calls ask for such ranges, or for ranges so large that they are upgraded.
WholeCalls == \A h \in Harts : \A c \in Calls[h] : Whole(Upgraded(c[1]))

\* The pages of such a range, from its bounds
PagesOf(r) ==
  IF r.size = FLUSH_ALL
    THEN Pages
    ELSE {p \in Pages : p * PageSize >= r.start /\ p * PageSize < r.start + r.size}

AsidsOf(r) == IF r.fn = "sfence_vma" THEN Asids ELSE {r.asid}

\* The page loop flushes exactly the pages of the range.
LEMMA FlushedPages ==
  ASSUME NEW r, Whole(r), r.fn # "fence_i", r.start \in Nat, r.size \in Nat
  PROVE  Flushed(r) = InTlb(AsidsOf(r), PagesOf(r))
<1>1. /\ r.start % PageSize = 0 /\ r.start + r.size < Space /\ ~(r.start = 0 /\ r.size = 0)
      /\ PageSize \in Nat \ {0} /\ Space \in Nat \ {0} /\ Space % PageSize = 0
  BY SizesAssumption, Zenon DEF Whole
<1>2. CASE r.size = FLUSH_ALL
  BY <1>1, <1>2, Zenon DEF Flushed, AsidsOf, PagesOf
<1>3. CASE r.size # FLUSH_ALL
  <2> DEFINE Loop == {((r.start + i * PageSize) % Space) \div PageSize :
                        i \in {j \in Pages : j * PageSize < r.size}}
             k == r.start \div PageSize
             n == Space \div PageSize
  <2>1. /\ r.start = k * PageSize /\ k \in Nat
        /\ Space = n * PageSize /\ n \in Nat
    BY <1>1, PageNumbers, Zenon
  <2>2. Pages \subseteq Nat /\ \A p \in Nat : p \in Pages <=> p < n
    BY <2>1 DEF Pages
  <2> HIDE DEF k, n
  <2>3. ASSUME NEW i \in Nat, i * PageSize < r.size
        PROVE  /\ ((r.start + i * PageSize) % Space) \div PageSize = k + i
               /\ (k + i) * PageSize = r.start + i * PageSize
               /\ k + i \in Pages
    <3>1. i * PageSize \in Nat /\ (k + i) * PageSize = r.start + i * PageSize
      BY <1>1, <2>1, PageNumbers
    <3>2. r.start + i * PageSize < Space
      BY <1>1, <2>3, <3>1
    <3>3. (r.start + i * PageSize) % Space = r.start + i * PageSize
      <4> DEFINE x == r.start + i * PageSize
      <4>1. x \in Nat /\ x < Space
        BY <3>1, <3>2
      <4> HIDE DEF x
      <4>2. x % Space = x
        BY <1>1, <4>1, ModSmall, Zenon
      <4> QED
        BY <4>2, Zenon DEF x
    <3>4. ((k + i) * PageSize) \div PageSize = k + i
      BY <2>1, PageNumbers
    <3>5. k + i < n
      BY <2>1, <3>1, <3>2, PageOrder
    <3> QED
      BY <2>1, <2>2, <3>1, <3>3, <3>4, <3>5
  <2>4. Loop \subseteq PagesOf(r)
    <3> SUFFICES ASSUME NEW i \in Pages, i * PageSize < r.size
                 PROVE  ((r.start + i * PageSize) % Space) \div PageSize \in PagesOf(r)
      BY Zenon
    <3>1. i \in Nat /\ i * PageSize \in Nat
      BY <2>2, PageNumbers, Zenon
    <3> QED
      BY <1>3, <2>3, <3>1 DEF PagesOf
  <2>5. PagesOf(r) \subseteq Loop
    <3> SUFFICES ASSUME NEW p \in Pages, p * PageSize >= r.start, p * PageSize < r.start + r.size
                 PROVE  p \in Loop
      BY <1>3, Zenon DEF PagesOf
    <3>1. p \in Nat /\ p < n /\ p * PageSize \in Nat
      BY <2>2, PageNumbers, Zenon
    <3>2. p >= k
      BY <2>1, <3>1, PageOrder
    <3>3. p - k \in Nat /\ p - k \in Pages /\ (p - k) * PageSize = p * PageSize - r.start
      BY <1>1, <2>1, <2>2, <3>1, <3>2
    <3>4. (p - k) * PageSize < r.size
      BY <3>1, <3>3
    <3>5. p = ((r.start + (p - k) * PageSize) % Space) \div PageSize
      BY <2>1, <2>3, <3>1, <3>3, <3>4
    <3> QED
      BY <3>3, <3>4, <3>5, Zenon
  <2>6. Flushed(r) = InTlb(AsidsOf(r), Loop)
    BY <1>1, <1>3, Zenon DEF Flushed, AsidsOf
  <2> QED
    BY <2>4, <2>5, <2>6, Zenon
<1> QED
  BY <1>2, <1>3, Zenon

\* Fewer pages or fewer address spaces are less to flush.
LEMMA InTlbMonotone ==
  ASSUME NEW A, NEW B, A \subseteq B, NEW P, NEW Q, P \subseteq Q
  PROVE  InTlb(A, P) \subseteq InTlb(B, Q)
BY DEF InTlb

\* The local function flushes what a call asks for, upgraded or not.
LEMMA AskedIsFlushed ==
  ASSUME NEW r \in Tinfo, Whole(Upgraded(r))
  PROVE  Asked(r) \subseteq Flushed(Upgraded(r))
<1>1. /\ Upgraded(r) \in Tinfo /\ Upgraded(r).fn = r.fn /\ Upgraded(r).asid = r.asid
      /\ r.start \in Nat /\ r.size \in Nat
      /\ Upgraded(r).start \in Nat /\ Upgraded(r).size \in Nat
  <2>1. Upgraded(r) \in Tinfo /\ Upgraded(r).fn = r.fn /\ Upgraded(r).asid = r.asid
    BY UpgradedType, Zenon DEF Upgraded, Tinfo
  <2>2. \A q \in Tinfo : q.start \in Nat /\ q.size \in Nat
    BY SizesAssumption DEF Tinfo
  <2> QED
    BY <2>1, <2>2, Zenon
<1>2. CASE r.fn = "fence_i"
  BY <1>1, <1>2, Zenon DEF Asked, Flushed
<1>3. CASE r.fn # "fence_i"
  <2>1. Flushed(Upgraded(r)) = InTlb(AsidsOf(r), PagesOf(Upgraded(r)))
    BY <1>1, <1>3, FlushedPages, Zenon DEF AsidsOf
  <2>2. ~(r.start = 0 /\ r.size = 0)
    BY <1>1, <1>3, SizesAssumption DEF Whole, Upgraded
  <2>3. Asked(r) = InTlb(AsidsOf(r), {p \in Pages : p * PageSize >= r.start /\ p * PageSize < r.start + r.size})
    BY <1>3, <2>2, Zenon DEF Asked, AsidsOf
  <2>4. {p \in Pages : p * PageSize >= r.start /\ p * PageSize < r.start + r.size} \subseteq PagesOf(Upgraded(r))
    <3>1. CASE r.size > FlushLimit
      <4>1. Upgraded(r).size = FLUSH_ALL
        BY <3>1, Zenon DEF Upgraded, Tinfo
      <4> QED
        BY <4>1, Zenon DEF PagesOf
    <3>2. CASE ~(r.size > FlushLimit)
      <4>1. Upgraded(r) = r
        BY <3>2, Zenon DEF Upgraded
      <4> QED
        BY <4>1, Zenon DEF PagesOf
    <3> QED
      BY <3>1, <3>2, Zenon
  <2> QED
    BY <2>1, <2>3, <2>4, InTlbMonotone
<1> QED
  BY <1>2, <1>3, Zenon

\* An entry that makes the callback skip a range flushes it, and a range that
\* takes an entry's place flushes what the entry did.
LEMMA MergeCovers ==
  ASSUME NEW r, Whole(r), r.start \in Nat, r.size \in Nat,
         NEW e, Whole(e), e.start \in Nat, e.size \in Nat
  PROVE  /\ tlb_update_cb(r, e) = "SKIP" => Flushed(r) \subseteq Flushed(e)
         /\ tlb_update_cb(r, e) = "UPDATED" => Flushed(e) \subseteq Flushed(r)
<1> SUFFICES ASSUME tlb_update_cb(r, e) \in {"SKIP", "UPDATED"}
             PROVE  /\ tlb_update_cb(r, e) = "SKIP" => Flushed(r) \subseteq Flushed(e)
                    /\ tlb_update_cb(r, e) = "UPDATED" => Flushed(e) \subseteq Flushed(r)
  BY Zenon
<1>1. /\ tlb_update_cb(r, e) = tlb_range_check(e, r)
      /\ r.fn # "fence_i" /\ e.fn # "fence_i"
      /\ AsidsOf(r) = AsidsOf(e)
  BY Zenon DEF tlb_update_cb, AsidsOf
<1>2. /\ r.start + r.size \in Nat /\ r.start + r.size < Space
      /\ e.start + e.size \in Nat /\ e.start + e.size < Space
      /\ Space \in Nat \ {0}
  BY <1>1, SizesAssumption DEF Whole
<1>3. (r.start + r.size) % Space = r.start + r.size /\ (e.start + e.size) % Space = e.start + e.size
  BY <1>2, ModSmall, Zenon
<1>4. /\ Flushed(r) = InTlb(AsidsOf(r), PagesOf(r))
      /\ Flushed(e) = InTlb(AsidsOf(e), PagesOf(e))
  BY <1>1, FlushedPages, Zenon
<1>5. Pages \subseteq Nat /\ \A p \in Pages : p * PageSize \in Nat
  <2>1. Space \div PageSize \in Nat
    BY <1>2, PageNumbers, Zenon
  <2>2. Pages \subseteq Nat
    BY <2>1 DEF Pages
  <2> QED
    BY <2>2, PageNumbers, Zenon
<1>6. CASE tlb_update_cb(r, e) = "SKIP"
  <2>1. r.start >= e.start /\ r.start + r.size <= e.start + e.size
    BY <1>1, <1>3, <1>6, Zenon DEF tlb_range_check
  <2>2. PagesOf(r) \subseteq PagesOf(e)
    <3>1. CASE e.size = FLUSH_ALL
      BY <3>1, Zenon DEF PagesOf
    <3>2. CASE e.size # FLUSH_ALL
      <4>1. r.size # FLUSH_ALL
        BY <1>2, <2>1, <3>2 DEF FLUSH_ALL
      <4>2. SUFFICES ASSUME NEW p \in Pages, p * PageSize >= r.start, p * PageSize < r.start + r.size
                      PROVE  p * PageSize >= e.start /\ p * PageSize < e.start + e.size
        BY <3>2, <4>1, Zenon DEF PagesOf
      <4>3. p * PageSize \in Nat
        BY <1>5, Zenon
      <4> QED
        BY <1>2, <2>1, <4>2, <4>3
    <3> QED
      BY <3>1, <3>2, Zenon
  <2> QED
    BY <1>1, <1>4, <1>6, <2>2, InTlbMonotone
<1>7. CASE tlb_update_cb(r, e) = "UPDATED"
  <2>1. r.start <= e.start /\ r.start + r.size > e.start + e.size
    BY <1>1, <1>3, <1>7, Zenon DEF tlb_range_check
  <2>2. PagesOf(e) \subseteq PagesOf(r)
    <3>1. CASE r.size = FLUSH_ALL
      BY <3>1, Zenon DEF PagesOf
    <3>2. CASE r.size # FLUSH_ALL
      <4>1. e.size # FLUSH_ALL
        BY <1>2, <2>1, <3>2 DEF FLUSH_ALL
      <4>2. SUFFICES ASSUME NEW p \in Pages, p * PageSize >= e.start, p * PageSize < e.start + e.size
                      PROVE  p * PageSize >= r.start /\ p * PageSize < r.start + r.size
        BY <3>2, <4>1, Zenon DEF PagesOf
      <4>3. p * PageSize \in Nat
        BY <1>5, Zenon
      <4> QED
        BY <1>2, <2>1, <4>2, <4>3
    <3> QED
      BY <3>1, <3>2, Zenon
  <2> QED
    BY <1>1, <1>4, <1>7, <2>2, InTlbMonotone
<1> QED
  BY <1>6, <1>7, Zenon

\* What is still owed to hart s, with targets td, request rq and debts ow, is
\* what its request will flush, or the entry of fifos f that carries it now; and
\* nothing is left at the present target once s has been acknowledged or is being.
Covers(s, td, rq, busy, ow, f, told) ==
  /\ \A t \in Harts : t \notin td => ow[t] = {}
  /\ \A t \in Harts : t \in td => Whole(Upgraded(rq)) /\ ow[t] \subseteq Flushed(Upgraded(rq))
  /\ busy => Upgraded(rq) = rq
  /\ \A t \in Harts, i \in Nat : Asks(f[t], i, s) => t = Min(td) /\ ow[t] \subseteq Flushed(f[t][i])
  /\ told => ow[Min(td)] = {}

Told(y, a, s) == y = 1 \/ \E t \in Harts : s \in a[t]

WholeEntries(f) == \A t \in Harts : \A i \in 1..Len(f[t]) : Whole(f[t][i])

Covered ==
  /\ WholeEntries(fifo)
  /\ \A s \in Harts :
       Covers(s, todo[s], req[s], Busy(pc[s], back[s]), owed[s], fifo, Told(sync[s], acks, s))

-----------------------------------------------------------------------------
\* Both hold at the start.
LEMMA TypesInit == Init => FenceTypes /\ Locals
<1> SUFFICES ASSUME Init PROVE FenceTypes /\ Locals
  BY Zenon
<1>1. None \in Tinfo
  BY SizesAssumption DEF None, Tinfo
<1>2. <<>> \in Seq(Queued)
  OBVIOUS
<1>3. FenceTypes
  BY <1>1, <1>2, Zenon DEF Init, FenceTypes, Labels, Backs
<1> QED
  BY <1>3, Zenon DEF Init, Locals, Busy, Idle

\* They are kept when a hart only goes on to a place that its locals fit.
LEMMA GoesOn ==
  ASSUME FenceTypes, Locals, NEW h \in Harts, NEW l \in Labels, NEW b \in Backs,
         pc' = [pc EXCEPT ![h] = l], back' = [back EXCEPT ![h] = b],
         UNCHANGED <<req, todo, fifo, acks, owed>>,
         sync' \in [Harts -> {0, 1}],
         ipi_type' \in [Harts -> SUBSET {"TLB"}], msip' \in [Harts -> BOOLEAN],
         Busy(l, b) => todo[h] # {}, Idle(l, b) => todo[h] = {},
         l = "ipi" => b \in {"run", "halt"}, l # "ack", pc[h] # "ack"
  PROVE  FenceTypes' /\ Locals'
<1>1. FenceTypes'
  BY Zenon DEF FenceTypes
<1> SUFFICES ASSUME NEW g \in Harts
             PROVE  /\ Busy(pc'[g], back'[g]) => todo[g] # {}
                    /\ Idle(pc'[g], back'[g]) => todo[g] = {}
                    /\ pc'[g] = "ipi" => back'[g] \in {"run", "halt"}
                    /\ pc'[g] = "ack" <=> acks[g] # {}
  BY <1>1, Zenon DEF Locals
<1>2. CASE g = h
  BY <1>2, Zenon DEF FenceTypes, Locals
<1>3. CASE g # h
  BY <1>3, Zenon DEF FenceTypes, Locals
<1> QED
  BY <1>2, <1>3, Zenon

\* The sender's steps keep them.
LEMMA SenderTypes ==
  ASSUME FenceTypes, Locals, NEW h \in Harts,
         \/ \E c \in Calls[h] : Request(h, c[1], c[2])
         \/ Send(h) \/ Enqueue(h) \/ SetBit(h) \/ Ring(h) \/ tlb_sync(h)
  PROVE  FenceTypes' /\ Locals'
<1> USE DEF GoTo, sender, target
<1>1. CASE \E c \in Calls[h] : Request(h, c[1], c[2])
  <2> PICK c \in Calls[h] : Request(h, c[1], c[2])
    BY <1>1, Zenon
  <2>1. c[1] \in Tinfo /\ c[2] \subseteq Harts
    BY CallsAssumption, Zenon
  <2>2. pc[h] = "run" /\ todo'[h] \subseteq Harts
    BY <2>1 DEF Request, FenceTypes
  <2>3. FenceTypes'
    BY <2>1, <2>2, Zenon DEF Request, FenceTypes, Labels
  <2> QED
    BY <2>2, <2>3 DEF Request, FenceTypes, Locals, Busy, Idle, Starting
<1>2. CASE Send(h)
  <2>1. pc[h] = "send" /\ UNCHANGED <<sync, ipi_type, msip, acks, quota, back, state>>
    BY <1>2, Zenon DEF Send
  <2>2. CASE todo[h] = {}
    <3>1. pc' = [pc EXCEPT ![h] = "run"] /\ req' = [req EXCEPT ![h] = None] /\ UNCHANGED <<todo, fifo, owed>>
      BY <1>2, <2>2, Zenon DEF Send
    <3>2. None \in Tinfo
      BY SizesAssumption DEF None, Tinfo
    <3>3. FenceTypes'
      BY <2>1, <3>1, <3>2, Zenon DEF FenceTypes, Labels
    <3> QED
      BY <2>1, <2>2, <3>1, <3>3, Zenon DEF FenceTypes, Locals, Busy, Idle, Starting
  <2>3. CASE todo[h] # {}
    <3> DEFINE t == NextTarget(h)
               r == Upgraded(req[h])
    <3>1. t \in Harts /\ r \in Tinfo /\ tlb_update(h, t, r)
      BY <1>2, <2>3, TargetIn, UpgradedType, Zenon DEF Send, FenceTypes
    <3> HIDE DEF t, r
    <3>2. req' = [req EXCEPT ![h] = r]
      BY <3>1, Zenon DEF tlb_update
    <3>3. CASE t = h
      <4>1. todo' = [todo EXCEPT ![h] = @ \ {t}] /\ UNCHANGED <<pc, fifo>> /\ Flush(h, r)
        BY <3>1, <3>3, Zenon DEF tlb_update
      <4>2. DOMAIN owed' = Harts /\ \A s \in Harts : DOMAIN owed'[s] = Harts
        BY <4>1, Zenon DEF Flush, FenceTypes
      <4>3. FenceTypes'
        BY <2>1, <3>1, <3>2, <4>1, <4>2, Zenon DEF FenceTypes
      <4> QED
        BY <2>1, <4>1, <4>3, Zenon DEF FenceTypes, Locals, Busy, Idle, Starting
    <3>4. CASE t # h /\ Hits(fifo[t], r) # {}
      <4> DEFINE i == Min(Hits(fifo[t], r))
      <4>1. /\ fifo' = [fifo EXCEPT ![t][i] = Merged(@, r, h)]
            /\ pc' = [pc EXCEPT ![h] = "set_bit"] /\ UNCHANGED <<todo, owed>>
        BY <3>1, <3>4, Zenon DEF tlb_update
      <4>2. fifo[t] \in Seq(Queued) /\ i \in 1..Len(fifo[t])
        BY <3>1, <3>4, HitIn, Zenon DEF FenceTypes
      <4> HIDE DEF i
      <4>3. [fifo[t] EXCEPT ![i] = Merged(fifo[t][i], r, h)] \in Seq(Queued)
        BY <3>1, <4>2, MergedType, EntryReplaced
      <4>4. FenceTypes'
        BY <2>1, <3>1, <3>2, <4>1, <4>3, Zenon DEF FenceTypes, Labels
      <4> QED
        BY <2>1, <2>3, <4>1, <4>4, Zenon DEF FenceTypes, Locals, Busy, Idle, Starting
    <3>5. CASE t # h /\ Hits(fifo[t], r) = {}
      <4>1. pc' = [pc EXCEPT ![h] = "enqueue"] /\ UNCHANGED <<todo, fifo, owed>>
        BY <3>1, <3>5, Zenon DEF tlb_update
      <4>2. FenceTypes'
        BY <2>1, <3>1, <3>2, <4>1, Zenon DEF FenceTypes, Labels
      <4> QED
        BY <2>1, <2>3, <4>1, <4>2, Zenon DEF FenceTypes, Locals, Busy, Idle, Starting
    <3> QED
      BY <3>3, <3>4, <3>5, Zenon
  <2> QED
    BY <2>2, <2>3, Zenon
<1>3. CASE Enqueue(h)
  <2> DEFINE t == NextTarget(h)
  <2>1. /\ pc[h] = "enqueue" /\ todo[h] # {} /\ t \in Harts
        /\ UNCHANGED <<req, todo, sync, ipi_type, msip, acks, state, owed>>
    BY <1>3, TargetIn, Zenon DEF Enqueue, Locals, Busy
  <2> HIDE DEF t
  <2>2. CASE Len(fifo[t]) < FifoSize
    <3>1. /\ fifo' = [fifo EXCEPT ![t] = Append(@, Entry(req[h], h))]
          /\ pc' = [pc EXCEPT ![h] = "set_bit"] /\ UNCHANGED back
      BY <1>3, <2>2, SizesAssumption DEF Enqueue, FenceTypes, t
    <3>2. Append(fifo[t], Entry(req[h], h)) \in Seq(Queued)
      BY <2>1, EntryType DEF FenceTypes
    <3>3. FenceTypes'
      BY <2>1, <3>1, <3>2, Zenon DEF FenceTypes, Labels
    <3> QED
      BY <2>1, <3>1, <3>3, Zenon DEF FenceTypes, Locals, Busy, Idle, Starting
  <2>3. CASE ~(Len(fifo[t]) < FifoSize)
    <3>1. /\ pc' = [pc EXCEPT ![h] = "drain"] /\ back' = [back EXCEPT ![h] = "enqueue"] /\ UNCHANGED fifo
      BY <1>3, <2>3, Zenon DEF Enqueue, Drain, t
    <3>2. FenceTypes'
      BY <2>1, <3>1, Zenon DEF FenceTypes, Labels, Backs
    <3> QED
      BY <2>1, <3>1, <3>2, Zenon DEF FenceTypes, Locals, Busy, Idle, Starting
  <2> QED
    BY <2>2, <2>3, Zenon
<1>4. CASE SetBit(h)
  <2>1. todo[h] # {} /\ pc[h] = "set_bit"
    BY <1>4, Zenon DEF SetBit, Locals, Busy
  <2>2. NextTarget(h) \in Harts
    BY <2>1, TargetIn, Zenon
  <2>3. back' = [back EXCEPT ![h] = back[h]] /\ ipi_type' \in [Harts -> SUBSET {"TLB"}]
    BY <1>4, <2>2, Zenon DEF SetBit, FenceTypes
  <2> QED
    BY <1>4, <2>1, <2>3, GoesOn, Zenon DEF SetBit, FenceTypes, Labels, Starting, Busy, Idle
<1>5. CASE Ring(h)
  <2>1. todo[h] # {} /\ pc[h] = "ring"
    BY <1>5, Zenon DEF Ring, Locals, Busy
  <2>2. NextTarget(h) \in Harts
    BY <2>1, TargetIn, Zenon
  <2>3. back' = [back EXCEPT ![h] = back[h]] /\ msip' \in [Harts -> BOOLEAN]
    BY <1>5, <2>2, Zenon DEF Ring, FenceTypes
  <2> QED
    BY <1>5, <2>1, <2>3, GoesOn, Zenon DEF Ring, FenceTypes, Labels, Starting, Busy, Idle
<1>6. CASE tlb_sync(h)
  <2>1. todo[h] # {} /\ pc[h] = "sync" /\ UNCHANGED <<req, fifo, ipi_type, msip, acks, owed>>
    BY <1>6, Zenon DEF tlb_sync, Locals, Busy
  <2>2. CASE sync[h] = 1
    <3>1. /\ sync' = [sync EXCEPT ![h] = 0] /\ todo' = [todo EXCEPT ![h] = @ \ {NextTarget(h)}]
          /\ pc' = [pc EXCEPT ![h] = "send"] /\ UNCHANGED back
      BY <1>6, <2>2 DEF tlb_sync
    <3>2. FenceTypes'
      BY <2>1, <3>1, Zenon DEF FenceTypes, Labels
    <3> QED
      BY <2>1, <3>1, <3>2, Zenon DEF FenceTypes, Locals, Busy, Idle, Starting
  <2>3. CASE sync[h] # 1
    <3>1. /\ pc' = [pc EXCEPT ![h] = "drain"] /\ back' = [back EXCEPT ![h] = "sync"]
          /\ UNCHANGED <<sync, todo>>
      BY <1>6, <2>3, Zenon DEF tlb_sync, Drain
    <3> QED
      BY <2>1, <3>1, GoesOn, Zenon DEF FenceTypes, Labels, Starting, Backs, Busy, Idle
  <2> QED
    BY <2>2, <2>3, Zenon
<1> QED
  BY <1>1, <1>2, <1>3, <1>4, <1>5, <1>6, Zenon

\* The least source of an entry that is being acknowledged
LEMMA AckIn ==
  ASSUME FenceTypes, Locals, NEW h \in Harts, pc[h] = "ack"
  PROVE  Min(acks[h]) \in acks[h] /\ Min(acks[h]) \in Harts
<1>1. acks[h] # {} /\ acks[h] \subseteq Harts /\ acks[h] \subseteq Nat
  BY SizesAssumption, Zenon DEF FenceTypes, Locals
<1> QED
  BY <1>1, MinIn, Zenon

\* The start-up of a hart, up to and after the fifo
StartsUp(h) ==
  \/ sbi_hsm_hart_start(h) \/ sbi_ipi_init(h) \/ aclint_mswi_warm_init(h)
  \/ sbi_tlb_init(h) \/ sbi_hsm_prepare_next_jump(h)

\* It leaves the senders, the fifos and the acknowledgements alone, except that
\* the hart's own word may be reset.
LEMMA StartUpSteps ==
  ASSUME FenceTypes, NEW h \in Harts, StartsUp(h)
  PROVE  /\ pc[h] \in {"stopped"} \cup Starting
         /\ \E l \in Starting \cup {"run"} : pc' = [pc EXCEPT ![h] = l]
         /\ UNCHANGED <<req, todo, fifo, acks, quota, back, owed>>
         /\ sync' \in {sync, [sync EXCEPT ![h] = 0]}
         /\ ipi_type' \in {ipi_type, [ipi_type EXCEPT ![h] = {}]}
         /\ msip' \in {msip, [msip EXCEPT ![h] = FALSE]}
BY Zenon DEF StartsUp, sbi_hsm_hart_start, sbi_ipi_init, aclint_mswi_warm_init, sbi_tlb_init,
     sbi_hsm_prepare_next_jump, GoTo, sender, target, Starting

\* So do the target's, and stopping and starting.
LEMMA TargetTypes ==
  ASSUME FenceTypes, Locals, NEW h \in Harts,
         \/ Dequeue(h) \/ tlb_entry_process(h)
         \/ ClearDevice(h) \/ sbi_ipi_process(h) \/ sbi_hsm_exit(h)
         \/ sbi_hsm_hart_stop(h) \/ StartsUp(h) \/ sbi_fifo_init(h)
  PROVE  FenceTypes' /\ Locals'
<1> USE DEF GoTo, sender, target
<1>1. CASE Dequeue(h)
  <2>1. pc[h] = "drain" /\ acks[h] = {} /\ UNCHANGED <<req, todo, sync, ipi_type, msip, state>>
    BY <1>1, Zenon DEF Dequeue, Locals
  <2>2. CASE fifo[h] = <<>>
    <3>1. /\ pc' = [pc EXCEPT ![h] = back[h]] /\ back' = [back EXCEPT ![h] = "run"]
          /\ UNCHANGED <<fifo, acks, owed>>
      BY <1>1, <2>2, Zenon DEF Dequeue, Drained
    <3>2. FenceTypes'
      BY <2>1, <3>1, Zenon DEF FenceTypes, Labels, Backs
    <3> QED
      BY <2>1, <3>1, <3>2, Zenon DEF FenceTypes, Locals, Busy, Idle, Starting, Backs
  <2>3. CASE fifo[h] # <<>>
    <3>1. /\ fifo' = [fifo EXCEPT ![h] = Tail(@)] /\ Flush(h, Head(fifo[h]))
          /\ acks' = [acks EXCEPT ![h] = Head(fifo[h]).smask]
          /\ pc' = [pc EXCEPT ![h] = "ack"] /\ UNCHANGED back
      BY <1>1, <2>3, Zenon DEF Dequeue
    <3>2. Tail(fifo[h]) \in Seq(Queued) /\ Head(fifo[h]) \in Queued
      BY <2>3 DEF FenceTypes
    <3>3. Head(fifo[h]).smask \in SUBSET Harts /\ Head(fifo[h]).smask # {}
      BY <3>2, Zenon DEF Queued
    <3>4. DOMAIN owed' = Harts /\ \A s \in Harts : DOMAIN owed'[s] = Harts
      BY <3>1, Zenon DEF Flush, FenceTypes
    <3>5. FenceTypes'
      BY <2>1, <3>1, <3>2, <3>3, <3>4, Zenon DEF FenceTypes, Labels
    <3> QED
      BY <2>1, <3>1, <3>3, <3>5, Zenon DEF FenceTypes, Locals, Busy, Idle, Starting
  <2> QED
    BY <2>2, <2>3, Zenon
<1>2. CASE tlb_entry_process(h)
  <2>1. pc[h] = "ack" /\ UNCHANGED <<req, todo, fifo, ipi_type, msip, state, owed>>
    BY <1>2, Zenon DEF tlb_entry_process
  <2>2. /\ sync' = [sync EXCEPT ![Min(acks[h])] = 1]
        /\ acks' = [acks EXCEPT ![h] = @ \ {Min(@)}]
        /\ \/ acks'[h] # {} /\ UNCHANGED <<pc, back>>
           \/ acks'[h] = {} /\ pc' = [pc EXCEPT ![h] = "drain"] /\ UNCHANGED back
           \/ acks'[h] = {} /\ pc' = [pc EXCEPT ![h] = back[h]] /\ back' = [back EXCEPT ![h] = "run"]
    BY <1>2, Zenon DEF tlb_entry_process, Drained
  <2>3. sync' \in [Harts -> {0, 1}] /\ acks' \in [Harts -> SUBSET Harts]
    BY <2>2, Zenon DEF FenceTypes
  <2>4. pc' \in [Harts -> Labels] /\ back' \in [Harts -> Backs]
    <3>1. CASE UNCHANGED <<pc, back>>
      BY <3>1, Zenon DEF FenceTypes
    <3>2. CASE pc' = [pc EXCEPT ![h] = "drain"] /\ UNCHANGED back
      BY <3>2, Zenon DEF FenceTypes, Labels
    <3>3. CASE pc' = [pc EXCEPT ![h] = back[h]] /\ back' = [back EXCEPT ![h] = "run"]
      BY <3>3, Zenon DEF FenceTypes, Labels, Backs
    <3> QED
      BY <2>2, <3>1, <3>2, <3>3, Zenon
  <2>5. FenceTypes'
    BY <2>1, <2>3, <2>4, Zenon DEF FenceTypes
  <2> QED
    BY <2>1, <2>2, <2>5 DEF FenceTypes, Locals, Busy, Idle, Starting, Backs
<1>3. CASE ClearDevice(h)
  <2>1. /\ pc[h] \in {"run", "exit"} /\ pc' = [pc EXCEPT ![h] = "ipi"]
        /\ back' = [back EXCEPT ![h] = IF pc[h] = "run" THEN "run" ELSE "halt"]
        /\ msip' = [msip EXCEPT ![h] = FALSE]
        /\ UNCHANGED <<req, todo, fifo, acks, owed, sync, ipi_type>>
    BY <1>3, Zenon DEF ClearDevice
  <2>2. todo[h] = {}
    BY <2>1, Zenon DEF Locals, Idle
  <2> QED
    BY <2>1, <2>2, GoesOn, Zenon DEF FenceTypes, Labels, Starting, Backs, Busy, Idle
<1>4. CASE sbi_ipi_process(h)
  <2>1. /\ pc[h] = "ipi" /\ ipi_type' = [ipi_type EXCEPT ![h] = {}]
        /\ UNCHANGED <<req, todo, fifo, acks, owed, sync, msip>>
        /\ \/ pc' = [pc EXCEPT ![h] = "drain"] /\ back' = [back EXCEPT ![h] = back[h]]
           \/ pc' = [pc EXCEPT ![h] = back[h]] /\ back' = [back EXCEPT ![h] = "run"]
    BY <1>4, Zenon DEF sbi_ipi_process, Drain, Drained
  <2>2. todo[h] = {} /\ back[h] \in {"run", "halt"}
    BY <2>1, Zenon DEF Locals, Idle
  <2> QED
    BY <2>1, <2>2, GoesOn, Zenon DEF FenceTypes, Labels, Starting, Backs, Busy, Idle
<1>5. CASE sbi_hsm_exit(h) \/ sbi_hsm_hart_stop(h) \/ StartsUp(h)
  <2>1. /\ pc[h] \in {"halt", "run", "stopped"} \cup Starting
        /\ \E l \in {"stopped", "exit", "run"} \cup Starting : pc' = [pc EXCEPT ![h] = l]
        /\ UNCHANGED <<req, todo, fifo, acks, owed, back>>
    <3>1. CASE sbi_hsm_exit(h) \/ sbi_hsm_hart_stop(h)
      BY <3>1, Zenon DEF sbi_hsm_exit, sbi_hsm_hart_stop
    <3>2. CASE StartsUp(h)
      BY <3>2, StartUpSteps, Zenon
    <3> QED
      BY <1>5, <3>1, <3>2, Zenon
  <2>2. /\ sync' \in [Harts -> {0, 1}] /\ ipi_type' \in [Harts -> SUBSET {"TLB"}]
        /\ msip' \in [Harts -> BOOLEAN]
    <3>1. CASE sbi_hsm_exit(h) \/ sbi_hsm_hart_stop(h)
      BY <3>1, Zenon DEF sbi_hsm_exit, sbi_hsm_hart_stop, FenceTypes
    <3>2. CASE StartsUp(h)
      BY <3>2, StartUpSteps, Zenon DEF FenceTypes
    <3> QED
      BY <1>5, <3>1, <3>2, Zenon
  <2>3. todo[h] = {} /\ back' = [back EXCEPT ![h] = back[h]]
    BY <2>1, Zenon DEF Locals, Idle, FenceTypes
  <2> PICK l \in {"stopped", "exit", "run"} \cup Starting : pc' = [pc EXCEPT ![h] = l]
    BY <2>1, Zenon
  <2>4. back[h] \in Backs /\ l \in Labels /\ ~Busy(l, back[h]) /\ l \notin {"ipi", "ack"} /\ pc[h] # "ack"
    BY <2>1, Zenon DEF FenceTypes, Labels, Starting, Busy
  <2> QED
    BY <2>1, <2>2, <2>3, <2>4, GoesOn, Zenon
<1>6. CASE sbi_fifo_init(h)
  <2>1. <<>> \in Seq(Queued)
    OBVIOUS
  <2>2. FenceTypes'
    BY <1>6, <2>1, Zenon DEF sbi_fifo_init, FenceTypes, Labels, Starting
  <2> QED
    BY <1>6, <2>2, Zenon DEF sbi_fifo_init, FenceTypes, Locals, Busy, Idle, Starting
<1> QED
  BY <1>1, <1>2, <1>3, <1>4, <1>5, <1>6, Zenon

\* Every step is a step of one hart.
HartStep(h) ==
  \/ \E c \in Calls[h] : Request(h, c[1], c[2])
  \/ Send(h) \/ Enqueue(h) \/ SetBit(h) \/ Ring(h) \/ tlb_sync(h)
  \/ Dequeue(h) \/ tlb_entry_process(h)
  \/ ClearDevice(h) \/ sbi_ipi_process(h) \/ sbi_hsm_exit(h)
  \/ sbi_hsm_hart_stop(h) \/ StartsUp(h) \/ sbi_fifo_init(h)

\* Next lists the same steps.
LEMMA NextIsHartStep == Next => \E h \in Harts : HartStep(h)
BY Zenon DEF Next, Proceed, HartStep, StartsUp

\* Types and locals are kept by every step.
LEMMA TypesStep == FenceTypes /\ Locals /\ [Next]_vars => (FenceTypes /\ Locals)'
<1> SUFFICES ASSUME FenceTypes, Locals, [Next]_vars PROVE FenceTypes' /\ Locals'
  BY Zenon
<1>1. CASE Next
  <2> PICK h \in Harts : HartStep(h)
    BY <1>1, NextIsHartStep, Zenon
  <2> QED
    BY SenderTypes, TargetTypes, Zenon DEF HartStep
<1>2. CASE UNCHANGED vars
  <2>1. FenceTypes'
    BY <1>2, Zenon DEF vars, sender, target, FenceTypes
  <2> QED
    BY <1>2, <2>1, Zenon DEF vars, sender, target, Locals
<1> QED
  BY <1>1, <1>2, Zenon

\* A hart's step leaves the locals of the others alone.
LEMMA OwnStep ==
  ASSUME FenceTypes, NEW h \in Harts, HartStep(h), NEW g \in Harts, g # h
  PROVE  pc'[g] = pc[g] /\ back'[g] = back[g] /\ todo'[g] = todo[g] /\ req'[g] = req[g]
<1> USE DEF GoTo, sender, target, Drain, Drained
<1>1. CASE \E c \in Calls[h] : Request(h, c[1], c[2])
  BY <1>1, Zenon DEF Request, FenceTypes
<1>2. CASE Send(h)
  BY <1>2, Zenon DEF Send, tlb_update, FenceTypes
<1>3. CASE Enqueue(h)
  BY <1>3, Zenon DEF Enqueue, FenceTypes
<1>4. CASE SetBit(h) \/ Ring(h)
  BY <1>4, Zenon DEF SetBit, Ring, FenceTypes
<1>5. CASE tlb_sync(h)
  BY <1>5, Zenon DEF tlb_sync, FenceTypes
<1>6. CASE Dequeue(h)
  BY <1>6, Zenon DEF Dequeue, FenceTypes
<1>7. CASE tlb_entry_process(h)
  BY <1>7, Zenon DEF tlb_entry_process, FenceTypes
<1>8. CASE ClearDevice(h) \/ sbi_ipi_process(h)
  BY <1>8 DEF ClearDevice, sbi_ipi_process, FenceTypes
<1>9. CASE sbi_hsm_exit(h) \/ sbi_hsm_hart_stop(h) \/ sbi_fifo_init(h)
  BY <1>9, Zenon DEF sbi_hsm_exit, sbi_hsm_hart_stop, sbi_fifo_init, FenceTypes
<1>10. CASE StartsUp(h)
  <2>1. UNCHANGED <<req, todo, back>> /\ \E l : pc' = [pc EXCEPT ![h] = l]
    BY <1>10, StartUpSteps, Zenon
  <2> QED
    BY <2>1, Zenon DEF FenceTypes
<1> QED
  BY <1>1, <1>2, <1>3, <1>4, <1>5, <1>6, <1>7, <1>8, <1>9, <1>10, Zenon DEF HartStep

-----------------------------------------------------------------------------
\* Whom a hart rings is among its own locals.
LEMMA RingsOn ==
  ASSUME NEW s \in Harts, todo'[s] = todo[s]
  PROVE  NextTarget(s)' = NextTarget(s)
BY Zenon DEF NextTarget, Min

\* How much a hart still takes from its fifo is its own affair.
LEMMA OwnQuota ==
  ASSUME DOMAIN quota = Harts, NEW h \in Harts, HartStep(h)
  PROVE  DOMAIN quota' = Harts /\ \A g \in Harts : g # h => quota'[g] = quota[g]
<1> USE DEF GoTo, sender, target, Drain, Drained
<1>1. CASE (\E c \in Calls[h] : Request(h, c[1], c[2])) \/ Send(h) \/ Enqueue(h) \/ tlb_sync(h)
  BY <1>1, Zenon DEF Request, Send, Enqueue, tlb_sync
<1>2. CASE SetBit(h) \/ Ring(h) \/ Dequeue(h) \/ tlb_entry_process(h)
  BY <1>2, Zenon DEF SetBit, Ring, Dequeue, tlb_entry_process
<1>3. CASE \/ ClearDevice(h) \/ sbi_ipi_process(h) \/ sbi_hsm_exit(h)
           \/ sbi_hsm_hart_stop(h) \/ sbi_fifo_init(h)
  BY <1>3, Zenon DEF ClearDevice, sbi_ipi_process, sbi_hsm_exit, sbi_hsm_hart_stop, sbi_fifo_init
<1>4. CASE StartsUp(h)
  BY <1>4, Zenon DEF StartsUp, sbi_hsm_hart_start, sbi_ipi_init, aclint_mswi_warm_init, sbi_tlb_init,
                sbi_hsm_prepare_next_jump
<1> QED
  BY <1>1, <1>2, <1>3, <1>4, Zenon DEF HartStep

\* A notice for t outlives a step of h that takes nothing of it away.
LEMMA NoticeKept ==
  ASSUME FenceTypes, DOMAIN quota = Harts, NEW h \in Harts, HartStep(h), NEW t \in Harts, Noticed(t),
         "TLB" \in ipi_type[t] => "TLB" \in ipi_type'[t],
         msip[t] => msip'[t],
         pc[h] = "ipi" => h # t,
         pc[h] = "set_bit" => NextTarget(h) # t,
         pc[h] = "ring" => NextTarget(h) # t \/ msip'[t],
         h = t /\ pc[h] \in {"drain", "ack"} /\ quota[h] = 0 => pc'[h] \in {"drain", "ack"} /\ quota'[h] = 0
  PROVE  Noticed(t)'
<1>1. \A s \in Harts : s # h => pc'[s] = pc[s] /\ NextTarget(s)' = NextTarget(s) /\ quota'[s] = quota[s]
  BY OwnStep, OwnQuota, RingsOn, Zenon
<1>2. CASE "TLB" \in ipi_type[t] /\ (msip[t] \/ pc[t] = "ipi")
  BY <1>1, <1>2, Zenon DEF Noticed
<1>3. CASE "TLB" \in ipi_type[t] /\ \E s \in Harts : pc[s] = "ring" /\ NextTarget(s) = t
  BY <1>1, <1>3, Zenon DEF Noticed
<1>4. CASE \E s \in Harts : pc[s] = "set_bit" /\ NextTarget(s) = t
  BY <1>1, <1>4, Zenon DEF Noticed
<1>5. CASE pc[t] \in {"drain", "ack"} /\ quota[t] = 0
  BY <1>1, <1>5, Zenon DEF Noticed
<1> QED
  BY <1>2, <1>3, <1>4, <1>5, Zenon DEF Noticed

\* Hart t has entries that it must have been told of.
Holds(t) == fifo[t] # <<>> /\ pc[t] \notin {"init_device", "init_sync", "init_fifo"}

\* A step that takes no notice away, and after which only harts have entries that
\* had some before
LEMMA NoticesKept ==
  ASSUME FenceTypes, DOMAIN quota = Harts, NoEntryForgotten, NEW h \in Harts, HartStep(h),
         UNCHANGED <<ipi_type, msip>>, pc[h] \notin {"ipi", "set_bit", "ring"},
         pc[h] \in {"drain", "ack"} /\ quota[h] = 0 => pc'[h] \in {"drain", "ack"} /\ quota'[h] = 0,
         \A t \in Harts : Holds(t)' => Holds(t)
  PROVE  NoEntryForgotten'
<1> SUFFICES ASSUME NEW t \in Harts, Holds(t)' PROVE Noticed(t)'
  BY Zenon DEF NoEntryForgotten, Holds
<1>1. Noticed(t)
  BY Zenon DEF NoEntryForgotten, Holds
<1> QED
  BY <1>1, NoticeKept, Zenon

\* A sender that has put or merged an entry into the fifo of t goes on to set the
\* event.
LEMMA EntryNoticed ==
  ASSUME FenceTypes, DOMAIN quota = Harts, NoEntryForgotten, NEW h \in Harts, HartStep(h),
         UNCHANGED <<ipi_type, msip, todo>>, pc[h] \in {"send", "enqueue"},
         pc' = [pc EXCEPT ![h] = "set_bit"],
         \A t \in Harts : t # NextTarget(h) => fifo'[t] = fifo[t]
  PROVE  NoEntryForgotten'
<1> SUFFICES ASSUME NEW t \in Harts, Holds(t)' PROVE Noticed(t)'
  BY Zenon DEF NoEntryForgotten, Holds
<1>1. pc'[h] = "set_bit" /\ NextTarget(h)' = NextTarget(h)
  BY RingsOn, Zenon DEF FenceTypes
<1>2. CASE t = NextTarget(h)
  BY <1>1, <1>2, Zenon DEF Noticed
<1>3. CASE t # NextTarget(h)
  <2>1. Holds(t)
    BY <1>3, OwnStep, Zenon DEF Holds
  <2>2. Noticed(t)
    BY <2>1, Zenon DEF NoEntryForgotten, Holds
  <2> QED
    BY <2>2, NoticeKept, Zenon
<1> QED
  BY <1>2, <1>3, Zenon

\* The sender's steps leave no entry without a notice.
LEMMA SenderNotices ==
  ASSUME FenceTypes, Locals, DOMAIN quota = Harts, NoEntryForgotten, NEW h \in Harts, HartStep(h),
         \/ \E c \in Calls[h] : Request(h, c[1], c[2])
         \/ Send(h) \/ Enqueue(h) \/ SetBit(h) \/ Ring(h) \/ tlb_sync(h)
  PROVE  NoEntryForgotten'
<1> USE DEF GoTo, sender, target
<1>1. ASSUME UNCHANGED <<ipi_type, msip, fifo>>, pc[h] \in {"run", "send", "enqueue", "sync"}
      PROVE  NoEntryForgotten'
  <2>1. \A t \in Harts : Holds(t)' => Holds(t)
    BY <1>1, OwnStep, Zenon DEF Holds
  <2> QED
    BY <1>1, <2>1, NoticesKept, Zenon
<1>2. CASE (\E c \in Calls[h] : Request(h, c[1], c[2])) \/ tlb_sync(h)
  BY <1>1, <1>2, Zenon DEF Request, tlb_sync
<1>3. CASE Send(h)
  <2>1. pc[h] = "send" /\ UNCHANGED <<ipi_type, msip>>
    BY <1>3, Zenon DEF Send
  <2>2. CASE fifo' = fifo
    BY <1>1, <2>1, <2>2, Zenon
  <2>3. CASE fifo' # fifo
    <3> DEFINE t == NextTarget(h)
    <3>1. tlb_update(h, t, Upgraded(req[h]))
      BY <1>3, <2>3, Zenon DEF Send
    <3>2. /\ pc' = [pc EXCEPT ![h] = "set_bit"] /\ UNCHANGED todo
          /\ \E i : \E e : fifo' = [fifo EXCEPT ![t][i] = e]
      BY <2>3, <3>1, Zenon DEF tlb_update
    <3>3. \A u \in Harts : u # t => fifo'[u] = fifo[u]
      BY <3>2, Zenon DEF FenceTypes
    <3> QED
      BY <2>1, <3>2, <3>3, EntryNoticed, Zenon
  <2> QED
    BY <2>2, <2>3, Zenon
<1>4. CASE Enqueue(h)
  <2>1. pc[h] = "enqueue" /\ UNCHANGED <<ipi_type, msip, todo>>
    BY <1>4, Zenon DEF Enqueue
  <2>2. CASE fifo' = fifo
    BY <1>1, <2>1, <2>2, Zenon
  <2>3. CASE fifo' # fifo
    <3>1. /\ pc' = [pc EXCEPT ![h] = "set_bit"]
          /\ \E f : fifo' = [fifo EXCEPT ![NextTarget(h)] = f]
      BY <1>4, <2>3, Zenon DEF Enqueue
    <3>2. \A u \in Harts : u # NextTarget(h) => fifo'[u] = fifo[u]
      BY <3>1, Zenon DEF FenceTypes
    <3> QED
      BY <2>1, <3>1, <3>2, EntryNoticed, Zenon
  <2> QED
    BY <2>2, <2>3, Zenon
<1>5. CASE SetBit(h)
  <2>1. /\ pc[h] = "set_bit" /\ pc'[h] = "ring" /\ UNCHANGED <<todo, msip, fifo>>
        /\ ipi_type' = [ipi_type EXCEPT ![NextTarget(h)] = @ \cup {"TLB"}]
    BY <1>5, Zenon DEF SetBit, FenceTypes
  <2>2. NextTarget(h)' = NextTarget(h)
    BY <2>1, RingsOn, Zenon
  <2> SUFFICES ASSUME NEW t \in Harts, Holds(t)' PROVE Noticed(t)'
    BY Zenon DEF NoEntryForgotten, Holds
  <2>3. CASE t = NextTarget(h)
    <3>1. "TLB" \in ipi_type'[t]
      BY <2>1, <2>3, Zenon DEF FenceTypes
    <3> QED
      BY <2>1, <2>2, <2>3, <3>1, Zenon DEF Noticed
  <2>4. CASE t # NextTarget(h)
    <3>1. Noticed(t)
      BY <2>1, OwnStep, Zenon DEF NoEntryForgotten, Holds
    <3>2. ipi_type'[t] = ipi_type[t]
      BY <2>1, <2>4, Zenon DEF FenceTypes
    <3> QED
      BY <2>1, <2>4, <3>1, <3>2, NoticeKept, Zenon
  <2> QED
    BY <2>3, <2>4, Zenon
<1>6. CASE Ring(h)
  <2>1. /\ pc[h] = "ring" /\ UNCHANGED <<ipi_type, fifo>>
        /\ msip' = [msip EXCEPT ![NextTarget(h)] = TRUE]
    BY <1>6, Zenon DEF Ring
  <2> SUFFICES ASSUME NEW t \in Harts, Holds(t)' PROVE Noticed(t)'
    BY Zenon DEF NoEntryForgotten, Holds
  <2>2. Noticed(t)
    BY <2>1, OwnStep, Zenon DEF NoEntryForgotten, Holds
  <2>3. (msip[t] => msip'[t]) /\ (NextTarget(h) # t \/ msip'[t])
    BY <2>1, Zenon DEF FenceTypes
  <2> QED
    BY <2>1, <2>2, <2>3, NoticeKept, Zenon
<1> QED
  BY <1>2, <1>3, <1>4, <1>5, <1>6, Zenon

\* Nor do the target's, and stopping and starting.
LEMMA TargetNotices ==
  ASSUME FenceTypes, Locals, DOMAIN quota = Harts, NoEntryForgotten, NEW h \in Harts, HartStep(h),
         \/ Dequeue(h) \/ tlb_entry_process(h)
         \/ ClearDevice(h) \/ sbi_ipi_process(h) \/ sbi_hsm_exit(h)
         \/ sbi_hsm_hart_stop(h) \/ StartsUp(h) \/ sbi_fifo_init(h)
  PROVE  NoEntryForgotten'
<1> USE DEF GoTo, sender, target
<1>1. ASSUME NEW t \in Harts, t # h, fifo'[t] # <<>>, fifo'[t] = fifo[t],
             ipi_type'[t] = ipi_type[t], msip'[t] = msip[t],
             pc[h] \notin {"set_bit", "ring"}, Holds(t)'
      PROVE  Noticed(t)'
  <2>1. Noticed(t)
    BY <1>1, OwnStep, Zenon DEF NoEntryForgotten, Holds
  <2> QED
    BY <1>1, <2>1, NoticeKept, Zenon
<1> SUFFICES ASSUME NEW t \in Harts, Holds(t)' PROVE Noticed(t)'
  BY Zenon DEF NoEntryForgotten, Holds
<1>2. CASE Dequeue(h)
  <2>1. pc[h] = "drain" /\ UNCHANGED <<ipi_type, msip>>
    BY <1>2, Zenon DEF Dequeue
  <2>2. \A u \in Harts : u # h => fifo'[u] = fifo[u]
    BY <1>2, Zenon DEF Dequeue, FenceTypes
  <2>3. CASE t # h
    BY <1>1, <2>1, <2>2, <2>3, Zenon DEF Holds
  <2>4. CASE t = h
    <3>1. fifo[h] # <<>>
      BY <1>2, <2>4, Zenon DEF Dequeue, Holds
    <3>2. pc'[h] = "ack" /\ quota' = quota
      BY <1>2, <3>1, Zenon DEF Dequeue, FenceTypes
    <3>3. Noticed(h)
      BY <2>1, <3>1, Zenon DEF NoEntryForgotten
    <3> QED
      BY <2>1, <2>4, <3>2, <3>3, NoticeKept, Zenon
  <2> QED
    BY <2>3, <2>4, Zenon
<1>3. CASE tlb_entry_process(h)
  <2>1. pc[h] = "ack" /\ UNCHANGED <<ipi_type, msip, fifo>>
    BY <1>3, Zenon DEF tlb_entry_process
  <2>2. quota[h] = 0 => pc'[h] \in {"drain", "ack"} /\ quota'[h] = 0
    <3>1. 0 # 1
      OBVIOUS
    <3> QED
      BY <1>3, <2>1, <3>1, Zenon DEF tlb_entry_process, FenceTypes
  <2>3. Noticed(t)
    BY <2>1, OwnStep, Zenon DEF NoEntryForgotten, Holds
  <2> QED
    BY <2>1, <2>2, <2>3, NoticeKept, Zenon
<1>4. CASE ClearDevice(h)
  <2>1. /\ pc[h] \in {"run", "exit"} /\ pc'[h] = "ipi" /\ UNCHANGED <<ipi_type, fifo>>
        /\ \A u \in Harts : u # h => msip'[u] = msip[u]
    BY <1>4, Zenon DEF ClearDevice, FenceTypes
  <2>2. CASE t # h
    BY <1>1, <2>1, <2>2, Zenon DEF Holds
  <2>3. CASE t = h
    <3>1. Noticed(h)
      BY <2>1, <2>3, Zenon DEF NoEntryForgotten, Holds
    <3>2. CASE "TLB" \in ipi_type[h]
      BY <2>1, <2>3, <3>2, Zenon DEF Noticed
    <3>3. CASE \E s \in Harts : pc[s] = "set_bit" /\ NextTarget(s) = h
      <4> PICK s \in Harts : pc[s] = "set_bit" /\ NextTarget(s) = h
        BY <3>3, Zenon
      <4> QED
        BY <2>1, <2>3, OwnStep, RingsOn, Zenon DEF Noticed
    <3> QED
      BY <2>1, <3>1, <3>2, <3>3, Zenon DEF Noticed
  <2> QED
    BY <2>2, <2>3, Zenon
<1>5. CASE sbi_ipi_process(h)
  <2>1. /\ pc[h] = "ipi" /\ UNCHANGED <<msip, fifo>>
        /\ \A u \in Harts : u # h => ipi_type'[u] = ipi_type[u]
        /\ "TLB" \in ipi_type[h] => pc'[h] = "drain" /\ quota'[h] = 0
    <3>1. /\ pc[h] = "ipi" /\ UNCHANGED <<msip, fifo>> /\ ipi_type' = [ipi_type EXCEPT ![h] = {}]
          /\ "TLB" \in ipi_type[h] => Drain(h, 0, back[h])
      BY <1>5, Zenon DEF sbi_ipi_process
    <3>2. Drain(h, 0, back[h]) => pc'[h] = "drain" /\ quota'[h] = 0
      BY Zenon DEF Drain, FenceTypes
    <3> QED
      BY <3>1, <3>2, Zenon DEF FenceTypes
  <2>2. CASE t # h
    BY <1>1, <2>1, <2>2, Zenon DEF Holds
  <2>3. CASE t = h
    <3>1. Noticed(h)
      BY <2>1, <2>3, Zenon DEF NoEntryForgotten, Holds
    <3>2. CASE "TLB" \in ipi_type[h]
      BY <2>1, <2>3, <3>2, Zenon DEF Noticed
    <3>3. CASE \E s \in Harts : pc[s] = "set_bit" /\ NextTarget(s) = h
      <4> PICK s \in Harts : pc[s] = "set_bit" /\ NextTarget(s) = h
        BY <3>3, Zenon
      <4> QED
        BY <2>1, <2>3, OwnStep, RingsOn, Zenon DEF Noticed
    <3> QED
      BY <2>1, <3>1, <3>2, <3>3, Zenon DEF Noticed
  <2> QED
    BY <2>2, <2>3, Zenon
<1>6. CASE sbi_hsm_exit(h) \/ sbi_hsm_hart_stop(h) \/ sbi_hsm_hart_start(h) \/ sbi_hsm_prepare_next_jump(h)
  <2>1. pc[h] \in {"halt", "run", "stopped", "init_done"} /\ UNCHANGED <<ipi_type, msip, fifo>>
    BY <1>6, Zenon DEF sbi_hsm_exit, sbi_hsm_hart_stop, sbi_hsm_hart_start, sbi_hsm_prepare_next_jump
  <2>2. Noticed(t)
    BY <2>1, OwnStep, Zenon DEF NoEntryForgotten, Holds
  <2> QED
    BY <2>1, <2>2, NoticeKept, Zenon
<1>7. CASE sbi_ipi_init(h) \/ aclint_mswi_warm_init(h) \/ sbi_tlb_init(h)
  <2>1. /\ pc[h] \in {"init", "init_device", "init_sync"} /\ fifo' = fifo
        /\ pc'[h] \in {"init_device", "init_sync", "init_fifo"}
    BY <1>7, Zenon DEF sbi_ipi_init, aclint_mswi_warm_init, sbi_tlb_init, FenceTypes
  <2>2. \A u \in Harts : u # h => ipi_type'[u] = ipi_type[u] /\ msip'[u] = msip[u]
    BY <1>7, Zenon DEF sbi_ipi_init, aclint_mswi_warm_init, sbi_tlb_init, FenceTypes
  <2>3. t # h
    BY <2>1, Zenon DEF Holds
  <2> QED
    BY <1>1, <2>1, <2>2, <2>3, Zenon DEF Holds
<1>8. CASE sbi_fifo_init(h)
  <2>1. /\ pc[h] = "init_fifo" /\ UNCHANGED <<ipi_type, msip>> /\ fifo'[h] = <<>>
        /\ \A u \in Harts : u # h => fifo'[u] = fifo[u]
    BY <1>8, Zenon DEF sbi_fifo_init, FenceTypes
  <2>2. t # h
    BY <2>1, Zenon DEF Holds
  <2> QED
    BY <1>1, <2>1, <2>2, Zenon DEF Holds
<1> QED
  BY <1>2, <1>3, <1>4, <1>5, <1>6, <1>7, <1>8, Zenon DEF StartsUp

\* No step leaves an entry without a notice.
LEMMA NoticeStep ==
  /\ FenceTypes /\ Locals /\ DOMAIN quota = Harts /\ NoEntryForgotten /\ [Next]_vars
  => (DOMAIN quota = Harts /\ NoEntryForgotten)'
<1> SUFFICES ASSUME FenceTypes, Locals, DOMAIN quota = Harts, NoEntryForgotten, [Next]_vars
             PROVE  DOMAIN quota' = Harts /\ NoEntryForgotten'
  BY Zenon
<1>1. CASE UNCHANGED vars
  <2>1. \A s \in Harts : NextTarget(s)' = NextTarget(s)
    BY <1>1, RingsOn, Zenon DEF vars, sender
  <2>2. UNCHANGED <<pc, fifo, ipi_type, msip, quota>>
    BY <1>1, Zenon DEF vars, target
  <2>3. \A t \in Harts : Noticed(t) => Noticed(t)'
    BY <2>1, <2>2, Zenon DEF Noticed
  <2> QED
    BY <2>2, <2>3, Zenon DEF NoEntryForgotten
<1>2. CASE Next
  <2> PICK h \in Harts : HartStep(h)
    BY <1>2, NextIsHartStep, Zenon
  <2> QED
    BY OwnQuota, SenderNotices, TargetNotices, Zenon DEF HartStep
<1> QED
  BY <1>1, <1>2, Zenon

\* No entry is left in a fifo without a notice: the order of sbi_ipi_send
\* (update, set the event, ring), of sbi_ipi_process (clear the device, take the
\* events, work off the whole fifo) and of the start-up (events, device, and only
\* then the fifo) loses none, for every number of harts and every fifo size.
THEOREM NoEntryIsForgotten == Spec => []NoEntryForgotten
<1>1. Init => DOMAIN quota = Harts /\ NoEntryForgotten
  BY Zenon DEF Init, NoEntryForgotten
<1> QED
  BY <1>1, TypesInit, TypesStep, NoticeStep, PTL DEF Spec

-----------------------------------------------------------------------------
\* An acknowledgement that loses places, or whose hart starts to wait, still
\* has one at most.
LEMMA OneFewer ==
  ASSUME NEW s, NEW f, NEW g, NEW a, NEW b, NEW y, NEW z,
         NEW w \in BOOLEAN, NEW v \in BOOLEAN,
         One(f, a, y, w, s), w => v,
         \A t \in Harts, i \in Nat : Asks(g[t], i, s) => Asks(f[t], i, s),
         \A t \in Harts : s \in b[t] => s \in a[t],
         z # 0 => z = y
  PROVE  One(g, b, z, v, s)
BY Zenon DEF One

\* One entry, one hart that acknowledges or the hart's word is one place.
LEMMA OnePlace ==
  ASSUME NEW s, NEW f, NEW a, NEW y,
         \/ /\ y = 0 /\ \A t \in Harts : s \notin a[t]
            /\ \E u \in Harts, j \in Nat :
                 \A t \in Harts, i \in Nat : Asks(f[t], i, s) => t = u /\ i = j
         \/ /\ y = 0 /\ \A t \in Harts, i \in Nat : ~Asks(f[t], i, s)
            /\ \E u \in Harts : \A t \in Harts : s \in a[t] => t = u
         \/ /\ \A t \in Harts, i \in Nat : ~Asks(f[t], i, s)
            /\ \A t \in Harts : s \notin a[t]
  PROVE  One(f, a, y, TRUE, s)
BY Zenon DEF One

\* A step that moves no acknowledgement, and after which harts that waited wait
LEMMA NoneMoved ==
  ASSUME FenceTypes, Single, UNCHANGED <<fifo, acks, sync>>, NEW h \in Harts,
         HartStep(h), Waits(pc[h], back[h]) => Waits(pc'[h], back'[h])
  PROVE  Single'
<1> SUFFICES ASSUME NEW s \in Harts
             PROVE  One(fifo', acks', sync'[s], Waits(pc'[s], back'[s]), s)
  BY Zenon DEF Single
<1>1. Waits(pc[s], back[s]) => Waits(pc'[s], back'[s])
  BY OwnStep, Zenon
<1>2. One(fifo, acks, sync[s], Waits(pc[s], back[s]), s)
  BY Zenon DEF Single
<1>3. Waits(pc[s], back[s]) \in BOOLEAN /\ Waits(pc'[s], back'[s]) \in BOOLEAN
  BY Zenon DEF Waits
<1> QED
  BY <1>1, <1>2, <1>3, OneFewer

\* All that is new in the fifos is that an entry has h as a source.
Entered(h) ==
  \E t \in Harts, i \in Nat : \A s, u \in Harts, j \in Nat :
    Asks(fifo'[u], j, s) => Asks(fifo[u], j, s) \/ (s = h /\ u = t /\ j = i)

\* A sender that did not wait gets its one entry.
LEMMA OneEntered ==
  ASSUME FenceTypes, Single, UNCHANGED <<acks, sync>>, NEW h \in Harts,
         HartStep(h), ~Waits(pc[h], back[h]), Waits(pc'[h], back'[h]),
         Entered(h)
  PROVE  Single'
<1> PICK t \in Harts, i \in Nat : \A s, u \in Harts, j \in Nat :
           Asks(fifo'[u], j, s) => Asks(fifo[u], j, s) \/ (s = h /\ u = t /\ j = i)
  BY Zenon DEF Entered
<1> SUFFICES ASSUME NEW s \in Harts
             PROVE  One(fifo', acks', sync'[s], Waits(pc'[s], back'[s]), s)
  BY Zenon DEF Single
<1>1. One(fifo, acks, sync[s], Waits(pc[s], back[s]), s)
  BY Zenon DEF Single
<1>2. CASE s = h
  <2>1. sync[h] = 0 /\ \A u \in Harts : h \notin acks[u] /\ \A j \in Nat : ~Asks(fifo[u], j, h)
    BY <1>1, <1>2, Zenon DEF One
  <2>2. \A u \in Harts, j \in Nat : Asks(fifo'[u], j, h) => u = t /\ j = i
    BY <2>1, Zenon
  <2>3. One(fifo', acks', sync'[h], TRUE, h)
    BY <2>1, <2>2, OnePlace, Zenon
  <2>4. Waits(pc'[h], back'[h]) = TRUE
    BY Zenon DEF Waits
  <2> QED
    BY <1>2, <2>3, <2>4, Zenon
<1>3. CASE s # h
  <2>1. Waits(pc[s], back[s]) = Waits(pc'[s], back'[s]) /\ Waits(pc[s], back[s]) \in BOOLEAN
    BY <1>3, OwnStep, Zenon DEF Waits
  <2>2. \A u \in Harts, j \in Nat : Asks(fifo'[u], j, s) => Asks(fifo[u], j, s)
    BY <1>3, Zenon
  <2> QED
    BY <1>1, <2>1, <2>2, OneFewer
<1> QED
  BY <1>2, <1>3, Zenon

\* Acknowledgements only go away.
LEMMA SomeGone ==
  ASSUME FenceTypes, Single, NEW h \in Harts, HartStep(h), UNCHANGED acks,
         \A s, u \in Harts, j \in Nat : Asks(fifo'[u], j, s) => Asks(fifo[u], j, s),
         sync' = [sync EXCEPT ![h] = 0],
         \/ sync[h] = 1
         \/ ~Waits(pc[h], back[h])
  PROVE  Single'
<1> SUFFICES ASSUME NEW s \in Harts
             PROVE  One(fifo', acks', sync'[s], Waits(pc'[s], back'[s]), s)
  BY Zenon DEF Single
<1>1. One(fifo, acks, sync[s], Waits(pc[s], back[s]), s)
  BY Zenon DEF Single
<1>2. CASE s = h
  <2>1. \A u \in Harts : h \notin acks[u] /\ \A j \in Nat : ~Asks(fifo[u], j, h)
    BY <1>1, <1>2 DEF One
  <2>2. sync'[h] = 0 /\ \A u \in Harts : h \notin acks'[u] /\ \A j \in Nat : ~Asks(fifo'[u], j, h)
    BY <2>1, Zenon DEF FenceTypes
  <2> QED
    BY <1>2, <2>2, Zenon DEF One
<1>3. CASE s # h
  <2>1. Waits(pc[s], back[s]) = Waits(pc'[s], back'[s]) /\ Waits(pc[s], back[s]) \in BOOLEAN
    BY <1>3, OwnStep, Zenon DEF Waits
  <2>2. sync'[s] = sync[s]
    BY <1>3, Zenon DEF FenceTypes
  <2> QED
    BY <1>1, <2>1, <2>2, OneFewer
<1> QED
  BY <1>2, <1>3, Zenon

\* What a sender that has a target does in Send and Enqueue
LEMMA SenderSingle ==
  ASSUME FenceTypes, Locals, Single, NEW h \in Harts, Send(h) \/ Enqueue(h)
  PROVE  Single'
<1> USE DEF GoTo, sender, target
<1>1. HartStep(h) /\ UNCHANGED <<acks, sync>>
  BY Zenon DEF HartStep, Send, Enqueue
<1>2. CASE Send(h)
  <2>1. pc[h] = "send" /\ ~Waits(pc[h], back[h])
    BY <1>2, Zenon DEF Send, Waits
  <2>2. CASE todo[h] = {} \/ NextTarget(h) = h \/ Hits(fifo[NextTarget(h)], Upgraded(req[h])) = {}
    <3>1. UNCHANGED fifo
      BY <1>2, <2>2, Zenon DEF Send, tlb_update
    <3> QED
      BY <1>1, <2>1, <3>1, NoneMoved, Zenon
  <2>3. CASE todo[h] # {} /\ NextTarget(h) # h /\ Hits(fifo[NextTarget(h)], Upgraded(req[h])) # {}
    <3> DEFINE t == NextTarget(h)
               r == Upgraded(req[h])
               i == Min(Hits(fifo[t], r))
    <3>1. t \in Harts /\ r \in Tinfo /\ fifo[t] \in Seq(Queued)
      BY <2>3, TargetIn, UpgradedType, Zenon DEF FenceTypes
    <3>2. i \in 1..Len(fifo[t])
      BY <2>3, <3>1, HitIn, Zenon
    <3>3. /\ fifo' = [fifo EXCEPT ![t][i] = Merged(@, r, h)]
          /\ pc' = [pc EXCEPT ![h] = "set_bit"]
      BY <1>2, <2>3, Zenon DEF Send, tlb_update
    <3> HIDE DEF t, r, i
    <3>4. Merged(fifo[t][i], r, h).smask = fifo[t][i].smask \cup {h}
      BY <3>1, <3>2, MergedType
    <3>5. /\ fifo'[t] = [fifo[t] EXCEPT ![i] = Merged(fifo[t][i], r, h)]
          /\ \A u \in Harts : u # t => fifo'[u] = fifo[u]
      BY <3>1, <3>3, Zenon DEF FenceTypes
    <3>6. Len(fifo'[t]) = Len(fifo[t]) /\ \A j \in 1..Len(fifo[t]) : j # i => fifo'[t][j] = fifo[t][j]
      BY <3>1, <3>2, <3>5
    <3>7. fifo'[t][i].smask = fifo[t][i].smask \cup {h}
      BY <3>1, <3>2, <3>4, <3>5
    <3>8. \A s, u \in Harts, j \in Nat :
            Asks(fifo'[u], j, s) => Asks(fifo[u], j, s) \/ (s = h /\ u = t /\ j = i)
      <4> SUFFICES ASSUME NEW s \in Harts, NEW u \in Harts, NEW j \in Nat, Asks(fifo'[u], j, s)
                   PROVE  Asks(fifo[u], j, s) \/ (s = h /\ u = t /\ j = i)
        BY Zenon
      <4>1. CASE u # t
        BY <3>5, <4>1, Zenon
      <4>2. CASE u = t /\ j = i
        BY <3>2, <3>6, <3>7, <4>2, Zenon DEF Asks
      <4>3. CASE u = t /\ j # i
        BY <3>6, <4>3, Zenon DEF Asks
      <4> QED
        BY <4>1, <4>2, <4>3, Zenon
    <3>9. Waits(pc'[h], back'[h]) /\ i \in Nat
      BY <3>1, <3>2, <3>3 DEF Waits, FenceTypes
    <3>10. Entered(h)
      BY <3>1, <3>8, <3>9, Zenon DEF Entered
    <3> QED
      BY <1>1, <2>1, <3>9, <3>10, OneEntered, Zenon
  <2> QED
    BY <2>2, <2>3, Zenon
<1>3. CASE Enqueue(h)
  <2> DEFINE t == NextTarget(h)
  <2>1. pc[h] = "enqueue" /\ ~Waits(pc[h], back[h]) /\ todo[h] # {} /\ t \in Harts
    BY <1>3, TargetIn, Zenon DEF Enqueue, Waits, Locals, Busy
  <2>2. CASE Len(fifo[t]) = FifoSize
    <3>1. UNCHANGED fifo
      BY <1>3, <2>2, SizesAssumption DEF Enqueue
    <3> QED
      BY <1>1, <2>1, <3>1, NoneMoved, Zenon
  <2>3. CASE Len(fifo[t]) # FifoSize
    <3> DEFINE e == Entry(req[h], h)
               i == Len(fifo[t]) + 1
    <3>1. fifo' = [fifo EXCEPT ![t] = Append(@, e)] /\ pc' = [pc EXCEPT ![h] = "set_bit"]
      BY <1>3, <2>3, Zenon DEF Enqueue
    <3>2. e \in Queued /\ e.smask = {h} /\ fifo[t] \in Seq(Queued)
      BY <2>1, EntryType, Zenon DEF FenceTypes
    <3> HIDE DEF t, e
    <3>3. fifo'[t] = Append(fifo[t], e) /\ \A u \in Harts : u # t => fifo'[u] = fifo[u]
      BY <2>1, <3>1, Zenon DEF FenceTypes
    <3>4. /\ Len(fifo'[t]) = i /\ fifo'[t][i] = e /\ i \in Nat
          /\ \A j \in 1..Len(fifo[t]) : fifo'[t][j] = fifo[t][j]
      BY <3>2, <3>3
    <3>5. \A s, u \in Harts, j \in Nat :
            Asks(fifo'[u], j, s) => Asks(fifo[u], j, s) \/ (s = h /\ u = t /\ j = i)
      <4> SUFFICES ASSUME NEW s \in Harts, NEW u \in Harts, NEW j \in Nat, Asks(fifo'[u], j, s)
                   PROVE  Asks(fifo[u], j, s) \/ (s = h /\ u = t /\ j = i)
        BY Zenon
      <4>1. CASE u # t
        BY <3>3, <4>1, Zenon
      <4>2. CASE u = t /\ j = i
        BY <3>2, <3>4, <4>2, Zenon DEF Asks
      <4>3. CASE u = t /\ j # i
        <5>1. j \in 1..Len(fifo[t])
          BY <3>2, <3>4, <4>3 DEF Asks
        <5> QED
          BY <3>4, <4>3, <5>1, Zenon DEF Asks
      <4> QED
        BY <4>1, <4>2, <4>3, Zenon
    <3>6. Waits(pc'[h], back'[h])
      BY <3>1, Zenon DEF Waits, FenceTypes
    <3> HIDE DEF i
    <3>7. Entered(h)
      BY <2>1, <3>4, <3>5, Zenon DEF Entered
    <3> QED
      BY <1>1, <2>1, <3>6, <3>7, OneEntered, Zenon
  <2> QED
    BY <2>2, <2>3, Zenon
<1> QED
  BY <1>2, <1>3, Zenon

\* An entry that is taken becomes the hart's work through its sources.
LEMMA DequeueSingle ==
  ASSUME FenceTypes, Locals, Single, NEW h \in Harts, Dequeue(h)
  PROVE  Single'
<1> USE DEF GoTo, sender, target
<1>1. HartStep(h) /\ UNCHANGED sync /\ pc[h] = "drain" /\ acks[h] = {}
  BY Zenon DEF HartStep, Dequeue, Locals
<1>2. CASE fifo[h] = <<>>
  <2>1. UNCHANGED <<fifo, acks>> /\ pc' = [pc EXCEPT ![h] = back[h]]
    BY <1>2, Zenon DEF Dequeue, Drained
  <2>2. Waits(pc[h], back[h]) => Waits(pc'[h], back'[h])
    BY <1>1, <2>1, Zenon DEF Waits, FenceTypes
  <2> QED
    BY <1>1, <2>1, <2>2, NoneMoved, Zenon
<1>3. CASE fifo[h] # <<>>
  <2>1. /\ fifo' = [fifo EXCEPT ![h] = Tail(@)] /\ acks' = [acks EXCEPT ![h] = Head(fifo[h]).smask]
        /\ pc' = [pc EXCEPT ![h] = "ack"] /\ UNCHANGED back
    BY <1>3, Zenon DEF Dequeue
  <2>2. /\ fifo'[h] = Tail(fifo[h]) /\ acks'[h] = Head(fifo[h]).smask
        /\ \A u \in Harts : u # h => fifo'[u] = fifo[u] /\ acks'[u] = acks[u]
    BY <2>1, Zenon DEF FenceTypes
  <2>3. /\ fifo[h] \in Seq(Queued) /\ Len(fifo'[h]) = Len(fifo[h]) - 1 /\ Len(fifo[h]) \in Nat \ {0}
        /\ Head(fifo[h]) = fifo[h][1] /\ \A j \in 1..(Len(fifo[h]) - 1) : fifo'[h][j] = fifo[h][j + 1]
    BY <1>3, <2>2 DEF FenceTypes
  <2> SUFFICES ASSUME NEW s \in Harts
               PROVE  One(fifo', acks', sync'[s], Waits(pc'[s], back'[s]), s)
    BY Zenon DEF Single
  <2>4. One(fifo, acks, sync[s], Waits(pc[s], back[s]), s)
    BY Zenon DEF Single
  <2>5. Waits(pc[s], back[s]) = Waits(pc'[s], back'[s]) /\ Waits(pc[s], back[s]) \in BOOLEAN
    BY <1>1, <2>1, OwnStep, Zenon DEF Waits, FenceTypes
  <2>6. \A j \in Nat : Asks(fifo'[h], j, s) => j # 0 /\ Asks(fifo[h], j + 1, s)
    BY <2>3 DEF Asks
  <2>7. s \in acks'[h] <=> Asks(fifo[h], 1, s)
    BY <2>2, <2>3 DEF Asks
  <2>8. CASE Asks(fifo[h], 1, s)
    <3>1. /\ \A u \in Harts, j \in Nat : Asks(fifo[u], j, s) => u = h /\ j = 1
          /\ \A u \in Harts : s \notin acks[u]
          /\ sync[s] = 0 /\ Waits(pc[s], back[s])
      BY <2>4, <2>8, Zenon DEF One
    <3>2. \A u \in Harts, j \in Nat : ~Asks(fifo'[u], j, s)
      BY <2>2, <2>6, <3>1
    <3>3. \A u \in Harts : s \in acks'[u] => u = h
      BY <2>2, <3>1, Zenon
    <3>4. One(fifo', acks', sync'[s], TRUE, s)
      BY <1>1, <3>1, <3>2, <3>3, OnePlace, Zenon
    <3> QED
      BY <2>5, <3>1, <3>4, Zenon
  <2>9. CASE ~Asks(fifo[h], 1, s)
    <3>1. \A u \in Harts : s \in acks'[u] => s \in acks[u]
      BY <2>2, <2>7, <2>9, Zenon
    <3>2. sync'[s] = sync[s]
      BY <1>1, Zenon
    <3> QED
      BY <2>2, <2>4, <2>5, <2>6, <3>1, <3>2 DEF One
  <2> QED
    BY <2>8, <2>9, Zenon
<1> QED
  BY <1>2, <1>3, Zenon

\* A source that is told has its word set.
LEMMA AckSingle ==
  ASSUME FenceTypes, Locals, Single, NEW h \in Harts, tlb_entry_process(h)
  PROVE  Single'
<1> USE DEF GoTo, sender, target
<1> DEFINE m == Min(acks[h])
<1>1. HartStep(h) /\ UNCHANGED fifo /\ pc[h] = "ack" /\ m \in acks[h] /\ m \in Harts
  BY AckIn, Zenon DEF HartStep, tlb_entry_process
<1>2. sync' = [sync EXCEPT ![m] = 1] /\ acks' = [acks EXCEPT ![h] = @ \ {m}]
  BY Zenon DEF tlb_entry_process
<1>3. Waits(pc[h], back[h]) <=> Waits(pc'[h], back'[h])
  <2>1. \/ UNCHANGED <<pc, back>>
        \/ pc' = [pc EXCEPT ![h] = "drain"] /\ UNCHANGED back
        \/ pc' = [pc EXCEPT ![h] = back[h]] /\ back' = [back EXCEPT ![h] = "run"]
    BY Zenon DEF tlb_entry_process, Drained
  <2> QED
    BY <1>1, <2>1, Zenon DEF Waits, FenceTypes, Backs
<1> HIDE DEF m
<1> SUFFICES ASSUME NEW s \in Harts
             PROVE  One(fifo', acks', sync'[s], Waits(pc'[s], back'[s]), s)
  BY Zenon DEF Single
<1>4. One(fifo, acks, sync[s], Waits(pc[s], back[s]), s)
  BY Zenon DEF Single
<1>5. Waits(pc[s], back[s]) = Waits(pc'[s], back'[s]) /\ Waits(pc[s], back[s]) \in BOOLEAN
  BY <1>1, <1>3, OwnStep, Zenon DEF Waits
<1>6. acks'[h] = acks[h] \ {m} /\ \A u \in Harts : u # h => acks'[u] = acks[u]
  BY <1>2, Zenon DEF FenceTypes
<1>7. CASE s = m
  <2>1. /\ \A u \in Harts, j \in Nat : ~Asks(fifo[u], j, s)
        /\ \A u \in Harts : s \in acks[u] => u = h
        /\ Waits(pc[s], back[s])
    BY <1>1, <1>4, <1>7, Zenon DEF One
  <2>2. \A u \in Harts : s \notin acks'[u]
    BY <1>6, <1>7, <2>1, Zenon
  <2>3. One(fifo', acks', sync'[s], TRUE, s)
    BY <1>1, <2>1, <2>2, OnePlace, Zenon
  <2> QED
    BY <1>5, <2>1, <2>3, Zenon
<1>8. CASE s # m
  <2>1. sync'[s] = sync[s]
    BY <1>2, <1>8, Zenon DEF FenceTypes
  <2>2. \A u \in Harts : s \in acks'[u] => s \in acks[u]
    BY <1>6, Zenon
  <2>3. \A u \in Harts, j \in Nat : Asks(fifo'[u], j, s) => Asks(fifo[u], j, s)
    BY <1>1, Zenon
  <2>4. One(fifo', acks', sync'[s], Waits(pc[s], back[s]), s)
    BY <1>4, <1>5, <2>1, <2>2, <2>3, OneFewer
  <2> QED
    BY <1>5, <2>4, Zenon
<1> QED
  BY <1>7, <1>8, Zenon

\* Every step keeps every acknowledgement in one place.
LEMMA SingleStep ==
  FenceTypes /\ Locals /\ Single /\ [Next]_vars => Single'
<1> SUFFICES ASSUME FenceTypes, Locals, Single, [Next]_vars PROVE Single'
  BY Zenon
<1>1. CASE UNCHANGED vars
  BY <1>1, Zenon DEF vars, target, Single
<1> SUFFICES ASSUME NEW h \in Harts, HartStep(h) PROVE Single'
  BY <1>1, NextIsHartStep, Zenon
<1> USE DEF GoTo, sender, target
<1>2. CASE (\E c \in Calls[h] : Request(h, c[1], c[2])) \/ SetBit(h) \/ Ring(h)
  <2>1. /\ UNCHANGED <<fifo, acks, sync>>
        /\ \/ ~Waits(pc[h], back[h])
           \/ pc'[h] \in {"ring", "sync"}
    BY <1>2, Zenon DEF Request, SetBit, Ring, Waits, FenceTypes
  <2>2. Waits(pc[h], back[h]) => Waits(pc'[h], back'[h])
    BY <2>1, Zenon DEF Waits
  <2> QED
    BY <2>1, <2>2, NoneMoved, Zenon
<1>3. CASE tlb_sync(h)
  <2>1. CASE sync[h] = 1
    <3>1. UNCHANGED <<fifo, acks>> /\ sync' = [sync EXCEPT ![h] = 0]
      BY <1>3, <2>1 DEF tlb_sync
    <3>2. \A s, u \in Harts, j \in Nat : Asks(fifo'[u], j, s) => Asks(fifo[u], j, s)
      BY <3>1, Zenon
    <3> QED
      BY <2>1, <3>1, <3>2, SomeGone, Zenon
  <2>2. CASE sync[h] # 1
    <3>1. UNCHANGED <<fifo, acks, sync>> /\ pc'[h] = "drain" /\ back'[h] = "sync"
      BY <1>3, <2>2, Zenon DEF tlb_sync, Drain, FenceTypes
    <3>2. Waits(pc'[h], back'[h])
      BY <3>1, Zenon DEF Waits
    <3> QED
      BY <3>1, <3>2, NoneMoved, Zenon
  <2> QED
    BY <2>1, <2>2, Zenon
<1>4. CASE ClearDevice(h) \/ sbi_ipi_process(h) \/ sbi_hsm_exit(h) \/ sbi_hsm_hart_stop(h)
  <2>1. UNCHANGED <<fifo, acks, sync>> /\ pc[h] \in {"run", "exit", "ipi", "halt"}
    BY <1>4, Zenon DEF ClearDevice, sbi_ipi_process, sbi_hsm_exit, sbi_hsm_hart_stop
  <2>2. ~Waits(pc[h], back[h])
    BY <2>1, Zenon DEF Waits
  <2> QED
    BY <2>1, <2>2, NoneMoved, Zenon
<1>5. CASE StartsUp(h) \/ sbi_fifo_init(h)
  <2>1. /\ pc[h] \in {"stopped"} \cup Starting /\ UNCHANGED acks
        /\ sync' \in {sync, [sync EXCEPT ![h] = 0]}
        /\ fifo' \in {fifo, [fifo EXCEPT ![h] = <<>>]}
    BY <1>5, StartUpSteps, Zenon DEF sbi_fifo_init, Starting
  <2>2. \A s, u \in Harts, j \in Nat : Asks(fifo'[u], j, s) => Asks(fifo[u], j, s)
    <3>1. CASE fifo' = fifo
      BY <3>1, Zenon
    <3>2. CASE fifo' = [fifo EXCEPT ![h] = <<>>]
      BY <3>2 DEF Asks, FenceTypes
    <3> QED
      BY <2>1, <3>1, <3>2, Zenon
  <2>3. ~Waits(pc[h], back[h])
    BY <2>1, Zenon DEF Waits, Starting
  <2>4. sync[h] = 0
    BY <2>3, Zenon DEF Single, One
  <2>5. sync' = [sync EXCEPT ![h] = 0]
    BY <2>1, <2>4, Zenon DEF FenceTypes
  <2> QED
    BY <2>1, <2>2, <2>3, <2>5, SomeGone, Zenon
<1> QED
  BY <1>2, <1>3, <1>4, <1>5, SenderSingle, DequeueSingle, AckSingle, Zenon DEF HartStep

\* The size of a set whose members are all the same
LEMMA AtMostOne ==
  ASSUME NEW S, \A x, y \in S : x = y
  PROVE  Cardinality(S) = IF S = {} THEN 0 ELSE 1
<1>1. CASE S = {}
  BY <1>1, FS_EmptySet, Zenon
<1>2. CASE S # {}
  <2> PICK x : x \in S
    BY <1>2, Zenon
  <2>1. S = {x}
    BY Zenon
  <2> QED
    BY <2>1, FS_Singleton, Zenon
<1> QED
  BY <1>1, <1>2, Zenon

\* One place, counted
LEMMA SingleCounts == FenceTypes /\ Single => NoneTooMany
<1> SUFFICES ASSUME FenceTypes, Single, NEW s \in Harts
             PROVE  Sources(s) <= IF Waiting(s) THEN 1 ELSE 0
  BY Zenon DEF NoneTooMany
<1> DEFINE E == {x \in Harts \X (1..FifoSize) :
                   x[2] <= Len(fifo[x[1]]) /\ s \in fifo[x[1]][x[2]].smask}
           A == {t \in Harts : s \in acks[t]}
<1>1. One(fifo, acks, sync[s], Waits(pc[s], back[s]), s) /\ sync[s] \in {0, 1}
  BY Zenon DEF Single, FenceTypes
<1>2. \A x \in E : x[1] \in Harts /\ x[2] \in Nat /\ x = <<x[1], x[2]>> /\ Asks(fifo[x[1]], x[2], s)
  BY SizesAssumption DEF Asks, FenceTypes
<1>3. (\A x, y \in E : x = y) /\ (\A t, u \in A : t = u)
  BY <1>1, <1>2 DEF One
<1>4. (E # {} => A = {} /\ sync[s] = 0) /\ (A # {} => sync[s] = 0)
  BY <1>1, <1>2, Zenon DEF One
<1>5. ~Waiting(s) => E = {} /\ A = {} /\ sync[s] = 0
  BY <1>1, <1>2, Zenon DEF One, Waiting, Waits
<1>6. Sources(s) = Cardinality(E) + Cardinality(A) + sync[s]
  BY Zenon DEF Sources
<1> HIDE DEF E, A
<1>7. Cardinality(E) = (IF E = {} THEN 0 ELSE 1) /\ Cardinality(A) = (IF A = {} THEN 0 ELSE 1)
  BY <1>3, AtMostOne, Zenon
<1> QED
  BY <1>1, <1>4, <1>5, <1>6, <1>7

\* A hart that waits in tlb_sync is owed at most one acknowledgement, and no
\* other hart is owed any: however senders, targets, stops and starts meet, a
\* late acknowledgement never ends the wait for another target.
THEOREM NoAcknowledgementTooMany == Spec => []NoneTooMany
<1>1. Init => Single
  <2> SUFFICES ASSUME Init, NEW s \in Harts
               PROVE  One(fifo, acks, sync[s], Waits(pc[s], back[s]), s)
    BY Zenon DEF Single
  <2>1. \A t \in Harts, i \in Nat : ~Asks(fifo[t], i, s)
    BY NoneAskAtFirst, Zenon
  <2> QED
    BY <2>1, Zenon DEF Init, One
<1> QED
  BY <1>1, TypesInit, TypesStep, SingleStep, SingleCounts, PTL DEF Spec

-----------------------------------------------------------------------------
\* A hart that is not owed an acknowledgement is covered by its request alone.
LEMMA NoneOwed ==
  ASSUME Single, NEW s \in Harts, ~Waits(pc[s], back[s])
  PROVE  ~Told(sync[s], acks, s) /\ \A t \in Harts, i \in Nat : ~Asks(fifo[t], i, s)
BY DEF Single, One, Told

\* A flush on hart h only takes debts away.
LEMMA FlushTakes ==
  ASSUME FenceTypes, NEW h \in Harts, NEW r, Flush(h, r)
  PROVE  \A s \in Harts : /\ owed'[s][h] = owed[s][h] \ Flushed(r)
                          /\ \A t \in Harts : t # h => owed'[s][t] = owed[s][t]
BY Zenon DEF Flush, FenceTypes

\* A hart that is told of an acknowledgement has a target.
LEMMA ToldHasTarget ==
  ASSUME FenceTypes, Locals, Single, NEW s \in Harts,
         Told(sync[s], acks, s) \/ \E t \in Harts, i \in Nat : Asks(fifo[t], i, s)
  PROVE  Min(todo[s]) \in todo[s] /\ Min(todo[s]) \in Harts
<1>1. Waits(pc[s], back[s])
  BY NoneOwed, Zenon
<1>2. todo[s] # {}
  BY <1>1, Zenon DEF Waits, Locals, Busy
<1> QED
  BY <1>2, TargetIn, Zenon DEF NextTarget

\* The harts whose debts, targets and entries a step leaves alone
LEMMA OthersCovered ==
  ASSUME FenceTypes, Locals, Single, Covered, NEW s \in Harts,
         todo'[s] = todo[s], req'[s] = req[s],
         Busy(pc'[s], back'[s]) => Busy(pc[s], back[s]),
         \A t \in Harts : owed'[s][t] \subseteq owed[s][t],
         Told(sync'[s], acks', s) => Told(sync[s], acks, s),
         \A t \in Harts, i \in Nat : Asks(fifo'[t], i, s) => Asks(fifo[t], i, s) /\ fifo'[t][i] = fifo[t][i]
  PROVE  Covers(s, todo'[s], req'[s], Busy(pc'[s], back'[s]), owed'[s], fifo', Told(sync'[s], acks', s))
<1>1. Covers(s, todo[s], req[s], Busy(pc[s], back[s]), owed[s], fifo, Told(sync[s], acks, s))
  BY Zenon DEF Covered
<1>2. Told(sync[s], acks, s) => Min(todo[s]) \in Harts
  BY ToldHasTarget, Zenon
<1>3. \A t \in Harts : t \notin todo[s] => owed'[s][t] = {}
  BY <1>1, Zenon DEF Covers
<1>4. \A t \in Harts : t \in todo[s] =>
        Whole(Upgraded(req[s])) /\ owed'[s][t] \subseteq Flushed(Upgraded(req[s]))
  BY <1>1, Zenon DEF Covers
<1>5. Busy(pc'[s], back'[s]) => Upgraded(req[s]) = req[s]
  BY <1>1, Zenon DEF Covers
<1>6. \A t \in Harts, i \in Nat : Asks(fifo'[t], i, s) =>
        t = Min(todo[s]) /\ owed'[s][t] \subseteq Flushed(fifo'[t][i])
  <2> SUFFICES ASSUME NEW t \in Harts, NEW i \in Nat, Asks(fifo'[t], i, s)
               PROVE  t = Min(todo[s]) /\ owed'[s][t] \subseteq Flushed(fifo'[t][i])
    BY Zenon
  <2>1. Asks(fifo[t], i, s) /\ fifo'[t][i] = fifo[t][i]
    BY Zenon
  <2>2. t = Min(todo[s]) /\ owed[s][t] \subseteq Flushed(fifo[t][i])
    BY <1>1, <2>1, Zenon DEF Covers
  <2>3. owed'[s][t] \subseteq owed[s][t]
    BY Zenon
  <2> QED
    BY <2>1, <2>2, <2>3, Zenon
<1>7. Told(sync'[s], acks', s) => owed'[s][Min(todo[s])] = {}
  BY <1>1, <1>2, Zenon DEF Covers
<1> QED
  BY <1>3, <1>4, <1>5, <1>6, <1>7, Zenon DEF Covers

\* A step that only moves hart h
LEMMA CoveredOn ==
  ASSUME FenceTypes, Locals, Single, Covered, NEW h \in Harts, HartStep(h),
         UNCHANGED <<todo, req, owed, fifo>>,
         Busy(pc'[h], back'[h]) => Busy(pc[h], back[h]),
         \A s \in Harts : Told(sync'[s], acks', s) => Told(sync[s], acks, s)
  PROVE  Covered'
<1>1. WholeEntries(fifo')
  BY Zenon DEF Covered
<1> SUFFICES ASSUME NEW s \in Harts
             PROVE  Covers(s, todo'[s], req'[s], Busy(pc'[s], back'[s]), owed'[s], fifo', Told(sync'[s], acks', s))
  BY <1>1, Zenon DEF Covered
<1>2. Busy(pc'[s], back'[s]) => Busy(pc[s], back[s])
  BY OwnStep, Zenon
<1> QED
  BY <1>2, OthersCovered, Zenon

\* A request covers what it asks for.
LEMMA RequestCovered ==
  ASSUME FenceTypes, Locals, Single, Covered, WholeCalls, NEW h \in Harts,
         NEW c \in Calls[h], Request(h, c[1], c[2])
  PROVE  Covered'
<1> USE DEF GoTo, sender, target
<1> DEFINE r == c[1]
           m == {t \in c[2] : state[t] = "STARTED"}
<1>1. /\ HartStep(h) /\ pc[h] = "run" /\ UNCHANGED <<fifo, sync, acks>> /\ pc'[h] = "send"
      /\ req' = [req EXCEPT ![h] = r] /\ todo' = [todo EXCEPT ![h] = m]
      /\ owed' = [owed EXCEPT ![h] = [t \in Harts |-> IF t \in m THEN Asked(r) ELSE {}]]
  BY ZenonT(30) DEF HartStep, Request, FenceTypes
<1>2. WholeEntries(fifo')
  BY <1>1, Zenon DEF Covered
<1> SUFFICES ASSUME NEW s \in Harts
             PROVE  Covers(s, todo'[s], req'[s], Busy(pc'[s], back'[s]), owed'[s], fifo', Told(sync'[s], acks', s))
  BY <1>2, Zenon DEF Covered
<1>3. CASE s # h
  <2>1. /\ todo'[s] = todo[s] /\ req'[s] = req[s] /\ owed'[s] = owed[s]
        /\ Busy(pc'[s], back'[s]) = Busy(pc[s], back[s])
        /\ Told(sync'[s], acks', s) = Told(sync[s], acks, s)
    BY <1>1, <1>3, OwnStep, Zenon DEF FenceTypes
  <2> QED
    BY <1>1, <2>1, OthersCovered, Zenon
<1>4. CASE s = h
  <2>1. r \in Tinfo /\ Whole(Upgraded(r))
    BY CallsAssumption, Zenon DEF WholeCalls
  <2>2. Asked(r) \subseteq Flushed(Upgraded(r))
    BY <2>1, AskedIsFlushed, Zenon
  <2>3. ~Waits(pc[h], back[h]) /\ ~Busy(pc'[h], back'[h])
    BY <1>1, Zenon DEF Waits, Busy
  <2>4. ~Told(sync'[h], acks', h) /\ \A t \in Harts, i \in Nat : ~Asks(fifo'[t], i, h)
    BY <1>1, <2>3, NoneOwed, Zenon
  <2>5. todo'[h] = m /\ req'[h] = r /\ owed'[h] = [t \in Harts |-> IF t \in m THEN Asked(r) ELSE {}]
    BY <1>1, Zenon DEF FenceTypes
  <2> HIDE DEF r, m
  <2> QED
    BY <1>4, <2>1, <2>2, <2>3, <2>4, <2>5, Zenon DEF Covers
<1> QED
  BY <1>3, <1>4, Zenon

\* What a request flushes, its entry flushes.
LEMMA EntryFlushes ==
  ASSUME NEW r, NEW h
  PROVE  Flushed(Entry(r, h)) = Flushed(r) /\ (Whole(r) => Whole(Entry(r, h)))
BY Zenon DEF Flushed, Entry, Whole

\* What a merged entry flushes contains what the entry and the request flush.
LEMMA MergedFlushes ==
  ASSUME NEW r \in Tinfo, Whole(r), NEW h \in Harts, NEW e \in Queued, Whole(e),
         tlb_update_cb(r, e) # "UNCHANGED"
  PROVE  /\ Whole(Merged(e, r, h))
         /\ Flushed(r) \subseteq Flushed(Merged(e, r, h))
         /\ Flushed(e) \subseteq Flushed(Merged(e, r, h))
<1>1. tlb_update_cb(r, e) \in {"SKIP", "UPDATED"}
  BY Zenon DEF tlb_update_cb, tlb_range_check
<1>2. /\ r.start \in Nat /\ r.size \in Nat /\ e.start \in Nat /\ e.size \in Nat
  BY SizesAssumption DEF Tinfo, Queued
<1>3. CASE tlb_update_cb(r, e) = "SKIP"
  <2> DEFINE n == Merged(e, r, h)
  <2>1. /\ n.fn = e.fn /\ n.asid = e.asid /\ n.start = e.start /\ n.size = e.size
    BY <1>3, Zenon DEF Merged, Queued
  <2> HIDE DEF n
  <2>2. Flushed(n) = Flushed(e) /\ Whole(n)
    BY <2>1, Zenon DEF Flushed, Whole
  <2> QED
    BY <1>2, <1>3, <2>2, MergeCovers, Zenon DEF n
<1>4. CASE tlb_update_cb(r, e) = "UPDATED"
  <2> DEFINE n == Merged(e, r, h)
  <2>1. /\ n.fn = r.fn /\ n.asid = r.asid /\ n.start = r.start /\ n.size = r.size
    BY <1>4, Zenon DEF Merged, Entry
  <2> HIDE DEF n
  <2>2. Flushed(n) = Flushed(r) /\ Whole(n)
    BY <2>1, Zenon DEF Flushed, Whole
  <2> QED
    BY <1>2, <1>4, <2>2, MergeCovers, Zenon DEF n
<1> QED
  BY <1>1, <1>3, <1>4, Zenon

\* A merge keeps the debts of the entry's sources covered, and covers the sender's.
LEMMA MergeCovered ==
  ASSUME FenceTypes, Locals, Single, Covered, NEW h \in Harts, HartStep(h), pc[h] = "send",
         NEW t \in Harts, t = Min(todo[h]), t \in todo[h],
         NEW r \in Tinfo, r = Upgraded(req[h]), Hits(fifo[t], r) # {},
         fifo' = [fifo EXCEPT ![t][Min(Hits(fifo[t], r))] = Merged(@, r, h)],
         pc' = [pc EXCEPT ![h] = "set_bit"], req' = [req EXCEPT ![h] = r],
         UNCHANGED <<todo, owed, sync, acks, back>>
  PROVE  Covered'
<1> DEFINE i == Min(Hits(fifo[t], r))
<1>1. fifo[t] \in Seq(Queued) /\ i \in 1..Len(fifo[t]) /\ tlb_update_cb(r, fifo[t][i]) # "UNCHANGED"
  BY HitIn, Zenon DEF FenceTypes
<1>2. Covers(h, todo[h], req[h], Busy(pc[h], back[h]), owed[h], fifo, Told(sync[h], acks, h))
  BY Zenon DEF Covered
<1>3. Whole(r) /\ owed[h][t] \subseteq Flushed(r) /\ Upgraded(r) = r
  BY <1>2, UpgradedType, Zenon DEF Covers, FenceTypes
<1> HIDE DEF i
<1> DEFINE e == fifo[t][i]
           n == Merged(e, r, h)
<1>4. e \in Queued /\ Whole(e)
  BY <1>1 DEF Covered, WholeEntries
<1>5. Whole(n) /\ Flushed(r) \subseteq Flushed(n) /\ Flushed(e) \subseteq Flushed(n)
  BY <1>1, <1>3, <1>4, MergedFlushes, Zenon
<1>6. n.smask = e.smask \cup {h}
  BY <1>4, MergedType
<1>7. /\ fifo'[t] = [fifo[t] EXCEPT ![i] = n] /\ \A u \in Harts : u # t => fifo'[u] = fifo[u]
  BY Zenon DEF i, FenceTypes
<1> HIDE DEF e, n
<1>8. /\ Len(fifo'[t]) = Len(fifo[t]) /\ fifo'[t][i] = n /\ i \in Nat
      /\ \A j \in 1..Len(fifo[t]) : j # i => fifo'[t][j] = fifo[t][j]
  BY <1>1, <1>7
<1>9. WholeEntries(fifo')
  BY <1>5, <1>7, <1>8, ZenonT(30) DEF Covered, WholeEntries
<1>10. ASSUME NEW s \in Harts, NEW u \in Harts, NEW j \in Nat, Asks(fifo'[u], j, s)
       PROVE  \/ u = t /\ j = i /\ (s = h \/ Asks(fifo[t], i, s))
              \/ (u # t \/ j # i) /\ Asks(fifo[u], j, s) /\ fifo'[u][j] = fifo[u][j]
  <2>1. CASE u # t
    BY <1>7, <1>10, <2>1, Zenon
  <2>2. CASE u = t /\ j = i
    BY <1>1, <1>6, <1>8, <1>10, <2>2, Zenon DEF Asks, e
  <2>3. CASE u = t /\ j # i
    BY <1>8, <1>10, <2>3, Zenon DEF Asks
  <2> QED
    BY <2>1, <2>2, <2>3, Zenon
<1> SUFFICES ASSUME NEW s \in Harts
             PROVE  Covers(s, todo'[s], req'[s], Busy(pc'[s], back'[s]), owed'[s], fifo', Told(sync'[s], acks', s))
  BY <1>9, Zenon DEF Covered
<1>11. CASE s = h
  <2>1. ~Waits(pc[h], back[h])
    BY Zenon DEF Waits
  <2>2. ~Told(sync[h], acks, h) /\ \A u \in Harts, j \in Nat : ~Asks(fifo[u], j, h)
    BY <2>1, NoneOwed, Zenon
  <2>3. \A u \in Harts, j \in Nat : Asks(fifo'[u], j, h) => u = t /\ j = i
    BY <1>10, <2>2, Zenon
  <2>4. req'[h] = r
    BY Zenon DEF FenceTypes
  <2>5. Told(sync'[h], acks', h) = Told(sync[h], acks, h)
    BY Zenon
  <2>6. \A u \in Harts, j \in Nat : Asks(fifo'[u], j, h) =>
          u = Min(todo[h]) /\ owed[h][u] \subseteq Flushed(fifo'[u][j])
    BY <1>3, <1>5, <1>8, <2>3, Zenon
  <2> QED
    BY <1>2, <1>3, <1>11, <2>2, <2>4, <2>5, <2>6, Zenon DEF Covers
<1>12. CASE s # h
  <2>1. Covers(s, todo[s], req[s], Busy(pc[s], back[s]), owed[s], fifo, Told(sync[s], acks, s))
    BY Zenon DEF Covered
  <2>2. pc'[s] = pc[s] /\ req'[s] = req[s]
    BY <1>12, Zenon DEF FenceTypes
  <2>3. ASSUME NEW u \in Harts, NEW j \in Nat, Asks(fifo'[u], j, s)
        PROVE  u = Min(todo[s]) /\ owed[s][u] \subseteq Flushed(fifo'[u][j])
    <3>1. CASE u = t /\ j = i
      <4>1. Asks(fifo[t], i, s)
        BY <1>10, <1>12, <2>3, <3>1, Zenon
      <4>2. t = Min(todo[s]) /\ owed[s][t] \subseteq Flushed(e)
        BY <1>8, <2>1, <4>1, Zenon DEF Covers, e
      <4>3. fifo'[u][j] = n
        BY <1>8, <3>1, Zenon
      <4>4. owed[s][t] \subseteq Flushed(n)
        BY <1>5, <4>2, Zenon
      <4> QED
        BY <3>1, <4>2, <4>3, <4>4, Zenon
    <3>2. CASE u # t \/ j # i
      <4>1. Asks(fifo[u], j, s) /\ fifo'[u][j] = fifo[u][j]
        BY <1>10, <2>3, <3>2
      <4> QED
        BY <2>1, <4>1, Zenon DEF Covers
    <3> QED
      BY <3>1, <3>2, Zenon
  <2> QED
    BY <2>1, <2>2, <2>3, Zenon DEF Covers
<1> QED
  BY <1>11, <1>12, Zenon

\* So does a new entry.
LEMMA EnqueueCovered ==
  ASSUME FenceTypes, Locals, Single, Covered, NEW h \in Harts, Enqueue(h)
  PROVE  Covered'
<1> USE DEF GoTo, sender, target
<1> DEFINE t == NextTarget(h)
<1>1. /\ HartStep(h) /\ pc[h] = "enqueue" /\ todo[h] # {} /\ t \in todo[h] /\ t \in Harts
      /\ UNCHANGED <<req, todo, sync, acks, owed>> /\ t = Min(todo[h])
  BY TargetIn, Zenon DEF HartStep, Enqueue, Locals, Busy, NextTarget
<1>2. Busy(pc[h], back[h]) /\ ~Waits(pc[h], back[h])
  BY <1>1, Zenon DEF Busy, Waits
<1>3. CASE Len(fifo[t]) = FifoSize
  <2>1. UNCHANGED fifo
    BY <1>3, SizesAssumption DEF Enqueue
  <2> QED
    BY <1>1, <1>2, <2>1, CoveredOn, Zenon
<1>4. CASE Len(fifo[t]) # FifoSize
  <2> DEFINE e == Entry(req[h], h)
             i == Len(fifo[t]) + 1
  <2>1. fifo' = [fifo EXCEPT ![t] = Append(@, e)] /\ pc' = [pc EXCEPT ![h] = "set_bit"] /\ UNCHANGED back
    BY <1>4, Zenon DEF Enqueue
  <2>2. e \in Queued /\ e.smask = {h} /\ fifo[t] \in Seq(Queued)
    BY <1>1, EntryType, Zenon DEF FenceTypes
  <2>3. Covers(h, todo[h], req[h], Busy(pc[h], back[h]), owed[h], fifo, Told(sync[h], acks, h))
    BY Zenon DEF Covered
  <2>4. Whole(e) /\ owed[h][t] \subseteq Flushed(e)
    BY <1>1, <1>2, <2>3, EntryFlushes, Zenon DEF Covers
  <2> HIDE DEF t, e
  <2>5. fifo'[t] = Append(fifo[t], e) /\ \A u \in Harts : u # t => fifo'[u] = fifo[u]
    BY <1>1, <2>1, Zenon DEF FenceTypes
  <2>6. /\ Len(fifo'[t]) = i /\ fifo'[t][i] = e /\ i \in Nat
        /\ \A j \in 1..Len(fifo[t]) : fifo'[t][j] = fifo[t][j]
    BY <2>2, <2>5
  <2>7. WholeEntries(fifo')
    <3> SUFFICES ASSUME NEW u \in Harts, NEW j \in 1..Len(fifo'[u]) PROVE Whole(fifo'[u][j])
      BY Zenon DEF WholeEntries
    <3>1. CASE u # t
      BY <2>5, <3>1, Zenon DEF Covered, WholeEntries
    <3>2. CASE u = t
      <4>1. j = i \/ j \in 1..Len(fifo[t])
        BY <2>2, <2>6, <3>2
      <4> QED
        BY <1>1, <2>4, <2>6, <3>2, <4>1, ZenonT(30) DEF Covered, WholeEntries
    <3> QED
      BY <3>1, <3>2, Zenon
  <2>8. ASSUME NEW s \in Harts, NEW u \in Harts, NEW j \in Nat, Asks(fifo'[u], j, s)
        PROVE  \/ u = t /\ j = i /\ s = h
               \/ Asks(fifo[u], j, s) /\ fifo'[u][j] = fifo[u][j]
    <3>1. CASE u # t
      BY <2>5, <2>8, <3>1, Zenon
    <3>2. CASE u = t /\ j = i
      BY <2>2, <2>6, <2>8, <3>2, Zenon DEF Asks
    <3>3. CASE u = t /\ j # i
      <4>1. j \in 1..Len(fifo[t])
        BY <2>2, <2>6, <2>8, <3>3 DEF Asks
      <4> QED
        BY <2>6, <2>8, <3>3, <4>1, Zenon DEF Asks
    <3> QED
      BY <3>1, <3>2, <3>3, Zenon
  <2> HIDE DEF i
  <2> SUFFICES ASSUME NEW s \in Harts
               PROVE  Covers(s, todo'[s], req'[s], Busy(pc'[s], back'[s]), owed'[s], fifo', Told(sync'[s], acks', s))
    BY <2>7, Zenon DEF Covered
  <2>9. CASE s = h
    <3>1. ~Told(sync[h], acks, h) /\ \A u \in Harts, j \in Nat : ~Asks(fifo[u], j, h)
      BY <1>2, NoneOwed, Zenon
    <3>2. \A u \in Harts, j \in Nat : Asks(fifo'[u], j, h) => u = t /\ j = i
      BY <2>8, <3>1, Zenon
    <3> QED
      BY <1>1, <1>2, <2>3, <2>4, <2>6, <2>9, <3>1, <3>2, ZenonT(30) DEF Covers
  <2>10. CASE s # h
    <3>1. \A u \in Harts, j \in Nat : Asks(fifo'[u], j, s) => Asks(fifo[u], j, s) /\ fifo'[u][j] = fifo[u][j]
      BY <2>8, <2>10, Zenon
    <3>2. Busy(pc'[s], back'[s]) = Busy(pc[s], back[s])
      BY <1>1, <2>10, OwnStep, Zenon
    <3> QED
      BY <1>1, <3>1, <3>2, OthersCovered, Zenon
  <2> QED
    BY <2>9, <2>10, Zenon
<1> QED
  BY <1>3, <1>4, Zenon

\* A hart that ends its call, flushes for itself or goes on to wait for space
LEMMA SendCovered ==
  ASSUME FenceTypes, Locals, Single, Covered, NEW h \in Harts, Send(h)
  PROVE  Covered'
<1> USE DEF GoTo, sender, target
<1>1. HartStep(h) /\ pc[h] = "send" /\ UNCHANGED <<sync, acks, back>>
  BY Zenon DEF HartStep, Send
<1>2. Covers(h, todo[h], req[h], Busy(pc[h], back[h]), owed[h], fifo, Told(sync[h], acks, h))
  BY Zenon DEF Covered
<1>3. ~Told(sync[h], acks, h) /\ \A u \in Harts, j \in Nat : ~Asks(fifo[u], j, h)
  BY <1>1, NoneOwed, Zenon DEF Waits
<1> DEFINE r == Upgraded(req[h])
<1>4. r \in Tinfo /\ Upgraded(r) = r
  BY UpgradedType, Zenon DEF FenceTypes
<1>5. CASE todo[h] # {} /\ NextTarget(h) # h /\ Hits(fifo[NextTarget(h)], r) # {}
  <2> DEFINE t == NextTarget(h)
  <2>1. /\ fifo' = [fifo EXCEPT ![t][Min(Hits(fifo[t], r))] = Merged(@, r, h)]
        /\ pc' = [pc EXCEPT ![h] = "set_bit"] /\ req' = [req EXCEPT ![h] = r]
        /\ UNCHANGED <<todo, owed>>
    BY <1>5, Zenon DEF Send, tlb_update
  <2>2. t \in todo[h] /\ t \in Harts /\ t = Min(todo[h])
    BY <1>5, TargetIn, Zenon DEF NextTarget
  <2> QED
    BY <1>1, <1>4, <1>5, <2>1, <2>2, MergeCovered, Zenon
<1>6. CASE ~(todo[h] # {} /\ NextTarget(h) # h /\ Hits(fifo[NextTarget(h)], r) # {})
  <2>1. /\ UNCHANGED fifo
        /\ \/ todo[h] = {} /\ req' = [req EXCEPT ![h] = None] /\ UNCHANGED <<todo, owed>> /\ pc'[h] = "run"
           \/ /\ todo[h] # {} /\ NextTarget(h) = h /\ req' = [req EXCEPT ![h] = r] /\ Flush(h, r)
              /\ todo' = [todo EXCEPT ![h] = @ \ {h}] /\ UNCHANGED pc
           \/ req' = [req EXCEPT ![h] = r] /\ UNCHANGED <<todo, owed>>
    BY <1>6, Zenon DEF Send, tlb_update, FenceTypes
  <2>2. WholeEntries(fifo')
    BY <2>1, Zenon DEF Covered
  <2>3. \A s, t \in Harts : owed'[s][t] \subseteq owed[s][t]
    BY <2>1, FlushTakes, ZenonT(30)
  <2> SUFFICES ASSUME NEW s \in Harts
               PROVE  Covers(s, todo'[s], req'[s], Busy(pc'[s], back'[s]), owed'[s], fifo', Told(sync'[s], acks', s))
    BY <2>2, Zenon DEF Covered
  <2>4. CASE s # h
    <3>1. todo'[s] = todo[s] /\ req'[s] = req[s] /\ Busy(pc'[s], back'[s]) = Busy(pc[s], back[s])
      BY <1>1, <2>4, OwnStep, Zenon
    <3> QED
      BY <1>1, <2>1, <2>3, <3>1, OthersCovered, Zenon
  <2>5. CASE s = h
    <3>1. ~Told(sync'[h], acks', h) /\ \A u \in Harts, j \in Nat : ~Asks(fifo'[u], j, h)
      BY <1>1, <1>3, <2>1, Zenon
    <3>2. CASE todo[h] = {} /\ UNCHANGED <<todo, owed>> /\ pc'[h] = "run"
      <4>1. ~Busy(pc'[h], back'[h])
        BY <3>2, Zenon DEF Busy
      <4> QED
        BY <1>2, <2>5, <3>1, <3>2, <4>1, Zenon DEF Covers
    <3>3. CASE /\ todo[h] # {} /\ NextTarget(h) = h /\ req' = [req EXCEPT ![h] = r] /\ Flush(h, r)
               /\ todo' = [todo EXCEPT ![h] = @ \ {h}] /\ UNCHANGED pc
      <4>1. h \in todo[h] /\ todo'[h] = todo[h] \ {h} /\ req'[h] = r
        BY <3>3, TargetIn, Zenon DEF FenceTypes
      <4>2. owed'[h][h] = {}
        <5>1. owed[h][h] \subseteq Flushed(Upgraded(req[h]))
          BY <1>2, <4>1, Zenon DEF Covers
        <5>2. owed'[h][h] = owed[h][h] \ Flushed(r)
          BY <3>3, FlushTakes, Zenon
        <5> QED
          BY <5>1, <5>2, Zenon
      <4>3. ~Busy(pc'[h], back'[h])
        BY <1>1, <3>3, Zenon DEF Busy
      <4> HIDE DEF r
      <4> QED
        BY <1>2, <1>4, <2>3, <2>5, <3>1, <4>1, <4>2, <4>3, ZenonT(30) DEF Covers, r
    <3>4. CASE req' = [req EXCEPT ![h] = r] /\ UNCHANGED <<todo, owed>>
      <4>1. req'[h] = r
        BY <3>4, Zenon DEF FenceTypes
      <4> QED
        BY <1>2, <1>4, <2>5, <3>1, <3>4, <4>1, Zenon DEF Covers
    <3> QED
      BY <2>1, <3>2, <3>3, <3>4, ZenonT(30)
  <2> QED
    BY <2>4, <2>5, Zenon
<1> QED
  BY <1>5, <1>6, Zenon

\* An acknowledged hart goes to its next target.
LEMMA SyncCovered ==
  ASSUME FenceTypes, Locals, Single, Covered, NEW h \in Harts, tlb_sync(h)
  PROVE  Covered'
<1> USE DEF GoTo, sender, target
<1>1. HartStep(h) /\ pc[h] = "sync" /\ UNCHANGED <<req, fifo, acks, owed>>
  BY Zenon DEF HartStep, tlb_sync
<1>2. CASE sync[h] # 1
  <2>1. UNCHANGED <<todo, sync>>
    BY <1>2, Zenon DEF tlb_sync
  <2>2. Busy(pc[h], back[h])
    BY <1>1, Zenon DEF Busy
  <2> QED
    BY <1>1, <2>1, <2>2, CoveredOn, Zenon
<1>3. CASE sync[h] = 1
  <2>1. /\ sync' = [sync EXCEPT ![h] = 0] /\ todo' = [todo EXCEPT ![h] = @ \ {NextTarget(h)}]
        /\ pc' = [pc EXCEPT ![h] = "send"]
    BY <1>3 DEF tlb_sync
  <2>2. WholeEntries(fifo')
    BY <1>1, Zenon DEF Covered
  <2> SUFFICES ASSUME NEW s \in Harts
               PROVE  Covers(s, todo'[s], req'[s], Busy(pc'[s], back'[s]), owed'[s], fifo', Told(sync'[s], acks', s))
    BY <2>2, Zenon DEF Covered
  <2>3. Covers(s, todo[s], req[s], Busy(pc[s], back[s]), owed[s], fifo, Told(sync[s], acks, s))
    BY Zenon DEF Covered
  <2>4. CASE s = h
    <3>1. \A u \in Harts : h \notin acks[u] /\ \A j \in Nat : ~Asks(fifo[u], j, h)
      BY <1>3 DEF Single, One
    <3>2. ~Told(sync'[h], acks', h) /\ \A u \in Harts, j \in Nat : ~Asks(fifo'[u], j, h)
      <4>1. sync'[h] = 0 /\ acks' = acks /\ fifo' = fifo
        BY <1>1, <2>1, Zenon DEF FenceTypes
      <4>2. ~(sync'[h] = 1)
        BY <4>1
      <4> QED
        BY <3>1, <4>1, <4>2, Zenon DEF Told
    <3>3. todo'[h] = todo[h] \ {Min(todo[h])} /\ owed[h][Min(todo[h])] = {}
      BY <1>3, <2>1, <2>3, <2>4, Zenon DEF Told, Covers, NextTarget, FenceTypes
    <3>4. ~Busy(pc'[h], back'[h])
      BY <2>1, Zenon DEF Busy, FenceTypes
    <3> QED
      BY <1>1, <2>3, <2>4, <3>2, <3>3, <3>4, Zenon DEF Covers
  <2>5. CASE s # h
    <3>1. /\ todo'[s] = todo[s] /\ Busy(pc'[s], back'[s]) = Busy(pc[s], back[s]) /\ sync'[s] = sync[s]
      BY <1>1, <2>1, <2>5, OwnStep, Zenon DEF FenceTypes
    <3> QED
      BY <1>1, <3>1, OthersCovered, Zenon
  <2> QED
    BY <2>4, <2>5, Zenon
<1> QED
  BY <1>2, <1>3, Zenon

\* An entry that is taken is flushed before its sources are told.
LEMMA DequeueCovered ==
  ASSUME FenceTypes, Locals, Single, Covered, NEW h \in Harts, Dequeue(h)
  PROVE  Covered'
<1> USE DEF GoTo, sender, target
<1>1. HartStep(h) /\ UNCHANGED <<req, todo, sync>> /\ pc[h] = "drain"
  BY Zenon DEF HartStep, Dequeue
<1>2. CASE fifo[h] = <<>>
  <2>1. UNCHANGED <<fifo, acks, owed>> /\ pc' = [pc EXCEPT ![h] = back[h]]
    BY <1>2, Zenon DEF Dequeue, Drained
  <2>2. Busy(pc'[h], back'[h]) => Busy(pc[h], back[h])
    BY <1>1, <2>1, Zenon DEF Busy, FenceTypes, Backs
  <2> QED
    BY <1>1, <2>1, <2>2, CoveredOn, Zenon
<1>3. CASE fifo[h] # <<>>
  <2> DEFINE e == Head(fifo[h])
  <2>1. /\ fifo' = [fifo EXCEPT ![h] = Tail(@)] /\ acks' = [acks EXCEPT ![h] = e.smask]
        /\ pc' = [pc EXCEPT ![h] = "ack"] /\ UNCHANGED back /\ Flush(h, e)
    BY <1>3, Zenon DEF Dequeue
  <2>2. /\ fifo'[h] = Tail(fifo[h]) /\ acks'[h] = e.smask
        /\ \A u \in Harts : u # h => fifo'[u] = fifo[u] /\ acks'[u] = acks[u]
    BY <2>1, Zenon DEF FenceTypes
  <2>3. /\ Len(fifo'[h]) = Len(fifo[h]) - 1 /\ Len(fifo[h]) \in Nat \ {0}
        /\ e = fifo[h][1] /\ \A j \in 1..(Len(fifo[h]) - 1) : fifo'[h][j] = fifo[h][j + 1]
    BY <1>3, <2>2 DEF FenceTypes
  <2> HIDE DEF e
  <2>4. WholeEntries(fifo')
    <3> SUFFICES ASSUME NEW u \in Harts, NEW j \in 1..Len(fifo'[u]) PROVE Whole(fifo'[u][j])
      BY Zenon DEF WholeEntries
    <3>1. CASE u # h
      BY <2>2, <3>1, Zenon DEF Covered, WholeEntries
    <3>2. CASE u = h
      <4>1. j + 1 \in 1..Len(fifo[h]) /\ fifo'[h][j] = fifo[h][j + 1]
        BY <2>3, <3>2
      <4> QED
        BY <3>2, <4>1, Zenon DEF Covered, WholeEntries
    <3> QED
      BY <3>1, <3>2, Zenon
  <2> SUFFICES ASSUME NEW s \in Harts
               PROVE  Covers(s, todo'[s], req'[s], Busy(pc'[s], back'[s]), owed'[s], fifo', Told(sync'[s], acks', s))
    BY <2>4, Zenon DEF Covered
  <2>5. Covers(s, todo[s], req[s], Busy(pc[s], back[s]), owed[s], fifo, Told(sync[s], acks, s))
    BY Zenon DEF Covered
  <2>6. Busy(pc'[s], back'[s]) = Busy(pc[s], back[s])
    BY <1>1, <2>1, OwnStep, Zenon DEF Busy, FenceTypes
  <2>7. /\ owed'[s][h] = owed[s][h] \ Flushed(e)
        /\ \A t \in Harts : owed'[s][t] \subseteq owed[s][t]
    BY <2>1, FlushTakes, ZenonT(30)
  <2>8. ASSUME NEW u \in Harts, NEW j \in Nat, Asks(fifo'[u], j, s)
        PROVE  u = Min(todo[s]) /\ owed[s][u] \subseteq Flushed(fifo'[u][j])
    <3>1. CASE u # h
      BY <2>2, <2>5, <2>8, <3>1, Zenon DEF Covers
    <3>2. CASE u = h
      <4>1. j + 1 \in Nat /\ Asks(fifo[h], j + 1, s) /\ fifo'[h][j] = fifo[h][j + 1]
        BY <2>3, <2>8, <3>2 DEF Asks
      <4> QED
        BY <2>5, <3>2, <4>1, Zenon DEF Covers
    <3> QED
      BY <3>1, <3>2, Zenon
  <2>9. Told(sync'[s], acks', s) => owed'[s][Min(todo[s])] = {}
    <3>1. CASE s \in e.smask
      <4>1. Asks(fifo[h], 1, s)
        BY <2>3, <3>1 DEF Asks
      <4>2. h = Min(todo[s]) /\ owed[s][h] \subseteq Flushed(e)
        BY <2>3, <2>5, <4>1, Zenon DEF Covers
      <4> QED
        BY <2>7, <4>2, Zenon
    <3>2. CASE s \notin e.smask
      <4>1. Told(sync'[s], acks', s) => Told(sync[s], acks, s)
        BY <1>1, <2>2, <3>2, Zenon DEF Told
      <4> QED
        BY <2>5, <2>7, <4>1, ToldHasTarget, Zenon DEF Covers
    <3> QED
      BY <3>1, <3>2, Zenon
  <2> QED
    BY <1>1, <2>5, <2>6, <2>7, <2>8, <2>9, Zenon DEF Covers
<1> QED
  BY <1>2, <1>3, Zenon

\* Every step keeps every debt covered, if the calls ask for whole pages.
LEMMA CoveredStep ==
  ASSUME WholeCalls
  PROVE  FenceTypes /\ Locals /\ Single /\ Covered /\ [Next]_vars => Covered'
<1> SUFFICES ASSUME FenceTypes, Locals, Single, Covered, [Next]_vars PROVE Covered'
  BY Zenon
<1>1. CASE UNCHANGED vars
  <2>1. UNCHANGED <<pc, req, todo, fifo, sync, acks, back, owed>>
    BY <1>1, Zenon DEF vars, sender, target
  <2> QED
    BY <2>1, Zenon DEF Covered
<1> SUFFICES ASSUME NEW h \in Harts, HartStep(h) PROVE Covered'
  BY <1>1, NextIsHartStep, Zenon
<1> USE DEF GoTo, sender, target
<1>2. CASE \E c \in Calls[h] : Request(h, c[1], c[2])
  BY <1>2, RequestCovered, Zenon
<1>3. CASE SetBit(h) \/ Ring(h)
  <2>1. UNCHANGED <<req, todo, owed, fifo, sync, acks>> /\ pc[h] \in {"set_bit", "ring"}
    BY <1>3, Zenon DEF SetBit, Ring
  <2>2. Busy(pc[h], back[h])
    BY <2>1, Zenon DEF Busy
  <2> QED
    BY <2>1, <2>2, CoveredOn, Zenon
<1>4. CASE tlb_entry_process(h)
  <2>1. UNCHANGED <<req, todo, owed, fifo>> /\ pc[h] = "ack"
    BY <1>4, Zenon DEF tlb_entry_process
  <2>2. /\ sync' = [sync EXCEPT ![Min(acks[h])] = 1] /\ acks' = [acks EXCEPT ![h] = @ \ {Min(@)}]
        /\ \/ UNCHANGED <<pc, back>>
           \/ pc' = [pc EXCEPT ![h] = "drain"] /\ UNCHANGED back
           \/ pc' = [pc EXCEPT ![h] = back[h]] /\ back' = [back EXCEPT ![h] = "run"]
    BY <1>4, Zenon DEF tlb_entry_process, Drained
  <2>3. Busy(pc'[h], back'[h]) => Busy(pc[h], back[h])
    BY <2>1, <2>2, Zenon DEF Busy, FenceTypes, Backs
  <2>4. \A s \in Harts : Told(sync'[s], acks', s) => Told(sync[s], acks, s)
    <3>1. \A u \in Harts : acks'[u] \subseteq acks[u]
      BY <2>2, Zenon DEF FenceTypes
    <3>2. \A s \in Harts : sync'[s] = 1 => sync[s] = 1 \/ s = Min(acks[h])
      BY <2>2, Zenon DEF FenceTypes
    <3>3. Min(acks[h]) \in acks[h]
      BY <2>1, AckIn, Zenon
    <3> QED
      BY <3>1, <3>2, <3>3, Zenon DEF Told
  <2> QED
    BY <2>1, <2>3, <2>4, CoveredOn, Zenon
<1>5. CASE ClearDevice(h) \/ sbi_ipi_process(h) \/ sbi_hsm_exit(h) \/ sbi_hsm_hart_stop(h)
  <2>1. UNCHANGED <<req, todo, owed, fifo, sync, acks>>
    BY <1>5, Zenon DEF ClearDevice, sbi_ipi_process, sbi_hsm_exit, sbi_hsm_hart_stop
  <2>2. todo[h] = {} /\ Locals'
    BY <1>5, TargetTypes, Zenon
       DEF ClearDevice, sbi_ipi_process, sbi_hsm_exit, sbi_hsm_hart_stop, Locals, Idle
  <2>3. ~Busy(pc'[h], back'[h])
    BY <2>1, <2>2, Zenon DEF Locals
  <2> QED
    BY <2>1, <2>3, CoveredOn, Zenon
<1>6. CASE StartsUp(h)
  <2>1. /\ pc[h] \in {"stopped"} \cup Starting /\ UNCHANGED <<req, todo, owed, fifo, acks>>
        /\ sync' \in {sync, [sync EXCEPT ![h] = 0]}
    BY <1>6, StartUpSteps, Zenon
  <2>2. todo[h] = {} /\ Locals'
    BY <1>6, <2>1, TargetTypes, Zenon DEF Locals, Idle
  <2>3. ~Busy(pc'[h], back'[h])
    BY <2>1, <2>2, Zenon DEF Locals
  <2>4. \A s \in Harts : Told(sync'[s], acks', s) => Told(sync[s], acks, s)
    <3>1. CASE sync' = sync
      BY <2>1, <3>1, Zenon
    <3>2. CASE sync' = [sync EXCEPT ![h] = 0]
      BY <2>1, <3>2, Zenon DEF Told, FenceTypes
    <3> QED
      BY <2>1, <3>1, <3>2, Zenon
  <2> QED
    BY <2>1, <2>3, <2>4, CoveredOn, Zenon
<1>7. CASE sbi_fifo_init(h)
  <2>1. /\ UNCHANGED <<req, todo, owed, acks, sync>> /\ pc'[h] = "init_done"
        /\ fifo' = [fifo EXCEPT ![h] = <<>>]
    BY <1>7, Zenon DEF sbi_fifo_init, FenceTypes
  <2>2. fifo'[h] = <<>> /\ \A u \in Harts : u # h => fifo'[u] = fifo[u]
    BY <2>1, Zenon DEF FenceTypes
  <2>3. WholeEntries(fifo')
    <3>1. \A j : ~(j \in 1..Len(<<>>))
      OBVIOUS
    <3> QED
      BY <2>2, <3>1, Zenon DEF Covered, WholeEntries
  <2>4. \A s, u \in Harts, j \in Nat : Asks(fifo'[u], j, s) => Asks(fifo[u], j, s) /\ fifo'[u][j] = fifo[u][j]
    <3>1. \A j : ~(j \in 1..Len(<<>>))
      OBVIOUS
    <3>2. \A s, j : ~Asks(fifo'[h], j, s)
      BY <2>2, <3>1, Zenon DEF Asks
    <3> QED
      BY <2>2, <3>2, Zenon
  <2>5. \A s \in Harts : Told(sync'[s], acks', s) => Told(sync[s], acks, s)
    BY <2>1, Zenon DEF Told, FenceTypes
  <2> SUFFICES ASSUME NEW s \in Harts
               PROVE  Covers(s, todo'[s], req'[s], Busy(pc'[s], back'[s]), owed'[s], fifo', Told(sync'[s], acks', s))
    BY <2>3, Zenon DEF Covered
  <2>6. Busy(pc'[s], back'[s]) => Busy(pc[s], back[s])
    BY <2>1, OwnStep, Zenon DEF Busy
  <2> QED
    BY <2>1, <2>4, <2>5, <2>6, OthersCovered, ZenonT(30)
<1> QED
  BY <1>2, <1>3, <1>4, <1>5, <1>6, <1>7, SendCovered, EnqueueCovered, SyncCovered, DequeueCovered, Zenon
     DEF HartStep

\* A hart that has returned from sbi_tlb_request has seen every page it asked
\* for flushed on every hart of the mask, whether its entry was queued, merged
\* or skipped, for every number of harts, fifo size, page size, limit and
\* address space, if the ranges start with a page, do not wrap and are not the
\* (0, 0) that stands for everything.
THEOREM FencesAreDoneOnReturn ==
  ASSUME WholeCalls
  PROVE  Spec => []FencedOnReturn
<1>1. Init => Single /\ Covered
  <2> SUFFICES ASSUME Init PROVE Single /\ Covered
    BY Zenon
  <2>1. \A s, t \in Harts, i \in Nat : ~Asks(fifo[t], i, s)
    BY NoneAskAtFirst, Zenon
  <2>2. Single
    BY <2>1, Zenon DEF Init, Single, One
  <2>3. WholeEntries(fifo)
    BY DEF Init, WholeEntries
  <2>4. \A s \in Harts : ~Busy(pc[s], back[s]) /\ ~Told(sync[s], acks, s)
    BY DEF Init, Busy, Told
  <2>5. \A s \in Harts : todo[s] = {} /\ \A t \in Harts : owed[s][t] = {}
    BY Zenon DEF Init
  <2> QED
    BY <2>1, <2>2, <2>3, <2>4, <2>5, Zenon DEF Covered, Covers
<1>2. FenceTypes /\ Locals /\ Covered => FencedOnReturn
  <2> SUFFICES ASSUME Locals, Covered, NEW h \in Harts, pc[h] \in {"run", "exit"}, NEW t \in Harts
               PROVE  owed[h][t] = {}
    BY Zenon DEF FencedOnReturn
  <2>1. todo[h] = {}
    BY Zenon DEF Locals, Idle
  <2> QED
    BY <2>1, Zenon DEF Covered, Covers
<1> QED
  BY <1>1, <1>2, TypesInit, TypesStep, SingleStep, CoveredStep, PTL DEF Spec

=============================================================================
