----------------------------- MODULE RemoteFence -----------------------------
(***************************************************************************)
(* Remote fences of opensbi-1.2/lib/sbi: sbi_tlb.c, with its event in      *)
(* sbi_ipi.c and the mswi driver.  A hart asks others to flush             *)
(* address ranges: for each target it puts an entry into the target's fifo *)
(* (or merges it with one that waits there), rings the target and waits    *)
(* for the acknowledgement, working off its own fifo meanwhile.  The fifo  *)
(* is the bounded queue that module Fifo implements; one step is one       *)
(* access to memory that other harts use.                                  *)
(***************************************************************************)
EXTENDS Integers, Sequences, FiniteSets, FiniteSetsExt

CONSTANTS
  Harts,        \* hart ids, a set of naturals
  FifoSize,     \* SBI_TLB_FIFO_NUM_ENTRIES
  PageSize,
  Space,        \* size of the address space: addresses are below it
  FlushLimit,   \* tlb_range_flush_limit
  Asids,
  Calls,        \* per hart, the calls it makes: <<[fn, asid, start, size], mask>>
  Stopping      \* the harts that call sbi_hsm_hart_stop

ASSUME SizesAssumption ==
  /\ Harts \subseteq Nat /\ IsFiniteSet(Harts) /\ Stopping \subseteq Harts
  /\ FifoSize \in Nat \ {0} /\ PageSize \in Nat \ {0} /\ FlushLimit \in Nat
  /\ Space \in Nat \ {0} /\ Space % PageSize = 0

\* struct sbi_tlb_info, without the sources
Tinfo == [fn : {"none", "fence_i", "sfence_vma", "sfence_vma_asid"}, asid : Asids \cup {0},
          start : 0..(Space - 1), size : 0..(Space - 1)]

ASSUME CallsAssumption == \A h \in Harts : Calls[h] \subseteq Tinfo \X SUBSET Harts

VARIABLES
  pc,           \* where each hart is; "run" is supervisor mode or wfi
  req,          \* its request (tinfo)
  todo,         \* the harts still to be served by it (the rest of mask m)
  fifo,         \* per hart: entries [fn, asid, start, size, smask]
  sync,         \* per hart: its tlb_sync word
  ipi_type,     \* per hart: the events set for it
  msip,         \* per hart: its bit in the ACLINT
  acks,         \* the sources the hart has still to acknowledge
  quota,        \* entries tlb_process_count may still take; 0: no limit
  back,         \* where the hart goes on after working off its fifo
  state,        \* HSM state of each hart
  owed          \* history: what a hart's request still has to see flushed, where

sender == <<req, todo>>
target == <<acks, quota, back>>
vars == <<pc, sender, fifo, sync, ipi_type, msip, target, state, owed>>

FLUSH_ALL == Space - 1
Pages == 0..(Space \div PageSize - 1)
InTlb(A, P) == {<<"tlb", a, p>> : a \in A, p \in P}
None == [fn |-> "none", asid |-> 0, start |-> 0, size |-> 0]

Init ==
  /\ pc = [h \in Harts |-> "run"]
  /\ req = [h \in Harts |-> None]
  /\ todo = [h \in Harts |-> {}]
  /\ fifo = [h \in Harts |-> <<>>]
  /\ sync = [h \in Harts |-> 0]
  /\ ipi_type = [h \in Harts |-> {}]
  /\ msip = [h \in Harts |-> FALSE]
  /\ acks = [h \in Harts |-> {}]
  /\ quota = [h \in Harts |-> 0]
  /\ back = [h \in Harts |-> "run"]
  /\ state = [h \in Harts |-> "STARTED"]
  /\ owed = [h \in Harts |-> [t \in Harts |-> {}]]

GoTo(h, l) == pc' = [pc EXCEPT ![h] = l]

\* What a request asks for: the pages of its range; (0, 0) is everything.
Asked(r) ==
  IF r.fn = "fence_i" THEN {<<"icache", 0, 0>>}
  ELSE IF r.start = 0 /\ r.size = 0
    THEN InTlb(Asids, Pages)
    ELSE InTlb(IF r.fn = "sfence_vma" THEN Asids ELSE {r.asid},
               {p \in Pages : p * PageSize >= r.start /\ p * PageSize < r.start + r.size})

\* What the local functions flush: the loop goes up from start page by page.
Flushed(r) ==
  IF r.fn = "fence_i" THEN {<<"icache", 0, 0>>}
  ELSE LET some == IF r.fn = "sfence_vma" THEN Asids ELSE {r.asid} IN
       IF r.start = 0 /\ r.size = 0 THEN InTlb(Asids, Pages)
       ELSE IF r.size = FLUSH_ALL THEN InTlb(some, Pages)
       ELSE InTlb(some, {((r.start + i * PageSize) % Space) \div PageSize :
                           i \in {j \in Pages : j * PageSize < r.size}})

\* local_fn on hart h
Flush(h, r) ==
  owed' = [s \in Harts |-> [owed[s] EXCEPT ![h] = @ \ Flushed(r)]]

\* sbi_ipi_send_many: the mask of interruptible harts is computed once.
Request(h, r, T) ==
  /\ pc[h] = "run" /\ state[h] = "STARTED"
  /\ req' = [req EXCEPT ![h] = r]
  /\ \E m \in {{t \in T : state[t] = "STARTED"}} :
       /\ todo' = [todo EXCEPT ![h] = m]
       /\ owed' = [owed EXCEPT ![h] = [t \in Harts |->
            IF t \in m THEN Asked(r) ELSE {}]]
  /\ GoTo(h, "send")
  /\ UNCHANGED <<fifo, sync, ipi_type, msip, target, state>>

NextTarget(h) == Min(todo[h])

\* The range after the upgrade at the head of tlb_update.
Upgraded(r) ==
  IF r.size > FlushLimit THEN [r EXCEPT !.start = 0, !.size = FLUSH_ALL] ELSE r

\* mutant: a range that only starts inside the entry counts as contained
RangeCheckStart(curr, next) ==
  IF next.start >= curr.start /\ next.start < (curr.start + curr.size) % Space
    THEN "SKIP"
    ELSE "UNCHANGED"

tlb_range_check(curr, next) ==
  LET next_end == (next.start + next.size) % Space
      curr_end == (curr.start + curr.size) % Space
  IN  IF next.start <= curr.start /\ next_end > curr_end THEN "UPDATED"
      ELSE IF next.start >= curr.start /\ next_end <= curr_end THEN "SKIP"
      ELSE "UNCHANGED"

tlb_update_cb(next, curr) ==
  IF \/ next.fn = "sfence_vma_asid" /\ curr.fn = "sfence_vma_asid" /\ next.asid = curr.asid
     \/ next.fn = "sfence_vma" /\ curr.fn = "sfence_vma"
    THEN tlb_range_check(curr, next)
    ELSE "UNCHANGED"

Entry(r, s) == [fn |-> r.fn, asid |-> r.asid, start |-> r.start, size |-> r.size, smask |-> {s}]

\* The entry after the callback: the sources are joined in both cases.
Merged(curr, r, h) ==
  IF tlb_update_cb(r, curr) = "UPDATED"
    THEN [Entry(r, h) EXCEPT !.smask = curr.smask \cup {h}]
    ELSE [curr EXCEPT !.smask = @ \cup {h}]

\* The entries the callback does not leave unchanged.
Hits(f, r) == {i \in 1..Len(f) : tlb_update_cb(r, f[i]) # "UNCHANGED"}

\* tlb_update, up to the loop around sbi_fifo_enqueue
tlb_update(h, t, r) ==
  /\ req' = [req EXCEPT ![h] = r]
  /\ \/ /\ t = h
        /\ Flush(h, r)
        /\ todo' = [todo EXCEPT ![h] = @ \ {t}]
        /\ UNCHANGED <<pc, fifo>>
     \/ /\ t # h /\ Hits(fifo[t], r) # {}
        /\ LET i == Min(Hits(fifo[t], r))
           IN  fifo' = [fifo EXCEPT ![t][i] = Merged(@, r, h)]
        /\ GoTo(h, "set_bit")
        /\ UNCHANGED <<todo, owed>>
     \/ /\ t # h /\ Hits(fifo[t], r) = {}
        /\ GoTo(h, "enqueue")
        /\ UNCHANGED <<todo, fifo, owed>>

\* One round of the loop of sbi_ipi_send_many: sbi_ipi_send up to the update.
Send(h) ==
  /\ pc[h] = "send"
  /\ \/ /\ todo[h] = {}
        /\ GoTo(h, "run")
        /\ req' = [req EXCEPT ![h] = None]
        /\ UNCHANGED <<todo, fifo, owed>>
     \/ /\ todo[h] # {}
        /\ tlb_update(h, NextTarget(h), Upgraded(req[h]))
  /\ UNCHANGED <<sync, ipi_type, msip, target, state>>

\* Work off up to n entries of the own fifo (0: all), then go on at l.
Drain(h, n, l) ==
  /\ GoTo(h, "drain")
  /\ quota' = [quota EXCEPT ![h] = n]
  /\ back' = [back EXCEPT ![h] = l]

\* The end of that; its locals are dead.
Drained(h) ==
  /\ GoTo(h, back[h])
  /\ quota' = [quota EXCEPT ![h] = 0]
  /\ back' = [back EXCEPT ![h] = "run"]

Enqueue(h) ==
  /\ pc[h] = "enqueue"
  /\ \/ /\ Len(fifo[NextTarget(h)]) < FifoSize
        /\ fifo' = [fifo EXCEPT ![NextTarget(h)] = Append(@, Entry(req[h], h))]
        /\ GoTo(h, "set_bit")
        /\ UNCHANGED <<quota, back>>
     \/ /\ Len(fifo[NextTarget(h)]) = FifoSize
        /\ Drain(h, 2, "enqueue")
        /\ UNCHANGED fifo
  /\ UNCHANGED <<sender, sync, ipi_type, msip, acks, state, owed>>

SetBit(h) ==
  /\ pc[h] = "set_bit"
  /\ ipi_type' = [ipi_type EXCEPT ![NextTarget(h)] = @ \cup {"TLB"}]
  /\ GoTo(h, "ring")
  /\ UNCHANGED <<sender, fifo, sync, msip, target, state, owed>>

\* mutant: a hart that is in the firmware is not interrupted
RingIdle(h) ==
  /\ pc[h] = "ring"
  /\ msip' = [msip EXCEPT ![NextTarget(h)] = @ \/ pc[NextTarget(h)] = "run"]
  /\ GoTo(h, "sync")
  /\ UNCHANGED <<sender, fifo, sync, ipi_type, target, state, owed>>

\* mswi_ipi_send
Ring(h) ==
  /\ pc[h] = "ring"
  /\ msip' = [msip EXCEPT ![NextTarget(h)] = TRUE]
  /\ GoTo(h, "sync")
  /\ UNCHANGED <<sender, fifo, sync, ipi_type, target, state, owed>>

\* mutant: the waiting hart does not look at its own fifo
SyncOnly(h) ==
  /\ pc[h] = "sync"
  /\ \/ /\ sync[h] = 1
        /\ sync' = [sync EXCEPT ![h] = 0]
        /\ todo' = [todo EXCEPT ![h] = @ \ {NextTarget(h)}]
        /\ GoTo(h, "send")
     \/ /\ sync[h] = 0
        /\ UNCHANGED <<pc, sync, todo>>
  /\ UNCHANGED <<req, fifo, ipi_type, msip, target, state, owed>>

tlb_sync(h) ==
  /\ pc[h] = "sync"
  /\ \/ /\ sync[h] = 1
        /\ sync' = [sync EXCEPT ![h] = 0]
        /\ todo' = [todo EXCEPT ![h] = @ \ {NextTarget(h)}]
        /\ GoTo(h, "send")
        /\ UNCHANGED <<quota, back>>
     \/ /\ sync[h] = 0
        /\ Drain(h, 2, "sync")
        /\ UNCHANGED <<sync, todo>>
  /\ UNCHANGED <<req, fifo, ipi_type, msip, acks, state, owed>>

\* mutant: the entry stays in the fifo
Peek(h) ==
  /\ pc[h] = "drain"
  /\ \/ /\ fifo[h] = <<>>
        /\ Drained(h)
        /\ UNCHANGED <<acks, owed>>
     \/ /\ fifo[h] # <<>>
        /\ Flush(h, Head(fifo[h]))
        /\ acks' = [acks EXCEPT ![h] = Head(fifo[h]).smask]
        /\ GoTo(h, "ack")
        /\ UNCHANGED <<quota, back>>
  /\ UNCHANGED <<sender, fifo, sync, ipi_type, msip, state>>

\* tlb_process and tlb_process_count: an entry is taken and flushed ...
Dequeue(h) ==
  /\ pc[h] = "drain"
  /\ \/ /\ fifo[h] = <<>>
        /\ Drained(h)
        /\ UNCHANGED <<fifo, acks, owed>>
     \/ /\ fifo[h] # <<>>
        /\ fifo' = [fifo EXCEPT ![h] = Tail(@)]
        /\ Flush(h, Head(fifo[h]))
        /\ acks' = [acks EXCEPT ![h] = Head(fifo[h]).smask]
        /\ GoTo(h, "ack")
        /\ UNCHANGED <<quota, back>>
  /\ UNCHANGED <<sender, sync, ipi_type, msip, state>>

\* ... and each of its sources told, as soon as its word is 0.
tlb_entry_process(h) ==
  /\ pc[h] = "ack"
  /\ sync[Min(acks[h])] = 0
  /\ sync' = [sync EXCEPT ![Min(acks[h])] = 1]
  /\ acks' = [acks EXCEPT ![h] = @ \ {Min(@)}]
  /\ \/ /\ acks'[h] # {}
        /\ UNCHANGED <<pc, quota, back>>
     \/ /\ acks'[h] = {} /\ quota[h] # 1
        /\ GoTo(h, "drain")
        /\ quota' = [quota EXCEPT ![h] = IF @ = 0 THEN 0 ELSE @ - 1]
        /\ UNCHANGED back
     \/ /\ acks'[h] = {} /\ quota[h] = 1
        /\ Drained(h)
  /\ UNCHANGED <<sender, fifo, ipi_type, msip, state, owed>>

\* sbi_ipi_process, on a software interrupt or on the way out (sbi_ipi_exit):
\* the device is cleared first ...
ClearDevice(h) ==
  /\ \/ pc[h] = "run" /\ msip[h]
     \/ pc[h] = "exit"
  /\ msip' = [msip EXCEPT ![h] = FALSE]
  /\ back' = [back EXCEPT ![h] = IF pc[h] = "run" THEN "run" ELSE "halt"]
  /\ GoTo(h, "ipi")
  /\ UNCHANGED <<sender, fifo, sync, ipi_type, acks, quota, state, owed>>

\* ... then the events are taken and handled.
sbi_ipi_process(h) ==
  /\ pc[h] = "ipi"
  /\ ipi_type' = [ipi_type EXCEPT ![h] = {}]
  /\ IF "TLB" \in ipi_type[h]
       THEN Drain(h, 0, back[h])
       ELSE Drained(h)
  /\ UNCHANGED <<sender, fifo, sync, msip, acks, state, owed>>

sbi_hsm_hart_stop(h) ==
  /\ pc[h] = "run" /\ h \in Stopping
  /\ state' = [state EXCEPT ![h] = "STOP_PENDING"]
  /\ GoTo(h, "exit")
  /\ UNCHANGED <<sender, fifo, sync, ipi_type, msip, target, owed>>

sbi_hsm_exit(h) ==
  /\ pc[h] = "halt"
  /\ state' = [state EXCEPT ![h] = "STOPPED"]
  /\ GoTo(h, "stopped")
  /\ UNCHANGED <<sender, fifo, sync, ipi_type, msip, target, owed>>

\* Another hart starts it again (sbi_hsm_hart_start); on its warm boot path ...
sbi_hsm_hart_start(h) ==
  /\ pc[h] = "stopped"
  /\ state' = [state EXCEPT ![h] = "START_PENDING"]
  /\ GoTo(h, "init")
  /\ UNCHANGED <<sender, fifo, sync, ipi_type, msip, target, owed>>

\* ... sbi_ipi_init forgets the events, and then clears the device ...
sbi_ipi_init(h) ==
  /\ pc[h] = "init"
  /\ ipi_type' = [ipi_type EXCEPT ![h] = {}]
  /\ GoTo(h, "init_device")
  /\ UNCHANGED <<sender, fifo, sync, msip, target, state, owed>>

aclint_mswi_warm_init(h) ==
  /\ pc[h] = "init_device"
  /\ msip' = [msip EXCEPT ![h] = FALSE]
  /\ GoTo(h, "init_sync")
  /\ UNCHANGED <<sender, fifo, sync, ipi_type, target, state, owed>>

\* ... sbi_tlb_init resets the word, and then the fifo, without its lock ...
sbi_tlb_init(h) ==
  /\ pc[h] = "init_sync"
  /\ sync' = [sync EXCEPT ![h] = 0]
  /\ GoTo(h, "init_fifo")
  /\ UNCHANGED <<sender, fifo, ipi_type, msip, target, state, owed>>

sbi_fifo_init(h) ==
  /\ pc[h] = "init_fifo"
  /\ fifo' = [fifo EXCEPT ![h] = <<>>]
  /\ GoTo(h, "init_done")
  /\ UNCHANGED <<sender, sync, ipi_type, msip, target, state, owed>>

\* ... and the hart jumps to supervisor mode.
sbi_hsm_prepare_next_jump(h) ==
  /\ pc[h] = "init_done"
  /\ state' = [state EXCEPT ![h] = "STARTED"]
  /\ GoTo(h, "run")
  /\ UNCHANGED <<sender, fifo, sync, ipi_type, msip, target, owed>>

\* The steps a hart takes by itself once it is in machine mode, or is
\* interrupted: nothing but the hart's own speed delays them.
Proceed(h) ==
  \/ Send(h) \/ Enqueue(h) \/ SetBit(h) \/ Ring(h) \/ tlb_sync(h)
  \/ Dequeue(h) \/ tlb_entry_process(h)
  \/ ClearDevice(h) \/ sbi_ipi_process(h) \/ sbi_hsm_exit(h)
  \/ sbi_ipi_init(h) \/ aclint_mswi_warm_init(h)
  \/ sbi_tlb_init(h) \/ sbi_fifo_init(h) \/ sbi_hsm_prepare_next_jump(h)

Next == \E h \in Harts :
  \/ \E c \in Calls[h] : Request(h, c[1], c[2])
  \/ Proceed(h)
  \/ sbi_hsm_hart_stop(h)
  \/ sbi_hsm_hart_start(h)

Spec == Init /\ [][Next]_vars

FairSpec == Spec /\ \A h \in Harts : WF_vars(Proceed(h))

-----------------------------------------------------------------------------
\* A hart that has returned from sbi_tlb_request has seen every page it asked
\* for flushed on every hart of the mask, whether its entry was queued, merged
\* or skipped.
FencedOnReturn ==
  \A h \in Harts : pc[h] \in {"run", "exit"} => \A t \in Harts : owed[h][t] = {}

Waiting(h) ==
  \/ pc[h] \in {"set_bit", "ring", "sync"}
  \/ pc[h] \in {"drain", "ack"} /\ back[h] = "sync"

\* Where an acknowledgement for s can come from.
Sources(s) ==
  Cardinality({x \in Harts \X (1..FifoSize) :
                 x[2] <= Len(fifo[x[1]]) /\ s \in fifo[x[1]][x[2]].smask})
  + Cardinality({t \in Harts : s \in acks[t]})
  + sync[s]

\* A hart that waits in tlb_sync is owed at most one acknowledgement, and no
\* other hart is owed any, also when harts stop and start again: a late
\* acknowledgement never meets the sender's next target or next request.
NoneTooMany ==
  \A s \in Harts : Sources(s) <= IF Waiting(s) THEN 1 ELSE 0

\* Hart t will look at its fifo: the event is set and its interrupt is pending
\* or about to be, a sender is about to set it, or t is working off the whole
\* fifo.
Noticed(t) ==
  \/ /\ "TLB" \in ipi_type[t]
     /\ \/ msip[t]
        \/ pc[t] = "ipi"
        \/ \E s \in Harts : pc[s] = "ring" /\ NextTarget(s) = t
  \/ \E s \in Harts : pc[s] = "set_bit" /\ NextTarget(s) = t
  \/ pc[t] \in {"drain", "ack"} /\ quota[t] = 0

\* No entry is left in a fifo without a notice, though it is put there, merged,
\* announced and interrupted for in separate steps, the other side clears the
\* device and takes the events in two, and harts stop and start again.  While a
\* hart is started, an event can lose its interrupt, between the two halves of
\* sbi_ipi_init; no entry outlives that, as the fifo is emptied only after it.
NoEntryForgotten ==
  \A t \in Harts :
    fifo[t] # <<>> /\ pc[t] \notin {"init_device", "init_sync", "init_fifo"} => Noticed(t)

\* From some point on no hart makes a new call.
CallsCease == <>[][\A h \in Harts : pc[h] = "run" => pc'[h] # "send"]_vars

\* Every call returns, if no hart stops (a hart that stops after the mask was
\* computed never acknowledges) and calls do not go on for ever (a hart can be
\* kept busy by others that fence it again and again): harts that fence each
\* other at the same time, or wait for space in each other's fifo, do not
\* block each other.
EveryRequestReturns ==
  CallsCease /\ [](\A h \in Harts : state[h] = "STARTED")
    => \A h \in Harts : pc[h] = "send" ~> pc[h] = "run"

=============================================================================
