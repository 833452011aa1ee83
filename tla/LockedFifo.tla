------------------------------ MODULE LockedFifo ------------------------------
(***************************************************************************)
(* Harts that use one sbi_fifo at the same time: the functions of          *)
(* opensbi-1.2/lib/sbi/sbi_fifo.c, write by write, between the spin_lock   *)
(* and the spin_unlock of qlock.  A step makes one write to the struct     *)
(* with the reads before it.  Which function a hart has called shows only  *)
(* once it has the lock.                                                   *)
(***************************************************************************)
EXTENDS SpinLock, Fifo

VARIABLES
  op,           \* per hart: <<"none">>, or what is left to write, or <<"done">>
  seen          \* history: the struct as the last completed function left it

shared == <<fifo, seen>>
allvars == <<vars, shared, op>>

None == <<"none">>
Done == <<"done">>

LockedInit ==
  /\ Init /\ sbi_fifo_init
  /\ op = [h \in Harts |-> None]
  /\ seen = [queue |-> queue, avail |-> avail, tail |-> tail]

Acquire(h) ==
  /\ spin_lock(h) \/ Spin(h)
  /\ UNCHANGED <<shared, op>>

\* mutant: the lock is not waited for
BeginsAtOnce(h) == pc[h] \in {"spin", "locked"} /\ op[h] = None

Begins(h) == At(h, "locked") /\ op[h] = None

Continues(h, rest) == op' = [op EXCEPT ![h] = rest] /\ UNCHANGED <<vars, result, seen>>

Returns(h, r) ==
  /\ result' = r
  /\ seen' = [queue |-> queue', avail |-> avail', tail |-> tail']
  /\ op' = [op EXCEPT ![h] = Done]
  /\ UNCHANGED vars

\* __sbi_fifo_enqueue: the entry is copied ...
EnqueueEntry(h, d) ==
  /\ Begins(h)
  /\ \/ is_full /\ UNCHANGED <<queue, avail, tail>> /\ Returns(h, <<"ENOSPC">>)
     \/ ~is_full /\ Store(Wrap(tail + avail), d) /\ UNCHANGED <<avail, tail>> /\ Continues(h, <<"avail">>)

\* ... then counted.
EnqueueCount(h) ==
  /\ op[h] = <<"avail">>
  /\ avail' = avail + 1 /\ UNCHANGED <<queue, tail>>
  /\ Returns(h, <<"ok">>)

\* sbi_fifo_dequeue: the entry is copied out and the count lowered ...
DequeueEntry(h) ==
  /\ Begins(h)
  /\ \/ is_empty /\ UNCHANGED <<queue, avail, tail>> /\ Returns(h, <<"ENOENT">>)
     \/ ~is_empty /\ avail' = avail - 1 /\ UNCHANGED <<queue, tail>> /\ Continues(h, <<"tail", queue[tail]>>)

\* ... then the tail moved.
DequeueTail(h) ==
  /\ op[h][1] = "tail"
  /\ tail' = Wrap(tail + 1) /\ UNCHANGED <<queue, avail>>
  /\ Returns(h, <<"ok", op[h][2]>>)

\* __sbi_fifo_reset: avail, then tail, then the memory
ResetCount(h) ==
  /\ Begins(h)
  /\ avail' = 0 /\ UNCHANGED <<queue, tail>>
  /\ Continues(h, <<"reset_tail">>)

ResetTail(h) ==
  /\ op[h] = <<"reset_tail">>
  /\ tail' = 0 /\ UNCHANGED <<queue, avail>>
  /\ Continues(h, <<"memset">>)

ResetMemory(h) ==
  /\ op[h] = <<"memset">>
  /\ queue' = [i \in 0..(Size - 1) |-> Zero] /\ UNCHANGED <<avail, tail>>
  /\ Returns(h, <<"ok">>)

\* sbi_fifo_inplace_update writes at most once, in its callback.
Update(h, S, d) ==
  /\ Begins(h)
  /\ sbi_fifo_inplace_update(S, d)
  /\ Returns(h, result')

Release(h) ==
  /\ op[h] = Done
  /\ spin_unlock(h)
  /\ UNCHANGED <<shared, op>>

Leave(h) ==
  /\ StoreRelease(h)
  /\ op' = [op EXCEPT ![h] = None]
  /\ UNCHANGED shared

\* What a hart does that is in one of the functions.
Work(h) ==
  \/ \E d \in Data : EnqueueEntry(h, d)
  \/ EnqueueCount(h)
  \/ DequeueEntry(h) \/ DequeueTail(h)
  \/ ResetCount(h) \/ ResetTail(h) \/ ResetMemory(h)
  \/ \E S \in SUBSET Data, d \in Data : Update(h, S, d)
  \/ Release(h) \/ Leave(h)

LockedNext == \E h \in Harts : Acquire(h) \/ Work(h)

\* A hart that spins keeps reading the lock; one that holds it runs with
\* interrupts off and waits for nothing else.
LockedSpec ==
  /\ LockedInit /\ [][LockedNext]_allvars
  /\ \A h \in Harts : WF_allvars(Spin(h) /\ UNCHANGED <<shared, op>>) /\ WF_allvars(Work(h))

-----------------------------------------------------------------------------
Atomic == INSTANCE Fifo WITH
  queue <- seen.queue, avail <- seen.avail, tail <- seen.tail

\* Functions of several harts do not mix: each one takes effect on the struct
\* as the one before left it, and at once, which is what Fifo takes for granted
\* (and Fifo is a bounded queue, see LockedFifoProofs).
FunctionsAreAtomic == Atomic!FifoSpec

\* Every hart that waits in spin_lock gets the lock.
EveryWaiterServed == \A h \in Harts : At(h, "spin") ~> At(h, "locked")

=============================================================================
