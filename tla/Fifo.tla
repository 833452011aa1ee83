--------------------------------- MODULE Fifo ---------------------------------
(***************************************************************************)
(* The ring buffer of opensbi-1.2/lib/sbi/sbi_fifo.c.  Every function holds*)
(* qlock from its first access to its last, so each one is a single step;  *)
(* LockedFifo shows that it is.                                            *)
(***************************************************************************)
EXTENDS Integers, Sequences

CONSTANTS
  Data,         \* what callers store
  Zero,         \* the content of memory after sbi_memset
  Size          \* num_entries

ASSUME SizeAssumption == Size \in Nat \ {0}

ASSUME ZeroAssumption == Zero \notin Data

VARIABLES
  queue,        \* the memory: one cell for each index
  avail,        \* entries in use
  tail,         \* index of the oldest
  result        \* what the last call returned

fifo == <<queue, avail, tail, result>>

Wrap(i) == IF i >= Size THEN i - Size ELSE i

sbi_fifo_init ==
  /\ queue = [i \in 0..(Size - 1) |-> Zero]
  /\ avail = 0
  /\ tail = 0
  /\ result = <<"init">>

is_full == avail = Size

is_empty == avail = 0

Store(i, d) == queue' = [queue EXCEPT ![i] = d]

sbi_fifo_enqueue(d) ==
  \/ /\ is_full
     /\ result' = <<"ENOSPC">>
     /\ UNCHANGED <<queue, avail, tail>>
  \/ /\ ~is_full
     /\ Store(Wrap(tail + avail), d)
     /\ avail' = avail + 1
     /\ result' = <<"ok">>
     /\ UNCHANGED tail

sbi_fifo_dequeue ==
  \/ /\ is_empty
     /\ result' = <<"ENOENT">>
     /\ UNCHANGED <<queue, avail, tail>>
  \/ /\ ~is_empty
     /\ result' = <<"ok", queue[tail]>>
     /\ avail' = avail - 1
     /\ tail' = Wrap(tail + 1)
     /\ UNCHANGED queue

sbi_fifo_reset ==
  /\ avail' = 0
  /\ tail' = 0
  /\ queue' = [i \in 0..(Size - 1) |-> Zero]
  /\ result' = <<"ok">>

\* S: the entries for which the callback answers something else than UNCHANGED;
\* the loop ends at the first of them.
sbi_fifo_inplace_update(S, d) ==
  \/ \E i \in 0..(avail - 1) :
       /\ queue[Wrap(tail + i)] \in S
       /\ \A j \in 0..(i - 1) : queue[Wrap(tail + j)] \notin S
       /\ \/ Store(Wrap(tail + i), d) /\ result' = <<"UPDATED">>
          \/ UNCHANGED queue /\ result' = <<"SKIP">>
       /\ UNCHANGED <<avail, tail>>
  \/ /\ \A i \in 0..(avail - 1) : queue[Wrap(tail + i)] \notin S
     /\ result' = <<"UNCHANGED">>
     /\ UNCHANGED <<queue, avail, tail>>

FifoNext ==
  \/ \E d \in Data : sbi_fifo_enqueue(d)
  \/ sbi_fifo_dequeue
  \/ sbi_fifo_reset
  \/ \E S \in SUBSET Data, d \in Data : sbi_fifo_inplace_update(S, d)

FifoSpec == sbi_fifo_init /\ [][FifoNext]_fifo

-----------------------------------------------------------------------------
\* The cells in use hold stored data, and only they are ever read: Zero never
\* comes out of the queue.
FifoTypeOK ==
  /\ queue \in [0..(Size - 1) -> Data \cup {Zero}]
  /\ avail \in 0..Size
  /\ tail \in 0..(Size - 1)
  /\ \A i \in 0..(avail - 1) : queue[Wrap(tail + i)] \in Data

\* The entries from the oldest on.
Entries == [i \in 1..avail |-> queue[Wrap(tail + i - 1)]]

Queue == INSTANCE BoundedQueue WITH q <- Entries

\* The ring buffer is a bounded first-in first-out queue, wherever tail stands
\* when the queue fills, empties or is searched.
IsBoundedQueue == Queue!Spec

=============================================================================
