------------------------------ MODULE FramePool ------------------------------
(***************************************************************************)
(* What the kernel's frame allocator promises its callers, without the     *)
(* recycle stack and the allocation frontier that implement it: a pool of  *)
(* frames, each free, in use or dropped.  FrameAllocator implements it.    *)
(***************************************************************************)
EXTENDS Naturals

CONSTANTS
  Frames,      \* the frames of the pool
  Capacity     \* how many free frames the pool is sure to remember

VARIABLES
  free,        \* frames that can be handed out
  inuse,       \* frames that a caller holds
  dropped,     \* frames given back that the pool could not remember
  stopped      \* "no", or why the kernel has panicked

vars == <<free, inuse, dropped, stopped>>

Init ==
  /\ free = Frames
  /\ inuse = {}
  /\ dropped = {}
  /\ stopped = "no"

\* A frame handed out is one that nobody holds.
Take(f) ==
  /\ stopped = "no"
  /\ f \in free
  /\ free' = free \ {f}
  /\ inuse' = inuse \cup {f}
  /\ UNCHANGED <<dropped, stopped>>

\* Running out of memory is possible only when no frame is free.
Exhaust ==
  /\ stopped = "no"
  /\ free = {}
  /\ stopped' = "memory is full"
  /\ UNCHANGED <<free, inuse, dropped>>

Give(f) ==
  /\ stopped = "no"
  /\ f \in inuse \cup dropped
  /\ free' = free \cup {f}
  /\ inuse' = inuse \ {f}
  /\ dropped' = dropped \ {f}
  /\ UNCHANGED stopped

\* n different frames are free.
Remembers(n) ==
  \E g \in [1..n -> free] : \A i, j \in 1..n : g[i] = g[j] => i = j

\* A frame given back may be forgotten, but only by a pool that already
\* remembers Capacity of them.
Drop(f) ==
  /\ stopped = "no"
  /\ f \in inuse
  /\ Remembers(Capacity)
  /\ inuse' = inuse \ {f}
  /\ dropped' = dropped \cup {f}
  /\ UNCHANGED <<free, stopped>>

\* Giving back a frame that is already free stops the kernel.
GiveTwice(f) ==
  /\ stopped = "no"
  /\ f \in free
  /\ stopped' = "not alloced"
  /\ UNCHANGED <<free, inuse, dropped>>

Next ==
  \/ Exhaust
  \/ \E f \in Frames : Take(f) \/ Give(f) \/ Drop(f) \/ GiveTwice(f)

Spec == Init /\ [][Next]_vars
=============================================================================
