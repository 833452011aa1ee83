--------------------------- MODULE FrameAllocator ---------------------------
(***************************************************************************)
(* The physical frame allocator as its callers see it: kalloc and kfree of *)
(* os/src/address.c on the global memory_allocator.  The ghost variables   *)
(* held, lost and peak record who owns what.                               *)
(***************************************************************************)
EXTENDS FrameStack, FiniteSets

VARIABLES
  memory_allocator,  \* [current, recycled], recycled = [data, top]
  held,              \* ghost: frames handed out and not given back
  lost,              \* ghost: frames given back to a full stack
  peak,              \* ghost: the most frames ever held or lost at once
  panicked           \* "no", or the panic() in which the kernel spins

vars == <<memory_allocator, held, lost, peak, panicked>>

-----------------------------------------------------------------------------
(***************************************************************************)
(* The allocator as a state machine.  A caller may ask for a frame, and    *)
(* may give back any frame at all: one it holds, one given back before, or *)
(* one that was never handed out.                                          *)
(***************************************************************************)

Init ==
  /\ memory_allocator = StackFrameAllocator_new
  /\ held = {}
  /\ lost = {}
  /\ peak = 0
  /\ panicked = "no"

kalloc ==
  /\ panicked = "no"
  /\ ~IsExhausted(memory_allocator)
  /\ LET r == StackFrameAllocator_alloc(memory_allocator)
         used == Cardinality(held \cup lost \cup {r.ppn})
     IN  /\ memory_allocator' = r.a
         /\ held' = held \cup {r.ppn}
         /\ peak' = IF used > peak THEN used ELSE peak
  /\ UNCHANGED <<lost, panicked>>

\* panic("memory is full")
kallocFull ==
  /\ panicked = "no"
  /\ IsExhausted(memory_allocator)
  /\ panicked' = "memory is full"
  /\ UNCHANGED <<memory_allocator, held, lost, peak>>

\* A frame beyond the frontier is refused with a message; any other frame
\* that is not on the stack is pushed, or lost when the stack is full.
kfree(ppn) ==
  /\ panicked = "no"
  /\ \/ NotYetAllocated(memory_allocator, ppn)
     \/ ~AlreadyRecycled(memory_allocator, ppn)
  /\ memory_allocator' = StackFrameAllocator_dealloc(memory_allocator, ppn)
  /\ held' = held \ {ppn}
  /\ lost' = IF NotYetAllocated(memory_allocator, ppn) THEN lost
             ELSE IF isFull(memory_allocator.recycled) THEN lost \cup {ppn}
             ELSE lost \ {ppn}
  /\ UNCHANGED <<peak, panicked>>

\* panic("this page has not been alloced")
kfreeTwice(ppn) ==
  /\ panicked = "no"
  /\ ~NotYetAllocated(memory_allocator, ppn)
  /\ AlreadyRecycled(memory_allocator, ppn)
  /\ panicked' = "not alloced"
  /\ UNCHANGED <<memory_allocator, held, lost, peak>>

Next ==
  \/ kalloc
  \/ kallocFull
  \/ \E ppn \in Frames : kfree(ppn) \/ kfreeTwice(ppn)

Spec == Init /\ [][Next]_vars

-----------------------------------------------------------------------------
(***************************************************************************)
(* Properties.                                                             *)
(***************************************************************************)

Recycled == Entries(memory_allocator.recycled)

\* The allocator keeps its shape: the frontier stays within the pool, the
\* stack within its capacity, and its entries are frames of the pool.
TypeOK ==
  /\ memory_allocator = [current  |-> memory_allocator.current,
                         recycled |-> memory_allocator.recycled]
  /\ memory_allocator.current \in Start..End
  /\ IsStack(memory_allocator.recycled)
  /\ held \subseteq Frames
  /\ lost \subseteq Frames
  /\ peak \in 0..(End - Start)
  /\ panicked \in {"no", "memory is full", "not alloced"}

\* Every frame behind the frontier is in exactly one place: held by one
\* caller, on the recycle stack, or lost.  StackFrameAllocator_alloc then
\* never hands out a frame that somebody holds, and nothing leaks except
\* through a push on a full stack.
Partition ==
  /\ held \cup Recycled \cup lost = Start..(memory_allocator.current - 1)
  /\ held \cap Recycled = {}
  /\ held \cap lost = {}
  /\ Recycled \cap lost = {}

\* No frame is on the recycle stack twice, whatever callers give back: the
\* scan in StackFrameAllocator_dealloc catches every second free.
NoDuplicates == IsDuplicateFree(memory_allocator.recycled)

\* The frontier moves only when nothing is recycled: memory once touched is
\* reused, so the number of frames behind the frontier is exactly the largest
\* number that were ever held or lost at one time.
FrontierTight == memory_allocator.current - Start = peak

\* A frame is lost only by a kernel that has had more than MAX_SIZE frames
\* behind its frontier: smaller workloads never meet the silent overflow.
LostOnlyPastCapacity ==
  lost # {} => memory_allocator.current - Start > MAX_SIZE

\* The allocator implements the pool: free frames are those on the stack and
\* those beyond the frontier.
Pool == INSTANCE FramePool WITH
  Capacity <- MAX_SIZE,
  free <- Recycled \cup memory_allocator.current..(End - 1),
  inuse <- held,
  dropped <- lost,
  stopped <- panicked

\* kalloc and kfree keep the promise of FramePool: kalloc panics only when no
\* frame is free, hands out a frame that nobody holds, and a double free of a
\* remembered frame stops the kernel.
ImplementsPool == Pool!Spec
=============================================================================
