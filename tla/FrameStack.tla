------------------------------ MODULE FrameStack ------------------------------
(***************************************************************************)
(* The data structure of the physical frame allocator: StackFrameAllocator *)
(* of os/src/address.c and the bounded stack of os/src/stack.c that holds  *)
(* recycled frames, as operators on the C structs.                         *)
(*                                                                         *)
(* A frame is a physical page number.  The allocator is the frontier       *)
(* current and the stack recycled; its field end is the constant End.      *)
(***************************************************************************)
EXTENDS Integers

CONSTANTS
  Start,       \* first free frame, ceil_phys(kernelend)
  End,         \* one past the last frame, ceil_phys(PHYSTOP)
  MAX_SIZE     \* capacity of the recycle stack (include/stack.h)

ASSUME FrameBounds == Start \in Nat /\ End \in Nat /\ Start <= End
ASSUME StackBound == MAX_SIZE \in Nat \ {0}

Frames == Start..(End - 1)

-----------------------------------------------------------------------------
(***************************************************************************)
(* stack.c.  data holds the live entries 0..top only.                      *)
(***************************************************************************)

initStack == [data |-> [i \in 0..-1 |-> 0], top |-> -1]

isEmpty(stack) == stack.top = -1

\* A plausible bug: the limit is off by one.
FullTooEarly(stack) == stack.top = MAX_SIZE - 2

isFull(stack) == stack.top = MAX_SIZE - 1

pushUnchecked(stack, value) ==
  [data |-> [i \in 0..(stack.top + 1) |->
               IF i = stack.top + 1 THEN value ELSE stack.data[i]],
   top  |-> stack.top + 1]

\* A push on a full stack prints "Stack overflow" and forgets the value.
push(stack, value) ==
  IF isFull(stack) THEN stack ELSE pushUnchecked(stack, value)

\* The value popped (-1 from an empty stack) and the stack left behind.
pop(stack) ==
  IF isEmpty(stack)
    THEN [value |-> -1, stack |-> stack]
    ELSE [value |-> stack.data[stack.top],
          stack |-> [data |-> [i \in 0..(stack.top - 1) |-> stack.data[i]],
                     top  |-> stack.top - 1]]

Entries(stack) == {stack.data[i] : i \in 0..stack.top}

IsStack(stack) ==
  /\ stack.top \in -1..(MAX_SIZE - 1)
  /\ stack = [data |-> stack.data, top |-> stack.top]
  /\ stack.data \in [0..stack.top -> Frames]

IsDuplicateFree(stack) ==
  \A i, j \in 0..stack.top : stack.data[i] = stack.data[j] => i = j

-----------------------------------------------------------------------------
(***************************************************************************)
(* StackFrameAllocator.  alloc returns the frame and the allocator left    *)
(* behind; "memory is full" is a result of its own.                        *)
(***************************************************************************)

StackFrameAllocator_new == [current |-> Start, recycled |-> initStack]

\* A plausible bug: recycled frames are not counted as memory.
FrontierAtEnd(a) == a.current = End

IsExhausted(a) == a.recycled.top < 0 /\ a.current = End

\* A plausible bug: the top of the stack is read but not popped.
PeekNotPop(a) ==
  IF a.recycled.top >= 0
    THEN [ppn |-> pop(a.recycled).value, a |-> a]
    ELSE [ppn |-> a.current, a |-> [a EXCEPT !.current = @ + 1]]

StackFrameAllocator_alloc(a) ==
  IF a.recycled.top >= 0
    THEN LET popped == pop(a.recycled)
         IN  [ppn |-> popped.value, a |-> [a EXCEPT !.recycled = popped.stack]]
    ELSE [ppn |-> a.current, a |-> [a EXCEPT !.current = @ + 1]]

NotYetAllocated(a, ppn) == ppn >= a.current

AlreadyRecycled(a, ppn) == \E i \in 0..a.recycled.top : a.recycled.data[i] = ppn

StackFrameAllocator_dealloc(a, ppn) ==
  IF NotYetAllocated(a, ppn) THEN a ELSE [a EXCEPT !.recycled = push(@, ppn)]
=============================================================================
