------------------------ MODULE FrameAllocatorProofs ------------------------
(***************************************************************************)
(* Proofs about FrameAllocator for every pool and every capacity of the    *)
(* recycle stack.  The inductive invariant is IInv: the frames behind the  *)
(* frontier are partitioned among callers, stack and losses; that the      *)
(* stack has no duplicates is what makes pop remove the frame for good.    *)
(***************************************************************************)
EXTENDS FrameAllocator, FiniteSetTheorems, TLAPS

USE FrameBounds, StackBound

-----------------------------------------------------------------------------
(***************************************************************************)
(* The recycle stack.                                                      *)
(***************************************************************************)

\* initStack makes an empty stack.
LEMMA InitStackFacts ==
  /\ IsStack(initStack)
  /\ IsDuplicateFree(initStack)
  /\ Entries(initStack) = {}
PROOF
  <1>1. initStack.top = -1 /\ initStack.data = [i \in 0..-1 |-> 0]
    BY DEF initStack
  <1>2. 0..-1 = {}
    OBVIOUS
  <1> QED
    BY <1>1, <1>2 DEF IsStack, IsDuplicateFree, Entries, initStack

\* push on a stack that is not full adds the value and keeps the stack free
\* of duplicates when the value is new.
LEMMA PushFacts ==
  ASSUME NEW stack, IsStack(stack), ~isFull(stack), NEW value \in Frames
  PROVE  /\ IsStack(push(stack, value))
         /\ Entries(push(stack, value)) = Entries(stack) \cup {value}
         /\ IsDuplicateFree(stack) /\ value \notin Entries(stack)
              => IsDuplicateFree(push(stack, value))
PROOF
  <1> DEFINE t == stack.top + 1
             s == pushUnchecked(stack, value)
  <1>1. stack.top \in -1..(MAX_SIZE - 2) /\ t \in 0..(MAX_SIZE - 1)
    BY DEF IsStack, isFull
  <1>2. push(stack, value) = s
    BY DEF push
  <1>3. /\ s = [data |-> s.data, top |-> s.top]
        /\ s.top = t
        /\ s.data = [i \in 0..t |-> IF i = t THEN value ELSE stack.data[i]]
    BY DEF pushUnchecked
  <1>4. 0..t = 0..stack.top \cup {t} /\ t \notin 0..stack.top
    BY <1>1
  <1>5. /\ \A i \in 0..stack.top : s.data[i] = stack.data[i]
        /\ s.data[t] = value
    BY <1>3, <1>4
  <1>6. IsStack(s)
    <2>1. \A i \in 0..t : s.data[i] \in Frames
      BY <1>4, <1>5 DEF IsStack
    <2> QED
      BY <1>1, <1>3, <2>1 DEF IsStack
  <1>7. Entries(s) = Entries(stack) \cup {value}
    BY <1>3, <1>4, <1>5 DEF Entries
  <1>8. ASSUME IsDuplicateFree(stack), value \notin Entries(stack)
        PROVE  IsDuplicateFree(s)
    BY <1>3, <1>4, <1>5, <1>8 DEF IsDuplicateFree, Entries
  <1> QED
    BY <1>2, <1>6, <1>7, <1>8

\* pop on a stack without duplicates returns an entry and removes it.
LEMMA PopFacts ==
  ASSUME NEW stack, IsStack(stack), IsDuplicateFree(stack), stack.top >= 0
  PROVE  LET popped == pop(stack)
         IN  /\ popped.value \in Entries(stack)
             /\ IsStack(popped.stack)
             /\ IsDuplicateFree(popped.stack)
             /\ Entries(popped.stack) = Entries(stack) \ {popped.value}
PROOF
  <1> DEFINE t == stack.top
             v == pop(stack).value
             s == pop(stack).stack
  <1>1. t \in 0..(MAX_SIZE - 1) /\ ~isEmpty(stack)
    BY DEF IsStack, isEmpty
  <1>2. /\ v = stack.data[t]
        /\ s = [data |-> s.data, top |-> s.top]
        /\ s.top = t - 1
        /\ s.data = [i \in 0..(t - 1) |-> stack.data[i]]
    BY <1>1, Zenon DEF pop
  <1>3. 0..t = 0..(t - 1) \cup {t} /\ t \notin 0..(t - 1)
    BY <1>1
  <1>4. IsStack(s)
    BY <1>1, <1>2, <1>3 DEF IsStack
  <1>5. IsDuplicateFree(s)
    BY <1>2, <1>3 DEF IsDuplicateFree
  <1>6. v \in Entries(stack)
    BY <1>2, <1>3 DEF Entries
  <1>7. Entries(s) = Entries(stack) \ {v}
    BY <1>2, <1>3 DEF Entries, IsDuplicateFree
  <1> QED
    BY <1>4, <1>5, <1>6, <1>7

\* A full stack without duplicates holds MAX_SIZE different frames.
LEMMA FullStackFacts ==
  ASSUME NEW stack, IsStack(stack), IsDuplicateFree(stack), isFull(stack)
  PROVE  IsFiniteSet(Entries(stack)) /\ Cardinality(Entries(stack)) = MAX_SIZE
PROOF
  <1> DEFINE D == 0..(MAX_SIZE - 1)
  <1>1. stack.top = MAX_SIZE - 1
    BY DEF isFull
  <1>2. IsFiniteSet(D) /\ Cardinality(D) = MAX_SIZE
    BY FS_Interval
  <1>3. stack.data \in [D -> Entries(stack)]
    BY <1>1 DEF IsStack, Entries
  <1>4. stack.data \in Bijection(D, Entries(stack))
    BY <1>1, <1>3 DEF Bijection, Injection, Surjection, IsInjective, IsDuplicateFree, Entries
  <1>5. ExistsBijection(D, Entries(stack))
    BY <1>4 DEF ExistsBijection
  <1> QED
    BY <1>2, <1>5, FS_Bijection

-----------------------------------------------------------------------------
(***************************************************************************)
(* The inductive invariant and its preservation.                           *)
(***************************************************************************)
IInv == TypeOK /\ Partition /\ NoDuplicates /\ FrontierTight

\* The pool starts with everything beyond the frontier.
LEMMA InitIInv == Init => IInv
PROOF
  <1> SUFFICES ASSUME Init PROVE IInv
    OBVIOUS
  <1> USE DEF Init
  <1>1. /\ memory_allocator.current = Start
        /\ memory_allocator.recycled = initStack
        /\ memory_allocator = [current |-> Start, recycled |-> initStack]
    BY DEF StackFrameAllocator_new
  <1>2. Recycled = {}
    BY <1>1, InitStackFacts DEF Recycled
  <1>3. Start..(Start - 1) = {}
    OBVIOUS
  <1>4. TypeOK
    <2>1. memory_allocator = [current  |-> memory_allocator.current,
                              recycled |-> memory_allocator.recycled]
      BY <1>1
    <2>2. memory_allocator.current \in Start..End /\ IsStack(memory_allocator.recycled)
      BY <1>1, InitStackFacts
    <2>3. held \subseteq Frames /\ lost \subseteq Frames /\ panicked \in {"no", "memory is full", "not alloced"}
      OBVIOUS
    <2>4. peak \in 0..(End - Start)
      OBVIOUS
    <2> QED
      BY <2>1, <2>2, <2>3, <2>4 DEF TypeOK
  <1>5. Partition
    BY <1>1, <1>2, <1>3 DEF Partition
  <1>6. NoDuplicates /\ FrontierTight
    BY <1>1, InitStackFacts DEF NoDuplicates, FrontierTight
  <1> QED
    BY <1>4, <1>5, <1>6 DEF IInv

free == Recycled \cup memory_allocator.current..(End - 1)

\* kalloc takes a frame from the stack, or moves the frontier when the stack
\* is empty; either way it is a frame that nobody holds.
LEMMA KallocFacts ==
  ASSUME IInv, kalloc
  PROVE  /\ IInv'
         /\ \E f \in Frames : f \in free /\ free' = free \ {f} /\ held' = held \cup {f}
PROOF
  <1> DEFINE a == memory_allocator
             r == StackFrameAllocator_alloc(a)
             n == a.current - Start
  <1> USE DEF IInv, kalloc
  <1>1. a' = r.a /\ held' = held \cup {r.ppn} /\ lost' = lost /\ panicked' = panicked
    OBVIOUS
  <1>2. /\ a = [current |-> a.current, recycled |-> a.recycled]
        /\ a.current \in Start..End
        /\ IsStack(a.recycled) /\ IsDuplicateFree(a.recycled)
        /\ Recycled = Entries(a.recycled)
    BY DEF TypeOK, NoDuplicates, Recycled
  <1>3. IsFiniteSet(Start..(a.current - 1)) /\ Cardinality(Start..(a.current - 1)) = n
    <2> DEFINE last == a.current - 1
    <2>1. /\ Start \in Int /\ last \in Int
          /\ (IF Start > last THEN 0 ELSE last - Start + 1) = n
      BY <1>2, FrameBounds
    <2> HIDE DEF last, n
    <2>2. IsFiniteSet(Start..last) /\ Cardinality(Start..last) = n
      BY <2>1, FS_Interval
    <2> QED
      BY <2>2 DEF last
  <1>4. CASE a.recycled.top >= 0
    <2> DEFINE popped == pop(a.recycled)
    <2>1. /\ r.ppn = popped.value
          /\ a'.current = a.current
          /\ a'.recycled = popped.stack
          /\ a' = [current |-> a'.current, recycled |-> a'.recycled]
      BY <1>1, <1>2, <1>4 DEF StackFrameAllocator_alloc
    <2>2. /\ r.ppn \in Recycled
          /\ IsStack(a'.recycled) /\ IsDuplicateFree(a'.recycled)
          /\ Recycled' = Recycled \ {r.ppn}
      BY <1>2, <1>4, <2>1, PopFacts DEF Recycled
    <2>3. r.ppn \in Frames
      BY <1>2, <2>2 DEF Partition, Frames
    <2>4. Partition'
      BY <1>1, <2>1, <2>2 DEF Partition
    <2>5. peak' = n
      <3>1. held \cup lost \cup {r.ppn} \in SUBSET (Start..(a.current - 1))
        BY <2>2 DEF Partition
      <3>2. /\ Cardinality(held \cup lost \cup {r.ppn}) <= n
            /\ Cardinality(held \cup lost \cup {r.ppn}) \in Nat
        BY <1>3, <3>1, FS_Subset, FS_CardinalityType, Zenon
      <3> QED
        BY <1>2, <3>2 DEF FrontierTight
    <2>6. TypeOK'
      BY <1>1, <1>2, <2>1, <2>2, <2>3, <2>5 DEF TypeOK, Frames
    <2>7. r.ppn \in free /\ free' = free \ {r.ppn}
      <3>1. r.ppn \notin a.current..(End - 1)
        BY <1>2, <2>2 DEF Partition
      <3> QED
        BY <2>1, <2>2, <3>1 DEF free
    <2> QED
      BY <1>1, <2>1, <2>2, <2>3, <2>4, <2>5, <2>6, <2>7 DEF NoDuplicates, FrontierTight
  <1>5. CASE ~(a.recycled.top >= 0)
    <2>1. /\ r.ppn = a.current
          /\ a'.current = a.current + 1
          /\ a'.recycled = a.recycled
          /\ a' = [current |-> a'.current, recycled |-> a'.recycled]
      BY <1>1, <1>2, <1>5 DEF StackFrameAllocator_alloc
    <2>2. a.recycled.top < 0
      BY <1>2, <1>5 DEF IsStack
    <2>3. a.current \in Frames
      BY <1>2, <2>2 DEF IsExhausted, Frames
    <2>4. Recycled = {} /\ Recycled' = {}
      BY <1>2, <2>1, <2>2 DEF Entries, IsStack, Recycled
    <2>5. Start..(a'.current - 1) = Start..(a.current - 1) \cup {a.current}
      BY <1>2, <2>1
    <2>6. a.current \notin Start..(a.current - 1)
      BY <1>2
    <2>7. Partition'
      BY <1>1, <2>1, <2>4, <2>5, <2>6 DEF Partition
    <2>8. peak' = n + 1
      <3>1. held \cup lost \cup {r.ppn} = Start..(a.current - 1) \cup {a.current}
        BY <2>1, <2>4 DEF Partition
      <3>2. Cardinality(Start..(a.current - 1) \cup {a.current}) = n + 1
        <4> HIDE DEF IInv, kalloc
        <4> QED BY <1>3, <2>6, FS_AddElement, Zenon
      <3>3. Cardinality(held \cup lost \cup {r.ppn}) = n + 1
        BY <3>1, <3>2, Zenon
      <3>4. peak = n /\ n \in Int
        BY <1>2 DEF FrontierTight
      <3> QED
        BY <3>3, <3>4
    <2>9. TypeOK'
      BY <1>1, <1>2, <2>1, <2>3, <2>8 DEF TypeOK, Frames
    <2>10. r.ppn \in free /\ free' = free \ {r.ppn}
      <3>1. a.current..(End - 1) = a'.current..(End - 1) \cup {a.current}
        BY <1>2, <2>1, <2>3 DEF Frames
      <3>2. a.current \notin a'.current..(End - 1)
        BY <1>2, <2>1
      <3> QED
        BY <2>1, <2>4, <3>1, <3>2 DEF free
    <2> QED
      BY <1>1, <1>2, <2>1, <2>3, <2>7, <2>8, <2>9, <2>10 DEF NoDuplicates, FrontierTight
  <1> QED
    BY <1>4, <1>5

\* kfree pushes the frame, loses it to a full stack, or refuses it.
LEMMA KfreeFacts ==
  ASSUME IInv, NEW ppn \in Frames, kfree(ppn)
  PROVE  IInv'
PROOF
  <1> DEFINE a == memory_allocator
  <1> USE DEF IInv, kfree
  <1>1. /\ a' = StackFrameAllocator_dealloc(a, ppn)
        /\ held' = held \ {ppn}
        /\ peak' = peak /\ panicked' = panicked
    OBVIOUS
  <1>2. /\ a = [current |-> a.current, recycled |-> a.recycled]
        /\ a.current \in Start..End
        /\ IsStack(a.recycled) /\ IsDuplicateFree(a.recycled)
        /\ Recycled = Entries(a.recycled)
        /\ ppn \in Int
    BY DEF TypeOK, NoDuplicates, Recycled, Frames
  <1>3. CASE NotYetAllocated(a, ppn)
    <2>1. a' = a /\ lost' = lost
      BY <1>1, <1>3 DEF StackFrameAllocator_dealloc
    <2>2. ppn \notin held
      BY <1>2, <1>3 DEF NotYetAllocated, Partition
    <2>3. held' = held
      BY <1>1, <2>2
    <2> QED
      BY <1>1, <2>1, <2>3
      DEF TypeOK, Partition, NoDuplicates, FrontierTight, Recycled
  <1>4. CASE ~NotYetAllocated(a, ppn)
    <2>1. a' = [a EXCEPT !.recycled = push(a.recycled, ppn)]
      BY <1>1, <1>4 DEF StackFrameAllocator_dealloc
    <2>2. /\ a'.current = a.current
          /\ a'.recycled = push(a.recycled, ppn)
          /\ a' = [current |-> a'.current, recycled |-> a'.recycled]
      BY <1>2, <2>1
    <2>3. ppn \in Start..(a.current - 1)
      BY <1>2, <1>4 DEF NotYetAllocated, Frames
    <2>4. ppn \notin Recycled
      BY <1>2, <1>4 DEF AlreadyRecycled, Entries
    <2>5. CASE isFull(a.recycled)
      <3>1. a'.recycled = a.recycled /\ Recycled' = Recycled
        BY <2>2, <2>5 DEF push, Recycled
      <3>2. lost' = lost \cup {ppn}
        BY <1>4, <2>5
      <3>3. Partition'
        BY <1>1, <2>2, <2>3, <2>4, <3>1, <3>2 DEF Partition
      <3> QED
        BY <1>1, <1>2, <2>2, <3>1, <3>2, <3>3
        DEF TypeOK, NoDuplicates, FrontierTight
    <2>6. CASE ~isFull(a.recycled)
      <3>1. /\ IsStack(a'.recycled) /\ IsDuplicateFree(a'.recycled)
            /\ Recycled' = Recycled \cup {ppn}
        BY <1>2, <2>2, <2>4, <2>6, PushFacts DEF Recycled
      <3>2. lost' = lost \ {ppn}
        BY <1>4, <2>6
      <3>3. Partition'
        BY <1>1, <2>2, <2>3, <2>4, <3>1, <3>2 DEF Partition
      <3> QED
        BY <1>1, <1>2, <2>2, <3>1, <3>2, <3>3
        DEF TypeOK, NoDuplicates, FrontierTight
    <2> QED
      BY <2>5, <2>6
  <1> QED
    BY <1>3, <1>4

\* Every step of the allocator keeps the invariant.
LEMMA NextIInv == IInv /\ [Next]_vars => IInv'
PROOF
  <1> SUFFICES ASSUME IInv, [Next]_vars PROVE IInv'
    OBVIOUS
  <1>1. CASE kalloc
    BY <1>1, KallocFacts
  <1>2. CASE kallocFull
    BY <1>2, Zenon DEF kallocFull, IInv, TypeOK, Partition, NoDuplicates, FrontierTight, Recycled
  <1>3. ASSUME NEW ppn \in Frames, kfree(ppn)
        PROVE  IInv'
    BY <1>3, KfreeFacts
  <1>4. ASSUME NEW ppn \in Frames, kfreeTwice(ppn)
        PROVE  IInv'
    BY <1>4, Zenon DEF kfreeTwice, IInv, TypeOK, Partition, NoDuplicates, FrontierTight, Recycled
  <1>5. CASE UNCHANGED vars
    BY <1>5, Zenon DEF vars, IInv, TypeOK, Partition, NoDuplicates, FrontierTight, Recycled
  <1> QED
    BY <1>1, <1>2, <1>3, <1>4, <1>5 DEF Next

\* For every pool and every stack capacity: a frame behind the frontier is
\* held by one caller, recycled once or lost; the recycle stack has no
\* duplicates; and the frontier is as low as the demand allows.
THEOREM AllocatorInvariant == Spec => []IInv
PROOF
  <1> QED
    BY InitIInv, NextIInv, PTL DEF Spec

\* kalloc and kfree keep the allocator within its bounds: the frontier in the
\* pool and the stack index within the array of stack.h.
THEOREM AllocatorTypeOK == Spec => []TypeOK
PROOF
  <1>1. IInv => TypeOK
    BY DEF IInv
  <1> QED
    BY <1>1, AllocatorInvariant, PTL

\* kalloc never hands out a frame that somebody holds, and a frame behind the
\* frontier is held, recycled or lost, for every sequence of calls.
THEOREM FramesPartitioned == Spec => []Partition
PROOF
  <1>1. IInv => Partition
    BY DEF IInv
  <1> QED
    BY <1>1, AllocatorInvariant, PTL

\* A frame is on the recycle stack once at most: the scan of
\* StackFrameAllocator_dealloc is enough to keep duplicates out.
THEOREM RecycledOnce == Spec => []NoDuplicates
PROOF
  <1>1. IInv => NoDuplicates
    BY DEF IInv
  <1> QED
    BY <1>1, AllocatorInvariant, PTL

\* StackFrameAllocator_alloc moves the frontier only when nothing is recycled,
\* so the frontier records the peak demand exactly.
THEOREM FrontierIsPeak == Spec => []FrontierTight
PROOF
  <1>1. IInv => FrontierTight
    BY DEF IInv
  <1> QED
    BY <1>1, AllocatorInvariant, PTL

-----------------------------------------------------------------------------
(***************************************************************************)
(* The frames that a full stack forgets.                                   *)
(***************************************************************************)

\* A kernel whose frontier has not passed MAX_SIZE frames loses none: when
\* the stack is full and a caller gives back one more frame, MAX_SIZE + 1
\* different frames lie behind the frontier.
THEOREM NothingLostBelowCapacity == Spec => []LostOnlyPastCapacity
PROOF
  <1>1. Init => LostOnlyPastCapacity
    BY DEF Init, LostOnlyPastCapacity
  <1>2. ASSUME IInv, IInv', LostOnlyPastCapacity, [Next]_vars
        PROVE  LostOnlyPastCapacity'
    <2> DEFINE a == memory_allocator
    <2> USE DEF LostOnlyPastCapacity
    <2>1. /\ a = [current |-> a.current, recycled |-> a.recycled]
          /\ a.current \in Start..End /\ a'.current \in Start..End
          /\ IsStack(a.recycled) /\ IsDuplicateFree(a.recycled)
          /\ Recycled = Entries(a.recycled)
          /\ Recycled \subseteq Start..(a.current - 1)
      BY <1>2, Zenon DEF IInv, TypeOK, NoDuplicates, Recycled, Partition
    <2>2. CASE kalloc
      <3>1. lost' = lost /\ a' = StackFrameAllocator_alloc(a).a
        BY <2>2 DEF kalloc
      <3>2. a'.current >= a.current
        BY <2>1, <3>1 DEF StackFrameAllocator_alloc
      <3> QED
        BY <1>2, <2>1, <3>1, <3>2
    <2>3. CASE kallocFull
      BY <1>2, <2>3, Zenon DEF kallocFull
    <2>4. ASSUME NEW ppn \in Frames, kfree(ppn)
          PROVE  LostOnlyPastCapacity'
      <3>1. a' = StackFrameAllocator_dealloc(a, ppn) /\ ppn \in Int
        BY <2>4 DEF kfree, Frames
      <3>2. a'.current = a.current
        BY <2>1, <3>1 DEF StackFrameAllocator_dealloc
      <3>3. CASE NotYetAllocated(a, ppn)
        <4>1. lost' = lost
          BY <2>4, <3>3 DEF kfree
        <4> QED
          BY <1>2, <3>2, <4>1
      <3>4. CASE ~NotYetAllocated(a, ppn) /\ isFull(a.recycled)
        <4>1. IsFiniteSet(Recycled) /\ Cardinality(Recycled) = MAX_SIZE
          BY <2>1, <3>4, FullStackFacts
        <4>2. ppn \notin Recycled
          BY <2>1, <2>4, <3>4 DEF kfree, AlreadyRecycled, Entries
        <4>3. Cardinality(Recycled \cup {ppn}) = MAX_SIZE + 1
          BY <4>1, <4>2, FS_AddElement
        <4>4. ppn \in Start..(a.current - 1)
          BY <2>1, <3>1, <3>4 DEF NotYetAllocated, Frames
        <4>5. Recycled \cup {ppn} \in SUBSET (Start..(a.current - 1))
          BY <2>1, <4>4
        <4>6. /\ IsFiniteSet(Start..(a.current - 1))
              /\ Cardinality(Start..(a.current - 1)) = a.current - Start
          <5>1. Start \in Int /\ a.current \in Int /\ a.current >= Start
            BY <2>1
          <5> QED
            BY <5>1, FS_Interval
        <4>7. Cardinality(Recycled \cup {ppn}) <= a.current - Start
          BY <4>5, <4>6, FS_Subset, Zenon
        <4> QED
          BY <2>1, <3>2, <4>3, <4>7
      <3>5. CASE ~NotYetAllocated(a, ppn) /\ ~isFull(a.recycled)
        <4>1. lost' = lost \ {ppn}
          BY <2>4, <3>5 DEF kfree
        <4> QED
          BY <1>2, <3>2, <4>1
      <3> QED
        BY <3>3, <3>4, <3>5
    <2>5. ASSUME NEW ppn \in Frames, kfreeTwice(ppn)
          PROVE  LostOnlyPastCapacity'
      BY <1>2, <2>5, Zenon DEF kfreeTwice
    <2>6. CASE UNCHANGED vars
      BY <1>2, <2>6 DEF vars
    <2> QED
      BY <1>2, <2>2, <2>3, <2>4, <2>5, <2>6 DEF Next
  <1> QED
    BY <1>1, <1>2, AllocatorInvariant, PTL DEF Spec

-----------------------------------------------------------------------------
(***************************************************************************)
(* The allocator implements the pool of FramePool.                         *)
(***************************************************************************)

\* Every step of kalloc and kfree is a step of the pool or leaves it alone:
\* kalloc panics only when no frame is free and hands out a free frame, and
\* kfree takes back what was handed out, or forgets it only when MAX_SIZE
\* frames are free already.
THEOREM AllocatorImplementsPool == Spec => ImplementsPool
PROOF
  <1>1. Init => Pool!Init
    <2> SUFFICES ASSUME Init PROVE Pool!Init
      OBVIOUS
    <2>1. memory_allocator.current = Start /\ memory_allocator.recycled = initStack
      BY DEF Init, StackFrameAllocator_new
    <2>2. Recycled = {}
      BY <2>1, InitStackFacts DEF Recycled
    <2> QED
      BY <2>1, <2>2 DEF Init, Pool!Init, Frames
  <1>2. ASSUME IInv, IInv', [Next]_vars
        PROVE  [Pool!Next]_(Pool!vars)
    <2> DEFINE a == memory_allocator
    <2> USE DEF free
    <2>1. /\ a = [current |-> a.current, recycled |-> a.recycled]
          /\ a.current \in Start..End
          /\ IsStack(a.recycled) /\ IsDuplicateFree(a.recycled)
          /\ Recycled = Entries(a.recycled)
          /\ held \cup Recycled \cup lost = Start..(a.current - 1)
          /\ held \cap Recycled = {} /\ lost \cap Recycled = {} /\ held \cap lost = {}
      BY <1>2, Zenon DEF IInv, TypeOK, NoDuplicates, Recycled, Partition
    <2>2. CASE kalloc
      <3>1. PICK f \in Frames : f \in free /\ free' = free \ {f} /\ held' = held \cup {f}
        BY <1>2, <2>2, KallocFacts
      <3>2. Pool!Take(f)
        BY <2>2, <3>1 DEF kalloc, Pool!Take
      <3> QED
        BY <3>2 DEF Pool!Next
    <2>3. CASE kallocFull
      <3>1. a.recycled.top < 0 /\ a.current = End
        BY <2>3, Zenon DEF kallocFull, IsExhausted
      <3>2. free = {}
        <4>1. Recycled = {}
          <5>1. 0..a.recycled.top = {}
            BY <2>1, <3>1 DEF IsStack
          <5> QED
            BY <2>1, <5>1 DEF Entries
        <4>2. a.current..(End - 1) = {}
          BY <3>1, FrameBounds
        <4> QED
          BY <4>1, <4>2
      <3>3. UNCHANGED free
        BY <2>3, Zenon DEF kallocFull, Recycled
      <3> QED
        BY <2>3, <3>2, <3>3, Zenon DEF kallocFull, Pool!Next, Pool!Exhaust
    <2>4. ASSUME NEW ppn \in Frames, kfree(ppn)
          PROVE  [Pool!Next]_(Pool!vars)
      <3>1. /\ panicked = "no" /\ panicked' = panicked
            /\ a' = StackFrameAllocator_dealloc(a, ppn)
            /\ held' = held \ {ppn}
            /\ ppn \in Int
        BY <2>4 DEF kfree, Frames
      <3>2. CASE NotYetAllocated(a, ppn)
        <4>1. a' = a /\ lost' = lost
          BY <2>4, <3>1, <3>2 DEF kfree, StackFrameAllocator_dealloc
        <4>2. ppn \notin held
          BY <2>1, <3>1, <3>2 DEF NotYetAllocated
        <4> QED
          BY <3>1, <4>1, <4>2 DEF Pool!vars, Recycled
      <3>3. CASE ~NotYetAllocated(a, ppn)
        <4>1. ppn \notin Recycled
          BY <2>1, <2>4, <3>3 DEF kfree, AlreadyRecycled, Entries
        <4>2. ppn \in Start..(a.current - 1)
          BY <2>1, <3>1, <3>3 DEF NotYetAllocated, Frames
        <4>3. ppn \in held \cup lost
          BY <2>1, <4>1, <4>2
        <4>4. a'.current = a.current /\ a'.recycled = push(a.recycled, ppn)
          BY <2>1, <3>1, <3>3 DEF StackFrameAllocator_dealloc
        <4>5. CASE isFull(a.recycled)
          <5>1. lost' = lost \cup {ppn}
            BY <2>4, <3>3, <4>5 DEF kfree
          <5>2. free' = free
            BY <4>4, <4>5 DEF push, Recycled
          <5>3. CASE ppn \in held
            <6>1. PICK g \in [1..MAX_SIZE -> free] :
                    \A i, j \in 1..MAX_SIZE : g[i] = g[j] => i = j
              <7> DEFINE g == [i \in 1..MAX_SIZE |-> a.recycled.data[i - 1]]
              <7>1. \A i \in 1..MAX_SIZE : i - 1 \in 0..a.recycled.top
                BY <2>1, <4>5 DEF isFull, IsStack
              <7>2. g \in [1..MAX_SIZE -> free]
                BY <2>1, <7>1 DEF Entries
              <7>3. \A i, j \in 1..MAX_SIZE : g[i] = g[j] => i = j
                BY <2>1, <7>1 DEF IsDuplicateFree
              <7> QED
                BY <7>2, <7>3, Zenon
            <6>2. Pool!Drop(ppn)
              BY <3>1, <5>1, <5>2, <5>3, <6>1 DEF Pool!Drop, Pool!Remembers
            <6> QED
              BY <6>2 DEF Pool!Next
          <5>4. CASE ppn \in lost
            BY <2>1, <3>1, <5>1, <5>2, <5>4 DEF Pool!vars
          <5> QED
            BY <4>3, <5>3, <5>4
        <4>6. CASE ~isFull(a.recycled)
          <5>1. lost' = lost \ {ppn}
            BY <2>4, <3>3, <4>6 DEF kfree
          <5>2. Recycled' = Recycled \cup {ppn}
            BY <2>1, <4>4, <4>6, PushFacts DEF Recycled
          <5>3. free' = free \cup {ppn}
            BY <4>4, <5>2
          <5>4. Pool!Give(ppn)
            BY <3>1, <4>3, <5>1, <5>3 DEF Pool!Give
          <5> QED
            BY <5>4 DEF Pool!Next
        <4> QED
          BY <4>5, <4>6
      <3> QED
        BY <3>2, <3>3
    <2>5. ASSUME NEW ppn \in Frames, kfreeTwice(ppn)
          PROVE  [Pool!Next]_(Pool!vars)
      <3>1. ppn \in Recycled
        BY <2>1, <2>5, Zenon DEF kfreeTwice, AlreadyRecycled, Entries
      <3>2. Pool!GiveTwice(ppn)
        BY <2>5, <3>1, Zenon DEF kfreeTwice, Pool!GiveTwice, Recycled
      <3> QED
        BY <3>2 DEF Pool!Next
    <2>6. CASE UNCHANGED vars
      BY <2>6 DEF vars, Pool!vars, Recycled
    <2> QED
      BY <1>2, <2>2, <2>3, <2>4, <2>5, <2>6 DEF Next
  <1> QED
    BY <1>1, <1>2, AllocatorInvariant, PTL DEF Spec, ImplementsPool, Pool!Spec
=============================================================================
