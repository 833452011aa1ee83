----------------------------- MODULE TasksProofs -----------------------------
(***************************************************************************)
(* Proofs about Tasks for every size of the task table.  IInv collects the *)
(* safety invariants: they need each other.  HartRunsLiveTask makes the    *)
(* task that makes a system call a live one; UniquePids makes slot 0 the   *)
(* one that cannot exit; so _top stays positive and __sys_yield is safe.   *)
(***************************************************************************)
EXTENDS Tasks, FiniteSetTheorems, TLAPS

USE TaskBound, PidBound

IInv ==
  /\ TypeOK
  /\ TopCountsRunnable
  /\ HartRunsLiveTask
  /\ ProcessTree
  /\ UniquePids
  /\ WaitsForChild

\* The table has finitely many slots, slot 0 among them.
LEMMA SlotFacts == IsFiniteSet(Slots) /\ 0 \in Slots /\ Slots \subseteq Nat /\ NULL \notin Slots
PROOF
  <1>1. IsFiniteSet(0..(MAX_TASK_NUM - 1))
    BY FS_Interval
  <1> QED
    BY <1>1 DEF Slots, NULL

\* The remainder by a positive number lies below it.
LEMMA ModFacts ==
  ASSUME NEW n \in Nat, NEW d \in Nat \ {0}
  PROVE  n % d \in 0..(d - 1)
PROOF
  OBVIOUS

\* Only the set of runnable slots decides what RunnableSlots is.
LEMMA RunnableSlotsFacts ==
  ASSUME TypeOK
  PROVE  IsFiniteSet(RunnableSlots) /\ Cardinality(RunnableSlots) \in Nat
PROOF
  <1>1. RunnableSlots \in SUBSET Slots
    BY DEF RunnableSlots
  <1> QED
    BY <1>1, SlotFacts, FS_Subset, FS_CardinalityType, Zenon

-----------------------------------------------------------------------------
(***************************************************************************)
(* __sys_yield.                                                            *)
(***************************************************************************)

\* With a positive modulus within the table, __sys_yield keeps the runnable
\* slots runnable and the others as they are, and leaves the hart with the
\* caller or with a runnable task, the only one that may be Running.
LEMMA YieldFacts ==
  ASSUME NEW ts \in [Slots -> TaskState], NEW tp \in 1..MAX_TASK_NUM,
         NEW continuation \in Continuation,
         current \in Slots, pc \in [Slots -> Continuation],
         \A s \in Slots : ts[s] = "Running" => s = current,
         sys_yield(ts, tp, continuation)
  PROVE  /\ task_state' \in [Slots -> TaskState]
         /\ \A s \in Slots : task_state'[s] \in Runnable <=> ts[s] \in Runnable
         /\ \A s \in Slots : ts[s] \notin Runnable => task_state'[s] = ts[s]
         /\ \A s \in Slots : task_state'[s] = "Running" => s = current'
         /\ current' \in Slots
         /\ ts[current'] \in Runnable \/ current' = current
         /\ panicked' = panicked
         /\ pc' = [pc EXCEPT ![current] = continuation]
         /\ pc' \in [Slots -> Continuation]
PROOF
  <1> DEFINE next == NextSlot(tp)
  <1>1. next \in Slots
    <2>1. current + 1 \in Nat /\ tp \in Nat \ {0}
      BY DEF Slots
    <2>2. next \in 0..(tp - 1)
      BY <2>1, ModFacts, Zenon DEF NextSlot
    <2> QED
      BY <2>2 DEF Slots
  <1>2. /\ panicked' = panicked
        /\ pc' = [pc EXCEPT ![current] = continuation]
        /\ pc' \in [Slots -> Continuation]
    <2>1. ~(tp <= 0)
      OBVIOUS
    <2>2. panicked' = panicked /\ pc' = [pc EXCEPT ![current] = continuation]
      BY <2>1 DEF sys_yield
    <2> QED
      BY <2>2
  <1> HIDE DEF next
  <1>3. CASE CanSwitch(ts, tp)
    <2>1. ts[next] \in Runnable
      BY <1>3 DEF CanSwitch, next
    <2>2. task_state' = SwitchTo(ts, next) /\ current' = next
      BY <1>3, Zenon DEF sys_yield, next
    <2>3. task_state' \in [Slots -> TaskState]
      BY <1>1, <2>2 DEF SwitchTo, TaskState
    <2>4. \A s \in Slots :
            task_state'[s] = IF s = current
                               THEN IF s = next \/ ts[s] = "Running" THEN "Ready" ELSE ts[s]
                             ELSE IF s = next THEN "Running" ELSE ts[s]
      BY <1>1, <2>2 DEF SwitchTo
    <2> QED
      BY <1>1, <1>2, <2>1, <2>2, <2>3, <2>4, Zenon DEF Runnable
  <1>4. CASE ~CanSwitch(ts, tp)
    <2>1. task_state' = ts /\ current' = current
      BY <1>4, Zenon DEF sys_yield
    <2> QED
      BY <1>2, <2>1
  <1> QED
    BY <1>3, <1>4

-----------------------------------------------------------------------------
(***************************************************************************)
(* Steps that leave the process table alone, and steps that only yield.    *)
(***************************************************************************)

\* A task that is about to make a system call, or is back in one, is live.
LEMMA CallerIsLive ==
  ASSUME IInv, NEW c \in Continuation \ {"exit"}, InKernel(c)
  PROVE  current \in Slots /\ task_state[current] \in Runnable
PROOF
  BY DEF IInv, TypeOK, HartRunsLiveTask, InKernel

\* The handlers that return to user mode without touching the table.
LEMMA QuietStep ==
  ASSUME IInv, UNCHANGED table, timer' \in {"off", "armed", "pending"},
         panicked' \in Panic \ {"no task is running"},
         \/ UNCHANGED pc
         \/ task_state[current] \in Runnable /\ pc' = [pc EXCEPT ![current] = "user"]
  PROVE  IInv'
PROOF
  <1> USE DEF IInv, table
  <1>1. /\ task_state' = task_state /\ pid' = pid /\ parent' = parent
        /\ current' = current /\ top' = top /\ next_pid' = next_pid
    BY Zenon
  <1>2. RunnableSlots' = RunnableSlots /\ \A s : Children(s)' = Children(s)
    BY <1>1, Zenon DEF RunnableSlots, Children
  <1>3. pc' \in [Slots -> Continuation]
    BY Zenon DEF TypeOK, Continuation
  <1>4. \A s \in Slots : pc'[s] = pc[s] \/ (s = current /\ pc'[s] = "user")
    BY Zenon DEF TypeOK
  <1>5. TypeOK'
    BY <1>1, <1>3, Zenon DEF TypeOK
  <1>6. TopCountsRunnable'
    BY <1>1, <1>2, Zenon DEF TopCountsRunnable
  <1>7. HartRunsLiveTask'
    BY <1>1, <1>4, Zenon DEF HartRunsLiveTask, TypeOK, Runnable
  <1>8. ProcessTree' /\ UniquePids'
    BY <1>1, <1>2, ZenonT(30) DEF ProcessTree, UniquePids
  <1>9. WaitsForChild'
    BY <1>2, <1>4, Zenon DEF WaitsForChild, RunnableSlots
  <1> QED
    BY <1>5, <1>6, <1>7, <1>8, <1>9, Zenon

\* The handlers whose only effect on the table is that of __sys_yield.
LEMMA YieldStep ==
  ASSUME IInv, NEW c \in Continuation \ {"exit"},
         task_state[current] \in Runnable,
         sys_yield(task_state, top, c),
         UNCHANGED <<pid, parent, top, next_pid, timer>>,
         c = "recycle" => Children(current) # {}
  PROVE  IInv'
PROOF
  <1> USE DEF IInv
  <1>1. /\ task_state' \in [Slots -> TaskState]
        /\ \A s \in Slots : task_state'[s] \in Runnable <=> task_state[s] \in Runnable
        /\ \A s \in Slots : task_state[s] \notin Runnable => task_state'[s] = task_state[s]
        /\ \A s \in Slots : task_state'[s] = "Running" => s = current'
        /\ current' \in Slots
        /\ task_state[current'] \in Runnable \/ current' = current
        /\ panicked' = panicked
        /\ pc' = [pc EXCEPT ![current] = c]
        /\ pc' \in [Slots -> Continuation]
    BY YieldFacts DEF TypeOK, HartRunsLiveTask
  <1>2. UNCHANGED <<pid, parent, top, next_pid, timer>>
    OBVIOUS
  <1>3. RunnableSlots' = RunnableSlots /\ \A s : Children(s)' = Children(s)
    BY <1>1, <1>2 DEF RunnableSlots, Children
  <1>4. \A s \in Slots : (task_state'[s] = "UnInit") <=> (task_state[s] = "UnInit")
    BY <1>1 DEF Runnable, TypeOK
  <1>5. TypeOK'
    BY <1>1, <1>2 DEF TypeOK
  <1>6. TopCountsRunnable'
    BY <1>1, <1>2, <1>3, Zenon DEF TopCountsRunnable
  <1>7. HartRunsLiveTask'
    BY <1>1 DEF HartRunsLiveTask
  <1>8. ProcessTree'
    BY <1>1, <1>2, <1>3, <1>4, SlotFacts DEF ProcessTree
  <1>9. UniquePids'
    BY <1>2, <1>4 DEF UniquePids
  <1>10. WaitsForChild'
    BY <1>1, <1>2, <1>3 DEF WaitsForChild, TypeOK, RunnableSlots
  <1> QED
    BY <1>5, <1>6, <1>7, <1>8, <1>9, <1>10

-----------------------------------------------------------------------------
(***************************************************************************)
(* fork, exit and recycle.                                                 *)
(***************************************************************************)

\* fork fills a free slot with a process that is younger than all others.
LEMMA SysForkStep ==
  ASSUME IInv, SysFork
  PROVE  IInv'
PROOF
  <1> USE DEF IInv
  <1>1. current \in Slots /\ task_state[current] \in Runnable
    BY CallerIsLive DEF SysFork, InUser, Continuation
  <1>2. PICK child \in Slots :
          /\ alloc_proc(child)
          /\ pid' = [pid EXCEPT ![child] = next_pid]
          /\ task_state' = [task_state EXCEPT ![child] = "Ready"]
          /\ parent' = [parent EXCEPT ![child] = current]
          /\ pc' = [pc EXCEPT ![child] = "user"]
    BY Zenon DEF SysFork, alloc_pid
  <1>3. /\ next_pid' = next_pid + 1 /\ top' = top + 1
        /\ current' = current /\ timer' = timer /\ panicked' = panicked
    BY DEF SysFork
  <1>4. task_state[child] = "UnInit" /\ child # current /\ child # 0
    BY <1>1, <1>2, SlotFacts DEF alloc_proc, FreeSlots, Runnable, ProcessTree
  <1>5. \A s \in Slots :
          /\ task_state'[s] = IF s = child THEN "Ready" ELSE task_state[s]
          /\ pid'[s] = IF s = child THEN next_pid ELSE pid[s]
          /\ parent'[s] = IF s = child THEN current ELSE parent[s]
          /\ pc'[s] = IF s = child THEN "user" ELSE pc[s]
    BY <1>2 DEF TypeOK
  <1>6. RunnableSlots' = RunnableSlots \cup {child} /\ child \notin RunnableSlots
    BY <1>4, <1>5 DEF RunnableSlots, Runnable
  <1>7. Cardinality(RunnableSlots') = top + 1
    <2>1. Cardinality(RunnableSlots \cup {child}) = Cardinality(RunnableSlots) + 1
      BY <1>6, RunnableSlotsFacts, FS_AddElement
    <2> QED
      BY <1>6, <2>1, Zenon DEF TopCountsRunnable
  <1>8. TypeOK'
    <2>1. top' \in 1..MAX_TASK_NUM
      <3>1. RunnableSlots \cup {child} \in SUBSET Slots
        BY DEF RunnableSlots
      <3>2. Cardinality(RunnableSlots \cup {child}) <= Cardinality(Slots)
        BY <3>1, SlotFacts, FS_Subset
      <3>3. Cardinality(Slots) = MAX_TASK_NUM
        BY FS_Interval DEF Slots
      <3> QED
        BY <1>3, <1>6, <1>7, <3>2, <3>3 DEF TypeOK
    <2>2. /\ task_state' \in [Slots -> TaskState] /\ pid' \in [Slots -> Nat]
          /\ parent' \in [Slots -> Slots \cup {NULL}] /\ pc' \in [Slots -> Continuation]
      BY <1>1, <1>2 DEF TypeOK, TaskState, Continuation
    <2> QED
      BY <1>3, <2>1, <2>2 DEF TypeOK
  <1>9. TopCountsRunnable'
    BY <1>3, <1>7, Zenon DEF TopCountsRunnable
  <1>10. HartRunsLiveTask'
    BY <1>1, <1>3, <1>4, <1>5 DEF HartRunsLiveTask
  <1>11. next_pid > 0 /\ pid[current] < next_pid
    BY <1>1, SlotFacts DEF UniquePids, TypeOK, ProcessTree, Runnable
  <1>12. ProcessTree'
    <2>1. task_state'[0] \in Runnable /\ parent'[0] = NULL
      BY <1>4, <1>5, SlotFacts DEF ProcessTree
    <2>2. \A s \in Slots \ {0} :
            IF task_state'[s] = "UnInit" THEN parent'[s] = NULL
            ELSE parent'[s] \in RunnableSlots' /\ pid'[parent'[s]] < pid'[s]
      <3> SUFFICES ASSUME NEW s \in Slots \ {0}
                   PROVE  IF task_state'[s] = "UnInit" THEN parent'[s] = NULL
                          ELSE parent'[s] \in RunnableSlots' /\ pid'[parent'[s]] < pid'[s]
        OBVIOUS
      <3>1. CASE s = child
        BY <1>1, <1>4, <1>5, <1>6, <1>11, <3>1 DEF RunnableSlots
      <3>2. CASE s # child
        BY <1>4, <1>5, <1>6, <3>2 DEF ProcessTree, RunnableSlots, Runnable
      <3> QED
        BY <3>1, <3>2
    <2> QED
      BY <2>1, <2>2 DEF ProcessTree
  <1>13. UniquePids'
    BY <1>3, <1>4, <1>5, <1>11 DEF UniquePids, TypeOK
  <1>14. WaitsForChild'
    <2>1. \A s \in RunnableSlots : Children(s) \subseteq Children(s)'
      BY <1>4, <1>5, SlotFacts, Zenon DEF Children, ProcessTree, RunnableSlots
    <2> QED
      BY <1>4, <1>5, <1>6, <2>1 DEF WaitsForChild, RunnableSlots
  <1> QED
    BY <1>8, <1>9, <1>10, <1>12, <1>13, <1>14

\* exit turns the caller, which is not slot 0, into a Zombie, and hands its
\* children to slot 0; __sys_yield then runs with a modulus of at least 1.
LEMMA ExitStep ==
  ASSUME IInv, SysExit
  PROVE  IInv'
PROOF
  <1> USE DEF IInv
  <1> DEFINE ts == [task_state EXCEPT ![current] = "Zombie"]
  <1>1. current \in Slots /\ task_state[current] \in Runnable
    BY CallerIsLive DEF SysExit, InUser, Continuation
  <1>2. /\ parent' = child_proc_mv(current) /\ top' = top - 1
        /\ sys_yield(ts, top - 1, "exit")
        /\ pid' = pid /\ next_pid' = next_pid /\ timer' = timer
    BY DEF SysExit
  <1>3. current # 0
    BY <1>1 DEF SysExit, UniquePids, Runnable
  <1>4. /\ ts \in [Slots -> TaskState]
        /\ \A s \in Slots : ts[s] = IF s = current THEN "Zombie" ELSE task_state[s]
    BY <1>1 DEF TypeOK, TaskState
  <1>5. Cardinality(RunnableSlots \ {current}) = top - 1
    <2>1. current \in RunnableSlots
      BY <1>1 DEF RunnableSlots
    <2>2. Cardinality(RunnableSlots \ {current}) = Cardinality(RunnableSlots) - 1
      BY <2>1, RunnableSlotsFacts, FS_RemoveElement
    <2> QED
      BY <2>2, Zenon DEF TopCountsRunnable
  <1>6. top - 1 \in 1..MAX_TASK_NUM
    <2>1. {0} \in SUBSET (RunnableSlots \ {current})
      BY <1>3, SlotFacts DEF ProcessTree, RunnableSlots
    <2>2. IsFiniteSet(RunnableSlots \ {current})
      BY RunnableSlotsFacts, FS_RemoveElement
    <2>3. 1 <= Cardinality(RunnableSlots \ {current})
      <3>1. Cardinality({0}) = 1
        BY FS_Singleton
      <3>2. Cardinality({0}) <= Cardinality(RunnableSlots \ {current})
        BY <2>1, <2>2, FS_Subset
      <3> QED
        BY <3>1, <3>2
    <2> QED
      BY <1>5, <2>3 DEF TypeOK
  <1>7. \A s \in Slots : ts[s] = "Running" => s = current
    BY <1>4 DEF HartRunsLiveTask
  <1> HIDE DEF ts
  <1>8. /\ task_state' \in [Slots -> TaskState]
        /\ \A s \in Slots : task_state'[s] \in Runnable <=> ts[s] \in Runnable
        /\ \A s \in Slots : ts[s] \notin Runnable => task_state'[s] = ts[s]
        /\ \A s \in Slots : task_state'[s] = "Running" => s = current'
        /\ current' \in Slots
        /\ ts[current'] \in Runnable \/ current' = current
        /\ panicked' = panicked
        /\ pc' = [pc EXCEPT ![current] = "exit"]
        /\ pc' \in [Slots -> Continuation]
    <2>1. "exit" \in Continuation
      BY DEF Continuation
    <2>2. pc \in [Slots -> Continuation]
      BY DEF TypeOK
    <2> QED
      BY <1>1, <1>2, <1>4, <1>6, <1>7, <2>1, <2>2, YieldFacts
  <1>9. RunnableSlots' = RunnableSlots \ {current}
    BY <1>4, <1>8 DEF RunnableSlots, Runnable
  <1>10. \A s \in Slots : parent'[s] = IF parent[s] = current THEN 0 ELSE parent[s]
    BY <1>2 DEF child_proc_mv
  <1>11. \A s \in Slots : (task_state'[s] = "UnInit") <=> (task_state[s] = "UnInit")
    BY <1>1, <1>4, <1>8 DEF Runnable
  <1>12. TypeOK'
    <2>1. parent' \in [Slots -> Slots \cup {NULL}]
      BY <1>2, SlotFacts DEF child_proc_mv, TypeOK
    <2> QED
      BY <1>2, <1>6, <1>8, <2>1, Zenon DEF TypeOK
  <1>13. TopCountsRunnable'
    BY <1>2, <1>5, <1>8, <1>9, Zenon DEF TopCountsRunnable
  <1>14. HartRunsLiveTask'
    <2>1. CASE ts[current'] \in Runnable
      BY <1>8, <2>1 DEF HartRunsLiveTask
    <2>2. CASE current' = current
      <3>1. ts[current] = "Zombie" /\ pc'[current] = "exit"
        BY <1>1, <1>4, <1>8 DEF TypeOK
      <3>2. task_state'[current] = "Zombie"
        BY <1>1, <1>8, <3>1 DEF Runnable
      <3> QED
        BY <1>8, <2>2, <3>1, <3>2 DEF HartRunsLiveTask
    <2> QED
      BY <1>8, <2>1, <2>2
  <1>15. ProcessTree'
    <2>1. task_state'[0] \in Runnable /\ parent'[0] = NULL /\ 0 \in RunnableSlots'
      BY <1>1, <1>3, <1>4, <1>8, <1>10, SlotFacts DEF ProcessTree, RunnableSlots
    <2>2. ASSUME NEW s \in Slots \ {0}
          PROVE  IF task_state'[s] = "UnInit" THEN parent'[s] = NULL
                 ELSE parent'[s] \in RunnableSlots' /\ pid'[parent'[s]] < pid'[s]
      <3>1. CASE task_state[s] = "UnInit"
        BY <1>1, <1>10, <1>11, <3>1, SlotFacts DEF ProcessTree
      <3>2. CASE task_state[s] # "UnInit" /\ parent[s] = current
        <4>1. pid[0] = 0 /\ pid[s] # 0 /\ pid[s] \in Nat
          BY <3>2, SlotFacts DEF UniquePids, TypeOK, ProcessTree, Runnable
        <4> QED
          BY <1>2, <1>10, <1>11, <2>1, <3>2, <4>1
      <3>3. CASE task_state[s] # "UnInit" /\ parent[s] # current
        BY <1>2, <1>9, <1>10, <1>11, <3>3 DEF ProcessTree
      <3> QED
        BY <3>1, <3>2, <3>3
    <2> QED
      BY <2>1, <2>2 DEF ProcessTree
  <1>16. UniquePids'
    BY <1>2, <1>11 DEF UniquePids
  <1>17. WaitsForChild'
    <2>1. \A s \in RunnableSlots' : Children(s) \subseteq Children(s)'
      BY <1>9, <1>10 DEF Children
    <2> QED
      BY <1>1, <1>8, <1>9, <2>1 DEF WaitsForChild, RunnableSlots, TypeOK
  <1> QED
    BY <1>12, <1>13, <1>14, <1>15, <1>16, <1>17

\* recycle frees a Zombie child of the caller, which is nobody's parent.
LEMMA ReapStep ==
  ASSUME IInv, RecycleReap
  PROVE  IInv'
PROOF
  <1> USE DEF IInv
  <1>1. current \in Slots /\ task_state[current] \in Runnable
    BY CallerIsLive DEF RecycleReap, Scans, InUser, Continuation
  <1>2. PICK child \in ZombiesOf(current) :
          /\ task_state' = [task_state EXCEPT ![child] = "UnInit"]
          /\ parent' = [parent EXCEPT ![child] = NULL]
    BY Zenon DEF RecycleReap
  <1>3. /\ pc' = [pc EXCEPT ![current] = "user"]
        /\ pid' = pid /\ current' = current /\ top' = top
        /\ next_pid' = next_pid /\ timer' = timer /\ panicked' = panicked
    BY DEF RecycleReap
  <1>4. /\ child \in Slots /\ parent[child] = current
        /\ task_state[child] = "Zombie" /\ child # 0 /\ child # current
    BY <1>1, SlotFacts DEF ZombiesOf, Children, ProcessTree, Runnable
  <1>5. \A s \in Slots :
          /\ task_state'[s] = IF s = child THEN "UnInit" ELSE task_state[s]
          /\ parent'[s] = IF s = child THEN NULL ELSE parent[s]
          /\ pc'[s] = IF s = current THEN "user" ELSE pc[s]
    BY <1>2, <1>3 DEF TypeOK
  <1>6. RunnableSlots' = RunnableSlots
    BY <1>4, <1>5 DEF RunnableSlots, Runnable
  <1>7. TypeOK'
    BY <1>1, <1>2, <1>3, <1>4 DEF TypeOK, TaskState, Continuation
  <1>8. TopCountsRunnable'
    BY <1>3, <1>6, Zenon DEF TopCountsRunnable
  <1>9. HartRunsLiveTask'
    BY <1>1, <1>3, <1>4, <1>5 DEF HartRunsLiveTask
  <1>10. ProcessTree'
    BY <1>3, <1>4, <1>5, <1>6, SlotFacts DEF ProcessTree, Runnable
  <1>11. UniquePids'
    BY <1>3, <1>5 DEF UniquePids
  <1>12. WaitsForChild'
    <2>1. \A s \in Slots \ {current} : Children(s) \subseteq Children(s)'
      BY <1>4, <1>5 DEF Children
    <2> QED
      BY <1>5, <1>6, <2>1 DEF WaitsForChild, RunnableSlots
  <1> QED
    BY <1>7, <1>8, <1>9, <1>10, <1>11, <1>12

-----------------------------------------------------------------------------
(***************************************************************************)
(* The invariant, and the properties it gives.                             *)
(***************************************************************************)

\* After boot slot 0 is the only process.
LEMMA InitIInv == Init => IInv
PROOF
  <1> SUFFICES ASSUME Init PROVE IInv
    OBVIOUS
  <1> USE DEF Init
  <1>1. \A s \in Slots : /\ task_state[s] = IF s = 0 THEN "Running" ELSE "UnInit"
                         /\ pid[s] = 0 /\ parent[s] = NULL /\ pc[s] = "user"
    OBVIOUS
  <1>2. RunnableSlots = {0}
    BY <1>1, SlotFacts DEF RunnableSlots, Runnable
  <1>3. TypeOK
    BY SlotFacts DEF TypeOK, TaskState, Continuation, Panic
  <1>4. TopCountsRunnable
    <2>1. Cardinality({0}) = 1
      BY FS_Singleton, Zenon
    <2> QED
      BY <1>2, <2>1 DEF TopCountsRunnable
  <1>5. HartRunsLiveTask /\ ProcessTree /\ UniquePids /\ WaitsForChild
    BY <1>1, SlotFacts
    DEF HartRunsLiveTask, ProcessTree, UniquePids, WaitsForChild, Runnable, RunnableSlots
  <1> QED
    BY <1>3, <1>4, <1>5 DEF IInv

\* Every step of the kernel keeps the invariant: one case per handler.
LEMMA NextIInv == IInv /\ [Next]_vars => IInv'
PROOF
  <1> SUFFICES ASSUME IInv, [Next]_vars PROVE IInv'
    OBVIOUS
  <1> DEFINE Timers == {"off", "armed", "pending"}
  <1>0. /\ timer \in Timers /\ panicked \in Panic \ {"no task is running"}
        /\ {"user fault", "init exiting", "Zombie exit failed"}
             \subseteq Panic \ {"no task is running"}
    BY Zenon DEF IInv, TypeOK, TopCountsRunnable, Panic
  <1>1. CASE Tick
    BY <1>0, <1>1, QuietStep, Zenon DEF Tick
  <1>2. CASE TimerTrap
    <2>1. task_state[current] \in Runnable
      BY <1>2, CallerIsLive DEF TimerTrap, Continuation
    <2> QED
      BY <1>2, <2>1, YieldStep DEF TimerTrap, Continuation
  <1>3. CASE TimerReturn
    <2>1. task_state[current] \in Runnable
      BY <1>3, CallerIsLive DEF TimerReturn, Continuation
    <2> QED
      BY <1>0, <1>3, <2>1, QuietStep, Zenon DEF TimerReturn, set_next_trigger
  <1>4. CASE YieldReturn
    <2>1. task_state[current] \in Runnable
      BY <1>4, CallerIsLive DEF YieldReturn, Continuation
    <2> QED
      BY <1>0, <1>4, <2>1, QuietStep, Zenon DEF YieldReturn
  <1>5. CASE ExitReturn
    BY <1>0, <1>5, QuietStep, Zenon DEF ExitReturn
  <1>6. CASE SysSetTrigger
    BY <1>0, <1>6, QuietStep, Zenon DEF SysSetTrigger, set_next_trigger
  <1>7. CASE SysYield
    <2>1. task_state[current] \in Runnable
      BY <1>7, CallerIsLive DEF SysYield, InUser, Continuation
    <2> QED
      BY <1>7, <2>1, YieldStep DEF SysYield, Continuation
  <1>8. CASE SysFork
    BY <1>8, SysForkStep
  <1>9. CASE SysExit
    BY <1>9, ExitStep
  <1>10. CASE SysExitInit
    BY <1>0, <1>10, QuietStep, Zenon DEF SysExitInit
  <1>11. CASE UserFault
    BY <1>0, <1>11, QuietStep, Zenon DEF UserFault
  <1>12. CASE GetcharDone
    <2>1. task_state[current] \in Runnable
      BY <1>12, CallerIsLive DEF GetcharDone, PollsConsole, InUser, Continuation
    <2> QED
      BY <1>0, <1>12, <2>1, QuietStep, Zenon DEF GetcharDone
  <1>13. CASE GetcharWait
    <2>1. task_state[current] \in Runnable
      BY <1>13, CallerIsLive DEF GetcharWait, PollsConsole, InUser, Continuation
    <2> QED
      BY <1>13, <2>1, YieldStep DEF GetcharWait, Continuation
  <1>14. CASE RecycleReap
    BY <1>14, ReapStep
  <1>15. CASE RecycleWait
    <2>1. task_state[current] \in Runnable /\ current \in Slots
      BY <1>15, CallerIsLive DEF RecycleWait, Scans, InUser, Continuation
    <2>2. Children(current) # {}
      BY <1>15, <2>1 DEF RecycleWait, InKernel, IInv, WaitsForChild, RunnableSlots
    <2> QED
      BY <1>15, <2>1, <2>2, YieldStep DEF RecycleWait, Continuation
  <1>16. CASE SysForkFull \/ RecycleNoChild \/ UNCHANGED vars
    <2>1. UNCHANGED vars
      BY <1>16 DEF SysForkFull, RecycleNoChild
    <2> QED
      BY <1>0, <2>1, QuietStep, Zenon DEF vars, table
  <1> QED
    BY <1>1, <1>2, <1>3, <1>4, <1>5, <1>6, <1>7, <1>8, <1>9, <1>10, <1>11,
       <1>12, <1>13, <1>14, <1>15, <1>16
    DEF Next, Syscall

\* For every size of the task table and any sequence of traps and calls:
\* the safety invariants of the process table hold together.
THEOREM TasksInvariant == Spec => []IInv
PROOF
  <1> QED
    BY InitIInv, NextIInv, PTL DEF Spec

\* The process table and the scheduler variables keep their types.
THEOREM TasksTypeOK == Spec => []TypeOK
PROOF
  <1>1. IInv => TypeOK
    BY DEF IInv
  <1> QED
    BY <1>1, TasksInvariant, PTL

\* _top is the number of runnable tasks and __sys_yield never divides by 0.
THEOREM TopIsExact == Spec => []TopCountsRunnable
PROOF
  <1>1. IInv => TopCountsRunnable
    BY DEF IInv
  <1> QED
    BY <1>1, TasksInvariant, PTL

\* __switch only ever resumes a live task.
THEOREM HartIsSafe == Spec => []HartRunsLiveTask
PROOF
  <1>1. IInv => HartRunsLiveTask
    BY DEF IInv
  <1> QED
    BY <1>1, TasksInvariant, PTL

\* The processes form a tree of live parents rooted in slot 0.
THEOREM TreeIsKept == Spec => []ProcessTree
PROOF
  <1>1. IInv => ProcessTree
    BY DEF IInv
  <1> QED
    BY <1>1, TasksInvariant, PTL

\* No two processes share a pid.
THEOREM PidsAreUnique == Spec => []UniquePids
PROOF
  <1>1. IInv => UniquePids
    BY DEF IInv
  <1> QED
    BY <1>1, TasksInvariant, PTL

\* A process never waits in recycle without a child.
THEOREM WaitersHaveChildren == Spec => []WaitsForChild
PROOF
  <1>1. IInv => WaitsForChild
    BY DEF IInv
  <1> QED
    BY <1>1, TasksInvariant, PTL

-----------------------------------------------------------------------------
(***************************************************************************)
(* The life of a slot.                                                     *)
(***************************************************************************)

\* A yield moves slots between Ready and Running only.
LEMMA YieldLifecycle ==
  ASSUME IInv, NEW c \in Continuation, sys_yield(task_state, top, c)
  PROVE  LifecycleStep
PROOF
  <1>1. \A s \in Slots :
          /\ task_state'[s] \in Runnable <=> task_state[s] \in Runnable
          /\ task_state[s] \notin Runnable => task_state'[s] = task_state[s]
    BY YieldFacts DEF IInv, TypeOK, HartRunsLiveTask
  <1> QED
    BY <1>1 DEF LifecycleStep, Runnable

\* An exit makes a Zombie of the caller and of nobody else.
LEMMA ExitLifecycle ==
  ASSUME IInv, SysExit
  PROVE  LifecycleStep
PROOF
  <1> DEFINE ts == [task_state EXCEPT ![current] = "Zombie"]
  <1>1. current \in Slots /\ task_state[current] \in Runnable
    BY CallerIsLive DEF SysExit, InUser, Continuation
  <1>2. top - 1 \in 1..MAX_TASK_NUM
    <2>1. top' = top - 1 /\ IInv'
      BY ExitStep DEF SysExit
    <2> QED
      BY <2>1 DEF IInv, TypeOK
  <1>3. /\ ts \in [Slots -> TaskState]
        /\ \A s \in Slots : ts[s] = IF s = current THEN "Zombie" ELSE task_state[s]
        /\ \A s \in Slots : ts[s] = "Running" => s = current
        /\ pc \in [Slots -> Continuation]
        /\ "exit" \in Continuation
    BY <1>1 DEF IInv, TypeOK, TaskState, HartRunsLiveTask, Continuation
  <1>4. sys_yield(ts, top - 1, "exit")
    BY DEF SysExit
  <1> HIDE DEF ts
  <1>5. \A s \in Slots :
          /\ task_state'[s] \in Runnable <=> ts[s] \in Runnable
          /\ ts[s] \notin Runnable => task_state'[s] = ts[s]
    BY <1>1, <1>2, <1>3, <1>4, YieldFacts
  <1> QED
    BY <1>1, <1>3, <1>5 DEF LifecycleStep, Runnable

\* A slot becomes a Zombie only by the exit of its own process, is freed only
\* by its parent's recycle, and is filled only by a fork that makes the
\* forking process its parent.
THEOREM LifecycleHolds == Spec => Lifecycle
PROOF
  <1>1. ASSUME IInv, Next
        PROVE  LifecycleStep
    <2>1. CASE TimerTrap \/ SysYield \/ GetcharWait \/ RecycleWait
      BY <1>1, <2>1, YieldLifecycle
      DEF TimerTrap, SysYield, GetcharWait, RecycleWait, Continuation
    <2>2. CASE SysExit
      BY <1>1, <2>2, ExitLifecycle
    <2>3. CASE SysFork
      <3>1. PICK child \in Slots :
              /\ task_state[child] = "UnInit"
              /\ task_state' = [task_state EXCEPT ![child] = "Ready"]
              /\ parent' = [parent EXCEPT ![child] = current]
        BY <2>3, Zenon DEF SysFork, alloc_proc, FreeSlots
      <3> QED
        BY <1>1, <3>1 DEF LifecycleStep, IInv, TypeOK
    <2>4. CASE RecycleReap
      <3>1. PICK child \in ZombiesOf(current) :
              task_state' = [task_state EXCEPT ![child] = "UnInit"]
        BY <2>4, Zenon DEF RecycleReap
      <3> QED
        BY <1>1, <3>1 DEF LifecycleStep, IInv, TypeOK, ZombiesOf, Children
    <2>5. CASE \/ Tick \/ TimerReturn \/ YieldReturn \/ ExitReturn \/ SysSetTrigger
               \/ SysForkFull \/ SysExitInit \/ UserFault \/ GetcharDone \/ RecycleNoChild
      <3>1. task_state' = task_state
        BY <2>5, Zenon DEF Tick, TimerReturn, YieldReturn, ExitReturn, SysSetTrigger, SysForkFull,
                    SysExitInit, UserFault, GetcharDone, RecycleNoChild, table, vars
      <3> QED
        BY <3>1 DEF LifecycleStep
    <2> QED
      BY <1>1, <2>1, <2>2, <2>3, <2>4, <2>5 DEF Next, Syscall
  <1>2. IInv /\ [Next]_vars => [LifecycleStep]_vars
    BY <1>1
  <1> QED
    BY <1>2, TasksInvariant, PTL DEF Spec, Lifecycle

-----------------------------------------------------------------------------
(***************************************************************************)
(* Round robin without exits.                                              *)
(***************************************************************************)
PrefixInv ==
  /\ IInv
  /\ RunnableBelowTop
  /\ \A s \in Slots : task_state[s] # "Zombie"

\* While no process exits, the runnable tasks are those in the slots below
\* _top: fork takes the first free slot, which is slot _top, so the modulus
\* of __sys_yield reaches every runnable task.
THEOREM PrefixHolds == FairSpecNoExit => []RunnableBelowTop
PROOF
  <1>1. Init => PrefixInv
    <2> SUFFICES ASSUME Init PROVE PrefixInv
      OBVIOUS
    <2>1. RunnableSlots = {0}
      BY SlotFacts DEF Init, RunnableSlots, Runnable
    <2> QED
      BY <2>1, InitIInv DEF PrefixInv, RunnableBelowTop, Init
  <1>2. PrefixInv /\ [NextNoExit]_vars => PrefixInv'
    <2> SUFFICES ASSUME PrefixInv, [NextNoExit]_vars PROVE PrefixInv'
      OBVIOUS
    <2>1. [Next]_vars
      BY DEF NextNoExit, Next, Syscall
    <2>2. IInv /\ IInv'
      BY <2>1, NextIInv DEF PrefixInv
    <2>3. CASE TimerTrap \/ SysYield \/ GetcharWait \/ RecycleWait
      <3>1. PICK c \in Continuation : sys_yield(task_state, top, c) /\ top' = top
        BY <2>3 DEF TimerTrap, SysYield, GetcharWait, RecycleWait, Continuation
      <3>2. \A s \in Slots :
              /\ task_state'[s] \in Runnable <=> task_state[s] \in Runnable
              /\ task_state[s] \notin Runnable => task_state'[s] = task_state[s]
        BY <2>2, <3>1, YieldFacts DEF IInv, TypeOK, HartRunsLiveTask
      <3>3. RunnableSlots' = RunnableSlots
        BY <3>2 DEF RunnableSlots
      <3> QED
        BY <2>2, <3>1, <3>2, <3>3 DEF PrefixInv, RunnableBelowTop, Runnable
    <2>4. CASE SysFork
      <3>1. PICK child \in Slots :
              /\ alloc_proc(child)
              /\ task_state' = [task_state EXCEPT ![child] = "Ready"]
        BY <2>4, Zenon DEF SysFork
      <3>2. top' = top + 1 /\ top \in 1..MAX_TASK_NUM
        BY <2>2, <2>4 DEF SysFork, IInv, TypeOK
      <3>3. child = top
        <4>1. task_state[child] = "UnInit" /\ \A t \in FreeSlots : child <= t
          BY <3>1 DEF alloc_proc, FreeSlots
        <4>2. child \notin 0..(top - 1)
          BY <4>1 DEF PrefixInv, RunnableBelowTop, RunnableSlots, Runnable
        <4>3. top \in Slots /\ child >= top
          BY <3>2, <4>2 DEF Slots
        <4>4. top \notin RunnableSlots
          BY <3>2 DEF PrefixInv, RunnableBelowTop
        <4>5. task_state[top] = "UnInit"
          BY <2>2, <4>3, <4>4 DEF PrefixInv, RunnableSlots, Runnable, IInv, TypeOK, TaskState
        <4>6. child <= top
          BY <4>1, <4>3, <4>5 DEF FreeSlots
        <4> QED
          BY <3>2, <4>3, <4>6 DEF Slots
      <3>4. \A s \in Slots : task_state'[s] = IF s = child THEN "Ready" ELSE task_state[s]
        BY <2>2, <3>1 DEF IInv, TypeOK
      <3>5. RunnableSlots' = RunnableSlots \cup {top}
        BY <3>1, <3>3, <3>4 DEF RunnableSlots, Runnable
      <3>6. 0..(top' - 1) = 0..(top - 1) \cup {top}
        BY <3>2
      <3> QED
        BY <2>2, <3>4, <3>5, <3>6 DEF PrefixInv, RunnableBelowTop
    <2>5. CASE UNCHANGED <<task_state, top>>
      BY <2>2, <2>5 DEF PrefixInv, RunnableBelowTop, RunnableSlots
    <2>6. ASSUME \/ Tick \/ TimerReturn \/ YieldReturn \/ SysSetTrigger \/ SysForkFull
                 \/ UserFault \/ SysExitInit \/ GetcharDone \/ RecycleNoChild
                 \/ UNCHANGED vars
          PROVE  UNCHANGED <<task_state, top>>
      BY <2>6, Zenon DEF Tick, TimerReturn, YieldReturn, SysSetTrigger, SysForkFull, UserFault,
                  SysExitInit, GetcharDone, RecycleNoChild, table, vars
    <2> QED
      BY <2>3, <2>4, <2>5, <2>6 DEF NextNoExit
  <1>3. PrefixInv => RunnableBelowTop
    BY DEF PrefixInv
  <1> QED
    BY <1>1, <1>2, <1>3, PTL DEF FairSpecNoExit
=============================================================================
