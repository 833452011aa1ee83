-------------------------------- MODULE Tasks --------------------------------
(***************************************************************************)
(* Processes of the kernel: the task table, the round-robin __sys_yield,   *)
(* the timer interrupt and the system calls fork, exit, recycle, yield,    *)
(* getchar and set_trigger (os/src/task.c, os/src/trap.c, os/src/timer.c). *)
(*                                                                         *)
(* One hart runs the kernel, and the kernel runs with interrupts off, so   *)
(* kernel code is atomic between two calls of __switch.  An action is the  *)
(* code that runs from a trap, or from the return of __switch, to the next *)
(* __switch or return to user mode.  pc[s] is where the context saved for  *)
(* slot s continues: in user mode, or after the __sys_yield of a handler.  *)
(* What a process does in user mode is unconstrained: it may make any call *)
(* at any time.  Memory is modelled elsewhere.                             *)
(***************************************************************************)
EXTENDS Integers, FiniteSets

CONSTANTS
  MAX_TASK_NUM,   \* size of the task table (include/task.h)
  MaxPid          \* bound: fork is explored while next_pid <= MaxPid

ASSUME TaskBound == MAX_TASK_NUM \in Nat \ {0}
ASSUME PidBound == MaxPid \in Nat

VARIABLES
  task_state,     \* tasks[s].task_state
  pid,            \* tasks[s].pid
  parent,         \* tasks[s].parent, a slot or NULL
  current,        \* _current
  top,            \* _top
  next_pid,       \* next_pid
  pc,             \* where slot s continues when it is switched to
  timer,          \* "off", "armed", or "pending": the interrupt is raised
  panicked        \* "no", or the panic() in which the kernel spins

vars == <<task_state, pid, parent, current, top, next_pid, pc, timer, panicked>>

Slots == 0..(MAX_TASK_NUM - 1)
NULL == -1
TaskState == {"UnInit", "Ready", "Running", "Zombie"}
Runnable == {"Ready", "Running"}
Continuation == {"user", "timer", "yield", "getchar", "recycle", "exit"}
Panic == {"no", "no task is running", "init exiting", "Zombie exit failed",
          "user fault"}

-----------------------------------------------------------------------------
(***************************************************************************)
(* os_main: procinit, load_app(0) and app_init(0) set up slot 0 with pid   *)
(* 0, start_task switches to it.  No timer is set before a process asks.   *)
(***************************************************************************)
Init ==
  /\ task_state = [s \in Slots |-> IF s = 0 THEN "Running" ELSE "UnInit"]
  /\ pid = [s \in Slots |-> 0]
  /\ parent = [s \in Slots |-> NULL]
  /\ current = 0
  /\ top = 1
  /\ next_pid = 1
  /\ pc = [s \in Slots |-> "user"]
  /\ timer = "off"
  /\ panicked = "no"

-----------------------------------------------------------------------------
(***************************************************************************)
(* __sys_yield, on the task table ts and with tp runnable tasks.  The slot *)
(* after the current one, modulo tp, is the only candidate; if it cannot   *)
(* run, the call returns to its caller at once.                            *)
(***************************************************************************)
\* A plausible bug: the candidate is the current task itself.
SameSlot(tp) == current % tp

NextSlot(tp) == (current + 1) % tp

CanSwitch(ts, tp) == tp > 0 /\ ts[NextSlot(tp)] \in Runnable

\* A plausible bug: the task switched away from keeps its state.
KeepCurrentState(ts, next) == [ts EXCEPT ![next] = "Running"]

\* The candidate becomes Running first; the current task is then made Ready
\* unless it is a Zombie, which also holds when the two are the same.
SwitchTo(ts, next) ==
  [ts EXCEPT ![next] = "Running",
             ![current] = IF @ = "Running" THEN "Ready" ELSE @]

\* A plausible bug: the test of _top is off by one.
YieldNeedsTwo(ts, tp, continuation) ==
  /\ task_state' = IF CanSwitch(ts, tp) THEN SwitchTo(ts, NextSlot(tp)) ELSE ts
  /\ current' = IF CanSwitch(ts, tp) THEN NextSlot(tp) ELSE current
  /\ panicked' = IF tp <= 1 THEN "no task is running" ELSE panicked
  /\ pc' = [pc EXCEPT ![current] = continuation]

sys_yield(ts, tp, continuation) ==
  /\ task_state' = IF CanSwitch(ts, tp) THEN SwitchTo(ts, NextSlot(tp)) ELSE ts
  /\ current' = IF CanSwitch(ts, tp) THEN NextSlot(tp) ELSE current
  /\ panicked' = IF tp <= 0 THEN "no task is running" ELSE panicked
  /\ pc' = [pc EXCEPT ![current] = continuation]

-----------------------------------------------------------------------------
(***************************************************************************)
(* Traps.  A raised timer interrupt is taken before the next instruction   *)
(* in user mode; set_next_trigger lowers it, and the handler calls that    *)
(* only after its __sys_yield has returned.                                *)
(***************************************************************************)
InKernel(continuation) == panicked = "no" /\ pc[current] = continuation
InUser == InKernel("user") /\ timer # "pending"

table == <<task_state, pid, parent, current, top, next_pid>>

\* mtime reaches the deadline set by set_next_trigger.
Tick ==
  /\ panicked = "no"
  /\ timer = "armed"
  /\ timer' = "pending"
  /\ UNCHANGED <<table, pc, panicked>>

TimerTrap ==
  /\ InKernel("user")
  /\ timer = "pending"
  /\ sys_yield(task_state, top, "timer")
  /\ UNCHANGED <<pid, parent, top, next_pid, timer>>

set_next_trigger == timer' = "armed"

\* A plausible bug: the handler does not set the timer again.
TimerReturnForgets ==
  /\ InKernel("timer")
  /\ pc' = [pc EXCEPT ![current] = "user"]
  /\ UNCHANGED <<table, panicked, timer>>

TimerReturn ==
  /\ InKernel("timer")
  /\ set_next_trigger
  /\ pc' = [pc EXCEPT ![current] = "user"]
  /\ UNCHANGED <<table, panicked>>

SysSetTrigger ==
  /\ InUser
  /\ set_next_trigger
  /\ UNCHANGED <<table, pc, panicked>>

SysYield ==
  /\ InUser
  /\ sys_yield(task_state, top, "yield")
  /\ UNCHANGED <<pid, parent, top, next_pid, timer>>

YieldReturn ==
  /\ InKernel("yield")
  /\ pc' = [pc EXCEPT ![current] = "user"]
  /\ UNCHANGED <<table, timer, panicked>>

\* An exception other than ecall, an unknown system call number and an exec
\* of an unknown program all end in panic().
UserFault ==
  /\ InUser
  /\ panicked' = "user fault"
  /\ UNCHANGED <<table, pc, timer>>

\* __sys_getchar polls the console and yields until it has a character.
PollsConsole == InUser \/ InKernel("getchar")

GetcharDone ==
  /\ PollsConsole
  /\ pc' = [pc EXCEPT ![current] = "user"]
  /\ UNCHANGED <<table, timer, panicked>>

GetcharWait ==
  /\ PollsConsole
  /\ sys_yield(task_state, top, "getchar")
  /\ UNCHANGED <<pid, parent, top, next_pid, timer>>

-----------------------------------------------------------------------------
(***************************************************************************)
(* fork                                                                    *)
(***************************************************************************)
FreeSlots == {s \in Slots : task_state[s] = "UnInit"}

\* A plausible bug: the scan runs from the end of the table.
LastFreeSlot(s) == s \in FreeSlots /\ \A t \in FreeSlots : t <= s

\* The scan of alloc_proc stops at the first UnInit slot.
alloc_proc(s) == s \in FreeSlots /\ \A t \in FreeSlots : s <= t

\* A plausible bug: alloc_pid hands out the number of runnable tasks.
ReusePid == top

alloc_pid == next_pid

\* The child starts in trap_return, so it continues in user mode.
SysFork ==
  /\ InUser
  /\ next_pid <= MaxPid
  /\ \E child \in Slots :
       /\ alloc_proc(child)
       /\ pid' = [pid EXCEPT ![child] = alloc_pid]
       /\ task_state' = [task_state EXCEPT ![child] = "Ready"]
       /\ parent' = [parent EXCEPT ![child] = current]
       /\ pc' = [pc EXCEPT ![child] = "user"]
  /\ next_pid' = next_pid + 1
  /\ top' = top + 1
  /\ UNCHANGED <<current, timer, panicked>>

\* alloc_proc returned NULL and fork returns -1.
SysForkFull ==
  /\ InUser
  /\ FreeSlots = {}
  /\ UNCHANGED vars

-----------------------------------------------------------------------------
(***************************************************************************)
(* exit                                                                    *)
(***************************************************************************)

\* A plausible bug: the children of an exiting process stay where they are.
KeepChildren(p) == parent

child_proc_mv(p) == [s \in Slots |-> IF parent[s] = p THEN 0 ELSE parent[s]]

\* panic("error:init exiting")
SysExitInit ==
  /\ InUser
  /\ pid[current] = 0
  /\ panicked' = "init exiting"
  /\ UNCHANGED <<table, pc, timer>>

\* A plausible bug: _top is not decremented.
ExitKeepsTop ==
  /\ InUser
  /\ pid[current] # 0
  /\ parent' = child_proc_mv(current)
  /\ sys_yield([task_state EXCEPT ![current] = "Zombie"], top, "exit")
  /\ UNCHANGED <<pid, next_pid, timer, top>>

SysExit ==
  /\ InUser
  /\ pid[current] # 0
  /\ parent' = child_proc_mv(current)
  /\ top' = top - 1
  /\ sys_yield([task_state EXCEPT ![current] = "Zombie"], top - 1, "exit")
  /\ UNCHANGED <<pid, next_pid, timer>>

\* __sys_yield returned to the Zombie: panic("Zombie exit failed").
ExitReturn ==
  /\ InKernel("exit")
  /\ panicked' = "Zombie exit failed"
  /\ UNCHANGED <<table, pc, timer>>

-----------------------------------------------------------------------------
(***************************************************************************)
(* recycle.  The loop scans the table for a child that is a Zombie.  The   *)
(* local havechild is never reset: it is true in every scan after a wait.  *)
(***************************************************************************)
Children(p) == {s \in Slots : parent[s] = p}

\* A plausible bug: recycle does not ask whose child the Zombie is.
AnyZombie(p) == {s \in Slots : task_state[s] = "Zombie"}

ZombiesOf(p) == {s \in Children(p) : task_state[s] = "Zombie"}

Scans == InUser \/ InKernel("recycle")

RecycleReap ==
  /\ Scans
  /\ \E child \in ZombiesOf(current) :
       /\ \A other \in ZombiesOf(current) : child <= other
       /\ task_state' = [task_state EXCEPT ![child] = "UnInit"]
       /\ parent' = [parent EXCEPT ![child] = NULL]
  /\ pc' = [pc EXCEPT ![current] = "user"]
  /\ UNCHANGED <<pid, current, top, next_pid, timer, panicked>>

RecycleNoChild ==
  /\ InUser
  /\ Children(current) = {}
  /\ UNCHANGED vars

\* A plausible bug: the caller waits whether or not it has a child.
WaitAnyway ==
  /\ Scans
  /\ ZombiesOf(current) = {}
  /\ sys_yield(task_state, top, "recycle")
  /\ UNCHANGED <<pid, parent, top, next_pid, timer>>

RecycleWait ==
  /\ Scans
  /\ ZombiesOf(current) = {}
  /\ InKernel("recycle") \/ Children(current) # {}
  /\ sys_yield(task_state, top, "recycle")
  /\ UNCHANGED <<pid, parent, top, next_pid, timer>>

-----------------------------------------------------------------------------
Syscall ==
  \/ SysSetTrigger \/ SysYield \/ SysFork \/ SysForkFull
  \/ SysExit \/ SysExitInit \/ UserFault
  \/ GetcharDone \/ GetcharWait
  \/ RecycleReap \/ RecycleNoChild \/ RecycleWait

Next == Tick \/ TimerTrap \/ TimerReturn \/ YieldReturn \/ ExitReturn \/ Syscall

Spec == Init /\ [][Next]_vars

\* The hart keeps executing kernel code once it is there, and time passes.
KernelFairness ==
  /\ WF_vars(Tick)
  /\ WF_vars(TimerTrap)
  /\ WF_vars(TimerReturn \/ YieldReturn \/ ExitReturn)
  /\ WF_vars(InKernel("getchar") /\ (GetcharDone \/ GetcharWait))
  /\ WF_vars(InKernel("recycle") /\ (RecycleReap \/ RecycleWait))

FairSpec == Spec /\ KernelFairness

\* The workload in which no process ever exits, and one that has set the
\* timer leaves it alone: set_trigger called over and over puts the deadline
\* off for ever.
NextNoExit ==
  \/ Tick \/ TimerTrap \/ TimerReturn \/ YieldReturn
  \/ timer = "off" /\ SysSetTrigger
  \/ SysYield \/ SysFork \/ SysForkFull \/ UserFault \/ SysExitInit
  \/ GetcharDone \/ GetcharWait \/ RecycleNoChild \/ RecycleWait

FairSpecNoExit == Init /\ [][NextNoExit]_vars /\ KernelFairness

-----------------------------------------------------------------------------
(***************************************************************************)
(* Properties.                                                             *)
(***************************************************************************)

\* The task table and the scheduler's variables keep their types.
TypeOK ==
  /\ task_state \in [Slots -> TaskState]
  /\ pid \in [Slots -> Nat]
  /\ parent \in [Slots -> Slots \cup {NULL}]
  /\ current \in Slots
  /\ top \in 1..MAX_TASK_NUM
  /\ next_pid \in Nat
  /\ pc \in [Slots -> Continuation]
  /\ timer \in {"off", "armed", "pending"}
  /\ panicked \in Panic

RunnableSlots == {s \in Slots : task_state[s] \in Runnable}

\* _top counts the runnable tasks: fork and exit keep the modulus used by
\* __sys_yield in step with the table, Zombies not included, and it can
\* never reach the panic for _top <= 0.
TopCountsRunnable ==
  /\ top = Cardinality(RunnableSlots)
  /\ panicked # "no task is running"

\* At most the task on the hart is Running, and the hart runs a live task, or
\* a Zombie on its way from exit into a panic.  A switch therefore never
\* resumes a context that has exited or was never set up.
HartRunsLiveTask ==
  /\ \A s \in Slots : task_state[s] = "Running" => s = current
  /\ \/ task_state[current] \in Runnable
     \/ task_state[current] = "Zombie" /\ pc[current] = "exit"

\* Every process but the first has a live parent that is older than it, so
\* the processes form a tree rooted in slot 0 and every Zombie has a process
\* that can recycle it: exit hands its children to slot 0, which never exits.
ProcessTree ==
  /\ task_state[0] \in Runnable /\ parent[0] = NULL
  /\ \A s \in Slots \ {0} :
       IF task_state[s] = "UnInit" THEN parent[s] = NULL
       ELSE /\ parent[s] \in RunnableSlots
            /\ pid[parent[s]] < pid[s]

\* Two processes never share a pid, pid 0 belongs to slot 0 alone, and
\* alloc_pid is ahead of every pid in use, across any reuse of slots.
UniquePids ==
  \A s, t \in Slots :
    task_state[s] # "UnInit" =>
      /\ pid[s] < next_pid
      /\ task_state[t] # "UnInit" /\ pid[s] = pid[t] => s = t
      /\ (pid[s] = 0) <=> (s = 0)

\* A process that waits in recycle has a child for as long as it waits: the
\* stale havechild of __sys_recycle never makes it wait for nobody.
WaitsForChild ==
  \A s \in RunnableSlots : pc[s] = "recycle" => Children(s) # {}

LifecycleStep ==
  \A s \in Slots : task_state[s] # task_state'[s] =>
    \/ task_state[s] = "UnInit" /\ task_state'[s] = "Ready" /\ parent'[s] = current
    \/ {task_state[s], task_state'[s]} = Runnable
    \/ task_state[s] \in Runnable /\ task_state'[s] = "Zombie" /\ s = current
    \/ task_state[s] = "Zombie" /\ task_state'[s] = "UnInit" /\ parent[s] = current

\* The life of a slot: UnInit, Ready or Running, Zombie, UnInit.  A process
\* becomes a Zombie only by its own exit and is freed only by its parent.
Lifecycle == [][LifecycleStep]_vars

\* Round robin: while no process exits, every runnable task gets the hart
\* again and again once some process has set the timer.
EveryTaskRuns ==
  \A s \in Slots :
    task_state[s] \in Runnable /\ timer # "off"
      ~> current = s \/ panicked # "no"

\* The runnable tasks occupy the slots below _top, which is what __sys_yield
\* takes for granted.  It holds while no process exits.
RunnableBelowTop == RunnableSlots = 0..(top - 1)

-----------------------------------------------------------------------------
(***************************************************************************)
(* What comments and assertions say, and the code does not keep.           *)
(***************************************************************************)

\* A Zombie "runs no more" (trap.c, __sys_exit): __sys_yield does not return
\* to it, and panic("Zombie exit failed") is never reached.
ZombieRunsNoMore == panicked # "Zombie exit failed"

\* A parent whose children are not Zombies yet "gives way and waits"
\* (__sys_recycle): if another task can run, the hart leaves the parent.
RecycleGivesWay ==
  \A s \in Slots :
    current = s /\ pc[s] = "recycle" /\ RunnableSlots # {s}
      ~> current # s \/ pc[s] # "recycle" \/ panicked # "no"
=============================================================================
