--------------------------- MODULE UserAppsProofs ---------------------------
(***************************************************************************)
(* The shipped programs on task tables of every size.  They use processes  *)
(* as a stack: the runnable ones are the slots below _top, each the parent *)
(* of the one above, and all but the last wait for their child.  So the    *)
(* only process that runs is the last one, the slot that fork fills is the *)
(* one at _top, and exit and recycle empty it again.                       *)
(***************************************************************************)
EXTENDS UserApps, TasksProofs

USE TaskBound

\* The calls that a program makes.
LabelsOf(program) ==
  CASE program = "atest"      -> {"exec"}
    [] program = "user_shell" -> {"set_trigger", "getchar", "fork", "recycle", "exec"}
    [] program = "print"      -> {"fork", "set_trigger", "recycle", "loop", "exit", "failed"}
    [] program = "time"       -> {"loop", "exit"}

\* A program a at call l, whose last fork returned r, has a child to recycle.
HasChild(a, l, r) == l = "recycle" \/ (a = "print" /\ l = "set_trigger" /\ r = 1)

StackInv ==
  /\ RunnableSlots = 0..(top - 1)
  /\ current \in RunnableSlots
  /\ \A s \in 1..(top - 1) : parent[s] = s - 1
  /\ \A s \in 0..(top - 2) : HasChild(app[s], upc[s], fork_ret[s])
  /\ \A s \in Slots : task_state[s] = "Zombie" => s = top /\ parent[s] = top - 1
  /\ HasChild(app[top - 1], upc[top - 1], fork_ret[top - 1])
       <=> \E s \in Slots : task_state[s] = "Zombie"

\* Slot 0 is atest, then a shell for ever.
ProgramInv ==
  /\ app \in [Slots -> Programs]
  /\ fork_ret \in [Slots -> {-1, 0, 1}]
  /\ DOMAIN upc = Slots
  /\ \A s \in RunnableSlots : upc[s] \in LabelsOf(app[s])
  /\ app[0] \in {"atest", "user_shell"} /\ (upc[0] = "exec" => app[0] = "atest")

\* Only a Zombie continues after the __sys_yield of exit.
NoneExits == \A s \in RunnableSlots : pc[s] # "exit"

AppInv == IInv /\ NoneExits /\ StackInv /\ ProgramInv

-----------------------------------------------------------------------------
\* A step of a program is a step of the process model.
LEMMA AppStepsTasks == AppNext => [Next]_vars
<1> SUFFICES ASSUME AppNext PROVE Next \/ UNCHANGED vars
  BY Zenon
<1>1. CASE UserStep
  BY <1>1, Zenon DEF UserStep, Exec, ExecUnknown, ShellRead, Fork, ForkFails, SetTrigger, Recycle, Loop,
              LoopFailed, Exit, allvars, Next, Syscall
<1>2. CASE ShellPoll \/ RecycleBlocks \/ KernelStep
  BY <1>2, Zenon DEF ShellPoll, RecycleBlocks, KernelStep, Next, Syscall
<1> QED
  BY <1>1, <1>2, Zenon DEF AppNext

\* No step is taken once the kernel has panicked.
LEMMA PanicIsFinal == AppNext => panicked = "no"
BY Zenon
   DEF AppNext, UserStep, Exec, ExecUnknown, ShellRead, Fork, ForkFails, SetTrigger, Recycle, Loop,
       LoopFailed, Exit, ShellPoll, RecycleBlocks, KernelStep, Tick, TimerTrap, TimerReturn, ExitReturn,
       UserFault, GetcharDone, GetcharWait, PollsConsole, SysFork, SysForkFull, SysSetTrigger, SysExit,
       RecycleReap, RecycleWait, Scans, InUser, InKernel

\* No step, of these programs or others, lets a live process continue there.
LEMMA LiveIsNotExiting == IInv /\ NoneExits /\ [Next]_vars => NoneExits'
<1> SUFFICES ASSUME IInv, NoneExits, [Next]_vars PROVE NoneExits'
  BY Zenon
<1>1. /\ task_state \in [Slots -> TaskState] /\ pc \in [Slots -> Continuation] /\ current \in Slots
      /\ top \in 1..MAX_TASK_NUM /\ \A s \in Slots : task_state[s] = "Running" => s = current
  BY Zenon DEF IInv, TypeOK, HartRunsLiveTask
<1>2. ASSUME UNCHANGED task_state,
             \/ UNCHANGED pc
             \/ pc' = [pc EXCEPT ![current] = "user"]
      PROVE  NoneExits'
  BY <1>1, <1>2, Zenon DEF NoneExits, RunnableSlots
<1>3. ASSUME NEW c \in Continuation \ {"exit"}, sys_yield(task_state, top, c)
      PROVE  NoneExits'
  <2>1. /\ \A s \in Slots : task_state'[s] \in Runnable <=> task_state[s] \in Runnable
        /\ pc' = [pc EXCEPT ![current] = c]
    BY <1>1, <1>3, YieldFacts, Zenon
  <2> QED
    BY <1>1, <2>1, Zenon DEF NoneExits, RunnableSlots
<1>4. CASE UNCHANGED vars \/ Tick \/ TimerReturn \/ YieldReturn \/ ExitReturn
  BY <1>2, <1>4, Zenon DEF vars, table, Tick, TimerReturn, YieldReturn, ExitReturn
<1>5. CASE SysSetTrigger \/ SysForkFull \/ SysExitInit \/ UserFault \/ GetcharDone \/ RecycleNoChild
  BY <1>2, <1>5, Zenon DEF vars, table, SysSetTrigger, SysForkFull, SysExitInit, UserFault, GetcharDone,
                    RecycleNoChild
<1>6. CASE TimerTrap \/ SysYield \/ GetcharWait \/ RecycleWait
  BY <1>3, <1>6, Zenon DEF TimerTrap, SysYield, GetcharWait, RecycleWait, Continuation
<1>7. CASE SysFork
  <2> PICK child \in Slots : /\ task_state' = [task_state EXCEPT ![child] = "Ready"]
                             /\ pc' = [pc EXCEPT ![child] = "user"]
    BY <1>7, Zenon DEF SysFork
  <2> QED
    BY <1>1, Zenon DEF NoneExits, RunnableSlots
<1>8. CASE RecycleReap
  <2> PICK child \in Slots : task_state' = [task_state EXCEPT ![child] = "UnInit"]
    BY <1>8, Zenon DEF RecycleReap, ZombiesOf, Children
  <2>1. pc' = [pc EXCEPT ![current] = "user"]
    BY <1>8, Zenon DEF RecycleReap
  <2> QED
    BY <1>1, <2>1, Zenon DEF NoneExits, RunnableSlots, Runnable
<1>9. CASE SysExit
  <2> DEFINE ts == [task_state EXCEPT ![current] = "Zombie"]
  <2>1. sys_yield(ts, top - 1, "exit") /\ pid[current] # 0 /\ InKernel("user") /\ top' = top - 1
    BY <1>9, Zenon DEF SysExit, InUser
  <2>2. IInv'
    BY <1>9, NextIInv, Zenon DEF Next, Syscall
  <2>3. top - 1 \in 1..MAX_TASK_NUM
    BY <1>1, <2>1, <2>2, Zenon DEF IInv, TypeOK
  <2>4. ts \in [Slots -> TaskState] /\ \A s \in Slots : ts[s] = "Running" => s = current
    BY <1>1, Zenon DEF TaskState
  <2>5. ts[current] = "Zombie" /\ \A s \in Slots : s # current => ts[s] = task_state[s]
    BY <1>1, Zenon
  <2> HIDE DEF ts
  <2>6. /\ \A s \in Slots : task_state'[s] \in Runnable <=> ts[s] \in Runnable
        /\ pc' = [pc EXCEPT ![current] = "exit"]
    BY <1>1, <2>1, <2>3, <2>4, YieldFacts, Zenon DEF Continuation
  <2> QED
    BY <1>1, <2>5, <2>6, Zenon DEF NoneExits, RunnableSlots, Runnable
<1> QED
  BY <1>4, <1>5, <1>6, <1>7, <1>8, <1>9, Zenon DEF Next, Syscall

\* A runnable process that has no child is the last one, and no slot above it
\* is in use.
LEMMA LastProcess ==
  ASSUME AppInv, NEW s \in RunnableSlots, ~HasChild(app[s], upc[s], fork_ret[s])
  PROVE  s = top - 1 /\ \A t \in Slots : t >= top <=> task_state[t] = "UnInit"
<1>1. top \in 1..MAX_TASK_NUM /\ task_state \in [Slots -> TaskState]
  BY Zenon DEF AppInv, IInv, TypeOK
<1>2. s \in 0..(top - 1) /\ s \notin 0..(top - 2)
  BY Zenon DEF AppInv, StackInv
<1>3. s = top - 1
  BY <1>1, <1>2
<1>4. \A t \in Slots : task_state[t] # "Zombie"
  BY <1>3, Zenon DEF AppInv, StackInv
<1>5. \A t \in Slots : task_state[t] \in Runnable <=> t \in 0..(top - 1)
  BY Zenon DEF AppInv, StackInv, RunnableSlots
<1>6. \A t \in Slots : t \in 0..(top - 1) <=> ~(t >= top)
  BY <1>1 DEF Slots
<1> QED
  BY <1>1, <1>3, <1>4, <1>5, <1>6, Zenon DEF TaskState, Runnable

\* A yield leaves runnable and Zombie slots what they are, and the hart with a
\* runnable process.
LEMMA YieldStays ==
  ASSUME AppInv, NEW c \in Continuation, sys_yield(task_state, top, c)
  PROVE  /\ \A s \in Slots : /\ task_state'[s] \in Runnable <=> task_state[s] \in Runnable
                             /\ task_state'[s] = "Zombie" <=> task_state[s] = "Zombie"
         /\ current' \in RunnableSlots /\ panicked' = panicked
<1>1. /\ task_state' \in [Slots -> TaskState]
      /\ \A s \in Slots : task_state'[s] \in Runnable <=> task_state[s] \in Runnable
      /\ \A s \in Slots : task_state[s] \notin Runnable => task_state'[s] = task_state[s]
      /\ current' \in Slots
      /\ task_state[current'] \in Runnable \/ current' = current
      /\ panicked' = panicked
  BY YieldFacts, Zenon DEF AppInv, IInv, TypeOK, HartRunsLiveTask
<1>2. current \in RunnableSlots
  BY Zenon DEF AppInv, StackInv
<1> QED
  BY <1>1, <1>2, Zenon DEF RunnableSlots, Runnable

\* A step that leaves every process where it is on the stack
LEMMA StackKept ==
  ASSUME AppInv, UNCHANGED <<parent, top>>,
         \A s \in Slots : /\ task_state'[s] \in Runnable <=> task_state[s] \in Runnable
                          /\ task_state'[s] = "Zombie" <=> task_state[s] = "Zombie",
         current' \in RunnableSlots,
         \A s \in RunnableSlots : HasChild(app'[s], upc'[s], fork_ret'[s]) <=> HasChild(app[s], upc[s], fork_ret[s])
  PROVE  StackInv'
<1>1. RunnableSlots' = RunnableSlots /\ top \in 1..MAX_TASK_NUM
  BY Zenon DEF RunnableSlots, AppInv, IInv, TypeOK
<1>2. 0..(top - 2) \subseteq RunnableSlots /\ top - 1 \in RunnableSlots
  BY <1>1 DEF AppInv, StackInv
<1> QED
  BY <1>1, <1>2, Zenon DEF AppInv, StackInv

\* What is known of the program on the hart
LEMMA Caller ==
  ASSUME AppInv
  PROVE  /\ current \in Slots /\ current \in RunnableSlots /\ 0 \in Slots
         /\ app[current] \in Programs /\ fork_ret[current] \in {-1, 0, 1}
         /\ upc[current] \in LabelsOf(app[current])
         /\ current = 0 => /\ app[current] \in {"atest", "user_shell"}
                           /\ upc[current] = "exec" => app[current] = "atest"
BY SlotFacts, Zenon DEF AppInv, StackInv, ProgramInv, RunnableSlots

\* A step of the program on the hart that keeps to the calls of the program
LEMMA ProgramKept ==
  ASSUME AppInv, NEW a \in Programs, NEW l \in LabelsOf(a), NEW r \in {-1, 0, 1},
         app' = [app EXCEPT ![current] = a], upc' = [upc EXCEPT ![current] = l],
         fork_ret' = [fork_ret EXCEPT ![current] = r],
         current = 0 => a \in {"atest", "user_shell"} /\ (l = "exec" => a = "atest"),
         \A s \in Slots : task_state'[s] \in Runnable => task_state[s] \in Runnable
  PROVE  ProgramInv'
<1>1. current \in Slots /\ 0 \in Slots
  BY Caller, Zenon
<1>2. /\ app' \in [Slots -> Programs] /\ fork_ret' \in [Slots -> {-1, 0, 1}] /\ DOMAIN upc' = Slots
  BY <1>1, Zenon DEF AppInv, ProgramInv
<1>3. \A s \in Slots : /\ app'[s] = (IF s = current THEN a ELSE app[s])
                       /\ upc'[s] = (IF s = current THEN l ELSE upc[s])
  BY <1>1, Zenon DEF AppInv, ProgramInv
<1>4. \A s \in RunnableSlots' : s \in RunnableSlots
  BY Zenon DEF RunnableSlots
<1>5. \A s \in RunnableSlots' : upc'[s] \in LabelsOf(app'[s])
  BY <1>3, <1>4, Zenon DEF AppInv, ProgramInv, RunnableSlots
<1>6. app'[0] \in {"atest", "user_shell"} /\ (upc'[0] = "exec" => app'[0] = "atest")
  BY <1>1, <1>3, Zenon DEF AppInv, ProgramInv
<1> QED
  BY <1>2, <1>5, <1>6, Zenon DEF ProgramInv

\* A step of the kernel alone
LEMMA ProgramsLeftAlone ==
  ASSUME AppInv, UNCHANGED appvars, UNCHANGED <<parent, top>>, current' \in RunnableSlots,
         \A s \in Slots : /\ task_state'[s] \in Runnable <=> task_state[s] \in Runnable
                          /\ task_state'[s] = "Zombie" <=> task_state[s] = "Zombie"
  PROVE  StackInv' /\ ProgramInv'
<1>1. UNCHANGED <<app, upc, fork_ret>>
  BY Zenon DEF appvars
<1>2. StackInv'
  BY <1>1, StackKept, Zenon
<1>3. RunnableSlots' = RunnableSlots
  BY Zenon DEF RunnableSlots
<1> QED
  BY <1>1, <1>2, <1>3, Zenon DEF AppInv, ProgramInv

\* A step of the program on the hart that leaves the task table alone
LEMMA ProgramGoesOn ==
  ASSUME AppInv, UNCHANGED table,
         NEW a \in Programs, NEW l \in LabelsOf(a), NEW r \in {-1, 0, 1},
         app' = [app EXCEPT ![current] = a], upc' = [upc EXCEPT ![current] = l],
         fork_ret' = [fork_ret EXCEPT ![current] = r],
         current = 0 => a \in {"atest", "user_shell"} /\ (l = "exec" => a = "atest"),
         HasChild(a, l, r) <=> HasChild(app[current], upc[current], fork_ret[current])
  PROVE  StackInv' /\ ProgramInv'
<1>1. UNCHANGED <<task_state, parent, current, top>>
  BY Zenon DEF table
<1>2. current \in RunnableSlots
  BY Caller, Zenon
<1>3. \A s \in RunnableSlots : HasChild(app'[s], upc'[s], fork_ret'[s]) <=> HasChild(app[s], upc[s], fork_ret[s])
  <2> TAKE s \in RunnableSlots
  <2>1. s \in Slots
    BY Zenon DEF RunnableSlots
  <2>2. CASE s = current
    <3>1. app'[s] = a /\ upc'[s] = l /\ fork_ret'[s] = r
      BY <2>1, <2>2, Zenon DEF AppInv, ProgramInv
    <3> QED
      BY <2>2, <3>1, Zenon
  <2>3. CASE s # current
    <3>1. app'[s] = app[s] /\ upc'[s] = upc[s] /\ fork_ret'[s] = fork_ret[s]
      BY <2>1, <2>3, Zenon DEF AppInv, ProgramInv
    <3> QED
      BY <3>1, Zenon
  <2> QED
    BY <2>2, <2>3, Zenon
<1>4. StackInv'
  BY <1>1, <1>2, <1>3, StackKept, Zenon
<1>5. ProgramInv'
  BY <1>1, ProgramKept, Zenon
<1> QED
  BY <1>4, <1>5, Zenon

-----------------------------------------------------------------------------
\* exec: the new program starts without a child; slot 0 becomes a shell.
LEMMA ExecStep == ASSUME AppInv, Exec PROVE StackInv' /\ ProgramInv'
<1> DEFINE n == ExecName
<1>1. /\ n \in Programs /\ upc[current] = "exec" /\ UNCHANGED table
      /\ app' = [app EXCEPT ![current] = n] /\ upc' = [upc EXCEPT ![current] = Entry(n)]
      /\ fork_ret' = [fork_ret EXCEPT ![current] = 0]
  BY Zenon DEF Exec, At, GoTo, vars, table
<1>2. Entry(n) \in LabelsOf(n) /\ ~HasChild(n, Entry(n), 0)
  BY <1>1, Zenon DEF Programs, Entry, LabelsOf, HasChild
<1>3. ~HasChild(app[current], upc[current], fork_ret[current])
  BY <1>1, Zenon DEF HasChild
<1>4. current = 0 => n = "user_shell" /\ Entry(n) = "set_trigger"
  BY <1>1, Caller, Zenon DEF ExecName, Runs, Entry
<1> HIDE DEF n
<1> QED
  BY <1>1, <1>2, <1>3, <1>4, ProgramGoesOn, Zenon

\* The shell reads a line.
LEMMA ReadStep == ASSUME AppInv, NEW c, ShellRead(c) PROVE StackInv' /\ ProgramInv'
<1>1. /\ upc[current] = "getchar" /\ UNCHANGED table
      /\ UNCHANGED <<app, fork_ret>> /\ upc' = [upc EXCEPT ![current] = "fork"]
  BY Zenon DEF ShellRead, At, GoTo, GetcharDone, table
<1>2. app' = [app EXCEPT ![current] = app[current]] /\ fork_ret' = [fork_ret EXCEPT ![current] = fork_ret[current]]
  BY <1>1, Caller, Zenon DEF AppInv, ProgramInv
<1>3. app[current] = "user_shell" /\ "fork" \in LabelsOf(app[current])
  BY <1>1, Caller, Zenon DEF LabelsOf, Programs
<1> QED
  BY <1>1, <1>2, <1>3, Caller, ProgramGoesOn, Zenon DEF HasChild

\* fork finds no slot.
LEMMA ForkFailsStep == ASSUME AppInv, ForkFails PROVE StackInv' /\ ProgramInv'
<1> DEFINE l == AfterFork(app[current], -1)
<1>1. /\ upc[current] = "fork" /\ UNCHANGED table
      /\ UNCHANGED app /\ upc' = [upc EXCEPT ![current] = l]
      /\ fork_ret' = [fork_ret EXCEPT ![current] = -1]
  BY Zenon DEF ForkFails, At, GoTo, SysForkFull, table, vars
<1>2. app' = [app EXCEPT ![current] = app[current]]
  BY <1>1, Caller, Zenon DEF AppInv, ProgramInv
<1>3. app[current] \in {"user_shell", "print"}
  BY <1>1, Caller, Zenon DEF LabelsOf, Programs
<1>4. l \in LabelsOf(app[current]) /\ l # "exec" /\ ~HasChild(app[current], l, -1)
  BY <1>3 DEF AfterFork, LabelsOf, HasChild
<1> HIDE DEF l
<1> QED
  BY <1>1, <1>2, <1>4, Caller, ProgramGoesOn, Zenon DEF HasChild

\* set_trigger: print goes on as father or as child.
LEMMA TriggerStep == ASSUME AppInv, SetTrigger PROVE StackInv' /\ ProgramInv'
<1> DEFINE l == AfterTrigger(app[current], fork_ret[current])
<1>1. /\ upc[current] = "set_trigger" /\ UNCHANGED table
      /\ UNCHANGED <<app, fork_ret>> /\ upc' = [upc EXCEPT ![current] = l]
  BY Zenon DEF SetTrigger, At, GoTo, SysSetTrigger, table
<1>2. app' = [app EXCEPT ![current] = app[current]] /\ fork_ret' = [fork_ret EXCEPT ![current] = fork_ret[current]]
  BY <1>1, Caller, Zenon DEF AppInv, ProgramInv
<1>3. app[current] \in {"user_shell", "print"}
  BY <1>1, Caller, Zenon DEF LabelsOf, Programs
<1>4. /\ l \in LabelsOf(app[current]) /\ l # "exec"
      /\ HasChild(app[current], l, fork_ret[current]) <=> HasChild(app[current], upc[current], fork_ret[current])
  <2>1. CASE app[current] = "user_shell"
    <3>1. l = "getchar"
      BY <2>1, Zenon DEF AfterTrigger
    <3> QED
      BY <1>1, <2>1, <3>1, Zenon DEF LabelsOf, HasChild
  <2>2. CASE app[current] = "print"
    <3>1. /\ fork_ret[current] = 1 => l = "recycle"
          /\ fork_ret[current] = 0 => l = "loop"
          /\ fork_ret[current] = -1 => l = "failed"
      BY <2>2 DEF AfterTrigger
    <3> QED
      BY <1>1, <2>2, <3>1, Caller, Zenon DEF LabelsOf, HasChild
  <2> QED
    BY <1>3, <2>1, <2>2, Zenon
<1> HIDE DEF l
<1> QED
  BY <1>1, <1>2, <1>4, Caller, ProgramGoesOn, Zenon

\* A round of a loop
LEMMA LoopStep == ASSUME AppInv, Loop PROVE StackInv' /\ ProgramInv'
<1>1. PICK l \in {"exit", "loop"} : upc' = [upc EXCEPT ![current] = l]
  BY Zenon DEF Loop, GoTo
<1>2. upc[current] = "loop" /\ UNCHANGED table /\ UNCHANGED <<app, fork_ret>>
  BY Zenon DEF Loop, At, table, vars
<1>3. app' = [app EXCEPT ![current] = app[current]] /\ fork_ret' = [fork_ret EXCEPT ![current] = fork_ret[current]]
  BY <1>2, Caller, Zenon DEF AppInv, ProgramInv
<1>4. app[current] \in {"time", "print"} /\ l \in LabelsOf(app[current])
  BY <1>2, Caller, Zenon DEF LabelsOf, Programs
<1> QED
  BY <1>1, <1>2, <1>3, <1>4, Caller, ProgramGoesOn, Zenon DEF HasChild

-----------------------------------------------------------------------------
\* fork puts a child on the stack, in the slot at _top, and its father waits.
LEMMA AppForkStep == ASSUME AppInv, Fork PROVE StackInv' /\ ProgramInv'
<1> DEFINE a == app[current]
<1>1. upc[current] = "fork" /\ SysFork
  BY Zenon DEF Fork, At
<1>2. a \in {"user_shell", "print"}
  BY <1>1, Caller, Zenon DEF LabelsOf, Programs
<1>3. current = top - 1 /\ \A t \in Slots : t >= top <=> task_state[t] = "UnInit"
  BY <1>1, Caller, LastProcess, Zenon DEF HasChild
<1>4. PICK child \in Slots :
        /\ alloc_proc(child)
        /\ task_state' = [task_state EXCEPT ![child] = "Ready"]
        /\ parent' = [parent EXCEPT ![child] = current]
  BY <1>1, Zenon DEF SysFork
<1>5. /\ top' = top + 1 /\ current' = current
      /\ top \in 1..MAX_TASK_NUM /\ task_state \in [Slots -> TaskState] /\ DOMAIN parent = Slots
  BY <1>1, Zenon DEF SysFork, AppInv, IInv, TypeOK
<1>6. child = top
  <2>1. child >= top /\ \A t \in Slots : t >= top => child <= t
    BY <1>3, <1>4, Zenon DEF alloc_proc, FreeSlots
  <2>2. top \in Slots
    BY <1>5, <2>1 DEF Slots
  <2> QED
    BY <1>5, <2>1, <2>2 DEF Slots
<1>7. /\ top \in Slots /\ current # top
      /\ \A s \in Slots : /\ task_state'[s] = (IF s = top THEN "Ready" ELSE task_state[s])
                           /\ parent'[s] = (IF s = top THEN top - 1 ELSE parent[s])
  BY <1>3, <1>4, <1>5, <1>6
<1>8. \A s \in Slots : task_state'[s] # task_state[s] <=> s = top
  BY <1>3, <1>5, <1>7
<1>9. (CHOOSE s \in Slots : task_state'[s] # task_state[s]) = top
  BY <1>7, <1>8, Zenon
<1>10. /\ app' = [app EXCEPT ![top] = a]
       /\ fork_ret' = [fork_ret EXCEPT ![top] = 0, ![current] = 1]
       /\ upc' = [upc EXCEPT ![top] = AfterFork(a, 0), ![current] = AfterFork(a, 1)]
  BY <1>9, Zenon DEF Fork
<1>11. \A s \in Slots :
         /\ app'[s] = (IF s = top THEN a ELSE app[s])
         /\ fork_ret'[s] = (IF s = top THEN 0 ELSE IF s = current THEN 1 ELSE fork_ret[s])
         /\ upc'[s] = (IF s = top THEN AfterFork(a, 0) ELSE IF s = current THEN AfterFork(a, 1) ELSE upc[s])
  BY <1>7, <1>10, Caller, Zenon DEF AppInv, ProgramInv
<1>12. /\ AfterFork(a, 0) \in LabelsOf(a) /\ AfterFork(a, 1) \in LabelsOf(a) /\ AfterFork(a, 1) # "exec"
       /\ HasChild(a, AfterFork(a, 1), 1) /\ ~HasChild(a, AfterFork(a, 0), 0)
  BY <1>2 DEF AfterFork, LabelsOf, HasChild
<1>13. RunnableSlots' = RunnableSlots \cup {top}
  BY <1>7, Zenon DEF RunnableSlots, Runnable
<1>14. RunnableSlots = 0..(top - 1) /\ RunnableSlots \subseteq Slots
  BY Zenon DEF AppInv, StackInv, RunnableSlots
<1>15. StackInv'
  <2>1. RunnableSlots' = 0..(top' - 1) /\ current' \in RunnableSlots'
    BY <1>3, <1>5, <1>13, <1>14
  <2>2. \A s \in 1..(top' - 1) : parent'[s] = s - 1
    <3> SUFFICES ASSUME NEW s \in 1..(top' - 1) PROVE parent'[s] = s - 1
      BY Zenon
    <3>1. CASE s = top
      BY <1>7, <3>1, Zenon
    <3>2. CASE s # top
      <4>1. s \in 1..(top - 1) /\ s \in Slots
        BY <1>5, <1>14, <3>2
      <4> QED
        BY <1>7, <3>2, <4>1, Zenon DEF AppInv, StackInv
    <3> QED
      BY <3>1, <3>2, Zenon
  <2>3. \A s \in 0..(top' - 2) : HasChild(app'[s], upc'[s], fork_ret'[s])
    <3> SUFFICES ASSUME NEW s \in 0..(top' - 2) PROVE HasChild(app'[s], upc'[s], fork_ret'[s])
      BY Zenon
    <3>1. s \in Slots /\ s # top
      BY <1>5, <1>14
    <3>2. CASE s = current
      BY <1>11, <1>12, <3>1, <3>2, Zenon
    <3>3. CASE s # current
      <4>1. s \in 0..(top - 2)
        BY <1>3, <1>5, <3>3
      <4>2. app'[s] = app[s] /\ upc'[s] = upc[s] /\ fork_ret'[s] = fork_ret[s]
        BY <1>11, <3>1, <3>3, Zenon
      <4> QED
        BY <4>1, <4>2, Zenon DEF AppInv, StackInv
    <3> QED
      BY <3>2, <3>3, Zenon
  <2>4. \A s \in Slots : task_state'[s] # "Zombie"
    BY <1>3, <1>5, <1>7, <1>14 DEF RunnableSlots, Runnable, Slots
  <2>5. ~HasChild(app'[top' - 1], upc'[top' - 1], fork_ret'[top' - 1])
    <3>1. top' - 1 = top
      BY <1>5
    <3>2. app'[top] = a /\ upc'[top] = AfterFork(a, 0) /\ fork_ret'[top] = 0
      BY <1>7, <1>11, Zenon
    <3> QED
      BY <1>12, <3>1, <3>2, Zenon
  <2> QED
    BY <2>1, <2>2, <2>3, <2>4, <2>5, Zenon DEF StackInv
<1>16. ProgramInv'
  <2>1. app' \in [Slots -> Programs] /\ fork_ret' \in [Slots -> {-1, 0, 1}] /\ DOMAIN upc' = Slots
    BY <1>7, <1>10, Caller, Zenon DEF AppInv, ProgramInv
  <2>2. \A s \in RunnableSlots' : upc'[s] \in LabelsOf(app'[s])
    BY <1>7, <1>11, <1>12, <1>13, <1>14 DEF AppInv, ProgramInv
  <2>3. app'[0] \in {"atest", "user_shell"} /\ (upc'[0] = "exec" => app'[0] = "atest")
    BY <1>5, <1>11, <1>12, Caller DEF AppInv, ProgramInv
  <2> QED
    BY <2>1, <2>2, <2>3, Zenon DEF ProgramInv
<1> QED
  BY <1>15, <1>16, Zenon

\* recycle takes the Zombie from the top of the stack.
LEMMA RecycleStep == ASSUME AppInv, Recycle PROVE StackInv' /\ ProgramInv'
<1> DEFINE l == IF app[current] = "user_shell" THEN "getchar" ELSE "exit"
<1>1. /\ upc[current] = "recycle" /\ RecycleReap /\ UNCHANGED <<app, fork_ret>>
      /\ upc' = [upc EXCEPT ![current] = l]
  BY Zenon DEF Recycle, At, GoTo, Runs
<1>2. PICK child \in ZombiesOf(current) :
        /\ task_state' = [task_state EXCEPT ![child] = "UnInit"]
        /\ parent' = [parent EXCEPT ![child] = NULL]
  BY <1>1, Zenon DEF RecycleReap
<1>3. /\ UNCHANGED <<current, top>> /\ top \in 1..MAX_TASK_NUM
      /\ task_state \in [Slots -> TaskState] /\ DOMAIN parent = Slots
  BY <1>1, Zenon DEF RecycleReap, AppInv, IInv, TypeOK
<1>4. child \in Slots /\ task_state[child] = "Zombie" /\ parent[child] = current
  BY <1>2, Zenon DEF ZombiesOf, Children
<1>5. child = top /\ current = top - 1 /\ \A s \in Slots : task_state[s] = "Zombie" => s = top
  BY <1>4, Zenon DEF AppInv, StackInv
<1>6. \A s \in Slots : /\ task_state'[s] = (IF s = top THEN "UnInit" ELSE task_state[s])
                       /\ s # top => parent'[s] = parent[s]
  BY <1>2, <1>3, <1>4, <1>5, Zenon
<1>7. RunnableSlots' = RunnableSlots /\ RunnableSlots = 0..(top - 1) /\ RunnableSlots \subseteq Slots
  BY <1>4, <1>5, <1>6, Zenon DEF RunnableSlots, Runnable, AppInv, StackInv
<1>8. app[current] \in {"user_shell", "print"}
  BY <1>1, Caller, Zenon DEF LabelsOf, Programs
<1>9. l \in LabelsOf(app[current]) /\ l # "exec" /\ l # "recycle" /\ l # "set_trigger"
  BY <1>8, Zenon DEF LabelsOf
<1>10. app' = [app EXCEPT ![current] = app[current]] /\ fork_ret' = [fork_ret EXCEPT ![current] = fork_ret[current]]
  BY <1>1, Caller, Zenon DEF AppInv, ProgramInv
<1> HIDE DEF l
<1>11. ProgramInv'
  <2>1. \A s \in Slots : task_state'[s] \in Runnable => task_state[s] \in Runnable
    BY <1>6, Zenon DEF Runnable
  <2> QED
    BY <1>1, <1>9, <1>10, <2>1, Caller, ProgramKept, Zenon
<1>12. StackInv'
  <2>1. \A s \in 1..(top - 1) : parent'[s] = s - 1
    BY <1>3, <1>6, <1>7 DEF AppInv, StackInv
  <2>2. \A s \in Slots : s # current => upc'[s] = upc[s]
    BY <1>1, Caller, Zenon DEF AppInv, ProgramInv
  <2>3. \A s \in 0..(top - 2) : HasChild(app'[s], upc'[s], fork_ret'[s])
    <3> SUFFICES ASSUME NEW s \in 0..(top - 2) PROVE HasChild(app'[s], upc'[s], fork_ret'[s])
      BY Zenon
    <3>1. s \in Slots /\ s # current
      BY <1>3, <1>5, <1>7
    <3> QED
      BY <1>1, <2>2, <3>1, Zenon DEF AppInv, StackInv
  <2>4. \A s \in Slots : task_state'[s] # "Zombie"
    BY <1>5, <1>6, Zenon
  <2>5. upc'[top - 1] = l
    BY <1>1, <1>5, Caller, Zenon DEF AppInv, ProgramInv
  <2>6. ~HasChild(app'[top - 1], upc'[top - 1], fork_ret'[top - 1])
    BY <1>9, <2>5, Zenon DEF HasChild
  <2>7. current' \in RunnableSlots'
    BY <1>3, <1>7, Caller, Zenon
  <2> QED
    BY <1>3, <1>7, <2>1, <2>3, <2>4, <2>6, <2>7, Zenon DEF StackInv
<1> QED
  BY <1>11, <1>12, Zenon

\* exit leaves a Zombie on the top of the stack, and the hart with another
\* process: the one that __sys_yield tries is runnable.
LEMMA AppExitStep == ASSUME AppInv, Exit PROVE StackInv' /\ ProgramInv' /\ UNCHANGED panicked
<1> DEFINE ts == [task_state EXCEPT ![current] = "Zombie"]
           n == NextSlot(top - 1)
<1>1. /\ upc[current] = "exit" /\ UNCHANGED <<app, upc, fork_ret>> /\ pid[current] # 0
      /\ parent' = child_proc_mv(current) /\ top' = top - 1
      /\ sys_yield(ts, top - 1, "exit")
  BY Zenon DEF Exit, At, appvars, SysExit
<1>2. /\ top \in 1..MAX_TASK_NUM /\ task_state \in [Slots -> TaskState] /\ pc \in [Slots -> Continuation]
      /\ parent \in [Slots -> Slots \cup {NULL}]
  BY Zenon DEF AppInv, IInv, TypeOK
<1>3. current = top - 1 /\ \A t \in Slots : t >= top <=> task_state[t] = "UnInit"
  BY <1>1, Caller, LastProcess, Zenon DEF HasChild
<1>4. current # 0
  BY <1>1, Caller, Zenon DEF LabelsOf
<1>5. top - 1 \in 1..MAX_TASK_NUM /\ current \in Slots /\ current + 1 \in Nat /\ top - 1 \in Nat \ {0}
  BY <1>2, <1>3, <1>4, Caller
<1>6. n \in 0..(top - 2)
  <2>1. n \in 0..((top - 1) - 1)
    BY <1>5, ModFacts, Zenon DEF NextSlot
  <2> QED
    BY <1>2, <2>1
<1>7. RunnableSlots = 0..(top - 1) /\ RunnableSlots \subseteq Slots
  BY Zenon DEF AppInv, StackInv, RunnableSlots
<1> HIDE DEF n
<1>8. n \in Slots /\ n # current /\ task_state[n] \in Runnable
  BY <1>2, <1>3, <1>6, <1>7 DEF RunnableSlots
<1>9. CanSwitch(ts, top - 1)
  BY <1>5, <1>8 DEF CanSwitch, n
<1>10. current' = n
  BY <1>1, <1>9, Zenon DEF sys_yield, n
<1>11. ts \in [Slots -> TaskState] /\ \A s \in Slots : ts[s] = "Running" => s = current
  BY <1>2, <1>5, Zenon DEF TaskState, AppInv, IInv, HartRunsLiveTask
<1>12. /\ \A s \in Slots : task_state'[s] \in Runnable <=> ts[s] \in Runnable
       /\ \A s \in Slots : ts[s] \notin Runnable => task_state'[s] = ts[s]
       /\ panicked' = panicked
  BY <1>1, <1>2, <1>5, <1>11, YieldFacts, Zenon DEF Continuation
<1>13. \A s \in Slots : ts[s] = (IF s = current THEN "Zombie" ELSE task_state[s])
  BY <1>2, Zenon
<1> HIDE DEF ts
<1>14. \A s \in Slots : /\ task_state'[s] \in Runnable <=> s # current /\ task_state[s] \in Runnable
                        /\ task_state'[s] = "Zombie" <=> s = current
  <2> TAKE s \in Slots
  <2>1. task_state[s] # "Zombie"
    BY <1>2, <1>3, <1>7 DEF RunnableSlots, Runnable, Slots
  <2> QED
    BY <1>12, <1>13, <2>1, Zenon DEF Runnable
<1>15. RunnableSlots' = 0..(top' - 1)
  <2>1. RunnableSlots' = RunnableSlots \ {current}
    BY <1>14, Zenon DEF RunnableSlots
  <2> QED
    BY <1>1, <1>2, <1>3, <1>7, <2>1
<1>16. \A s \in Slots : s < top => parent'[s] = parent[s]
  <2> SUFFICES ASSUME NEW s \in Slots, s < top PROVE parent[s] # current
    BY <1>1, <1>2, Zenon DEF child_proc_mv
  <2>1. CASE s = 0
    BY <1>3, <1>4, <2>1, Caller DEF AppInv, IInv, ProcessTree, NULL, Slots
  <2>2. CASE s # 0
    <3>1. s \in 1..(top - 1) /\ s - 1 # top - 1
      BY <1>2, <2>2 DEF Slots
    <3> QED
      BY <1>3, <3>1, Zenon DEF AppInv, StackInv
  <2> QED
    BY <2>1, <2>2, Zenon
<1>17. StackInv'
  <2>1. current' \in RunnableSlots'
    BY <1>1, <1>2, <1>6, <1>10, <1>15
  <2>2. \A s \in 1..(top' - 1) : parent'[s] = s - 1
    BY <1>1, <1>2, <1>7, <1>16 DEF AppInv, StackInv
  <2>3. \A s \in 0..(top - 2) : HasChild(app'[s], upc'[s], fork_ret'[s])
    BY <1>1, Zenon DEF AppInv, StackInv
  <2>4. \A s \in 0..(top' - 2) : HasChild(app'[s], upc'[s], fork_ret'[s])
    BY <1>1, <1>2, <2>3
  <2>5. HasChild(app'[top' - 1], upc'[top' - 1], fork_ret'[top' - 1])
    BY <1>1, <1>2, <1>5, <2>3
  <2>6. parent'[current] = top' - 1
    <3>1. parent[current] = current - 1
      BY <1>2, <1>3, <1>5 DEF AppInv, StackInv
    <3> QED
      BY <1>1, <1>2, <1>3, <1>5, <1>16, <3>1
  <2>7. \A s \in Slots : task_state'[s] = "Zombie" => s = top' /\ parent'[s] = top' - 1
    BY <1>1, <1>3, <1>14, <2>6, Zenon
  <2>8. \E s \in Slots : task_state'[s] = "Zombie"
    BY <1>5, <1>14, Zenon
  <2> QED
    BY <1>15, <2>1, <2>2, <2>4, <2>5, <2>7, <2>8, Zenon DEF StackInv
<1>18. ProgramInv'
  <2>1. RunnableSlots' \subseteq RunnableSlots
    BY <1>14, Zenon DEF RunnableSlots
  <2> QED
    BY <1>1, <2>1, Zenon DEF AppInv, ProgramInv
<1> QED
  BY <1>12, <1>17, <1>18, Zenon

-----------------------------------------------------------------------------
\* Every step keeps the stack, and panics only for an unknown name.
LEMMA AppStep ==
  AppInv /\ PanicsOnlyOnBadName /\ [AppNext]_allvars => (AppInv /\ PanicsOnlyOnBadName)'
<1> SUFFICES ASSUME AppInv, PanicsOnlyOnBadName, [AppNext]_allvars
             PROVE  AppInv' /\ PanicsOnlyOnBadName'
  BY Zenon
<1>1. CASE UNCHANGED allvars
  <2>1. UNCHANGED vars /\ UNCHANGED appvars
    BY <1>1, Zenon DEF allvars
  <2>2. IInv' /\ NoneExits'
    BY <2>1, NextIInv, LiveIsNotExiting, Zenon DEF AppInv
  <2>3. UNCHANGED <<task_state, parent, current, top, panicked, app, upc, fork_ret, line>>
    BY <2>1, Zenon DEF vars, appvars
  <2>4. RunnableSlots' = RunnableSlots
    BY <2>3, Zenon DEF RunnableSlots
  <2> QED
    BY <2>2, <2>3, <2>4, Zenon DEF AppInv, StackInv, ProgramInv, PanicsOnlyOnBadName, ExecName, Runs
<1>2. CASE AppNext
  <2>1. IInv' /\ NoneExits' /\ panicked = "no"
    BY <1>2, AppStepsTasks, PanicIsFinal, NextIInv, LiveIsNotExiting, Zenon DEF AppInv
  <2> SUFFICES StackInv' /\ ProgramInv' /\ PanicsOnlyOnBadName'
    BY <2>1, Zenon DEF AppInv
  <2>2. CASE Exec
    BY <2>1, <2>2, ExecStep, Zenon DEF Exec, vars, PanicsOnlyOnBadName
  <2>3. CASE ExecUnknown
    <3>1. UNCHANGED <<app, line, current>> /\ panicked' = "user fault" /\ ExecName \notin Programs
      BY <2>3, Zenon DEF ExecUnknown, appvars, UserFault, table
    <3>2. PanicsOnlyOnBadName'
      BY <3>1, Zenon DEF PanicsOnlyOnBadName, ExecName, Runs
    <3>3. UNCHANGED <<task_state, parent, top, current>> /\ UNCHANGED appvars
      BY <2>3, Zenon DEF ExecUnknown, UserFault, table
    <3> QED
      BY <3>2, <3>3, Caller, ProgramsLeftAlone, Zenon
  <2>4. CASE \E c \in Commands : ShellRead(c)
    BY <2>1, <2>4, ReadStep, Zenon DEF ShellRead, GetcharDone, PanicsOnlyOnBadName
  <2>5. CASE Fork
    BY <2>1, <2>5, AppForkStep, Zenon DEF Fork, SysFork, PanicsOnlyOnBadName
  <2>6. CASE ForkFails
    BY <2>1, <2>6, ForkFailsStep, Zenon DEF ForkFails, SysForkFull, vars, PanicsOnlyOnBadName
  <2>7. CASE SetTrigger
    BY <2>1, <2>7, TriggerStep, Zenon DEF SetTrigger, SysSetTrigger, PanicsOnlyOnBadName
  <2>8. CASE Recycle
    BY <2>1, <2>8, RecycleStep, Zenon DEF Recycle, RecycleReap, PanicsOnlyOnBadName
  <2>9. CASE Loop
    BY <2>1, <2>9, LoopStep, Zenon DEF Loop, vars, PanicsOnlyOnBadName
  <2>10. CASE LoopFailed
    <3>1. UNCHANGED <<task_state, parent, top, current, panicked>> /\ UNCHANGED appvars
      BY <2>10, Zenon DEF LoopFailed, allvars, vars
    <3> QED
      BY <2>1, <3>1, Caller, ProgramsLeftAlone, Zenon DEF PanicsOnlyOnBadName
  <2>11. CASE Exit
    BY <2>1, <2>11, AppExitStep, Zenon DEF PanicsOnlyOnBadName
  <2>12. CASE ShellPoll \/ RecycleBlocks \/ (TimerTrap /\ UNCHANGED appvars)
    <3>1. PICK c \in Continuation : sys_yield(task_state, top, c)
      BY <2>12, Zenon DEF ShellPoll, RecycleBlocks, GetcharWait, RecycleWait, TimerTrap, Continuation
    <3>2. UNCHANGED <<parent, top>> /\ UNCHANGED appvars
      BY <2>12, Zenon DEF ShellPoll, RecycleBlocks, GetcharWait, RecycleWait, TimerTrap
    <3> QED
      BY <2>1, <3>1, <3>2, YieldStays, ProgramsLeftAlone, Zenon DEF PanicsOnlyOnBadName
  <2>13. CASE (Tick \/ TimerReturn) /\ UNCHANGED appvars
    <3>1. UNCHANGED <<task_state, parent, top, current, panicked>>
      BY <2>13, Zenon DEF Tick, TimerReturn, table
    <3> QED
      BY <2>1, <2>13, <3>1, Caller, ProgramsLeftAlone, Zenon DEF PanicsOnlyOnBadName
  <2>14. ~ExitReturn
    BY Caller, Zenon DEF ExitReturn, InKernel, AppInv, NoneExits
  <2> QED
    BY <1>2, <2>2, <2>3, <2>4, <2>5, <2>6, <2>7, <2>8, <2>9, <2>10, <2>11, <2>12, <2>13, <2>14, Zenon
       DEF AppNext, UserStep, KernelStep
<1> QED
  BY <1>1, <1>2, Zenon

\* The invariant holds at the start.
LEMMA AppStart == AppInit => AppInv /\ PanicsOnlyOnBadName
<1> SUFFICES ASSUME AppInit PROVE AppInv /\ PanicsOnlyOnBadName
  BY Zenon
<1>1. IInv
  BY InitIInv, Zenon DEF AppInit
<1>2. /\ task_state = [s \in Slots |-> IF s = 0 THEN "Running" ELSE "UnInit"] /\ current = 0 /\ top = 1
      /\ pc = [s \in Slots |-> "user"] /\ panicked = "no"
      /\ app = [s \in Slots |-> "atest"] /\ upc = [s \in Slots |-> "exec"]
      /\ fork_ret = [s \in Slots |-> 0]
  BY Zenon DEF AppInit, Init
<1>3. RunnableSlots = {0} /\ 0 \in Slots
  BY <1>2, SlotFacts, Zenon DEF RunnableSlots, Runnable
<1>4. StackInv
  BY <1>2, <1>3 DEF StackInv, HasChild
<1>5. ProgramInv
  BY <1>2, <1>3, Zenon DEF ProgramInv, Programs, LabelsOf
<1> QED
  BY <1>1, <1>2, <1>3, <1>4, <1>5, Zenon DEF AppInv, NoneExits, PanicsOnlyOnBadName

\* The stack of processes is there in every state.
LEMMA AppInvHolds == AppSpec => [](AppInv /\ PanicsOnlyOnBadName)
BY AppStart, AppStep, PTL DEF AppSpec

\* The shipped programs stop the kernel only by an exec of an unknown name, on
\* a task table of any size and whatever the user types: __sys_yield always
\* finds a task, and no Zombie is returned to.
THEOREM AppsPanicOnlyOnBadName == AppSpec => []PanicsOnlyOnBadName
BY AppInvHolds, PTL

\* The runnable processes are the slots below _top, which __sys_yield takes for
\* granted, although processes exit.
THEOREM AppsStayBelowTop == AppSpec => []AppsBelowTop
<1>1. AppInv => AppsBelowTop
  BY Zenon DEF AppInv, StackInv, AppsBelowTop, RunnableBelowTop
<1> QED
  BY <1>1, AppInvHolds, PTL

\* A program that calls recycle, or waits in it, has a child.
THEOREM AppsRecycleChildren == AppSpec => []RecycleHasChild
<1>1. AppInv => RecycleHasChild
  <2> SUFFICES ASSUME AppInv, NEW s \in RunnableSlots, upc[s] = "recycle"
               PROVE  \E c \in Slots : parent[c] = s
    BY Zenon DEF RecycleHasChild, Children
  <2>1. s \in 0..(top - 1) /\ top \in 1..MAX_TASK_NUM /\ 0..(top - 1) \subseteq Slots
    BY Zenon DEF AppInv, IInv, TypeOK, StackInv, RunnableSlots
  <2>2. CASE s = top - 1
    <3>1. HasChild(app[s], upc[s], fork_ret[s])
      BY Zenon DEF HasChild
    <3> QED
      BY <2>2, <3>1, Zenon DEF AppInv, StackInv
  <2>3. CASE s # top - 1
    <3>1. s + 1 \in 1..(top - 1) /\ s + 1 \in Slots /\ (s + 1) - 1 = s
      BY <2>1, <2>3
    <3> QED
      BY <3>1, Zenon DEF AppInv, StackInv
  <2> QED
    BY <2>2, <2>3, Zenon
<1> QED
  BY <1>1, AppInvHolds, PTL

\* Only one shell reads the console at a time.
THEOREM OneShellReads == AppSpec => []OneReader
<1>1. AppInv => OneReader
  BY LastProcess, Zenon DEF OneReader, HasChild
<1> QED
  BY <1>1, AppInvHolds, PTL

=============================================================================
