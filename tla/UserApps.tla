------------------------------ MODULE UserApps ------------------------------
(***************************************************************************)
(* The programs shipped with the kernel (os/user: atest, user_shell, print *)
(* and time) running on the process model of Tasks.  Slot 0 starts in      *)
(* atest, which becomes the shell; the user types commands from Commands.  *)
(*                                                                         *)
(* upc[s] names the next system call of the program in slot s.  Calls that *)
(* only print are left out, except where they make a round of a loop.      *)
(***************************************************************************)
EXTENDS Tasks

CONSTANTS
  Commands,    \* the lines the user may type
  Rounds       \* rounds of the loops of print and time (5 in both)

ASSUME RoundsBound == Rounds \in Nat \ {0}

VARIABLES
  app,         \* the program in slot s
  upc,         \* its next system call
  fork_ret,    \* the sign of what its last fork returned
  line,        \* the shell's line buffer
  rounds       \* rounds of its loop so far

appvars == <<app, upc, fork_ret, line, rounds>>
allvars == <<vars, appvars>>

Programs == {"atest", "user_shell", "print", "time"}
NoLine == ""

AppInit ==
  /\ Init
  /\ app = [s \in Slots |-> "atest"]
  /\ upc = [s \in Slots |-> "exec"]
  /\ fork_ret = [s \in Slots |-> 0]
  /\ line = [s \in Slots |-> NoLine]
  /\ rounds = [s \in Slots |-> 0]

At(label) == upc[current] = label
Runs(program) == app[current] = program
GoTo(label) == upc' = [upc EXCEPT ![current] = label]

\* The first call of each program.
Entry(program) ==
  CASE program = "atest"      -> "exec"
    [] program = "user_shell" -> "set_trigger"
    [] program = "print"      -> "fork"
    [] program = "time"       -> "loop"

\* What the program in the current slot passes to exec.
ExecName == IF Runs("atest") THEN "user_shell" ELSE line[current]

\* exec replaces the program, on a fresh stack; a name that is not in the
\* image panics in get_app_data_by_name.
Exec ==
  /\ InUser /\ At("exec")
  /\ ExecName \in Programs
  /\ app' = [app EXCEPT ![current] = ExecName]
  /\ GoTo(Entry(ExecName))
  /\ line' = [line EXCEPT ![current] = NoLine]
  /\ rounds' = [rounds EXCEPT ![current] = 0]
  /\ fork_ret' = [fork_ret EXCEPT ![current] = 0]
  /\ UNCHANGED vars

ExecUnknown ==
  /\ At("exec")
  /\ ExecName \notin Programs
  /\ UserFault
  /\ UNCHANGED appvars

\* The shell reads a command; it polls while the user types nothing.  The
\* bound on pids leaves every command the two forks it can make.
ShellRead(command) ==
  /\ At("getchar")
  /\ next_pid + 1 <= MaxPid
  /\ GetcharDone
  /\ line' = [line EXCEPT ![current] = command]
  /\ GoTo("fork")
  /\ UNCHANGED <<app, fork_ret, rounds>>

ShellPoll ==
  /\ At("getchar")
  /\ GetcharWait
  /\ UNCHANGED appvars

\* A plausible bug: the shell prompts again without waiting for its child.
ShellGoesOn(program, ret) ==
  CASE program = "print"                  -> "set_trigger"
    [] program = "user_shell" /\ ret = 0  -> "exec"
    [] program = "user_shell" /\ ret # 0  -> "getchar"

\* Where a program goes on after fork returned ret.
AfterFork(program, ret) ==
  CASE program = "print"                  -> "set_trigger"
    [] program = "user_shell" /\ ret > 0  -> "recycle"
    [] program = "user_shell" /\ ret = 0  -> "exec"
    [] program = "user_shell" /\ ret < 0  -> "getchar"

\* Plausible bugs: print's father does not recycle its child, and print takes
\* the child for a father.
FatherExits(program, ret) ==
  CASE program = "user_shell"        -> "getchar"
    [] program = "print" /\ ret > 0  -> "exit"
    [] program = "print" /\ ret = 0  -> "loop"
    [] program = "print" /\ ret < 0  -> "failed"

ChildRecycles(program, ret) ==
  CASE program = "user_shell"        -> "getchar"
    [] program = "print" /\ ret >= 0 -> "recycle"
    [] program = "print" /\ ret < 0  -> "failed"

\* print looks at the value after its set_trigger.
AfterTrigger(program, ret) ==
  CASE program = "user_shell"        -> "getchar"
    [] program = "print" /\ ret > 0  -> "recycle"
    [] program = "print" /\ ret = 0  -> "loop"
    [] program = "print" /\ ret < 0  -> "failed"

\* The child is a copy of its father but for the value returned.
Fork ==
  /\ At("fork")
  /\ SysFork
  /\ LET child == CHOOSE s \in Slots : task_state'[s] # task_state[s]
         copy(f) == [f EXCEPT ![child] = f[current]]
     IN  /\ app' = copy(app)
         /\ line' = copy(line)
         /\ rounds' = copy(rounds)
         /\ fork_ret' = [fork_ret EXCEPT ![child] = 0, ![current] = 1]
         /\ upc' = [upc EXCEPT ![child] = AfterFork(app[current], 0),
                               ![current] = AfterFork(app[current], 1)]

ForkFails ==
  /\ At("fork")
  /\ SysForkFull
  /\ fork_ret' = [fork_ret EXCEPT ![current] = -1]
  /\ GoTo(AfterFork(app[current], -1))
  /\ UNCHANGED <<app, line, rounds>>

SetTrigger ==
  /\ At("set_trigger")
  /\ SysSetTrigger
  /\ GoTo(AfterTrigger(app[current], fork_ret[current]))
  /\ UNCHANGED <<app, fork_ret, line, rounds>>

\* The shell goes back to its prompt, print exits.  Both call recycle only
\* when they have a child (RecycleHasChild below).
Recycle ==
  /\ At("recycle")
  /\ RecycleReap
  /\ GoTo(IF Runs("user_shell") THEN "getchar" ELSE "exit")
  /\ UNCHANGED <<app, fork_ret, line, rounds>>

RecycleBlocks ==
  /\ At("recycle")
  /\ RecycleWait
  /\ UNCHANGED appvars

\* A round of the loop of time or of print's child; the last one exits.
Loop ==
  /\ InUser /\ At("loop")
  /\ rounds' = [rounds EXCEPT ![current] = @ + 1]
  /\ GoTo(IF rounds[current] + 1 = Rounds THEN "exit" ELSE "loop")
  /\ UNCHANGED <<vars, app, fork_ret, line>>

\* print without a child prints "failed" for ever.
LoopFailed ==
  /\ InUser /\ At("failed")
  /\ UNCHANGED allvars

Exit ==
  /\ At("exit")
  /\ SysExit
  /\ UNCHANGED appvars

UserStep ==
  \/ Exec \/ ExecUnknown \/ (\E c \in Commands : ShellRead(c)) \/ Fork \/ ForkFails
  \/ SetTrigger \/ Recycle \/ Loop \/ LoopFailed \/ Exit

KernelStep ==
  /\ Tick \/ TimerTrap \/ TimerReturn \/ ExitReturn
  /\ UNCHANGED appvars

AppNext == UserStep \/ ShellPoll \/ RecycleBlocks \/ KernelStep

\* Time passes and the hart runs.  A program is not starved by the timer: a
\* quantum of a millisecond is long enough for one more call.
AppFairness ==
  /\ WF_allvars(Tick /\ UNCHANGED appvars)
  /\ WF_allvars((TimerTrap \/ TimerReturn \/ ExitReturn) /\ UNCHANGED appvars)
  /\ WF_allvars(ShellPoll \/ RecycleBlocks)
  /\ \A s \in Slots :
       SF_allvars(current = s /\ (Exec \/ Fork \/ ForkFails \/ SetTrigger \/ Recycle \/ Loop \/ Exit))

AppSpec == AppInit /\ [][AppNext]_allvars /\ AppFairness

-----------------------------------------------------------------------------
(***************************************************************************)
(* Properties.                                                             *)
(***************************************************************************)

\* The shipped programs stop the kernel only by an exec of an unknown name:
\* they use fork, recycle and exit in an order for which __sys_yield finds a
\* task to run, and slot 0 never exits.
PanicsOnlyOnBadName ==
  panicked # "no" => panicked = "user fault" /\ ExecName \notin Programs

\* A program that calls recycle, or waits in it, has a child.
RecycleHasChild ==
  \A s \in RunnableSlots : upc[s] = "recycle" => Children(s) # {}

\* The processes are used as a stack: the runnable ones are below _top, as
\* __sys_yield needs, although processes exit.
AppsBelowTop == RunnableBelowTop

\* Only one shell reads the console at a time: a shell that has started a
\* program is not back at its prompt before the program has exited.
OneReader ==
  \A s, t \in RunnableSlots : upc[s] = "getchar" /\ upc[t] = "getchar" => s = t

\* The programs that end by themselves.
Ending == {"time", "print"}

\* When the first shell starts one of them, it comes back to its prompt: timer,
\* scheduler, exit and recycle together let the program end.
ShellReturns ==
  upc[0] = "fork" /\ line[0] \in Ending ~> upc[0] = "getchar"
=============================================================================
