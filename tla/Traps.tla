-------------------------------- MODULE Traps --------------------------------
(***************************************************************************)
(* Registers on their way through a trap: __alltraps, __restore and        *)
(* __switch (os/src/kerneltrap.S) with trap_handler, trap_return, fork and *)
(* exec (os/src/trap.c), on top of the process table of Tasks.             *)
(*                                                                         *)
(* The record m is the hart and the memory that the routines save to:      *)
(*   x, pc, priv            general registers, program counter, privilege  *)
(*   sepc, spp, sscratch, satp, stvec     supervisor registers             *)
(*   trap[s]                the TrapContext in the trap page of slot s     *)
(*   cx[s]                  task_context of slot s                         *)
(* Each group of registers the code treats alike has one member in Regs:   *)
(* t0 for the temporaries, s0 for s0-s11 (and gp, tp), a0 and a7 for the   *)
(* arguments.  Words are integers; the address of the trap page of slot s, *)
(* and the satp token of its page table, are the number s.                 *)
(*                                                                         *)
(* An action of Tasks runs from a trap, or the return of __switch, to the  *)
(* next __switch or return to user mode; so does an action here.           *)
(***************************************************************************)
EXTENDS Tasks, Sequencing

CONSTANT Data     \* values that programs compute

ASSUME DataIsWords == Data \subseteq Nat

VARIABLE m

Regs == {"ra", "sp", "t0", "s0", "a0", "a7"}
CalleeSaved == {"ra", "sp", "s0"}

\* Addresses and tokens of the kernel.
KERNEL == -1                  \* satp of the kernel's page table
TRAMPOLINE == 1001            \* __alltraps, in every address space
TRAPFRAME == 1000             \* the trap page, in a process's address space
trap_handler == 1002
trap_from_kernel == 1003
trap_return == 1004
after_switch == 1005          \* in __sys_yield, behind its call of __switch
KSTACK(s) == 2000 + s

\* The two programs: a loop of one system call, which trap_handler lets go on
\* 8 bytes further.
Programs == {0, 1}
entry(p) == 16 * p
ustack(p) == 500 + p
UserCode == {entry(p) : p \in Programs} \cup {entry(p) + 8 : p \in Programs}

__SYS_YIELD == 2
__SET_TRIGGER == 3
__SYS_GET_CHAR__ == 5
__SYS_FORK == 6
__SYS_EXEC == 7
__SYS_EXIT == 8
__SYS_RECYCLE == 9

-----------------------------------------------------------------------------
(***************************************************************************)
(* The hardware: a trap into supervisor mode, and sret.                    *)
(***************************************************************************)
TrapIn(h) ==
  [h EXCEPT !.sepc = h.pc, !.spp = h.priv, !.priv = "S", !.pc = h.stvec]

sret(h) == [h EXCEPT !.pc = h.sepc, !.priv = h.spp]

-----------------------------------------------------------------------------
(***************************************************************************)
(* kerneltrap.S.  sp is TRAPFRAME when the registers are stored: the page  *)
(* behind it is the trap page of the address space in satp.                *)
(***************************************************************************)
\* A plausible bug: sp is saved with the other registers, after the swap.
SaveSwappedSp(h, c) ==
  [c EXCEPT !.x = [h.x EXCEPT !["sp"] = h.sscratch], !.sstatus = h.spp, !.sepc = h.sepc]

\* What __alltraps stores in the trap page c of the interrupted process.
SaveRegisters(h, c) == [c EXCEPT !.x = h.x, !.sstatus = h.spp, !.sepc = h.sepc]

alltraps(h) ==
  With(SaveRegisters(h, h.trap[h.satp]), LAMBDA c :
    [h EXCEPT !.trap[h.satp] = c,
              !.sscratch = h.x["sp"],
              !.x["t0"] = c.kernel_satp,
              !.x["sp"] = c.kernel_sp,
              !.satp = c.kernel_satp,
              !.pc = c.trap_handler])

\* a0 is the address of the trap page, user_satp the token in a1.
restore(h, user_satp) ==
  With([h EXCEPT !.satp = user_satp, !.sscratch = h.x["a0"],
                 !.spp = h.trap[user_satp].sstatus,
                 !.sepc = h.trap[user_satp].sepc,
                 !.x = h.trap[user_satp].x], sret)

\* A plausible bug: s0-s11 are not loaded from the next context.
LoadWithoutS(x, next) == [r \in Regs |-> IF r \in {"ra", "sp"} THEN next[r] ELSE x[r]]

LoadContext(x, next) == [r \in Regs |-> IF r \in CalleeSaved THEN next[r] ELSE x[r]]

switch(h, from, to) ==
  With([h EXCEPT !.cx[from] = [r \in CalleeSaved |-> h.x[r]]], LAMBDA j :
    [j EXCEPT !.x = LoadContext(@, j.cx[to]), !.pc = j.cx[to]["ra"]])

-----------------------------------------------------------------------------
(***************************************************************************)
(* trap.c and task.c.  The local cx of trap_handler is in s0.              *)
(***************************************************************************)
task_context_init(kstack, ret) ==
  [r \in CalleeSaved |-> CASE r = "ra" -> ret [] r = "sp" -> kstack [] r = "s0" -> 0]

\* trap_return in the context of slot s.
TrapReturn(h, s) ==
  restore([h EXCEPT !.stvec = TRAMPOLINE, !.x["a0"] = TRAPFRAME], s)

\* trap_handler up to the test of scause; _current is the slot in Tasks.
Handler(h) ==
  [h EXCEPT !.stvec = trap_from_kernel, !.x["s0"] = current]

\* user_syscall, the trap, and case 8 up to the call of __SYSCALL.
Ecall(id) ==
  With(Handler(alltraps(TrapIn([m EXCEPT !.x["a7"] = id, !.x["a0"] = 0]))), LAMBDA h :
    [h EXCEPT !.trap[h.x["s0"]].sepc = @ + 8])

\* The trap and case 5 up to the call of __sys_yield.
Interrupt == Handler(alltraps(TrapIn(m)))

\* The number that __SYSCALL dispatches on.
CallNumber(h) == h.trap[h.x["s0"]].x["a7"]

\* __SYSCALL has returned: cx->a0 = result, then trap_return.
Return(h, result) ==
  TrapReturn([h EXCEPT !.trap[h.x["s0"]].x["a0"] = result], current)

\* __sys_yield on the table ts with tp runnable tasks.  A task that is
\* switched to for the first time goes straight through trap_return.
Yield(h, ts, tp) ==
  IF ~CanSwitch(ts, tp) THEN h
  ELSE With(switch([h EXCEPT !.x["ra"] = after_switch], current, NextSlot(tp)), LAMBDA j :
         IF j.pc = trap_return THEN TrapReturn(j, NextSlot(tp)) ELSE j)

\* A plausible bug: the child's trap page keeps the father's kernel stack.
SharedStack(father, child) == [father EXCEPT !.x["a0"] = 0]

\* The trap page that fork makes for the child.
ChildTrap(father, child) ==
  [father EXCEPT !.x["a0"] = 0, !.kernel_sp = KSTACK(child)]

-----------------------------------------------------------------------------
(***************************************************************************)
(* os_main: app_init for slot 0 and the first __switch, which goes through *)
(* trap_return.  Other trap pages do not exist yet.                        *)
(***************************************************************************)
ZeroRegs == [r \in Regs |-> 0]

app_init ==
  [x |-> [ZeroRegs EXCEPT !["sp"] = ustack(0)], sstatus |-> "U", sepc |-> entry(0),
   kernel_satp |-> KERNEL, kernel_sp |-> KSTACK(0), trap_handler |-> trap_handler]

NoTrap ==
  [x |-> ZeroRegs, sstatus |-> "U", sepc |-> 0, kernel_satp |-> 0, kernel_sp |-> 0,
   trap_handler |-> 0]

AtBoot ==
  [x |-> ZeroRegs, pc |-> 0, priv |-> "S", sepc |-> 0, spp |-> "S", sscratch |-> 0,
   satp |-> KERNEL, stvec |-> trap_from_kernel,
   trap |-> [s \in Slots |-> IF s = 0 THEN app_init ELSE NoTrap],
   cx |-> [s \in Slots |-> IF s = 0 THEN task_context_init(KSTACK(0), trap_return)
                           ELSE task_context_init(0, 0)]]

TrapInit == Init /\ m = TrapReturn(AtBoot, 0)

-----------------------------------------------------------------------------
(***************************************************************************)
(* Steps.  A program computes and jumps back to its entry; at its entry it *)
(* makes a system call.                                                    *)
(***************************************************************************)
UserRun ==
  /\ InUser
  /\ \E v \in Data : m' = [m EXCEPT !.x["t0"] = v, !.x["s0"] = v + 1,
                                    !.pc = @ - (@ % 16)]
  /\ UNCHANGED vars

AtCall == InUser /\ m.pc % 16 = 0

\* The calls that return at once, with their result.
ReturnsAtOnce(id, result) ==
  \/ id = __SET_TRIGGER /\ result = 0 /\ SysSetTrigger
  \/ id = __SYS_GET_CHAR__ /\ result = 0 /\ GetcharDone
  \/ id = __SYS_FORK /\ result = -1 /\ SysForkFull
  \/ id = __SYS_RECYCLE /\ result = -1 /\ RecycleNoChild
  \/ /\ id = __SYS_RECYCLE /\ RecycleReap
     /\ \E child \in Slots : /\ task_state'[child] # task_state[child]
                             /\ result = pid[child]

\* The calls that yield.  exit has made the caller a Zombie by then.
Yields(id, h) ==
  \/ /\ \/ id = __SYS_YIELD /\ SysYield
        \/ id = __SYS_GET_CHAR__ /\ GetcharWait
        \/ id = __SYS_RECYCLE /\ RecycleWait
     /\ m' = Yield(h, task_state, top)
  \/ /\ id = __SYS_EXIT /\ SysExit
     /\ m' = Yield(h, [task_state EXCEPT ![current] = "Zombie"], top - 1)

\* A plausible bug: fork returns the slot of the child.
SlotOfChild(child) == child

ForkResult(child) == alloc_pid

Fork(h) ==
  /\ SysFork
  /\ \E child \in Slots :
       /\ alloc_proc(child)
       /\ m' = Return([h EXCEPT !.trap[child] = ChildTrap(h.trap[current], child),
                                !.cx[child] = task_context_init(KSTACK(child), trap_return)],
                      ForkResult(child))

\* The trap page stays; sepc and sp are those of the new program.
Exec(h) ==
  /\ InUser
  /\ \E p \in Programs :
       m' = Return([h EXCEPT !.trap[current].sepc = entry(p),
                             !.trap[current].x["sp"] = ustack(p)], 0)
  /\ UNCHANGED vars

Calls == {__SYS_YIELD, __SET_TRIGGER, __SYS_GET_CHAR__, __SYS_FORK, __SYS_EXEC,
          __SYS_EXIT, __SYS_RECYCLE}
Results == {-1} \cup 0..MaxPid

Syscalls ==
  /\ AtCall
  /\ \E id \in Calls : \E h \in {Ecall(id)} :
       \/ \E result \in Results :
            ReturnsAtOnce(CallNumber(h), result) /\ m' = Return(h, result)
       \/ Yields(CallNumber(h), h)
       \/ CallNumber(h) = __SYS_FORK /\ Fork(h)
       \/ CallNumber(h) = __SYS_EXEC /\ Exec(h)

\* A handler goes on behind its __sys_yield.
Resumed ==
  /\ pc[current] # "user"
  /\ \/ TimerReturn /\ m' = TrapReturn(m, current)
     \/ YieldReturn /\ m' = Return(m, 0)
     \/ \E result \in Results : /\ \/ ReturnsAtOnce(__SYS_GET_CHAR__, result)
                                   \/ ReturnsAtOnce(__SYS_RECYCLE, result)
                                /\ m' = Return(m, result)
     \/ Yields(__SYS_GET_CHAR__, m) \/ Yields(__SYS_RECYCLE, m)

\* Tick is time; the panics leave the registers to nobody.
Elsewhere == (Tick \/ SysExitInit \/ UserFault \/ ExitReturn) /\ UNCHANGED m

TrapNext ==
  \/ UserRun \/ Syscalls \/ Resumed \/ Elsewhere
  \/ TimerTrap /\ m' = Yield(Interrupt, task_state, top)

TrapSpec == TrapInit /\ [][TrapNext]_<<vars, m>>

-----------------------------------------------------------------------------
(***************************************************************************)
(* Properties.                                                             *)
(***************************************************************************)
\* Wherever a process is interrupted, __alltraps finds what it relies on: the
\* trampoline in stvec, TRAPFRAME in sscratch, the process's page table in
\* satp, and in its trap page the kernel's page table, the handler and the
\* process's own kernel stack.  In the kernel a trap goes to trap_from_kernel.
KernelEntry ==
  /\ \A s \in RunnableSlots :
       LET t == m.trap[s]
       IN  <<t.kernel_satp, t.kernel_sp, t.trap_handler, t.sstatus>> =
             <<KERNEL, KSTACK(s), trap_handler, "U">>
  /\ IF pc[current] = "user"
       THEN <<m.priv, m.stvec, m.sscratch, m.satp>> = <<"U", TRAMPOLINE, TRAPFRAME, current>>
       ELSE <<m.priv, m.stvec, m.satp>> = <<"S", trap_from_kernel, KERNEL>>

\* A handler that goes on after __switch, however many processes ran in
\* between, is on its own kernel stack and its local cx points to its own
\* trap page; a task that never ran starts in trap_return.
HandlerFindsItsContext ==
  /\ \A s \in RunnableSlots \ {current} :
       /\ m.cx[s]["sp"] = KSTACK(s)
       /\ IF pc[s] = "user" THEN m.cx[s]["ra"] = trap_return
          ELSE m.cx[s]["ra"] = after_switch /\ m.cx[s]["s0"] = s
  /\ pc[current] # "user" => m.x["sp"] = KSTACK(current) /\ m.x["s0"] = current

\* The registers of process s: on the hart, or saved in its trap page.
View(s) ==
  IF s = current /\ m.priv = "U" THEN [x |-> m.x, pc |-> m.pc]
  ELSE [x |-> m.trap[s].x, pc |-> m.trap[s].sepc]

Changed(s) == {r \in Regs : View(s).x[r] # View(s)'.x[r]}

InCall(s) == IF pc[s] = "user" THEN timer # "pending" ELSE pc[s] # "timer"

\* What the kernel may do to the registers of process s in one step.
Keeps(s) ==
  \/ View(s)' = View(s)
  \/ /\ s = current /\ InCall(s)
     /\ \/ /\ Changed(s) \subseteq {"a0", "a7"}
           /\ View(s)'.pc = View(s).pc + (IF pc[s] = "user" THEN 8 ELSE 0)
        \/ /\ Changed(s) \subseteq {"a0", "a7", "sp"}
           /\ View(s)'.x["a7"] = __SYS_EXEC
           /\ \E p \in Programs : <<View(s)'.pc, View(s)'.x["sp"]>> = <<entry(p), ustack(p)>>

\* A process gets back the registers it had.  A timer interrupt changes none,
\* at whatever instruction it comes and whoever runs meanwhile; a system call
\* changes those of its caller only, and of these a0 and a7, the program
\* counter once, and for exec the stack pointer.
KernelKeepsRegisters ==
  [][UserRun \/ \A s \in RunnableSlots \cap RunnableSlots' : Keeps(s)]_<<vars, m>>

ForkStep ==
  \A child \in Slots :
    task_state[child] = "UnInit" /\ task_state'[child] = "Ready" =>
      /\ View(child)' = [View(current)' EXCEPT !.x["a0"] = 0]
      /\ View(current)'.x["a0"] = pid'[child]
      /\ pid'[child] # 0

\* fork returns twice at one place and with the same registers: 0 in the
\* child, and in the father the pid of the child, which is never 0.
ForkReturnsTwice == [][ForkStep]_<<vars, m>>
=============================================================================
