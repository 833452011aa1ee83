----------------------------- MODULE TrapsProofs -----------------------------
(***************************************************************************)
(* Registers through traps, for task tables of every size.                 *)
(***************************************************************************)
EXTENDS Traps, TasksProofs

USE TaskBound

\* The trap page of a process, its task_context, and the hart with them.
TrapContext ==
  [x : [Regs -> Int], sstatus : {"U", "S"}, sepc : Int, kernel_satp : Int, kernel_sp : Int,
   trap_handler : Int]

TaskContext == [CalleeSaved -> Int]

Hart ==
  [x : [Regs -> Int], pc : Int, priv : {"U", "S"}, sepc : Int, spp : {"U", "S"}, sscratch : Int,
   satp : Int, stvec : Int, trap : [Slots -> TrapContext], cx : [Slots -> TaskContext]]

-----------------------------------------------------------------------------
(***************************************************************************)
(* The routines on the record m: what they return, field by field.         *)
(***************************************************************************)

\* The words of the kernel are integers.
LEMMA Words ==
  /\ KERNEL \in Int /\ TRAMPOLINE \in Int /\ TRAPFRAME \in Int /\ trap_handler \in Int
  /\ trap_from_kernel \in Int /\ trap_return \in Int /\ after_switch \in Int
  /\ after_switch # trap_return /\ Slots \subseteq Int
  /\ \A s \in Slots : KSTACK(s) \in Int
  /\ \A p \in Programs : entry(p) \in Int /\ ustack(p) \in Int
BY DEF KERNEL, TRAMPOLINE, TRAPFRAME, trap_handler, trap_from_kernel, trap_return, after_switch,
       Slots, KSTACK, Programs, entry, ustack

\* A register file in which one register is written is a register file.
LEMMA RegisterWritten ==
  ASSUME NEW x \in [Regs -> Int], NEW r, NEW w \in Int
  PROVE  [x EXCEPT ![r] = w] \in [Regs -> Int]
BY Zenon

\* A trap from user mode and __alltraps, up to the test of scause: the
\* interrupted registers are in the trap page, the hart is on the kernel's page
\* table and on the stack of the process, and s0 points to its trap page.
LEMMA EnterFacts ==
  ASSUME NEW h \in Hart, current \in Slots, h.satp = current,
         h.trap[current].kernel_satp = KERNEL, h.trap[current].kernel_sp = KSTACK(current)
  PROVE  LET e == Handler(alltraps(TrapIn(h)))
         IN  /\ e \in Hart /\ e.cx = h.cx
             /\ e.priv = "S" /\ e.stvec = trap_from_kernel /\ e.satp = KERNEL
             /\ e.x["sp"] = KSTACK(current) /\ e.x["s0"] = current
             /\ e.trap = [h.trap EXCEPT ![current] =
                            [@ EXCEPT !.x = h.x, !.sstatus = h.priv, !.sepc = h.pc]]
<1> DEFINE i == TrapIn(h)
           c == SaveRegisters(i, i.trap[i.satp])
           a == alltraps(i)
           e == Handler(a)
<1>1. /\ i \in Hart /\ i.satp = current /\ i.trap = h.trap /\ i.x = h.x /\ i.cx = h.cx
      /\ i.spp = h.priv /\ i.sepc = h.pc /\ i.priv = "S"
  BY Zenon DEF TrapIn, Hart
<1> HIDE DEF i
<1>2. c = [h.trap[current] EXCEPT !.x = h.x, !.sstatus = h.priv, !.sepc = h.pc]
  BY <1>1, Zenon DEF SaveRegisters
<1>3. h.trap[current] \in TrapContext /\ h.x \in [Regs -> Int] /\ h.priv \in {"U", "S"} /\ h.pc \in Int
  BY Zenon DEF Hart
<1>4. c \in TrapContext /\ c.kernel_satp = KERNEL /\ c.kernel_sp = KSTACK(current)
  BY <1>2, <1>3, Zenon DEF TrapContext
<1>5. a = [i EXCEPT !.trap[i.satp] = c, !.sscratch = i.x["sp"], !.x["t0"] = c.kernel_satp,
                    !.x["sp"] = c.kernel_sp, !.satp = c.kernel_satp, !.pc = c.trap_handler]
  BY Zenon DEF alltraps, With
<1> HIDE DEF c, a
<1>6. /\ a \in Hart /\ a.cx = h.cx /\ a.priv = "S" /\ a.satp = KERNEL /\ a.x["sp"] = KSTACK(current)
      /\ a.trap = [h.trap EXCEPT ![current] = c]
  BY <1>1, <1>4, <1>5, Words, ZenonT(30) DEF Hart, TrapContext, Regs
<1>7. /\ e \in Hart /\ e.cx = h.cx /\ e.trap = a.trap /\ e.priv = "S" /\ e.satp = KERNEL
      /\ e.stvec = trap_from_kernel /\ e.x["sp"] = KSTACK(current) /\ e.x["s0"] = current
  BY <1>6, Words, Zenon DEF Handler, Hart, Regs
<1> QED
  BY <1>2, <1>6, <1>7, Zenon DEF i, a

\* trap_return and __restore: the hart gets the registers of the trap page.
LEMMA ReturnFacts ==
  ASSUME NEW h \in Hart, NEW s \in Slots
  PROVE  LET r == TrapReturn(h, s)
         IN  /\ r \in Hart /\ r.trap = h.trap /\ r.cx = h.cx
             /\ r.x = h.trap[s].x /\ r.pc = h.trap[s].sepc /\ r.priv = h.trap[s].sstatus
             /\ r.stvec = TRAMPOLINE /\ r.sscratch = TRAPFRAME /\ r.satp = s
<1> DEFINE i == [h EXCEPT !.stvec = TRAMPOLINE, !.x["a0"] = TRAPFRAME]
           j == [i EXCEPT !.satp = s, !.sscratch = i.x["a0"], !.spp = i.trap[s].sstatus,
                          !.sepc = i.trap[s].sepc, !.x = i.trap[s].x]
<1>1. i \in Hart /\ i.trap = h.trap /\ i.cx = h.cx /\ i.stvec = TRAMPOLINE /\ i.x["a0"] = TRAPFRAME
  BY Words, Zenon DEF Hart, Regs
<1>2. TrapReturn(h, s) = sret(j)
  BY Zenon DEF TrapReturn, restore, With
<1>3. h.trap[s] \in TrapContext
  BY Zenon DEF Hart
<1> HIDE DEF i
<1>4. /\ j \in Hart /\ j.trap = h.trap /\ j.cx = h.cx /\ j.stvec = TRAMPOLINE /\ j.sscratch = TRAPFRAME
      /\ j.satp = s /\ j.x = h.trap[s].x /\ j.sepc = h.trap[s].sepc /\ j.spp = h.trap[s].sstatus
  BY <1>1, <1>3, Words, Zenon DEF Hart, TrapContext
<1> HIDE DEF j
<1> QED
  BY <1>2, <1>4, Zenon DEF sret, Hart

\* __switch: the callee-saved registers go to one context and come from another.
LEMMA SwitchFacts ==
  ASSUME NEW h \in Hart, NEW from \in Slots, NEW to \in Slots
  PROVE  LET r == switch(h, from, to)
         IN  /\ r \in Hart /\ r.trap = h.trap /\ r.priv = h.priv /\ r.stvec = h.stvec /\ r.satp = h.satp
             /\ r.cx = [h.cx EXCEPT ![from] = [q \in CalleeSaved |-> h.x[q]]]
             /\ \A q \in CalleeSaved : r.x[q] = r.cx[to][q]
             /\ r.pc = r.cx[to]["ra"]
<1> DEFINE v == [q \in CalleeSaved |-> h.x[q]]
           j == [h EXCEPT !.cx[from] = v]
           r == [j EXCEPT !.x = LoadContext(@, j.cx[to]), !.pc = j.cx[to]["ra"]]
<1>1. switch(h, from, to) = r
  BY Zenon DEF switch, With
<1>2. v \in TaskContext /\ CalleeSaved \subseteq Regs /\ "ra" \in CalleeSaved
  BY Zenon DEF Hart, TaskContext, CalleeSaved, Regs
<1> HIDE DEF v
<1>3. /\ j \in Hart /\ j.trap = h.trap /\ j.priv = h.priv /\ j.stvec = h.stvec /\ j.satp = h.satp
      /\ j.cx = [h.cx EXCEPT ![from] = v] /\ j.x = h.x
  BY <1>2, Zenon DEF Hart
<1> HIDE DEF j
<1>4. j.cx[to] \in TaskContext /\ j.x \in [Regs -> Int]
  BY <1>3, Zenon DEF Hart
<1>5. /\ LoadContext(j.x, j.cx[to]) \in [Regs -> Int]
      /\ \A q \in CalleeSaved : LoadContext(j.x, j.cx[to])[q] = j.cx[to][q]
  BY <1>2, <1>4, Zenon DEF LoadContext, TaskContext
<1>6. j.cx[to]["ra"] \in Int
  BY <1>2, <1>4, Zenon DEF TaskContext
<1>7. /\ r \in Hart /\ r.trap = j.trap /\ r.priv = j.priv /\ r.stvec = j.stvec /\ r.satp = j.satp
      /\ r.cx = j.cx /\ r.x = LoadContext(j.x, j.cx[to]) /\ r.pc = j.cx[to]["ra"]
  BY <1>3, <1>5, <1>6, Zenon DEF Hart
<1> HIDE DEF r
<1> QED
  BY <1>1, <1>3, <1>5, <1>7, Zenon DEF v

-----------------------------------------------------------------------------
(***************************************************************************)
(* The inductive invariant.  R is the set of runnable slots, c the slot    *)
(* that has the hart, p where each slot continues.                         *)
(***************************************************************************)
Entry(t, s) ==
  /\ t.kernel_satp = KERNEL /\ t.kernel_sp = KSTACK(s)
  /\ t.trap_handler = trap_handler /\ t.sstatus = "U"

Saved(k, s, where) ==
  /\ k["sp"] = KSTACK(s)
  /\ IF where = "user" THEN k["ra"] = trap_return
     ELSE k["ra"] = after_switch /\ k["s0"] = s

\* What is in memory for the processes: a trap page for each, and a task context
\* for those that wait for the hart.
Served(h, R, c, p) ==
  /\ h \in Hart
  /\ \A s \in R : Entry(h.trap[s], s)
  /\ \A s \in R \ {c} : Saved(h.cx[s], s, p[s])

\* The hart in user mode, and in the handler, of slot c.
AtUser(h, c) ==
  h.priv = "U" /\ h.stvec = TRAMPOLINE /\ h.sscratch = TRAPFRAME /\ h.satp = c

InHandler(h, c) ==
  /\ h.priv = "S" /\ h.stvec = trap_from_kernel /\ h.satp = KERNEL
  /\ h.x["sp"] = KSTACK(c) /\ h.x["s0"] = c

Mode(h, c, p) == IF p[c] = "user" THEN AtUser(h, c) ELSE InHandler(h, c)

TrapInv ==
  /\ IInv
  /\ Served(m, RunnableSlots, current, pc)
  /\ Mode(m, current, pc)

\* The registers of slot s as the trap page has them, and wherever they are.
InPage(h, s) == [x |-> h.trap[s].x, pc |-> h.trap[s].sepc]

Seen(h, c, s) == IF s = c /\ h.priv = "U" THEN [x |-> h.x, pc |-> h.pc] ELSE InPage(h, s)

\* The task on the hart is runnable and in user mode, or back in a call.
LEMMA Caller ==
  ASSUME TrapInv, panicked = "no", pc[current] # "exit"
  PROVE  current \in RunnableSlots /\ current \in Slots
BY Zenon DEF TrapInv, IInv, TypeOK, HartRunsLiveTask, RunnableSlots

\* A trap from user mode puts the hart in the handler of the current task with
\* its registers in its trap page, and leaves the other processes alone.
LEMMA InterruptServed ==
  ASSUME TrapInv, InKernel("user")
  PROVE  /\ Served(Interrupt, RunnableSlots, current, pc) /\ InHandler(Interrupt, current)
         /\ \A s \in Slots : InPage(Interrupt, s) = Seen(m, current, s)
<1>1. current \in RunnableSlots /\ current \in Slots /\ RunnableSlots \subseteq Slots
  BY Caller, Zenon DEF InKernel, RunnableSlots
<1>2. m \in Hart /\ AtUser(m, current) /\ Entry(m.trap[current], current)
  BY <1>1, Zenon DEF TrapInv, Served, Mode, InKernel
<1>3. /\ Interrupt \in Hart /\ Interrupt.cx = m.cx
      /\ Interrupt.priv = "S" /\ Interrupt.stvec = trap_from_kernel /\ Interrupt.satp = KERNEL
      /\ Interrupt.x["sp"] = KSTACK(current) /\ Interrupt.x["s0"] = current
      /\ Interrupt.trap = [m.trap EXCEPT ![current] =
                             [@ EXCEPT !.x = m.x, !.sstatus = m.priv, !.sepc = m.pc]]
  BY <1>1, <1>2, EnterFacts, Zenon DEF Interrupt, AtUser, Entry
<1>4. m.trap \in [Slots -> TrapContext]
  BY <1>2, Zenon DEF Hart
<1>5. \A s \in Slots \ {current} : Interrupt.trap[s] = m.trap[s]
  BY <1>1, <1>3, <1>4, Zenon
<1>6. Interrupt.trap[current] = [m.trap[current] EXCEPT !.x = m.x, !.sstatus = "U", !.sepc = m.pc]
  BY <1>1, <1>2, <1>3, <1>4, Zenon DEF AtUser
<1>7. Interrupt.trap[current].x = m.x /\ Interrupt.trap[current].sepc = m.pc
      /\ Entry(Interrupt.trap[current], current)
  BY <1>1, <1>2, <1>4, <1>6, Zenon DEF TrapContext, Entry
<1>8. Served(Interrupt, RunnableSlots, current, pc)
  BY <1>1, <1>3, <1>5, <1>7, Zenon DEF Served, TrapInv
<1>9. \A s \in Slots : InPage(Interrupt, s) = Seen(m, current, s)
  BY <1>2, <1>5, <1>7, Zenon DEF InPage, Seen, AtUser
<1> QED
  BY <1>3, <1>8, <1>9, Zenon DEF InHandler

\* The same for a system call, which puts its number in a7 and its argument in
\* a0, and moves sepc behind the call.
LEMMA EcallServed ==
  ASSUME TrapInv, InKernel("user"), NEW id \in Int
  PROVE  LET h == Ecall(id)
         IN  /\ Served(h, RunnableSlots, current, pc) /\ InHandler(h, current)
             /\ \A s \in Slots \ {current} : InPage(h, s) = Seen(m, current, s)
             /\ InPage(h, current) = [x |-> [m.x EXCEPT !["a7"] = id, !["a0"] = 0], pc |-> m.pc + 8]
             /\ CallNumber(h) = id
<1> DEFINE u == [m EXCEPT !.x["a7"] = id, !.x["a0"] = 0]
           e == Handler(alltraps(TrapIn(u)))
           h == [e EXCEPT !.trap[e.x["s0"]].sepc = @ + 8]
<1>1. current \in RunnableSlots /\ current \in Slots /\ RunnableSlots \subseteq Slots
  BY Caller, Zenon DEF InKernel, RunnableSlots
<1>2. m \in Hart /\ AtUser(m, current) /\ Entry(m.trap[current], current)
  BY <1>1, Zenon DEF TrapInv, Served, Mode, InKernel
<1>3. Ecall(id) = h
  BY Zenon DEF Ecall, With
<1>4. /\ u \in Hart /\ u.x = [m.x EXCEPT !["a7"] = id, !["a0"] = 0] /\ u.priv = "U"
      /\ u.satp = current /\ u.trap = m.trap /\ u.cx = m.cx /\ u.pc = m.pc
  <2> DEFINE x == [m.x EXCEPT !["a7"] = id, !["a0"] = 0]
  <2>1. x \in [Regs -> Int]
    BY <1>2 DEF Hart, Regs
  <2>2. u = [m EXCEPT !.x = x]
    BY <1>2, Zenon DEF Hart
  <2> HIDE DEF x, u
  <2>3. u \in Hart /\ u.x = x /\ u.priv = "U" /\ u.satp = current /\ u.trap = m.trap
        /\ u.cx = m.cx /\ u.pc = m.pc
    BY <1>2, <2>1, <2>2, Zenon DEF Hart, AtUser
  <2> QED
    BY <2>3, Zenon DEF x
<1> HIDE DEF u
<1>5. /\ e \in Hart /\ e.cx = m.cx
      /\ e.priv = "S" /\ e.stvec = trap_from_kernel /\ e.satp = KERNEL
      /\ e.x["sp"] = KSTACK(current) /\ e.x["s0"] = current
      /\ e.trap = [u.trap EXCEPT ![current] =
                     [@ EXCEPT !.x = u.x, !.sstatus = u.priv, !.sepc = u.pc]]
  BY <1>1, <1>2, <1>4, EnterFacts, Zenon DEF Entry
<1> HIDE DEF e
<1>6. m.trap \in [Slots -> TrapContext] /\ m.pc \in Int /\ u.x \in [Regs -> Int]
  BY <1>2, <1>4, Zenon DEF Hart
<1>7. \A s \in Slots \ {current} : e.trap[s] = m.trap[s]
  BY <1>1, <1>4, <1>5, <1>6, Zenon
<1>8. e.trap[current] = [m.trap[current] EXCEPT !.x = u.x, !.sstatus = "U", !.sepc = m.pc]
  BY <1>1, <1>4, <1>5, <1>6, Zenon
<1>9. /\ e.trap[current] \in TrapContext /\ e.trap[current].x = u.x /\ e.trap[current].sepc = m.pc
      /\ Entry(e.trap[current], current)
  <2>1. m.trap[current] \in TrapContext
    BY <1>1, <1>6, Zenon
  <2> QED
    BY <1>2, <1>6, <1>8, <2>1, Zenon DEF TrapContext, Entry
<1>10. /\ h.trap = [e.trap EXCEPT ![current] = [@ EXCEPT !.sepc = @ + 8]]
       /\ h.cx = e.cx /\ h.priv = e.priv /\ h.stvec = e.stvec /\ h.satp = e.satp /\ h.x = e.x
  BY <1>5 DEF Hart
<1>11. h.trap[current] = [e.trap[current] EXCEPT !.sepc = m.pc + 8]
       /\ \A s \in Slots \ {current} : h.trap[s] = m.trap[s]
  BY <1>1, <1>5, <1>7, <1>9, <1>10, ZenonT(30) DEF Hart
<1>12. /\ h.trap[current] \in TrapContext /\ h.trap[current].x = u.x
       /\ h.trap[current].sepc = m.pc + 8 /\ Entry(h.trap[current], current)
  BY <1>6, <1>9, <1>11 DEF TrapContext, Entry
<1>13. h \in Hart
  <2>1. h.trap \in [Slots -> TrapContext]
    BY <1>1, <1>5, <1>6, <1>10, <1>11, <1>12, Zenon DEF Hart
  <2>2. h = [e EXCEPT !.trap = h.trap]
    BY <1>5, Zenon DEF Hart
  <2> QED
    BY <1>5, <2>1, <2>2, Zenon DEF Hart
<1> HIDE DEF h
<1>14. Served(h, RunnableSlots, current, pc) /\ InHandler(h, current)
  BY <1>1, <1>5, <1>10, <1>11, <1>12, <1>13, Zenon DEF Served, TrapInv, InHandler
<1>15. \A s \in Slots \ {current} : InPage(h, s) = Seen(m, current, s)
  BY <1>11, Zenon DEF InPage, Seen
<1>16. InPage(h, current) = [x |-> [m.x EXCEPT !["a7"] = id, !["a0"] = 0], pc |-> m.pc + 8]
  BY <1>4, <1>12, Zenon DEF InPage
<1>17. CallNumber(h) = id
  BY <1>2, <1>4, <1>5, <1>10, <1>12 DEF CallNumber, Hart, Regs
<1> QED
  BY <1>3, <1>14, <1>15, <1>16, <1>17, Zenon

\* trap_return leaves the handler for user mode, with the registers of the page.
LEMMA TrapReturnServed ==
  ASSUME NEW h, NEW R \in SUBSET Slots, NEW c \in R, NEW p, Served(h, R, c, p)
  PROVE  LET r == TrapReturn(h, c)
         IN  /\ Served(r, R, c, p) /\ AtUser(r, c)
             /\ \A s \in Slots : Seen(r, c, s) = InPage(h, s)
<1> DEFINE r == TrapReturn(h, c)
<1>1. h \in Hart /\ c \in Slots /\ Entry(h.trap[c], c)
  BY Zenon DEF Served
<1>2. /\ r \in Hart /\ r.trap = h.trap /\ r.cx = h.cx
      /\ r.x = h.trap[c].x /\ r.pc = h.trap[c].sepc /\ r.priv = "U"
      /\ r.stvec = TRAMPOLINE /\ r.sscratch = TRAPFRAME /\ r.satp = c
  BY <1>1, ReturnFacts, Zenon DEF Entry
<1> HIDE DEF r
<1>3. Served(r, R, c, p)
  BY <1>2, Zenon DEF Served
<1>4. \A s \in Slots : Seen(r, c, s) = InPage(h, s)
  BY <1>2, Zenon DEF Seen, InPage
<1> QED
  BY <1>2, <1>3, <1>4, Zenon DEF AtUser, r

\* A handler that is done stores its result in a0 of its own trap page.
LEMMA ReturnServed ==
  ASSUME NEW h, NEW R \in SUBSET Slots, current \in R, NEW p, NEW result \in Int,
         Served(h, R, current, p), InHandler(h, current)
  PROVE  LET r == Return(h, result)
         IN  /\ Served(r, R, current, p) /\ AtUser(r, current)
             /\ \A s \in Slots \ {current} : Seen(r, current, s) = InPage(h, s)
             /\ Seen(r, current, current) = [InPage(h, current) EXCEPT !.x["a0"] = result]
<1> DEFINE k == [h EXCEPT !.trap[h.x["s0"]].x["a0"] = result]
           t == [h.trap[current] EXCEPT !.x["a0"] = result]
<1>1. h \in Hart /\ current \in Slots /\ h.x["s0"] = current /\ h.trap \in [Slots -> TrapContext]
  BY Zenon DEF Served, InHandler, Hart
<1>2. h.trap[current] \in TrapContext /\ Entry(h.trap[current], current)
  BY <1>1, Zenon DEF Served
<1>3. /\ t \in TrapContext /\ Entry(t, current) /\ t.sepc = h.trap[current].sepc
      /\ t.x = [h.trap[current].x EXCEPT !["a0"] = result]
  BY <1>2, Zenon DEF TrapContext, Entry, Regs
<1>4. k = [h EXCEPT !.trap = [h.trap EXCEPT ![current] = t]]
  BY <1>1, Zenon DEF Hart
<1> HIDE DEF k, t
<1>5. k \in Hart /\ k.trap = [h.trap EXCEPT ![current] = t] /\ k.cx = h.cx
  BY <1>1, <1>3, <1>4, Zenon DEF Hart
<1>6. k.trap[current] = t /\ \A s \in Slots \ {current} : k.trap[s] = h.trap[s]
  BY <1>1, <1>5, Zenon
<1>7. Served(k, R, current, p)
  BY <1>3, <1>5, <1>6, Zenon DEF Served
<1>8. Return(h, result) = TrapReturn(k, current)
  BY Zenon DEF Return, k
<1>9. /\ Served(Return(h, result), R, current, p) /\ AtUser(Return(h, result), current)
      /\ \A s \in Slots : Seen(Return(h, result), current, s) = InPage(k, s)
  BY <1>7, <1>8, TrapReturnServed, Zenon
<1>10. \A s \in Slots \ {current} : InPage(k, s) = InPage(h, s)
  BY <1>6, Zenon DEF InPage
<1>11. InPage(k, current) = [InPage(h, current) EXCEPT !.x["a0"] = result]
  BY <1>3, <1>6 DEF InPage
<1> QED
  BY <1>1, <1>9, <1>10, <1>11, Zenon

\* __sys_yield from the handler of the current task, which will go on behind it:
\* the next task is in its handler, on its own stack, or for the first time in
\* user mode.  No trap page changes.
LEMMA YieldServed ==
  ASSUME NEW h, NEW R \in SUBSET Slots, NEW p, NEW ts, NEW tp,
         current \in Slots, Served(h, R, current, p), InHandler(h, current), p[current] # "user",
         CanSwitch(ts, tp) => NextSlot(tp) \in R
  PROVE  LET r == Yield(h, ts, tp)
             c == IF CanSwitch(ts, tp) THEN NextSlot(tp) ELSE current
         IN  /\ Served(r, R, c, p) /\ Mode(r, c, p)
             /\ \A s \in Slots : Seen(r, c, s) = InPage(h, s)
<1>1. CASE ~CanSwitch(ts, tp)
  BY <1>1, Zenon DEF Yield, Mode, InHandler, Seen
<1>2. CASE CanSwitch(ts, tp)
  <2> DEFINE n == NextSlot(tp)
             i == [h EXCEPT !.x["ra"] = after_switch]
             j == switch(i, current, n)
             saved == [q \in CalleeSaved |-> i.x[q]]
             r == IF j.pc = trap_return THEN TrapReturn(j, n) ELSE j
  <2>1. Yield(h, ts, tp) = r
    BY <1>2 DEF Yield, With
  <2>2. n \in R /\ n \in Slots /\ h \in Hart
    BY <1>2, Zenon DEF Served
  <2> HIDE DEF n
  <2>3. /\ i \in Hart /\ i.trap = h.trap /\ i.cx = h.cx /\ i.x["ra"] = after_switch
        /\ i.priv = "S" /\ i.stvec = trap_from_kernel /\ i.satp = KERNEL
        /\ i.x["sp"] = KSTACK(current) /\ i.x["s0"] = current
    BY <2>2, Words, Zenon DEF Hart, Regs, InHandler
  <2> HIDE DEF i
  <2>4. /\ j \in Hart /\ j.trap = h.trap
        /\ j.priv = "S" /\ j.stvec = trap_from_kernel /\ j.satp = KERNEL
        /\ j.cx = [h.cx EXCEPT ![current] = saved]
        /\ \A q \in CalleeSaved : j.x[q] = j.cx[n][q]
        /\ j.pc = j.cx[n]["ra"]
    BY <2>2, <2>3, SwitchFacts
  <2> HIDE DEF j
  <2>5. Saved(saved, current, p[current])
    BY <2>3, Zenon DEF Saved, CalleeSaved
  <2> HIDE DEF saved
  <2>6. j.cx[current] = saved /\ \A s \in Slots \ {current} : j.cx[s] = h.cx[s]
    BY <2>2, <2>4, Zenon DEF Hart
  <2>7. \A s \in R : Saved(j.cx[s], s, p[s])
    BY <2>5, <2>6, Zenon DEF Served
  <2>8. Served(j, R, n, p)
    BY <2>4, <2>7, Zenon DEF Served
  <2>9. CASE p[n] = "user"
    <3>1. j.pc = trap_return
      BY <2>2, <2>4, <2>7, <2>9, Zenon DEF Saved
    <3>2. r = TrapReturn(j, n)
      BY <3>1, Zenon
    <3>3. /\ Served(r, R, n, p) /\ AtUser(r, n)
          /\ \A s \in Slots : Seen(r, n, s) = InPage(j, s)
      BY <2>2, <2>8, <3>2, TrapReturnServed, Zenon
    <3> QED
      BY <1>2, <2>1, <2>4, <2>9, <3>3, Zenon DEF Mode, InPage, n
  <2>10. CASE p[n] # "user"
    <3>1. j.pc # trap_return /\ j.x["sp"] = KSTACK(n) /\ j.x["s0"] = n
      BY <2>2, <2>4, <2>7, <2>10, Words, Zenon DEF Saved, CalleeSaved
    <3>2. r = j
      BY <3>1, Zenon
    <3>3. InHandler(r, n) /\ \A s \in Slots : Seen(r, n, s) = InPage(h, s)
      BY <2>4, <3>1, <3>2, Zenon DEF InHandler, Seen, InPage
    <3> QED
      BY <1>2, <2>1, <2>8, <2>10, <3>2, <3>3, Zenon DEF Mode, n
  <2> QED
    BY <2>9, <2>10, Zenon
<1> QED
  BY <1>1, <1>2, Zenon

-----------------------------------------------------------------------------
(***************************************************************************)
(* Steps: what they do to the table, and then to the registers.            *)
(***************************************************************************)
NoFork == \A s \in Slots : ~(task_state[s] = "UnInit" /\ task_state'[s] = "Ready")

\* A handler of the current task returns: the table of runnable slots stays.
GoesBack ==
  /\ panicked = "no" /\ pc[current] # "exit" /\ current' = current
  /\ RunnableSlots' = RunnableSlots /\ NoFork
  /\ pc'[current] = "user" /\ \A s \in Slots \ {current} : pc'[s] = pc[s]

\* The current task calls __sys_yield and will go on behind it.
GivesWay(ts, tp) ==
  /\ panicked = "no" /\ pc[current] # "exit" /\ NoFork
  /\ current' = IF CanSwitch(ts, tp) THEN NextSlot(tp) ELSE current
  /\ CanSwitch(ts, tp) => NextSlot(tp) \in RunnableSlots'
  /\ RunnableSlots' \subseteq RunnableSlots
  /\ pc'[current] # "user" /\ \A s \in Slots \ {current} : pc'[s] = pc[s]

\* A call that returns at once leaves the runnable slots as they are.
LEMMA AtOnceFacts ==
  ASSUME TrapInv, NEW id, NEW result, ReturnsAtOnce(id, result)
  PROVE  GoesBack /\ InCall(current)
<1>1. TypeOK /\ current \in Slots /\ pc \in [Slots -> Continuation] /\ task_state \in [Slots -> TaskState]
  BY Zenon DEF TrapInv, IInv, TypeOK
<1>2. CASE SysSetTrigger
  BY <1>1, <1>2, Zenon
     DEF SysSetTrigger, InUser, InKernel, table, GoesBack, RunnableSlots, NoFork, InCall
<1>3. CASE GetcharDone
  BY <1>1, <1>3, Zenon
     DEF GetcharDone, PollsConsole, InUser, InKernel, table, GoesBack, RunnableSlots, NoFork,
                    InCall
<1>4. CASE SysForkFull \/ RecycleNoChild
  BY <1>1, <1>4, Zenon
     DEF SysForkFull, RecycleNoChild, vars, InUser, InKernel, GoesBack, RunnableSlots, NoFork,
                    InCall
<1>5. CASE RecycleReap
  <2>1. /\ panicked = "no" /\ current' = current /\ pc' = [pc EXCEPT ![current] = "user"]
        /\ pc[current] \in {"user", "recycle"} /\ (pc[current] = "user" => timer # "pending")
    BY <1>5, Zenon DEF RecycleReap, Scans, InUser, InKernel
  <2>2. PICK child \in ZombiesOf(current) : task_state' = [task_state EXCEPT ![child] = "UnInit"]
    BY <1>5, Zenon DEF RecycleReap
  <2>3. child \in Slots /\ task_state[child] = "Zombie"
    BY Zenon DEF ZombiesOf, Children
  <2>4. \A s \in Slots : task_state'[s] = IF s = child THEN "UnInit" ELSE task_state[s]
    BY <1>1, <2>2, Zenon
  <2>5. RunnableSlots' = RunnableSlots /\ NoFork
    BY <2>3, <2>4, Zenon DEF RunnableSlots, Runnable, NoFork
  <2> QED
    BY <1>1, <2>1, <2>5, Zenon DEF GoesBack, InCall
<1> QED
  BY <1>2, <1>3, <1>4, <1>5, Zenon DEF ReturnsAtOnce

\* __sys_yield with the table as it is.
LEMMA GivesWayFacts ==
  ASSUME TrapInv, NEW c \in Continuation \ {"user", "exit"}, panicked = "no", pc[current] # "exit",
         sys_yield(task_state, top, c)
  PROVE  GivesWay(task_state, top)
<1>1. /\ TypeOK /\ current \in Slots /\ pc \in [Slots -> Continuation]
      /\ task_state \in [Slots -> TaskState] /\ top \in 1..MAX_TASK_NUM
      /\ \A s \in Slots : task_state[s] = "Running" => s = current
  BY Zenon DEF TrapInv, IInv, TypeOK, HartRunsLiveTask
<1>2. /\ \A s \in Slots : task_state'[s] \in Runnable <=> task_state[s] \in Runnable
      /\ \A s \in Slots : task_state[s] \notin Runnable => task_state'[s] = task_state[s]
      /\ current' \in Slots
      /\ pc' = [pc EXCEPT ![current] = c]
  BY <1>1, YieldFacts
<1>3. RunnableSlots' = RunnableSlots /\ NoFork
  BY <1>2, Zenon DEF RunnableSlots, NoFork, Runnable
<1>4. CanSwitch(task_state, top) => NextSlot(top) \in RunnableSlots'
  BY <1>2, <1>3, Zenon DEF sys_yield, CanSwitch, RunnableSlots
<1>5. current' = IF CanSwitch(task_state, top) THEN NextSlot(top) ELSE current
  BY Zenon DEF sys_yield
<1> QED
  BY <1>1, <1>2, <1>3, <1>4, <1>5, Zenon DEF GivesWay

\* exit: the caller is no longer runnable when __sys_yield looks for the next.
LEMMA ExitGivesWay ==
  ASSUME TrapInv, SysExit
  PROVE  GivesWay([task_state EXCEPT ![current] = "Zombie"], top - 1)
<1> DEFINE ts == [task_state EXCEPT ![current] = "Zombie"]
<1>1. /\ TypeOK /\ current \in Slots /\ pc \in [Slots -> Continuation]
      /\ task_state \in [Slots -> TaskState] /\ top \in 1..MAX_TASK_NUM
      /\ \A s \in Slots : task_state[s] = "Running" => s = current
  BY Zenon DEF TrapInv, IInv, TypeOK, HartRunsLiveTask
<1>2. panicked = "no" /\ pc[current] = "user" /\ sys_yield(ts, top - 1, "exit")
      /\ task_state[current] \in Runnable
  BY Zenon DEF SysExit, InUser, InKernel, TrapInv, IInv, HartRunsLiveTask
<1>3. \A s \in Slots : ts[s] = IF s = current THEN "Zombie" ELSE task_state[s]
  BY <1>1, Zenon
<1>4. ts \in [Slots -> TaskState]
  BY <1>1, Zenon DEF TaskState
<1> HIDE DEF ts
<1>5. /\ pc' = [pc EXCEPT ![current] = "exit"]
      /\ current' = IF CanSwitch(ts, top - 1) THEN NextSlot(top - 1) ELSE current
      /\ task_state' = IF CanSwitch(ts, top - 1) THEN SwitchTo(ts, NextSlot(top - 1)) ELSE ts
  BY <1>2, Zenon DEF sys_yield
<1>6. CanSwitch(ts, top - 1) => /\ NextSlot(top - 1) \in Slots
                                /\ ts[NextSlot(top - 1)] \in Runnable
  <2> SUFFICES ASSUME CanSwitch(ts, top - 1)
               PROVE  NextSlot(top - 1) \in Slots /\ ts[NextSlot(top - 1)] \in Runnable
    BY Zenon
  <2>1. top - 1 \in Nat \ {0} /\ current + 1 \in Nat
    BY <1>1 DEF CanSwitch, Slots
  <2>2. NextSlot(top - 1) \in 0..(top - 1 - 1)
    BY <2>1, ModFacts, Zenon DEF NextSlot
  <2> QED
    BY <1>1, <2>2 DEF CanSwitch, Slots
<1> DEFINE n == NextSlot(top - 1)
<1>7. \A s \in Slots : CanSwitch(ts, top - 1) =>
        task_state'[s] = IF s = n THEN "Running" ELSE ts[s]
  <2> SUFFICES ASSUME CanSwitch(ts, top - 1), NEW s \in Slots
               PROVE  task_state'[s] = IF s = n THEN "Running" ELSE ts[s]
    BY Zenon
  <2> HIDE DEF n
  <2>1. n # current /\ n \in Slots /\ ts[current] = "Zombie"
    BY <1>1, <1>3, <1>6, Zenon DEF Runnable, n
  <2>2. task_state' = [ts EXCEPT ![n] = "Running", ![current] = IF @ = "Running" THEN "Ready" ELSE @]
    BY <1>5, Zenon DEF SwitchTo, n
  <2> QED
    BY <1>1, <1>4, <2>1, <2>2, Zenon
<1> HIDE DEF n
<1>8. CASE CanSwitch(ts, top - 1)
  <2>1. n \in Slots /\ ts[n] \in Runnable /\ n # current
    BY <1>3, <1>6, <1>8, Zenon DEF n, Runnable
  <2>2. RunnableSlots' \subseteq RunnableSlots /\ NoFork /\ n \in RunnableSlots'
    BY <1>3, <1>7, <1>8, <2>1, Zenon DEF RunnableSlots, NoFork, Runnable
  <2> QED
    BY <1>1, <1>2, <1>5, <1>8, <2>2, Zenon DEF GivesWay, n, ts
<1>9. CASE ~CanSwitch(ts, top - 1)
  <2>1. RunnableSlots' \subseteq RunnableSlots /\ NoFork
    BY <1>3, <1>5, <1>9, Zenon DEF RunnableSlots, NoFork, Runnable
  <2> QED
    BY <1>1, <1>2, <1>5, <1>9, <2>1, Zenon DEF GivesWay, ts
<1> QED
  BY <1>8, <1>9, Zenon

\* Every call that yields.
LEMMA YieldsFacts ==
  ASSUME TrapInv, NEW id, NEW h, Yields(id, h)
  PROVE  /\ InCall(current)
         /\ \E ts, tp : GivesWay(ts, tp) /\ m' = Yield(h, ts, tp)
<1>1. CASE SysYield /\ m' = Yield(h, task_state, top)
  <2>1. GivesWay(task_state, top)
    BY <1>1, GivesWayFacts, Zenon DEF SysYield, InUser, InKernel, Continuation
  <2> QED
    BY <1>1, <2>1, Zenon DEF SysYield, InUser, InKernel, InCall
<1>2. CASE GetcharWait /\ m' = Yield(h, task_state, top)
  <2>1. GivesWay(task_state, top)
    BY <1>2, GivesWayFacts, Zenon DEF GetcharWait, PollsConsole, InUser, InKernel, Continuation
  <2> QED
    BY <1>2, <2>1, Zenon DEF GetcharWait, PollsConsole, InUser, InKernel, InCall
<1>3. CASE RecycleWait /\ m' = Yield(h, task_state, top)
  <2>1. GivesWay(task_state, top)
    BY <1>3, GivesWayFacts, Zenon DEF RecycleWait, Scans, InUser, InKernel, Continuation
  <2> QED
    BY <1>3, <2>1, Zenon DEF RecycleWait, Scans, InUser, InKernel, InCall
<1>4. CASE SysExit /\ m' = Yield(h, [task_state EXCEPT ![current] = "Zombie"], top - 1)
  BY <1>4, ExitGivesWay, Zenon DEF SysExit, InUser, InKernel, InCall
<1> QED
  BY <1>1, <1>2, <1>3, <1>4, Zenon DEF Yields

-----------------------------------------------------------------------------
\* A step of Traps is a step of Tasks, or leaves the variables of Tasks alone.
LEMMA StepsOfTasks == TrapInv /\ TrapNext => IInv'
<1> SUFFICES ASSUME TrapInv, TrapNext PROVE IInv'
  BY Zenon
<1>1. [Next]_vars
  <2>1. CASE UserRun
    BY <2>1, Zenon DEF UserRun
  <2>2. ASSUME NEW id, NEW result, ReturnsAtOnce(id, result) PROVE [Next]_vars
    BY <2>2, Zenon DEF ReturnsAtOnce, Next, Syscall
  <2>3. ASSUME NEW id, NEW h, Yields(id, h) PROVE [Next]_vars
    BY <2>3, Zenon DEF Yields, Next, Syscall
  <2>4. CASE Syscalls
    BY <2>2, <2>3, <2>4, Zenon DEF Syscalls, Fork, Exec, Next, Syscall
  <2>5. CASE Resumed
    BY <2>2, <2>3, <2>5, Zenon DEF Resumed, Next
  <2>6. CASE Elsewhere
    BY <2>6, Zenon DEF Elsewhere, Next, Syscall
  <2>7. CASE TimerTrap
    BY <2>7, Zenon DEF Next
  <2> QED
    BY <2>1, <2>4, <2>5, <2>6, <2>7, Zenon DEF TrapNext
<1> QED
  BY <1>1, NextIInv, Zenon DEF TrapInv

\* The registers of a slot are where Seen says.
LEMMA ViewIsSeen == \A s \in Slots : View(s) = Seen(m, current, s) /\ View(s)' = Seen(m', current', s)
BY Zenon DEF View, Seen, InPage

\* The handler with the hart in h gives way.
LEMMA GiveWayStep ==
  ASSUME TrapInv, IInv', NEW h, NEW ts, NEW tp, GivesWay(ts, tp), m' = Yield(h, ts, tp),
         Served(h, RunnableSlots, current, pc), InHandler(h, current)
  PROVE  TrapInv' /\ \A s \in Slots : View(s)' = InPage(h, s)
<1>1. current \in Slots /\ RunnableSlots' \in SUBSET Slots
  BY Zenon DEF TrapInv, IInv, TypeOK, RunnableSlots
<1>2. Served(h, RunnableSlots', current, pc')
  BY <1>1, Zenon DEF Served, GivesWay
<1>3. /\ Served(m', RunnableSlots', current', pc') /\ Mode(m', current', pc')
      /\ \A s \in Slots : Seen(m', current', s) = InPage(h, s)
  <2> DEFINE R == RunnableSlots'
             p == pc'
             c == current'
  <2>1. /\ R \in SUBSET Slots /\ Served(h, R, current, p) /\ p[current] # "user"
        /\ c = IF CanSwitch(ts, tp) THEN NextSlot(tp) ELSE current
        /\ CanSwitch(ts, tp) => NextSlot(tp) \in R
    BY <1>1, <1>2, Zenon DEF GivesWay
  <2> HIDE DEF R, p, c
  <2>2. /\ Served(m', R, c, p) /\ Mode(m', c, p)
        /\ \A s \in Slots : Seen(m', c, s) = InPage(h, s)
    BY <1>1, <2>1, YieldServed
  <2> QED
    BY <2>2, Zenon DEF R, p, c
<1> QED
  BY <1>3, ViewIsSeen, Zenon DEF TrapInv

\* The handler with the hart in h returns to the task that it serves.
LEMMA ReturnStep ==
  ASSUME TrapInv, IInv', NEW h, NEW result \in Int, m' = Return(h, result),
         Served(h, RunnableSlots', current, pc'), InHandler(h, current),
         current' = current, current \in RunnableSlots', pc'[current] = "user"
  PROVE  /\ TrapInv'
         /\ \A s \in Slots \ {current} : View(s)' = InPage(h, s)
         /\ View(current)' = [InPage(h, current) EXCEPT !.x["a0"] = result]
<1> DEFINE R == RunnableSlots'
           p == pc'
<1>1. R \in SUBSET Slots /\ current \in R /\ Served(h, R, current, p) /\ current \in Slots
  BY Zenon DEF RunnableSlots
<1> HIDE DEF R, p
<1>2. /\ Served(m', R, current, p) /\ AtUser(m', current)
      /\ \A s \in Slots \ {current} : Seen(m', current, s) = InPage(h, s)
      /\ Seen(m', current, current) = [InPage(h, current) EXCEPT !.x["a0"] = result]
  BY <1>1, ReturnServed
<1>3. TrapInv'
  BY <1>2, Zenon DEF TrapInv, Mode, R, p
<1>4. View(current)' = Seen(m', current, current)
  BY <1>1, Zenon DEF View, Seen, InPage
<1> QED
  BY <1>1, <1>2, <1>3, <1>4, ViewIsSeen, Zenon

\* In the kernel the registers of every task are in its trap page.
LEMMA ResumedServed ==
  ASSUME TrapInv, pc[current] # "user"
  PROVE  /\ Served(m, RunnableSlots, current, pc) /\ InHandler(m, current)
         /\ \A s \in Slots : View(s) = InPage(m, s)
BY ViewIsSeen, Zenon DEF TrapInv, Mode, InHandler, Seen

-----------------------------------------------------------------------------
(***************************************************************************)
(* The actions.                                                            *)
(***************************************************************************)
KeepsAll == \A s \in RunnableSlots \cap RunnableSlots' : Keeps(s)

\* What a step is to be shown to do.
StepOK == TrapInv' /\ KeepsAll /\ ForkStep

\* Without a new process fork has nothing to answer for.
LEMMA NoForkIsNone == NoFork => ForkStep
BY Zenon DEF NoFork, ForkStep

\* A call that changed a0 and a7 of its caller and moved it behind the call.
LEMMA CallKeeps ==
  ASSUME TrapInv, InUser, NEW id \in Int, NEW a \in Int,
         \A s \in Slots \ {current} : View(s)' = View(s),
         Seen(m', current', current) = [x |-> [m.x EXCEPT !["a7"] = id, !["a0"] = a], pc |-> m.pc + 8]
  PROVE  KeepsAll
<1>1. current \in Slots /\ m \in Hart /\ AtUser(m, current) /\ pc[current] = "user" /\ timer # "pending"
  BY Zenon DEF TrapInv, IInv, TypeOK, Served, Mode, InUser, InKernel
<1>2. SUFFICES ASSUME NEW s \in Slots, s = current PROVE Keeps(s)
  BY Zenon DEF KeepsAll, Keeps, RunnableSlots
<1>3. View(s) = [x |-> m.x, pc |-> m.pc]
  BY <1>1, <1>2, Zenon DEF View, AtUser
<1>4. View(s)' = [x |-> [m.x EXCEPT !["a7"] = id, !["a0"] = a], pc |-> m.pc + 8]
  BY <1>2, ViewIsSeen, Zenon
<1>5. m.x \in [Regs -> Int]
  BY <1>1, Zenon DEF Hart
<1>6. Changed(s) \subseteq {"a0", "a7"}
  BY <1>3, <1>4, <1>5 DEF Changed
<1> QED
  BY <1>1, <1>2, <1>3, <1>4, <1>6 DEF Keeps, InCall

\* A system call that yields.
LEMMA CallYields ==
  ASSUME TrapInv, IInv', InUser, NEW id \in Int, Yields(id, Ecall(id))
  PROVE  StepOK
<1> DEFINE h == Ecall(id)
<1>1. /\ Served(h, RunnableSlots, current, pc) /\ InHandler(h, current)
      /\ \A s \in Slots \ {current} : InPage(h, s) = Seen(m, current, s)
      /\ InPage(h, current) = [x |-> [m.x EXCEPT !["a7"] = id, !["a0"] = 0], pc |-> m.pc + 8]
  BY EcallServed, Zenon DEF InUser
<1>2. Yields(id, h)
  BY Zenon
<1> HIDE DEF h
<1>3. PICK ts, tp : GivesWay(ts, tp) /\ m' = Yield(h, ts, tp)
  BY <1>2, YieldsFacts, Zenon
<1>4. TrapInv' /\ \A s \in Slots : View(s)' = InPage(h, s)
  BY <1>1, <1>3, GiveWayStep, Zenon
<1>5. current \in Slots
  BY Zenon DEF TrapInv, IInv, TypeOK
<1>6. /\ \A s \in Slots \ {current} : View(s)' = View(s)
      /\ Seen(m', current', current) = [x |-> [m.x EXCEPT !["a7"] = id, !["a0"] = 0], pc |-> m.pc + 8]
  BY <1>1, <1>4, <1>5, ViewIsSeen, Zenon
<1>7. KeepsAll
  BY <1>6, CallKeeps
<1> QED
  BY <1>3, <1>4, <1>7, NoForkIsNone, Zenon DEF StepOK, GivesWay

\* A system call that returns at once.
LEMMA CallReturns ==
  ASSUME TrapInv, IInv', InUser, NEW id \in Int, NEW result \in Int,
         ReturnsAtOnce(id, result), m' = Return(Ecall(id), result)
  PROVE  StepOK
<1> DEFINE h == Ecall(id)
<1>1. /\ Served(h, RunnableSlots, current, pc) /\ InHandler(h, current)
      /\ \A s \in Slots \ {current} : InPage(h, s) = Seen(m, current, s)
      /\ InPage(h, current) = [x |-> [m.x EXCEPT !["a7"] = id, !["a0"] = 0], pc |-> m.pc + 8]
  BY EcallServed, Zenon DEF InUser
<1>2. m' = Return(h, result)
  BY Zenon
<1> HIDE DEF h
<1>3. GoesBack
  BY AtOnceFacts, Zenon
<1>4. current \in RunnableSlots' /\ current \in Slots /\ RunnableSlots \subseteq Slots
  BY <1>3, Caller, Zenon DEF GoesBack, RunnableSlots
<1>5. Served(h, RunnableSlots', current, pc')
  BY <1>1, <1>3, <1>4, Zenon DEF Served, GoesBack
<1>6. /\ TrapInv' /\ \A s \in Slots \ {current} : View(s)' = InPage(h, s)
      /\ View(current)' = [InPage(h, current) EXCEPT !.x["a0"] = result]
  BY <1>1, <1>2, <1>3, <1>4, <1>5, ReturnStep, Zenon DEF GoesBack
<1>7. \A s \in Slots \ {current} : View(s)' = View(s)
  BY <1>1, <1>6, ViewIsSeen, Zenon
<1>8. View(current)' = [x |-> [m.x EXCEPT !["a7"] = id, !["a0"] = result], pc |-> m.pc + 8]
  <2>1. m.x \in [Regs -> Int]
    BY Zenon DEF TrapInv, Served, Hart
  <2>2. [[m.x EXCEPT !["a7"] = id, !["a0"] = 0] EXCEPT !["a0"] = result]
          = [m.x EXCEPT !["a7"] = id, !["a0"] = result]
    BY <2>1, Zenon DEF Regs
  <2> QED
    BY <1>1, <1>6, <2>2
<1>9. Seen(m', current', current) = [x |-> [m.x EXCEPT !["a7"] = id, !["a0"] = result], pc |-> m.pc + 8]
  BY <1>3, <1>8, Zenon DEF GoesBack, View, Seen, InPage
<1>10. KeepsAll
  BY <1>7, <1>9, CallKeeps, Zenon
<1> QED
  BY <1>3, <1>6, <1>10, NoForkIsNone, Zenon DEF StepOK, GoesBack

\* exec changes sepc and sp in the trap page of its caller before it returns.
LEMMA CallExec ==
  ASSUME TrapInv, IInv', InUser, Exec(Ecall(__SYS_EXEC))
  PROVE  StepOK
<1> DEFINE h == Ecall(__SYS_EXEC)
<1> HIDE DEF h
<1>1. /\ Served(h, RunnableSlots, current, pc) /\ InHandler(h, current)
      /\ \A s \in Slots \ {current} : InPage(h, s) = Seen(m, current, s)
      /\ InPage(h, current) = [x |-> [m.x EXCEPT !["a7"] = __SYS_EXEC, !["a0"] = 0], pc |-> m.pc + 8]
  BY EcallServed DEF InUser, __SYS_EXEC, h
<1>2. PICK q \in Programs :
        m' = Return([h EXCEPT !.trap[current].sepc = entry(q), !.trap[current].x["sp"] = ustack(q)], 0)
  BY Zenon DEF Exec, h
<1> DEFINE k == [h EXCEPT !.trap[current].sepc = entry(q), !.trap[current].x["sp"] = ustack(q)]
           t == [h.trap[current] EXCEPT !.sepc = entry(q), !.x["sp"] = ustack(q)]
<1>3. /\ task_state' = task_state /\ pc' = pc /\ current' = current /\ RunnableSlots' = RunnableSlots
      /\ pc[current] = "user" /\ timer # "pending" /\ panicked = "no"
  BY Zenon DEF Exec, vars, RunnableSlots, InUser, InKernel
<1>4. current \in RunnableSlots /\ current \in Slots
  BY <1>3, Caller, Zenon
<1>5. h \in Hart /\ h.trap \in [Slots -> TrapContext] /\ Entry(h.trap[current], current)
  BY <1>1, <1>4, Zenon DEF Served, Hart
<1>6. h.trap[current] \in TrapContext /\ entry(q) \in Int /\ ustack(q) \in Int
  BY <1>4, <1>5, Words, Zenon
<1>7. /\ t \in TrapContext /\ Entry(t, current) /\ t.sepc = entry(q)
      /\ t.x = [h.trap[current].x EXCEPT !["sp"] = ustack(q)]
  BY <1>5, <1>6, Zenon DEF TrapContext, Entry, Regs
<1>8. k = [h EXCEPT !.trap = [h.trap EXCEPT ![current] = t]]
  BY <1>4, <1>5, <1>6, Zenon DEF Hart, TrapContext
<1>9. m' = Return(k, 0)
  BY <1>2, Zenon
<1> HIDE DEF k, t
<1>10. k \in Hart /\ k.trap = [h.trap EXCEPT ![current] = t] /\ k.cx = h.cx /\ InHandler(k, current)
  BY <1>1, <1>4, <1>5, <1>7, <1>8, Zenon DEF Hart, InHandler
<1>11. k.trap[current] = t /\ \A s \in Slots \ {current} : k.trap[s] = h.trap[s]
  BY <1>4, <1>5, <1>10, Zenon
<1>12. Served(k, RunnableSlots', current, pc')
  <2>1. RunnableSlots \subseteq Slots
    BY Zenon DEF RunnableSlots
  <2> QED
    BY <1>1, <1>3, <1>7, <1>10, <1>11, <2>1, Zenon DEF Served
<1>13. /\ TrapInv' /\ \A s \in Slots \ {current} : View(s)' = InPage(k, s)
       /\ View(current)' = [InPage(k, current) EXCEPT !.x["a0"] = 0]
  BY <1>3, <1>4, <1>9, <1>10, <1>12, ReturnStep
<1>14. \A s \in Slots \ {current} : View(s)' = View(s)
  BY <1>1, <1>11, <1>13, ViewIsSeen DEF InPage
<1>15. m.x \in [Regs -> Int] /\ AtUser(m, current)
  BY <1>3, Zenon DEF TrapInv, Served, Mode, Hart
<1>16. View(current) = [x |-> m.x, pc |-> m.pc]
  BY <1>15, Zenon DEF View, AtUser
<1>17. h.trap[current].x = [m.x EXCEPT !["a7"] = __SYS_EXEC, !["a0"] = 0]
  BY <1>1, Zenon DEF InPage
<1>18. /\ View(current)'.pc = entry(q)
       /\ View(current)'.x = [t.x EXCEPT !["a0"] = 0]
  BY <1>7, <1>11, <1>13, Zenon DEF InPage
<1>19. /\ View(current)'.x["sp"] = ustack(q) /\ View(current)'.x["a7"] = __SYS_EXEC
       /\ \A r \in Regs \ {"a0", "a7", "sp"} : View(current)'.x[r] = m.x[r]
  BY <1>7, <1>15, <1>17, <1>18 DEF Regs
<1>20. ASSUME NEW s \in Slots, s = current PROVE Keeps(s)
  <2>1. View(s)' = View(current)' /\ View(s) = View(current)
    BY <1>3, <1>20, Zenon DEF View
  <2>2. Changed(s) \subseteq {"a0", "a7", "sp"}
    BY <1>16, <1>19, <2>1 DEF Changed
  <2> QED
    BY <1>3, <1>18, <1>19, <1>20, <2>1, <2>2, Zenon DEF Keeps, InCall
<1>21. KeepsAll
  <2>1. \A s \in Slots \ {current} : Keeps(s)
    BY <1>14, Zenon DEF Keeps
  <2> QED
    BY <1>20, <2>1, Zenon DEF KeepsAll, RunnableSlots
<1>22. NoFork
  BY <1>3, Zenon DEF NoFork
<1> QED
  BY <1>13, <1>21, <1>22, NoForkIsNone, Zenon DEF StepOK

\* The slot that alloc_proc finds is one, and is neither the caller nor slot 0.
LEMMA OneFreeSlot ==
  ASSUME TrapInv, SysFork, NEW child \in Slots, alloc_proc(child)
  PROVE  /\ task_state[child] = "UnInit" /\ child # current
         /\ \A s \in Slots : /\ task_state'[s] = IF s = child THEN "Ready" ELSE task_state[s]
                            /\ pc'[s] = IF s = child THEN "user" ELSE pc[s]
         /\ pid'[child] = next_pid /\ next_pid # 0 /\ next_pid \in Nat
         /\ RunnableSlots' = RunnableSlots \cup {child} /\ current' = current
<1>1. TypeOK /\ task_state[current] \in Runnable /\ current \in Slots
  BY CallerIsLive, Zenon DEF TrapInv, IInv, TypeOK, SysFork, InUser, Continuation
<1>2. PICK c \in Slots :
        /\ alloc_proc(c)
        /\ pid' = [pid EXCEPT ![c] = alloc_pid]
        /\ task_state' = [task_state EXCEPT ![c] = "Ready"]
        /\ pc' = [pc EXCEPT ![c] = "user"]
  BY Zenon DEF SysFork
<1>3. c = child
  BY <1>2 DEF alloc_proc, FreeSlots, Slots
<1>4. task_state[child] = "UnInit" /\ child # current
  BY <1>1, Zenon DEF alloc_proc, FreeSlots, Runnable
<1>5. next_pid # 0 /\ next_pid \in Nat
  BY <1>1, SlotFacts DEF TrapInv, IInv, UniquePids, ProcessTree, TypeOK, Runnable
<1>6. \A s \in Slots : /\ task_state'[s] = IF s = child THEN "Ready" ELSE task_state[s]
                       /\ pc'[s] = IF s = child THEN "user" ELSE pc[s]
  BY <1>1, <1>2, <1>3, Zenon DEF TypeOK
<1>7. pid'[child] = next_pid
  BY <1>1, <1>2, <1>3, Zenon DEF TypeOK, alloc_pid
<1>8. RunnableSlots' = RunnableSlots \cup {child}
  BY <1>6, Zenon DEF RunnableSlots, Runnable
<1> QED
  BY <1>4, <1>5, <1>6, <1>7, <1>8, Zenon DEF SysFork

\* fork copies the trap page of its caller, and returns in both.
LEMMA CallFork ==
  ASSUME TrapInv, IInv', InUser, Fork(Ecall(__SYS_FORK))
  PROVE  StepOK
<1> DEFINE h == Ecall(__SYS_FORK)
<1> HIDE DEF h
<1>1. /\ Served(h, RunnableSlots, current, pc) /\ InHandler(h, current)
      /\ \A s \in Slots \ {current} : InPage(h, s) = Seen(m, current, s)
      /\ InPage(h, current) = [x |-> [m.x EXCEPT !["a7"] = __SYS_FORK, !["a0"] = 0], pc |-> m.pc + 8]
  BY EcallServed DEF InUser, __SYS_FORK, h
<1>2. PICK child \in Slots :
        /\ alloc_proc(child)
        /\ m' = Return([h EXCEPT !.trap[child] = ChildTrap(h.trap[current], child),
                                 !.cx[child] = task_context_init(KSTACK(child), trap_return)],
                       ForkResult(child))
  BY Zenon DEF Fork, h
<1>3. /\ task_state[child] = "UnInit" /\ child # current
      /\ \A s \in Slots : /\ task_state'[s] = IF s = child THEN "Ready" ELSE task_state[s]
                         /\ pc'[s] = IF s = child THEN "user" ELSE pc[s]
      /\ pid'[child] = next_pid /\ next_pid # 0 /\ next_pid \in Nat
      /\ RunnableSlots' = RunnableSlots \cup {child} /\ current' = current
  BY <1>2, OneFreeSlot, Zenon DEF Fork
<1>4. /\ current \in RunnableSlots /\ current \in Slots /\ RunnableSlots \subseteq Slots
      /\ pc[current] = "user"
  BY Caller, Zenon DEF InUser, InKernel, RunnableSlots
<1> DEFINE t == ChildTrap(h.trap[current], child)
           v == task_context_init(KSTACK(child), trap_return)
           k == [h EXCEPT !.trap[child] = t, !.cx[child] = v]
<1>5. m' = Return(k, next_pid)
  BY <1>2, Zenon DEF ForkResult, alloc_pid
<1>6. /\ h \in Hart /\ h.trap \in [Slots -> TrapContext] /\ h.cx \in [Slots -> TaskContext]
      /\ Entry(h.trap[current], current) /\ h.trap[current] \in TrapContext
  BY <1>1, <1>4, Zenon DEF Served, Hart
<1>7. /\ t \in TrapContext /\ Entry(t, child) /\ t.sepc = h.trap[current].sepc
      /\ t.x = [h.trap[current].x EXCEPT !["a0"] = 0]
  <2> DEFINE f == h.trap[current]
             y == [f.x EXCEPT !["a0"] = 0]
  <2> HIDE DEF f
  <2>1. f \in TrapContext /\ Entry(f, current) /\ KSTACK(child) \in Int
    BY <1>6, Words, Zenon DEF f
  <2>2. y \in [Regs -> Int]
    <3>1. f.x \in [Regs -> Int]
      BY <2>1, Zenon DEF TrapContext
    <3> QED
      BY <3>1, RegisterWritten
  <2>3. t = [f EXCEPT !.x = y, !.kernel_sp = KSTACK(child)]
    BY <2>1, Zenon DEF ChildTrap, TrapContext, f
  <2> HIDE DEF y, t
  <2>4. t \in TrapContext /\ Entry(t, child) /\ t.sepc = f.sepc /\ t.x = y
    BY <2>1, <2>2, <2>3, Zenon DEF TrapContext, Entry
  <2> QED
    BY <2>4, Zenon DEF y, f
<1>8. v \in TaskContext /\ Saved(v, child, "user")
  BY Words DEF task_context_init, TaskContext, CalleeSaved, Saved
<1> HIDE DEF t, v
<1>9. /\ k \in Hart /\ k.trap = [h.trap EXCEPT ![child] = t] /\ k.cx = [h.cx EXCEPT ![child] = v]
      /\ InHandler(k, current)
  BY <1>1, <1>6, <1>7, <1>8, Zenon DEF Hart, InHandler
<1> HIDE DEF k
<1>10. /\ k.trap[child] = t /\ \A s \in Slots \ {child} : k.trap[s] = h.trap[s]
       /\ k.cx[child] = v /\ \A s \in Slots \ {child} : k.cx[s] = h.cx[s]
  BY <1>6, <1>9, Zenon
<1>11. Served(k, RunnableSlots', current, pc')
  BY <1>1, <1>3, <1>4, <1>7, <1>8, <1>9, <1>10, Zenon DEF Served
<1>12. /\ TrapInv' /\ \A s \in Slots \ {current} : View(s)' = InPage(k, s)
       /\ View(current)' = [InPage(k, current) EXCEPT !.x["a0"] = next_pid]
  <2>1. next_pid \in Int /\ current' = current
    BY <1>3
  <2>2. current \in RunnableSlots' /\ pc'[current] = "user"
    BY <1>3, <1>4, Zenon
  <2> QED
    BY <1>5, <1>9, <1>11, <2>1, <2>2, ReturnStep, Zenon
<1>13. \A s \in Slots \ {current, child} : View(s)' = View(s)
  BY <1>1, <1>10, <1>12, ViewIsSeen DEF InPage
<1>14. m.x \in [Regs -> Int]
  BY Zenon DEF TrapInv, Served, Hart
<1>15. /\ InPage(k, current) = InPage(h, current) /\ h.trap[current].x \in [Regs -> Int]
       /\ InPage(k, child) = [x |-> [h.trap[current].x EXCEPT !["a0"] = 0], pc |-> h.trap[current].sepc]
  BY <1>3, <1>4, <1>6, <1>7, <1>10, Zenon DEF InPage, TrapContext
<1>16. KeepsAll
  <2>1. View(current)' = [x |-> [m.x EXCEPT !["a7"] = __SYS_FORK, !["a0"] = next_pid], pc |-> m.pc + 8]
    <3>1. [[m.x EXCEPT !["a7"] = __SYS_FORK, !["a0"] = 0] EXCEPT !["a0"] = next_pid]
            = [m.x EXCEPT !["a7"] = __SYS_FORK, !["a0"] = next_pid]
      BY <1>14, Zenon DEF Regs
    <3> QED
      BY <1>1, <1>12, <1>15, <3>1
  <2>2. ASSUME NEW s \in Slots, s = current PROVE Keeps(s)
    <3>1. View(s)' = View(current)' /\ View(s) = [x |-> m.x, pc |-> m.pc]
      BY <1>3, <1>4, <2>2, Zenon DEF View, TrapInv, Mode, AtUser
    <3>2. Changed(s) \subseteq {"a0", "a7"}
      BY <1>14, <2>1, <3>1 DEF Changed
    <3> QED
      BY <1>4, <2>1, <2>2, <3>1, <3>2 DEF Keeps, InCall, InUser
  <2>3. \A s \in Slots \ {current, child} : Keeps(s)
    BY <1>13, Zenon DEF Keeps
  <2>4. child \notin RunnableSlots
    BY <1>3, Zenon DEF RunnableSlots, Runnable
  <2> QED
    BY <2>2, <2>3, <2>4, Zenon DEF KeepsAll, RunnableSlots
<1>17. ForkStep
  <2> SUFFICES ASSUME NEW s \in Slots, task_state[s] = "UnInit", task_state'[s] = "Ready"
               PROVE  /\ View(s)' = [View(current)' EXCEPT !.x["a0"] = 0]
                      /\ View(current)'.x["a0"] = pid'[s]
                      /\ pid'[s] # 0
    BY Zenon DEF ForkStep
  <2>1. s = child
    BY <1>3, Zenon
  <2>2. View(s)' = [x |-> [h.trap[current].x EXCEPT !["a0"] = 0], pc |-> h.trap[current].sepc]
    BY <1>3, <1>12, <1>15, <2>1, Zenon
  <2>3. View(current)' =
          [x |-> [h.trap[current].x EXCEPT !["a0"] = next_pid], pc |-> h.trap[current].sepc]
    BY <1>12, <1>15, Zenon DEF InPage
  <2>4. [[h.trap[current].x EXCEPT !["a0"] = next_pid] EXCEPT !["a0"] = 0]
          = [h.trap[current].x EXCEPT !["a0"] = 0]
    BY <1>15, Zenon DEF Regs
  <2>5. [h.trap[current].x EXCEPT !["a0"] = next_pid]["a0"] = next_pid
    BY <1>15, Zenon DEF Regs
  <2>6. View(s)' = [View(current)' EXCEPT !.x["a0"] = 0] /\ View(current)'.x["a0"] = next_pid
    BY <2>2, <2>3, <2>4, <2>5
  <2> QED
    BY <1>3, <2>1, <2>6, Zenon
<1> QED
  BY <1>12, <1>16, <1>17, Zenon DEF StepOK

\* Every system call.
LEMMA SyscallsStep ==
  ASSUME TrapInv, IInv', Syscalls
  PROVE  StepOK
<1>1. PICK id \in Calls :
        \/ \E result \in Results : /\ ReturnsAtOnce(CallNumber(Ecall(id)), result)
                                  /\ m' = Return(Ecall(id), result)
        \/ Yields(CallNumber(Ecall(id)), Ecall(id))
        \/ CallNumber(Ecall(id)) = __SYS_FORK /\ Fork(Ecall(id))
        \/ CallNumber(Ecall(id)) = __SYS_EXEC /\ Exec(Ecall(id))
  BY Zenon DEF Syscalls
<1>2. InUser /\ InKernel("user")
  BY Zenon DEF Syscalls, AtCall, InUser
<1>3. id \in Int
  BY DEF Calls, __SYS_YIELD, __SET_TRIGGER, __SYS_GET_CHAR__, __SYS_FORK, __SYS_EXEC, __SYS_EXIT,
         __SYS_RECYCLE
<1>4. CallNumber(Ecall(id)) = id
  BY <1>2, <1>3, EcallServed, Zenon
<1>5. CASE \E result \in Results : ReturnsAtOnce(id, result) /\ m' = Return(Ecall(id), result)
  <2>1. PICK result \in Results : ReturnsAtOnce(id, result) /\ m' = Return(Ecall(id), result)
    BY <1>5, Zenon
  <2>2. result \in Int
    BY DEF Results
  <2> QED
    BY <1>2, <1>3, <2>1, <2>2, CallReturns, Zenon
<1>6. CASE Yields(id, Ecall(id))
  BY <1>2, <1>3, <1>6, CallYields, Zenon
<1>7. CASE id = __SYS_FORK /\ Fork(Ecall(id))
  BY <1>2, <1>7, CallFork, Zenon
<1>8. CASE id = __SYS_EXEC /\ Exec(Ecall(id))
  BY <1>2, <1>8, CallExec, Zenon
<1> QED
  BY <1>1, <1>4, <1>5, <1>6, <1>7, <1>8, Zenon

\* A handler that waited returns: of the registers of its task only a0 changes.
LEMMA ResumedReturns ==
  ASSUME TrapInv, IInv', GoesBack, InCall(current), pc[current] # "user", NEW result \in Int,
         m' = Return(m, result)
  PROVE  StepOK
<1>1. /\ Served(m, RunnableSlots, current, pc) /\ InHandler(m, current)
      /\ \A s \in Slots : View(s) = InPage(m, s)
  BY ResumedServed, Zenon
<1>2. current \in RunnableSlots' /\ current \in Slots /\ RunnableSlots \subseteq Slots
  BY Caller, Zenon DEF GoesBack, RunnableSlots
<1>3. Served(m, RunnableSlots', current, pc')
  BY <1>1, <1>2, Zenon DEF Served, GoesBack
<1>4. /\ TrapInv' /\ \A s \in Slots \ {current} : View(s)' = InPage(m, s)
      /\ View(current)' = [InPage(m, current) EXCEPT !.x["a0"] = result]
  BY <1>1, <1>2, <1>3, ReturnStep, Zenon DEF GoesBack
<1>5. \A s \in Slots \ {current} : Keeps(s)
  BY <1>1, <1>4, Zenon DEF Keeps
<1>6. ASSUME NEW s \in Slots, s = current PROVE Keeps(s)
  <2>1. m.trap[current].x \in [Regs -> Int] /\ m.trap[current].sepc \in Int
    BY <1>1, <1>2, Zenon DEF Served, Hart, TrapContext
  <2>2. View(s) = InPage(m, current) /\ View(s)' = View(current)'
    BY <1>1, <1>6, Zenon DEF View, GoesBack
  <2>3. View(s)'.x = [View(s).x EXCEPT !["a0"] = result] /\ View(s)'.pc = View(s).pc
    BY <1>4, <2>2, Zenon DEF InPage
  <2>4. Changed(s) \subseteq {"a0", "a7"}
    BY <2>1, <2>2, <2>3 DEF Changed, InPage
  <2>5. View(s)'.pc = View(s).pc + 0
    BY <2>1, <2>2, <2>3 DEF InPage
  <2> QED
    BY <1>6, <2>4, <2>5, Zenon DEF Keeps
<1>7. KeepsAll
  BY <1>5, <1>6, Zenon DEF KeepsAll, RunnableSlots
<1> QED
  BY <1>4, <1>7, NoForkIsNone, Zenon DEF StepOK, GoesBack

\* A step that leaves every register where it was.
LEMMA AllKept == (\A s \in Slots : View(s)' = View(s)) => KeepsAll
BY Zenon DEF KeepsAll, Keeps, RunnableSlots

\* Every way for a handler to go on behind its __sys_yield.
LEMMA ResumedStep ==
  ASSUME TrapInv, IInv', Resumed
  PROVE  StepOK
<1>1. /\ Served(m, RunnableSlots, current, pc) /\ InHandler(m, current) /\ pc[current] # "user"
      /\ \A s \in Slots : View(s) = InPage(m, s)
  BY ResumedServed, Zenon DEF Resumed
<1>2. TypeOK /\ current \in Slots /\ pc \in [Slots -> Continuation]
  BY Zenon DEF TrapInv, IInv, TypeOK
<1>3. CASE TimerReturn /\ m' = TrapReturn(m, current)
  <2>1. GoesBack
    BY <1>2, <1>3, Zenon DEF TimerReturn, InKernel, table, GoesBack, RunnableSlots, NoFork
  <2>2. current \in RunnableSlots' /\ RunnableSlots \subseteq Slots
    BY <2>1, Caller, Zenon DEF GoesBack, RunnableSlots
  <2> DEFINE R == RunnableSlots'
             p == pc'
  <2>3. R \in SUBSET Slots /\ current \in R /\ Served(m, R, current, p)
    BY <1>1, <2>1, <2>2, Zenon DEF Served, GoesBack
  <2> HIDE DEF R, p
  <2>4. /\ Served(m', R, current, p) /\ AtUser(m', current)
        /\ \A s \in Slots : Seen(m', current, s) = InPage(m, s)
    BY <1>3, <2>3, TrapReturnServed, Zenon
  <2>5. TrapInv'
    BY <2>1, <2>4, Zenon DEF TrapInv, Mode, GoesBack, R, p
  <2>6. KeepsAll
    BY <1>1, <2>1, <2>4, ViewIsSeen, AllKept, Zenon DEF GoesBack
  <2> QED
    BY <2>1, <2>5, <2>6, NoForkIsNone, Zenon DEF StepOK, GoesBack
<1>4. CASE YieldReturn /\ m' = Return(m, 0)
  <2>1. GoesBack /\ InCall(current)
    BY <1>2, <1>4, Zenon DEF YieldReturn, InKernel, table, GoesBack, RunnableSlots, NoFork, InCall
  <2> QED
    BY <1>1, <1>4, <2>1, ResumedReturns
<1>5. ASSUME NEW id, NEW result \in Results, ReturnsAtOnce(id, result), m' = Return(m, result)
      PROVE  StepOK
  <2>1. GoesBack /\ InCall(current)
    BY <1>5, AtOnceFacts, Zenon
  <2>2. result \in Int
    BY DEF Results
  <2> QED
    BY <1>1, <1>5, <2>1, <2>2, ResumedReturns, Zenon
<1>6. ASSUME NEW id, Yields(id, m) PROVE StepOK
  <2>1. PICK ts, tp : GivesWay(ts, tp) /\ m' = Yield(m, ts, tp)
    BY <1>6, YieldsFacts, Zenon
  <2>2. TrapInv' /\ \A s \in Slots : View(s)' = InPage(m, s)
    BY <1>1, <2>1, GiveWayStep, Zenon
  <2>3. KeepsAll
    BY <1>1, <2>2, AllKept, Zenon
  <2> QED
    BY <2>1, <2>2, <2>3, NoForkIsNone, Zenon DEF StepOK, GivesWay
<1> QED
  BY <1>3, <1>4, <1>5, <1>6, Zenon DEF Resumed

\* A timer interrupt: every process keeps its registers.
LEMMA TimerStep ==
  ASSUME TrapInv, IInv', TimerTrap, m' = Yield(Interrupt, task_state, top)
  PROVE  StepOK
<1>1. /\ Served(Interrupt, RunnableSlots, current, pc) /\ InHandler(Interrupt, current)
      /\ \A s \in Slots : InPage(Interrupt, s) = Seen(m, current, s)
  BY InterruptServed, Zenon DEF TimerTrap
<1>2. GivesWay(task_state, top)
  BY GivesWayFacts, Zenon DEF TimerTrap, InKernel, Continuation
<1>3. TrapInv' /\ \A s \in Slots : View(s)' = InPage(Interrupt, s)
  BY <1>1, <1>2, GiveWayStep, Zenon
<1>4. KeepsAll
  BY <1>1, <1>3, ViewIsSeen, AllKept, Zenon
<1> QED
  BY <1>2, <1>3, <1>4, NoForkIsNone, Zenon DEF StepOK, GivesWay

\* A program computes.
LEMMA UserRunStep ==
  ASSUME TrapInv, IInv', UserRun
  PROVE  TrapInv' /\ ForkStep
<1>1. PICK v \in Data : m' = [m EXCEPT !.x["t0"] = v, !.x["s0"] = v + 1, !.pc = @ - (@ % 16)]
  BY Zenon DEF UserRun
<1>2. /\ task_state' = task_state /\ current' = current /\ pc' = pc /\ RunnableSlots' = RunnableSlots
      /\ pc[current] = "user"
  BY Zenon DEF UserRun, vars, RunnableSlots, InUser, InKernel
<1> DEFINE y == [m.x EXCEPT !["t0"] = v, !["s0"] = v + 1]
           q == m.pc - (m.pc % 16)
<1>3. m \in Hart /\ m.x \in [Regs -> Int] /\ m.pc \in Int /\ v \in Int
  BY DataIsWords DEF TrapInv, Served, Hart
<1>4. y \in [Regs -> Int] /\ q \in Int
  BY <1>3 DEF Regs
<1>5. m' = [m EXCEPT !.x = y, !.pc = q]
  BY <1>1, <1>3, Zenon DEF Hart
<1> HIDE DEF y, q
<1>6. /\ m' \in Hart /\ m'.trap = m.trap /\ m'.cx = m.cx /\ m'.priv = m.priv /\ m'.stvec = m.stvec
      /\ m'.sscratch = m.sscratch /\ m'.satp = m.satp
  BY <1>3, <1>4, <1>5, Zenon DEF Hart
<1>7. TrapInv'
  BY <1>2, <1>6, Zenon DEF TrapInv, Served, Mode, AtUser
<1>8. NoFork
  BY <1>2, Zenon DEF NoFork
<1> QED
  BY <1>7, <1>8, NoForkIsNone, Zenon

\* Time passes, or the kernel panics: no register changes.
LEMMA ElsewhereStep ==
  ASSUME TrapInv, IInv', Elsewhere
  PROVE  StepOK
<1>1. /\ task_state' = task_state /\ current' = current /\ pc' = pc /\ RunnableSlots' = RunnableSlots
      /\ m' = m
  BY Zenon DEF Elsewhere, Tick, SysExitInit, UserFault, ExitReturn, table, RunnableSlots
<1>2. TrapInv'
  BY <1>1, Zenon DEF TrapInv
<1>3. KeepsAll
  BY <1>1, AllKept, Zenon DEF View
<1>4. NoFork
  BY <1>1, Zenon DEF NoFork
<1> QED
  BY <1>2, <1>3, <1>4, NoForkIsNone, Zenon DEF StepOK

\* os_main sets up slot 0 and goes to user mode through trap_return.
LEMMA InitTrapInv == TrapInit => TrapInv
<1> SUFFICES ASSUME TrapInit PROVE TrapInv
  BY Zenon
<1>1. IInv /\ current = 0 /\ RunnableSlots = {0} /\ pc[0] = "user" /\ 0 \in Slots
  BY InitIInv, SlotFacts, Zenon DEF TrapInit, Init, RunnableSlots, Runnable
<1> DEFINE b == AtBoot
           tr == [s \in Slots |-> IF s = 0 THEN app_init ELSE NoTrap]
           cs == [s \in Slots |-> IF s = 0 THEN task_context_init(KSTACK(0), trap_return)
                                   ELSE task_context_init(0, 0)]
<1>2. app_init \in TrapContext /\ NoTrap \in TrapContext /\ Entry(app_init, 0)
  BY Words, SlotFacts DEF app_init, NoTrap, TrapContext, ZeroRegs, Regs, Entry, Programs, ustack, entry
<1>3. /\ task_context_init(KSTACK(0), trap_return) \in TaskContext
      /\ task_context_init(0, 0) \in TaskContext
  BY Words, SlotFacts, Zenon DEF task_context_init, TaskContext, CalleeSaved
<1>4. tr \in [Slots -> TrapContext] /\ cs \in [Slots -> TaskContext] /\ tr[0] = app_init
  BY <1>1, <1>2, <1>3, Zenon
<1>5. /\ b = [x |-> ZeroRegs, pc |-> 0, priv |-> "S", sepc |-> 0, spp |-> "S", sscratch |-> 0,
              satp |-> KERNEL, stvec |-> trap_from_kernel, trap |-> tr, cx |-> cs]
      /\ ZeroRegs \in [Regs -> Int]
  BY DEF AtBoot, ZeroRegs
<1> HIDE DEF b, tr, cs
<1>6. b \in Hart /\ b.trap = tr
  BY <1>4, <1>5, Words DEF Hart
<1>7. Served(b, {0}, 0, pc)
  BY <1>2, <1>4, <1>6, Zenon DEF Served
<1>8. m = TrapReturn(b, 0)
  BY Zenon DEF TrapInit, b
<1>9. Served(m, {0}, 0, pc) /\ AtUser(m, 0)
  BY <1>1, <1>7, <1>8, TrapReturnServed, Zenon
<1> QED
  BY <1>1, <1>9, Zenon DEF TrapInv, Mode

-----------------------------------------------------------------------------
(***************************************************************************)
(* The theorems.                                                           *)
(***************************************************************************)
\* Every step.
LEMMA TrapStep ==
  ASSUME TrapInv, TrapNext
  PROVE  TrapInv' /\ ForkStep /\ (UserRun \/ KeepsAll)
<1>1. IInv'
  BY StepsOfTasks, Zenon
<1>2. CASE UserRun
  BY <1>1, <1>2, UserRunStep, Zenon
<1>3. CASE Syscalls
  BY <1>1, <1>3, SyscallsStep, Zenon DEF StepOK
<1>4. CASE Resumed
  BY <1>1, <1>4, ResumedStep, Zenon DEF StepOK
<1>5. CASE Elsewhere
  BY <1>1, <1>5, ElsewhereStep, Zenon DEF StepOK
<1>6. CASE TimerTrap /\ m' = Yield(Interrupt, task_state, top)
  BY <1>1, <1>6, TimerStep, Zenon DEF StepOK
<1> QED
  BY <1>2, <1>3, <1>4, <1>5, <1>6, Zenon DEF TrapNext

\* Trap pages, saved contexts and the hart's registers stay in step with the
\* task table: the inductive invariant behind the theorems below.
THEOREM TrapInvariant == TrapSpec => []TrapInv
<1>1. TrapInv /\ [TrapNext]_<<vars, m>> => TrapInv'
  <2> SUFFICES ASSUME TrapInv, [TrapNext]_<<vars, m>> PROVE TrapInv'
    BY Zenon
  <2>1. CASE TrapNext
    BY <2>1, TrapStep, Zenon
  <2>2. CASE UNCHANGED <<vars, m>>
    <3>1. UNCHANGED vars /\ m' = m
      BY <2>2, Zenon
    <3>2. IInv'
      BY <3>1, NextIInv, Zenon DEF TrapInv
    <3>3. RunnableSlots' = RunnableSlots /\ current' = current /\ pc' = pc
      BY <3>1, Zenon DEF vars, RunnableSlots
    <3> QED
      BY <3>1, <3>2, <3>3, Zenon DEF TrapInv
  <2> QED
    BY <2>1, <2>2, Zenon
<1> QED
  BY <1>1, InitTrapInv, PTL DEF TrapSpec

\* Wherever a process is interrupted, __alltraps finds the trampoline, the trap
\* page, the kernel's page table and the process's own kernel stack.
THEOREM TrapsFindTheKernel == TrapSpec => []KernelEntry
<1>1. TrapInv => KernelEntry
  BY Zenon DEF TrapInv, Served, Mode, AtUser, InHandler, Entry, KernelEntry
<1> QED
  BY <1>1, TrapInvariant, PTL

\* A handler that goes on behind __switch has its own stack and its own trap
\* page; a task that never ran starts in trap_return.
THEOREM HandlersFindTheirContexts == TrapSpec => []HandlerFindsItsContext
<1>1. TrapInv => HandlerFindsItsContext
  BY Zenon DEF TrapInv, Served, Mode, InHandler, Saved, HandlerFindsItsContext
<1> QED
  BY <1>1, TrapInvariant, PTL

\* A timer interrupt changes no register of any process, and a system call those
\* of its caller only: a0, a7, the program counter once, and sp for exec.
THEOREM RegistersAreKept == TrapSpec => KernelKeepsRegisters
<1>1. TrapInv /\ [TrapNext]_<<vars, m>> =>
        [UserRun \/ \A s \in RunnableSlots \cap RunnableSlots' : Keeps(s)]_<<vars, m>>
  BY TrapStep, Zenon DEF KeepsAll
<1> QED
  BY <1>1, TrapInvariant, PTL DEF TrapSpec, KernelKeepsRegisters

\* fork returns twice, with the same registers: 0 in the child, and in the
\* father the pid of the child, which is not 0.
THEOREM ForksReturnTwice == TrapSpec => ForkReturnsTwice
<1>1. TrapInv /\ [TrapNext]_<<vars, m>> => [ForkStep]_<<vars, m>>
  BY TrapStep, Zenon
<1> QED
  BY <1>1, TrapInvariant, PTL DEF TrapSpec, ForkReturnsTwice

=============================================================================
