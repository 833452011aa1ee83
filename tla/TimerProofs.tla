------------------------------ MODULE TimerProofs ------------------------------
(***************************************************************************)
(* Safety properties of the timer, for every frequency, interval, step     *)
(* of the clock and bound.                                                 *)
(***************************************************************************)
EXTENDS Timer, TLAPS

\* Comparator and deadline agree; a tick that is raised is due, except between
\* the write of the comparator and the withdrawal of the old tick; the machine
\* interrupt of a deadline is enabled until it is taken, and then no more.
TimerInv ==
  /\ pos \in {"S", "call", "clear", "enable", "off"}
  /\ next \in Nat /\ mtime \in Nat /\ mtimecmp \in Nat /\ stimecmp \in Nat /\ deadline \in Nat
  /\ mtie \in BOOLEAN /\ stip \in BOOLEAN /\ traps \in 0..1
  /\ ~Sstc => mtimecmp = deadline
  /\ Sstc /\ ~MayStop => stimecmp = deadline
  /\ ~Sstc /\ stip /\ pos # "clear" => mtime >= deadline
  /\ pos = "off" => deadline = Never
  /\ pos \in {"clear", "enable", "off"} => traps = 0
  /\ pos \in {"S", "call"} /\ traps = 1 => ~mtie
  /\ Sstc /\ deadline # Never => stimecmp = deadline
  /\ ~Sstc /\ pos \in {"S", "call"} /\ deadline # Never => mtie \/ stip

\* The interval between two ticks, the largest time and the clock's step are numbers.
LEMMA IntervalNat ==
  ASSUME TimerConstants
  PROVE  Interval \in Nat /\ Never \in Nat /\ Step \in Nat
  BY DEF TimerConstants, Interval, Never

\* TimerInv holds initially.
LEMMA TimerInit ==
  ASSUME TimerConstants
  PROVE  Init => TimerInv
<1> SUFFICES ASSUME Init PROVE TimerInv
  OBVIOUS
<1>1. ~mtie /\ mtie \in BOOLEAN /\ ~stip /\ stip \in BOOLEAN
  BY Zenon DEF Init
<1>2. /\ pos = "S" /\ next = 0 /\ mtime = 0 /\ mtimecmp = Never /\ stimecmp = Never
      /\ deadline = Never /\ traps = 0
  BY DEF Init
<1> QED
  BY <1>1, <1>2, IntervalNat DEF TimerInv

\* TimerInv is kept by every step of the kernel, the firmware and the clock.
LEMMA TimerStep ==
  ASSUME TimerConstants
  PROVE  TimerInv /\ [Next]_vars => TimerInv'
<1> SUFFICES ASSUME TimerInv, [Next]_vars PROVE TimerInv'
  OBVIOUS
<1> USE IntervalNat DEF TimerInv
<1>1. CASE Advance
  BY <1>1 DEF Advance
<1>2. CASE set_next_trigger
  BY <1>2 DEF set_next_trigger
<1>3. CASE sbi_timer_event_start
  BY <1>3 DEF sbi_timer_event_start
<1>4. CASE ClearStip
  BY <1>4 DEF ClearStip
<1>5. CASE EnableMtip
  BY <1>5 DEF EnableMtip
<1>6. CASE sbi_timer_process
  <2>1. /\ pos' \in {"S", "call"} /\ traps' = 1
        /\ ~Sstc => mtime' >= deadline'
        /\ UNCHANGED <<next, mtime, mtimecmp, stimecmp, deadline>>
    BY <1>6 DEF sbi_timer_process, MTIP
  <2>2. ~mtie' /\ mtie' \in BOOLEAN /\ stip' \in BOOLEAN
    BY <1>6, Zenon DEF sbi_timer_process
  <2>3. ~Sstc => stip'
    BY <1>6, Zenon DEF sbi_timer_process
  <2> QED
    BY <2>1, <2>2, <2>3
<1>7. CASE sbi_timer_init
  BY <1>7 DEF sbi_timer_init
<1>8. CASE sbi_timer_exit
  <2>1. /\ pos' = "off" /\ mtimecmp' = Never /\ deadline' = Never /\ traps' = 0
        /\ UNCHANGED <<next, mtime, stimecmp>>
    BY <1>8 DEF sbi_timer_exit
  <2>2. ~mtie' /\ mtie' \in BOOLEAN /\ ~stip' /\ stip' \in BOOLEAN
    BY <1>8, Zenon DEF sbi_timer_exit
  <2>3. ~(Sstc /\ ~MayStop)
    BY <1>8, Zenon DEF sbi_timer_exit
  <2> QED
    BY <2>1, <2>2, <2>3
<1>9. CASE UNCHANGED vars
  BY <1>9 DEF vars
<1> QED
  BY <1>1, <1>2, <1>3, <1>4, <1>5, <1>6, <1>7, <1>8, <1>9 DEF Next, Firmware

\* Machine mode is entered at most once for a deadline.
THEOREM TrapsOnce ==
  ASSUME TimerConstants
  PROVE  Spec => []OneTrapPerDeadline
<1>1. TimerInv => OneTrapPerDeadline
  BY DEF TimerInv, OneTrapPerDeadline
<1> QED
  BY <1>1, TimerInit, TimerStep, PTL DEF Spec

\* No tick comes before its deadline, with Sstc or without, unless a hart with
\* Sstc is stopped in between, which keeps stimecmp.
THEOREM NoTickIsEarly ==
  ASSUME TimerConstants, ~(Sstc /\ MayStop)
  PROVE  Spec => []NoEarlyTick
<1>1. TimerInv => NoEarlyTick
  BY DEF TimerConstants, TimerInv, NoEarlyTick, STIP
<1> QED
  BY <1>1, TimerInit, TimerStep, PTL DEF Spec

\* A deadline that has passed has raised its tick, or its interrupt is enabled
\* and pending, with Sstc or without, also when the hart was stopped before.
THEOREM TickIsPending ==
  ASSUME TimerConstants
  PROVE  Spec => []NoTickForgotten
<1>1. TimerInv => NoTickForgotten
  BY DEF TimerConstants, TimerInv, NoTickForgotten, STIP, MTIP
<1> QED
  BY <1>1, TimerInit, TimerStep, PTL DEF Spec

=============================================================================
