-------------------------------- MODULE Timer --------------------------------
(***************************************************************************)
(* One hart's timer, from the kernel (os/src/timer.c, os/src/sbi.c) through*)
(* the firmware (lib/sbi/sbi_timer.c, lib/utils/timer/aclint_mtimer.c) to  *)
(* the device.  Without the Sstc extension the firmware programs mtimecmp, *)
(* takes the machine interrupt, and raises STIP for supervisor mode; with  *)
(* it the firmware writes stimecmp and STIP follows from the comparison.   *)
(***************************************************************************)
EXTENDS Integers

CONSTANTS
  Sstc,           \* whether the hart has the extension
  MayStop,        \* whether supervisor mode stops the hart
  CLOCK_FREQ, TICKS_PER_SEC,
  Step,           \* mtime advances by this much at a time
  MaxTime         \* bound on mtime

\* What the constants are; the theorems have it as their hypothesis.
TimerConstants ==
  /\ Sstc \in BOOLEAN /\ MayStop \in BOOLEAN
  /\ \A n \in {CLOCK_FREQ, TICKS_PER_SEC, Step, MaxTime} : n \in Nat \ {0}

VARIABLES
  pos,            \* "S" in supervisor mode, "off" stopped, else inside a call
  next,           \* the argument of the call
  mtime,
  mtimecmp, stimecmp,
  mtie,           \* mie.MTIP
  stip,           \* the bit of mip that the firmware writes
  deadline,       \* history: what the last completed write of a comparator asked for
  traps           \* history: machine timer interrupts since then

vars == <<pos, next, mtime, mtimecmp, stimecmp, mtie, stip, deadline, traps>>

Interval == CLOCK_FREQ \div TICKS_PER_SEC
Never == MaxTime + Interval + 1      \* -1ULL

MTIP == mtime >= mtimecmp

\* What supervisor mode sees in sip
STIP == IF Sstc THEN mtime >= stimecmp ELSE stip

Init ==
  /\ pos = "S" /\ next = 0 /\ mtime = 0
  /\ mtimecmp = Never /\ stimecmp = Never
  /\ mtie = FALSE /\ stip = FALSE
  /\ deadline = Never /\ traps = 0

\* The clock, at any moment
Advance ==
  /\ mtime + Step <= MaxTime
  /\ mtime' = mtime + Step
  /\ UNCHANGED <<pos, next, mtimecmp, stimecmp, mtie, stip, deadline, traps>>

\* The kernel reads the clock; the call comes later.
set_next_trigger ==
  /\ pos = "S"
  /\ next' = mtime + Interval
  /\ pos' = "call"
  /\ UNCHANGED <<mtime, mtimecmp, stimecmp, mtie, stip, deadline, traps>>

\* sbi_timer_event_start: the comparator ...
sbi_timer_event_start ==
  /\ pos = "call"
  /\ pos' = IF Sstc THEN "enable" ELSE "clear"
  /\ mtimecmp' = IF Sstc THEN mtimecmp ELSE next
  /\ stimecmp' = IF Sstc THEN next ELSE stimecmp
  /\ deadline' = next /\ traps' = 0 /\ next' = 0
  /\ UNCHANGED <<mtime, mtie, stip>>

\* ... then the tick that may be pending is withdrawn ...
ClearStip ==
  /\ pos = "clear"
  /\ stip' = FALSE
  /\ pos' = "enable"
  /\ UNCHANGED <<next, mtime, mtimecmp, stimecmp, mtie, deadline, traps>>

\* ... and the machine interrupt is enabled.
EnableMtip ==
  /\ pos = "enable"
  /\ mtie' = TRUE
  /\ pos' = "S"
  /\ UNCHANGED <<next, mtime, mtimecmp, stimecmp, stip, deadline, traps>>

\* The machine timer interrupt: taken whenever the hart is below machine mode.
sbi_timer_process ==
  /\ pos \in {"S", "call"} /\ mtie /\ MTIP
  /\ mtie' = FALSE
  /\ stip' = (stip \/ ~Sstc)
  /\ traps' = traps + 1
  /\ UNCHANGED <<pos, next, mtime, mtimecmp, stimecmp, deadline>>

\* A hart that stops; stimecmp keeps its value.
sbi_timer_exit ==
  /\ pos = "S" /\ MayStop
  /\ pos' = "off"
  /\ mtimecmp' = Never /\ stip' = FALSE /\ mtie' = FALSE
  /\ deadline' = Never /\ traps' = 0
  /\ UNCHANGED <<next, mtime, stimecmp>>

\* Its next start
sbi_timer_init ==
  /\ pos = "off"
  /\ mtimecmp' = Never
  /\ pos' = "S"
  /\ UNCHANGED <<next, mtime, stimecmp, mtie, stip, deadline, traps>>

Firmware ==
  sbi_timer_event_start \/ ClearStip \/ EnableMtip \/ sbi_timer_process \/ sbi_timer_init

Next == Advance \/ set_next_trigger \/ Firmware \/ sbi_timer_exit

Spec == Init /\ [][Next]_vars

-----------------------------------------------------------------------------
\* Supervisor mode is never interrupted before the deadline it set last, also
\* when the previous tick was raised while it was computing the new one.
NoEarlyTick == pos = "S" /\ STIP => mtime >= deadline

\* sbi_timer_process masks the interrupt whose level stays high: machine mode
\* is entered at most once for a deadline.
OneTrapPerDeadline == traps <= 1

\* A deadline that has passed is not forgotten: supervisor mode sees its tick, or
\* the machine interrupt that raises the tick is enabled and pending.
NoTickForgotten ==
  pos = "S" /\ deadline # Never /\ mtime >= deadline => STIP \/ (mtie /\ MTIP)

=============================================================================
