--------------------------------- MODULE Boot ---------------------------------
(***************************************************************************)
(* From reset to supervisor mode, and back: boot/start.s, and of OpenSBI   *)
(* firmware/fw_base.S, lib/sbi/sbi_init.c, sbi_domain_finalize and         *)
(* lib/sbi/sbi_hsm.c.  Every hart copies the firmware image into memory    *)
(* and enters it; a lottery makes one the boot hart; the others wait until *)
(* it is done, and then until somebody starts them.                        *)
(***************************************************************************)
EXTENDS Integers, Sequences, FiniteSets

CONSTANTS
  Harts,
  Domains,      \* the device tree's domains: a sequence of <<boot hart, next-addr>>
  JumpAddr,     \* FW_JUMP_ADDR
  StartAddrs,   \* addresses supervisor mode passes to hart_start and hart_suspend
  Callers,      \* the harts of one domain whose supervisor mode makes such calls
  Pace          \* what is assumed of the speed of start.s, see below

ASSUME PaceAssumption ==
  /\ 0 \in Harts
  /\ Pace \in {"none", "copied", "first"}

VARIABLES
  pc,
  relocated,    \* _relocate_lottery
  status,       \* _boot_status
  lottery,      \* coldboot_lottery
  done,         \* coldboot_done
  hmask,        \* coldboot_wait_hmask
  hstate,       \* per hart: sbi_hsm_data.state
  next,         \* per hart: next_addr of its scratch space
  msip,         \* per hart: its software interrupt
  arg,          \* per hart: the start it is carrying out, and where it returns
  i,            \* the loop counter of sbi_domain_finalize
  cold,         \* history: the harts that took the cold boot path
  asked,        \* history: where a hart was last told to enter supervisor mode
  entry,        \* history: where it did
  overtaken     \* history: the harts that did before their address was stored

fw == <<relocated, status>>
boot == <<lottery, done, hmask>>
inner == <<arg, i>>
hist == <<cold, asked, entry, overtaken>>
vars == <<pc, fw, boot, hstate, next, msip, inner, hist>>

NoAddr == "none"
NoArg == <<0, NoAddr, "none">>

GoTo(h, l) == pc' = [pc EXCEPT ![h] = l]

Init ==
  /\ pc = [h \in Harts |-> "load"]
  /\ relocated = 0 /\ status = 0
  /\ lottery = 0 /\ done = 0 /\ hmask = {}
  /\ hstate = [h \in Harts |-> "STARTED"]     \* the state with number 0
  /\ next = [h \in Harts |-> JumpAddr]
  /\ msip = [h \in Harts |-> FALSE]
  /\ arg = [h \in Harts |-> NoArg] /\ i = [h \in Harts |-> 0]
  /\ cold = {}
  /\ asked = [h \in Harts |-> NoAddr]
  /\ entry = [h \in Harts |-> NoAddr]
  /\ overtaken = {}

-----------------------------------------------------------------------------
\* boot/start.s: every hart copies 2 MB from flash, which hold the firmware, its
\* data, and, as zeros, its bss and the harts' scratch spaces.
load_data(h) ==
  /\ pc[h] = "load"
  /\ relocated' = 0 /\ status' = 0
  /\ lottery' = 0 /\ done' = 0 /\ hmask' = {}
  /\ hstate' = [g \in Harts |-> "STARTED"]
  /\ next' = [g \in Harts |-> JumpAddr]
  /\ GoTo(h, IF h = 0 THEN "entry" ELSE "loop")
  /\ UNCHANGED <<msip, inner, hist>>

\* "copied": all harts copy at the same speed.  "first": the delay loop also
\* outlasts hart 0's way to the second lottery.
InStep(h) ==
  /\ Pace # "none" => \A g \in Harts : pc[g] # "load"
  /\ Pace = "first" /\ h # 0 => lottery = 1

\* The delay loop of all harts but 0, then the jump into the firmware and its
\* first lottery (amoadd).
_try_lottery(h) ==
  /\ pc[h] \in {"entry", "loop"} /\ InStep(h)
  /\ relocated' = relocated + 1
  /\ GoTo(h, IF relocated = 0 THEN "setup" ELSE "wait_boot_hart")
  /\ UNCHANGED <<status, boot, hstate, next, msip, inner, hist>>

\* The winner clears the bss and fills in every hart's scratch space ...
_bss_zero(h) ==
  /\ pc[h] = "setup"
  /\ status' = 1
  /\ lottery' = 0 /\ done' = 0 /\ hmask' = {}
  /\ next' = [g \in Harts |-> JumpAddr]
  /\ GoTo(h, "mark")
  /\ UNCHANGED <<relocated, hstate, msip, inner, hist>>

\* ... and lets the others go on.
_fdt_reloc_done(h) ==
  /\ pc[h] = "mark"
  /\ status' = 2
  /\ GoTo(h, "sbi_init")
  /\ UNCHANGED <<relocated, boot, hstate, next, msip, inner, hist>>

_wait_for_boot_hart(h) ==
  /\ pc[h] = "wait_boot_hart" /\ status = 2
  /\ GoTo(h, "sbi_init")
  /\ UNCHANGED <<fw, boot, hstate, next, msip, inner, hist>>

\* mutant: the flag is looked at in place of the lottery
ColdUntilDone(h) ==
  /\ pc[h] = "sbi_init"
  /\ lottery' = 1
  /\ cold' = IF done = 0 THEN cold \cup {h} ELSE cold
  /\ GoTo(h, IF done = 0 THEN "cold" ELSE "warm")
  /\ UNCHANGED <<fw, done, hmask, hstate, next, msip, inner, asked, entry, overtaken>>

\* sbi_init: the second lottery (atomic_xchg)
sbi_init(h) ==
  /\ pc[h] = "sbi_init"
  /\ lottery' = 1
  /\ cold' = IF lottery = 0 THEN cold \cup {h} ELSE cold
  /\ GoTo(h, IF lottery = 0 THEN "cold" ELSE "warm")
  /\ UNCHANGED <<fw, done, hmask, hstate, next, msip, inner, asked, entry, overtaken>>

-----------------------------------------------------------------------------
\* init_coldboot: sbi_hsm_init
sbi_hsm_init(h) ==
  /\ pc[h] = "cold"
  /\ hstate' = [g \in Harts |-> IF g = h THEN "START_PENDING" ELSE "STOPPED"]
  /\ i' = [i EXCEPT ![h] = 1]
  /\ GoTo(h, "finalize")
  /\ UNCHANGED <<fw, boot, next, msip, arg, hist>>

\* A start call of supervisor mode has yet to store the address of h.
StoreDue(h) == \E c \in Harts : pc[c] = "store" /\ arg[c][1] = h /\ arg[c][3] = "run"

\* Hart h is asked to enter at a.
Ask(h, a) ==
  /\ asked' = [asked EXCEPT ![h] = a]
  /\ overtaken' = IF StoreDue(h) THEN overtaken ELSE overtaken \ {h}

\* sbi_hsm_hart_start, called by c: the state changes first ...
sbi_hsm_hart_start(c, t, a, l) ==
  /\ hstate' = [hstate EXCEPT ![t] = "START_PENDING"]
  /\ Ask(t, a)
  /\ arg' = [arg EXCEPT ![c] = <<t, a, l>>]
  /\ GoTo(c, "store")

\* ... then the address is stored ...
StoreNext(c) ==
  /\ pc[c] = "store"
  /\ next' = [next EXCEPT ![arg[c][1]] = arg[c][2]]
  /\ GoTo(c, "raise")
  /\ UNCHANGED <<fw, boot, hstate, msip, inner, hist>>

\* mutant: the caller interrupts itself
RaiseSelf(c) ==
  /\ pc[c] = "raise"
  /\ msip' = [msip EXCEPT ![c] = TRUE]
  /\ GoTo(c, arg[c][3])
  /\ arg' = [arg EXCEPT ![c] = NoArg]
  /\ UNCHANGED <<fw, boot, hstate, next, i, hist>>

\* ... and the hart is interrupted.
sbi_ipi_raw_send(c) ==
  /\ pc[c] = "raise"
  /\ msip' = [msip EXCEPT ![arg[c][1]] = TRUE]
  /\ GoTo(c, arg[c][3])
  /\ arg' = [arg EXCEPT ![c] = NoArg]
  /\ UNCHANGED <<fw, boot, hstate, next, i, hist>>

\* sbi_domain_finalize: one round of its loop for each domain; init_coldboot
\* hangs when a boot hart cannot be started.
sbi_domain_finalize(h) ==
  /\ pc[h] = "finalize" /\ i[h] <= Len(Domains)
  /\ i' = [i EXCEPT ![h] = @ + 1]
  /\ \E dhart \in {Domains[i[h]][1]}, addr \in {Domains[i[h]][2]} :
       \/ /\ dhart = h
          /\ next' = [next EXCEPT ![h] = addr]
          /\ Ask(h, addr)
          /\ UNCHANGED <<pc, hstate, arg>>
       \/ /\ dhart # h
          /\ IF hstate[dhart] = "STOPPED"
             THEN sbi_hsm_hart_start(h, dhart, addr, "finalize")
             ELSE GoTo(h, "hang") /\ UNCHANGED <<hstate, asked, overtaken, arg>>
          /\ UNCHANGED next
  /\ UNCHANGED <<fw, boot, msip, cold, entry>>

\* wake_coldboot_harts: the flag first ...
MarkDone(h) ==
  /\ pc[h] = "finalize" /\ i[h] > Len(Domains)
  /\ done' = 1
  /\ GoTo(h, "wake")
  /\ UNCHANGED <<fw, lottery, hmask, hstate, next, msip, inner, hist>>

\* ... then, with coldboot_lock, an interrupt to all that wait.
wake_coldboot_harts(h) ==
  /\ pc[h] = "wake"
  /\ msip' = [g \in Harts |-> msip[g] \/ g \in hmask \ {h}]
  /\ i' = [i EXCEPT ![h] = 0]
  /\ GoTo(h, "prepare")
  /\ UNCHANGED <<fw, boot, hstate, next, arg, hist>>

-----------------------------------------------------------------------------
\* init_warmboot: wait_for_coldboot marks the hart, with coldboot_lock ...
MarkWaiting(h) ==
  /\ pc[h] = "warm"
  /\ hmask' = hmask \cup {h}
  /\ GoTo(h, "wait_done")
  /\ UNCHANGED <<fw, lottery, done, hstate, next, msip, inner, hist>>

\* ... looks at the flag, and sleeps while it is clear ...
wait_for_coldboot(h) ==
  /\ pc[h] = "wait_done"
  /\ GoTo(h, IF done = 1 THEN "unmark" ELSE "wfi_done")
  /\ UNCHANGED <<fw, boot, hstate, next, msip, inner, hist>>

\* ... and unmarks itself; init_warmboot then looks at the hart's state.
UnmarkWaiting(h) ==
  /\ pc[h] = "unmark"
  /\ hmask' = hmask \ {h}
  /\ GoTo(h, IF hstate[h] = "SUSPENDED" THEN "resume" ELSE "hsm_wait")
  /\ UNCHANGED <<fw, lottery, done, hstate, next, msip, inner, hist>>

sbi_hsm_hart_wait(h) ==
  /\ pc[h] = "hsm_wait"
  /\ GoTo(h, IF hstate[h] = "START_PENDING" THEN "init" ELSE "wfi_hsm")
  /\ UNCHANGED <<fw, boot, hstate, next, msip, inner, hist>>

Awake(h) ==
  /\ GoTo(h, CASE pc[h] = "wfi_done" -> "wait_done"
               [] pc[h] = "wfi_hsm" -> "hsm_wait"
               [] pc[h] = "wfi_suspend" -> "sbi_init"
               [] pc[h] = "wfi_retentive" -> "retained")
  /\ UNCHANGED <<fw, boot, hstate, next, msip, inner, hist>>

Asleep(h) == pc[h] \in {"wfi_done", "wfi_hsm", "wfi_suspend", "wfi_retentive"}

\* wfi ends when an interrupt is pending ...
WakeUp(h) == Asleep(h) /\ msip[h] /\ Awake(h)

\* ... and may end for no reason; wait_for_coldboot looks at mip in that case.
Spurious(h) == Asleep(h) /\ pc[h] # "wfi_done" /\ Awake(h)

\* The rest of init_warm_startup; sbi_ipi_init clears the interrupt.
init_warm_startup(h) ==
  /\ pc[h] = "init"
  /\ msip' = [msip EXCEPT ![h] = FALSE]
  /\ GoTo(h, "prepare")
  /\ UNCHANGED <<fw, boot, hstate, next, inner, hist>>

\* atomic_cmpxchg of the own state; the callers hang when it is another
Change(h, from, to, l) ==
  \E ok \in {hstate[h] = from} :
    /\ hstate' = IF ok THEN [hstate EXCEPT ![h] = to] ELSE hstate
    /\ GoTo(h, IF ok THEN l ELSE "hang")

sbi_hsm_prepare_next_jump(h) ==
  /\ pc[h] = "prepare"
  /\ Change(h, "START_PENDING", "STARTED", "jump")
  /\ UNCHANGED <<fw, boot, next, msip, inner, hist>>

sbi_hart_switch_mode(h) ==
  /\ pc[h] = "jump"
  /\ entry' = [entry EXCEPT ![h] = next[h]]
  /\ overtaken' = IF StoreDue(h) THEN overtaken \cup {h} ELSE overtaken
  /\ GoTo(h, "run")
  /\ UNCHANGED <<fw, boot, hstate, next, msip, inner, cold, asked>>

-----------------------------------------------------------------------------
\* A software interrupt in supervisor mode: sbi_ipi_process
sbi_ipi_process(h) ==
  /\ pc[h] = "run" /\ msip[h]
  /\ msip' = [msip EXCEPT ![h] = FALSE]
  /\ UNCHANGED <<pc, fw, boot, hstate, next, inner, hist>>

\* mutant: a hart that is on its way down can be started
StartNotStarted(c, t, a) ==
  /\ pc[c] = "run" /\ hstate[t] # "STARTED"
  /\ sbi_hsm_hart_start(c, t, a, "run")
  /\ UNCHANGED <<fw, boot, next, msip, i, cold, entry>>

\* The start call of another hart; it returns an error unless that is stopped.
HartStart(c, t, a) ==
  /\ pc[c] = "run" /\ hstate[t] = "STOPPED"
  /\ sbi_hsm_hart_start(c, t, a, "run")
  /\ UNCHANGED <<fw, boot, next, msip, i, cold, entry>>

sbi_hsm_hart_stop(h) ==
  /\ pc[h] = "run" /\ hstate[h] = "STARTED"
  /\ hstate' = [hstate EXCEPT ![h] = "STOP_PENDING"]
  /\ GoTo(h, "exit")
  /\ UNCHANGED <<fw, boot, next, msip, inner, hist>>

\* sbi_exit: pending interrupts are handled ...
sbi_ipi_exit(h) ==
  /\ pc[h] = "exit"
  /\ msip' = [msip EXCEPT ![h] = FALSE]
  /\ GoTo(h, "hsm_exit")
  /\ UNCHANGED <<fw, boot, hstate, next, inner, hist>>

\* ... then the hart goes to the warm boot entry, through the second lottery.
sbi_hsm_exit(h) ==
  /\ pc[h] = "hsm_exit"
  /\ Change(h, "STOP_PENDING", "STOPPED", "sbi_init")
  /\ UNCHANGED <<fw, boot, next, msip, inner, hist>>

\* mutant: the resume address is saved only for a retentive suspend
SuspendKeep(h, a, l) ==
  /\ pc[h] = "run"
  /\ next' = IF l = "wfi_suspend" THEN next ELSE [next EXCEPT ![h] = a]
  /\ IF l = "wfi_suspend" THEN Ask(h, a) ELSE UNCHANGED <<asked, overtaken>>
  /\ Change(h, "STARTED", "SUSPENDED", l)
  /\ UNCHANGED <<fw, boot, msip, inner, cold, entry>>

\* Suspend, non-retentive (resumes through the warm boot entry) or retentive.
sbi_hsm_hart_suspend(h, a, l) ==
  /\ pc[h] = "run"
  /\ next' = [next EXCEPT ![h] = a]
  /\ IF l = "wfi_suspend" THEN Ask(h, a) ELSE UNCHANGED <<asked, overtaken>>
  /\ Change(h, "STARTED", "SUSPENDED", l)
  /\ UNCHANGED <<fw, boot, msip, inner, cold, entry>>

\* The end of a retentive suspend
Retained(h) ==
  /\ pc[h] = "retained"
  /\ Change(h, "SUSPENDED", "STARTED", "run")
  /\ UNCHANGED <<fw, boot, next, msip, inner, hist>>

\* init_warm_resume
sbi_hsm_hart_resume_start(h) ==
  /\ pc[h] = "resume"
  /\ Change(h, "SUSPENDED", "RESUME_PENDING", "resuming")
  /\ UNCHANGED <<fw, boot, next, msip, inner, hist>>

\* mutant: the resumed hart is never said to be started again
ResumeUnfinished(h) ==
  /\ pc[h] = "resuming"
  /\ GoTo(h, "jump")
  /\ UNCHANGED <<fw, boot, hstate, next, msip, inner, hist>>

sbi_hsm_hart_resume_finish(h) ==
  /\ pc[h] = "resuming"
  /\ Change(h, "RESUME_PENDING", "STARTED", "jump")
  /\ UNCHANGED <<fw, boot, next, msip, inner, hist>>

-----------------------------------------------------------------------------
\* The steps no hart can refuse
Proceed(h) ==
  \/ load_data(h) \/ _try_lottery(h) \/ _bss_zero(h) \/ _fdt_reloc_done(h)
  \/ _wait_for_boot_hart(h) \/ sbi_init(h)
  \/ sbi_hsm_init(h) \/ sbi_domain_finalize(h) \/ MarkDone(h) \/ wake_coldboot_harts(h)
  \/ StoreNext(h) \/ sbi_ipi_raw_send(h)
  \/ MarkWaiting(h) \/ wait_for_coldboot(h) \/ UnmarkWaiting(h) \/ sbi_hsm_hart_wait(h)
  \/ WakeUp(h) \/ init_warm_startup(h) \/ sbi_hsm_hart_resume_start(h) \/ sbi_hsm_hart_resume_finish(h)
  \/ sbi_hsm_prepare_next_jump(h) \/ sbi_hart_switch_mode(h)
  \/ sbi_ipi_process(h) \/ sbi_ipi_exit(h) \/ sbi_hsm_exit(h) \/ Retained(h)

Next == \E h \in Harts :
  \/ Proceed(h)
  \/ Spurious(h)
  \/ /\ h \in Callers
     /\ \/ \E t \in Callers, a \in StartAddrs : HartStart(h, t, a)
        \/ \E a \in StartAddrs, l \in {"wfi_suspend", "wfi_retentive"} : sbi_hsm_hart_suspend(h, a, l)
        \/ sbi_hsm_hart_stop(h)

Spec == Init /\ [][Next]_vars

\* Harts run; an interrupt that is pending is noticed.
FairSpec == Spec /\ \A h \in Harts : WF_vars(Proceed(h))

-----------------------------------------------------------------------------
\* The lotteries let one hart take the cold boot path.
OneColdBootHart == Cardinality(cold) <= 1

\* A hart enters supervisor mode where its domain, or the last call that
\* started or suspended it, said; with one exception.  sbi_hsm_hart_start
\* publishes START_PENDING before it stores the address, and nothing makes the
\* hart wait: one that is through its warm boot before the store enters where
\* it was sent earlier, and the store may then hit a later suspend.
EntersWhereAsked ==
  \A h \in Harts \ overtaken : pc[h] = "run" => entry[h] = asked[h]

\* No cmpxchg of a hart's own state finds another value than the hart expects,
\* whatever the others try to start meanwhile.
NoHang == \A h \in Harts : pc[h] # "hang"

\* Once the boot is done, the state other harts see is true: a hart in supervisor
\* mode is said to be STARTED, and a hart said to be STARTED is in supervisor
\* mode, jumps there, or is carrying out a hart_start that it was called for.
StateIsTrue ==
  done = 1 => \A h \in Harts :
    /\ pc[h] = "run" => hstate[h] = "STARTED"
    /\ hstate[h] = "STARTED" => pc[h] \in {"run", "jump", "store", "raise"}

\* No wake-up is missed: a hart that waits for the boot hart is released, also
\* one that began to wait while the interrupts were sent, and a start that was
\* accepted happens, also when its hart is just on its way down.
NoWakeUpLost ==
  \A h \in Harts :
    /\ pc[h] = "warm" ~> pc[h] = "unmark"
    /\ hstate[h] = "START_PENDING" ~> hstate[h] = "STARTED"

=============================================================================
