------------------------------ MODULE BootProofs ------------------------------
(***************************************************************************)
(* One hart takes the cold boot path, for every number of harts, whatever  *)
(* the domains and whatever supervisor mode calls later, provided that no  *)
(* hart enters the firmware while another still copies it.                 *)
(*                                                                         *)
(* Hart state management, whatever harts supervisor mode starts, stops and *)
(* suspends: no compare-and-exchange of a hart's own state fails, the      *)
(* state that the others see is true, and a hart enters supervisor mode    *)
(* where it was told to.                                                   *)
(***************************************************************************)
EXTENDS Boot, FiniteSetTheorems, TLAPS

\* Where a hart has not drawn the first lottery, where the winner prepares the
\* memory, and where a hart may not be any more once it is in sbi_init
Early == {"load", "entry", "loop"}
Setup == {"setup", "mark"}
Pre == Early \cup Setup \cup {"wait_boot_hart"}

\* A copy can only be under way before the first lottery; until then nobody has
\* got further.  One hart prepares the memory, which resets the second lottery,
\* and until it is through nobody is past the wait for it.
BootInv ==
  /\ DOMAIN pc = Harts /\ relocated \in Nat
  /\ \A h \in Harts : arg[h][3] \in {"none", "finalize", "run"}
  /\ DOMAIN arg = Harts
  /\ \A h \in Harts : pc[h] = "load" => relocated = 0
  /\ relocated = 0 => cold = {} /\ status = 0 /\ \A h \in Harts : pc[h] \in Early
  /\ \A g, h \in Harts : pc[g] \in Setup /\ pc[h] \in Setup => g = h
  /\ \A g, h \in Harts : pc[g] \in Setup => pc[h] \in Pre /\ cold = {} /\ status # 2
  /\ lottery = 0 => cold = {}
  /\ \A g, h \in cold : g = h

\* A step of a hart that is in sbi_init or beyond, and stays there
Later(h) ==
  /\ pc[h] \notin Pre
  /\ DOMAIN pc' = Harts /\ pc'[h] \notin Pre /\ \A g \in Harts \ {h} : pc'[g] = pc[g]
  /\ UNCHANGED <<relocated, status, lottery, cold>>
  /\ DOMAIN arg' = Harts /\ \A g \in Harts : arg'[g][3] \in {"none", "finalize", "run"}

\* Such steps keep the invariant.
LEMMA LaterKeeps ==
  ASSUME NEW h \in Harts, BootInv, Later(h)
  PROVE  BootInv'
<1>1. relocated # 0 /\ \A g \in Harts : pc[g] \notin Setup
  BY Zenon DEF BootInv, Later, Pre
<1>2. DOMAIN pc' = Harts /\ \A g \in Harts : pc'[g] = pc[g] \/ pc'[g] \notin Pre
  BY Zenon DEF BootInv, Later
<1>3. \A g \in Harts : pc'[g] \notin Setup /\ pc'[g] # "load"
  BY <1>1, <1>2, Zenon DEF BootInv, Pre, Early, Setup
<1> QED
  BY <1>1, <1>2, <1>3, Zenon DEF BootInv, Later

\* The invariant holds before the first instruction.
LEMMA BootInit == Init => BootInv
  BY DEF Init, BootInv, NoArg, Early, Setup

\* Every step up to the second lottery keeps it.
LEMMA EarlySteps ==
  ASSUME NEW h \in Harts, BootInv, Pace # "none",
         \/ load_data(h) \/ _try_lottery(h) \/ _bss_zero(h) \/ _fdt_reloc_done(h)
         \/ _wait_for_boot_hart(h) \/ sbi_init(h)
  PROVE  BootInv'
<1> USE DEF Early, Setup, Pre, GoTo, inner, hist, fw, boot
<1>1. CASE load_data(h)
  BY <1>1, Zenon DEF BootInv, load_data
<1>2. CASE _try_lottery(h)
  <2>1. \A g \in Harts : pc[g] # "load"
    BY <1>2, Zenon DEF _try_lottery, InStep
  <2>2. CASE relocated = 0
    BY <1>2, <2>1, <2>2 DEF BootInv, _try_lottery
  <2>3. CASE relocated # 0
    BY <1>2, <2>1, <2>3 DEF BootInv, _try_lottery
  <2> QED
    BY <2>2, <2>3, Zenon
<1>3. CASE _bss_zero(h)
  BY <1>3 DEF BootInv, _bss_zero
<1>4. CASE _fdt_reloc_done(h)
  BY <1>4, Zenon DEF BootInv, _fdt_reloc_done
<1>5. CASE _wait_for_boot_hart(h)
  BY <1>5, Zenon DEF BootInv, _wait_for_boot_hart
<1>6. CASE sbi_init(h)
  <2>1. /\ UNCHANGED <<relocated, status, arg>> /\ lottery' = 1
        /\ cold' = IF lottery = 0 THEN cold \cup {h} ELSE cold
        /\ \E l \in {"cold", "warm"} : pc' = [pc EXCEPT ![h] = l]
    BY <1>6, Zenon DEF sbi_init
  <2>2. relocated # 0 /\ \A g \in Harts : pc[g] \notin Setup
    BY <1>6, Zenon DEF BootInv, sbi_init
  <2>3. \A g, k \in cold' : g = k
    BY <2>1, Zenon DEF BootInv
  <2>4. DOMAIN pc' = Harts /\ \A g \in Harts : pc'[g] \notin Setup /\ pc'[g] # "load"
    BY <2>1, <2>2, Zenon DEF BootInv
  <2> QED
    BY <2>1, <2>2, <2>3, <2>4 DEF BootInv
<1> QED
  BY <1>1, <1>2, <1>3, <1>4, <1>5, <1>6, Zenon

\* Every step of init_coldboot and of a start call is a later one.
LEMMA ColdSteps ==
  ASSUME NEW h \in Harts, BootInv,
         \/ sbi_hsm_init(h) \/ sbi_domain_finalize(h) \/ MarkDone(h) \/ wake_coldboot_harts(h)
         \/ StoreNext(h) \/ sbi_ipi_raw_send(h)
         \/ \E t \in Callers, a \in StartAddrs : HartStart(h, t, a)
  PROVE  Later(h)
<1> USE DEF Early, Setup, Pre, GoTo, inner, hist, fw, boot, BootInv, Later
<1>1. CASE sbi_hsm_init(h)
  BY <1>1, Zenon DEF sbi_hsm_init
<1>2. CASE sbi_domain_finalize(h)
  BY <1>2 DEF sbi_domain_finalize, sbi_hsm_hart_start
<1>3. CASE MarkDone(h)
  BY <1>3, Zenon DEF MarkDone
<1>4. CASE wake_coldboot_harts(h)
  BY <1>4, Zenon DEF wake_coldboot_harts
<1>5. CASE StoreNext(h)
  BY <1>5, Zenon DEF StoreNext
<1>6. CASE sbi_ipi_raw_send(h)
  BY <1>6, Zenon DEF sbi_ipi_raw_send, NoArg
<1>7. CASE \E t \in Callers, a \in StartAddrs : HartStart(h, t, a)
  BY <1>7 DEF HartStart, sbi_hsm_hart_start
<1> QED
  BY <1>1, <1>2, <1>3, <1>4, <1>5, <1>6, <1>7, Zenon

\* So is every step of the warm boot, of waiting, and of stop and suspend.
LEMMA WarmSteps ==
  ASSUME NEW h \in Harts, BootInv,
         \/ MarkWaiting(h) \/ wait_for_coldboot(h) \/ UnmarkWaiting(h) \/ sbi_hsm_hart_wait(h)
         \/ WakeUp(h) \/ Spurious(h)
         \/ init_warm_startup(h) \/ sbi_hsm_hart_resume_start(h) \/ sbi_hsm_hart_resume_finish(h)
         \/ sbi_hsm_prepare_next_jump(h) \/ sbi_hart_switch_mode(h)
         \/ sbi_ipi_process(h) \/ sbi_ipi_exit(h) \/ sbi_hsm_exit(h) \/ Retained(h)
         \/ sbi_hsm_hart_stop(h)
         \/ \E a \in StartAddrs, l \in {"wfi_suspend", "wfi_retentive"} : sbi_hsm_hart_suspend(h, a, l)
  PROVE  Later(h)
<1> USE DEF Early, Setup, Pre, GoTo, inner, hist, fw, boot, BootInv, Later
<1>1. CASE MarkWaiting(h) \/ wait_for_coldboot(h) \/ UnmarkWaiting(h) \/ sbi_hsm_hart_wait(h)
  BY <1>1, Zenon DEF MarkWaiting, wait_for_coldboot, UnmarkWaiting, sbi_hsm_hart_wait
<1>2. CASE WakeUp(h) \/ Spurious(h)
  BY <1>2 DEF WakeUp, Spurious, Asleep, Awake
<1>3. CASE init_warm_startup(h) \/ sbi_hart_switch_mode(h) \/ sbi_ipi_process(h) \/ sbi_ipi_exit(h)
           \/ sbi_hsm_hart_stop(h)
  BY <1>3, Zenon
     DEF init_warm_startup, sbi_hart_switch_mode, sbi_ipi_process, sbi_ipi_exit, sbi_hsm_hart_stop
<1>4. CASE sbi_hsm_hart_resume_start(h) \/ sbi_hsm_hart_resume_finish(h) \/ Retained(h)
           \/ sbi_hsm_prepare_next_jump(h) \/ sbi_hsm_exit(h)
  BY <1>4, Zenon DEF sbi_hsm_hart_resume_start, sbi_hsm_hart_resume_finish, Retained,
              sbi_hsm_prepare_next_jump, sbi_hsm_exit, Change
<1>5. CASE \E a \in StartAddrs, l \in {"wfi_suspend", "wfi_retentive"} : sbi_hsm_hart_suspend(h, a, l)
  BY <1>5, Zenon DEF sbi_hsm_hart_suspend, Change
<1> QED
  BY <1>1, <1>2, <1>3, <1>4, <1>5, Zenon

\* Hence every step keeps the invariant.
LEMMA BootStep ==
  ASSUME Pace # "none", BootInv, [Next]_vars
  PROVE  BootInv'
<1>1. CASE UNCHANGED vars
  BY <1>1, Zenon DEF vars, fw, boot, inner, hist, BootInv
<1>2. CASE Next
  <2> PICK h \in Harts :
        \/ Proceed(h)
        \/ Spurious(h)
        \/ \E t \in Callers, a \in StartAddrs : HartStart(h, t, a)
        \/ \E a \in StartAddrs, l \in {"wfi_suspend", "wfi_retentive"} : sbi_hsm_hart_suspend(h, a, l)
        \/ sbi_hsm_hart_stop(h)
    BY <1>2, Zenon DEF Next
  <2> QED
    BY EarlySteps, ColdSteps, WarmSteps, LaterKeeps, Zenon DEF Proceed
<1> QED
  BY <1>1, <1>2, Zenon

\* A set whose members are all equal has at most one.
LEMMA AtMostOne ==
  ASSUME NEW S, \A x, y \in S : x = y
  PROVE  Cardinality(S) <= 1
<1>1. CASE S = {}
  BY <1>1, FS_EmptySet
<1>2. CASE S # {}
  <2> PICK x : x \in S
    BY <1>2, Zenon
  <2>1. S = {x}
    BY Zenon
  <2> QED
    BY <2>1, FS_Singleton
<1> QED
  BY <1>1, <1>2, Zenon

\* The lotteries let one hart take the cold boot path, however many harts there
\* are, whatever the domains and whatever is started, stopped and suspended
\* afterwards, as long as start.s keeps the copies ahead of the entries.
THEOREM OneHartBootsCold ==
  ASSUME Pace # "none"
  PROVE  Spec => []OneColdBootHart
<1>1. BootInv => OneColdBootHart
  BY AtMostOne, Zenon DEF BootInv, OneColdBootHart
<1>2. BootInv /\ [Next]_vars => BootInv'
  BY BootStep, Zenon
<1> QED
  BY <1>1, <1>2, BootInit, PTL DEF Spec

-----------------------------------------------------------------------------
\* The device tree gives every domain a boot hart of its own.
DomainHarts ==
  /\ Len(Domains) \in Nat
  /\ \A d \in 1..Len(Domains) : Domains[d][1] \in Harts
  /\ \A d, e \in 1..Len(Domains) : Domains[d][1] = Domains[e][1] => d = e

\* On the way to, or in, wait_for_coldboot
Fresh == Pre \cup {"sbi_init", "warm", "wait_done", "wfi_done"}

\* The states that a hart at label l, whose start call returns to r, can be in
Fits(l, r, s) ==
  \/ l \in Fresh \cup {"unmark"} /\ s \in {"STOPPED", "START_PENDING", "SUSPENDED"}
  \/ l \in {"hsm_wait", "wfi_hsm"} /\ s \in {"STOPPED", "START_PENDING"}
  \/ l \in {"init", "prepare", "finalize", "wake"} /\ s = "START_PENDING"
  \/ l \in {"store", "raise"} /\ r = "finalize" /\ s = "START_PENDING"
  \/ l \in {"store", "raise"} /\ r = "run" /\ s = "STARTED"
  \/ l \in {"jump", "run"} /\ s = "STARTED"
  \/ l \in {"wfi_suspend", "wfi_retentive", "retained", "resume"} /\ s = "SUSPENDED"
  \/ l = "resuming" /\ s = "RESUME_PENDING"
  \/ l \in {"exit", "hsm_exit"} /\ s = "STOP_PENDING"

\* A hart in the loop of sbi_domain_finalize
InLoop(h) == pc[h] = "finalize" \/ (pc[h] \in {"store", "raise"} /\ arg[h][3] = "finalize")

\* The states have been set up by the boot hart.
SetUp == \E c \in cold : pc[c] # "cold"

\* Nobody gets past wait_for_coldboot before the boot hart is done; from the
\* set-up on every hart's state fits what it does, and the boot harts that
\* sbi_domain_finalize has yet to start are stopped.
HsmInv ==
  /\ DOMAIN hstate = Harts /\ DOMAIN i = Harts /\ cold \subseteq Harts
  /\ \A h \in Harts : pc[h] = "cold" => h \in cold
  /\ ~SetUp => done = 0
  /\ done = 0 => \A h \in Harts : pc[h] \in Fresh \/ (h \in cold /\ (pc[h] = "cold" \/ InLoop(h)))
  /\ done = 0 => \A h \in cold : pc[h] = "cold" \/ InLoop(h)
  /\ SetUp => \A h \in Harts : Fits(pc[h], arg[h][3], hstate[h])
  /\ \A h \in Harts : InLoop(h) =>
       /\ done = 0 /\ i[h] \in Nat \ {0}
       /\ \A d \in 1..Len(Domains) :
            d >= i[h] => Domains[d][1] = h \/ hstate[Domains[d][1]] = "STOPPED"

\* Only hart h moves.
Alone(h) ==
  /\ DOMAIN hstate' = Harts /\ DOMAIN i' = Harts
  /\ \A g \in Harts \ {h} :
       pc'[g] = pc[g] /\ arg'[g] = arg[g] /\ hstate'[g] = hstate[g] /\ i'[g] = i[g]
  /\ UNCHANGED <<cold, done>>

\* A hart that stays on the way to wait_for_coldboot
LEMMA FreshStep ==
  ASSUME NEW h \in Harts, BootInv, HsmInv, Alone(h),
         pc[h] \in Fresh, pc'[h] \in Fresh, hstate' = hstate, arg' = arg
  PROVE  HsmInv'
<1>1. \A g \in Harts : InLoop(g)' => InLoop(g) /\ i'[g] = i[g]
  BY Zenon DEF Alone, InLoop, Fresh, Pre, Early, Setup
<1>2. SetUp' => SetUp
  BY Zenon DEF HsmInv, SetUp, Alone, Fresh, Pre, Early, Setup
<1>3. SetUp => SetUp'
  BY Zenon DEF SetUp, Alone, Fresh, Pre, Early, Setup, HsmInv
<1>4. \A g \in Harts : pc'[g] = "cold" => g \in cold'
  BY Zenon DEF HsmInv, Alone, Fresh, Pre, Early, Setup
<1>5. done' = 0 => \A g \in Harts : pc'[g] \in Fresh \/ (g \in cold' /\ (pc'[g] = "cold" \/ InLoop(g)'))
  BY DEF HsmInv, Alone, InLoop
<1>6. done' = 0 => \A g \in cold' : pc'[g] = "cold" \/ InLoop(g)'
  BY DEF HsmInv, Alone, InLoop, Fresh, Pre, Early, Setup
<1>7. SetUp' => \A g \in Harts : Fits(pc'[g], arg'[g][3], hstate'[g])
  BY <1>2 DEF HsmInv, Alone, Fits, Fresh, Pre, Early, Setup
<1> QED
  BY <1>1, <1>2, <1>3, <1>4, <1>5, <1>6, <1>7, Zenon DEF HsmInv, Alone

\* A step after the boot whose result fits
LEMMA OwnStep ==
  ASSUME NEW h \in Harts, BootInv, HsmInv, Alone(h), done # 0,
         pc'[h] # "cold", ~InLoop(h)', Fits(pc'[h], arg'[h][3], hstate'[h])
  PROVE  HsmInv'
<1>1. \A g \in Harts : ~InLoop(g)'
  BY DEF Alone, InLoop, HsmInv
<1>2. SetUp /\ SetUp'
  BY Zenon DEF SetUp, Alone, HsmInv
<1>3. \A g \in Harts : Fits(pc'[g], arg'[g][3], hstate'[g])
  BY <1>2, Zenon DEF HsmInv, Alone
<1> QED
  BY <1>1, <1>2, <1>3, Zenon DEF HsmInv, Alone

\* The invariant holds before the first instruction.
LEMMA HsmInit == Init => HsmInv
  BY DEF Init, HsmInv, SetUp, InLoop, Fresh, Pre, Early

\* The steps up to the second lottery
LEMMA EarlyHsm ==
  ASSUME NEW h \in Harts, BootInv, HsmInv,
         \/ load_data(h) \/ _try_lottery(h) \/ _bss_zero(h) \/ _fdt_reloc_done(h)
         \/ _wait_for_boot_hart(h) \/ sbi_init(h)
  PROVE  HsmInv'
<1> USE DEF Early, Setup, Pre, Fresh, GoTo, inner, hist, fw, boot
<1>1. CASE load_data(h)
  <2>1. cold = {} /\ cold' = {} /\ done' = 0 /\ UNCHANGED <<arg, i>> /\ DOMAIN hstate' = Harts
    BY <1>1, Zenon DEF BootInv, load_data
  <2>2. \A g \in Harts : pc'[g] \in Early
    BY <1>1, Zenon DEF BootInv, load_data
  <2> QED
    BY <2>1, <2>2, Zenon DEF HsmInv, SetUp, InLoop
<1>2. CASE _try_lottery(h) \/ _fdt_reloc_done(h) \/ _wait_for_boot_hart(h)
  <2>1. Alone(h) /\ pc[h] \in Fresh /\ pc'[h] \in Fresh /\ hstate' = hstate /\ arg' = arg
    BY <1>2 DEF BootInv, HsmInv, Alone, _try_lottery, _fdt_reloc_done, _wait_for_boot_hart
  <2> QED
    BY <2>1, FreshStep, Zenon
<1>3. CASE _bss_zero(h)
  <2>1. done = 0
    BY <1>3, Zenon DEF BootInv, HsmInv, SetUp, _bss_zero
  <2>2. Alone(h) /\ pc[h] \in Fresh /\ pc'[h] \in Fresh /\ hstate' = hstate /\ arg' = arg
    BY <1>3, <2>1, Zenon DEF BootInv, HsmInv, Alone, _bss_zero
  <2> QED
    BY <2>2, FreshStep, Zenon
<1>4. CASE sbi_init(h) /\ lottery = 0
  <2>1. cold = {} /\ cold' = {h} /\ UNCHANGED <<arg, i, done, hstate>>
    BY <1>4, Zenon DEF BootInv, sbi_init
  <2>2. done = 0 /\ \A g \in Harts : pc[g] \in Fresh
    BY <2>1, Zenon DEF HsmInv, SetUp
  <2>3. pc'[h] = "cold" /\ \A g \in Harts \ {h} : pc'[g] = pc[g]
    BY <1>4, Zenon DEF BootInv, sbi_init
  <2>4. ~SetUp' /\ \A g \in Harts : ~InLoop(g)'
    BY <2>1, <2>2, <2>3, Zenon DEF SetUp, InLoop
  <2> QED
    BY <2>1, <2>2, <2>3, <2>4, Zenon DEF HsmInv
<1>5. CASE sbi_init(h) /\ lottery # 0
  <2>1. Alone(h) /\ pc[h] \in Fresh /\ pc'[h] \in Fresh /\ hstate' = hstate /\ arg' = arg
    BY <1>5, Zenon DEF BootInv, HsmInv, Alone, sbi_init
  <2> QED
    BY <2>1, FreshStep, Zenon
<1> QED
  BY <1>1, <1>2, <1>3, <1>4, <1>5, Zenon

\* The boot hart is alone until it has set coldboot_done.
LEMMA ColdAlone ==
  ASSUME NEW h \in Harts, BootInv, HsmInv, pc[h] \in {"cold", "finalize"}
  PROVE  /\ h \in cold /\ \A g \in cold : g = h
         /\ done = 0 /\ \A g \in Harts \ {h} : pc[g] \in Fresh
<1>1. \A g1, g2 \in cold : g1 = g2
  BY Zenon DEF BootInv
<1>2. pc[h] \notin Fresh
  BY Zenon DEF Fresh, Pre, Early, Setup
<1>3. done = 0
  <2>1. CASE pc[h] = "finalize"
    BY <2>1, Zenon DEF HsmInv, InLoop
  <2>2. CASE pc[h] = "cold"
    <3>1. h \in cold
      BY <2>2, Zenon DEF HsmInv
    <3>2. ~SetUp
      BY <1>1, <2>2, <3>1, Zenon DEF SetUp
    <3> QED
      BY <3>2, Zenon DEF HsmInv
  <2> QED
    BY <2>1, <2>2, Zenon
<1>4. \A g \in Harts : pc[g] \in Fresh \/ g \in cold
  BY <1>3, Zenon DEF HsmInv
<1> QED
  BY <1>1, <1>2, <1>3, <1>4, Zenon

\* init_coldboot: the set-up, the loop over the domains and its end
LEMMA ColdHsm ==
  ASSUME NEW h \in Harts, BootInv, HsmInv, DomainHarts,
         sbi_hsm_init(h) \/ sbi_domain_finalize(h) \/ MarkDone(h)
  PROVE  HsmInv'
<1> USE DEF GoTo, inner, hist, fw, boot
<1>0. pc[h] \in {"cold", "finalize"}
  BY Zenon DEF sbi_hsm_init, sbi_domain_finalize, MarkDone
<1>1. h \in cold /\ \A g \in cold : g = h
  BY <1>0, ColdAlone, Zenon
<1>2. done = 0 /\ \A g \in Harts \ {h} : pc[g] \in Fresh
  BY <1>0, ColdAlone, Zenon
<1>3. /\ UNCHANGED cold /\ \A g \in Harts \ {h} : pc'[g] = pc[g]
      /\ pc'[h] \in {"finalize", "store", "wake", "hang"}
  BY Zenon DEF BootInv, sbi_hsm_init, sbi_domain_finalize, sbi_hsm_hart_start, MarkDone
<1>4. SetUp' /\ \A g \in Harts : pc'[g] # "cold"
  BY <1>1, <1>2, <1>3, Zenon DEF SetUp, Fresh, Pre, Early, Setup
<1>5. \A g \in Harts \ {h} : ~InLoop(g)'
  BY <1>2, <1>3, Zenon DEF InLoop, Fresh, Pre, Early, Setup
<1>6. CASE sbi_hsm_init(h)
  <2>1. /\ pc'[h] = "finalize" /\ i'[h] = 1 /\ DOMAIN i' = Harts /\ done' = 0
        /\ hstate' = [g \in Harts |-> IF g = h THEN "START_PENDING" ELSE "STOPPED"]
    BY <1>2, <1>6, Zenon DEF BootInv, HsmInv, sbi_hsm_init
  <2>2. InLoop(h)'
    BY <2>1, Zenon DEF InLoop
  <2>3. \A g \in Harts : Fits(pc'[g], arg'[g][3], hstate'[g])
    BY <1>2, <1>3, <2>1, Zenon DEF Fits
  <2>4. \A d \in 1..Len(Domains) : Domains[d][1] = h \/ hstate'[Domains[d][1]] = "STOPPED"
    BY <2>1, Zenon DEF DomainHarts
  <2>5. DOMAIN hstate' = Harts /\ i'[h] \in Nat \ {0}
    BY <2>1
  <2>6. cold' \subseteq Harts /\ \A g \in cold' : g = h
    BY <1>1, <1>3, Zenon
  <2>7. \A g \in Harts : pc'[g] \in Fresh \/ (g \in cold' /\ InLoop(g)')
    BY <1>1, <1>2, <1>3, <2>2, Zenon
  <2> QED
    BY <1>4, <1>5, <2>1, <2>2, <2>3, <2>4, <2>5, <2>6, <2>7, Zenon DEF HsmInv
<1>7. CASE sbi_domain_finalize(h)
  <2> DEFINE b == Domains[i[h]][1]
  <2>1. /\ i[h] \in 1..Len(Domains) /\ i'[h] = i[h] + 1 /\ DOMAIN i' = Harts /\ done' = 0
        /\ b \in Harts /\ pc[h] = "finalize" /\ InLoop(h)
        /\ \A d \in 1..Len(Domains) :
             d >= i[h] => Domains[d][1] = h \/ hstate[Domains[d][1]] = "STOPPED"
    <3>1. InLoop(h) /\ pc[h] = "finalize" /\ i[h] <= Len(Domains) /\ i' = [i EXCEPT ![h] = @ + 1] /\ done' = done
      BY <1>7, Zenon DEF InLoop, sbi_domain_finalize
    <3>2. i[h] \in Nat \ {0} /\ DOMAIN i = Harts
          /\ \A d \in 1..Len(Domains) :
               d >= i[h] => Domains[d][1] = h \/ hstate[Domains[d][1]] = "STOPPED"
      BY <3>1, Zenon DEF HsmInv
    <3>3. i[h] \in 1..Len(Domains) /\ b \in Harts
      BY <3>1, <3>2 DEF DomainHarts
    <3> QED
      BY <1>2, <3>1, <3>2, <3>3, Zenon
  <2>2. SetUp
    BY <1>1, <2>1, Zenon DEF SetUp
  <2>3. CASE b = h
    <3>1. UNCHANGED <<pc, hstate, arg>>
      BY <1>7, <2>3, Zenon DEF sbi_domain_finalize
    <3>2. InLoop(h)'
      BY <2>1, <3>1, Zenon DEF InLoop
    <3>3. \A g \in Harts : Fits(pc'[g], arg'[g][3], hstate'[g])
      BY <2>2, <3>1, Zenon DEF HsmInv
    <3> QED
      BY <1>1, <1>2, <1>3, <1>4, <1>5, <2>1, <3>1, <3>2, <3>3 DEF HsmInv
  <2>4. CASE b # h
    <3>1. hstate[b] = "STOPPED"
      BY <2>1, <2>4
    <3>2. /\ pc'[h] = "store" /\ arg'[h][3] = "finalize"
          /\ hstate' = [hstate EXCEPT ![b] = "START_PENDING"]
          /\ \A g \in Harts \ {h} : arg'[g] = arg[g]
      BY <1>7, <2>4, <3>1 DEF sbi_domain_finalize, sbi_hsm_hart_start, BootInv
    <3>3. InLoop(h)'
      BY <3>2, Zenon DEF InLoop
    <3>4. \A g \in Harts : Fits(pc[g], arg[g][3], hstate[g])
      BY <2>2, Zenon DEF HsmInv
    <3>5. DOMAIN hstate' = Harts /\ hstate'[b] = "START_PENDING"
          /\ \A g \in Harts \ {b} : hstate'[g] = hstate[g]
      BY <2>1, <3>2, Zenon DEF HsmInv
    <3>6. hstate[h] = "START_PENDING"
      BY <2>1, <3>4, Zenon DEF Fits, Fresh, Pre, Early, Setup
    <3>7. \A g \in Harts : Fits(pc'[g], arg'[g][3], hstate'[g])
      BY <1>2, <1>3, <2>1, <2>4, <3>2, <3>4, <3>5, <3>6 DEF Fits
    <3>8. \A d \in 1..Len(Domains) :
             d >= i'[h] => Domains[d][1] = h \/ hstate'[Domains[d][1]] = "STOPPED"
      <4> SUFFICES ASSUME NEW d \in 1..Len(Domains), d >= i'[h]
                   PROVE  Domains[d][1] = h \/ hstate'[Domains[d][1]] = "STOPPED"
        BY Zenon
      <4>1. d >= i[h] /\ d # i[h]
        BY <2>1 DEF DomainHarts
      <4>2. Domains[d][1] # b /\ Domains[d][1] \in Harts
        BY <2>1, <4>1, Zenon DEF DomainHarts
      <4> QED
        BY <2>1, <3>5, <4>1, <4>2, Zenon
    <3>9. done' = 0 => \A g \in Harts : pc'[g] \in Fresh \/ (g \in cold' /\ (pc'[g] = "cold" \/ InLoop(g)'))
      BY <1>1, <1>2, <1>3, <3>3, Zenon
    <3>10. i'[h] \in Nat \ {0}
      BY <2>1
    <3> QED
      BY <1>1, <1>3, <1>4, <1>5, <2>1, <3>3, <3>5, <3>7, <3>8, <3>9, <3>10, ZenonT(30) DEF HsmInv
  <2> QED
    BY <2>3, <2>4, Zenon
<1>8. CASE MarkDone(h)
  <2>1. /\ pc[h] = "finalize" /\ pc'[h] = "wake" /\ done' = 1 /\ UNCHANGED <<i, hstate, arg>>
    BY <1>8, Zenon DEF MarkDone, BootInv
  <2>2. SetUp
    BY <1>1, <2>1, Zenon DEF SetUp
  <2>3. \A g \in Harts : Fits(pc'[g], arg'[g][3], hstate'[g])
    BY <1>3, <2>1, <2>2 DEF HsmInv, Fits, Fresh, Pre, Early, Setup
  <2>4. ~InLoop(h)'
    BY <2>1, Zenon DEF InLoop
  <2> QED
    BY <1>1, <1>2, <1>3, <1>4, <1>5, <2>1, <2>3, <2>4 DEF HsmInv
<1> QED
  BY <1>6, <1>7, <1>8, Zenon

\* A hart that is anywhere else can only be there after the boot.
LEMMA AfterBoot ==
  ASSUME NEW h \in Harts, HsmInv, pc[h] \notin Fresh, pc[h] # "cold", ~InLoop(h)
  PROVE  done # 0 /\ SetUp /\ \A g \in Harts : Fits(pc[g], arg[g][3], hstate[g])
BY Zenon DEF HsmInv

\* The stores of a start call, of the boot hart or of a hart in supervisor mode
LEMMA StoreHsm ==
  ASSUME NEW h \in Harts, BootInv, HsmInv, StoreNext(h) \/ sbi_ipi_raw_send(h)
  PROVE  HsmInv'
<1>1. /\ pc[h] \in {"store", "raise"} /\ hstate' = hstate /\ UNCHANGED <<cold, done, i>>
      /\ pc'[h] \in {"raise", arg[h][3]} /\ (pc'[h] = "raise" => arg'[h] = arg[h])
      /\ \A g \in Harts \ {h} : pc'[g] = pc[g] /\ arg'[g] = arg[g]
      /\ arg[h][3] \in {"none", "finalize", "run"}
  BY Zenon DEF StoreNext, sbi_ipi_raw_send, GoTo, inner, hist, fw, boot, BootInv
<1>2. Alone(h)
  BY <1>1, Zenon DEF Alone, HsmInv
<1>3. CASE arg[h][3] = "finalize"
  <2>1. InLoop(h) /\ InLoop(h)'
    BY <1>1, <1>3, Zenon DEF InLoop
  <2>2. \A g \in Harts \ {h} : InLoop(g)' => InLoop(g)
    BY <1>1, Zenon DEF InLoop
  <2>3. h \in cold /\ pc[h] # "cold" /\ pc'[h] # "cold"
    BY <1>1, <1>3, <2>1, Zenon DEF HsmInv, Fresh, Pre, Early, Setup
  <2>4. SetUp /\ SetUp'
    BY <1>2, <2>3, Zenon DEF SetUp, Alone
  <2>5. \A g \in Harts : Fits(pc[g], arg[g][3], hstate[g])
    BY <2>4, Zenon DEF HsmInv
  <2>6. hstate[h] = "START_PENDING"
    BY <1>1, <1>3, <2>5, Zenon DEF Fits, Fresh, Pre, Early, Setup
  <2>7. Fits(pc'[h], arg'[h][3], hstate'[h])
    BY <1>1, <1>3, <2>6, Zenon DEF Fits
  <2>8. \A g \in Harts : Fits(pc'[g], arg'[g][3], hstate'[g])
    BY <1>1, <2>5, <2>7, Zenon
  <2>9. \A g \in Harts : pc'[g] \in Fresh \/ (g \in cold /\ (pc'[g] = "cold" \/ InLoop(g)'))
    BY <1>1, <2>1, <2>3 DEF HsmInv, InLoop
  <2> QED
    BY <1>1, <2>1, <2>2, <2>3, <2>4, <2>8, <2>9 DEF HsmInv, InLoop
<1>4. CASE arg[h][3] # "finalize"
  <2>1. pc[h] \notin Fresh /\ pc[h] # "cold" /\ ~InLoop(h)
    BY <1>1, <1>4, Zenon DEF InLoop, Fresh, Pre, Early, Setup
  <2>2. done # 0 /\ Fits(pc[h], arg[h][3], hstate[h])
    BY <2>1, AfterBoot, Zenon
  <2>3. arg[h][3] = "run" /\ hstate[h] = "STARTED"
    BY <1>1, <1>4, <2>2, Zenon DEF Fits, Fresh, Pre, Early, Setup
  <2>4. pc'[h] # "cold" /\ ~InLoop(h)' /\ Fits(pc'[h], arg'[h][3], hstate'[h])
    BY <1>1, <2>3, Zenon DEF InLoop, Fits
  <2> QED
    BY <1>2, <2>2, <2>4, OwnStep, Zenon
<1> QED
  BY <1>3, <1>4, Zenon

\* A start call finds the other hart stopped, wherever that is just then.
LEMMA StartHsm ==
  ASSUME NEW h \in Harts, NEW t \in Harts, NEW a, BootInv, HsmInv, HartStart(h, t, a)
  PROVE  HsmInv'
<1>1. /\ pc[h] = "run" /\ hstate[t] = "STOPPED" /\ UNCHANGED <<cold, done, i>>
      /\ hstate' = [hstate EXCEPT ![t] = "START_PENDING"]
      /\ pc'[h] = "store" /\ arg'[h][3] = "run"
      /\ \A g \in Harts \ {h} : pc'[g] = pc[g] /\ arg'[g] = arg[g]
  BY Zenon DEF HartStart, sbi_hsm_hart_start, GoTo, hist, fw, boot, BootInv
<1>2. done # 0 /\ SetUp /\ \A g \in Harts : Fits(pc[g], arg[g][3], hstate[g])
  BY <1>1, AfterBoot, Zenon DEF InLoop, Fresh, Pre, Early, Setup
<1>3. hstate[h] = "STARTED" /\ t # h
  BY <1>1, <1>2, Zenon DEF Fits, Fresh, Pre, Early, Setup
<1>4. /\ DOMAIN hstate' = Harts /\ hstate'[t] = "START_PENDING"
      /\ \A g \in Harts \ {t} : hstate'[g] = hstate[g]
  BY <1>1, Zenon DEF HsmInv
<1>5. pc[t] \in Fresh \cup {"unmark", "hsm_wait", "wfi_hsm"}
  BY <1>1, <1>2, Zenon DEF Fits
<1>6. Fits(pc'[t], arg'[t][3], hstate'[t])
  BY <1>1, <1>3, <1>4, <1>5, Zenon DEF Fits
<1>7. Fits(pc'[h], arg'[h][3], hstate'[h])
  BY <1>1, <1>3, <1>4, Zenon DEF Fits
<1>8. \A g \in Harts : Fits(pc'[g], arg'[g][3], hstate'[g])
  BY <1>1, <1>2, <1>4, <1>6, <1>7, Zenon
<1>9. SetUp' /\ \A g \in Harts : ~InLoop(g)'
  BY <1>1, <1>2, Zenon DEF SetUp, InLoop, HsmInv
<1> QED
  BY <1>1, <1>2, <1>4, <1>8, <1>9, Zenon DEF HsmInv

\* The wait for the boot hart
LEMMA WaitHsm ==
  ASSUME NEW h \in Harts, BootInv, HsmInv,
         \/ MarkWaiting(h) \/ wait_for_coldboot(h)
         \/ (WakeUp(h) \/ Spurious(h)) /\ pc[h] = "wfi_done"
  PROVE  HsmInv'
<1> USE DEF GoTo, inner, hist, fw, boot
<1>1. /\ Alone(h) /\ hstate' = hstate /\ arg' = arg
      /\ pc[h] \in {"warm", "wait_done", "wfi_done"}
      /\ pc'[h] \in {"wait_done", "wfi_done", "unmark"} /\ (pc'[h] = "unmark" => done # 0)
  BY DEF Alone, BootInv, HsmInv, MarkWaiting, wait_for_coldboot, WakeUp, Spurious, Awake
<1>2. CASE pc'[h] # "unmark"
  BY <1>1, <1>2, FreshStep, Zenon DEF Fresh
<1>3. CASE pc'[h] = "unmark"
  <2>1. SetUp
    BY <1>1, <1>3, Zenon DEF HsmInv
  <2>2. Fits(pc[h], arg[h][3], hstate[h])
    BY <2>1, Zenon DEF HsmInv
  <2>3. Fits(pc'[h], arg'[h][3], hstate'[h])
    BY <1>1, <1>3, <2>2, Zenon DEF Fits, Fresh, Pre, Early, Setup
  <2>4. ~InLoop(h)'
    BY <1>3, Zenon DEF InLoop
  <2> QED
    BY <1>1, <1>3, <2>3, <2>4, OwnStep, Zenon
<1> QED
  BY <1>2, <1>3, Zenon

\* A step after the boot: the compare-and-exchange of the own state succeeds.
LEMMA LaterHsm ==
  ASSUME NEW h \in Harts, BootInv, HsmInv,
         \/ wake_coldboot_harts(h) \/ UnmarkWaiting(h) \/ sbi_hsm_hart_wait(h)
         \/ (WakeUp(h) \/ Spurious(h)) /\ pc[h] # "wfi_done"
         \/ init_warm_startup(h) \/ sbi_hsm_hart_resume_start(h) \/ sbi_hsm_hart_resume_finish(h)
         \/ sbi_hsm_prepare_next_jump(h) \/ sbi_hart_switch_mode(h)
         \/ sbi_ipi_process(h) \/ sbi_ipi_exit(h) \/ sbi_hsm_exit(h) \/ Retained(h)
         \/ sbi_hsm_hart_stop(h)
         \/ \E a \in StartAddrs, l \in {"wfi_suspend", "wfi_retentive"} : sbi_hsm_hart_suspend(h, a, l)
  PROVE  HsmInv'
<1> USE DEF GoTo, inner, hist, fw, boot
<1>1. pc[h] \in {"wake", "unmark", "hsm_wait", "wfi_hsm", "wfi_suspend", "wfi_retentive", "init", "resume",
                 "resuming", "prepare", "jump", "run", "exit", "hsm_exit", "retained"}
  BY Zenon
     DEF wake_coldboot_harts, UnmarkWaiting, sbi_hsm_hart_wait, WakeUp, Spurious, Asleep,
         init_warm_startup,
         sbi_hsm_hart_resume_start, sbi_hsm_hart_resume_finish, sbi_hsm_prepare_next_jump,
         sbi_hart_switch_mode, sbi_ipi_process, sbi_ipi_exit, sbi_hsm_exit, Retained, sbi_hsm_hart_stop,
         sbi_hsm_hart_suspend
<1>2. done # 0 /\ Fits(pc[h], arg[h][3], hstate[h])
  BY <1>1, AfterBoot, Zenon DEF InLoop, Fresh, Pre, Early, Setup
<1> DEFINE Good == /\ Alone(h)
                   /\ pc'[h] \notin {"cold", "finalize", "store", "raise"}
                   /\ Fits(pc'[h], arg'[h][3], hstate'[h])
<1>3. ASSUME wake_coldboot_harts(h) \/ UnmarkWaiting(h) \/ sbi_hsm_hart_wait(h)  PROVE Good
  <2>1. /\ Alone(h) /\ arg' = arg /\ hstate' = hstate
        /\ \/ pc[h] = "wake" /\ pc'[h] = "prepare"
           \/ pc[h] = "unmark" /\ pc'[h] = IF hstate[h] = "SUSPENDED" THEN "resume" ELSE "hsm_wait"
           \/ pc[h] = "hsm_wait" /\ pc'[h] = IF hstate[h] = "START_PENDING" THEN "init" ELSE "wfi_hsm"
    BY <1>3, Zenon DEF Alone, BootInv, HsmInv, wake_coldboot_harts, UnmarkWaiting, sbi_hsm_hart_wait
  <2> QED
    BY <1>2, <2>1, Zenon DEF Fits, Fresh, Pre, Early, Setup
<1>4. ASSUME WakeUp(h) \/ Spurious(h), pc[h] # "wfi_done"  PROVE Good
  <2>1. /\ Alone(h) /\ arg' = arg /\ hstate' = hstate
        /\ \/ pc[h] = "wfi_hsm" /\ pc'[h] = "hsm_wait"
           \/ pc[h] = "wfi_suspend" /\ pc'[h] = "sbi_init"
           \/ pc[h] = "wfi_retentive" /\ pc'[h] = "retained"
    BY <1>4, Zenon DEF Alone, BootInv, HsmInv, WakeUp, Spurious, Asleep, Awake
  <2> QED
    BY <1>2, <2>1, Zenon DEF Fits, Fresh, Pre, Early, Setup
<1>5. ASSUME init_warm_startup(h) \/ sbi_hart_switch_mode(h) \/ sbi_ipi_process(h) \/ sbi_ipi_exit(h)
      PROVE  Good
  <2>1. /\ Alone(h) /\ arg' = arg /\ hstate' = hstate
        /\ \/ pc[h] = "init" /\ pc'[h] = "prepare"
           \/ pc[h] = "jump" /\ pc'[h] = "run"
           \/ pc[h] = "run" /\ pc'[h] = "run"
           \/ pc[h] = "exit" /\ pc'[h] = "hsm_exit"
    BY <1>5, Zenon DEF Alone, BootInv, HsmInv, init_warm_startup, sbi_hart_switch_mode, sbi_ipi_process,
                sbi_ipi_exit
  <2> QED
    BY <1>2, <2>1, Zenon DEF Fits, Fresh, Pre, Early, Setup
<1>6. ASSUME \/ sbi_hsm_hart_resume_start(h) \/ sbi_hsm_hart_resume_finish(h) \/ Retained(h)
             \/ sbi_hsm_prepare_next_jump(h) \/ sbi_hsm_exit(h) \/ sbi_hsm_hart_stop(h)
      PROVE  Good
  <2>1. /\ pc[h] = "prepare" => hstate[h] = "START_PENDING"
        /\ pc[h] = "hsm_exit" => hstate[h] = "STOP_PENDING"
        /\ pc[h] = "resuming" => hstate[h] = "RESUME_PENDING"
        /\ pc[h] \in {"resume", "retained"} => hstate[h] = "SUSPENDED"
    BY <1>2, Zenon DEF Fits, Fresh, Pre, Early, Setup
  <2>2. /\ Alone(h) /\ arg' = arg
        /\ \/ pc'[h] = "jump" /\ hstate'[h] = "STARTED"
           \/ pc'[h] = "sbi_init" /\ hstate'[h] = "STOPPED"
           \/ pc'[h] = "resuming" /\ hstate'[h] = "RESUME_PENDING"
           \/ pc'[h] = "run" /\ hstate'[h] = "STARTED"
           \/ pc'[h] = "exit" /\ hstate'[h] = "STOP_PENDING"
    <3> USE <2>1 DEF Alone, BootInv, HsmInv, Change
    <3>1. CASE sbi_hsm_hart_resume_start(h)
      BY <3>1, Zenon DEF sbi_hsm_hart_resume_start
    <3>2. CASE sbi_hsm_hart_resume_finish(h)
      BY <3>2, Zenon DEF sbi_hsm_hart_resume_finish
    <3>3. CASE Retained(h)
      BY <3>3, Zenon DEF Retained
    <3>4. CASE sbi_hsm_prepare_next_jump(h)
      BY <3>4, Zenon DEF sbi_hsm_prepare_next_jump
    <3>5. CASE sbi_hsm_exit(h)
      BY <3>5, Zenon DEF sbi_hsm_exit
    <3>6. CASE sbi_hsm_hart_stop(h)
      BY <3>6, Zenon DEF sbi_hsm_hart_stop
    <3> QED
      BY <1>6, <3>1, <3>2, <3>3, <3>4, <3>5, <3>6, Zenon
  <2> QED
    BY <2>2, Zenon DEF Fits, Fresh
<1>7. ASSUME \E a \in StartAddrs, l \in {"wfi_suspend", "wfi_retentive"} : sbi_hsm_hart_suspend(h, a, l)
      PROVE  Good
  <2>1. pc[h] = "run" /\ hstate[h] = "STARTED"
    <3>1. pc[h] = "run"
      BY <1>7, Zenon DEF sbi_hsm_hart_suspend
    <3> QED
      BY <1>2, <3>1, Zenon DEF Fits, Fresh, Pre, Early, Setup
  <2>2. Alone(h) /\ pc'[h] \in {"wfi_suspend", "wfi_retentive"} /\ hstate'[h] = "SUSPENDED"
    BY <1>7, <2>1, ZenonT(30) DEF Alone, BootInv, HsmInv, Change, sbi_hsm_hart_suspend
  <2> QED
    BY <2>2, Zenon DEF Fits
<1>8. Good
  BY <1>3, <1>4, <1>5, <1>6, <1>7, Zenon
<1> QED
  BY <1>2, <1>8, OwnStep, Zenon DEF InLoop

\* Every step keeps the invariant.
LEMMA HsmStep ==
  ASSUME DomainHarts, Callers \subseteq Harts, BootInv, HsmInv, [Next]_vars
  PROVE  HsmInv'
<1>1. CASE UNCHANGED vars
  BY <1>1, Zenon DEF vars, fw, boot, inner, hist, HsmInv, SetUp, InLoop
<1>2. CASE Next
  <2> PICK h \in Harts :
        \/ Proceed(h)
        \/ Spurious(h)
        \/ \E t \in Callers, a \in StartAddrs : HartStart(h, t, a)
        \/ \E a \in StartAddrs, l \in {"wfi_suspend", "wfi_retentive"} : sbi_hsm_hart_suspend(h, a, l)
        \/ sbi_hsm_hart_stop(h)
    BY <1>2, Zenon DEF Next
  <2>1. CASE \E t \in Callers, a \in StartAddrs : HartStart(h, t, a)
    BY <2>1, StartHsm, Zenon
  <2>2. CASE Proceed(h)
    BY <2>2, EarlyHsm, ColdHsm, StoreHsm, WaitHsm, LaterHsm, Zenon DEF Proceed
  <2>3. CASE Spurious(h)
    BY <2>3, WaitHsm, LaterHsm, Zenon
  <2>4. CASE \E a \in StartAddrs, l \in {"wfi_suspend", "wfi_retentive"} : sbi_hsm_hart_suspend(h, a, l)
    BY <2>4, LaterHsm, Zenon
  <2>5. CASE sbi_hsm_hart_stop(h)
    BY <2>5, LaterHsm, Zenon
  <2> QED
    BY <2>1, <2>2, <2>3, <2>4, <2>5, Zenon
<1> QED
  BY <1>1, <1>2, Zenon

\* Both invariants together
LEMMA HsmInvariant ==
  ASSUME Pace # "none", DomainHarts, Callers \subseteq Harts
  PROVE  Spec => [](BootInv /\ HsmInv)
<1>1. BootInv /\ HsmInv /\ [Next]_vars => BootInv' /\ HsmInv'
  BY BootStep, HsmStep, Zenon
<1> QED
  BY <1>1, BootInit, HsmInit, PTL DEF Spec

\* No hart hangs because its own state is not what it expects, nor the boot
\* hart because a domain's boot hart cannot be started.
THEOREM NoHartHangs ==
  ASSUME Pace # "none", DomainHarts, Callers \subseteq Harts
  PROVE  Spec => []NoHang
<1>1. BootInv /\ HsmInv => NoHang
  BY Zenon DEF NoHang, HsmInv, Fits, InLoop, Fresh, Pre, Early, Setup
<1> QED
  BY <1>1, HsmInvariant, PTL

\* Once the boot is done, the states that harts see of each other are true.
THEOREM StatesAreTrue ==
  ASSUME Pace # "none", DomainHarts, Callers \subseteq Harts
  PROVE  Spec => []StateIsTrue
<1>1. BootInv /\ HsmInv => StateIsTrue
  BY DEF StateIsTrue, HsmInv, Fits, Fresh, Pre, Early, Setup
<1> QED
  BY <1>1, HsmInvariant, PTL

-----------------------------------------------------------------------------
\* Hart 0 is in front: it prepares the memory and takes the cold boot path,
\* while the others are still in the delay loop of start.s.
FirstInv ==
  /\ lottery \in {0, 1}
  /\ relocated = 0 => lottery = 0
  /\ \A h \in Harts : pc[h] \in Setup => lottery = 0 /\ h = 0
  /\ lottery = 0 => \A h \in Harts \ {0} : pc[h] \in Early
  /\ cold \subseteq {0}

\* Hart 0 is the boot hart of a domain.
FirstHasDomain == \E d \in 1..Len(Domains) : Domains[d][1] = 0

\* A hart at label l in state s is on the way to supervisor mode, or suspended
\* until it goes there.
Awaits(l, s) ==
  \/ s \in {"START_PENDING", "RESUME_PENDING"}
  \/ l = "jump"
  \/ s = "SUSPENDED" /\ l \notin {"wfi_retentive", "retained"}

\* It is in the loop of sbi_domain_finalize, at round k, and has not come to its
\* own domain.
Unassigned(h, l, r, k) ==
  /\ l = "finalize" \/ (l \in {"store", "raise"} /\ r = "finalize")
  /\ \E d \in 1..Len(Domains) : d >= k /\ Domains[d][1] = h

\* It is in supervisor mode, or in a call that returns there.
InSupervisor(l, r) ==
  \/ l \in {"run", "wfi_retentive", "retained"}
  \/ l \in {"store", "raise"} /\ r = "run"

\* Its scratch space has the address that it was asked to enter at, or the one
\* that starts it is about to store it.
Told(h) ==
  \/ next[h] = asked[h]
  \/ \E c \in Harts : pc[c] = "store" /\ arg[c][1] = h

\* What c is about to store is what t was asked last, and t is on its way up.
Due(c, t) ==
  arg[c][2] = asked[t] /\ (hstate[t] = "START_PENDING" \/ pc[t] = "jump")

\* A start that is under way finds its hart on the way up, so that no two are;
\* and a hart on its way up finds the address that it was last asked to enter
\* at.  Both are lost for a hart that has overtaken its start.
AskedInv ==
  /\ DOMAIN next = Harts /\ DOMAIN asked = Harts /\ DOMAIN entry = Harts
  /\ \A c \in Harts : pc[c] = "store" =>
       arg[c][1] \in Harts /\ (arg[c][1] \in overtaken \/ Due(c, arg[c][1]))
  /\ SetUp => \A h \in Harts \ overtaken :
       Awaits(pc[h], hstate[h]) => Unassigned(h, pc[h], arg[h][3], i[h]) \/ Told(h)
  /\ \A h \in Harts \ overtaken : InSupervisor(pc[h], arg[h][3]) => entry[h] = asked[h]

\* After the boot, only start calls store addresses of other harts.
LEMMA StoresAreCalls ==
  ASSUME BootInv, HsmInv, done # 0
  PROVE  \A c \in Harts : pc[c] = "store" => arg[c][3] = "run"
<1>1. \A c \in Harts : ~InLoop(c) /\ Fits(pc[c], arg[c][3], hstate[c])
  BY Zenon DEF HsmInv
<1>2. \A c \in Harts : arg[c][3] \in {"none", "finalize", "run"}
  BY Zenon DEF BootInv
<1> QED
  BY <1>1, <1>2, Zenon DEF InLoop, Fits, Fresh, Pre, Early, Setup

\* Hart 0 stays in front.
LEMMA FirstStep ==
  ASSUME Pace = "first", BootInv, FirstInv, [Next]_vars
  PROVE  FirstInv'
<1>1. CASE UNCHANGED vars
  BY <1>1, Zenon DEF vars, fw, boot, inner, hist, FirstInv
<1>2. CASE Next
  <2> PICK h \in Harts :
        \/ Proceed(h)
        \/ Spurious(h)
        \/ \E t \in Callers, a \in StartAddrs : HartStart(h, t, a)
        \/ \E a \in StartAddrs, l \in {"wfi_suspend", "wfi_retentive"} : sbi_hsm_hart_suspend(h, a, l)
        \/ sbi_hsm_hart_stop(h)
    BY <1>2, Zenon DEF Next
  <2>1. CASE Later(h)
    <3>1. \A g \in Harts : pc'[g] \in Setup => pc[g] \in Setup
      BY <2>1, Zenon DEF Later, Pre
    <3>2. lottery = 0 => \A g \in Harts \ {0} : pc'[g] \in Early
      BY <2>1, Zenon DEF Later, Pre, FirstInv
    <3> QED
      BY <2>1, <3>1, <3>2, Zenon DEF Later, FirstInv
  <2>2. CASE \/ load_data(h) \/ _try_lottery(h) \/ _bss_zero(h) \/ _fdt_reloc_done(h)
             \/ _wait_for_boot_hart(h) \/ sbi_init(h)
    <3> USE DEF Early, Setup, GoTo, hist, fw, boot, BootInv, FirstInv
    <3>1. CASE load_data(h)
      BY <3>1, Zenon DEF load_data
    <3>2. CASE _try_lottery(h)
      <4>1. relocated + 1 # 0 /\ (h # 0 => lottery = 1)
        <5>1. relocated \in Nat /\ InStep(h)
          BY <3>2, Zenon DEF _try_lottery
        <5>2. h # 0 => lottery = 1
          BY <5>1, Zenon DEF InStep
        <5> HIDE DEF BootInv, FirstInv
        <5>3. relocated + 1 # 0
          BY <5>1
        <5> QED
          BY <5>2, <5>3, Zenon
      <4>2. /\ relocated' = relocated + 1 /\ UNCHANGED <<lottery, cold>>
            /\ pc'[h] = IF relocated = 0 THEN "setup" ELSE "wait_boot_hart"
            /\ \A g \in Harts \ {h} : pc'[g] = pc[g]
        BY <3>2, Zenon DEF _try_lottery
      <4>3. pc'[h] \in Setup => lottery = 0 /\ h = 0
        <5>1. pc'[h] \in Setup => relocated = 0
          BY <4>2, Zenon
        <5>2. relocated = 0 => lottery = 0
          BY Zenon
        <5>3. 0 # 1
          OBVIOUS
        <5> HIDE DEF BootInv, FirstInv, Setup
        <5> QED
          BY <4>1, <5>1, <5>2, <5>3, Zenon
      <4>4. lottery = 0 => h = 0
        <5> HIDE DEF BootInv, FirstInv
        <5> QED
          BY <4>1
      <4>5. relocated' # 0 /\ lottery' = lottery /\ cold' = cold
        <5> HIDE DEF BootInv, FirstInv
        <5> QED
          BY <4>1, <4>2, Zenon
      <4>6. \A g \in Harts : pc'[g] \in Setup => lottery = 0 /\ g = 0
        BY <4>2, <4>3, Zenon
      <4>7. lottery = 0 => \A g \in Harts \ {0} : pc'[g] \in Early
        BY <4>2, <4>4, Zenon
      <4> QED
        BY <4>5, <4>6, <4>7, Zenon
    <3>3. CASE _bss_zero(h)
      BY <3>3, Zenon DEF _bss_zero
    <3>4. CASE _fdt_reloc_done(h) \/ _wait_for_boot_hart(h)
      BY <3>4, Zenon DEF _fdt_reloc_done, _wait_for_boot_hart
    <3>5. CASE sbi_init(h)
      <4>1. lottery = 0 => h = 0
        BY <3>5, Zenon DEF sbi_init
      <4>2. relocated # 0 /\ \A g \in Harts : pc[g] \notin Setup
        BY <3>5, Zenon DEF sbi_init, Pre
      <4>3. \A g \in Harts : pc'[g] \notin Setup
        BY <3>5, <4>2, Zenon DEF sbi_init
      <4>4. lottery' = 1 /\ relocated' = relocated /\ cold' \subseteq {0}
        BY <3>5, <4>1, Zenon DEF sbi_init
      <4>5. lottery' # 0 /\ lottery' \in {0, 1} /\ relocated' # 0
        <5> HIDE DEF BootInv, FirstInv
        <5> QED
          BY <4>2, <4>4
      <4> QED
        BY <4>3, <4>4, <4>5, Zenon
    <3> QED
      BY <2>2, <3>1, <3>2, <3>3, <3>4, <3>5, Zenon
  <2> QED
    BY <2>1, <2>2, ColdSteps, WarmSteps, Zenon DEF Proceed
<1> QED
  BY <1>1, <1>2, Zenon

\* Only hart h moves, and no address is stored or asked for.
Quiet(h) ==
  /\ \A g \in Harts \ {h} : pc'[g] = pc[g] /\ hstate'[g] = hstate[g] /\ i'[g] = i[g]
  /\ UNCHANGED <<cold, arg, next, asked, entry, overtaken>>

\* Such a step keeps the invariant when h comes no nearer to supervisor mode
\* than it has a right to.
LEMMA QuietKeeps ==
  ASSUME NEW h \in Harts, HsmInv, AskedInv, Quiet(h),
         pc[h] \notin {"cold", "store"}, pc'[h] # "store",
         SetUp /\ Awaits(pc'[h], hstate'[h]) =>
           Awaits(pc[h], hstate[h]) /\ ~Unassigned(h, pc[h], arg[h][3], i[h]),
         InSupervisor(pc'[h], arg[h][3]) => InSupervisor(pc[h], arg[h][3]),
         hstate[h] = "START_PENDING" \/ pc[h] = "jump" => hstate'[h] = "START_PENDING" \/ pc'[h] = "jump"
  PROVE  AskedInv'
<1>1. SetUp' => SetUp
  BY Zenon DEF SetUp, Quiet, HsmInv
<1>2. \A c \in Harts : pc'[c] = "store" <=> pc[c] = "store"
  BY Zenon DEF Quiet
<1>3. ASSUME SetUp, NEW g \in Harts \ overtaken, Awaits(pc'[g], hstate'[g])
      PROVE  Unassigned(g, pc'[g], arg'[g][3], i'[g]) \/ Told(g)'
  <2>1. Unassigned(g, pc'[g], arg'[g][3], i'[g]) \/ Told(g)
    BY <1>3, Zenon DEF AskedInv, Quiet
  <2>2. Told(g) => Told(g)'
    BY <1>2, Zenon DEF Told, Quiet
  <2> QED
    BY <2>1, <2>2, Zenon
<1>4. \A g \in Harts \ overtaken : InSupervisor(pc'[g], arg'[g][3]) => entry'[g] = asked'[g]
  BY Zenon DEF AskedInv, Quiet
<1>5. ASSUME NEW c \in Harts, pc'[c] = "store"
      PROVE  arg'[c][1] \in Harts /\ (arg'[c][1] \in overtaken' \/ Due(c, arg[c][1])')
  <2>1. /\ arg' = arg /\ overtaken' = overtaken /\ asked' = asked
        /\ \A g \in Harts \ {h} : pc'[g] = pc[g] /\ hstate'[g] = hstate[g]
    BY Zenon DEF Quiet
  <2>2. arg[c][1] \in Harts /\ (arg[c][1] \in overtaken \/ Due(c, arg[c][1]))
    BY <1>2, <1>5, Zenon DEF AskedInv
  <2>3. \A t \in Harts : Due(c, t) => Due(c, t)'
    BY <2>1, Zenon DEF Due
  <2> QED
    BY <2>1, <2>2, <2>3, Zenon
<1>6. overtaken' = overtaken
  BY Zenon DEF Quiet
<1>7. DOMAIN next' = Harts /\ DOMAIN asked' = Harts /\ DOMAIN entry' = Harts
  BY Zenon DEF AskedInv, Quiet
<1> QED
  BY <1>1, <1>3, <1>4, <1>5, <1>6, <1>7, Zenon DEF AskedInv

\* The steps up to the second lottery
LEMMA EarlyAsked ==
  ASSUME NEW h \in Harts, BootInv, HsmInv, AskedInv,
         \/ load_data(h) \/ _try_lottery(h) \/ _bss_zero(h) \/ _fdt_reloc_done(h)
         \/ _wait_for_boot_hart(h) \/ sbi_init(h)
  PROVE  AskedInv'
<1> USE DEF GoTo, inner, hist, fw, boot
<1>1. CASE load_data(h) \/ _bss_zero(h)
  <2>1. cold' = {} /\ UNCHANGED <<asked, entry>> /\ DOMAIN next' = Harts
    BY <1>1, Zenon DEF BootInv, load_data, _bss_zero, Early, Setup
  <2>2. \A g \in Harts : pc'[g] \in Pre
    BY <1>1, Zenon DEF BootInv, load_data, _bss_zero, Pre, Early, Setup
  <2>3. ~SetUp' /\ \A g \in Harts : pc'[g] # "store" /\ ~InSupervisor(pc'[g], arg'[g][3])
    BY <2>1, <2>2, Zenon DEF SetUp, InSupervisor, Pre, Early, Setup
  <2> QED
    BY <2>1, <2>3, Zenon DEF AskedInv
<1>2. CASE _try_lottery(h) \/ _fdt_reloc_done(h) \/ _wait_for_boot_hart(h) \/ (sbi_init(h) /\ lottery # 0)
  <2>1. /\ Quiet(h) /\ hstate' = hstate
        /\ pc[h] \in Fresh /\ pc'[h] \in Fresh
    BY <1>2, Zenon DEF BootInv, Quiet, _try_lottery, _fdt_reloc_done, _wait_for_boot_hart, sbi_init,
                Fresh, Pre, Early, Setup
  <2> QED
    BY <2>1, QuietKeeps, Zenon DEF Awaits, Unassigned, InSupervisor, Fresh, Pre, Early, Setup
<1>3. CASE sbi_init(h) /\ lottery = 0
  <2>1. cold = {} /\ cold' = {h} /\ UNCHANGED <<asked, entry, next, arg>>
    BY <1>3, Zenon DEF BootInv, sbi_init
  <2>2. \A g \in Harts : pc[g] \in Fresh
    BY <2>1, Zenon DEF HsmInv, SetUp
  <2>3. pc'[h] = "cold" /\ \A g \in Harts \ {h} : pc'[g] = pc[g]
    BY <1>3, Zenon DEF BootInv, sbi_init
  <2>4. ~SetUp'
    BY <2>1, <2>3, Zenon DEF SetUp
  <2>5. \A g \in Harts : pc'[g] # "store" /\ ~InSupervisor(pc'[g], arg'[g][3])
    BY <2>2, <2>3, Zenon DEF InSupervisor, Fresh, Pre, Early, Setup
  <2> QED
    BY <2>1, <2>4, <2>5, Zenon DEF AskedInv
<1> QED
  BY <1>1, <1>2, <1>3, Zenon

\* init_coldboot: the boot hart's own address comes with its domain.
LEMMA ColdAsked ==
  ASSUME NEW h \in Harts, BootInv, HsmInv, FirstInv, AskedInv, DomainHarts, FirstHasDomain,
         sbi_hsm_init(h) \/ sbi_domain_finalize(h) \/ MarkDone(h)
  PROVE  AskedInv'
<1> USE DEF GoTo, inner, hist, fw, boot
<1>0. pc[h] \in {"cold", "finalize"}
  BY Zenon DEF sbi_hsm_init, sbi_domain_finalize, MarkDone
<1>1. h \in cold /\ \A g \in cold : g = h
  BY <1>0, ColdAlone, Zenon
<1>2. done = 0 /\ \A g \in Harts \ {h} : pc[g] \in Fresh
  BY <1>0, ColdAlone, Zenon
<1>3. /\ UNCHANGED <<cold, entry>>
      /\ \A g \in Harts \ {h} : pc'[g] = pc[g] /\ i'[g] = i[g] /\ arg'[g] = arg[g]
      /\ pc'[h] \in {"finalize", "store", "wake", "hang"}
  <2> USE DEF BootInv, HsmInv
  <2>1. CASE sbi_hsm_init(h)
    BY <2>1, Zenon DEF sbi_hsm_init
  <2>2. CASE sbi_domain_finalize(h)
    BY <2>2, ZenonT(30) DEF sbi_domain_finalize, sbi_hsm_hart_start
  <2>3. CASE MarkDone(h)
    BY <2>3, Zenon DEF MarkDone
  <2> QED
    BY <2>1, <2>2, <2>3, Zenon
<1>4. \A g \in Harts : /\ pc[g] # "store"
                       /\ g # h => pc'[g] # "store" /\ ~InSupervisor(pc'[g], arg'[g][3])
  <2>1. \A x \in Fresh : x # "store" /\ ~\E r : InSupervisor(x, r)
    BY Zenon DEF InSupervisor, Fresh, Pre, Early, Setup
  <2>2. pc[h] # "store"
    BY <1>0, Zenon
  <2> QED
    BY <1>2, <1>3, <2>1, <2>2, Zenon
<1>5. CASE sbi_hsm_init(h)
  <2>1. /\ pc'[h] = "finalize" /\ i'[h] = 1 /\ UNCHANGED <<next, asked, overtaken, arg>>
        /\ hstate' = [g \in Harts |-> IF g = h THEN "START_PENDING" ELSE "STOPPED"]
    BY <1>5, Zenon DEF BootInv, HsmInv, sbi_hsm_init
  <2>2. Unassigned(h, pc'[h], arg'[h][3], i'[h])
    <3>1. h = 0
      BY <1>1, Zenon DEF FirstInv
    <3>2. \E d \in 1..Len(Domains) : d >= 1 /\ Domains[d][1] = h
      BY <3>1 DEF FirstHasDomain
    <3> QED
      BY <2>1, <3>2, Zenon DEF Unassigned
  <2>3. \A g \in Harts \ {h} : ~Awaits(pc'[g], hstate'[g])
    BY <1>2, <1>3, <2>1, Zenon DEF Awaits, Fresh, Pre, Early, Setup
  <2>4. ~InSupervisor(pc'[h], arg'[h][3])
    BY <2>1, Zenon DEF InSupervisor
  <2> QED
    BY <1>3, <1>4, <2>1, <2>2, <2>3, <2>4, Zenon DEF AskedInv
<1>6. CASE sbi_domain_finalize(h)
  <2>1. InLoop(h) /\ pc[h] = "finalize" /\ i[h] <= Len(Domains) /\ i' = [i EXCEPT ![h] = @ + 1]
    BY <1>6, Zenon DEF InLoop, sbi_domain_finalize
  <2>2. /\ i[h] \in Nat \ {0} /\ DOMAIN i = Harts
        /\ \A d \in 1..Len(Domains) :
             d >= i[h] => Domains[d][1] = h \/ hstate[Domains[d][1]] = "STOPPED"
    BY <2>1, Zenon DEF HsmInv
  <2>3. i[h] \in 1..Len(Domains) /\ Domains[i[h]][1] \in Harts
    <3>1. Len(Domains) \in Nat
      BY Zenon DEF DomainHarts
    <3>2. i[h] \in 1..Len(Domains)
      BY <2>1, <2>2, <3>1
    <3> QED
      BY <3>2, Zenon DEF DomainHarts
  <2> PICK b \in Harts, a \in {Domains[i[h]][2]} : b = Domains[i[h]][1]
    BY <2>3, Zenon
  <2>4. SetUp
    BY <1>1, <2>1, Zenon DEF SetUp
  <2>5. /\ \A g \in Harts : Told(g) => next[g] = asked[g]
        /\ \A g \in Harts : ~StoreDue(g)
    BY <1>4, Zenon DEF Told, StoreDue
  <2>6. CASE b = h
    <3>1. /\ UNCHANGED <<pc, hstate, arg>> /\ overtaken' = overtaken \ {h}
          /\ next' = [next EXCEPT ![h] = a] /\ asked' = [asked EXCEPT ![h] = a]
      BY <1>6, <2>5, <2>6, Zenon DEF sbi_domain_finalize, Ask
    <3>2. next'[h] = asked'[h] /\ \A g \in Harts \ {h} : next'[g] = next[g] /\ asked'[g] = asked[g]
      BY <3>1, Zenon DEF AskedInv
    <3>3. \A g \in Harts \ overtaken' :
            Awaits(pc'[g], hstate'[g]) => Unassigned(g, pc'[g], arg'[g][3], i'[g]) \/ Told(g)'
      BY <1>3, <2>4, <2>5, <3>1, <3>2, Zenon DEF AskedInv, Told
    <3>4. \A g \in Harts : pc'[g] # "store" /\ ~InSupervisor(pc'[g], arg'[g][3])
      BY <1>4, <2>1, <3>1, Zenon DEF InSupervisor
    <3> QED
      BY <3>1, <3>3, <3>4, <1>3, Zenon DEF AskedInv
  <2>7. CASE b # h
    <3>1. hstate[b] = "STOPPED"
      BY <2>2, <2>3, <2>7
    <3>2. /\ pc'[h] = "store" /\ arg' = [arg EXCEPT ![h] = <<b, a, "finalize">>]
          /\ hstate' = [hstate EXCEPT ![b] = "START_PENDING"]
          /\ asked' = [asked EXCEPT ![b] = a] /\ next' = next /\ overtaken' = overtaken \ {b}
      BY <1>6, <2>5, <2>7, <3>1, Zenon DEF sbi_domain_finalize, sbi_hsm_hart_start, Ask, BootInv
    <3>3. arg'[h][1] = b /\ arg'[h][2] = a /\ arg'[h][3] = "finalize"
      BY <3>2, Zenon DEF BootInv
    <3>4. /\ hstate'[b] = "START_PENDING" /\ asked'[b] = a /\ DOMAIN asked' = Harts
          /\ \A g \in Harts \ {b} : hstate'[g] = hstate[g] /\ asked'[g] = asked[g]
      BY <2>3, <3>2, Zenon DEF HsmInv, AskedInv
    <3>5. Told(b)'
      BY <3>2, <3>3, Zenon DEF Told
    <3>6. Unassigned(h, pc[h], arg[h][3], i[h]) => Unassigned(h, pc'[h], arg'[h][3], i'[h])
      BY <2>2, <2>3, <2>1, <2>7, <3>2, <3>3 DEF Unassigned, DomainHarts
    <3>7. ASSUME NEW g \in Harts \ overtaken, g # b, Awaits(pc'[g], hstate'[g])
          PROVE  Unassigned(g, pc'[g], arg'[g][3], i'[g]) \/ Told(g)'
      <4>1. Awaits(pc[g], hstate[g])
        <5>1. CASE g = h
          BY <2>1, <3>2, <3>4, <3>7, <5>1 DEF Awaits
        <5>2. CASE g # h
          BY <1>3, <3>4, <3>7, <5>2, Zenon
        <5> QED
          BY <5>1, <5>2, Zenon
      <4>2. Unassigned(g, pc[g], arg[g][3], i[g]) \/ next[g] = asked[g]
        BY <2>4, <2>5, <4>1, Zenon DEF AskedInv
      <4>3. next[g] = asked[g] => Told(g)'
        BY <3>2, <3>4, <3>7, Zenon DEF Told
      <4> QED
        BY <1>3, <3>6, <4>2, <4>3, Zenon
    <3>8. \A g \in Harts : ~InSupervisor(pc'[g], arg'[g][3])
      BY <1>4, <3>2, <3>3, Zenon DEF InSupervisor
    <3>9. \A c \in Harts : pc'[c] = "store" => arg'[c][1] \in Harts /\ Due(c, arg[c][1])'
      BY <1>4, <2>3, <3>3, <3>4, Zenon DEF Due
    <3> QED
      BY <1>3, <3>2, <3>4, <3>5, <3>7, <3>8, <3>9, Zenon DEF AskedInv
  <2> QED
    BY <2>6, <2>7, Zenon
<1>7. CASE MarkDone(h)
  <2>1. Quiet(h) /\ hstate' = hstate /\ pc[h] = "finalize" /\ pc'[h] = "wake" /\ i[h] > Len(Domains)
    BY <1>7, Zenon DEF MarkDone, Quiet, BootInv
  <2>2. i[h] \in Nat
    BY <2>1, Zenon DEF HsmInv, InLoop
  <2>3. ~Unassigned(h, pc[h], arg[h][3], i[h])
    BY <2>1, <2>2 DEF Unassigned, DomainHarts
  <2> QED
    BY <2>1, <2>3, QuietKeeps, Zenon DEF Awaits, InSupervisor
<1> QED
  BY <1>5, <1>6, <1>7, Zenon

\* The two stores of a start call
LEMMA StoreAsked ==
  ASSUME NEW h \in Harts, BootInv, HsmInv, AskedInv, StoreNext(h) \/ sbi_ipi_raw_send(h)
  PROVE  AskedInv'
<1> USE DEF GoTo, inner, hist, fw, boot
<1>1. /\ UNCHANGED <<cold, asked, entry, overtaken, hstate, i>>
      /\ pc[h] \in {"store", "raise"} /\ pc'[h] # "store"
      /\ \A g \in Harts \ {h} : pc'[g] = pc[g] /\ arg'[g] = arg[g]
      /\ \/ pc'[h] = "raise" /\ arg'[h] = arg[h]
         \/ pc'[h] = arg[h][3] /\ arg[h][3] \in {"none", "finalize", "run"}
  BY Zenon DEF StoreNext, sbi_ipi_raw_send, BootInv
<1>2. SetUp' => SetUp
  <2>1. pc[h] # "cold" /\ \A g \in cold : g \in Harts
    BY <1>1, Zenon DEF HsmInv
  <2> QED
    BY <1>1, <2>1, Zenon DEF SetUp
<1>3. DOMAIN next' = Harts /\ \A g \in Harts \ overtaken : Told(g) => Told(g)'
  <2>1. CASE StoreNext(h)
    <3>1. PICK t \in Harts : t = arg[h][1] /\ (t \in overtaken \/ arg[h][2] = asked[t])
      BY <2>1, Zenon DEF StoreNext, AskedInv, Due
    <3>2. next' = [next EXCEPT ![t] = arg[h][2]]
      BY <2>1, <3>1, Zenon DEF StoreNext
    <3>3. next'[t] = arg[h][2] /\ \A g \in Harts \ {t} : next'[g] = next[g]
      BY <3>2, Zenon DEF AskedInv
    <3>4. \A g \in Harts \ {t}, c \in Harts :
            pc[c] = "store" /\ arg[c][1] = g => pc'[c] = "store" /\ arg'[c][1] = g
      BY <1>1, <3>1, Zenon
    <3>5. DOMAIN next' = Harts
      BY <3>2, Zenon DEF AskedInv
    <3>6. t \in overtaken \/ Told(t)'
      BY <1>1, <3>1, <3>3, Zenon DEF Told
    <3>7. \A g \in Harts \ {t} : Told(g) => Told(g)'
      BY <1>1, <3>3, <3>4, Zenon DEF Told
    <3> QED
      BY <3>5, <3>6, <3>7, Zenon
  <2>2. CASE sbi_ipi_raw_send(h)
    <3>1. next' = next /\ pc[h] = "raise"
      BY <2>2, Zenon DEF sbi_ipi_raw_send
    <3>2. \A g, c \in Harts : pc[c] = "store" /\ arg[c][1] = g => pc'[c] = "store" /\ arg'[c][1] = g
      BY <1>1, <3>1, Zenon
    <3>3. \A g \in Harts : Told(g) => Told(g)'
      BY <1>1, <3>1, <3>2, Zenon DEF Told
    <3> QED
      BY <3>1, <3>3, Zenon DEF AskedInv
  <2> QED
    BY <2>1, <2>2, Zenon
<1>4. ASSUME SetUp, NEW g \in Harts \ overtaken, Awaits(pc'[g], hstate'[g])
      PROVE  Unassigned(g, pc'[g], arg'[g][3], i'[g]) \/ Told(g)'
  <2>1. Awaits(pc[g], hstate[g])
    BY <1>1, <1>4, Zenon DEF Awaits
  <2>2. Unassigned(g, pc[g], arg[g][3], i[g]) => Unassigned(g, pc'[g], arg'[g][3], i'[g])
    BY <1>1, Zenon DEF Unassigned
  <2> QED
    BY <1>3, <1>4, <2>1, <2>2, Zenon DEF AskedInv
<1>5. \A g \in Harts : InSupervisor(pc'[g], arg'[g][3]) => InSupervisor(pc[g], arg[g][3])
  BY <1>1, Zenon DEF InSupervisor
<1>6. ASSUME NEW c \in Harts, pc'[c] = "store"
      PROVE  arg'[c][1] \in Harts /\ (arg'[c][1] \in overtaken \/ Due(c, arg[c][1])')
  <2>1. c # h /\ pc[c] = "store" /\ arg'[c] = arg[c] /\ asked' = asked /\ hstate' = hstate
    BY <1>1, <1>6, Zenon
  <2>2. arg[c][1] \in Harts /\ (arg[c][1] \in overtaken \/ Due(c, arg[c][1]))
    BY <2>1, Zenon DEF AskedInv
  <2>3. pc[h] # "jump"
    BY <1>1, Zenon
  <2>4. \A t \in Harts : pc[t] = "jump" => pc'[t] = "jump"
    BY <1>1, <2>3, Zenon
  <2> QED
    BY <2>1, <2>2, <2>4, Zenon DEF Due
<1> QED
  BY <1>1, <1>2, <1>3, <1>4, <1>5, <1>6, Zenon DEF AskedInv

\* A start call: its hart is stopped, so that no other start of it is under way,
\* unless the hart has overtaken one.
LEMMA StartAsked ==
  ASSUME NEW h \in Harts, NEW t \in Harts, NEW a, BootInv, HsmInv, AskedInv, HartStart(h, t, a)
  PROVE  AskedInv'
<1>1. /\ pc[h] = "run" /\ hstate[t] = "STOPPED" /\ UNCHANGED <<cold, i, next, entry>>
      /\ hstate' = [hstate EXCEPT ![t] = "START_PENDING"] /\ asked' = [asked EXCEPT ![t] = a]
      /\ pc'[h] = "store" /\ arg'[h] = <<t, a, "run">>
      /\ \A g \in Harts \ {h} : pc'[g] = pc[g] /\ arg'[g] = arg[g]
  BY Zenon DEF HartStart, sbi_hsm_hart_start, Ask, GoTo, hist, fw, boot, BootInv
<1>2. done # 0 /\ SetUp /\ \A g \in Harts : Fits(pc[g], arg[g][3], hstate[g])
  BY <1>1, AfterBoot, Zenon DEF InLoop, Fresh, Pre, Early, Setup
<1>3. hstate[h] = "STARTED" /\ t # h
  BY <1>1, <1>2, Zenon DEF Fits, Fresh, Pre, Early, Setup
<1>4. pc[t] \in Fresh \cup {"unmark", "hsm_wait", "wfi_hsm"}
  BY <1>1, <1>2, Zenon DEF Fits
<1>5. pc[t] # "jump" /\ ~InSupervisor(pc[t], arg[t][3])
  BY <1>4, Zenon DEF InSupervisor, Fresh, Pre, Early, Setup
<1>6. /\ hstate'[t] = "START_PENDING" /\ asked'[t] = a /\ DOMAIN asked' = Harts
      /\ \A g \in Harts \ {t} : hstate'[g] = hstate[g] /\ asked'[g] = asked[g]
  BY <1>1, Zenon DEF HsmInv, AskedInv
<1>7. /\ overtaken' \subseteq overtaken /\ \A g \in Harts \ {t} : g \in overtaken' <=> g \in overtaken
      /\ \A c \in Harts : pc[c] = "store" /\ arg[c][1] = t => t \in overtaken'
  <2>1. overtaken' = IF StoreDue(t) THEN overtaken ELSE overtaken \ {t}
    BY Zenon DEF HartStart, sbi_hsm_hart_start, Ask
  <2>2. \A c \in Harts : pc[c] = "store" /\ arg[c][1] = t => t \in overtaken
    BY <1>1, <1>5, Zenon DEF AskedInv, Due
  <2>3. \A c \in Harts : pc[c] = "store" /\ arg[c][1] = t => StoreDue(t)
    BY <1>2, StoresAreCalls, Zenon DEF StoreDue
  <2> QED
    BY <2>1, <2>2, <2>3, Zenon
<1>8. Told(t)'
  BY <1>1 DEF Told
<1>9. ASSUME NEW g \in Harts \ overtaken', g # t, Awaits(pc'[g], hstate'[g])
      PROVE  Unassigned(g, pc'[g], arg'[g][3], i'[g]) \/ Told(g)'
  <2>1. g # h
    BY <1>1, <1>3, <1>6, <1>9, Zenon DEF Awaits
  <2>2. Unassigned(g, pc[g], arg[g][3], i[g]) \/ Told(g)
    BY <1>1, <1>2, <1>6, <1>7, <1>9, <2>1, Zenon DEF AskedInv
  <2>3. \A c \in Harts : pc[c] = "store" => pc'[c] = "store" /\ arg'[c] = arg[c]
    BY <1>1, Zenon
  <2>4. Told(g) => Told(g)'
    BY <1>1, <1>6, <1>9, <2>3 DEF Told
  <2> QED
    BY <1>1, <2>1, <2>2, <2>4, Zenon
<1>10. \A g \in Harts : InSupervisor(pc'[g], arg'[g][3]) => g # t /\ InSupervisor(pc[g], arg[g][3])
  BY <1>1, <1>3, <1>5, Zenon DEF InSupervisor
<1>11. ASSUME NEW c \in Harts, pc'[c] = "store"
       PROVE  arg'[c][1] \in Harts /\ (arg'[c][1] \in overtaken' \/ Due(c, arg[c][1])')
  <2>1. CASE c = h
    <3>1. arg'[c][1] = t /\ arg'[c][2] = a
      BY <1>1, <2>1
    <3> QED
      BY <1>6, <3>1, Zenon DEF Due
  <2>2. CASE c # h
    <3>1. pc[c] = "store" /\ arg'[c] = arg[c]
      BY <1>1, <1>11, <2>2, Zenon
    <3>2. arg[c][1] \in Harts /\ (arg[c][1] \in overtaken \/ Due(c, arg[c][1]))
      BY <3>1, Zenon DEF AskedInv
    <3>3. CASE arg[c][1] = t
      BY <1>7, <3>1, <3>2, <3>3, Zenon
    <3>4. CASE arg[c][1] # t
      <4>1. \A g \in Harts \ {t} : Due(c, g) => Due(c, g)'
        BY <1>1, <1>3, <1>6, <3>1, Zenon DEF Due
      <4> QED
        BY <1>7, <3>1, <3>2, <3>4, <4>1, Zenon
    <3> QED
      BY <3>3, <3>4, Zenon
  <2> QED
    BY <2>1, <2>2, Zenon
<1>12. \A g \in Harts \ overtaken' : InSupervisor(pc'[g], arg'[g][3]) => entry'[g] = asked'[g]
  BY <1>1, <1>6, <1>7, <1>10, Zenon DEF AskedInv
<1>13. \A g \in Harts \ overtaken' :
         Awaits(pc'[g], hstate'[g]) => Unassigned(g, pc'[g], arg'[g][3], i'[g]) \/ Told(g)'
  BY <1>8, <1>9, Zenon
<1> QED
  BY <1>1, <1>6, <1>11, <1>12, <1>13, Zenon DEF AskedInv

\* The waits, the warm boot and the way down
LEMMA LaterAsked ==
  ASSUME NEW h \in Harts, BootInv, HsmInv, AskedInv,
         \/ MarkWaiting(h) \/ wait_for_coldboot(h) \/ UnmarkWaiting(h) \/ sbi_hsm_hart_wait(h)
         \/ WakeUp(h) \/ Spurious(h) \/ wake_coldboot_harts(h)
         \/ init_warm_startup(h) \/ sbi_hsm_hart_resume_start(h) \/ sbi_hsm_hart_resume_finish(h)
         \/ sbi_hsm_prepare_next_jump(h)
         \/ sbi_ipi_process(h) \/ sbi_ipi_exit(h) \/ sbi_hsm_exit(h) \/ Retained(h)
         \/ sbi_hsm_hart_stop(h)
  PROVE  AskedInv'
<1> USE DEF GoTo, inner, hist, fw, boot
<1> DEFINE States == {"warm", "wait_done", "wfi_done", "unmark", "wake", "hsm_wait", "wfi_hsm", "wfi_suspend",
                      "sbi_init", "init", "prepare", "resume"}
<1>1. ASSUME \/ MarkWaiting(h) \/ wait_for_coldboot(h) \/ UnmarkWaiting(h) \/ sbi_hsm_hart_wait(h)
             \/ (WakeUp(h) \/ Spurious(h)) /\ pc[h] # "wfi_retentive"
             \/ wake_coldboot_harts(h) \/ init_warm_startup(h)
      PROVE  AskedInv'
  <2>1. Quiet(h) /\ hstate' = hstate /\ pc[h] \in States /\ pc'[h] \in States
    BY <1>1, Zenon
       DEF Quiet, BootInv, HsmInv, MarkWaiting, wait_for_coldboot, UnmarkWaiting, sbi_hsm_hart_wait,
                WakeUp, Spurious, Asleep, Awake, wake_coldboot_harts, init_warm_startup
  <2> QED
    BY <2>1, QuietKeeps, Zenon DEF Awaits, Unassigned, InSupervisor
<1>2. ASSUME \/ (WakeUp(h) \/ Spurious(h)) /\ pc[h] = "wfi_retentive"
             \/ sbi_ipi_process(h) \/ sbi_ipi_exit(h)
      PROVE  AskedInv'
  <2>1. /\ Quiet(h) /\ hstate' = hstate
        /\ \/ pc[h] = "wfi_retentive" /\ pc'[h] = "retained"
           \/ pc[h] = "run" /\ pc'[h] = "run"
           \/ pc[h] = "exit" /\ pc'[h] = "hsm_exit"
    BY <1>2, Zenon DEF Quiet, BootInv, WakeUp, Spurious, Awake, sbi_ipi_process, sbi_ipi_exit
  <2> QED
    BY <2>1, QuietKeeps, Zenon DEF Awaits, Unassigned, InSupervisor
<1>3. ASSUME \/ sbi_hsm_hart_resume_start(h) \/ sbi_hsm_hart_resume_finish(h) \/ Retained(h)
             \/ sbi_hsm_prepare_next_jump(h) \/ sbi_hsm_exit(h) \/ sbi_hsm_hart_stop(h)
      PROVE  AskedInv'
  <2>1. pc[h] \in {"resume", "resuming", "retained", "prepare", "hsm_exit", "run"}
    BY <1>3, Zenon DEF sbi_hsm_hart_resume_start, sbi_hsm_hart_resume_finish, Retained,
                sbi_hsm_prepare_next_jump, sbi_hsm_exit, sbi_hsm_hart_stop
  <2>2. Fits(pc[h], arg[h][3], hstate[h])
    BY <2>1, AfterBoot, Zenon DEF InLoop, Fresh, Pre, Early, Setup
  <2>3. /\ pc[h] = "prepare" => hstate[h] = "START_PENDING"
        /\ pc[h] = "hsm_exit" => hstate[h] = "STOP_PENDING"
        /\ pc[h] = "resuming" => hstate[h] = "RESUME_PENDING"
        /\ pc[h] \in {"resume", "retained"} => hstate[h] = "SUSPENDED"
        /\ pc[h] = "run" => hstate[h] = "STARTED"
    BY <2>2, Zenon DEF Fits, Fresh, Pre, Early, Setup
  <2>4. /\ Quiet(h)
        /\ \/ pc[h] = "prepare" /\ pc'[h] = "jump" /\ hstate'[h] = "STARTED"
           \/ pc[h] = "resuming" /\ pc'[h] = "jump" /\ hstate'[h] = "STARTED"
           \/ pc[h] = "hsm_exit" /\ pc'[h] = "sbi_init" /\ hstate'[h] = "STOPPED"
           \/ pc[h] = "resume" /\ pc'[h] = "resuming" /\ hstate'[h] = "RESUME_PENDING"
           \/ pc[h] = "retained" /\ pc'[h] = "run" /\ hstate'[h] = "STARTED"
           \/ pc[h] = "run" /\ pc'[h] = "exit" /\ hstate'[h] = "STOP_PENDING"
    <3> USE <2>3 DEF Quiet, BootInv, HsmInv, Change
    <3>1. CASE sbi_hsm_hart_resume_start(h)
      BY <3>1, Zenon DEF sbi_hsm_hart_resume_start
    <3>2. CASE sbi_hsm_hart_resume_finish(h)
      BY <3>2, Zenon DEF sbi_hsm_hart_resume_finish
    <3>3. CASE Retained(h)
      BY <3>3, Zenon DEF Retained
    <3>4. CASE sbi_hsm_prepare_next_jump(h)
      BY <3>4, Zenon DEF sbi_hsm_prepare_next_jump
    <3>5. CASE sbi_hsm_exit(h)
      BY <3>5, Zenon DEF sbi_hsm_exit
    <3>6. CASE sbi_hsm_hart_stop(h)
      BY <3>6, Zenon DEF sbi_hsm_hart_stop
    <3> QED
      BY <1>3, <3>1, <3>2, <3>3, <3>4, <3>5, <3>6, Zenon
  <2> QED
    BY <2>3, <2>4, QuietKeeps, Zenon DEF Awaits, Unassigned, InSupervisor
<1> QED
  BY <1>1, <1>2, <1>3, Zenon

\* The jump: the address has been stored, or the hart overtakes its start.
LEMMA SwitchAsked ==
  ASSUME NEW h \in Harts, BootInv, HsmInv, AskedInv, sbi_hart_switch_mode(h)
  PROVE  AskedInv'
<1>1. /\ pc[h] = "jump" /\ UNCHANGED <<cold, asked, next, hstate, i, arg>>
      /\ entry' = [entry EXCEPT ![h] = next[h]] /\ pc' = [pc EXCEPT ![h] = "run"]
      /\ overtaken' = IF StoreDue(h) THEN overtaken \cup {h} ELSE overtaken
  BY Zenon DEF sbi_hart_switch_mode, GoTo, inner, hist, fw, boot
<1>2. done # 0 /\ SetUp /\ Fits(pc[h], arg[h][3], hstate[h])
  BY <1>1, AfterBoot, Zenon DEF InLoop, Fresh, Pre, Early, Setup
<1>3. hstate[h] = "STARTED"
  BY <1>1, <1>2, Zenon DEF Fits, Fresh, Pre, Early, Setup
<1>4. /\ overtaken \subseteq overtaken'
      /\ \A c \in Harts : pc[c] = "store" /\ arg[c][1] = h => h \in overtaken'
  <2>1. \A c \in Harts : pc[c] = "store" /\ arg[c][1] = h => StoreDue(h)
    BY <1>2, StoresAreCalls, Zenon DEF StoreDue
  <2> QED
    BY <1>1, <2>1, Zenon
<1>5. h \notin overtaken' => next[h] = asked[h]
  BY <1>1, <1>2, <1>4, Zenon DEF AskedInv, Awaits, Unassigned, Told
<1>6. pc'[h] = "run" /\ \A g \in Harts \ {h} : pc'[g] = pc[g]
  BY <1>1, Zenon DEF BootInv
<1>7. /\ entry'[h] = next[h] /\ DOMAIN entry' = Harts
      /\ \A g \in Harts \ {h} : entry'[g] = entry[g]
  BY <1>1, Zenon DEF AskedInv
<1>8. \A c \in Harts : pc'[c] = "store" <=> pc[c] = "store"
  BY <1>1, <1>6, Zenon
<1>9. \A g \in Harts : Told(g) => Told(g)'
  BY <1>1, <1>8, Zenon DEF Told
<1>10. \A g \in Harts : Awaits(pc'[g], hstate'[g]) => g # h
  BY <1>1, <1>3, <1>6, Zenon DEF Awaits
<1>11. \A g \in Harts \ overtaken' :
         Awaits(pc'[g], hstate'[g]) => Unassigned(g, pc'[g], arg'[g][3], i'[g]) \/ Told(g)'
  BY <1>1, <1>2, <1>4, <1>6, <1>9, <1>10, Zenon DEF AskedInv
<1>12. \A g \in Harts \ overtaken' : InSupervisor(pc'[g], arg'[g][3]) => entry'[g] = asked'[g]
  BY <1>1, <1>4, <1>5, <1>6, <1>7, Zenon DEF AskedInv
<1>13. ASSUME NEW c \in Harts, pc'[c] = "store"
       PROVE  arg'[c][1] \in Harts /\ (arg'[c][1] \in overtaken' \/ Due(c, arg[c][1])')
  <2>1. arg[c][1] \in Harts /\ (arg[c][1] \in overtaken \/ Due(c, arg[c][1]))
    BY <1>8, <1>13, Zenon DEF AskedInv
  <2>2. \A g \in Harts \ {h} : Due(c, g) => Due(c, g)'
    BY <1>1, <1>6, Zenon DEF Due
  <2>3. arg[c][1] = h => h \in overtaken'
    BY <1>4, <1>8, <1>13, Zenon
  <2> QED
    BY <1>1, <1>4, <2>1, <2>2, <2>3, Zenon
<1> QED
  BY <1>1, <1>7, <1>11, <1>12, <1>13, Zenon DEF AskedInv

\* A suspend leaves the address where the hart finds it, unless it comes back by
\* itself.
LEMMA SuspendAsked ==
  ASSUME NEW h \in Harts, NEW a, NEW l \in {"wfi_suspend", "wfi_retentive"},
         BootInv, HsmInv, AskedInv, sbi_hsm_hart_suspend(h, a, l)
  PROVE  AskedInv'
<1>1. pc[h] = "run" /\ Fits(pc[h], arg[h][3], hstate[h]) /\ SetUp /\ done # 0
  BY AfterBoot, Zenon DEF InLoop, Fresh, Pre, Early, Setup, sbi_hsm_hart_suspend
<1>2. hstate[h] = "STARTED"
  BY <1>1, Zenon DEF Fits, Fresh, Pre, Early, Setup
<1>3. /\ UNCHANGED <<cold, arg, i, entry>>
      /\ next' = [next EXCEPT ![h] = a]
      /\ asked' = IF l = "wfi_suspend" THEN [asked EXCEPT ![h] = a] ELSE asked
      /\ overtaken' = IF l # "wfi_suspend" \/ StoreDue(h) THEN overtaken ELSE overtaken \ {h}
      /\ hstate' = [hstate EXCEPT ![h] = "SUSPENDED"] /\ pc' = [pc EXCEPT ![h] = l]
  BY <1>2, Zenon DEF sbi_hsm_hart_suspend, Ask, Change, GoTo, inner, hist, fw, boot
<1>4. /\ pc'[h] = l /\ hstate'[h] = "SUSPENDED" /\ next'[h] = a
      /\ asked'[h] = IF l = "wfi_suspend" THEN a ELSE asked[h]
      /\ DOMAIN next' = Harts /\ DOMAIN asked' = Harts
      /\ \A g \in Harts \ {h} : /\ pc'[g] = pc[g] /\ hstate'[g] = hstate[g]
                                /\ next'[g] = next[g] /\ asked'[g] = asked[g]
  BY <1>3, Zenon DEF BootInv, HsmInv, AskedInv
<1>5. /\ overtaken' \subseteq overtaken /\ \A g \in Harts \ {h} : g \in overtaken' <=> g \in overtaken
      /\ l # "wfi_suspend" => overtaken' = overtaken
      /\ \A c \in Harts : pc[c] = "store" /\ arg[c][1] = h => h \in overtaken'
  <2>1. \A c \in Harts : pc[c] = "store" /\ arg[c][1] = h => h \in overtaken
    BY <1>1, <1>2, Zenon DEF AskedInv, Due
  <2>2. \A c \in Harts : pc[c] = "store" /\ arg[c][1] = h => StoreDue(h)
    BY <1>1, StoresAreCalls, Zenon DEF StoreDue
  <2> QED
    BY <1>3, <2>1, <2>2, Zenon
<1>6. \A c \in Harts : pc'[c] = "store" <=> pc[c] = "store"
  BY <1>1, <1>4, Zenon
<1>7. \A g \in Harts \ {h} : Told(g) => Told(g)'
  BY <1>3, <1>4, <1>6, Zenon DEF Told
<1>8. Awaits(pc'[h], hstate'[h]) => Told(h)'
  BY <1>4, Zenon DEF Awaits, Told
<1>9. \A g \in Harts \ overtaken' :
        Awaits(pc'[g], hstate'[g]) => Unassigned(g, pc'[g], arg'[g][3], i'[g]) \/ Told(g)'
  BY <1>1, <1>3, <1>4, <1>5, <1>7, <1>8, Zenon DEF AskedInv
<1>10. \A g \in Harts \ overtaken' : InSupervisor(pc'[g], arg'[g][3]) => entry'[g] = asked'[g]
  <2>1. \A g \in Harts \ overtaken' : g # h /\ InSupervisor(pc'[g], arg'[g][3]) => entry'[g] = asked'[g]
    BY <1>3, <1>4, <1>5, Zenon DEF AskedInv
  <2>2. InSupervisor(pc[h], arg[h][3])
    BY <1>1, Zenon DEF InSupervisor
  <2>3. h \in overtaken \/ entry[h] = asked[h]
    BY <2>2, Zenon DEF AskedInv
  <2>4. InSupervisor(pc'[h], arg'[h][3]) => l # "wfi_suspend"
    BY <1>4, Zenon DEF InSupervisor
  <2> QED
    BY <1>3, <1>4, <1>5, <2>1, <2>3, <2>4, Zenon
<1>11. ASSUME NEW c \in Harts, pc'[c] = "store"
       PROVE  arg'[c][1] \in Harts /\ (arg'[c][1] \in overtaken' \/ Due(c, arg[c][1])')
  <2>1. pc[c] = "store" /\ arg' = arg
    BY <1>3, <1>6, <1>11, Zenon
  <2>2. arg[c][1] \in Harts /\ (arg[c][1] \in overtaken \/ Due(c, arg[c][1]))
    BY <2>1, Zenon DEF AskedInv
  <2>3. \A g \in Harts \ {h} : Due(c, g) => Due(c, g)'
    BY <1>4, <2>1, Zenon DEF Due
  <2> QED
    BY <1>5, <2>1, <2>2, <2>3, Zenon
<1> QED
  BY <1>3, <1>4, <1>9, <1>10, <1>11, Zenon DEF AskedInv

\* Every step keeps the invariant.
LEMMA AskedStep ==
  ASSUME DomainHarts, FirstHasDomain, Callers \subseteq Harts,
         BootInv, HsmInv, FirstInv, AskedInv, [Next]_vars
  PROVE  AskedInv'
<1>1. CASE UNCHANGED vars
  BY <1>1, Zenon DEF vars, fw, boot, inner, hist, AskedInv, SetUp, Told, Due
<1>2. CASE Next
  <2> PICK h \in Harts :
        \/ Proceed(h)
        \/ Spurious(h)
        \/ \E t \in Callers, a \in StartAddrs : HartStart(h, t, a)
        \/ \E a \in StartAddrs, l \in {"wfi_suspend", "wfi_retentive"} : sbi_hsm_hart_suspend(h, a, l)
        \/ sbi_hsm_hart_stop(h)
    BY <1>2, Zenon DEF Next
  <2>1. CASE \E t \in Callers, a \in StartAddrs : HartStart(h, t, a)
    BY <2>1, StartAsked, Zenon
  <2>2. CASE Proceed(h)
    BY <2>2, EarlyAsked, ColdAsked, StoreAsked, LaterAsked, SwitchAsked, Zenon DEF Proceed
  <2>3. CASE Spurious(h) \/ sbi_hsm_hart_stop(h)
    BY <2>3, LaterAsked, Zenon
  <2>4. CASE \E a \in StartAddrs, l \in {"wfi_suspend", "wfi_retentive"} : sbi_hsm_hart_suspend(h, a, l)
    BY <2>4, SuspendAsked, Zenon
  <2> QED
    BY <2>1, <2>2, <2>3, <2>4, Zenon
<1> QED
  BY <1>1, <1>2, Zenon

\* A hart enters supervisor mode where its domain, or the last call that started
\* or suspended it, said, whatever the harts call and however their starts,
\* stops and suspends overlap, unless it was through its warm boot before the
\* hart that started it had stored the address (sbi_hsm_hart_start publishes
\* START_PENDING first).  For the boot harts of domains this cannot happen: they
\* wait for the end of the cold boot.  Assumed of start.s: hart 0 is first.
THEOREM HartsEnterWhereAsked ==
  ASSUME Pace = "first", DomainHarts, FirstHasDomain, Callers \subseteq Harts
  PROVE  Spec => []EntersWhereAsked
<1> DEFINE Inv == BootInv /\ HsmInv /\ FirstInv /\ AskedInv
<1>1. Init => Inv
  <2>1. Init => FirstInv
    BY Zenon DEF Init, FirstInv, Early, Setup
  <2>2. Init => AskedInv
    BY Zenon DEF Init, AskedInv, SetUp, InSupervisor
  <2> QED
    BY <2>1, <2>2, BootInit, HsmInit, Zenon
<1>2. Inv /\ [Next]_vars => Inv'
  BY BootStep, HsmStep, FirstStep, AskedStep, Zenon
<1>3. Inv => EntersWhereAsked
  BY Zenon DEF AskedInv, InSupervisor, EntersWhereAsked
<1> QED
  BY <1>1, <1>2, <1>3, PTL DEF Spec

=============================================================================
