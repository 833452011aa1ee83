---------------------------- MODULE ProcessMemory ----------------------------
(***************************************************************************)
(* What the kernel promises a process about its memory, with no frames and *)
(* no page tables: every process has a private map from page numbers to    *)
(* pages.  fork copies the map, exec replaces it by a program's image, a   *)
(* write changes one page, and recycle removes the map of another process. *)
(* Only the process that runs can cause a change.                          *)
(*                                                                         *)
(* The actions relate the maps before a step, m, to the maps after it.     *)
(***************************************************************************)
EXTENDS Naturals

CONSTANTS
  Slots,       \* places for processes
  Images,      \* the maps of freshly loaded programs
  FirstImage,  \* the map of the first process
  Values       \* what a write may store

VARIABLES
  space,       \* space[s]: the map of the process in slot s, or NoSpace
  running,     \* the process on the hart
  stopped      \* the kernel has panicked

NoSpace == <<>>

Init ==
  /\ space = [s \in Slots |-> IF s = 0 THEN FirstImage ELSE NoSpace]
  /\ running = 0
  /\ stopped = FALSE

Fork(m, after) ==
  \E child \in Slots :
    m[child] = NoSpace /\ after = [m EXCEPT ![child] = m[running]]

Exec(m, after) == \E image \in Images : after = [m EXCEPT ![running] = image]

Write(m, after) ==
  \E vpn \in DOMAIN m[running], value \in Values :
    after = [m EXCEPT ![running][vpn].page[0] = value]

Recycle(m, after) ==
  \E child \in Slots \ {running} :
    m[child] # NoSpace /\ after = [m EXCEPT ![child] = NoSpace]

Change(m, after) ==
  m[running] # NoSpace
    /\ (Fork(m, after) \/ Exec(m, after) \/ Write(m, after) \/ Recycle(m, after))

\* The hart goes to any process, whose map is then the one that may change.
Switch == running' \in Slots /\ UNCHANGED <<space, stopped>>

Stop == stopped' = TRUE /\ UNCHANGED <<space, running>>

Next ==
  /\ ~stopped
  /\ \/ Switch \/ Stop
     \/ Change(space, space') /\ UNCHANGED <<running, stopped>>

Spec == Init /\ [][Next]_<<space, running, stopped>>
=============================================================================
