------------------------------- MODULE SpinLock -------------------------------
(***************************************************************************)
(* The ticket lock of opensbi-1.2/lib/sbi/riscv_locks.c.  One word holds   *)
(* the ticket being served (owner) and the next ticket to give out (next), *)
(* each 16 bits wide; a hart that wants the lock takes a ticket with one   *)
(* amoadd and reads the word until it is served.  One step is one access   *)
(* to the lock word.                                                       *)
(***************************************************************************)
EXTENDS Integers, FiniteSets

CONSTANTS
  Harts,
  TicketMax     \* the largest ticket, 2^16 - 1 in the code

\* The firmware supports SBI_HARTMASK_MAX_BITS = 128 harts.
ASSUME TicketBound ==
  /\ IsFiniteSet(Harts)
  /\ TicketMax \in Nat
  /\ Cardinality(Harts) <= TicketMax

VARIABLES
  lock,         \* the word: [owner, next]
  pc,           \* where each hart is
  ticket,       \* its register with the ticket it waits for (or the word read)
  reserved      \* the harts whose reservation on the word is still valid

vars == <<lock, pc, ticket, reserved>>

Tickets == 0..TicketMax

\* 16-bit addition of one
Inc(t) == IF t = TicketMax THEN 0 ELSE t + 1

Init ==
  /\ lock = [owner |-> 0, next |-> 0]
  /\ pc = [h \in Harts |-> "idle"]
  /\ ticket = [h \in Harts |-> 0]
  /\ reserved = {}

At(h, l) == pc[h] = l

GoTo(h, l) == pc' = [pc EXCEPT ![h] = l]

\* A store to the word ends every reservation on it.
Write(owner, next) ==
  /\ lock' = [owner |-> owner, next |-> next]
  /\ reserved' = {}

TakeTicket(h) ==
  /\ ticket' = [ticket EXCEPT ![h] = lock.next]
  /\ Write(lock.owner, Inc(lock.next))

\* amoadd.w.aqrl: the old word decides at once when nobody holds the lock.
spin_lock(h) ==
  /\ At(h, "idle")
  /\ TakeTicket(h)
  /\ GoTo(h, IF lock.next = lock.owner THEN "locked" ELSE "spin")

\* mutant: served by being the last in line
SpinLast(h) ==
  /\ At(h, "spin")
  /\ lock.next = Inc(ticket[h])
  /\ GoTo(h, "locked")
  /\ UNCHANGED <<lock, ticket, reserved>>

\* lw, and, beq
Spin(h) ==
  /\ At(h, "spin")
  /\ lock.owner = ticket[h]
  /\ GoTo(h, "locked")
  /\ UNCHANGED <<lock, ticket, reserved>>

\* lr.w.aq: a lock that is not free is not waited for.
spin_trylock(h) ==
  /\ At(h, "idle")
  /\ lock.next = lock.owner
  /\ reserved' = reserved \cup {h}
  /\ GoTo(h, "sc")
  /\ UNCHANGED <<lock, ticket>>

StoreConditional(h) ==
  /\ At(h, "sc")
  /\ h \in reserved
  /\ TakeTicket(h)
  /\ GoTo(h, "locked")

\* sc.w fails when the word was written, and may fail anyway; bnez 1b
Retry(h) ==
  /\ At(h, "sc")
  /\ GoTo(h, "idle")
  /\ reserved' = reserved \ {h}
  /\ UNCHANGED <<lock, ticket>>

\* mutant: the hart never gets to its store
KeepLock(h) ==
  /\ At(h, "locked")
  /\ UNCHANGED vars

\* spin_unlock loads owner ...
spin_unlock(h) ==
  /\ At(h, "locked")
  /\ ticket' = [ticket EXCEPT ![h] = lock.owner]
  /\ GoTo(h, "release")
  /\ UNCHANGED <<lock, reserved>>

\* ... and stores the half word one higher.
StoreRelease(h) ==
  /\ At(h, "release")
  /\ Write(Inc(ticket[h]), lock.next)
  /\ GoTo(h, "idle")
  /\ UNCHANGED ticket

Next == \E h \in Harts :
  \/ spin_lock(h) \/ Spin(h)
  \/ spin_trylock(h) \/ StoreConditional(h) \/ Retry(h)
  \/ spin_unlock(h) \/ StoreRelease(h)

Spec == Init /\ [][Next]_vars

-----------------------------------------------------------------------------
Holders == {h \in Harts : pc[h] \in {"locked", "release"}}

Active == {h \in Harts : pc[h] \in {"spin", "locked", "release"}}

\* How far t is behind the ticket being served.
Ahead(t) == IF t >= lock.owner THEN t - lock.owner ELSE t - lock.owner + TicketMax + 1

\* Both halves of the lock word stay 16-bit numbers: a ticket that wraps does not
\* carry out of its half.
TypeOK ==
  /\ lock \in [owner : Tickets, next : Tickets]
  /\ pc \in [Harts -> {"idle", "spin", "sc", "locked", "release"}]
  /\ ticket \in [Harts -> Tickets]
  /\ reserved \subseteq Harts

\* Two harts are never between spin_lock (or a successful spin_trylock) and
\* spin_unlock at once, although both counters wrap.
MutualExclusion == \A g, h \in Holders : g = h

\* The harts with a ticket hold exactly the tickets from owner up to next, one
\* each, and the holder's is the one being served.
TicketsInLine ==
  /\ Cardinality(Active) = Ahead(lock.next)
  /\ \A h \in Active : Ahead(ticket[h]) < Ahead(lock.next)
  /\ \A g, h \in Active : ticket[g] = ticket[h] => g = h
  /\ \A h \in Holders : ticket[h] = lock.owner
  /\ \A h \in reserved : lock.owner = lock.next

=============================================================================
