--------------------------- MODULE LockedFifoProofs ---------------------------
(***************************************************************************)
(* The ticket lock, the ring buffer, and the ring buffer under the lock.   *)
(*                                                                         *)
(* Mutual exclusion holds for every number of harts that is smaller than   *)
(* the number of tickets.  The inductive invariant is TicketsInLine: the   *)
(* harts with a ticket are exactly as many as the tickets between owner    *)
(* and next.  It is needed because owner = next means "free": with as many *)
(* harts as tickets the counters would meet although every hart waits.     *)
(*                                                                         *)
(* The ring buffer implements the bounded queue, for every capacity and    *)
(* every set of data; and functions of harts that share it, made write by  *)
(* write between spin_lock and spin_unlock, are the single steps that the  *)
(* ring buffer's specification takes them for.                             *)
(***************************************************************************)
EXTENDS LockedFifo, FiniteSetTheorems, SequenceTheorems, TLAPS

\* The distance from ticket o to ticket t, going round.
Dist(o, t) == IF t >= o THEN t - o ELSE t - o + TicketMax + 1

\* Giving out a ticket moves next one further away.
LEMMA DistNext ==
  ASSUME NEW o \in Tickets, NEW t \in Tickets, Dist(o, t) < TicketMax
  PROVE  Inc(t) \in Tickets /\ Dist(o, Inc(t)) = Dist(o, t) + 1
PROOF
  BY TicketBound DEF Tickets, Dist, Inc

\* Serving the next ticket brings every other ticket one nearer.
LEMMA DistServed ==
  ASSUME NEW o \in Tickets, NEW t \in Tickets, t # o
  PROVE  Inc(o) \in Tickets /\ Dist(Inc(o), t) = Dist(o, t) - 1
PROOF
  BY TicketBound DEF Tickets, Dist, Inc

\* Distances are natural numbers, zero only to the ticket itself, and they
\* tell tickets apart.
LEMMA DistFacts ==
  ASSUME NEW o \in Tickets, NEW s \in Tickets, NEW t \in Tickets
  PROVE  /\ Dist(o, t) \in 0..TicketMax
         /\ Dist(o, t) = 0 <=> t = o
         /\ Dist(o, s) = Dist(o, t) => s = t
PROOF
  BY TicketBound DEF Tickets, Dist

\* The invariant, with the distance written out.
Line(o, n) ==
  /\ Cardinality(Active) = Dist(o, n)
  /\ \A h \in Active : Dist(o, ticket[h]) < Dist(o, n)
  /\ \A g, h \in Active : ticket[g] = ticket[h] => g = h
  /\ \A h \in Holders : ticket[h] = o
  /\ \A h \in reserved : o = n

\* TicketsInLine is Line of the two halves of the word.
LEMMA LineIs ==
  /\ TicketsInLine <=> Line(lock.owner, lock.next)
  /\ TicketsInLine' <=> Line(lock.owner, lock.next)'
PROOF
  BY Zenon DEF TicketsInLine, Line, Ahead, Dist

\* Holding a ticket or not: some hart is without one as long as one is idle.
LEMMA ActiveBound ==
  ASSUME TypeOK, NEW h \in Harts, h \notin Active
  PROVE  /\ IsFiniteSet(Active)
         /\ Cardinality(Active) \in Nat
         /\ Cardinality(Active) < TicketMax
         /\ Cardinality(Active \cup {h}) = Cardinality(Active) + 1
PROOF
  <1>1. Active \subseteq Harts /\ IsFiniteSet(Harts)
    BY TicketBound, Zenon DEF Active
  <1>2. IsFiniteSet(Active)
    BY <1>1, FS_Subset, Zenon
  <1>3. Cardinality(Active \cup {h}) = Cardinality(Active) + 1
    BY <1>2, FS_AddElement, Zenon
  <1>4. Cardinality(Active \cup {h}) <= Cardinality(Harts)
    BY <1>1, FS_Subset, Zenon
  <1>5. Cardinality(Active) \in Nat /\ Cardinality(Harts) \in Nat
    BY <1>1, <1>2, FS_CardinalityType, Zenon
  <1> QED
    BY <1>2, <1>3, <1>4, <1>5, TicketBound

\* Taking a ticket (spin_lock, or a store conditional on a free lock) keeps
\* the tickets in line.
LEMMA TakeTicketFacts ==
  ASSUME TypeOK, TicketsInLine, NEW h \in Harts, pc[h] \in {"idle", "sc"},
         TakeTicket(h), NEW l \in {"spin", "locked"}, GoTo(h, l),
         l = "locked" => lock.next = lock.owner
  PROVE  TypeOK' /\ TicketsInLine'
PROOF
  <1> DEFINE o == lock.owner
             n == lock.next
  <1> USE DEF TypeOK
  <1>1. /\ h \notin Active
        /\ o \in Tickets /\ n \in Tickets
        /\ Line(o, n)
    BY LineIs, Zenon DEF Active
  <1>2. /\ IsFiniteSet(Active)
        /\ Cardinality(Active \cup {h}) = Cardinality(Active) + 1
        /\ Dist(o, n) < TicketMax
    BY <1>1, ActiveBound, Zenon DEF Line
  <1>3. Inc(n) \in Tickets /\ Dist(o, Inc(n)) = Dist(o, n) + 1 /\ Dist(o, n) \in Nat
    BY <1>1, <1>2, DistNext, DistFacts
  <1>4. /\ lock' = [owner |-> o, next |-> Inc(n)]
        /\ reserved' = {}
        /\ ticket' = [ticket EXCEPT ![h] = n]
        /\ pc' = [pc EXCEPT ![h] = l]
    BY Zenon DEF TakeTicket, Write, GoTo
  <1>5. TypeOK'
    BY <1>1, <1>3, <1>4, Zenon
  <1>6. /\ Active' = Active \cup {h}
        /\ Holders' = IF l = "locked" THEN Holders \cup {h} ELSE Holders
    BY <1>1, <1>4, Zenon DEF Active, Holders
  <1>7. ticket'[h] = n /\ \A g \in Active : ticket'[g] = ticket[g] /\ ticket[g] \in Tickets
    BY <1>1, <1>4, Zenon DEF Active
  <1>8. \A g \in Active : ticket[g] # n
    BY <1>1, <1>3 DEF Line
  <1>9. \A g \in Active' : Dist(o, ticket'[g]) < Dist(o, n) + 1
    <2>1. \A g \in Active : Dist(o, ticket[g]) < Dist(o, n) /\ Dist(o, ticket[g]) \in Nat
      BY <1>1, <1>7, DistFacts DEF Line
    <2> QED
      BY <1>3, <1>6, <1>7, <2>1
  <1>10. \A f, g \in Active' : ticket'[f] = ticket'[g] => f = g
    BY <1>1, <1>6, <1>7, <1>8 DEF Line
  <1>11. \A g \in Holders' : ticket'[g] = o
    BY <1>1, <1>6, <1>7 DEF Line, Holders, Active
  <1>12. Cardinality(Active') = Dist(o, Inc(n))
    BY <1>1, <1>2, <1>3, <1>6, Zenon DEF Line
  <1>13. Line(lock.owner, lock.next)'
    <2>1. lock'.owner = o /\ lock'.next = Inc(n)
      BY <1>4, Zenon
    <2> QED
      BY <1>3, <1>4, <1>9, <1>10, <1>11, <1>12, <2>1 DEF Line, Dist
  <1> QED
    BY <1>5, <1>13, LineIs, Zenon

\* The store of spin_unlock serves the next ticket.
LEMMA StoreReleaseFacts ==
  ASSUME TypeOK, TicketsInLine, NEW h \in Harts, StoreRelease(h)
  PROVE  TypeOK' /\ TicketsInLine'
PROOF
  <1> DEFINE o == lock.owner
             n == lock.next
  <1> USE DEF TypeOK
  <1>1. /\ h \in Active /\ h \in Holders
        /\ o \in Tickets /\ n \in Tickets
        /\ Line(o, n)
    BY LineIs, Zenon DEF Active, Holders, StoreRelease, At
  <1>2. ticket[h] = o /\ Inc(o) \in Tickets
    BY <1>1, TicketBound DEF Line, Inc, Tickets
  <1>3. /\ lock' = [owner |-> Inc(o), next |-> n]
        /\ reserved' = {}
        /\ ticket' = ticket
        /\ pc' = [pc EXCEPT ![h] = "idle"]
    BY <1>2, Zenon DEF StoreRelease, Write, GoTo
  <1>4. TypeOK'
    BY <1>1, <1>2, <1>3, Zenon
  <1>5. Active' = Active \ {h} /\ Holders' = Holders \ {h}
    BY <1>1, <1>3, Zenon DEF Active, Holders
  <1>6. Holders' = {}
    BY <1>1, <1>2, <1>5, Zenon DEF Line, Holders, Active
  <1>7. n # o
    <2>1. Dist(o, o) < Dist(o, n)
      BY <1>1, <1>2, Zenon DEF Line
    <2> QED
      BY <1>1, <2>1, DistFacts
  <1>8. Dist(Inc(o), n) = Dist(o, n) - 1 /\ Dist(o, n) \in Nat
    BY <1>1, <1>7, DistServed, DistFacts
  <1>9. ASSUME NEW g \in Active'
        PROVE  Dist(Inc(o), ticket[g]) < Dist(Inc(o), n)
    <2>1. g \in Active /\ g # h /\ ticket[g] \in Tickets
      BY <1>5, Zenon DEF Active
    <2>2. ticket[g] # o
      BY <1>1, <1>2, <2>1, Zenon DEF Line
    <2>3. Dist(Inc(o), ticket[g]) = Dist(o, ticket[g]) - 1 /\ Dist(o, ticket[g]) \in Nat
      BY <1>1, <2>1, <2>2, DistServed, DistFacts
    <2>4. Dist(o, ticket[g]) < Dist(o, n)
      BY <1>1, <2>1, Zenon DEF Line
    <2> QED
      BY <1>8, <2>3, <2>4
  <1>10. Cardinality(Active') = Dist(Inc(o), n)
    <2>1. IsFiniteSet(Active)
      BY TicketBound, FS_Subset, Zenon DEF Active
    <2>2. Cardinality(Active \ {h}) = Cardinality(Active) - 1
      BY <1>1, <2>1, FS_RemoveElement, Zenon
    <2> QED
      BY <1>1, <1>5, <1>8, <2>2, Zenon DEF Line
  <1>11. \A f, g \in Active' : ticket'[f] = ticket'[g] => f = g
    BY <1>1, <1>3, <1>5, Zenon DEF Line
  <1>12. Line(lock.owner, lock.next)'
    <2>1. lock'.owner = Inc(o) /\ lock'.next = n
      BY <1>3, Zenon
    <2> QED
      BY <1>3, <1>6, <1>9, <1>10, <1>11, <2>1, Zenon DEF Line, Dist
  <1> QED
    BY <1>4, <1>12, LineIs, Zenon

\* Every step of the lock keeps the tickets in line.
LEMMA LineStep ==
  ASSUME TypeOK, TicketsInLine, [Next]_vars
  PROVE  TypeOK' /\ TicketsInLine'
PROOF
  <1>1. CASE UNCHANGED vars
    BY <1>1, Zenon DEF vars, TypeOK, TicketsInLine, Active, Holders, Ahead
  <1>2. ASSUME NEW h \in Harts, spin_lock(h) PROVE TypeOK' /\ TicketsInLine'
    <2>1. CASE lock.next = lock.owner
      BY <1>2, <2>1, TakeTicketFacts, Zenon DEF spin_lock, At
    <2>2. CASE lock.next # lock.owner
      BY <1>2, <2>2, TakeTicketFacts, Zenon DEF spin_lock, At
    <2> QED
      BY <2>1, <2>2, Zenon
  <1>3. ASSUME NEW h \in Harts, StoreConditional(h) PROVE TypeOK' /\ TicketsInLine'
    <2>1. lock.next = lock.owner
      BY <1>3, Zenon DEF TicketsInLine, StoreConditional
    <2> QED
      BY <1>3, <2>1, TakeTicketFacts, Zenon DEF StoreConditional, At
  <1>4. ASSUME NEW h \in Harts, Spin(h) PROVE TypeOK' /\ TicketsInLine'
    <2> USE <1>4 DEF TypeOK, Spin, At, GoTo
    <2>1. TypeOK' /\ UNCHANGED <<lock, ticket, reserved>>
      BY Zenon
    <2>2. Active' = Active /\ Holders' = Holders \cup {h}
      BY Zenon DEF Active, Holders
    <2> QED
      BY <2>1, <2>2 DEF TicketsInLine, Ahead
  <1>5. ASSUME NEW h \in Harts, spin_trylock(h) \/ Retry(h) PROVE TypeOK' /\ TicketsInLine'
    <2> USE <1>5 DEF TypeOK, spin_trylock, Retry, At, GoTo
    <2>1. TypeOK' /\ UNCHANGED <<lock, ticket>>
      BY Zenon
    <2>2. Active' = Active /\ Holders' = Holders
      BY Zenon DEF Active, Holders
    <2>3. \A g \in reserved' : lock.owner = lock.next
      BY Zenon DEF TicketsInLine
    <2> QED
      BY <2>1, <2>2, <2>3, Zenon DEF TicketsInLine, Ahead
  <1>6. ASSUME NEW h \in Harts, spin_unlock(h) PROVE TypeOK' /\ TicketsInLine'
    <2> USE <1>6 DEF TypeOK, spin_unlock, At, GoTo
    <2>1. h \in Holders /\ ticket[h] = lock.owner
      BY Zenon DEF Holders, TicketsInLine
    <2>2. TypeOK' /\ ticket' = ticket /\ UNCHANGED <<lock, reserved>>
      BY <2>1, Zenon
    <2>3. Active' = Active /\ Holders' = Holders
      BY Zenon DEF Active, Holders
    <2> QED
      BY <2>2, <2>3 DEF TicketsInLine, Ahead
  <1>7. ASSUME NEW h \in Harts, StoreRelease(h) PROVE TypeOK' /\ TicketsInLine'
    BY <1>7, StoreReleaseFacts, Zenon
  <1> QED
    BY <1>1, <1>2, <1>3, <1>4, <1>5, <1>6, <1>7, Zenon DEF Next

\* The lock starts free, with no ticket given out.
LEMMA LineInit == Init => TypeOK /\ TicketsInLine
PROOF
  <1> SUFFICES ASSUME Init PROVE TypeOK /\ TicketsInLine
    BY Zenon
  <1>1. TypeOK
    BY TicketBound DEF Init, TypeOK, Tickets
  <1>2. Active = {} /\ Holders = {} /\ reserved = {} /\ lock.owner = 0 /\ lock.next = 0
    BY Zenon DEF Init, Active, Holders
  <1>3. Cardinality(Active) = 0
    BY <1>2, FS_EmptySet, Zenon
  <1> QED
    BY <1>1, <1>2, <1>3 DEF TicketsInLine, Ahead

\* The tickets stay in line, and every variable keeps its type.
THEOREM TicketsStayInLine == Spec => [](TypeOK /\ TicketsInLine)
PROOF
  BY LineInit, LineStep, PTL DEF Spec

\* Tickets in line exclude each other.
LEMMA LineExcludes == TicketsInLine => MutualExclusion
PROOF
  BY DEF TicketsInLine, MutualExclusion, Holders, Active

\* No two harts hold the lock, for every number of harts below 2^16 and
\* however often the counters wrap.
THEOREM OneHolder == Spec => []MutualExclusion
PROOF
  BY LineExcludes, TicketsStayInLine, PTL

-----------------------------------------------------------------------------
USE SizeAssumption, ZeroAssumption

\* The cells used by avail entries from tail on are distinct and exist.
LEMMA WrapFacts ==
  ASSUME NEW t \in 0..(Size - 1), NEW i \in 0..(Size - 1), NEW j \in 0..(Size - 1)
  PROVE  /\ Wrap(t + i) \in 0..(Size - 1)
         /\ Wrap(t + i) = Wrap(t + j) => i = j
PROOF
  BY DEF Wrap

\* Moving tail on by one renumbers the entries behind it.
LEMMA WrapNext ==
  ASSUME NEW t \in 0..(Size - 1), NEW i \in 0..(Size - 2)
  PROVE  Wrap(Wrap(t + 1) + i) = Wrap(t + (i + 1)) /\ Wrap(t + 1) \in 0..(Size - 1)
PROOF
  BY DEF Wrap

\* The entries of a ring with memory m, of which a cells from t on are in use.
Ring(m, a, t) == [i \in 1..a |-> m[Wrap(t + i - 1)]]

\* They are a sequence of a data when those cells hold data.
LEMMA RingFacts ==
  ASSUME NEW m, NEW a \in 0..Size, NEW t \in 0..(Size - 1),
         \A i \in 0..(a - 1) : m[Wrap(t + i)] \in Data
  PROVE  /\ Ring(m, a, t) \in Seq(Data)
         /\ Len(Ring(m, a, t)) = a
         /\ \A i \in 1..a : Ring(m, a, t)[i] = m[Wrap(t + (i - 1))]
PROOF
  <1>1. \A i \in 1..a : i - 1 \in 0..(a - 1) /\ t + i - 1 = t + (i - 1)
    OBVIOUS
  <1>2. \A i \in 1..a : Ring(m, a, t)[i] = m[Wrap(t + (i - 1))] /\ m[Wrap(t + (i - 1))] \in Data
    BY <1>1, Zenon DEF Ring
  <1>3. \A i \in 1..a : m[Wrap(t + i - 1)] \in Data
    BY <1>1, Zenon
  <1>4. Ring(m, a, t) \in [1..a -> Data]
    BY <1>3, Zenon DEF Ring
  <1>5. a \in Nat
    OBVIOUS
  <1> QED
    BY <1>2, <1>4, <1>5

\* The mapped queue is a sequence of data, as long as avail says.
LEMMA EntriesFacts ==
  ASSUME FifoTypeOK
  PROVE  /\ Entries \in Seq(Data)
         /\ Len(Entries) = avail
         /\ \A i \in 1..avail : Entries[i] = queue[Wrap(tail + (i - 1))]
PROOF
  <1>1. Entries = Ring(queue, avail, tail)
    BY Zenon DEF Entries, Ring
  <1>2. /\ avail \in 0..Size /\ tail \in 0..(Size - 1)
        /\ \A i \in 0..(avail - 1) : queue[Wrap(tail + i)] \in Data
    BY Zenon DEF FifoTypeOK
  <1> QED
    BY <1>1, <1>2, RingFacts, Zenon

\* Two sequences of the same length with the same elements are the same.
LEMMA SameEntries ==
  ASSUME NEW s \in Seq(Data), NEW t \in Seq(Data), Len(s) = Len(t),
         \A i \in 1..Len(s) : s[i] = t[i]
  PROVE  s = t
PROOF
  BY SeqEqual, Zenon

\* sbi_fifo_enqueue keeps the type invariant and is a Put of the queue.
LEMMA EnqueueFacts ==
  ASSUME FifoTypeOK, NEW d \in Data, sbi_fifo_enqueue(d)
  PROVE  FifoTypeOK' /\ Queue!Put(d)
PROOF
  <1>1. CASE is_full
    <2>1. FifoTypeOK' /\ Entries' = Entries /\ Len(Entries) = Size
      BY <1>1, EntriesFacts, Zenon DEF sbi_fifo_enqueue, FifoTypeOK, is_full, Entries
    <2> QED
      BY <1>1, <2>1, Zenon DEF sbi_fifo_enqueue, is_full, Queue!Put
  <1>2. CASE ~is_full
    <2> DEFINE head == Wrap(tail + avail)
               new == [queue EXCEPT ![head] = d]
    <2>1. avail \in 0..(Size - 1) /\ tail \in 0..(Size - 1)
      BY <1>2 DEF FifoTypeOK, is_full
    <2>2. head \in 0..(Size - 1) /\ \A i \in 0..(avail - 1) : Wrap(tail + i) # head
      BY <2>1 DEF Wrap
    <2>3. \A i \in 0..(avail - 1) : Wrap(tail + i) \in 0..(Size - 1)
      BY <2>1, WrapFacts
    <2>4. /\ queue' = new
          /\ avail' = avail + 1 /\ tail' = tail /\ result' = <<"ok">>
      BY <1>2, Zenon DEF sbi_fifo_enqueue, Store
    <2>5. \A i \in 0..(avail - 1) : new[Wrap(tail + i)] = queue[Wrap(tail + i)]
      BY <2>2, <2>3, <2>4, Zenon DEF FifoTypeOK
    <2>6. new[head] = d
      BY <2>2, <2>4, Zenon DEF FifoTypeOK
    <2>7. FifoTypeOK'
      <3>1. \A i \in 0..(avail' - 1) : i = avail \/ i \in 0..(avail - 1)
        BY <2>1, <2>4
      <3>2. \A i \in 0..(avail' - 1) : queue'[Wrap(tail' + i)] \in Data
        BY <2>4, <2>5, <2>6, <3>1, Zenon DEF FifoTypeOK
      <3> QED
        BY <2>1, <2>2, <2>4, <3>2 DEF FifoTypeOK
    <2>8. /\ Entries' \in Seq(Data) /\ Len(Entries') = avail + 1
          /\ \A i \in 1..(avail + 1) : Entries'[i] = new[Wrap(tail + (i - 1))]
      <3>1. Entries' = Ring(new, avail + 1, tail)
        BY <2>4 DEF Entries, Ring
      <3>2. \A i \in 0..avail : i = avail \/ i \in 0..(avail - 1)
        BY <2>1
      <3>3. \A i \in 0..((avail + 1) - 1) : new[Wrap(tail + i)] \in Data
        BY <2>1, <2>5, <2>6, <3>2 DEF FifoTypeOK
      <3>4. avail + 1 \in 0..Size
        BY <2>1
      <3> HIDE DEF new
      <3> QED
        BY <2>1, <3>1, <3>3, <3>4, RingFacts, ZenonT(30)
    <2>9. Entries' = Append(Entries, d)
      <3>1. /\ Append(Entries, d) \in Seq(Data) /\ Len(Append(Entries, d)) = avail + 1
            /\ \A i \in 1..avail : Append(Entries, d)[i] = Entries[i]
            /\ Append(Entries, d)[avail + 1] = d
        BY EntriesFacts, AppendProperties
      <3>2. \A i \in 1..avail : Entries'[i] = Entries[i]
        <4> TAKE i \in 1..avail
        <4>1. i \in 1..(avail + 1) /\ i - 1 \in 0..(avail - 1)
          BY <2>1
        <4> QED
          BY <2>5, <2>8, <4>1, EntriesFacts, Zenon
      <3>3. Entries'[avail + 1] = d
        <4>1. avail + 1 \in 1..(avail + 1) /\ (avail + 1) - 1 = avail
          BY <2>1
        <4> QED
          BY <2>6, <2>8, <4>1, Zenon
      <3>4. \A i \in 1..(avail + 1) : i \in 1..avail \/ i = avail + 1
        BY <2>1
      <3>5. \A i \in 1..Len(Entries') : Entries'[i] = Append(Entries, d)[i]
        BY <2>8, <3>1, <3>2, <3>3, <3>4, Zenon
      <3> QED
        BY <2>8, <3>1, <3>5, SameEntries, Zenon
    <2>10. Len(Entries) < Size
      BY <2>1, EntriesFacts
    <2> QED
      BY <2>4, <2>7, <2>9, <2>10, Zenon DEF Queue!Put
  <1> QED
    BY <1>1, <1>2, Zenon

\* Likewise for sbi_fifo_dequeue, which takes the oldest entry.
LEMMA DequeueFacts ==
  ASSUME FifoTypeOK, sbi_fifo_dequeue
  PROVE  FifoTypeOK' /\ Queue!Get
PROOF
  <1>1. CASE is_empty
    <2>1. FifoTypeOK' /\ Entries' = Entries /\ Len(Entries) = 0
      BY <1>1, EntriesFacts, Zenon DEF sbi_fifo_dequeue, FifoTypeOK, is_empty, Entries
    <2>2. Entries = <<>>
      BY <2>1, EntriesFacts, EmptySeq, Zenon
    <2> QED
      BY <1>1, <2>1, <2>2, Zenon DEF sbi_fifo_dequeue, is_empty, Queue!Get
  <1>2. CASE ~is_empty
    <2> DEFINE t == Wrap(tail + 1)
    <2>1. avail \in 1..Size /\ tail \in 0..(Size - 1)
      BY <1>2 DEF FifoTypeOK, is_empty
    <2>2. /\ queue' = queue /\ avail' = avail - 1 /\ tail' = t
          /\ result' = <<"ok", queue[tail]>>
      BY <1>2, Zenon DEF sbi_fifo_dequeue
    <2>3. \A i \in 0..(avail - 2) : /\ Wrap(t + i) = Wrap(tail + (i + 1))
                                    /\ i + 1 \in 0..(avail - 1)
      BY <2>1, <2>2, WrapNext
    <2>4. t \in 0..(Size - 1)
      BY <2>1, <2>2 DEF Wrap
    <2>5. FifoTypeOK'
      <3>1. \A i \in 0..(avail' - 1) : queue'[Wrap(tail' + i)] \in Data
        <4> TAKE i \in 0..(avail' - 1)
        <4>1. i \in 0..(avail - 2)
          BY <2>1, <2>2
        <4> QED
          BY <2>2, <2>3, <4>1, Zenon DEF FifoTypeOK
      <3> QED
        BY <2>1, <2>2, <2>4, <3>1 DEF FifoTypeOK
    <2>6. /\ Entries' \in Seq(Data) /\ Len(Entries') = avail - 1
          /\ \A i \in 1..(avail - 1) : Entries'[i] = queue[Wrap(t + (i - 1))]
      <3>1. Entries' = Ring(queue, avail - 1, t)
        BY <2>2, Zenon DEF Entries, Ring
      <3>2. \A i \in 0..((avail - 1) - 1) : queue[Wrap(t + i)] \in Data
        <4> TAKE i \in 0..((avail - 1) - 1)
        <4>1. i \in 0..(avail - 2)
          BY <2>1
        <4> QED
          BY <2>3, <4>1, Zenon DEF FifoTypeOK
      <3>3. avail - 1 \in 0..Size
        BY <2>1
      <3> HIDE DEF t
      <3> QED
        BY <2>4, <3>1, <3>2, <3>3, RingFacts, Zenon
    <2>7. Entries # <<>> /\ Head(Entries) = queue[tail]
      <3>1. Len(Entries) # 0 /\ Entries[1] = queue[Wrap(tail + (1 - 1))] /\ Entries # <<>>
        BY <2>1, EntriesFacts
      <3>2. Wrap(tail + (1 - 1)) = tail
        BY <2>1 DEF Wrap
      <3>3. Head(Entries) = Entries[1]
        BY EntriesFacts, <3>1
      <3> QED
        BY <3>1, <3>2, <3>3, Zenon
    <2>8. Entries' = Tail(Entries)
      <3>1. /\ Tail(Entries) \in Seq(Data) /\ Len(Tail(Entries)) = avail - 1
            /\ \A i \in 1..(avail - 1) : Tail(Entries)[i] = Entries[i + 1]
        BY <2>7, EntriesFacts, HeadTailProperties, Zenon
      <3>2. \A i \in 1..(avail - 1) : Entries'[i] = Entries[i + 1]
        <4> TAKE i \in 1..(avail - 1)
        <4>1. i - 1 \in 0..(avail - 2) /\ (i - 1) + 1 = i /\ i + 1 \in 1..avail /\ (i + 1) - 1 = i
          BY <2>1
        <4>2. Wrap(t + (i - 1)) = Wrap(tail + i)
          BY <2>3, <4>1, Zenon
        <4>3. Entries[i + 1] = queue[Wrap(tail + i)]
          BY <4>1, EntriesFacts, Zenon
        <4> QED
          BY <2>6, <4>2, <4>3, Zenon
      <3> QED
        BY <2>6, <3>1, <3>2, SameEntries, Zenon
    <2> QED
      BY <2>2, <2>5, <2>7, <2>8, Zenon DEF Queue!Get
  <1> QED
    BY <1>1, <1>2, Zenon

\* Likewise for sbi_fifo_reset.
LEMMA ResetFacts ==
  ASSUME FifoTypeOK, sbi_fifo_reset
  PROVE  FifoTypeOK' /\ Queue!Clear
PROOF
  <1>1. FifoTypeOK' /\ avail' = 0
    BY DEF sbi_fifo_reset, FifoTypeOK
  <1>2. Entries' = Ring(queue', 0, 0)
    BY DEF sbi_fifo_reset, Entries, Ring
  <1>3. Entries' = <<>>
    BY <1>2 DEF Ring
  <1> QED
    BY <1>1, <1>3, Zenon DEF sbi_fifo_reset, Queue!Clear
\* The loop of sbi_fifo_inplace_update stops at the same entry as the search of
\* the queue.
LEMMA UpdateFacts ==
  ASSUME FifoTypeOK, NEW S \in SUBSET Data, NEW d \in Data, sbi_fifo_inplace_update(S, d)
  PROVE  FifoTypeOK' /\ Queue!Replace(S, d)
PROOF
  <1>1. avail \in 0..Size /\ tail \in 0..(Size - 1)
    BY Zenon DEF FifoTypeOK
  <1>2. \A i \in 1..avail : Entries[i] = queue[Wrap(tail + (i - 1))] /\ i - 1 \in 0..(avail - 1)
    BY <1>1, EntriesFacts
  <1>3. CASE /\ \A i \in 0..(avail - 1) : queue[Wrap(tail + i)] \notin S
             /\ result' = <<"UNCHANGED">>
             /\ UNCHANGED <<queue, avail, tail>>
    <2>1. FifoTypeOK' /\ Entries' = Entries
      BY <1>3, Zenon DEF FifoTypeOK, Entries
    <2>2. \A i \in 1..Len(Entries) : Entries[i] \notin S
      BY <1>2, <1>3, EntriesFacts, Zenon
    <2> QED
      BY <1>3, <2>1, <2>2, Zenon DEF Queue!Replace
  <1>4. ASSUME NEW k \in 0..(avail - 1),
               queue[Wrap(tail + k)] \in S,
               \A j \in 0..(k - 1) : queue[Wrap(tail + j)] \notin S,
               \/ Store(Wrap(tail + k), d) /\ result' = <<"UPDATED">>
               \/ UNCHANGED queue /\ result' = <<"SKIP">>,
               UNCHANGED <<avail, tail>>
        PROVE  FifoTypeOK' /\ Queue!Replace(S, d)
    <2> DEFINE cell == Wrap(tail + k)
               new == [queue EXCEPT ![cell] = d]
    <2>1. k + 1 \in 1..avail /\ (k + 1) - 1 = k
      BY <1>1
    <2>2. Entries[k + 1] \in S /\ \A j \in 1..((k + 1) - 1) : Entries[j] \notin S
      <3>1. \A j \in 1..((k + 1) - 1) : j - 1 \in 0..(k - 1) /\ j \in 1..avail
        BY <1>1
      <3>2. Entries[k + 1] = queue[Wrap(tail + k)]
        BY <1>2, <2>1, Zenon
      <3> QED
        BY <1>2, <1>4, <3>1, <3>2, Zenon
    <2>3. CASE UNCHANGED queue /\ result' = <<"SKIP">>
      <3>1. FifoTypeOK' /\ Entries' = Entries
        BY <1>4, <2>3, Zenon DEF FifoTypeOK, Entries
      <3> QED
        BY <2>1, <2>2, <2>3, <3>1, EntriesFacts, Zenon DEF Queue!Replace
    <2>4. CASE Store(Wrap(tail + k), d) /\ result' = <<"UPDATED">>
      <3>1. queue' = new /\ avail' = avail /\ tail' = tail
        BY <1>4, <2>4, Zenon DEF Store
      <3>2. cell \in 0..(Size - 1) /\ \A i \in 0..(avail - 1) : /\ Wrap(tail + i) \in 0..(Size - 1)
                                                              /\ Wrap(tail + i) = cell => i = k
        BY <1>1 DEF Wrap
      <3>3. new[cell] = d /\ new \in [0..(Size - 1) -> Data \cup {Zero}]
        BY <3>2, Zenon DEF FifoTypeOK
      <3>4. \A i \in 0..(avail - 1) : i # k => new[Wrap(tail + i)] = queue[Wrap(tail + i)]
        BY <3>2 DEF FifoTypeOK
      <3>5. \A i \in 0..(avail - 1) : new[Wrap(tail + i)] \in Data
        BY <3>3, <3>4, Zenon DEF FifoTypeOK
      <3>6. FifoTypeOK'
        BY <1>1, <3>1, <3>3, <3>5, Zenon DEF FifoTypeOK
      <3>7. Entries' = Ring(new, avail, tail)
        BY <3>1 DEF Entries, Ring
      <3>8. /\ Entries' \in Seq(Data) /\ Len(Entries') = avail
            /\ \A i \in 1..avail : Entries'[i] = new[Wrap(tail + (i - 1))]
        <4> HIDE DEF new
        <4>1. /\ Ring(new, avail, tail) \in Seq(Data) /\ Len(Ring(new, avail, tail)) = avail
              /\ \A i \in 1..avail : Ring(new, avail, tail)[i] = new[Wrap(tail + (i - 1))]
          BY <1>1, <3>5, RingFacts, Zenon
        <4> QED
          BY <3>7, <4>1, Zenon
      <3>9. Entries' = [Entries EXCEPT ![k + 1] = d]
        <4> DEFINE upd == [Entries EXCEPT ![k + 1] = d]
        <4>1. upd \in Seq(Data) /\ Len(upd) = avail
          BY <2>1, EntriesFacts, ExceptSeq
        <4>2. upd[k + 1] = d /\ \A i \in 1..avail : i # k + 1 => upd[i] = Entries[i]
          BY <2>1, EntriesFacts
        <4>3. Entries'[k + 1] = d
          BY <2>1, <3>3, <3>8, Zenon
        <4>4. \A i \in 1..avail : i # k + 1 => Entries'[i] = Entries[i]
          <5> SUFFICES ASSUME NEW i \in 1..avail, i # k + 1
                       PROVE  Entries'[i] = Entries[i]
            BY Zenon
          <5>1. i - 1 \in 0..(avail - 1) /\ i - 1 # k
            BY <1>1
          <5>2. Entries'[i] = new[Wrap(tail + (i - 1))] /\ Entries[i] = queue[Wrap(tail + (i - 1))]
            BY <1>2, <3>8, Zenon
          <5>3. new[Wrap(tail + (i - 1))] = queue[Wrap(tail + (i - 1))]
            BY <3>4, <5>1, Zenon
          <5> QED
            BY <5>2, <5>3, Zenon
        <4>5. \A i \in 1..avail : Entries'[i] = upd[i]
          BY <4>2, <4>3, <4>4, Zenon
        <4> HIDE DEF upd
        <4>6. Entries' = upd
          BY <3>8, <4>1, <4>5, SameEntries, Zenon
        <4> QED
          BY <4>6, Zenon DEF upd
      <3> QED
        BY <2>1, <2>2, <2>4, <3>6, <3>9, EntriesFacts, Zenon DEF Queue!Replace
    <2> QED
      BY <1>4, <2>3, <2>4, Zenon
  <1> QED
    BY <1>3, <1>4, Zenon DEF sbi_fifo_inplace_update

\* The fields keep their bounds and no cell is read that was not stored.
THEOREM FifoTypes == FifoSpec => []FifoTypeOK
PROOF
  <1>1. sbi_fifo_init => FifoTypeOK
    BY DEF sbi_fifo_init, FifoTypeOK
  <1>2. FifoTypeOK /\ [FifoNext]_fifo => FifoTypeOK'
    <2> SUFFICES ASSUME FifoTypeOK, [FifoNext]_fifo PROVE FifoTypeOK'
      BY Zenon
    <2>1. CASE UNCHANGED fifo
      BY <2>1, Zenon DEF fifo, FifoTypeOK
    <2>2. CASE FifoNext
      BY <2>2, EnqueueFacts, DequeueFacts, ResetFacts, UpdateFacts, Zenon DEF FifoNext
    <2> QED
      BY <2>1, <2>2, Zenon
  <1> QED
    BY <1>1, <1>2, PTL DEF FifoSpec

\* sbi_fifo is a bounded first-in first-out queue.
THEOREM FifoRefinement == FifoSpec => IsBoundedQueue
PROOF
  <1>1. sbi_fifo_init => Queue!Init
    <2> SUFFICES ASSUME sbi_fifo_init PROVE Queue!Init
      BY Zenon
    <2>1. Entries = <<>>
      BY DEF sbi_fifo_init, Entries
    <2> QED
      BY <2>1, Zenon DEF sbi_fifo_init, Queue!Init
  <1>2. FifoTypeOK /\ [FifoNext]_fifo => [Queue!Next]_<<Entries, result>>
    <2> SUFFICES ASSUME FifoTypeOK, [FifoNext]_fifo PROVE [Queue!Next]_<<Entries, result>>
      BY Zenon
    <2>1. CASE UNCHANGED fifo
      BY <2>1, Zenon DEF fifo, Entries
    <2>2. CASE FifoNext
      <3>1. Queue!Next
        BY <2>2, EnqueueFacts, DequeueFacts, ResetFacts, UpdateFacts, Zenon DEF FifoNext, Queue!Next
      <3> QED
        BY <3>1, Zenon
    <2> QED
      BY <2>1, <2>2, Zenon
  <1> QED
    BY <1>1, <1>2, FifoTypes, PTL DEF FifoSpec, IsBoundedQueue, Queue!Spec

-----------------------------------------------------------------------------
\* The struct is as the last completed function left it.
Settled == seen = [queue |-> queue, avail |-> avail, tail |-> tail]

\* What the struct is when a function has o left to do, given how the last
\* completed function left it.
Midway(o) ==
  \/ o \in {None, Done} /\ Settled
  \/ /\ o = <<"avail">>
     /\ seen.avail # Size /\ avail = seen.avail /\ tail = seen.tail
     /\ \E d \in Data : queue = [seen.queue EXCEPT ![Wrap(seen.tail + seen.avail)] = d]
  \/ /\ o = <<"tail", seen.queue[seen.tail]>>
     /\ seen.avail # 0 /\ avail = seen.avail - 1 /\ tail = seen.tail
     /\ queue = seen.queue
  \/ o = <<"reset_tail">> /\ avail = 0 /\ tail = seen.tail /\ queue = seen.queue
  \/ o = <<"memset">> /\ avail = 0 /\ tail = 0 /\ queue = seen.queue

\* Only the hart that holds the lock is in a function; it has done what its op
\* says since the last completed one, and it lets go only when it is done.
LockedInv ==
  /\ op = [h \in Harts |-> op[h]]
  /\ seen = [queue |-> seen.queue, avail |-> seen.avail, tail |-> seen.tail]
  /\ \A h \in Harts : h \notin Holders => op[h] = None
  /\ \A h \in Harts : pc[h] = "release" => op[h] = Done
  /\ \A h \in Holders : Midway(op[h])
  /\ Holders = {} => Settled

\* What the lock sees of a step of the harts is a step of the lock.
LEMMA LockedStepsTheLock ==
  ASSUME [LockedNext]_allvars
  PROVE  [Next]_vars
PROOF
  <1>1. CASE UNCHANGED allvars
    BY <1>1, Zenon DEF allvars
  <1>2. ASSUME NEW h \in Harts, Acquire(h) PROVE Next
    BY <1>2, Zenon DEF Acquire, Next
  <1>3. ASSUME NEW h \in Harts, Work(h) PROVE [Next]_vars
    BY <1>3, Zenon DEF Work, EnqueueEntry, EnqueueCount, DequeueEntry, DequeueTail, ResetCount,
                ResetTail, ResetMemory, Update, Continues, Returns, Release, Leave, Next
  <1> QED
    BY <1>1, <1>2, <1>3, Zenon DEF LockedNext

\* Taking or waiting for the lock happens between functions.
LEMMA AcquireFacts ==
  ASSUME LockedInv, TypeOK, MutualExclusion', NEW h \in Harts, Acquire(h)
  PROVE  LockedInv' /\ UNCHANGED <<seen, result>>
PROOF
  <1>1. UNCHANGED <<queue, avail, tail, result, seen, op>>
    BY Zenon DEF Acquire, shared, fifo
  <1>2. h \notin Holders /\ (Holders' = Holders \/ Holders' = Holders \cup {h})
    BY Zenon DEF Acquire, spin_lock, Spin, GoTo, At, Holders, TypeOK
  <1>3. \A g \in Harts : g # h => pc'[g] = pc[g]
    BY Zenon DEF Acquire, spin_lock, Spin, GoTo, At, TypeOK
  <1>4. pc'[h] # "release"
    BY Zenon DEF Acquire, spin_lock, Spin, GoTo, At, TypeOK
  <1>5. Settled' <=> Settled
    BY <1>1, Zenon DEF Settled
  <1>6. \A o : Midway(o)' <=> Midway(o)
    BY <1>1, <1>5, Zenon DEF Midway
  <1>7. op[h] = None
    BY <1>2, Zenon DEF LockedInv
  <1>8. ASSUME NEW g \in Holders' PROVE Midway(op[g])'
    <2>1. CASE g \in Holders
      BY <1>1, <1>6, <2>1, Zenon DEF LockedInv
    <2>2. CASE g \notin Holders
      <3>1. g = h
        BY <1>2, <2>2, Zenon
      <3>2. Holders = {}
        BY <1>2, <1>8, <3>1, <2>2, Zenon DEF MutualExclusion
      <3> QED
        BY <1>1, <1>5, <1>7, <3>1, <3>2, Zenon DEF LockedInv, Midway
    <2> QED
      BY <2>1, <2>2, Zenon
  <1>9. Holders' = {} => Settled'
    BY <1>2, <1>5, Zenon DEF LockedInv
  <1>10. \A g \in Harts : g \notin Holders' => op'[g] = None
    BY <1>1, <1>2, Zenon DEF LockedInv
  <1>11. \A g \in Harts : pc'[g] = "release" => op'[g] = Done
    BY <1>1, <1>3, <1>4, Zenon DEF LockedInv
  <1> QED
    BY <1>1, <1>8, <1>9, <1>10, <1>11, Zenon DEF LockedInv

\* The lock's holder may go on to any op that says what the struct is then.
LEMMA HolderGoesOn ==
  ASSUME LockedInv, MutualExclusion, UNCHANGED vars,
         NEW h \in Holders, NEW o, op' = [op EXCEPT ![h] = o],
         Midway(o)', pc[h] = "release" => o = Done,
         seen' = [queue |-> seen'.queue, avail |-> seen'.avail, tail |-> seen'.tail]
  PROVE  LockedInv'
PROOF
  <1>1. Holders' = Holders /\ Holders = {h} /\ h \in Harts
    BY Zenon DEF Holders, vars, MutualExclusion
  <1>2. op'[h] = o /\ \A g \in Harts : g # h => op'[g] = op[g]
    BY <1>1, Zenon DEF LockedInv
  <1>3. op' = [g \in Harts |-> op'[g]]
    BY <1>1, Zenon DEF LockedInv
  <1>4. \A g \in Harts : g \notin Holders' => op'[g] = None
    BY <1>1, <1>2, Zenon DEF LockedInv
  <1>5. \A g \in Harts : pc'[g] = "release" => op'[g] = Done
    BY <1>1, <1>2, Zenon DEF LockedInv, vars
  <1>6. \A g \in Holders' : Midway(op[g])'
    BY <1>1, <1>2, Zenon
  <1> QED
    BY <1>1, <1>3, <1>4, <1>5, <1>6, Zenon DEF LockedInv

\* A function that returns leaves the struct settled.
LEMMA ReturnsFacts ==
  ASSUME LockedInv, MutualExclusion, NEW h \in Holders, NEW r, Returns(h, r)
  PROVE  /\ LockedInv'
         /\ result' = r /\ seen'.queue = queue' /\ seen'.avail = avail' /\ seen'.tail = tail'
PROOF
  <1>1. /\ result' = r /\ seen'.queue = queue' /\ seen'.avail = avail' /\ seen'.tail = tail'
        /\ op' = [op EXCEPT ![h] = Done]
        /\ seen' = [queue |-> seen'.queue, avail |-> seen'.avail, tail |-> seen'.tail]
        /\ UNCHANGED vars
    BY Zenon DEF Returns
  <1>2. Midway(Done)'
    BY Zenon DEF Returns, Midway, Settled
  <1> QED
    BY <1>1, <1>2, HolderGoesOn, Zenon

\* A function that goes on has changed nothing that another one has seen.
LEMMA ContinuesFacts ==
  ASSUME LockedInv, MutualExclusion, NEW h \in Holders, NEW o, Continues(h, o),
         Midway(o)', pc[h] # "release"
  PROVE  LockedInv' /\ UNCHANGED <<seen, result>>
PROOF
  <1>1. /\ op' = [op EXCEPT ![h] = o] /\ UNCHANGED vars /\ UNCHANGED <<seen, result>>
        /\ seen' = [queue |-> seen'.queue, avail |-> seen'.avail, tail |-> seen'.tail]
    BY Zenon DEF Continues, LockedInv
  <1> QED
    BY <1>1, HolderGoesOn, Zenon

\* What each op says, with the ops told apart.
LEMMA OpFacts ==
  ASSUME LockedInv, NEW h \in Harts, op[h] # None
  PROVE  /\ h \in Holders
         /\ op[h] # Done => pc[h] # "release"
         /\ op[h] = Done => Settled
         /\ op[h] = <<"avail">> =>
              /\ seen.avail # Size /\ avail = seen.avail /\ tail = seen.tail
              /\ \E d \in Data : queue = [seen.queue EXCEPT ![Wrap(seen.tail + seen.avail)] = d]
         /\ op[h][1] = "tail" =>
              /\ op[h] = <<"tail", seen.queue[seen.tail]>>
              /\ seen.avail # 0 /\ avail = seen.avail - 1 /\ tail = seen.tail
              /\ queue = seen.queue
         /\ op[h] = <<"reset_tail">> => avail = 0 /\ tail = seen.tail /\ queue = seen.queue
         /\ op[h] = <<"memset">> => avail = 0 /\ tail = 0 /\ queue = seen.queue
PROOF
  <1>1. h \in Holders /\ Midway(op[h])
    BY Zenon DEF LockedInv
  <1>2. op[h] # Done => pc[h] # "release"
    BY Zenon DEF LockedInv
  <1> QED
    BY <1>1, <1>2 DEF Midway, None, Done

\* A step inside a function changes nothing that is seen, or is the whole
\* function on the struct as the last one left it.
LEMMA WorkFacts ==
  ASSUME LockedInv, TypeOK, MutualExclusion, NEW h \in Harts, Work(h)
  PROVE  LockedInv' /\ [Atomic!FifoNext]_(Atomic!fifo)
PROOF
  <1> DEFINE Goal == LockedInv' /\ [Atomic!FifoNext]_(Atomic!fifo)
  <1>1. ASSUME Begins(h)
        PROVE  h \in Holders /\ pc[h] # "release" /\ Settled
    <2>1. h \in Holders /\ pc[h] # "release" /\ op[h] = None
      BY <1>1, Zenon DEF Begins, At, Holders
    <2>2. Midway(<<"none">>)
      BY <2>1, Zenon DEF LockedInv, None
    <2> QED
      BY <2>1, <2>2, Zenon DEF Midway
  <1>2. Settled => queue = seen.queue /\ avail = seen.avail /\ tail = seen.tail
    BY DEF Settled
  <1>3. UNCHANGED <<seen, result>> => UNCHANGED Atomic!fifo
    BY Zenon DEF Atomic!fifo
  <1>4. ASSUME NEW d \in Data, EnqueueEntry(h, d) PROVE Goal
    <2>1. Begins(h)
      BY <1>4, Zenon DEF EnqueueEntry
    <2>2. CASE is_full /\ UNCHANGED <<queue, avail, tail>> /\ Returns(h, <<"ENOSPC">>)
      <3>1. Atomic!sbi_fifo_enqueue(d)
        BY <1>1, <1>2, <2>1, <2>2, ReturnsFacts, Zenon
           DEF Atomic!sbi_fifo_enqueue, is_full, Atomic!is_full
      <3> QED
        BY <1>1, <2>1, <2>2, <3>1, ReturnsFacts, Zenon DEF Atomic!FifoNext
    <2>3. CASE /\ ~is_full /\ Store(Wrap(tail + avail), d) /\ UNCHANGED <<avail, tail>>
               /\ Continues(h, <<"avail">>)
      <3>1. Midway(<<"avail">>)'
        BY <1>1, <1>2, <2>1, <2>3, Zenon DEF Midway, Store, is_full, Continues
      <3> QED
        BY <1>1, <1>3, <2>1, <2>3, <3>1, ContinuesFacts, Zenon
    <2> QED
      BY <1>4, <2>2, <2>3, Zenon DEF EnqueueEntry
  <1>5. ASSUME EnqueueCount(h) PROVE Goal
    <2>1. op[h] = <<"avail">> /\ op[h] # None /\ Returns(h, <<"ok">>)
      BY <1>5 DEF EnqueueCount, None
    <2>2. PICK d \in Data : queue = [seen.queue EXCEPT ![Wrap(seen.tail + seen.avail)] = d]
      BY <2>1, OpFacts, Zenon
    <2>3. h \in Holders /\ seen.avail # Size /\ avail = seen.avail /\ tail = seen.tail
      BY <2>1, OpFacts, Zenon
    <2>4. Atomic!sbi_fifo_enqueue(d)
      BY <1>5, <2>1, <2>2, <2>3, ReturnsFacts, Zenon
         DEF EnqueueCount, Atomic!sbi_fifo_enqueue, Atomic!is_full, Atomic!Store, Atomic!Wrap, Wrap
    <2> QED
      BY <2>1, <2>3, <2>4, ReturnsFacts, Zenon DEF Atomic!FifoNext
  <1>6. ASSUME DequeueEntry(h) PROVE Goal
    <2>1. Begins(h)
      BY <1>6, Zenon DEF DequeueEntry
    <2>2. CASE is_empty /\ UNCHANGED <<queue, avail, tail>> /\ Returns(h, <<"ENOENT">>)
      <3>1. Atomic!sbi_fifo_dequeue
        BY <1>1, <1>2, <2>1, <2>2, ReturnsFacts, Zenon
           DEF Atomic!sbi_fifo_dequeue, is_empty, Atomic!is_empty
      <3> QED
        BY <1>1, <2>1, <2>2, <3>1, ReturnsFacts, Zenon DEF Atomic!FifoNext
    <2>3. CASE /\ ~is_empty /\ avail' = avail - 1 /\ UNCHANGED <<queue, tail>>
               /\ Continues(h, <<"tail", queue[tail]>>)
      <3>1. Midway(<<"tail", queue[tail]>>)'
        BY <1>1, <1>2, <2>1, <2>3, Zenon DEF Midway, is_empty, Continues
      <3> QED
        BY <1>1, <1>3, <2>1, <2>3, <3>1, ContinuesFacts, Zenon
    <2> QED
      BY <1>6, <2>2, <2>3, Zenon DEF DequeueEntry
  <1>7. ASSUME DequeueTail(h) PROVE Goal
    <2>1. op[h][1] = "tail" /\ op[h] # None /\ Returns(h, <<"ok", op[h][2]>>)
      BY <1>7 DEF DequeueTail, None
    <2>2. /\ h \in Holders /\ op[h][2] = seen.queue[seen.tail]
          /\ seen.avail # 0 /\ avail = seen.avail - 1 /\ tail = seen.tail /\ queue = seen.queue
      BY <2>1, OpFacts
    <2>3. Atomic!sbi_fifo_dequeue
      BY <1>7, <2>1, <2>2, ReturnsFacts, Zenon
         DEF DequeueTail, Atomic!sbi_fifo_dequeue, Atomic!is_empty, Atomic!Wrap, Wrap
    <2> QED
      BY <2>1, <2>2, <2>3, ReturnsFacts, Zenon DEF Atomic!FifoNext
  <1>8. ASSUME ResetCount(h) PROVE Goal
    <2>1. Begins(h) /\ Midway(<<"reset_tail">>)'
      BY <1>1, <1>2, <1>8, Zenon DEF ResetCount, Midway, Continues
    <2> QED
      BY <1>1, <1>3, <1>8, <2>1, ContinuesFacts, Zenon DEF ResetCount
  <1>9. ASSUME ResetTail(h) PROVE Goal
    <2>1. /\ h \in Holders /\ pc[h] # "release"
          /\ avail = 0 /\ tail = seen.tail /\ queue = seen.queue
      BY <1>9, OpFacts DEF ResetTail, None, Done
    <2>2. Midway(<<"memset">>)'
      BY <1>9, <2>1, Zenon DEF ResetTail, Midway, Continues
    <2> QED
      BY <1>3, <1>9, <2>1, <2>2, ContinuesFacts, Zenon DEF ResetTail
  <1>10. ASSUME ResetMemory(h) PROVE Goal
    <2>1. h \in Holders /\ avail = 0 /\ tail = 0 /\ Returns(h, <<"ok">>)
      BY <1>10, OpFacts DEF ResetMemory, None
    <2>2. Atomic!sbi_fifo_reset
      BY <1>10, <2>1, ReturnsFacts, Zenon DEF ResetMemory, Atomic!sbi_fifo_reset
    <2> QED
      BY <2>1, <2>2, ReturnsFacts, Zenon DEF Atomic!FifoNext
  <1>11. ASSUME NEW S \in SUBSET Data, NEW d \in Data, Update(h, S, d) PROVE Goal
    <2>1. Begins(h) /\ sbi_fifo_inplace_update(S, d) /\ Returns(h, result')
      BY <1>11, Zenon DEF Update
    <2>2. /\ h \in Holders /\ LockedInv' /\ queue = seen.queue /\ avail = seen.avail /\ tail = seen.tail
          /\ seen'.queue = queue' /\ seen'.avail = avail' /\ seen'.tail = tail'
      BY <1>1, <1>2, <2>1, ReturnsFacts, Zenon
    <2>3. Atomic!sbi_fifo_inplace_update(S, d)
      BY <2>1, <2>2, Zenon DEF sbi_fifo_inplace_update, Atomic!sbi_fifo_inplace_update,
                        Store, Atomic!Store, Wrap, Atomic!Wrap
    <2> QED
      BY <2>2, <2>3, Zenon DEF Atomic!FifoNext
  <1>12. ASSUME Release(h) PROVE Goal
    <2>1. /\ op[h] = Done /\ pc' = [pc EXCEPT ![h] = "release"]
          /\ UNCHANGED <<queue, avail, tail, result, seen, op>>
      BY <1>12, Zenon DEF Release, spin_unlock, GoTo, shared, fifo
    <2>2. Holders' = Holders
      BY <1>12, <2>1, Zenon DEF Release, spin_unlock, At, Holders, TypeOK
    <2>3. Settled' <=> Settled
      BY <2>1, Zenon DEF Settled
    <2>4. \A g \in Holders : Midway(op[g])'
      BY <2>1, <2>3, Zenon DEF LockedInv, Midway
    <2>5. \A g \in Harts : pc'[g] = "release" => op'[g] = Done
      BY <2>1, Zenon DEF LockedInv, TypeOK
    <2> QED
      BY <1>3, <2>1, <2>2, <2>3, <2>4, <2>5, Zenon DEF LockedInv
  <1>13. ASSUME Leave(h) PROVE Goal
    <2>1. /\ pc[h] = "release" /\ pc' = [pc EXCEPT ![h] = "idle"] /\ op' = [op EXCEPT ![h] = None]
          /\ UNCHANGED <<queue, avail, tail, result, seen>>
      BY <1>13, Zenon DEF Leave, StoreRelease, At, GoTo, shared, fifo
    <2>2. Holders = {h} /\ Holders' = {}
      BY <2>1 DEF Holders, MutualExclusion, TypeOK
    <2>3. Settled'
      <3>1. op[h] = Done /\ Midway(op[h])
        BY <2>1, <2>2, Zenon DEF LockedInv
      <3> QED
        BY <2>1, <3>1 DEF Midway, Done, Settled
    <2>4. \A g \in Harts : op'[g] = None
      BY <2>1, <2>2, Zenon DEF LockedInv
    <2>5. \A g \in Harts : pc'[g] # "release"
      BY <2>1, <2>2, Zenon DEF Holders, TypeOK
    <2> QED
      BY <1>3, <2>1, <2>2, <2>3, <2>4, <2>5, Zenon DEF LockedInv
  <1> QED
    BY <1>4, <1>5, <1>6, <1>7, <1>8, <1>9, <1>10, <1>11, <1>12, <1>13, Zenon DEF Work

\* The functions of harts that share a fifo do not mix: each takes effect at
\* once on the struct as the one before left it, for any number of harts that
\* the tickets can tell apart, any size and any data.
THEOREM LockedFunctionsAreAtomic == LockedSpec => FunctionsAreAtomic
PROOF
  <1> DEFINE Inv == TypeOK /\ TicketsInLine /\ LockedInv
  <1>1. LockedInit => Inv /\ Atomic!sbi_fifo_init
    <2> SUFFICES ASSUME LockedInit PROVE Inv /\ Atomic!sbi_fifo_init
      BY Zenon
    <2>1. TypeOK /\ TicketsInLine
      BY LineInit, Zenon DEF LockedInit
    <2>2. Holders = {} /\ (\A h \in Harts : pc[h] # "release")
      BY Zenon DEF LockedInit, Init, Holders
    <2>3. LockedInv
      BY <2>2, Zenon DEF LockedInit, LockedInv, Settled
    <2> QED
      BY <2>1, <2>3, Zenon DEF LockedInit, sbi_fifo_init, Atomic!sbi_fifo_init
  <1>2. ASSUME Inv, [LockedNext]_allvars
        PROVE  Inv' /\ [Atomic!FifoNext]_(Atomic!fifo)
    <2>1. TypeOK' /\ TicketsInLine'
      BY <1>2, LockedStepsTheLock, LineStep, Zenon
    <2>2. MutualExclusion /\ MutualExclusion'
      <3>1. MutualExclusion
        BY <1>2, LineExcludes, Zenon
      <3>2. MutualExclusion'
        BY <2>1, Zenon DEF TicketsInLine, MutualExclusion, Holders, Active
      <3> QED
        BY <3>1, <3>2, Zenon
    <2>3. CASE UNCHANGED allvars
      <3>1. UNCHANGED <<pc, queue, avail, tail, result, seen, op>>
        BY <2>3, Zenon DEF allvars, vars, shared, fifo
      <3>2. Holders' = Holders /\ (Settled' <=> Settled)
        BY <3>1, Zenon DEF Holders, Settled
      <3>3. \A g \in Holders : Midway(op[g])'
        BY <1>2, <3>1, <3>2, Zenon DEF LockedInv, Midway
      <3> QED
        BY <1>2, <2>1, <3>1, <3>2, <3>3, Zenon DEF LockedInv, Atomic!fifo
    <2>4. ASSUME NEW h \in Harts, Acquire(h)
          PROVE  Inv' /\ [Atomic!FifoNext]_(Atomic!fifo)
      BY <1>2, <2>1, <2>2, <2>4, AcquireFacts, Zenon DEF Atomic!fifo
    <2>5. ASSUME NEW h \in Harts, Work(h)
          PROVE  Inv' /\ [Atomic!FifoNext]_(Atomic!fifo)
      BY <1>2, <2>1, <2>2, <2>5, WorkFacts, Zenon
    <2> QED
      BY <1>2, <2>3, <2>4, <2>5, Zenon DEF LockedNext
  <1> QED
    BY <1>1, <1>2, PTL DEF LockedSpec, FunctionsAreAtomic, Atomic!FifoSpec

=============================================================================
