----------------------------- MODULE BoundedQueue -----------------------------
(***************************************************************************)
(* What a caller of sbi_fifo relies on: a queue of at most Size entries,   *)
(* first in first out, in which the first entry of a given set can be      *)
(* replaced where it stands.                                               *)
(***************************************************************************)
EXTENDS Naturals, Sequences

CONSTANTS Data, Size

VARIABLES
  q,            \* the entries, oldest first
  result        \* what the last call returned

Init == q = <<>> /\ result = <<"init">>

Put(d) ==
  \/ /\ Len(q) < Size
     /\ q' = Append(q, d)
     /\ result' = <<"ok">>
  \/ /\ Len(q) = Size
     /\ result' = <<"ENOSPC">>
     /\ q' = q

Get ==
  \/ /\ q # <<>>
     /\ q' = Tail(q)
     /\ result' = <<"ok", Head(q)>>
  \/ /\ q = <<>>
     /\ result' = <<"ENOENT">>
     /\ q' = q

Clear == q' = <<>> /\ result' = <<"ok">>

\* The first entry in S is replaced by d, or only looked at.
Replace(S, d) ==
  \/ \E i \in 1..Len(q) :
       /\ q[i] \in S
       /\ \A j \in 1..(i - 1) : q[j] \notin S
       /\ \/ q' = [q EXCEPT ![i] = d] /\ result' = <<"UPDATED">>
          \/ q' = q /\ result' = <<"SKIP">>
  \/ /\ \A i \in 1..Len(q) : q[i] \notin S
     /\ result' = <<"UNCHANGED">>
     /\ q' = q

Next ==
  \/ \E d \in Data : Put(d)
  \/ Get
  \/ Clear
  \/ \E S \in SUBSET Data, d \in Data : Replace(S, d)

Spec == Init /\ [][Next]_<<q, result>>

=============================================================================
