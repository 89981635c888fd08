----------------------------- MODULE BoundedStream -----------------------------
(***************************************************************************)
(* What RingBufferStream promises its callers, without the ring, the mutex *)
(* and the condition variables: one bounded first-in first-out queue.      *)
(* Writers hand over data in portions, readers take portions from the      *)
(* front, nothing is lost, repeated or reordered, and a closed stream      *)
(* neither accepts nor provides data.                                      *)
(***************************************************************************)
EXTENDS Naturals, Sequences

CONSTANTS Writers, Readers, Element, Payloads

VARIABLES
  capacity,   \* how many elements the stream can hold
  pending,    \* the elements written and not read yet, oldest first
  open,       \* FALSE for good once the stream is closed
  todo,       \* todo[w]: what the Write call of w still has to hand over
  got         \* got[r]: what the last Read call of r has received so far

vars == <<capacity, pending, open, todo, got>>

Init ==
  /\ capacity = 0
  /\ pending = <<>>
  /\ open = TRUE
  /\ todo = [w \in Writers |-> <<>>]
  /\ got = [r \in Readers |-> <<>>]

SetCapacity ==
  /\ pending = <<>>
  /\ capacity' \in Nat
  /\ UNCHANGED <<pending, open, todo, got>>

Submit(w, data) ==
  /\ todo' = [todo EXCEPT ![w] = data]
  /\ UNCHANGED <<capacity, pending, open, got>>

\* The first n elements the writer still has join the end of the queue.
Put(w, n) ==
  /\ open
  /\ n \in 1..Len(todo[w])
  /\ Len(pending) + n <= capacity
  /\ pending' = pending \o SubSeq(todo[w], 1, n)
  /\ todo' = [todo EXCEPT ![w] = SubSeq(todo[w], n + 1, Len(todo[w]))]
  /\ UNCHANGED <<capacity, open, got>>

\* A call that does not wait puts what fits and forgets the rest.
PutPrefix(data, n) ==
  /\ open
  /\ n \in 1..Len(data)
  /\ Len(pending) + n <= capacity
  /\ pending' = pending \o SubSeq(data, 1, n)
  /\ UNCHANGED <<capacity, open, todo, got>>

\* Write gives up only on a closed stream.
Abandon(w) ==
  /\ ~open
  /\ todo' = [todo EXCEPT ![w] = <<>>]
  /\ UNCHANGED <<capacity, pending, open, got>>

StartRead(r) ==
  /\ got' = [got EXCEPT ![r] = <<>>]
  /\ UNCHANGED <<capacity, pending, open, todo>>

\* The n oldest elements move to the reader, after the ones in before.
Take(r, before, n) ==
  /\ open
  /\ n \in 1..Len(pending)
  /\ got' = [got EXCEPT ![r] = before \o SubSeq(pending, 1, n)]
  /\ pending' = SubSeq(pending, n + 1, Len(pending))
  /\ UNCHANGED <<capacity, open, todo>>

CloseStream ==
  /\ open' = FALSE
  /\ UNCHANGED <<capacity, pending, todo, got>>

Next ==
  \/ SetCapacity
  \/ \E w \in Writers :
       \/ \E data \in Payloads : Submit(w, data)
       \/ \E n \in 1..Len(todo[w]) : Put(w, n)
       \/ Abandon(w)
  \/ \E data \in Payloads : \E n \in 1..Len(data) : PutPrefix(data, n)
  \/ \E r \in Readers :
       \/ StartRead(r)
       \/ \E n \in 1..Len(pending), before \in {<<>>, got[r]} :
            Take(r, before, n)
  \/ CloseStream

Spec == Init /\ [][Next]_vars
================================================================================
