---------------------------- MODULE RingBufferStream ----------------------------
(***************************************************************************)
(* base/ring_buffer_stream.h: a producer-consumer stream over a ring,      *)
(* guarded by one mutex and two condition variables.                       *)
(*                                                                         *)
(* A step of a thread is one critical section of the code: one iteration   *)
(* of the loop of Write or Read, a whole nonblocking call, or one of the   *)
(* three statements of Close. A thread that waits on a condition variable  *)
(* has pc "wait"; a notification, or a spurious wakeup, puts it back to    *)
(* "loop", where it competes for the mutex for its next iteration.         *)
(***************************************************************************)
EXTENDS Integers, Sequences

CONSTANTS
  Writers,      \* threads that call Write and WriteNonblocking
  Readers,      \* threads that call Read and ReadNonblocking
  Closers,      \* threads that call Close
  Element,      \* what the stream carries
  Payloads,     \* the sequences of elements a writer passes to one call
  MaxRead,      \* the longest destination a reader passes to one call
  Capacities,   \* the sizes Reserve is called with
  SizeModulus   \* size_type is an unsigned integer modulo this number

ASSUME ThreadsAssumption ==
  /\ Writers \cap Readers = {}
  /\ Writers \cap Closers = {}
  /\ Readers \cap Closers = {}

ASSUME SizeAssumption == SizeModulus \in Nat /\ SizeModulus > 0

ASSUME DataAssumption ==
  /\ \A data \in Payloads : data \in Seq(Element)
  /\ MaxRead \in Nat
  /\ Capacities \subseteq 1..(SizeModulus - 1)

VARIABLES
  ring,           \* buffer_, size_, read_index_ and write_index_
  is_open,
  pc,
  call_capacity,  \* the local `capacity` of the Write call in progress
  todo,           \* the part of new_data the Write call has yet to write
  want,           \* the remaining_size of the Read call in progress
  got             \* what the Read call has put into its destination so far

vars == <<ring, is_open, pc, call_capacity, todo, want, got>>

Threads == Writers \cup Readers \cup Closers

--------------------------------------------------------------------------------
(* The ring.                                                               *)

Smaller(a, b) == IF a <= b THEN a ELSE b

\* Subtraction of size_type wraps around below zero.
Minus(a, b) == IF b <= a THEN a - b ELSE SizeModulus - (b - a)

\* Mutant: the index that reaches the end stays there.
AdvanceUnwarped(capacity, index, advance) == index + advance

AdvanceWarped(capacity, index, advance) ==
  IF index + advance >= capacity THEN 0 ELSE index + advance

\* One memcpy into the storage at write_index.
WriteContinuous(r, data) ==
  [capacity |-> r.capacity,
   slots |-> [k \in DOMAIN r.slots |->
                IF k \in r.write_index .. (r.write_index + Len(data) - 1)
                THEN data[k - r.write_index + 1] ELSE r.slots[k]],
   size |-> r.size + Len(data),
   read_index |-> r.read_index,
   write_index |-> AdvanceWarped(r.capacity, r.write_index, Len(data))]

\* Mutant: the part after the end repeats the begin of the data.
WriteWrappedFromBegin(r, data) ==
  LET head == Smaller(Len(data), Minus(r.capacity, r.write_index))
      first == WriteContinuous(r, SubSeq(data, 1, head))
  IN WriteContinuous(first, SubSeq(data, 1, Len(data) - head))

WriteWrapped(r, data) ==
  LET head == Smaller(Len(data), Minus(r.capacity, r.write_index))
      first == WriteContinuous(r, SubSeq(data, 1, head))
  IN IF head # Len(data)
     THEN WriteContinuous(first, SubSeq(data, head + 1, Len(data)))
     ELSE first

\* One memcpy out of the storage at read_index: what it copies ...
CopyContinuous(r, n) == [i \in 1..n |-> r.slots[r.read_index + i - 1]]

\* ... and the ring it leaves behind.
ReadContinuous(r, n) ==
  [capacity |-> r.capacity,
   slots |-> r.slots,
   size |-> r.size - n,
   read_index |-> AdvanceWarped(r.capacity, r.read_index, n),
   write_index |-> r.write_index]

ReadHead(r, n) == Smaller(n, Minus(r.capacity, r.read_index))

ReadWrapped(r, n) ==
  LET head == ReadHead(r, n)
      first == ReadContinuous(r, head)
  IN IF head # n THEN ReadContinuous(first, n - head) ELSE first

CopyWrapped(r, n) ==
  LET head == ReadHead(r, n)
  IN IF head # n
     THEN CopyContinuous(r, head)
            \o CopyContinuous(ReadContinuous(r, head), n - head)
     ELSE CopyContinuous(r, n)

--------------------------------------------------------------------------------
(* Condition variables.                                                    *)

Waiting(S) == {t \in S : pc[t] = "wait"}

\* The values pc may take when the caller, left at `to`, notifies one of S.
NotifyOne(S, caller, to) ==
  LET moved == [pc EXCEPT ![caller] = to]
  IN IF Waiting(S) = {} THEN {moved}
     ELSE {[moved EXCEPT ![t] = "loop"] : t \in Waiting(S)}

\* wait() may return without any notification.
SpuriousWakeup(t) ==
  /\ pc[t] = "wait"
  /\ pc' = [pc EXCEPT ![t] = "loop"]
  /\ UNCHANGED <<ring, is_open, call_capacity, todo, want, got>>

--------------------------------------------------------------------------------
Init ==
  /\ ring = [capacity |-> 0, slots |-> [k \in {} |-> 0], size |-> 0,
             read_index |-> 0, write_index |-> 0]
  /\ is_open = TRUE
  /\ pc = [t \in Threads |-> "idle"]
  /\ call_capacity = [w \in Writers |-> 0]
  /\ todo = [w \in Writers |-> <<>>]
  /\ want = [r \in Readers |-> 0]
  /\ got = [r \in Readers |-> <<>>]

\* vector::resize keeps the common prefix and value-initialises the rest;
\* size_ and the indices stay as they are.
Reserve(n) ==
  /\ \E filler \in Element :
       ring' = [capacity |-> n,
                slots |-> [k \in 0..(n - 1) |->
                             IF k \in DOMAIN ring.slots
                             THEN ring.slots[k] ELSE filler],
                size |-> ring.size,
                read_index |-> ring.read_index,
                write_index |-> ring.write_index]
  /\ UNCHANGED <<is_open, pc, call_capacity, todo, want, got>>

\* Write: the capacity is read once, before the mutex is taken.
BeginWrite(w, data) ==
  /\ pc[w] = "idle"
  /\ call_capacity' = [call_capacity EXCEPT ![w] = ring.capacity]
  /\ todo' = [todo EXCEPT ![w] = data]
  /\ pc' = [pc EXCEPT ![w] = IF data = <<>> THEN "idle" ELSE "loop"]
  /\ UNCHANGED <<ring, is_open, want, got>>

WriteChunk(w) ==
  Smaller(Len(todo[w]), Minus(call_capacity[w], ring.size))

WriteClosed(w) ==
  /\ pc[w] = "loop"
  /\ ~is_open
  /\ pc' = [pc EXCEPT ![w] = "idle"]
  /\ todo' = [todo EXCEPT ![w] = <<>>]
  /\ UNCHANGED <<ring, is_open, call_capacity, want, got>>

WriteWait(w) ==
  /\ pc[w] = "loop"
  /\ is_open
  /\ WriteChunk(w) = 0
  /\ pc' = [pc EXCEPT ![w] = "wait"]
  /\ UNCHANGED <<ring, is_open, call_capacity, todo, want, got>>

\* Mutant: no reader is notified.
WriteSomeSilently(w) ==
  LET n == WriteChunk(w)
  IN /\ pc[w] = "loop"
     /\ is_open
     /\ n # 0
     /\ ring' = WriteWrapped(ring, SubSeq(todo[w], 1, n))
     /\ todo' = [todo EXCEPT ![w] = SubSeq(todo[w], n + 1, Len(todo[w]))]
     /\ pc' = [pc EXCEPT ![w] = IF n = Len(todo[w]) THEN "idle" ELSE "loop"]
     /\ UNCHANGED <<is_open, call_capacity, want, got>>

WriteSome(w) ==
  LET n == WriteChunk(w)
  IN /\ pc[w] = "loop"
     /\ is_open
     /\ n # 0
     /\ ring' = WriteWrapped(ring, SubSeq(todo[w], 1, n))
     /\ todo' = [todo EXCEPT ![w] = SubSeq(todo[w], n + 1, Len(todo[w]))]
     /\ pc' \in NotifyOne(Readers, w,
                          IF n = Len(todo[w]) THEN "idle" ELSE "loop")
     /\ UNCHANGED <<is_open, call_capacity, want, got>>

\* Notifies a reader even when nothing was written.
WriteNonblocking(w, data) ==
  LET n == Smaller(Len(data), Minus(ring.capacity, ring.size))
  IN /\ pc[w] = "idle"
     /\ is_open
     /\ ring' = IF n # 0 THEN WriteWrapped(ring, SubSeq(data, 1, n)) ELSE ring
     /\ pc' \in NotifyOne(Readers, w, "idle")
     /\ UNCHANGED <<is_open, call_capacity, todo, want, got>>

BeginRead(r, n) ==
  /\ pc[r] = "idle"
  /\ want' = [want EXCEPT ![r] = n]
  /\ got' = [got EXCEPT ![r] = <<>>]
  /\ pc' = [pc EXCEPT ![r] = IF n = 0 THEN "idle" ELSE "loop"]
  /\ UNCHANGED <<ring, is_open, call_capacity, todo>>

ReadClosed(r) ==
  /\ pc[r] = "loop"
  /\ ~is_open
  /\ pc' = [pc EXCEPT ![r] = "idle"]
  /\ want' = [want EXCEPT ![r] = 0]
  /\ UNCHANGED <<ring, is_open, call_capacity, todo, got>>

ReadWait(r) ==
  /\ pc[r] = "loop"
  /\ is_open
  /\ Smaller(want[r], ring.size) = 0
  /\ pc' = [pc EXCEPT ![r] = "wait"]
  /\ UNCHANGED <<ring, is_open, call_capacity, todo, want, got>>

ReadSome(r) ==
  LET n == Smaller(want[r], ring.size)
  IN /\ pc[r] = "loop"
     /\ is_open
     /\ n # 0
     /\ ring' = ReadWrapped(ring, n)
     /\ got' = [got EXCEPT ![r] = @ \o CopyWrapped(ring, n)]
     /\ want' = [want EXCEPT ![r] = @ - n]
     /\ pc' \in NotifyOne(Writers, r, IF n = want[r] THEN "idle" ELSE "loop")
     /\ UNCHANGED <<is_open, call_capacity, todo>>

\* Notifies a writer only when something was read. What it leaves in the
\* destination when it reads nothing is the caller's old data: no change.
ReadNonblocking(r, size) ==
  LET n == Smaller(size, ring.size)
  IN /\ pc[r] = "idle"
     /\ is_open
     /\ n # 0
     /\ ring' = ReadWrapped(ring, n)
     /\ got' = [got EXCEPT ![r] = CopyWrapped(ring, n)]
     /\ pc' \in NotifyOne(Writers, r, "idle")
     /\ UNCHANGED <<is_open, call_capacity, todo, want>>

\* Close: the flag under the mutex, then the notifications without it.
Close(c) ==
  /\ pc[c] = "idle"
  /\ is_open' = FALSE
  /\ pc' = [pc EXCEPT ![c] = "notify_readers"]
  /\ UNCHANGED <<ring, call_capacity, todo, want, got>>

\* Mutant: no reader is notified.
CloseSilently(c) ==
  /\ pc[c] = "notify_readers"
  /\ pc' = [pc EXCEPT ![c] = "notify_writers"]
  /\ UNCHANGED <<ring, is_open, call_capacity, todo, want, got>>

CloseNotifyReader(c) ==
  /\ pc[c] = "notify_readers"
  /\ pc' \in NotifyOne(Readers, c, "notify_writers")
  /\ UNCHANGED <<ring, is_open, call_capacity, todo, want, got>>

CloseNotifyWriter(c) ==
  /\ pc[c] = "notify_writers"
  /\ pc' \in NotifyOne(Writers, c, "idle")
  /\ UNCHANGED <<ring, is_open, call_capacity, todo, want, got>>

--------------------------------------------------------------------------------
WriterStep(w) ==
  \/ \E data \in Payloads : BeginWrite(w, data) \/ WriteNonblocking(w, data)
  \/ WriteClosed(w) \/ WriteWait(w) \/ WriteSome(w)

ReaderStep(r) ==
  \/ \E n \in 0..MaxRead : BeginRead(r, n) \/ ReadNonblocking(r, n)
  \/ ReadClosed(r) \/ ReadWait(r) \/ ReadSome(r)

CloserStep(c) == Close(c) \/ CloseNotifyReader(c) \/ CloseNotifyWriter(c)

ThreadStep ==
  \/ \E w \in Writers : WriterStep(w) \/ SpuriousWakeup(w)
  \/ \E r \in Readers : ReaderStep(r) \/ SpuriousWakeup(r)
  \/ \E c \in Closers : CloserStep(c)

\* The use the tests make of the class: the owner reserves the storage
\* before it starts the threads.
Configured == ring.capacity # 0

SetUp ==
  /\ ~Configured
  /\ \E n \in Capacities : Reserve(n)

Next == SetUp \/ (Configured /\ ThreadStep)

Spec == Init /\ [][Next]_vars

\* A thread inside a call keeps running; a woken thread gets the mutex.
Finishes(t) ==
  \/ t \in Writers /\ (WriteClosed(t) \/ WriteWait(t) \/ WriteSome(t))
  \/ t \in Readers /\ (ReadClosed(t) \/ ReadWait(t) \/ ReadSome(t))
  \/ t \in Closers /\ (CloseNotifyReader(t) \/ CloseNotifyWriter(t))

FairSpec == Spec /\ \A t \in Threads : WF_vars(Finishes(t))

\* Besides, the consumer calls Read again and again, and so does the producer.
ReadsForever(r) == \E n \in 1..MaxRead : BeginRead(r, n)
WritesForever(w) == \E data \in Payloads : BeginWrite(w, data)

BusySpec ==
  /\ FairSpec
  /\ \A r \in Readers : WF_vars(ReadsForever(r))
  /\ \A w \in Writers : WF_vars(WritesForever(w))

--------------------------------------------------------------------------------
(* Properties.                                                             *)

Ring(n) ==
  [capacity : Nat, slots : [0..(n - 1) -> Element], size : Nat,
   read_index : Nat, write_index : Nat]

\* Every variable has its type. The storage has exactly `capacity` slots, and
\* what a Write or Read call has left fits what it was called with.
TypeOK ==
  /\ ring \in Ring(ring.capacity)
  /\ is_open \in BOOLEAN
  /\ pc \in [Threads -> {"idle", "loop", "wait",
                         "notify_readers", "notify_writers"}]
  /\ call_capacity \in [Writers -> Nat]
  /\ todo \in [Writers -> Seq(Element)]
  /\ want \in [Readers -> 0..MaxRead]
  /\ got \in [Readers -> Seq(Element)]

\* The slot `offset` places after `index` in a storage of `size` slots.
Wrap(size, index, offset) ==
  IF index + offset >= size THEN index + offset - size ELSE index + offset

\* The numbers of a ring describe one run of elements inside the storage.
Consistent(r) ==
  \/ r.capacity = 0 /\ r.size = 0 /\ r.read_index = 0 /\ r.write_index = 0
  \/ /\ r.size <= r.capacity
     /\ r.read_index < r.capacity
     /\ r.write_index < r.capacity
     /\ r.write_index = Wrap(r.capacity, r.read_index, r.size)

\* size_, read_index_ and write_index_ are three separate numbers in the code,
\* updated in up to two parts per call: they always describe one and the same
\* run of elements inside the storage, so that no copy leaves the storage and
\* no unread element is overwritten.
StreamConsistent == Consistent(ring)

\* The elements of a ring, oldest first.
Content(r) == [i \in 1..r.size |-> r.slots[Wrap(r.capacity, r.read_index, i - 1)]]

\* The stream is the bounded first-in first-out queue of BoundedStream: no
\* interleaving of writers, readers and Close loses, repeats or reorders an
\* element, and a closed stream moves none.
Stream == INSTANCE BoundedStream
            WITH capacity <- ring.capacity, pending <- Content(ring),
                 open <- is_open

ImplementsStream == Stream!Spec

\* As long as the stream is open, producers and consumers never wait for each
\* other: when a reader and a writer both wait, some thread holds or competes
\* for the mutex. The two notify_one calls, one per chunk, are enough for this
\* with any number of threads.
NoMutualWait ==
  is_open /\ Waiting(Readers) # {} /\ Waiting(Writers) # {}
    => \E t \in Readers \cup Writers : pc[t] = "loop"

\* Why: a write that fills the stream wakes a reader, a read that empties it
\* wakes a writer, and the woken thread keeps running until it did its part.
FullWakesReader ==
  is_open /\ Waiting(Readers) # {} /\ ring.size = ring.capacity
    => \E r \in Readers : pc[r] = "loop"

\* The same for a read and the writers.
EmptyWakesWriter ==
  is_open /\ Waiting(Writers) # {} /\ ring.size = 0
    => \E w \in Writers : pc[w] = "loop"

\* What the threads inside a call know: the capacity they captured is the
\* current one, they have something left to do, and only a closed stream is
\* being closed.
CallsConsistent ==
  /\ ring.capacity < SizeModulus
  /\ ~Configured => \A t \in Threads : pc[t] = "idle"
  /\ \A w \in Writers :
       /\ pc[w] \in {"idle", "loop", "wait"}
       /\ pc[w] # "idle" => call_capacity[w] = ring.capacity /\ todo[w] # <<>>
  /\ \A r \in Readers :
       /\ pc[r] \in {"idle", "loop", "wait"}
       /\ pc[r] # "idle" => want[r] # 0
  /\ \A c \in Closers :
       /\ pc[c] \in {"idle", "notify_readers", "notify_writers"}
       /\ pc[c] # "idle" => ~is_open

\* The inductive invariants of the proofs.
StreamInv == TypeOK /\ StreamConsistent /\ CallsConsistent
WakeupInv == FullWakesReader /\ EmptyWakesWriter /\ NoMutualWait

\* With one consumer, Read waits only while the stream is empty; with one
\* producer, Write waits only while it is full: the notifications that were
\* sent to nobody, or to a thread that had not run yet, are not missed.
WaitsOnlyForTheOther ==
  is_open => /\ Waiting(Readers) # {} => ring.size = 0
             /\ Waiting(Writers) # {} => ring.size = ring.capacity

\* Close releases the pending calls: once the stream is closed every call
\* in progress returns.
CloseReleases ==
  \A t \in Readers \cup Writers :
    (~is_open /\ pc[t] # "idle") ~> (pc[t] = "idle")

\* A Write call returns as long as the consumer keeps reading, a Read call as
\* long as the producer keeps writing.
CallsReturn ==
  \A t \in Readers \cup Writers : (pc[t] # "idle") ~> (pc[t] = "idle")
================================================================================
