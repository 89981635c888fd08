------------------------------ MODULE RingBuffer ------------------------------
(***************************************************************************)
(* The ring buffers of base/ that hold the latest samples of a filter:     *)
(* ring_buffer.h, whose storage is in the order of time, and               *)
(* reverse_storage_ring_buffer.h, whose storage is in the reverse order.   *)
(* Both are always full: a push replaces the oldest element.               *)
(***************************************************************************)
EXTENDS Integers, Sequences, SequencesExt

(* The storage is a function on 0 .. size - 1; new elements are T(). *)
Zero == 0

Size(b) == Cardinality(DOMAIN b.data)

(* The elements of the storage from one index to another, as a span. *)
Span(b, first, last) == [i \in 1 .. last - first + 1 |-> b.data[first + i - 1]]

(* The last elements of a sequence, no more than count. *)
LastOf(elements, count) ==
    IF Len(elements) > count
    THEN SubSeq(elements, Len(elements) - count + 1, Len(elements))
    ELSE elements

-------------------------------------------------------------------------------
(* RingBuffer: head is the index of the oldest element, tail that of the   *)
(* newest one.                                                             *)

EmptyBuffer == [data |-> <<>>, head |-> 0, tail |-> 0]

(* resize keeps the elements of the storage and forgets their order. *)
Resize(b, count) ==
    [data |-> [i \in 0 .. count - 1 |->
                  IF i \in DOMAIN b.data THEN b.data[i] ELSE Zero],
     head |-> 0,
     tail |-> IF count = 0 THEN 0 ELSE count - 1]

AdvanceWarped(index, advance, size) ==
    IF index + advance >= size THEN index + advance - size ELSE index + advance

PushBack(b, element) ==
    LET tail == AdvanceWarped(b.tail, 1, Size(b))
    IN  [data |-> [b.data EXCEPT ![tail] = element],
         head |-> AdvanceWarped(b.head, 1, Size(b)),
         tail |-> tail]

(* The storage with these elements, as many as fit, behind the newest one: *)
(* up to the end of the storage first, the rest at its beginning.          *)
Overwritten(b, pushed) ==
    LET room == Size(b) - b.tail - 1
        headSize == IF room < Len(pushed) THEN room ELSE Len(pushed)
    IN  [i \in DOMAIN b.data |->
            IF i \in b.tail + 1 .. b.tail + headSize THEN pushed[i - b.tail]
            ELSE IF i < Len(pushed) - headSize THEN pushed[headSize + i + 1]
            ELSE b.data[i]]

PushBackMultiple(b, elements) ==
    LET pushed == LastOf(elements, Size(b))
    IN  [data |-> Overwritten(b, pushed),
         head |-> AdvanceWarped(b.head, Len(pushed), Size(b)),
         tail |-> AdvanceWarped(b.tail, Len(pushed), Size(b))]

GetContinuousOldElements(b) == Span(b, b.head, Size(b) - 1)
GetContinuousNewElements(b) == Span(b, 0, b.head - 1)

-------------------------------------------------------------------------------
(* ReverseStorageRingBuffer: tail is the index the next element goes to.   *)

ReverseResize(count) ==
    [data |-> [i \in 0 .. count - 1 |-> Zero], tail |-> count - 1]

ReversePush(b, element) ==
    [data |-> [b.data EXCEPT ![b.tail] = element],
     tail |-> IF b.tail > 0 THEN b.tail - 1 ELSE Size(b) - 1]

ReversePushMultiple(b, elements) ==
    FoldLeft(ReversePush, b, LastOf(elements, Size(b)))

ReverseNewElements(b) == Span(b, b.tail + 1, Size(b) - 1)
ReverseOldElements(b) == Span(b, 0, b.tail)
===============================================================================
