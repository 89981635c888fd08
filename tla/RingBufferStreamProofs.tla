------------------------- MODULE RingBufferStreamProofs -------------------------
(***************************************************************************)
(* Theorems about RingBufferStream, for any threads, payloads and          *)
(* capacities: the size and the indices of the ring always agree, readers  *)
(* and writers never wait for each other, and the stream implements the    *)
(* bounded queue of BoundedStream.                                         *)
(*                                                                         *)
(* The first part is the ring as a sequence: a write that fits appends its *)
(* data to the content, a read of what is there takes it from the front.   *)
(* The second establishes StreamInv (types, the ring, what a thread inside *)
(* a call knows), one lemma per step that touches the ring, and then       *)
(* builds the wakeup invariant and the refinement on it.                   *)
(***************************************************************************)
EXTENDS RingBufferStream, SequenceTheorems, TLAPS

--------------------------------------------------------------------------------
(* The ring as a sequence.                                                 *)

\* A position counted around the end of the storage is a slot.
LEMMA WrapStaysInside ==
  ASSUME NEW c \in Nat, NEW index \in Nat, NEW offset \in Nat,
         index < c, offset <= c
  PROVE  Wrap(c, index, offset) \in Nat /\ Wrap(c, index, offset) < c
  BY DEF Wrap

\* Advancing the write index by a part that ends inside the storage.
LEMMA AdvanceIsWrap ==
  ASSUME NEW c \in Nat, NEW first \in Nat, NEW size \in Nat, NEW n \in Nat,
         first < c, size + n <= c, n <= c - Wrap(c, first, size)
  PROVE  AdvanceWarped(c, Wrap(c, first, size), n) = Wrap(c, first, size + n)
  BY DEF Wrap, AdvanceWarped

\* The old elements are not in the part that is written.
LEMMA OldSlotsApart ==
  ASSUME NEW c \in Nat, NEW first \in Nat, NEW size \in Nat, NEW n \in Nat,
         first < c, size + n <= c, n <= c - Wrap(c, first, size),
         NEW i \in Nat, i < size
  PROVE  ~ /\ Wrap(c, first, size) <= Wrap(c, first, i)
           /\ Wrap(c, first, i) < Wrap(c, first, size) + n
  BY DEF Wrap

\* The new elements fill the part that is written, in order.
LEMMA NewSlots ==
  ASSUME NEW c \in Nat, NEW first \in Nat, NEW size \in Nat, NEW n \in Nat,
         first < c, size + n <= c, n <= c - Wrap(c, first, size),
         NEW i \in Nat, i < n
  PROVE  Wrap(c, first, size + i) = Wrap(c, first, size) + i
  BY DEF Wrap

\* The content is a sequence of size_ elements, each in the slot that its
\* distance from read_index names.
LEMMA ContentSeq ==
  ASSUME NEW c \in Nat, c > 0, NEW r \in Ring(c), r.capacity = c, Consistent(r)
  PROVE  /\ Content(r) \in Seq(Element)
         /\ Len(Content(r)) = r.size
         /\ \A i \in 1..r.size :
              /\ Wrap(c, r.read_index, i - 1) \in 0..(c - 1)
              /\ Content(r)[i] = r.slots[Wrap(c, r.read_index, i - 1)]
  <1>1. /\ r.size \in Nat /\ r.read_index \in Nat
        /\ r.read_index < c /\ r.size <= c
        /\ r.slots \in [0..(c - 1) -> Element]
    BY DEF Ring, Consistent
  <1>2. ASSUME NEW i \in 1..r.size
        PROVE  Wrap(c, r.read_index, i - 1) \in 0..(c - 1)
    <2>1. i - 1 \in Nat /\ i - 1 <= c
      BY <1>1
    <2>2. /\ Wrap(c, r.read_index, i - 1) \in Nat
          /\ Wrap(c, r.read_index, i - 1) < c
      BY <1>1, <2>1, WrapStaysInside
    <2> QED
      BY <2>2
  <1>3. Content(r) = [i \in 1..r.size |-> r.slots[Wrap(c, r.read_index, i - 1)]]
    BY DEF Content
  <1>4. Content(r) \in [1..r.size -> Element]
    BY <1>1, <1>2, <1>3
  <1>5. Content(r) \in Seq(Element)
    BY <1>1, <1>4
  <1>6. Len(Content(r)) = r.size
    BY <1>1, <1>4, <1>5, LenProperties
  <1> QED
    BY <1>2, <1>3, <1>5, <1>6

\* What a consistent ring looks like when it is not the unconfigured one.
LEMMA ConsistentParts ==
  ASSUME NEW c \in Nat, c > 0, NEW r \in Ring(c), r.capacity = c
  PROVE  /\ r.size \in Nat /\ r.read_index \in Nat /\ r.write_index \in Nat
         /\ r.slots \in [0..(c - 1) -> Element]
         /\ Consistent(r) <=>
              /\ r.size <= c /\ r.read_index < c /\ r.write_index < c
              /\ r.write_index = Wrap(c, r.read_index, r.size)
  BY DEF Ring, Consistent

\* One memcpy that ends inside the storage appends its data (WriteContinuous).
LEMMA WriteContinuousAppends ==
  ASSUME NEW c \in Nat, c > 0, NEW r \in Ring(c), r.capacity = c, Consistent(r),
         NEW data \in Seq(Element),
         Len(data) <= c - r.write_index, r.size + Len(data) <= c
  PROVE  LET q == WriteContinuous(r, data)
         IN /\ q \in Ring(c) /\ q.capacity = c /\ Consistent(q)
            /\ q.size = r.size + Len(data)
            /\ q.write_index = IF Len(data) = c - r.write_index THEN 0
                               ELSE r.write_index + Len(data)
            /\ Content(q) = Content(r) \o data
  <1> DEFINE q == WriteContinuous(r, data)
  <1>1. /\ r.size \in Nat /\ r.write_index \in Nat /\ r.read_index \in Nat
        /\ r.size <= c /\ r.write_index < c /\ r.read_index < c
        /\ Len(data) \in Nat
        /\ r.slots \in [0..(c - 1) -> Element]
        /\ r.write_index = Wrap(c, r.read_index, r.size)
    BY LenProperties, ConsistentParts
  <1>2. /\ q.capacity = c
        /\ q.size = r.size + Len(data)
        /\ q.read_index = r.read_index
        /\ q.write_index = AdvanceWarped(c, r.write_index, Len(data))
        /\ q.slots = [k \in 0..(c - 1) |->
                        IF k \in r.write_index .. (r.write_index + Len(data) - 1)
                        THEN data[k - r.write_index + 1] ELSE r.slots[k]]
    BY <1>1 DEF WriteContinuous
  <1>3. q.slots \in [0..(c - 1) -> Element]
    <2>1. \A k \in r.write_index .. (r.write_index + Len(data) - 1) :
            data[k - r.write_index + 1] \in Element
      BY <1>1, ElementOfSeq
    <2> QED
      BY <1>1, <1>2, <2>1
  <1>4. AdvanceWarped(c, r.write_index, Len(data)) =
          Wrap(c, r.read_index, r.size + Len(data))
    BY <1>1, AdvanceIsWrap
  <1>5. q \in Ring(c)
    BY <1>1, <1>2, <1>3 DEF WriteContinuous, Ring, AdvanceWarped
  <1>6. Consistent(q)
    <2>1. /\ Wrap(c, r.read_index, r.size + Len(data)) \in Nat
          /\ Wrap(c, r.read_index, r.size + Len(data)) < c
      <3>1. r.size + Len(data) \in Nat
        BY <1>1
      <3> QED
        BY <1>1, <3>1, WrapStaysInside
    <2> QED
      BY <1>1, <1>2, <1>4, <1>5, <2>1, ConsistentParts
  <1>7. ASSUME NEW i \in 1..(r.size + Len(data))
        PROVE  q.slots[Wrap(c, r.read_index, i - 1)] =
                 IF i <= r.size THEN r.slots[Wrap(c, r.read_index, i - 1)]
                 ELSE data[i - r.size]
    <2> DEFINE k == Wrap(c, r.read_index, i - 1)
    <2>0. i - 1 \in Nat /\ i - 1 <= c
      BY <1>1
    <2>1. k \in Nat /\ k < c
      BY <1>1, <2>0, WrapStaysInside
    <2>2. CASE i <= r.size
      <3>1. ~(r.write_index <= k /\ k < r.write_index + Len(data))
        <4>1. i - 1 < r.size
          BY <1>1, <2>2
        <4> QED
          BY <1>1, <2>0, <4>1, OldSlotsApart
      <3> HIDE DEF k
      <3>2. k \in 0..(c - 1) /\ k \notin r.write_index .. (r.write_index + Len(data) - 1)
        BY <1>1, <2>1, <3>1
      <3> QED
        BY <1>2, <2>2, <3>2 DEF k
    <2>3. CASE i > r.size
      <3>1. k = r.write_index + (i - 1 - r.size)
        <4>1. i - 1 - r.size \in Nat /\ i - 1 - r.size < Len(data)
          BY <1>1, <2>3
        <4>2. r.size + (i - 1 - r.size) = i - 1
          BY <1>1
        <4> QED
          BY SMTT(30), <1>1, <4>1, <4>2, NewSlots
      <3> HIDE DEF k
      <3>2. /\ k \in 0..(c - 1)
            /\ k \in r.write_index .. (r.write_index + Len(data) - 1)
            /\ k - r.write_index + 1 = i - r.size
            /\ ~(i <= r.size)
        BY SMTT(30), <1>1, <2>1, <2>3, <3>1
      <3> QED
        BY <1>2, <3>2 DEF k
    <2> QED
      BY <1>1, <2>2, <2>3
  <1>8. Content(q) = Content(r) \o data
    <2> HIDE DEF q
    <2>1. /\ Content(r) \in Seq(Element) /\ Len(Content(r)) = r.size
          /\ \A i \in 1..r.size :
               Content(r)[i] = r.slots[Wrap(c, r.read_index, i - 1)]
      BY ContentSeq
    <2>2. /\ Content(q) \in Seq(Element)
          /\ Len(Content(q)) = r.size + Len(data)
          /\ \A i \in 1..(r.size + Len(data)) :
               Content(q)[i] = q.slots[Wrap(c, r.read_index, i - 1)]
      BY <1>2, <1>5, <1>6, ContentSeq
    <2>3. /\ Content(r) \o data \in Seq(Element)
          /\ Len(Content(r) \o data) = r.size + Len(data)
          /\ \A i \in 1..(r.size + Len(data)) :
               (Content(r) \o data)[i] =
                 IF i <= r.size THEN Content(r)[i] ELSE data[i - r.size]
      <3>1. \A s \in Seq(Element) :
              /\ s \o data \in Seq(Element)
              /\ Len(s \o data) = Len(s) + Len(data)
              /\ \A i \in 1..(Len(s) + Len(data)) :
                   (s \o data)[i] = IF i <= Len(s) THEN s[i] ELSE data[i - Len(s)]
        BY ConcatProperties
      <3> QED
        BY <2>1, <3>1
    <2>4. ASSUME NEW i \in 1..(r.size + Len(data))
          PROVE  Content(q)[i] = (Content(r) \o data)[i]
      <3>1. i <= r.size => i \in 1..r.size
        BY <1>1
      <3> QED
        BY <1>7, <2>1, <2>2, <2>3, <3>1
    <2>5. \A i \in 1..Len(Content(q)) : Content(q)[i] = (Content(r) \o data)[i]
      BY <2>2, <2>4
    <2> QED
      BY <2>2, <2>3, <2>5, SeqEqual
  <1> QED
    BY <1>1, <1>2, <1>5, <1>6, <1>8 DEF AdvanceWarped

\* A write that fits appends its data, wherever the storage ends (WriteWrapped).
LEMMA WriteWrappedAppends ==
  ASSUME NEW c \in Nat, c > 0, SizeModulus \in Nat, c < SizeModulus,
         NEW r \in Ring(c), r.capacity = c, Consistent(r),
         NEW data \in Seq(Element), r.size + Len(data) <= c
  PROVE  LET q == WriteWrapped(r, data)
         IN /\ q \in Ring(c) /\ q.capacity = c /\ Consistent(q)
            /\ q.size = r.size + Len(data)
            /\ Content(q) = Content(r) \o data
  <1> DEFINE head == Smaller(Len(data), Minus(r.capacity, r.write_index))
             a == SubSeq(data, 1, head)
             b == SubSeq(data, head + 1, Len(data))
             first == WriteContinuous(r, a)
  <1>1. /\ r.size \in Nat /\ r.write_index \in Nat /\ r.write_index < c
        /\ Len(data) \in Nat
    BY LenProperties, ConsistentParts
  <1>2. /\ head \in Nat /\ head <= Len(data) /\ head <= c - r.write_index
        /\ head # Len(data) => head = c - r.write_index
    BY <1>1 DEF Smaller, Minus
  <1> HIDE DEF head
  <1>3. /\ a \in Seq(Element) /\ b \in Seq(Element)
        /\ Len(a) = head /\ Len(b) = Len(data) - head
    <2>1. \A i \in 1..Len(data) : data[i] \in Element
      BY ElementOfSeq
    <2>2. /\ \A i \in 1..head : data[i] \in Element
          /\ \A i \in (head + 1)..Len(data) : data[i] \in Element
      BY <1>1, <1>2, <2>1
    <2>3. a \in Seq(Element) /\ Len(a) = IF 1 <= head THEN head - 1 + 1 ELSE 0
      BY <1>2, <2>2, SubSeqProperties
    <2>4. /\ b \in Seq(Element)
          /\ Len(b) = IF head + 1 <= Len(data) THEN Len(data) - (head + 1) + 1 ELSE 0
      BY <1>1, <1>2, <2>2, SubSeqProperties
    <2> QED
      BY <1>1, <1>2, <2>3, <2>4
  <1>4. a \o b = data
    <2>1. head \in (1 - 1)..Len(data) /\ Len(data) \in head..Len(data)
          /\ 1 \in 1..(Len(data) + 1)
      BY <1>1, <1>2
    <2>2. SubSeq(data, 1, head) \o SubSeq(data, head + 1, Len(data))
            = SubSeq(data, 1, Len(data))
      BY <2>1, ConcatAdjacentSubSeq
    <2> QED
      BY <2>2, SubSeqFull
  <1> HIDE DEF a, b
  <1>5. /\ first \in Ring(c) /\ first.capacity = c /\ Consistent(first)
        /\ first.size = r.size + head
        /\ first.write_index = IF head = c - r.write_index THEN 0
                               ELSE r.write_index + head
        /\ Content(first) = Content(r) \o a
    <2>1. Len(a) <= c - r.write_index /\ r.size + Len(a) <= c
      BY <1>1, <1>2, <1>3
    <2> QED
      BY <1>3, <2>1, WriteContinuousAppends
  <1> HIDE DEF first
  <1>6. CASE head = Len(data)
    <2>1. a = data
      BY <1>6, SubSeqFull DEF a
    <2>2. WriteWrapped(r, data) = first
      BY <1>6 DEF WriteWrapped, head, a, first
    <2> QED
      BY <1>5, <1>6, <2>1, <2>2
  <1>7. CASE head # Len(data)
    <2> DEFINE second == WriteContinuous(first, b)
    <2>1. Len(b) <= c - first.write_index /\ first.size + Len(b) <= c
      BY <1>1, <1>2, <1>3, <1>5, <1>7
    <2>2. /\ second \in Ring(c) /\ second.capacity = c /\ Consistent(second)
          /\ second.size = first.size + Len(b)
          /\ Content(second) = Content(first) \o b
      BY <1>3, <1>5, <2>1, WriteContinuousAppends
    <2>3. Content(r) \in Seq(Element)
      BY ContentSeq
    <2>4. Content(second) = Content(r) \o data
      <3>1. (Content(r) \o a) \o b = Content(r) \o (a \o b)
        BY SMTT(30), <1>3, <2>3, ConcatAssociative
      <3> QED
        BY <1>4, <1>5, <2>2, <3>1
    <2>5. WriteWrapped(r, data) = second
      BY <1>7 DEF WriteWrapped, head, a, b, first
    <2> HIDE DEF second
    <2>6. second.size = r.size + Len(data)
      <3>1. second.size = (r.size + head) + (Len(data) - head)
        BY <1>3, <1>5, <2>2
      <3>2. head \in Nat /\ Len(data) \in Nat /\ r.size \in Nat
        BY <1>1, <1>2
      <3> QED
        BY <3>1, <3>2
    <2> QED
      BY <2>2, <2>4, <2>5, <2>6
  <1> QED
    BY <1>6, <1>7

\* Advancing the read index by a part that ends inside the storage.
LEMMA AdvanceRead ==
  ASSUME NEW c \in Nat, NEW first \in Nat, NEW n \in Nat,
         first < c, n <= c - first
  PROVE  /\ AdvanceWarped(c, first, n) \in Nat
         /\ AdvanceWarped(c, first, n) < c
  BY DEF AdvanceWarped

\* The elements that are read are next to each other.
LEMMA HeadSlots ==
  ASSUME NEW c \in Nat, NEW first \in Nat, NEW n \in Nat, n <= c - first,
         NEW i \in Nat, i < n
  PROVE  Wrap(c, first, i) = first + i
  BY DEF Wrap

\* One memcpy out of the storage takes its elements from the front of the
\* content (ReadContinuous).
LEMMA ReadContinuousDrops ==
  ASSUME NEW c \in Nat, c > 0, NEW r \in Ring(c), r.capacity = c, Consistent(r),
         NEW n \in Nat, n <= r.size, n <= c - r.read_index
  PROVE  LET q == ReadContinuous(r, n)
             copy == CopyContinuous(r, n)
         IN /\ q \in Ring(c) /\ q.capacity = c /\ Consistent(q)
            /\ q.size = r.size - n
            /\ n = c - r.read_index => q.read_index = 0
            /\ \A i \in 1..(r.size - n) : Content(q)[i] = Content(r)[n + i]
            /\ copy \in Seq(Element) /\ Len(copy) = n
            /\ \A i \in 1..n : copy[i] = Content(r)[i]
  <1> DEFINE q == ReadContinuous(r, n)
             copy == CopyContinuous(r, n)
  <1>1. /\ r.size \in Nat /\ r.write_index \in Nat /\ r.read_index \in Nat
        /\ r.size <= c /\ r.write_index < c /\ r.read_index < c
        /\ r.slots \in [0..(c - 1) -> Element]
        /\ r.write_index = Wrap(c, r.read_index, r.size)
    BY ConsistentParts
  <1>2. /\ q.capacity = c /\ q.size = r.size - n
        /\ q.read_index = AdvanceWarped(c, r.read_index, n)
        /\ q.write_index = r.write_index
        /\ q.slots = r.slots
    BY DEF ReadContinuous
  <1>3. /\ q.read_index \in Nat /\ q.read_index < c
        /\ Wrap(c, r.read_index, r.size) = Wrap(c, q.read_index, r.size - n)
        /\ \A i \in Nat : i < r.size - n =>
             Wrap(c, q.read_index, i) = Wrap(c, r.read_index, n + i)
        /\ \A i \in Nat : i < n => Wrap(c, r.read_index, i) = r.read_index + i
    <2>1. /\ q.read_index \in Nat /\ q.read_index < c
          /\ Wrap(c, r.read_index, r.size) = Wrap(c, q.read_index, r.size - n)
      <3>1. /\ AdvanceWarped(c, r.read_index, n) \in Nat
            /\ AdvanceWarped(c, r.read_index, n) < c
        BY <1>1, AdvanceRead
      <3>2. Wrap(c, r.read_index, r.size) =
              Wrap(c, AdvanceWarped(c, r.read_index, n), r.size - n)
        BY <1>1 DEF Wrap, AdvanceWarped
      <3> HIDE DEF q
      <3> QED
        BY <1>2, <3>1, <3>2
    <2>2. \A i \in Nat : i < r.size - n =>
            Wrap(c, q.read_index, i) = Wrap(c, r.read_index, n + i)
      <3>1. \A i \in Nat : i < r.size - n =>
              Wrap(c, AdvanceWarped(c, r.read_index, n), i)
                = Wrap(c, r.read_index, n + i)
        <4>1. ASSUME NEW i \in Nat, i < r.size - n
              PROVE  Wrap(c, AdvanceWarped(c, r.read_index, n), i)
                       = Wrap(c, r.read_index, n + i)
          BY SMTT(30), <1>1, <4>1 DEF Wrap, AdvanceWarped
        <4> QED
          BY <4>1
      <3> HIDE DEF q
      <3> QED
        BY <1>2, <3>1
    <2>3. \A i \in Nat : i < n => Wrap(c, r.read_index, i) = r.read_index + i
      BY <1>1, HeadSlots
    <2> QED
      BY <2>1, <2>2, <2>3
  <1>4. q \in Ring(c)
    BY <1>1, <1>2, <1>3 DEF ReadContinuous, Ring
  <1>5. Consistent(q)
    <2>1. q.size \in Nat /\ q.size <= c
      BY <1>1, <1>2
    <2> QED
      BY <1>1, <1>2, <1>3, <1>4, <2>1, ConsistentParts
  <1>6. /\ Content(r) \in Seq(Element) /\ Len(Content(r)) = r.size
        /\ \A i \in 1..r.size :
             /\ Wrap(c, r.read_index, i - 1) \in 0..(c - 1)
             /\ Content(r)[i] = r.slots[Wrap(c, r.read_index, i - 1)]
    BY ContentSeq
  <1>7. ASSUME NEW i \in 1..(r.size - n)
        PROVE  Content(q)[i] = Content(r)[n + i]
    <2>1. \A j \in 1..q.size : Content(q)[j] = q.slots[Wrap(c, q.read_index, j - 1)]
      BY <1>2, <1>4, <1>5, ContentSeq
    <2>2. /\ i \in 1..q.size /\ n + i \in 1..r.size
          /\ i - 1 \in Nat /\ i - 1 < r.size - n
          /\ n + (i - 1) = (n + i) - 1
      BY <1>1, <1>2
    <2>3. Wrap(c, q.read_index, i - 1) = Wrap(c, r.read_index, (n + i) - 1)
      BY <1>3, <2>2
    <2> HIDE DEF q
    <2> QED
      BY <1>2, <1>6, <2>1, <2>2, <2>3
  <1>8. ASSUME NEW i \in 1..n
        PROVE  r.slots[r.read_index + i - 1] \in Element
               /\ r.slots[r.read_index + i - 1] = Content(r)[i]
    <2>1. /\ i \in 1..r.size /\ i - 1 \in Nat /\ i - 1 < n
          /\ r.read_index + i - 1 = r.read_index + (i - 1)
          /\ r.read_index + i - 1 \in 0..(c - 1)
      BY <1>1
    <2>2. Wrap(c, r.read_index, i - 1) = r.read_index + i - 1
      BY <1>3, <2>1
    <2> QED
      BY <1>1, <1>6, <2>1, <2>2
  <1>9. copy \in [1..n -> Element] /\ \A i \in 1..n : copy[i] = Content(r)[i]
    BY <1>8 DEF CopyContinuous
  <1>10. copy \in Seq(Element) /\ Len(copy) = n
    <2> HIDE DEF copy
    <2>1. copy \in Seq(Element)
      BY <1>9
    <2> QED
      BY <1>9, <2>1, LenProperties
  <1>11. n = c - r.read_index => q.read_index = 0
    BY <1>1, <1>2 DEF AdvanceWarped
  <1> QED
    BY <1>2, <1>4, <1>5, <1>7, <1>9, <1>10, <1>11

\* A read of what is there copies the front of the content and drops it,
\* wherever the storage ends (ReadWrapped).
LEMMA ReadWrappedDrops ==
  ASSUME NEW c \in Nat, c > 0, SizeModulus \in Nat, c < SizeModulus,
         NEW r \in Ring(c), r.capacity = c, Consistent(r),
         NEW n \in Nat, n <= r.size
  PROVE  LET q == ReadWrapped(r, n)
         IN /\ q \in Ring(c) /\ q.capacity = c /\ Consistent(q)
            /\ q.size = r.size - n
            /\ Content(q) = SubSeq(Content(r), n + 1, Len(Content(r)))
            /\ CopyWrapped(r, n) = SubSeq(Content(r), 1, n)
            /\ CopyWrapped(r, n) \in Seq(Element)
  <1> DEFINE head == ReadHead(r, n)
             first == ReadContinuous(r, head)
             front == CopyContinuous(r, head)
             second == ReadContinuous(first, n - head)
             back == CopyContinuous(first, n - head)
             q == ReadWrapped(r, n)
             copy == CopyWrapped(r, n)
  <1>1. /\ r.size \in Nat /\ r.size <= c /\ r.read_index \in Nat /\ r.read_index < c
    BY ConsistentParts
  <1>2. /\ head \in Nat /\ head <= n /\ head <= c - r.read_index
        /\ head # n => head = c - r.read_index
        /\ head <= r.size
    BY <1>1 DEF ReadHead, Smaller, Minus
  <1>3. /\ Content(r) \in Seq(Element) /\ Len(Content(r)) = r.size
    BY ContentSeq
  <1> HIDE DEF head
  <1>4. /\ first \in Ring(c) /\ first.capacity = c /\ Consistent(first)
        /\ first.size = r.size - head
        /\ head = c - r.read_index => first.read_index = 0
        /\ \A i \in 1..(r.size - head) : Content(first)[i] = Content(r)[head + i]
        /\ front \in Seq(Element) /\ Len(front) = head
        /\ \A i \in 1..head : front[i] = Content(r)[i]
    BY <1>2, ReadContinuousDrops
  <1> HIDE DEF first, front
  <1>5. /\ q \in Ring(c) /\ q.capacity = c /\ Consistent(q)
        /\ q.size = r.size - n
        /\ \A i \in 1..(r.size - n) : Content(q)[i] = Content(r)[n + i]
        /\ copy \in Seq(Element) /\ Len(copy) = n
        /\ \A i \in 1..n : copy[i] = Content(r)[i]
    <2>1. CASE head = n
      <3>1. q = first /\ copy = front
        BY <2>1 DEF ReadWrapped, CopyWrapped, head, first, front
      <3> HIDE DEF q, copy
      <3> QED
        BY <1>4, <2>1, <3>1
    <2>2. CASE head # n
      <3>1. q = second /\ copy = front \o back
        BY <2>2 DEF ReadWrapped, CopyWrapped, head, first, front
      <3>2. n - head \in Nat /\ n - head <= first.size /\ n - head <= c - first.read_index
        BY <1>1, <1>2, <1>4, <2>2
      <3>3. /\ second \in Ring(c) /\ second.capacity = c /\ Consistent(second)
            /\ second.size = first.size - (n - head)
            /\ \A i \in 1..(first.size - (n - head)) :
                 Content(second)[i] = Content(first)[(n - head) + i]
            /\ back \in Seq(Element) /\ Len(back) = n - head
            /\ \A i \in 1..(n - head) : back[i] = Content(first)[i]
        BY <1>4, <3>2, ReadContinuousDrops
      <3> HIDE DEF second, back
      <3>4. /\ front \o back \in Seq(Element)
            /\ Len(front \o back) = Len(front) + Len(back)
            /\ \A i \in 1..(Len(front) + Len(back)) :
                 (front \o back)[i] =
                   IF i <= Len(front) THEN front[i] ELSE back[i - Len(front)]
        BY ZenonT(60), <1>4, <3>3, ConcatProperties
      <3> DEFINE joined == front \o back
      <3> HIDE DEF joined
      <3>5. ASSUME NEW i \in 1..n PROVE joined[i] = Content(r)[i]
        <4>1. CASE i <= head
          BY <1>2, <1>4, <3>3, <3>4, <4>1 DEF joined
        <4>2. CASE i > head
          <5>1. i - head \in 1..(n - head) /\ i - head \in 1..(r.size - head)
                /\ head + (i - head) = i
            BY <1>1, <1>2, <4>2
          <5>2. joined[i] = back[i - head]
            BY <1>2, <1>4, <3>3, <3>4, <4>2 DEF joined
          <5>3. back[i - head] = Content(first)[i - head]
            BY <3>3, <5>1
          <5> QED
            BY <1>4, <5>1, <5>2, <5>3
        <4> QED
          BY <1>2, <4>1, <4>2
      <3>6. ASSUME NEW i \in 1..(r.size - n)
            PROVE  Content(second)[i] = Content(r)[n + i]
        <4>1. /\ i \in 1..(first.size - (n - head))
              /\ (n - head) + i \in 1..(r.size - head)
              /\ head + ((n - head) + i) = n + i
          BY <1>1, <1>2, <1>4
        <4> QED
          BY <1>4, <3>3, <4>1
      <3>7. joined \in Seq(Element) /\ Len(joined) = n
        BY <1>2, <1>4, <3>3, <3>4 DEF joined
      <3>8. second.size = r.size - n
        BY <1>1, <1>2, <1>4, <3>3
      <3> HIDE DEF q, copy
      <3> QED
        BY <3>1, <3>3, <3>5, <3>6, <3>7, <3>8 DEF joined
    <2> QED
      BY <2>1, <2>2
  <1> HIDE DEF q, copy
  <1>6. \A i \in 1..r.size : Content(r)[i] \in Element
    BY <1>3, ElementOfSeq
  <1>7. copy = SubSeq(Content(r), 1, n)
    <2>1. \A i \in 1..n : Content(r)[i] \in Element
      BY <1>1, <1>6
    <2>2. /\ SubSeq(Content(r), 1, n) \in Seq(Element)
          /\ Len(SubSeq(Content(r), 1, n)) = IF 1 <= n THEN n - 1 + 1 ELSE 0
          /\ \A i \in 1..(n - 1 + 1) : SubSeq(Content(r), 1, n)[i] = Content(r)[1 + i - 1]
      BY <2>1, SubSeqProperties
    <2>3. /\ Len(SubSeq(Content(r), 1, n)) = Len(copy)
          /\ \A i \in 1..Len(copy) : SubSeq(Content(r), 1, n)[i] = copy[i]
      BY <1>5, <2>2
    <2> QED
      BY <1>5, <2>2, <2>3, SeqEqual
  <1>8. Content(q) = SubSeq(Content(r), n + 1, Len(Content(r)))
    <2>0. Content(q) \in Seq(Element) /\ Len(Content(q)) = r.size - n
      BY <1>5, ContentSeq
    <2>1. \A i \in (n + 1)..r.size : Content(r)[i] \in Element
      BY <1>1, <1>6
    <2> DEFINE rest == SubSeq(Content(r), n + 1, r.size)
    <2>2. /\ rest \in Seq(Element)
          /\ Len(rest) = IF n + 1 <= r.size THEN r.size - (n + 1) + 1 ELSE 0
          /\ \A i \in 1..(r.size - (n + 1) + 1) : rest[i] = Content(r)[n + 1 + i - 1]
      BY <1>1, <2>1, SubSeqProperties
    <2> HIDE DEF rest
    <2>3. /\ Len(rest) = Len(Content(q))
          /\ \A i \in 1..Len(Content(q)) : rest[i] = Content(q)[i]
      <3>1. Len(rest) = r.size - n /\ r.size - (n + 1) + 1 = r.size - n
        BY <1>1, <2>2
      <3>2. \A i \in 1..(r.size - n) : n + 1 + i - 1 = n + i
        BY <1>1
      <3>3. \A i \in 1..(r.size - n) : rest[i] = Content(r)[n + i]
        BY <2>2, <3>1, <3>2
      <3> QED
        BY <1>5, <2>0, <3>1, <3>3
    <2>4. Content(q) = rest
      BY <2>0, <2>2, <2>3, SeqEqual
    <2> QED
      BY <1>3, <2>4 DEF rest
  <1> QED
    BY <1>5, <1>7, <1>8 DEF q, copy
--------------------------------------------------------------------------------
(* The threads.                                                            *)

PCs == {"idle", "loop", "wait", "notify_readers", "notify_writers"}

--------------------------------------------------------------------------------
(* One step of a thread.                                                   *)

\* A notification moves the caller, wakes at most one waiting thread of the
\* notified set, and wakes one if there is any.
NotifyEffect(S, caller, to, p) ==
  /\ p \in [Threads -> PCs]
  /\ p[caller] = to
  /\ \A t \in Threads \ {caller} :
       \/ p[t] = pc[t]
       \/ t \in S /\ pc[t] = "wait" /\ p[t] = "loop"
  /\ Waiting(S) # {} => \E t \in S : p[t] = "loop"

LEMMA NotifyOneEffect ==
  ASSUME pc \in [Threads -> PCs],
         NEW S, S \subseteq Threads,
         NEW caller \in Threads, caller \notin S, NEW to \in PCs,
         NEW p \in NotifyOne(S, caller, to)
  PROVE  NotifyEffect(S, caller, to, p)
  BY DEF NotifyOne, NotifyEffect, Waiting, PCs

\* A writer's chunk is what remains or what fits, whichever is smaller.
LEMMA WriteChunkFits ==
  ASSUME StreamInv, Configured, NEW w \in Writers, pc[w] = "loop"
  PROVE  /\ WriteChunk(w) \in Nat
         /\ WriteChunk(w) <= Len(todo[w])
         /\ ring.size + WriteChunk(w) <= ring.capacity
         /\ WriteChunk(w) = 0 => ring.size = ring.capacity
         /\ Len(todo[w]) \in Nat /\ todo[w] \in Seq(Element)
  <1>1. /\ todo[w] \in Seq(Element) /\ todo[w] # <<>>
        /\ call_capacity[w] = ring.capacity
    BY DEF StreamInv, TypeOK, CallsConsistent
  <1>2. Len(todo[w]) \in Nat /\ Len(todo[w]) # 0
    BY <1>1, EmptySeq, LenProperties
  <1>3. ring.capacity \in Nat /\ ring.size \in Nat /\ ring.size <= ring.capacity
    BY DEF StreamInv, TypeOK, StreamConsistent, Consistent, Configured, Ring
  <1> QED
    BY <1>1, <1>2, <1>3 DEF WriteChunk, Smaller, Minus

\* What a write of the data does to the ring of the stream.
LEMMA RingWrite ==
  ASSUME StreamInv, Configured, NEW data \in Seq(Element),
         ring.size + Len(data) <= ring.capacity,
         ring' = WriteWrapped(ring, data)
  PROVE  /\ ring' \in Ring(ring'.capacity) /\ ring'.capacity = ring.capacity
         /\ Consistent(ring')
         /\ ring'.size = ring.size + Len(data)
         /\ Content(ring)' = Content(ring) \o data
  <1>1. /\ ring.capacity \in Nat /\ ring.capacity > 0
        /\ SizeModulus \in Nat /\ ring.capacity < SizeModulus
        /\ ring \in Ring(ring.capacity) /\ Consistent(ring)
    BY SizeAssumption
    DEF StreamInv, TypeOK, StreamConsistent, CallsConsistent, Configured, Ring
  <1>2. LET q == WriteWrapped(ring, data)
        IN /\ q \in Ring(ring.capacity) /\ q.capacity = ring.capacity
           /\ Consistent(q) /\ q.size = ring.size + Len(data)
           /\ Content(q) = Content(ring) \o data
    BY <1>1, WriteWrappedAppends
  <1>3. Content(ring)' = Content(ring')
    BY DEF Content
  <1> QED
    BY <1>2, <1>3

\* What a read of n elements does to the ring of the stream.
LEMMA RingRead ==
  ASSUME StreamInv, Configured, NEW n \in Nat, n <= ring.size,
         ring' = ReadWrapped(ring, n)
  PROVE  /\ ring' \in Ring(ring'.capacity) /\ ring'.capacity = ring.capacity
         /\ Consistent(ring')
         /\ ring'.size = ring.size - n
         /\ Content(ring)' = SubSeq(Content(ring), n + 1, Len(Content(ring)))
         /\ CopyWrapped(ring, n) = SubSeq(Content(ring), 1, n)
         /\ CopyWrapped(ring, n) \in Seq(Element)
         /\ Content(ring) \in Seq(Element) /\ Len(Content(ring)) = ring.size
  <1>1. /\ ring.capacity \in Nat /\ ring.capacity > 0
        /\ SizeModulus \in Nat /\ ring.capacity < SizeModulus
        /\ ring \in Ring(ring.capacity) /\ Consistent(ring)
    BY SizeAssumption
    DEF StreamInv, TypeOK, StreamConsistent, CallsConsistent, Configured, Ring
  <1>2. LET q == ReadWrapped(ring, n)
        IN /\ q \in Ring(ring.capacity) /\ q.capacity = ring.capacity
           /\ Consistent(q) /\ q.size = ring.size - n
           /\ Content(q) = SubSeq(Content(ring), n + 1, Len(Content(ring)))
           /\ CopyWrapped(ring, n) = SubSeq(Content(ring), 1, n)
           /\ CopyWrapped(ring, n) \in Seq(Element)
    BY <1>1, ReadWrappedDrops
  <1>3. Content(ring) \in Seq(Element) /\ Len(Content(ring)) = ring.size
    BY <1>1, ContentSeq
  <1>4. Content(ring)' = Content(ring')
    BY DEF Content
  <1> QED
    BY <1>2, <1>3, <1>4

\* The first n elements of a sequence, and the others.
LEMMA Parts ==
  ASSUME NEW s \in Seq(Element), NEW n \in Nat, n <= Len(s)
  PROVE  /\ SubSeq(s, 1, n) \in Seq(Element) /\ Len(SubSeq(s, 1, n)) = n
         /\ SubSeq(s, n + 1, Len(s)) \in Seq(Element)
         /\ Len(SubSeq(s, n + 1, Len(s))) = Len(s) - n
  <1>1. Len(s) \in Nat /\ \A i \in 1..Len(s) : s[i] \in Element
    BY LenProperties, ElementOfSeq
  <1>2. /\ \A i \in 1..n : s[i] \in Element
        /\ \A i \in (n + 1)..Len(s) : s[i] \in Element
    BY <1>1
  <1>3. SubSeq(s, 1, n) \in Seq(Element)
        /\ Len(SubSeq(s, 1, n)) = IF 1 <= n THEN n - 1 + 1 ELSE 0
    BY <1>2, SubSeqProperties
  <1>4. /\ SubSeq(s, n + 1, Len(s)) \in Seq(Element)
        /\ Len(SubSeq(s, n + 1, Len(s))) =
             IF n + 1 <= Len(s) THEN Len(s) - (n + 1) + 1 ELSE 0
    BY <1>1, <1>2, SubSeqProperties
  <1> QED
    BY <1>1, <1>3, <1>4

\* WriteSome appends the first n elements still to be written, n at least 1.
LEMMA WriteSomeStep ==
  ASSUME StreamInv, Configured, NEW w \in Writers, WriteSome(w)
  PROVE  LET n == WriteChunk(w)
         IN /\ n \in 1..Len(todo[w]) /\ ring.size + n <= ring.capacity
            /\ ring' \in Ring(ring'.capacity) /\ ring'.capacity = ring.capacity
            /\ Consistent(ring') /\ ring'.size = ring.size + n
            /\ Content(ring)' = Content(ring) \o SubSeq(todo[w], 1, n)
            /\ todo' \in [Writers -> Seq(Element)]
            /\ n # Len(todo[w]) => todo'[w] # <<>>
  <1> DEFINE n == WriteChunk(w)
             data == SubSeq(todo[w], 1, n)
             rest == SubSeq(todo[w], n + 1, Len(todo[w]))
  <1>1. /\ n \in Nat /\ n <= Len(todo[w]) /\ ring.size + n <= ring.capacity
        /\ Len(todo[w]) \in Nat /\ todo[w] \in Seq(Element) /\ n # 0
    BY WriteChunkFits DEF WriteSome
  <1>2. /\ data \in Seq(Element) /\ Len(data) = n
        /\ rest \in Seq(Element) /\ Len(rest) = Len(todo[w]) - n
    BY <1>1, Parts
  <1>3. ring' = WriteWrapped(ring, data) /\ todo' = [todo EXCEPT ![w] = rest]
    BY DEF WriteSome
  <1> HIDE DEF n, data, rest
  <1>4. /\ ring' \in Ring(ring'.capacity) /\ ring'.capacity = ring.capacity
        /\ Consistent(ring') /\ ring'.size = ring.size + n
        /\ Content(ring)' = Content(ring) \o data
    <2>1. ring.size + Len(data) <= ring.capacity
      BY <1>1, <1>2
    <2> QED
      BY <1>2, <1>3, <2>1, RingWrite
  <1>5. todo' \in [Writers -> Seq(Element)] /\ todo'[w] = rest
    BY <1>2, <1>3 DEF StreamInv, TypeOK
  <1>6. n # Len(todo[w]) => rest # <<>>
    BY <1>1, <1>2, EmptySeq
  <1>7. n \in 1..Len(todo[w])
    BY <1>1
  <1> QED
    BY <1>1, <1>4, <1>5, <1>6, <1>7 DEF n, data

\* WriteNonblocking appends the part of its data that fits.
LEMMA WriteNonblockingStep ==
  ASSUME StreamInv, Configured, NEW w \in Writers, NEW data \in Payloads,
         WriteNonblocking(w, data)
  PROVE  /\ ring' \in Ring(ring'.capacity) /\ ring'.capacity = ring.capacity
         /\ Consistent(ring')
         /\ \/ ring' = ring
            \/ \E n \in 1..Len(data) :
                 /\ ring.size + n <= ring.capacity
                 /\ ring'.size = ring.size + n
                 /\ Content(ring)' = Content(ring) \o SubSeq(data, 1, n)
  <1> DEFINE n == Smaller(Len(data), Minus(ring.capacity, ring.size))
             part == SubSeq(data, 1, n)
  <1>1. data \in Seq(Element) /\ Len(data) \in Nat
    BY DataAssumption, LenProperties
  <1>2. /\ ring.capacity \in Nat /\ ring.size \in Nat /\ ring.size <= ring.capacity
        /\ ring \in Ring(ring.capacity) /\ Consistent(ring)
    BY DEF StreamInv, TypeOK, StreamConsistent, Consistent, Configured, Ring
  <1>3. n \in Nat /\ n <= Len(data) /\ ring.size + n <= ring.capacity
    BY <1>1, <1>2 DEF Smaller, Minus
  <1>4. ring' = IF n # 0 THEN WriteWrapped(ring, part) ELSE ring
    BY DEF WriteNonblocking
  <1> HIDE DEF n
  <1>5. part \in Seq(Element) /\ Len(part) = n
    BY <1>1, <1>3, Parts
  <1> HIDE DEF part
  <1>6. CASE n = 0
    BY <1>2, <1>4, <1>6
  <1>7. CASE n # 0
    <2>1. ring' = WriteWrapped(ring, part) /\ ring.size + Len(part) <= ring.capacity
      BY <1>3, <1>4, <1>5, <1>7
    <2>2. /\ ring' \in Ring(ring'.capacity) /\ ring'.capacity = ring.capacity
          /\ Consistent(ring') /\ ring'.size = ring.size + n
          /\ Content(ring)' = Content(ring) \o part
      BY <1>5, <2>1, RingWrite
    <2>3. n \in 1..Len(data)
      BY <1>1, <1>3, <1>7
    <2> QED
      BY <1>3, <2>2, <2>3 DEF part
  <1> QED
    BY <1>6, <1>7

\* ReadSome takes n elements from the front, n at least 1.
LEMMA ReadSomeStep ==
  ASSUME StreamInv, Configured, NEW r \in Readers, ReadSome(r)
  PROVE  LET n == Smaller(want[r], ring.size)
         IN /\ n \in 1..ring.size /\ n <= want[r] /\ want[r] \in 0..MaxRead
            /\ ring' \in Ring(ring'.capacity) /\ ring'.capacity = ring.capacity
            /\ Consistent(ring') /\ ring'.size = ring.size - n
            /\ Content(ring) \in Seq(Element) /\ Len(Content(ring)) = ring.size
            /\ Content(ring)' = SubSeq(Content(ring), n + 1, Len(Content(ring)))
            /\ CopyWrapped(ring, n) = SubSeq(Content(ring), 1, n)
            /\ got' \in [Readers -> Seq(Element)]
  <1> DEFINE n == Smaller(want[r], ring.size)
  <1>1. ring.size \in Nat /\ want[r] \in 0..MaxRead /\ MaxRead \in Nat
    BY DataAssumption DEF StreamInv, TypeOK, Ring
  <1>2. n \in Nat /\ n # 0 /\ n <= ring.size /\ n <= want[r]
    BY <1>1 DEF ReadSome, Smaller
  <1>3. /\ ring' = ReadWrapped(ring, n)
        /\ got' = [got EXCEPT ![r] = got[r] \o CopyWrapped(ring, n)]
    BY DEF ReadSome
  <1> HIDE DEF n
  <1>4. /\ ring' \in Ring(ring'.capacity) /\ ring'.capacity = ring.capacity
        /\ Consistent(ring') /\ ring'.size = ring.size - n
        /\ Content(ring)' = SubSeq(Content(ring), n + 1, Len(Content(ring)))
        /\ CopyWrapped(ring, n) = SubSeq(Content(ring), 1, n)
        /\ CopyWrapped(ring, n) \in Seq(Element)
        /\ Content(ring) \in Seq(Element) /\ Len(Content(ring)) = ring.size
    BY <1>2, <1>3, RingRead
  <1>5. got' \in [Readers -> Seq(Element)]
    <2>1. got \in [Readers -> Seq(Element)]
      BY DEF StreamInv, TypeOK
    <2>2. got[r] \o CopyWrapped(ring, n) \in Seq(Element)
      BY <1>4, <2>1, ConcatProperties
    <2> QED
      BY <1>3, <2>1, <2>2
  <1>6. n \in 1..ring.size
    BY <1>1, <1>2
  <1> QED
    BY <1>1, <1>2, <1>4, <1>5, <1>6 DEF n

\* ReadNonblocking takes from the front what it has room for.
LEMMA ReadNonblockingStep ==
  ASSUME StreamInv, Configured, NEW r \in Readers, NEW size \in 0..MaxRead,
         ReadNonblocking(r, size)
  PROVE  LET n == Smaller(size, ring.size)
         IN /\ n \in 1..ring.size
            /\ ring' \in Ring(ring'.capacity) /\ ring'.capacity = ring.capacity
            /\ Consistent(ring') /\ ring'.size = ring.size - n
            /\ Content(ring) \in Seq(Element) /\ Len(Content(ring)) = ring.size
            /\ Content(ring)' = SubSeq(Content(ring), n + 1, Len(Content(ring)))
            /\ CopyWrapped(ring, n) = SubSeq(Content(ring), 1, n)
            /\ got' \in [Readers -> Seq(Element)]
  <1> DEFINE n == Smaller(size, ring.size)
  <1>1. ring.size \in Nat /\ size \in Nat /\ MaxRead \in Nat
    BY DataAssumption DEF StreamInv, TypeOK, Ring
  <1>2. n \in Nat /\ n # 0 /\ n <= ring.size
    BY <1>1 DEF ReadNonblocking, Smaller
  <1>3. /\ ring' = ReadWrapped(ring, n)
        /\ got' = [got EXCEPT ![r] = CopyWrapped(ring, n)]
    BY DEF ReadNonblocking
  <1> HIDE DEF n
  <1>4. /\ ring' \in Ring(ring'.capacity) /\ ring'.capacity = ring.capacity
        /\ Consistent(ring') /\ ring'.size = ring.size - n
        /\ Content(ring)' = SubSeq(Content(ring), n + 1, Len(Content(ring)))
        /\ CopyWrapped(ring, n) = SubSeq(Content(ring), 1, n)
        /\ CopyWrapped(ring, n) \in Seq(Element)
        /\ Content(ring) \in Seq(Element) /\ Len(Content(ring)) = ring.size
    BY <1>2, <1>3, RingRead
  <1>5. got' \in [Readers -> Seq(Element)]
    BY <1>3, <1>4 DEF StreamInv, TypeOK
  <1>6. n \in 1..ring.size
    BY <1>1, <1>2
  <1> QED
    BY <1>4, <1>5, <1>6 DEF n

--------------------------------------------------------------------------------
(* The invariant of the ring and of the calls in progress.                 *)

\* Where the threads of each kind can be.
LEMMA ThreadKinds ==
  ASSUME StreamInv
  PROVE  /\ pc \in [Threads -> PCs]
         /\ \A w \in Writers : w \in Threads \ Readers /\ w \in Threads \ Closers
         /\ \A r \in Readers : r \in Threads \ Writers /\ r \in Threads \ Closers
         /\ \A c \in Closers : c \in Threads \ Readers /\ c \in Threads \ Writers
         /\ Readers \subseteq Threads /\ Writers \subseteq Threads
         /\ Closers \subseteq Threads
         /\ \A c \in Closers : pc[c] # "wait"
  BY ThreadsAssumption DEF StreamInv, TypeOK, CallsConsistent, Threads, PCs

\* The stream starts consistent: nothing reserved, nobody inside a call.
LEMMA InitInv == Init => StreamInv
  <1> SUFFICES ASSUME Init PROVE StreamInv
    OBVIOUS
  <1>1. ring \in Ring(ring.capacity) /\ ring.capacity = 0 /\ Consistent(ring)
    <2>1. [k \in {} |-> 0] \in [0..(0 - 1) -> Element]
      OBVIOUS
    <2> QED
      BY <2>1 DEF Init, Ring, Consistent
  <1>2. TypeOK
    <2>1. <<>> \in Seq(Element)
      OBVIOUS
    <2>2. 0 \in 0..MaxRead
      BY DataAssumption
    <2> QED
      BY <1>1, <2>1, <2>2 DEF Init, TypeOK
  <1>3. CallsConsistent
    BY <1>1, SizeAssumption DEF Init, CallsConsistent, Configured, Threads
  <1> QED
    BY <1>1, <1>2, <1>3 DEF StreamInv, StreamConsistent

\* The first Reserve gives the empty stream its storage.
LEMMA SetUpKeepsInv ==
  ASSUME StreamInv, SetUp
  PROVE  StreamInv'
  <1>1. PICK n \in Capacities : Reserve(n)
    BY DEF SetUp
  <1>2. /\ ring.capacity = 0 /\ ring \in Ring(0) /\ Consistent(ring)
        /\ n \in Nat /\ n > 0 /\ n < SizeModulus
    BY <1>1, SizeAssumption, DataAssumption
    DEF SetUp, Configured, StreamInv, TypeOK, StreamConsistent
  <1>3. PICK filler \in Element :
          ring' = [capacity |-> n,
                   slots |-> [k \in 0..(n - 1) |->
                                IF k \in DOMAIN ring.slots
                                THEN ring.slots[k] ELSE filler],
                   size |-> ring.size,
                   read_index |-> ring.read_index,
                   write_index |-> ring.write_index]
    BY <1>1 DEF Reserve
  <1>4. ring.slots \in [0..(0 - 1) -> Element] /\ ring.size = 0
        /\ ring.read_index = 0 /\ ring.write_index = 0
    BY <1>2 DEF Ring, Consistent
  <1>5. /\ ring'.capacity = n /\ ring'.size = 0
        /\ ring'.read_index = 0 /\ ring'.write_index = 0
        /\ ring'.slots \in [0..(n - 1) -> Element]
    BY <1>2, <1>3, <1>4
  <1>6. ring' \in Ring(ring'.capacity)
    BY <1>2, <1>3, <1>5 DEF Ring
  <1>7. Consistent(ring')
    BY <1>2, <1>5 DEF Consistent, Wrap
  <1>8. UNCHANGED <<is_open, pc, call_capacity, todo, want, got>>
    BY <1>1 DEF Reserve
  <1>9. TypeOK'
    BY <1>6, <1>8 DEF StreamInv, TypeOK, Threads
  <1>10. CallsConsistent'
    BY <1>2, <1>5, <1>8
    DEF StreamInv, CallsConsistent, SetUp, Configured, Threads
  <1> QED
    BY <1>7, <1>9, <1>10 DEF StreamInv, StreamConsistent

\* The steps that leave the ring alone.
LEMMA QuietStepKeepsInv ==
  ASSUME StreamInv, Configured, NEW t \in Threads,
         \/ SpuriousWakeup(t)
         \/ /\ t \in Writers
            /\ \/ \E data \in Payloads : BeginWrite(t, data)
               \/ WriteClosed(t) \/ WriteWait(t)
         \/ /\ t \in Readers
            /\ \/ \E n \in 0..MaxRead : BeginRead(t, n)
               \/ ReadClosed(t) \/ ReadWait(t)
         \/ /\ t \in Closers
            /\ Close(t) \/ CloseNotifyReader(t) \/ CloseNotifyWriter(t)
  PROVE  StreamInv'
  <1>0. /\ pc \in [Threads -> PCs] /\ is_open \in BOOLEAN
        /\ todo \in [Writers -> Seq(Element)] /\ call_capacity \in [Writers -> Nat]
        /\ want \in [Readers -> 0..MaxRead] /\ got \in [Readers -> Seq(Element)]
        /\ ring.capacity \in Nat /\ ring.capacity # 0
        /\ <<>> \in Seq(Element) /\ 0 \in 0..MaxRead
    BY DataAssumption DEF StreamInv, TypeOK, Configured, Ring, PCs
  <1>1. ring' = ring
    BY DEF SpuriousWakeup, BeginWrite, WriteClosed, WriteWait, BeginRead,
           ReadClosed, ReadWait, Close, CloseNotifyReader, CloseNotifyWriter
  <1>2. CASE SpuriousWakeup(t)
    <2>1. /\ pc[t] = "wait" /\ pc' = [pc EXCEPT ![t] = "loop"]
          /\ UNCHANGED <<is_open, call_capacity, todo, want, got>>
      BY <1>2 DEF SpuriousWakeup
    <2>2. TypeOK'
      BY <1>0, <1>1, <2>1 DEF StreamInv, TypeOK, Threads, PCs
    <2>3. CallsConsistent'
      BY <1>0, <1>1, <2>1, ThreadKinds DEF StreamInv, CallsConsistent, Configured
    <2> QED
      BY <1>1, <2>2, <2>3 DEF StreamInv, StreamConsistent
  <1>3. ASSUME t \in Writers, NEW data \in Payloads, BeginWrite(t, data)
        PROVE  StreamInv'
    <2>1. data \in Seq(Element)
      BY DataAssumption
    <2>2. /\ pc' = [pc EXCEPT ![t] = IF data = <<>> THEN "idle" ELSE "loop"]
          /\ todo' = [todo EXCEPT ![t] = data]
          /\ call_capacity' = [call_capacity EXCEPT ![t] = ring.capacity]
          /\ UNCHANGED <<is_open, want, got>>
      BY <1>3 DEF BeginWrite
    <2>3. TypeOK'
      BY <1>0, <1>1, <1>3, <2>1, <2>2 DEF StreamInv, TypeOK, Threads, PCs
    <2>4. CallsConsistent'
      BY <1>0, <1>1, <1>3, <2>2, ThreadKinds DEF StreamInv, CallsConsistent, Configured
    <2> QED
      BY <1>1, <2>3, <2>4 DEF StreamInv, StreamConsistent
  <1>4. CASE t \in Writers /\ WriteClosed(t)
    <2>1. /\ pc' = [pc EXCEPT ![t] = "idle"] /\ todo' = [todo EXCEPT ![t] = <<>>]
          /\ UNCHANGED <<is_open, call_capacity, want, got>>
      BY <1>4 DEF WriteClosed
    <2>2. TypeOK'
      BY <1>0, <1>1, <1>4, <2>1 DEF StreamInv, TypeOK, Threads, PCs
    <2>3. CallsConsistent'
      BY <1>0, <1>1, <1>4, <2>1, ThreadKinds DEF StreamInv, CallsConsistent, Configured
    <2> QED
      BY <1>1, <2>2, <2>3 DEF StreamInv, StreamConsistent
  <1>5. CASE \/ t \in Writers /\ WriteWait(t)
             \/ t \in Readers /\ ReadWait(t)
    <2>1. /\ pc[t] = "loop" /\ pc' = [pc EXCEPT ![t] = "wait"]
          /\ UNCHANGED <<is_open, call_capacity, todo, want, got>>
      BY <1>5 DEF WriteWait, ReadWait
    <2>2. TypeOK'
      BY <1>0, <1>1, <2>1 DEF StreamInv, TypeOK, Threads, PCs
    <2>3. CallsConsistent'
      BY <1>0, <1>1, <1>5, <2>1, ThreadKinds DEF StreamInv, CallsConsistent, Configured
    <2> QED
      BY <1>1, <2>2, <2>3 DEF StreamInv, StreamConsistent
  <1>6. ASSUME t \in Readers, NEW n \in 0..MaxRead, BeginRead(t, n)
        PROVE  StreamInv'
    <2>1. /\ pc' = [pc EXCEPT ![t] = IF n = 0 THEN "idle" ELSE "loop"]
          /\ want' = [want EXCEPT ![t] = n]
          /\ got' = [got EXCEPT ![t] = <<>>]
          /\ UNCHANGED <<is_open, call_capacity, todo>>
      BY <1>6 DEF BeginRead
    <2>2. TypeOK'
      BY <1>0, <1>1, <1>6, <2>1 DEF StreamInv, TypeOK, Threads, PCs
    <2>3. CallsConsistent'
      BY <1>0, <1>1, <1>6, <2>1, ThreadKinds DEF StreamInv, CallsConsistent, Configured
    <2> QED
      BY <1>1, <2>2, <2>3 DEF StreamInv, StreamConsistent
  <1>7. CASE t \in Readers /\ ReadClosed(t)
    <2>1. /\ pc' = [pc EXCEPT ![t] = "idle"] /\ want' = [want EXCEPT ![t] = 0]
          /\ UNCHANGED <<is_open, call_capacity, todo, got>>
      BY <1>7 DEF ReadClosed
    <2>2. TypeOK'
      BY <1>0, <1>1, <1>7, <2>1 DEF StreamInv, TypeOK, Threads, PCs
    <2>3. CallsConsistent'
      BY <1>0, <1>1, <1>7, <2>1, ThreadKinds DEF StreamInv, CallsConsistent, Configured
    <2> QED
      BY <1>1, <2>2, <2>3 DEF StreamInv, StreamConsistent
  <1>8. CASE t \in Closers /\ Close(t)
    <2>1. /\ pc' = [pc EXCEPT ![t] = "notify_readers"] /\ is_open' = FALSE
          /\ UNCHANGED <<call_capacity, todo, want, got>>
      BY <1>8 DEF Close
    <2>2. TypeOK'
      BY <1>0, <1>1, <2>1 DEF StreamInv, TypeOK, Threads, PCs
    <2>3. CallsConsistent'
      BY <1>0, <1>1, <1>8, <2>1, ThreadKinds DEF StreamInv, CallsConsistent, Configured
    <2> QED
      BY <1>1, <2>2, <2>3 DEF StreamInv, StreamConsistent
  <1>9. CASE t \in Closers /\ (CloseNotifyReader(t) \/ CloseNotifyWriter(t))
    <2>1. /\ pc[t] \in {"notify_readers", "notify_writers"}
          /\ UNCHANGED <<is_open, call_capacity, todo, want, got>>
      BY <1>9 DEF CloseNotifyReader, CloseNotifyWriter
    <2>2. PICK S \in {Readers, Writers}, to \in {"notify_writers", "idle"} :
            pc' \in NotifyOne(S, t, to)
      BY <1>9 DEF CloseNotifyReader, CloseNotifyWriter
    <2>3. /\ pc' \in [Threads -> PCs] /\ pc'[t] = to
          /\ \A u \in Threads \ {t} :
               pc'[u] = pc[u] \/ (pc[u] = "wait" /\ pc'[u] = "loop")
      <3>1. S \subseteq Threads /\ t \notin S
        BY <1>9, ThreadKinds
      <3>2. to \in PCs
        BY DEF PCs
      <3>3. /\ pc' \in [Threads -> PCs]
            /\ pc'[t] = to
            /\ \A u \in Threads \ {t} :
                 \/ pc'[u] = pc[u]
                 \/ u \in S /\ pc[u] = "wait" /\ pc'[u] = "loop"
        <4>1. NotifyEffect(S, t, to, pc')
          BY <1>0, <2>2, <3>1, <3>2, NotifyOneEffect
        <4> QED
          BY <4>1 DEF NotifyEffect
      <3> QED
        BY <3>3
    <2>4. TypeOK'
      BY <1>0, <1>1, <2>1, <2>3 DEF StreamInv, TypeOK, Threads, PCs
    <2>5. CallsConsistent'
      BY <1>0, <1>1, <1>9, <2>1, <2>2, <2>3, ThreadKinds
      DEF StreamInv, CallsConsistent, Configured
    <2> QED
      BY <1>1, <2>4, <2>5 DEF StreamInv, StreamConsistent
  <1> QED
    BY <1>2, <1>3, <1>4, <1>5, <1>6, <1>7, <1>8, <1>9

\* The steps that move elements.
LEMMA WriterKeepsInv ==
  ASSUME StreamInv, Configured, NEW w \in Writers,
         \/ WriteSome(w)
         \/ \E data \in Payloads : WriteNonblocking(w, data)
  PROVE  StreamInv'
  <1>0. /\ pc \in [Threads -> PCs] /\ w \in Threads /\ w \notin Readers
        /\ Readers \subseteq Threads
        /\ todo \in [Writers -> Seq(Element)]
    BY ThreadKinds DEF StreamInv, TypeOK
  <1>1. ring' \in Ring(ring'.capacity) /\ Consistent(ring')
        /\ ring'.capacity = ring.capacity
        /\ UNCHANGED <<is_open, call_capacity, want, got>>
    <2>1. CASE WriteSome(w)
      BY <2>1, WriteSomeStep DEF WriteSome
    <2>2. ASSUME NEW data \in Payloads, WriteNonblocking(w, data)
          PROVE  <1>1!:
      BY <2>2, WriteNonblockingStep DEF WriteNonblocking
    <2> QED
      BY <2>1, <2>2
  <1>2. PICK to \in {"idle", "loop"} :
          /\ pc' \in NotifyOne(Readers, w, to)
          /\ todo' \in [Writers -> Seq(Element)]
          /\ \A v \in Writers \ {w} : todo'[v] = todo[v]
          /\ to # "idle" => pc[w] = "loop" /\ todo'[w] # <<>>
    <2>1. CASE WriteSome(w)
      <3>1. /\ pc' \in NotifyOne(Readers, w, IF WriteChunk(w) = Len(todo[w])
                                             THEN "idle" ELSE "loop")
            /\ pc[w] = "loop"
            /\ \A v \in Writers \ {w} : todo'[v] = todo[v]
        BY <1>0, <2>1 DEF WriteSome
      <3>2. /\ todo' \in [Writers -> Seq(Element)]
            /\ WriteChunk(w) # Len(todo[w]) => todo'[w] # <<>>
        BY <2>1, WriteSomeStep
      <3> QED
        BY <3>1, <3>2
    <2>2. CASE \E data \in Payloads : WriteNonblocking(w, data)
      BY <1>0, <2>2 DEF WriteNonblocking
    <2> QED
      BY <2>1, <2>2
  <1>3. /\ pc' \in [Threads -> PCs] /\ pc'[w] = to
        /\ \A t \in Threads \ {w} :
             \/ pc'[t] = pc[t]
             \/ t \in Readers /\ pc[t] = "wait" /\ pc'[t] = "loop"
    <2>1. to \in PCs
      BY DEF PCs
    <2>2. NotifyEffect(Readers, w, to, pc')
      BY <1>0, <1>2, <2>1, NotifyOneEffect
    <2> QED
      BY <2>2 DEF NotifyEffect
  <1>4. TypeOK'
    BY <1>1, <1>2, <1>3 DEF StreamInv, TypeOK, Threads, PCs
  <1>5. CallsConsistent'
    <2>1. ring'.capacity < SizeModulus /\ Configured'
      BY <1>1 DEF StreamInv, CallsConsistent, Configured
    <2>2. ASSUME NEW v \in Writers
          PROVE  /\ pc'[v] \in {"idle", "loop", "wait"}
                 /\ pc'[v] # "idle" =>
                      call_capacity'[v] = ring'.capacity /\ todo'[v] # <<>>
      <3>1. CASE v = w
        BY <1>1, <1>2, <1>3, <3>1 DEF StreamInv, CallsConsistent
      <3>2. CASE v # w
        BY <1>1, <1>2, <1>3, <3>2, ThreadKinds DEF StreamInv, CallsConsistent
      <3> QED
        BY <3>1, <3>2
    <2>3. ASSUME NEW r \in Readers
          PROVE  /\ pc'[r] \in {"idle", "loop", "wait"}
                 /\ pc'[r] # "idle" => want'[r] # 0
      BY <1>1, <1>3, ThreadKinds DEF StreamInv, CallsConsistent
    <2>4. ASSUME NEW c \in Closers
          PROVE  /\ pc'[c] \in {"idle", "notify_readers", "notify_writers"}
                 /\ pc'[c] # "idle" => ~is_open'
      BY <1>1, <1>3, ThreadKinds DEF StreamInv, CallsConsistent
    <2> QED
      BY <2>1, <2>2, <2>3, <2>4 DEF CallsConsistent
  <1> QED
    BY <1>1, <1>4, <1>5 DEF StreamInv, StreamConsistent

\* ... and those of a reader.
LEMMA ReaderKeepsInv ==
  ASSUME StreamInv, Configured, NEW r \in Readers,
         \/ ReadSome(r)
         \/ \E size \in 0..MaxRead : ReadNonblocking(r, size)
  PROVE  StreamInv'
  <1>0. /\ pc \in [Threads -> PCs] /\ r \in Threads /\ r \notin Writers
        /\ Writers \subseteq Threads
        /\ want \in [Readers -> 0..MaxRead]
    BY ThreadKinds DEF StreamInv, TypeOK
  <1>1. /\ ring' \in Ring(ring'.capacity) /\ Consistent(ring')
        /\ ring'.capacity = ring.capacity
        /\ UNCHANGED <<is_open, call_capacity, todo>>
        /\ got' \in [Readers -> Seq(Element)]
    <2>1. CASE ReadSome(r)
      BY <2>1, ReadSomeStep DEF ReadSome
    <2>2. ASSUME NEW size \in 0..MaxRead, ReadNonblocking(r, size)
          PROVE  <1>1!:
      BY <2>2, ReadNonblockingStep DEF ReadNonblocking
    <2> QED
      BY <2>1, <2>2
  <1>2. PICK to \in {"idle", "loop"} :
          /\ pc' \in NotifyOne(Writers, r, to)
          /\ want' \in [Readers -> 0..MaxRead]
          /\ \A q \in Readers \ {r} : want'[q] = want[q]
          /\ to # "idle" => pc[r] = "loop" /\ want'[r] # 0
    <2>1. CASE ReadSome(r)
      <3> DEFINE n == Smaller(want[r], ring.size)
      <3>1. /\ pc' \in NotifyOne(Writers, r, IF n = want[r] THEN "idle" ELSE "loop")
            /\ pc[r] = "loop"
            /\ want' = [want EXCEPT ![r] = want[r] - n]
        BY <2>1 DEF ReadSome
      <3>2. n \in 1..ring.size /\ n <= want[r] /\ want[r] \in 0..MaxRead
            /\ ring.size \in Nat /\ MaxRead \in Nat
        BY <2>1, DataAssumption, ReadSomeStep DEF StreamInv, TypeOK, Ring
      <3> HIDE DEF n
      <3>3. want[r] - n \in 0..MaxRead /\ (n # want[r] => want[r] - n # 0)
        BY <3>2
      <3> QED
        BY <1>0, <3>1, <3>3
    <2>2. CASE \E size \in 0..MaxRead : ReadNonblocking(r, size)
      BY <1>0, <2>2 DEF ReadNonblocking
    <2> QED
      BY <2>1, <2>2
  <1>3. /\ pc' \in [Threads -> PCs] /\ pc'[r] = to
        /\ \A t \in Threads \ {r} :
             \/ pc'[t] = pc[t]
             \/ t \in Writers /\ pc[t] = "wait" /\ pc'[t] = "loop"
    <2>1. to \in PCs
      BY DEF PCs
    <2>2. NotifyEffect(Writers, r, to, pc')
      BY <1>0, <1>2, <2>1, NotifyOneEffect
    <2> QED
      BY <2>2 DEF NotifyEffect
  <1>4. TypeOK'
    BY <1>1, <1>2, <1>3 DEF StreamInv, TypeOK, Threads, PCs
  <1>5. CallsConsistent'
    <2>1. ring'.capacity < SizeModulus /\ Configured'
      BY <1>1 DEF StreamInv, CallsConsistent, Configured
    <2>2. ASSUME NEW w \in Writers
          PROVE  /\ pc'[w] \in {"idle", "loop", "wait"}
                 /\ pc'[w] # "idle" =>
                      call_capacity'[w] = ring'.capacity /\ todo'[w] # <<>>
      BY <1>1, <1>3, ThreadKinds DEF StreamInv, CallsConsistent
    <2>3. ASSUME NEW q \in Readers
          PROVE  /\ pc'[q] \in {"idle", "loop", "wait"}
                 /\ pc'[q] # "idle" => want'[q] # 0
      <3>1. CASE q = r
        BY <1>1, <1>2, <1>3, <3>1 DEF StreamInv, CallsConsistent
      <3>2. CASE q # r
        BY <1>1, <1>2, <1>3, <3>2, ThreadKinds DEF StreamInv, CallsConsistent
      <3> QED
        BY <3>1, <3>2
    <2>4. ASSUME NEW c \in Closers
          PROVE  /\ pc'[c] \in {"idle", "notify_readers", "notify_writers"}
                 /\ pc'[c] # "idle" => ~is_open'
      BY <1>1, <1>3, ThreadKinds DEF StreamInv, CallsConsistent
    <2> QED
      BY <2>1, <2>2, <2>3, <2>4 DEF CallsConsistent
  <1> QED
    BY <1>1, <1>4, <1>5 DEF StreamInv, StreamConsistent

\* Every step keeps the invariant: one case per kind of thread.
LEMMA NextKeepsInv == StreamInv /\ [Next]_vars => StreamInv'
  <1> SUFFICES ASSUME StreamInv, [Next]_vars PROVE StreamInv'
    OBVIOUS
  <1>1. CASE SetUp
    BY <1>1, SetUpKeepsInv
  <1>2. ASSUME Configured, NEW w \in Writers, WriterStep(w) \/ SpuriousWakeup(w)
        PROVE  StreamInv'
    BY <1>2, ThreadKinds, QuietStepKeepsInv, WriterKeepsInv DEF WriterStep
  <1>3. ASSUME Configured, NEW r \in Readers, ReaderStep(r) \/ SpuriousWakeup(r)
        PROVE  StreamInv'
    BY <1>3, ThreadKinds, QuietStepKeepsInv, ReaderKeepsInv DEF ReaderStep
  <1>4. ASSUME Configured, NEW c \in Closers, CloserStep(c)
        PROVE  StreamInv'
    BY <1>4, ThreadKinds, QuietStepKeepsInv DEF CloserStep
  <1>5. CASE UNCHANGED vars
    BY <1>5 DEF vars, StreamInv, TypeOK, StreamConsistent, Consistent, Wrap,
                CallsConsistent, Configured, Ring, Threads
  <1> QED
    BY <1>1, <1>2, <1>3, <1>4, <1>5 DEF Next, ThreadStep

\* In every reachable state the variables have their types, the ring describes
\* one run of elements, and a thread inside a call knows what it relies on.
THEOREM StreamInvariant == Spec => []StreamInv
  BY InitInv, NextKeepsInv, PTL DEF Spec

\* The three separate numbers of the ring (size_, read_index_, write_index_)
\* agree in every reachable state, for any threads and any capacity.
THEOREM RingIsConsistent == Spec => []StreamConsistent
  <1>1. StreamInv => StreamConsistent
    BY DEF StreamInv
  <1> QED
    BY <1>1, StreamInvariant, PTL

\* Type correctness of the stream.
THEOREM TypeCorrect == Spec => []TypeOK
  <1>1. StreamInv => TypeOK
    BY DEF StreamInv
  <1> QED
    BY <1>1, StreamInvariant, PTL

--------------------------------------------------------------------------------
(* Nobody waits for somebody who waits.                                    *)

\* Writing elements: the woken reader is the one the invariant asks for.
LEMMA WriterKeepsWakeups ==
  ASSUME StreamInv, WakeupInv, Configured, NEW w \in Writers,
         \/ WriteSome(w)
         \/ \E data \in Payloads : WriteNonblocking(w, data)
  PROVE  WakeupInv'
  <1>0. /\ pc \in [Threads -> PCs] /\ w \in Threads /\ w \notin Readers
        /\ Readers \subseteq Threads /\ Writers \subseteq Threads
        /\ \A v \in Writers : v \notin Readers
    BY ThreadKinds
  <1>1. PICK to \in {"idle", "loop"} : pc' \in NotifyOne(Readers, w, to)
    BY DEF WriteSome, WriteNonblocking
  <1>2. NotifyEffect(Readers, w, to, pc')
    <2>1. to \in PCs
      BY DEF PCs
    <2> QED
      BY <1>0, <1>1, <2>1, NotifyOneEffect
  <1>3. Waiting(Readers)' # {} => \E r \in Readers : pc'[r] = "loop"
    BY <1>0, <1>2 DEF NotifyEffect, Waiting
  <1>4. EmptyWakesWriter'
    <2>1. CASE ring'.size # 0
      BY <2>1 DEF EmptyWakesWriter
    <2>2. CASE ring'.size = 0
      <3>1. ring.size \in Nat
        BY DEF StreamInv, TypeOK, Ring
      <3>2. ~WriteSome(w)
        <4>1. ASSUME WriteSome(w) PROVE FALSE
          <5>1. /\ WriteChunk(w) \in 1..Len(todo[w])
                /\ ring'.size = ring.size + WriteChunk(w)
            BY <4>1, WriteSomeStep
          <5> QED
            BY <2>2, <3>1, <5>1
        <4> QED
          BY <4>1
      <3>3. PICK data \in Payloads : WriteNonblocking(w, data)
        BY <3>2
      <3>4. ring' = ring
        <4>1. \/ ring' = ring
              \/ \E n \in 1..Len(data) : ring'.size = ring.size + n
          BY <3>3, WriteNonblockingStep
        <4>2. \A n \in 1..Len(data) : ring.size + n # 0
          BY <3>1
        <4> QED
          BY <2>2, <4>1, <4>2
      <3>5. /\ is_open' = is_open /\ pc[w] = "idle"
            /\ pc' \in NotifyOne(Readers, w, "idle")
        BY <3>3 DEF WriteNonblocking
      <3>6. NotifyEffect(Readers, w, "idle", pc')
        <4>1. "idle" \in PCs
          BY DEF PCs
        <4> QED
          BY <1>0, <3>5, <4>1, NotifyOneEffect
      <3>7. \A v \in Writers : pc'[v] = pc[v]
        BY <1>0, <3>5, <3>6 DEF NotifyEffect
      <3> QED
        BY <3>4, <3>5, <3>7 DEF WakeupInv, EmptyWakesWriter, Waiting
    <2> QED
      BY <2>1, <2>2
  <1> QED
    BY <1>3, <1>4 DEF WakeupInv, FullWakesReader, NoMutualWait

\* Reading elements: the woken writer is the one the invariant asks for.
LEMMA ReaderKeepsWakeups ==
  ASSUME StreamInv, WakeupInv, Configured, NEW r \in Readers,
         \/ ReadSome(r)
         \/ \E size \in 0..MaxRead : ReadNonblocking(r, size)
  PROVE  WakeupInv'
  <1>0. /\ pc \in [Threads -> PCs] /\ r \in Threads /\ r \notin Writers
        /\ Writers \subseteq Threads
    BY ThreadKinds
  <1>1. PICK to \in {"idle", "loop"} : pc' \in NotifyOne(Writers, r, to)
    BY DEF ReadSome, ReadNonblocking
  <1>2. NotifyEffect(Writers, r, to, pc')
    <2>1. to \in PCs
      BY DEF PCs
    <2> QED
      BY <1>0, <1>1, <2>1, NotifyOneEffect
  <1>3. Waiting(Writers)' # {} => \E w \in Writers : pc'[w] = "loop"
    BY <1>0, <1>2 DEF NotifyEffect, Waiting
  <1>4. ring'.size # ring'.capacity
    <2>1. PICK n \in 1..ring.size :
            ring'.size = ring.size - n /\ ring'.capacity = ring.capacity
      BY ReadSomeStep, ReadNonblockingStep
    <2>2. ring.size \in Nat /\ ring.capacity \in Nat /\ ring.size <= ring.capacity
      BY DEF StreamInv, TypeOK, StreamConsistent, Consistent, Configured, Ring
    <2> QED
      BY <2>1, <2>2
  <1> QED
    BY <1>3, <1>4 DEF WakeupInv, FullWakesReader, EmptyWakesWriter, NoMutualWait

\* A writer starts to wait only on a full stream, a reader only on an empty one.
LEMMA WaitKeepsWakeups ==
  ASSUME StreamInv, WakeupInv, Configured, NEW t \in Threads,
         \/ t \in Writers /\ WriteWait(t)
         \/ t \in Readers /\ ReadWait(t)
  PROVE  WakeupInv'
  <1>0. /\ pc \in [Threads -> PCs] /\ pc' = [pc EXCEPT ![t] = "wait"]
        /\ Writers \subseteq Threads /\ Readers \subseteq Threads
        /\ ring' = ring /\ is_open' = is_open
        /\ ring.capacity # 0
    BY ThreadKinds DEF WriteWait, ReadWait, Configured
  <1>1. CASE t \in Writers /\ WriteWait(t)
    <2>1. ring.size = ring.capacity
      BY <1>1, WriteChunkFits DEF WriteWait
    <2>2. t \notin Readers
      BY <1>1, ThreadKinds
    <2>3. \A r \in Readers : pc'[r] = pc[r]
      BY <1>0, <2>2
    <2>4. EmptyWakesWriter'
      BY <1>0, <2>1 DEF EmptyWakesWriter
    <2>5. FullWakesReader'
      BY <1>0, <2>3 DEF WakeupInv, FullWakesReader, Waiting
    <2> QED
      BY <1>0, <2>1, <2>4, <2>5 DEF WakeupInv, FullWakesReader, NoMutualWait
  <1>2. CASE t \in Readers /\ ReadWait(t)
    <2>1. ring.size = 0
      <3>1. want[t] # 0
        BY <1>2 DEF ReadWait, StreamInv, CallsConsistent
      <3> QED
        BY <1>2, <3>1 DEF ReadWait, Smaller
    <2>2. t \notin Writers
      BY <1>2, ThreadKinds
    <2>3. \A w \in Writers : pc'[w] = pc[w]
      BY <1>0, <2>2
    <2>4. FullWakesReader'
      BY <1>0, <2>1 DEF FullWakesReader
    <2>5. EmptyWakesWriter'
      BY <1>0, <2>3 DEF WakeupInv, EmptyWakesWriter, Waiting
    <2> QED
      BY <1>0, <2>1, <2>4, <2>5 DEF WakeupInv, EmptyWakesWriter, NoMutualWait
  <1> QED
    BY <1>1, <1>2

\* A thread that leaves "idle" or "wait" for "loop" joins those that run.
LEMMA StartKeepsWakeups ==
  ASSUME StreamInv, WakeupInv, NEW t \in Threads,
         \/ SpuriousWakeup(t)
         \/ \E data \in Payloads : BeginWrite(t, data)
         \/ \E n \in 0..MaxRead : BeginRead(t, n)
  PROVE  WakeupInv'
  <1>1. /\ pc \in [Threads -> PCs]
        /\ Writers \subseteq Threads /\ Readers \subseteq Threads
        /\ ring' = ring /\ is_open' = is_open
        /\ \/ pc' = [pc EXCEPT ![t] = "loop"]
           \/ pc[t] = "idle" /\ pc' = pc
    <2>1. \E to \in {"idle", "loop"} :
            pc' = [pc EXCEPT ![t] = to] /\ (to = "idle" => pc[t] = "idle")
      BY DEF SpuriousWakeup, BeginWrite, BeginRead
    <2>2. pc \in [Threads -> PCs]
      BY ThreadKinds
    <2>3. pc[t] = "idle" => [pc EXCEPT ![t] = "idle"] = pc
      BY <2>2
    <2>4. \/ pc' = [pc EXCEPT ![t] = "loop"]
          \/ pc[t] = "idle" /\ pc' = pc
      BY <2>1, <2>3
    <2>5. ring' = ring /\ is_open' = is_open
      BY DEF SpuriousWakeup, BeginWrite, BeginRead
    <2> QED
      BY <2>2, <2>4, <2>5, ThreadKinds
  <1>2. /\ Waiting(Readers)' # {} => Waiting(Readers) # {}
        /\ Waiting(Writers)' # {} => Waiting(Writers) # {}
        /\ (\E r \in Readers : pc[r] = "loop") => \E r \in Readers : pc'[r] = "loop"
        /\ (\E w \in Writers : pc[w] = "loop") => \E w \in Writers : pc'[w] = "loop"
    BY <1>1 DEF Waiting
  <1> QED
    BY <1>1, <1>2
    DEF WakeupInv, FullWakesReader, EmptyWakesWriter, NoMutualWait

\* Every step keeps somebody running when both sides wait.
LEMMA NextKeepsWakeups == StreamInv /\ WakeupInv /\ [Next]_vars => WakeupInv'
  <1> SUFFICES ASSUME StreamInv, WakeupInv, [Next]_vars PROVE WakeupInv'
    OBVIOUS
  <1>1. CASE SetUp
    <2>1. (\A t \in Threads : pc[t] = "idle") /\ pc' = pc
      BY <1>1 DEF SetUp, Reserve, StreamInv, CallsConsistent
    <2>2. Waiting(Readers)' = {} /\ Waiting(Writers)' = {}
      BY <2>1, ThreadKinds DEF Waiting
    <2> QED
      BY <2>2 DEF WakeupInv, FullWakesReader, EmptyWakesWriter, NoMutualWait
  <1>2. CASE ~is_open'
    BY <1>2 DEF WakeupInv, FullWakesReader, EmptyWakesWriter, NoMutualWait
  <1>3. ASSUME Configured, NEW w \in Writers, WriterStep(w) \/ SpuriousWakeup(w)
        PROVE  WakeupInv'
    <2>1. w \in Threads
      BY DEF Threads
    <2>2. CASE WriteClosed(w)
      BY <1>2, <2>2 DEF WriteClosed
    <2> QED
      BY <1>3, <2>1, <2>2, WriterKeepsWakeups, WaitKeepsWakeups, StartKeepsWakeups
      DEF WriterStep
  <1>4. ASSUME Configured, NEW r \in Readers, ReaderStep(r) \/ SpuriousWakeup(r)
        PROVE  WakeupInv'
    <2>1. r \in Threads
      BY DEF Threads
    <2>2. CASE ReadClosed(r)
      BY <1>2, <2>2 DEF ReadClosed
    <2> QED
      BY <1>4, <2>1, <2>2, ReaderKeepsWakeups, WaitKeepsWakeups, StartKeepsWakeups
      DEF ReaderStep
  <1>5. ASSUME NEW c \in Closers, CloserStep(c)
        PROVE  WakeupInv'
    <2>1. ~is_open'
      BY <1>5 DEF CloserStep, Close, CloseNotifyReader, CloseNotifyWriter,
                  StreamInv, CallsConsistent
    <2> QED
      BY <1>2, <2>1
  <1>6. CASE UNCHANGED vars
    BY <1>6 DEF vars, WakeupInv, FullWakesReader, EmptyWakesWriter, NoMutualWait,
                Waiting
  <1> QED
    BY <1>1, <1>3, <1>4, <1>5, <1>6 DEF Next, ThreadStep

\* Producers and consumers of an open stream never wait for each other, however
\* many there are: one notify_one per chunk is enough to keep one of them going.
THEOREM NeverMutualWait == Spec => []NoMutualWait
  <1>1. Init => WakeupInv
    BY ThreadKinds, InitInv
    DEF Init, WakeupInv, FullWakesReader, EmptyWakesWriter, NoMutualWait,
        Waiting, Threads
  <1>2. WakeupInv => NoMutualWait
    BY DEF WakeupInv
  <1> QED
    BY <1>1, <1>2, NextKeepsWakeups, StreamInvariant, PTL DEF Spec

--------------------------------------------------------------------------------
(* One producer and one consumer.                                          *)

OnePair == (\A q, r \in Readers : q = r) /\ (\A v, w \in Writers : v = w)

\* Elements that are written or read wake the only thread that may wait for
\* them, and the thread that moves them does not wait.
LEMMA TransferKeepsWaits ==
  ASSUME OnePair, StreamInv, Configured, WaitsOnlyForTheOther,
         \/ \E w \in Writers : \/ WriteSome(w)
                               \/ \E data \in Payloads : WriteNonblocking(w, data)
         \/ \E r \in Readers : \/ ReadSome(r)
                               \/ \E size \in 0..MaxRead : ReadNonblocking(r, size)
  PROVE  WaitsOnlyForTheOther'
  <1>0. /\ pc \in [Threads -> PCs] /\ Readers \subseteq Threads /\ Writers \subseteq Threads
        /\ Readers \cap Writers = {}
    BY ThreadKinds, ThreadsAssumption
  <1>1. ASSUME NEW S, NEW T, S \subseteq Threads, T \subseteq Threads, S \cap T = {},
               \A s, t \in S : s = t, \A s, t \in T : s = t,
               NEW caller \in T, NEW to \in {"idle", "loop"}, pc' \in NotifyOne(S, caller, to)
        PROVE  Waiting(S)' = {} /\ Waiting(T)' = {}
    <2>1. NotifyEffect(S, caller, to, pc')
      <3>1. to \in PCs /\ caller \in Threads /\ caller \notin S
        BY <1>1 DEF PCs
      <3> QED
        BY <1>0, <1>1, <3>1, NotifyOneEffect
    <2>2. Waiting(T)' = {}
      BY <1>1, <2>1 DEF NotifyEffect, Waiting
    <2>3. Waiting(S)' # {} => Waiting(S) # {}
      BY <1>1, <2>1 DEF NotifyEffect, Waiting
    <2>4. Waiting(S) # {} => \A s \in S : pc'[s] = "loop"
      BY <1>1, <2>1 DEF NotifyEffect
    <2> QED
      BY <2>2, <2>3, <2>4 DEF Waiting
  <1>2. Waiting(Readers)' = {} /\ Waiting(Writers)' = {}
    <2>1. CASE \E w \in Writers : \/ WriteSome(w)
                                  \/ \E data \in Payloads : WriteNonblocking(w, data)
      <3>1. PICK w \in Writers, to \in {"idle", "loop"} : pc' \in NotifyOne(Readers, w, to)
        BY <2>1 DEF WriteSome, WriteNonblocking
      <3> QED
        BY <1>0, <1>1, <3>1 DEF OnePair
    <2>2. CASE \E r \in Readers : \/ ReadSome(r)
                                  \/ \E size \in 0..MaxRead : ReadNonblocking(r, size)
      <3>1. PICK r \in Readers, to \in {"idle", "loop"} : pc' \in NotifyOne(Writers, r, to)
        BY <2>2 DEF ReadSome, ReadNonblocking
      <3> QED
        BY <1>0, <1>1, <3>1 DEF OnePair
    <2> QED
      BY <2>1, <2>2
  <1> QED
    BY <1>2 DEF WaitsOnlyForTheOther

\* Every other step: a thread starts to wait, runs again, or returns.
LEMMA NextKeepsWaits ==
  OnePair /\ StreamInv /\ WaitsOnlyForTheOther /\ [Next]_vars => WaitsOnlyForTheOther'
  <1> SUFFICES ASSUME OnePair, StreamInv, WaitsOnlyForTheOther, [Next]_vars
               PROVE  WaitsOnlyForTheOther'
    OBVIOUS
  <1>0. /\ pc \in [Threads -> PCs] /\ Readers \subseteq Threads /\ Writers \subseteq Threads
        /\ Readers \cap Writers = {}
    BY ThreadKinds, ThreadsAssumption
  <1>1. CASE ~is_open'
    BY <1>1 DEF WaitsOnlyForTheOther
  <1>2. CASE SetUp
    <2>1. (\A t \in Threads : pc[t] = "idle") /\ pc' = pc
      BY <1>2 DEF SetUp, Reserve, StreamInv, CallsConsistent
    <2> QED
      BY <1>0, <2>1 DEF WaitsOnlyForTheOther, Waiting
  <1>3. ASSUME NEW t \in Threads,
               \/ SpuriousWakeup(t)
               \/ \E data \in Payloads : BeginWrite(t, data)
               \/ \E n \in 0..MaxRead : BeginRead(t, n)
        PROVE  WaitsOnlyForTheOther'
    <2>1. /\ ring' = ring /\ is_open' = is_open
          /\ \E to \in {"idle", "loop"} : pc' = [pc EXCEPT ![t] = to]
      BY <1>3 DEF SpuriousWakeup, BeginWrite, BeginRead
    <2> QED
      BY <1>0, <2>1 DEF WaitsOnlyForTheOther, Waiting
  <1>4. ASSUME Configured, NEW w \in Writers, WriteWait(w)
        PROVE  WaitsOnlyForTheOther'
    <2>1. /\ ring' = ring /\ is_open' = is_open /\ pc' = [pc EXCEPT ![w] = "wait"]
          /\ ring.size = ring.capacity
      BY <1>4, WriteChunkFits DEF WriteWait
    <2>2. Waiting(Readers)' = Waiting(Readers)
      BY <1>0, <2>1 DEF Waiting
    <2> QED
      BY <2>1, <2>2 DEF WaitsOnlyForTheOther
  <1>5. ASSUME Configured, NEW r \in Readers, ReadWait(r)
        PROVE  WaitsOnlyForTheOther'
    <2>1. ring' = ring /\ is_open' = is_open /\ pc' = [pc EXCEPT ![r] = "wait"]
      BY <1>5 DEF ReadWait
    <2>2. ring.size = 0
      BY <1>5 DEF ReadWait, StreamInv, CallsConsistent, Smaller
    <2>3. Waiting(Writers)' = Waiting(Writers)
      BY <1>0, <2>1 DEF Waiting
    <2> QED
      BY <2>1, <2>2, <2>3 DEF WaitsOnlyForTheOther
  <1>6. ASSUME Configured, NEW w \in Writers, WriterStep(w)
        PROVE  WaitsOnlyForTheOther'
    <2>1. WriteClosed(w) => ~is_open'
      BY DEF WriteClosed
    <2> QED
      BY <1>0, <1>1, <1>3, <1>4, <1>6, <2>1, TransferKeepsWaits DEF WriterStep
  <1>7. ASSUME Configured, NEW r \in Readers, ReaderStep(r)
        PROVE  WaitsOnlyForTheOther'
    <2>1. ReadClosed(r) => ~is_open'
      BY DEF ReadClosed
    <2> QED
      BY <1>0, <1>1, <1>3, <1>5, <1>7, <2>1, TransferKeepsWaits DEF ReaderStep
  <1>8. ASSUME NEW c \in Closers, CloserStep(c)
        PROVE  WaitsOnlyForTheOther'
    <2>1. ~is_open'
      BY <1>8 DEF CloserStep, Close, CloseNotifyReader, CloseNotifyWriter,
                  StreamInv, CallsConsistent
    <2> QED
      BY <1>1, <2>1
  <1>9. CASE UNCHANGED vars
    BY <1>9 DEF vars, WaitsOnlyForTheOther, Waiting
  <1> QED
    BY <1>0, <1>2, <1>3, <1>6, <1>7, <1>8, <1>9 DEF Next, ThreadStep

\* With one consumer and one producer, as the class is meant to be used, Read
\* waits only while the stream is empty and Write only while it is full.
THEOREM PairWaitsOnlyForTheOther == OnePair => (Spec => []WaitsOnlyForTheOther)
  <1> SUFFICES ASSUME OnePair PROVE Spec => []WaitsOnlyForTheOther
    OBVIOUS
  <1>1. Init => WaitsOnlyForTheOther
    BY ThreadKinds DEF Init, WaitsOnlyForTheOther, Waiting, Threads
  <1>2. StreamInv /\ WaitsOnlyForTheOther /\ [Next]_vars => WaitsOnlyForTheOther'
    BY NextKeepsWaits
  <1> QED
    BY <1>1, <1>2, StreamInvariant, PTL DEF Spec

--------------------------------------------------------------------------------
(* The stream implements the bounded queue.                                *)

\* An empty ring holds the empty sequence.
LEMMA EmptyContent ==
  ASSUME NEW r, r.size = 0
  PROVE  Content(r) = <<>>
  BY DEF Content

\* A step that leaves the ring alone leaves its content alone.
LEMMA QuietContent ==
  ASSUME ring' = ring
  PROVE  Content(ring)' = Content(ring) /\ ring'.capacity = ring.capacity
  BY DEF Content

\* The stream starts as the empty, open queue.
LEMMA InitImplements == Init => Stream!Init
  BY EmptyContent DEF Init, Stream!Init

\* Reserve sets the capacity of the queue.
LEMMA SetUpImplements ==
  ASSUME StreamInv, SetUp
  PROVE  Stream!SetCapacity
  <1>1. PICK n \in Capacities : Reserve(n)
    BY DEF SetUp
  <1>2. ring.size = 0 /\ n \in Nat
    BY <1>1, DataAssumption, SizeAssumption
    DEF SetUp, Configured, StreamInv, StreamConsistent, TypeOK, Consistent, Ring
  <1>3. /\ ring'.size = 0 /\ ring'.capacity = n
        /\ UNCHANGED <<is_open, todo, got>>
    BY <1>1, <1>2 DEF Reserve
  <1>4. Content(ring) = <<>> /\ Content(ring)' = <<>>
    BY <1>2, <1>3, EmptyContent DEF Content
  <1> QED
    BY <1>2, <1>3, <1>4 DEF Stream!SetCapacity

\* The content of a configured stream has size_ elements.
LEMMA ContentSize ==
  ASSUME StreamInv, Configured
  PROVE  Len(Content(ring)) = ring.size
  <1> DEFINE cap == ring.capacity
  <1>1. /\ cap \in Nat /\ cap > 0
        /\ ring \in Ring(cap) /\ ring.capacity = cap /\ Consistent(ring)
    BY DEF StreamInv, TypeOK, StreamConsistent, Configured, Ring
  <1> HIDE DEF cap
  <1> QED
    BY <1>1, ContentSeq

\* A writer's step hands over data, puts it into the queue, or gives up.
LEMMA WriterImplements ==
  ASSUME StreamInv, Configured, NEW w \in Writers, WriterStep(w)
  PROVE  [Stream!Next]_(Stream!vars)
  <1>1. ASSUME NEW data \in Payloads, BeginWrite(w, data)
        PROVE  Stream!Submit(w, data)
    BY <1>1, QuietContent DEF BeginWrite, Stream!Submit
  <1>2. ASSUME NEW data \in Payloads, WriteNonblocking(w, data)
        PROVE  \/ \E n \in 1..Len(data) : Stream!PutPrefix(data, n)
               \/ UNCHANGED Stream!vars
    <2>1. is_open /\ UNCHANGED <<is_open, todo, got>>
      BY <1>2 DEF WriteNonblocking
    <2>2. ring'.capacity = ring.capacity
      BY <1>2, WriteNonblockingStep
    <2>3. CASE ring' = ring
      BY <2>1, <2>3, QuietContent DEF Stream!vars
    <2>4. CASE \E n \in 1..Len(data) :
                 /\ ring.size + n <= ring.capacity
                 /\ Content(ring)' = Content(ring) \o SubSeq(data, 1, n)
      <3>1. Len(Content(ring)) = ring.size
        BY ContentSize
      <3> QED
        BY <2>1, <2>2, <2>4, <3>1 DEF Stream!PutPrefix
    <2> QED
      BY <1>2, <2>3, <2>4, WriteNonblockingStep
  <1>3. ASSUME WriteClosed(w)
        PROVE  Stream!Abandon(w)
    BY <1>3, QuietContent DEF WriteClosed, Stream!Abandon
  <1>4. ASSUME WriteWait(w)
        PROVE  UNCHANGED Stream!vars
    BY <1>4, QuietContent DEF WriteWait, Stream!vars
  <1>5. ASSUME WriteSome(w)
        PROVE  \E n \in 1..Len(todo[w]) : Stream!Put(w, n)
    <2> DEFINE n == WriteChunk(w)
    <2>1. /\ n \in 1..Len(todo[w]) /\ ring.size + n <= ring.capacity
          /\ ring'.capacity = ring.capacity
          /\ Content(ring)' = Content(ring) \o SubSeq(todo[w], 1, n)
      BY <1>5, WriteSomeStep
    <2>2. /\ is_open /\ UNCHANGED <<is_open, got>>
          /\ todo' = [todo EXCEPT ![w] = SubSeq(todo[w], n + 1, Len(todo[w]))]
      BY <1>5 DEF WriteSome
    <2>3. Len(Content(ring)) = ring.size
      BY ContentSize
    <2> HIDE DEF n
    <2>4. Stream!Put(w, n)
      BY <2>1, <2>2, <2>3 DEF Stream!Put
    <2> QED
      BY <2>1, <2>4
  <1> QED
    BY <1>1, <1>2, <1>3, <1>4, <1>5 DEF WriterStep, Stream!Next

\* A reader's step takes elements from the front of the queue.
LEMMA ReaderImplements ==
  ASSUME StreamInv, Configured, NEW r \in Readers, ReaderStep(r)
  PROVE  [Stream!Next]_(Stream!vars)
  <1>1. ASSUME NEW n \in 0..MaxRead, BeginRead(r, n)
        PROVE  Stream!StartRead(r)
    BY <1>1, QuietContent DEF BeginRead, Stream!StartRead
  <1>2. ASSUME NEW size \in 0..MaxRead, ReadNonblocking(r, size)
        PROVE  \E n \in 1..Len(Content(ring)) : Stream!Take(r, <<>>, n)
    <2> DEFINE n == Smaller(size, ring.size)
               part == SubSeq(Content(ring), 1, n)
    <2>1. /\ n \in 1..ring.size /\ Len(Content(ring)) = ring.size
          /\ ring'.capacity = ring.capacity
          /\ Content(ring) \in Seq(Element)
          /\ Content(ring)' = SubSeq(Content(ring), n + 1, Len(Content(ring)))
          /\ CopyWrapped(ring, n) = part
      BY <1>2, ReadNonblockingStep
    <2>2. /\ is_open /\ UNCHANGED <<is_open, todo>>
          /\ got' = [got EXCEPT ![r] = CopyWrapped(ring, n)]
      BY <1>2 DEF ReadNonblocking
    <2>3. part \in Seq(Element)
      <3> HIDE DEF n
      <3>1. n \in Nat /\ n <= Len(Content(ring))
        BY <2>1
      <3> QED
        BY <2>1, <3>1, Parts
    <2> HIDE DEF part, n
    <2>4. <<>> \o part = part
      BY <2>3, ConcatEmptySeq
    <2>5. Stream!Take(r, <<>>, n)
      BY <2>1, <2>2, <2>4 DEF Stream!Take, part
    <2> QED
      BY <2>1, <2>5
  <1>3. ASSUME ReadClosed(r) \/ ReadWait(r)
        PROVE  UNCHANGED Stream!vars
    BY <1>3, QuietContent DEF ReadClosed, ReadWait, Stream!vars
  <1>4. ASSUME ReadSome(r)
        PROVE  \E n \in 1..Len(Content(ring)) : Stream!Take(r, got[r], n)
    <2> DEFINE n == Smaller(want[r], ring.size)
    <2>1. /\ n \in 1..ring.size /\ Len(Content(ring)) = ring.size
          /\ ring'.capacity = ring.capacity
          /\ Content(ring)' = SubSeq(Content(ring), n + 1, Len(Content(ring)))
          /\ CopyWrapped(ring, n) = SubSeq(Content(ring), 1, n)
      BY <1>4, ReadSomeStep
    <2>2. /\ is_open /\ UNCHANGED <<is_open, todo>>
          /\ got' = [got EXCEPT ![r] = got[r] \o CopyWrapped(ring, n)]
      BY <1>4 DEF ReadSome
    <2> HIDE DEF n
    <2>3. Stream!Take(r, got[r], n)
      BY <2>1, <2>2 DEF Stream!Take
    <2> QED
      BY <2>1, <2>3
  <1> QED
    BY <1>1, <1>2, <1>3, <1>4 DEF ReaderStep, Stream!Next

\* Every step of the stream is a step of the queue or a stutter.
LEMMA NextImplements == StreamInv /\ [Next]_vars => [Stream!Next]_(Stream!vars)
  <1> SUFFICES ASSUME StreamInv, [Next]_vars PROVE [Stream!Next]_(Stream!vars)
    OBVIOUS
  <1>1. CASE SetUp
    BY <1>1, SetUpImplements DEF Stream!Next
  <1>2. ASSUME NEW t \in Threads, SpuriousWakeup(t)
        PROVE  UNCHANGED Stream!vars
    BY <1>2, QuietContent DEF SpuriousWakeup, Stream!vars
  <1>3. ASSUME NEW c \in Closers, CloserStep(c)
        PROVE  [Stream!Next]_(Stream!vars)
    <2>1. CASE Close(c)
      BY <2>1, QuietContent DEF Close, Stream!CloseStream, Stream!Next
    <2>2. CASE CloseNotifyReader(c) \/ CloseNotifyWriter(c)
      BY <2>2, QuietContent DEF CloseNotifyReader, CloseNotifyWriter, Stream!vars
    <2> QED
      BY <1>3, <2>1, <2>2 DEF CloserStep
  <1>4. CASE UNCHANGED vars
    BY <1>4, QuietContent DEF vars, Stream!vars
  <1> QED
    BY <1>1, <1>2, <1>3, <1>4, WriterImplements, ReaderImplements, ThreadKinds
    DEF Next, ThreadStep

\* However the threads interleave, the stream is one bounded first-in first-out
\* queue: no element is lost, repeated or reordered, and nothing moves once it
\* is closed.
THEOREM StreamImplementsQueue == Spec => ImplementsStream
  BY InitImplements, NextImplements, StreamInvariant, PTL
  DEF Spec, ImplementsStream, Stream!Spec
================================================================================
