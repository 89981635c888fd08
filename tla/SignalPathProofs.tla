---------------------------- MODULE SignalPathProofs ---------------------------
(***************************************************************************)
(* Proofs about SignalPath, for any number of controllers, any set of      *)
(* options whose sample rates divide, and batches of any size. The         *)
(* inductive invariant is PathInv.                                         *)
(***************************************************************************)
EXTENDS SignalPath, FoldProofs

--------------------------------------------------------------------------------
(* Arithmetic: the ratios are positive, and what a decimator is given room  *)
(* for is what it outputs at most.                                          *)

\* A set of numbers that is not empty has a minimum.
LEMMA MinIsLeast ==
  ASSUME NEW S \in SUBSET Nat, S # {}
  PROVE  Min(S) \in S /\ \A y \in S : Min(S) <= y
  <1> DEFINE R == {ss \in Nat \X Nat : ss[1] < ss[2]}
  <1>1. IsWellFoundedOn(R, Nat)
    BY NatLessThanWellFounded, Zenon DEF OpToRel
  <1> HIDE DEF R
  <1>2. PICK x \in S : \A y \in S : ~ (<<y, x>> \in R)
    BY <1>1, WFMin
  <1>3. ASSUME NEW y \in S PROVE x <= y
    <2>1. <<y, x>> \in Nat \X Nat /\ <<y, x>>[1] = y /\ <<y, x>>[2] = x
      OBVIOUS
    <2>2. ~ (y < x)
      BY <1>2, <2>1, Zenon DEF R
    <2> QED
      BY <2>2
  <1> QED
    BY <1>3 DEF Min

\* The volume stays between silence and full, and without a sample it stays.
LEMMA LouderType ==
  ASSUME NEW v \in 0..FullVolume, NEW n \in Nat
  PROVE  Louder(v, n) \in 0..FullVolume /\ Louder(v, 0) = v
  <1>1. FullVolume \in Nat
    BY BoundsAssumption
  <1>2. Louder(v, n) \in {FullVolume, v + n} /\ Louder(v, n) <= FullVolume
    BY <1>1, MinIsLeast DEF Louder
  <1>3. Louder(v, 0) \in {FullVolume, v} /\ Louder(v, 0) <= v
    BY <1>1, MinIsLeast DEF Louder
  <1>4. Louder(v, 0) = v
    BY <1>1, <1>3
  <1> QED
    BY <1>1, <1>2, <1>4

\* One divisor of a product that is not zero is at most the product.
LEMMA ProductBound ==
  ASSUME NEW a \in Nat \ {0}, NEW b \in Nat \ {0}
  PROVE  a * b \in Nat \ {0} /\ a <= a * b
  <1>1. a * b = a * (b - 1) + a
    OBVIOUS
  <1>2. a * (b - 1) \in Nat
    OBVIOUS
  <1> QED
    BY <1>1, <1>2

\* A number that divides a positive one is at most as great.
LEMMA DividesAtMost ==
  ASSUME NEW a \in Nat \ {0}, NEW b \in Nat \ {0}, a % b = 0
  PROVE  a \div b \in Nat \ {0}
  <1>1. a \div b \in Int /\ (a \div b = 0 => a < b)
    OBVIOUS
  <1>2. a \div b # 0
    <2>1. a < b => a % b = a
      OBVIOUS
    <2> QED
      BY <1>1, <2>1
  <1>3. a \div b >= 0
    OBVIOUS
  <1> QED
    BY <1>1, <1>2, <1>3

LEMMA IfToAfType ==
  ASSUME NEW o \in Options
  PROVE  /\ IfToAf(o) \in Nat \ {0}
         /\ o.input_rate % (o.audio_rate * IfToAf(o)) = 0
  <1> DEFINE whole == o.input_rate \div o.audio_rate
             suits == {r \in 2..whole : /\ Fits(o.audio_rate * r, o)
                                        /\ o.input_rate % (o.audio_rate * r) = 0}
  <1>1. /\ o.input_rate \in Nat \ {0} /\ o.audio_rate \in Nat \ {0}
        /\ o.input_rate % o.audio_rate = 0
    BY OptionsAssumption DEF Configuration
  <1>2. whole \in Nat \ {0}
    BY <1>1, DividesAtMost
  <1>3. o.audio_rate * whole = o.input_rate
    BY <1>1
  <1>4. suits \in SUBSET Nat /\ \A r \in suits : r # 0 /\ o.input_rate % (o.audio_rate * r) = 0
    BY <1>2
  <1>5. suits # {} => Min(suits) \in suits
    BY <1>4, MinIsLeast
  <1>6. IfToAf(o) \in {1, whole} \/ (suits # {} /\ IfToAf(o) = Min(suits))
    BY DEF IfToAf
  <1> HIDE DEF whole, suits
  <1>7. CASE IfToAf(o) = 1
    BY <1>1, <1>7
  <1>8. CASE IfToAf(o) = whole
    <2>1. o.input_rate % o.input_rate = 0
      BY <1>1
    <2> QED
      BY <1>2, <1>3, <1>8, <2>1
  <1>9. CASE suits # {} /\ IfToAf(o) = Min(suits)
    BY <1>4, <1>5, <1>9
  <1> QED
    BY <1>6, <1>7, <1>8, <1>9

LEMMA IqToIfType ==
  ASSUME NEW o \in Options
  PROVE  IqToIf(o) \in Nat \ {0}
  <1>1. o.input_rate \in Nat \ {0} /\ o.audio_rate \in Nat \ {0}
    BY OptionsAssumption DEF Configuration
  <1>2. o.audio_rate * IfToAf(o) \in Nat \ {0}
    BY <1>1, IfToAfType, ProductBound
  <1> QED
    BY <1>1, <1>2, IfToAfType, DividesAtMost DEF IqToIf

LEMMA FilterRatioType ==
  ASSUME NEW o \in Options
  PROVE  FilterRatio(o) \in Nat \ {0}
  <1> DEFINE rate == 2 * o.bandwidth
             ratio == (2 * IfRate(o) + rate) \div (2 * rate)
  <1>1. o.input_rate \in Nat \ {0} /\ rate \in Nat \ {0}
    BY OptionsAssumption DEF Configuration
  <1>2. IfRate(o) \in Nat
    BY <1>1, IqToIfType DEF IfRate
  <1>3. FilterRatio(o) = IF IfRate(o) <= rate THEN 1 ELSE Min({25, ratio})
    BY DEF FilterRatio
  <1>4. CASE IfRate(o) <= rate
    BY <1>3, <1>4
  <1>5. CASE ~ (IfRate(o) <= rate)
    <2>1. 2 * IfRate(o) + rate >= 2 * rate /\ 2 * IfRate(o) + rate \in Nat
      BY <1>1, <1>2, <1>5
    <2>2. ratio \in Nat \ {0}
      BY <1>1, <2>1
    <2>3. Min({25, ratio}) \in {25, ratio}
      BY <2>2, MinIsLeast
    <2> QED
      BY <1>3, <1>5, <2>2, <2>3
  <1> QED
    BY <1>4, <1>5
LEMMA QuotientsAreOrdered ==
  ASSUME NEW r \in Nat \ {0}, NEW a \in Nat, NEW b \in Nat, a <= b
  PROVE  a \div r \in Nat /\ a \div r <= b \div r
  <1> DEFINE p == a \div r
             q == b \div r
  <1>1. p \in Nat /\ q \in Nat
    OBVIOUS
  <1>2. r * p <= a /\ b < r * (q + 1)
    OBVIOUS
  <1> HIDE DEF p, q
  <1>3. r * p < r * (q + 1)
    BY <1>1, <1>2
  <1>4. p < q + 1
    BY <1>1, <1>3
  <1>5. p <= q
    BY <1>1, <1>4
  <1> QED
    BY <1>1, <1>5 DEF p, q

\* What a decimator outputs, what waits in it, and the room for the output.
LEMMA DecimatorFits ==
  ASSUME NEW r \in Nat \ {0}, NEW l \in Nat, l < r, NEW n \in Nat
  PROVE  /\ Decimated(r, l, n) \in Nat
         /\ Unprocessed(r, l, n) \in Nat /\ Unprocessed(r, l, n) < r
         /\ Needed(r, n) \in Nat /\ Decimated(r, l, n) <= Needed(r, n)
  <1>1. (l + n) \div r \in Nat /\ (l + n) \div r <= (n + r - 1) \div r
    <2>1. l + n \in Nat /\ n + r - 1 \in Nat /\ l + n <= n + r - 1
      OBVIOUS
    <2> QED
      BY <2>1, QuotientsAreOrdered
  <1>2. Needed(r, n) \in Nat /\ (r = 1 => Needed(r, n) = n)
    BY DEF Needed
  <1>3. (l + n) % r \in Nat /\ (l + n) % r < r
    OBVIOUS
  <1> HIDE DEF Needed
  <1>4. Decimated(r, l, n) \in Nat /\ Decimated(r, l, n) <= Needed(r, n)
    <2>1. CASE r = 1
      BY <1>2, <2>1 DEF Decimated
    <2>2. CASE r # 1
      BY <1>1, <2>2 DEF Decimated, Needed
    <2> QED
      BY <2>1, <2>2
  <1>5. Unprocessed(r, l, n) \in Nat /\ Unprocessed(r, l, n) < r
    BY <1>3 DEF Unprocessed
  <1> QED
    BY <1>2, <1>4, <1>5

\* The receive filter, decimation and interpolation, is given enough room.
LEMMA FilterFits ==
  ASSUME NEW f \in Nat \ {0}, NEW l \in Nat, l < f,
         NEW n \in Nat, NEW room \in Nat, n <= room
  PROVE  /\ f * Decimated(f, l, n) \in Nat
         /\ FilterNeeded(f, room) \in Nat
         /\ f * Decimated(f, l, n) <= FilterNeeded(f, room)
  <1>1. Decimated(f, l, n) \in Nat /\ Decimated(f, l, n) <= Needed(f, n)
    BY DecimatorFits
  <1>2. Needed(f, n) \in Nat /\ Needed(f, n) <= Needed(f, room) /\ Needed(f, room) \in Nat
    <2>1. n + f - 1 \in Nat /\ room + f - 1 \in Nat /\ n + f - 1 <= room + f - 1
      OBVIOUS
    <2> QED
      BY <2>1, QuotientsAreOrdered DEF Needed
  <1>3. f * Decimated(f, l, n) \in Nat /\ f * Decimated(f, l, n) <= f * Needed(f, room)
    <2> DEFINE d == Decimated(f, l, n)
               w == Needed(f, room)
    <2>1. d \in Nat /\ w \in Nat /\ d <= w
      BY <1>1, <1>2
    <2> HIDE DEF d, w
    <2>2. f * d \in Nat /\ f * d <= f * w
      BY <2>1
    <2> QED
      BY <2>2 DEF d, w
  <1>4. CASE f = 1
    BY <1>1, <1>2, <1>4 DEF FilterNeeded, Decimated
  <1>5. CASE f # 1
    <2>1. Needed(f, room) * f \in Nat /\ Needed(f, room) * f = f * Needed(f, room)
      BY <1>2
    <2> QED
      BY <1>3, <1>5, <2>1 DEF FilterNeeded
  <1> QED
    BY <1>4, <1>5
--------------------------------------------------------------------------------
(* The lists of sinks.                                                      *)

\* Erase goes through the list once, and keeps what is not erased.
LEMMA EraseFold ==
  ASSUME NEW c, NEW S, NEW seq \in Seq(S)
  PROVE  \E h : /\ h[0] = <<>> /\ h[Len(seq)] = Erase(c, seq)
                /\ \A k \in 1 .. Len(seq) : h[k] = KeepOther(c, h[k - 1], seq[k])
  <1> DEFINE n == Len(seq)
             Solves(it) == it = [s \in SUBSET DOMAIN seq |->
                                  IF s = {} THEN <<>>
                                  ELSE LET x == Max(s) IN KeepOther(c, it[s \ {x}], seq[x])]
             f == [p \in Seq(S) \X (1 .. n) |-> KeepOther(c, p[1], seq[p[2]])]
             h(it) == [k \in 0 .. n |-> it[1 .. k]]
  <1>1. n \in Nat /\ DOMAIN seq = 1 .. n /\ <<>> \in Seq(S)
    OBVIOUS
  <1>2. f \in [Seq(S) \X (1 .. n) -> Seq(S)]
    BY <1>1 DEF KeepOther
  <1>3. PICK g \in [SUBSET (1 .. n) -> Seq(S)] : FoldOf(g, <<>>, n, f)
    <2> HIDE DEF f, n
    <2> QED
      BY <1>1, <1>2, FoldExists
  <1>4. Solves(g)
    <2>1. ASSUME NEW s \in SUBSET (1 .. n), s # {}
          PROVE  Max(s) \in 1 .. n /\ g[s \ {Max(s)}] \in Seq(S)
      <3>1. Max(s) \in s
        BY <1>1, <2>1, GreatestOfSome
      <3> QED
        BY <3>1
    <2> QED
      BY <1>1, <1>3, <2>1 DEF FoldOf
  <1> DEFINE i == CHOOSE it : Solves(it)
  <1>5. Solves(i)
    BY <1>4
  <1>6. Erase(c, seq) = i[DOMAIN seq]
    BY DEF Erase, FoldLeft, MapThenFoldSet
  <1> HIDE DEF i, f
  <1>7. i[1 .. 0] = <<>>
    BY <1>1, <1>5, InitialIndices
  <1>8. \A k \in 1 .. n : i[1 .. k] = KeepOther(c, i[1 .. (k - 1)], seq[k])
    <2> SUFFICES ASSUME NEW k \in 1 .. n
                 PROVE  i[1 .. k] = KeepOther(c, i[1 .. (k - 1)], seq[k])
      OBVIOUS
    <2>1. /\ 1 .. k \in SUBSET DOMAIN seq /\ 1 .. k # {} /\ Max(1 .. k) = k
          /\ (1 .. k) \ {k} = 1 .. (k - 1)
      BY <1>1, InitialIndices
    <2> QED
      BY <1>5, <2>1
  <1>9. h(i)[0] = <<>> /\ h(i)[n] = Erase(c, seq)
    BY <1>1, <1>6, <1>7
  <1>10. \A k \in 1 .. n : h(i)[k] = KeepOther(c, h(i)[k - 1], seq[k])
    BY <1>1, <1>8, InitialIndices
  <1> QED
    BY <1>9, <1>10

\* A list that grows by one has one more of its last element, and as many of
\* every other one.
LEMMA OccurrencesAppend ==
  ASSUME NEW S, NEW seq \in Seq(S), NEW d \in S, NEW x \in S
  PROVE  /\ Occurrences(seq, x) \in Nat
         /\ Occurrences(Append(seq, d), x) = Occurrences(seq, x) + IF d = x THEN 1 ELSE 0
  <1> DEFINE n == Len(seq)
             at == {i \in DOMAIN seq : seq[i] = x}
             more == {i \in DOMAIN Append(seq, d) : Append(seq, d)[i] = x}
  <1>1. n \in Nat /\ DOMAIN seq = 1 .. n /\ DOMAIN Append(seq, d) = 1 .. n + 1
    OBVIOUS
  <1>2. Append(seq, d)[n + 1] = d /\ \A i \in 1 .. n : Append(seq, d)[i] = seq[i]
    OBVIOUS
  <1>3. IsFiniteSet(at) /\ n + 1 \notin at
    <2>1. IsFiniteSet(1 .. n) /\ at \in SUBSET (1 .. n)
      BY <1>1, FS_Interval
    <2> QED
      BY <1>1, <2>1, FS_Subset
  <1>4. more = IF d = x THEN at \union {n + 1} ELSE at
    BY <1>1, <1>2
  <1>5. Occurrences(seq, x) = Cardinality(at)
        /\ Occurrences(Append(seq, d), x) = Cardinality(more)
    BY DEF Occurrences
  <1> HIDE DEF at, more, n
  <1>6. Cardinality(at) \in Nat
    BY <1>3, FS_CardinalityType
  <1>7. Cardinality(at \union {n + 1}) = Cardinality(at) + 1
    BY <1>3, FS_AddElement
  <1> QED
    BY <1>4, <1>5, <1>6, <1>7

LEMMA OccurrencesEmpty ==
  ASSUME NEW S, NEW x \in S
  PROVE  Occurrences(<<>>, x) = 0
  <1>1. {i \in DOMAIN <<>> : <<>>[i] = x} = {}
    OBVIOUS
  <1> QED
    BY <1>1, FS_EmptySet DEF Occurrences

\* An element that is nowhere in a list occurs no time.
LEMMA OccurrencesNone ==
  ASSUME NEW S, NEW seq \in Seq(S), NEW x \in S
  PROVE  Occurrences(seq, x) = 0 <=> \A i \in DOMAIN seq : seq[i] # x
  <1> DEFINE at == {i \in DOMAIN seq : seq[i] = x}
  <1>1. IsFiniteSet(at)
    <2>1. Len(seq) \in Nat /\ DOMAIN seq = 1 .. Len(seq)
      OBVIOUS
    <2>2. IsFiniteSet(1 .. Len(seq)) /\ at \in SUBSET (1 .. Len(seq))
      BY <2>1, FS_Interval
    <2> QED
      BY <2>2, FS_Subset
  <1>2. Cardinality(at) = 0 <=> at = {}
    BY <1>1, FS_EmptySet
  <1> QED
    BY <1>2 DEF Occurrences

\* The list before and after one more of its elements.
LEMMA OneMore ==
  ASSUME NEW S, NEW seq \in Seq(S), NEW k \in 1 .. Len(seq)
  PROVE  /\ SubSeq(seq, 1, k - 1) \in Seq(S) /\ seq[k] \in S
         /\ SubSeq(seq, 1, k) = Append(SubSeq(seq, 1, k - 1), seq[k])
  OBVIOUS

\* RemoveSink removes every entry of a sink and leaves the others as they are.
LEMMA EraseRemovesAll ==
  ASSUME NEW S, NEW seq \in Seq(S), NEW c \in S
  PROVE  /\ Erase(c, seq) \in Seq(S)
         /\ \A x \in S : Occurrences(Erase(c, seq), x) =
                           IF x = c THEN 0 ELSE Occurrences(seq, x)
  <1> DEFINE n == Len(seq)
             Left(s, k) == /\ s \in Seq(S)
                           /\ \A x \in S : Occurrences(s, x) =
                                IF x = c THEN 0 ELSE Occurrences(SubSeq(seq, 1, k), x)
  <1>1. PICK h : /\ h[0] = <<>> /\ h[n] = Erase(c, seq)
                 /\ \A k \in 1 .. n : h[k] = KeepOther(c, h[k - 1], seq[k])
    BY EraseFold
  <1> DEFINE Good == {k \in Nat : k <= n => Left(h[k], k)}
  <1>2. n \in Nat /\ SubSeq(seq, 1, 0) = <<>> /\ SubSeq(seq, 1, n) = seq
    OBVIOUS
  <1>3. 0 \in Good
    <2>1. \A x \in S : Occurrences(<<>>, x) = 0
      BY OccurrencesEmpty
    <2>2. \A x \in S : Occurrences(SubSeq(seq, 1, 0), x) = 0
      BY <1>2, <2>1, Zenon
    <2>3. <<>> \in Seq(S)
      OBVIOUS
    <2>4. Left(<<>>, 0)
      BY <2>1, <2>2, <2>3, Zenon
    <2> QED
      BY <1>1, <2>4
  <1>4. ASSUME NEW k \in Nat, k \in Good PROVE k + 1 \in Good
    <2> SUFFICES ASSUME k + 1 <= n PROVE Left(h[k + 1], k + 1)
      OBVIOUS
    <2>1. k <= n /\ k + 1 \in 1 .. n /\ (k + 1) - 1 = k
      BY <1>2
    <2>2. Left(h[k], k)
      BY <1>4, <2>1
    <2>3. h[k + 1] = KeepOther(c, h[k], seq[k + 1])
      BY <1>1, <2>1
    <2>4. /\ SubSeq(seq, 1, k) \in Seq(S) /\ seq[k + 1] \in S
          /\ SubSeq(seq, 1, k + 1) = Append(SubSeq(seq, 1, k), seq[k + 1])
      BY <2>1, OneMore
    <2>5. ASSUME NEW x \in S
          PROVE  /\ Occurrences(SubSeq(seq, 1, k + 1), x) =
                      Occurrences(SubSeq(seq, 1, k), x) + IF seq[k + 1] = x THEN 1 ELSE 0
                 /\ Occurrences(SubSeq(seq, 1, k), x) \in Nat
                 /\ Occurrences(Append(h[k], seq[k + 1]), x) =
                      Occurrences(h[k], x) + IF seq[k + 1] = x THEN 1 ELSE 0
      <3> DEFINE before == SubSeq(seq, 1, k)
                 e == seq[k + 1]
                 kept == h[k]
      <3>1. before \in Seq(S) /\ e \in S /\ kept \in Seq(S)
        BY <2>2, <2>4
      <3>2. SubSeq(seq, 1, k + 1) = Append(before, e)
        BY <2>4
      <3> HIDE DEF before, e, kept, Left
      <3>3. /\ Occurrences(before, x) \in Nat
            /\ Occurrences(Append(before, e), x) =
                 Occurrences(before, x) + IF e = x THEN 1 ELSE 0
        BY <3>1, OccurrencesAppend
      <3>4. Occurrences(Append(kept, e), x) = Occurrences(kept, x) + IF e = x THEN 1 ELSE 0
        BY <3>1, OccurrencesAppend
      <3> QED
        BY <3>2, <3>3, <3>4 DEF before, e, kept
    <2>6. CASE seq[k + 1] = c
      <3>1. h[k + 1] = h[k]
        BY <2>3, <2>6 DEF KeepOther
      <3> QED
        BY <2>2, <2>5, <2>6, <3>1
    <2>7. CASE seq[k + 1] # c
      <3>1. h[k + 1] = Append(h[k], seq[k + 1])
        BY <2>3, <2>7 DEF KeepOther
      <3> QED
        BY <2>2, <2>4, <2>5, <2>7, <3>1
    <2> QED
      BY <2>6, <2>7
  <1>5. n \in Good
    <2> HIDE DEF Good
    <2> QED
      BY <1>2, <1>3, <1>4, NatSetInduction
  <1>6. Left(h[n], n) 
    BY <1>2, <1>5
  <1> QED
    BY <1>1, <1>2, <1>6
--------------------------------------------------------------------------------
(* The invariant holds at first.                                            *)

LEMMA InitInv == Init => PathInv
  <1> SUFFICES ASSUME Init PROVE PathInv
    OBVIOUS
  <1>0. PICK o \in Options : /\ path = [p \in Parts |-> o] /\ configured = o
                             /\ volume = IF o.modulation = "AM" THEN FullVolume ELSE 0
    BY DEF Init
  <1>1. AnyOptions \in Options /\ FullVolume \in Nat
    BY <1>0, BoundsAssumption DEF AnyOptions
  <1>2. PathType
    <2>1. path \in [Parts -> Options] /\ configured \in Options
      BY <1>0
    <2>2. volume \in 0..FullVolume
      BY <1>0, <1>1
    <2>3. radio \in [at : Places, stage : Stages, n : Nat, written : Nat,
                     todo : {radio.todo}, through : SUBSET Options]
      BY DEF Init, Quiet, Places, Stages
    <2>4. control \in [Controllers -> Frames]
      BY <1>1 DEF Init, Idle, Calls, Stages, Frames
    <2>5. /\ left \in [iq : Nat, filter : Nat, af : Nat]
          /\ buffers \in [if : Nat, af : Nat]
      BY DEF Init
    <2>6. charge \in BOOLEAN /\ asked \in BOOLEAN
      BY DEF Init
    <2> QED
      BY <2>1, <2>2, <2>3, <2>4, <2>5, <2>6 DEF PathType
  <1>3. ConfigurationInv
    <2>1. Holders /\ Batch
      BY <1>1 DEF Init, Holders, Batch, OneConfiguration, Quiet, Idle
    <2>2. OneByOne
      BY <1>0 DEF Init, OneByOne, Configuring, Idle, Parts
    <2> QED
      BY <2>1, <2>2 DEF ConfigurationInv
  <1>4. QuietUntilHeard
    BY <1>0 DEF Init, QuietUntilHeard, IsQuiet, Idle, Parts
  <1>5. Room
    <2>1. path["decimation"] = o /\ path["filter"] = o
      BY <1>0 DEF Parts
    <2>2. 0 < IqToIf(o) /\ 0 < IfToAf(o) /\ 0 < FilterRatio(o)
      BY IqToIfType, IfToAfType, FilterRatioType
    <2> QED
      BY <2>1, <2>2 DEF Init, Room, OutputFits, Quiet
  <1> QED
    BY <1>2, <1>3, <1>4, <1>5 DEF PathInv

--------------------------------------------------------------------------------
(* Every step keeps the types.                                              *)

\* A new call waits for the mutex, and has changed nothing yet.
LEMMA CallEffect ==
  ASSUME PathType, NEW c \in Controllers, CallAny(c)
  PROVE  /\ control[c].at = "idle"
         /\ \E k \in Frames :
              /\ k.at = "lock" /\ control' = [control EXCEPT ![c] = k]
              /\ k.call # "none" /\ (k.call \in {"AddSink", "RemoveSink"} => c \in Owners)
         /\ UNCHANGED <<mutex, collection, sinks, path, left, volume, charge, buffers,
                        radio, attached, configured, heard, asked>>
  <1>0. AnyOptions \in Options /\ "IF" \in Stages /\ "AF" \in Stages
    BY DEF PathType, AnyOptions, Stages
  <1>1. ASSUME NEW call \in Calls, NEW o \in Options, NEW s \in Stages, Call(c, call, o, s),
               call # "none", call \in {"AddSink", "RemoveSink"} => c \in Owners
        PROVE  /\ control[c].at = "idle"
               /\ \E k \in Frames :
                    /\ k.at = "lock" /\ control' = [control EXCEPT ![c] = k]
                    /\ k.call # "none" /\ (k.call \in {"AddSink", "RemoveSink"} => c \in Owners)
               /\ UNCHANGED <<mutex, collection, sinks, path, left, volume, charge,
                              buffers, radio, attached, configured, heard, asked>>
    <2> DEFINE k == [at |-> "lock", call |-> call, options |-> o, stage |-> s]
    <2>1. /\ k \in Frames /\ k.at = "lock" /\ k.call = call
          /\ control' = [control EXCEPT ![c] = k]
      BY <1>1 DEF Call, Frames
    <2> HIDE DEF k
    <2>2. control[c].at = "idle"
      BY <1>1 DEF Call, Idle
    <2> QED
      BY <1>1, <2>1, <2>2 DEF Call
  <1>2. \/ \E o \in Options : Call(c, "Configure", o, "IF")
        \/ Call(c, "ResetSoftAudioStart", AnyOptions, "IF")
        \/ c \in Owners /\ \E s \in Stages : Call(c, "AddSink", AnyOptions, s)
        \/ c \in Owners /\ \E s \in Stages : Call(c, "RemoveSink", AnyOptions, s)
    BY DEF CallAny
  <1>3. /\ "Configure" \in Calls /\ "ResetSoftAudioStart" \in Calls
        /\ "AddSink" \in Calls /\ "RemoveSink" \in Calls
    BY DEF Calls
  <1> QED
    BY <1>0, <1>1, <1>2, <1>3

\* The steps of the controllers change no number but to zero.
LEMMA ControllerKeepsType ==
  ASSUME PathType, NEW c \in Controllers,
         CallAny(c) \/ Enter(c) \/ ControlInside(c)
  PROVE  PathType'
  <1> USE DEF PathType
  <1>0. AnyOptions \in Options /\ FullVolume \in Nat
    BY BoundsAssumption DEF AnyOptions
  <1>1. CASE CallAny(c)
    <2>1. PICK k \in Frames : control' = [control EXCEPT ![c] = k]
      BY <1>1, CallEffect
    <2> QED
      BY <1>1, <2>1, CallEffect
  <1>2. CASE Enter(c)
    <2>1. control' \in [Controllers -> Frames]
      BY <1>2 DEF Enter, Goto, Parts, Frames
    <2>2. volume' \in 0..FullVolume /\ charge' \in BOOLEAN
      <3>1. \/ volume' = 0 /\ charge' = FALSE
            \/ volume' = volume /\ charge' = charge
        BY <1>2, Zenon DEF Enter, ResetSoftAudio
      <3>2. volume' \in 0..FullVolume
        BY <1>0, <3>1
      <3>3. charge' \in BOOLEAN
        BY <3>1, Zenon
      <3> QED
        BY <3>2, <3>3
    <2> QED
      BY <1>2, <2>1, <2>2 DEF Enter
  <1>3. CASE ConfigurePart(c)
    <2>1. left' \in [iq : Nat, filter : Nat, af : Nat]
      BY <1>3 DEF ConfigurePart, Kept
    <2>2. path' \in [Parts -> Options]
      BY <1>3 DEF ConfigurePart, Frames
    <2>3. After(control[c].at) \in Parts \union {"unlock"}
      BY <1>3 DEF ConfigurePart, After, Parts
    <2>4. control' \in [Controllers -> Frames]
      BY <1>3, <2>3 DEF ConfigurePart, Goto, Frames
    <2> QED
      BY <1>3, <2>1, <2>2, <2>4 DEF ConfigurePart
  <1>4. CASE ChangeCollection(c)
    BY <1>4 DEF ChangeCollection, Goto, Frames
  <1>5. CASE Leave(c)
    <2>1. control' \in [Controllers -> Frames]
      <3>1. Idle \in Frames
        BY <1>0 DEF Idle, Calls, Stages, Frames
      <3> QED
        BY <1>5, <3>1 DEF Leave
    <2>2. configured' \in Options
      BY <1>5 DEF Leave, Frames
    <2>3. asked' \in BOOLEAN
      BY <1>5, Zenon DEF Leave
    <2> QED
      BY <1>5, <2>1, <2>2, <2>3 DEF Leave
  <1> QED
    BY <1>1, <1>2, <1>3, <1>4, <1>5 DEF ControlInside

\* The steps of the radio thread count samples.
LEMMA RadioKeepsType ==
  ASSUME PathType, Room, StartBatch \/ ProcessIF \/ RadioInside
  PROVE  PathType'
  <1> USE DEF PathType
  <1>0. /\ \A p \in Parts : path[p] \in Options
        /\ left.iq \in Nat /\ left.filter \in Nat /\ left.af \in Nat
        /\ radio.n \in Nat /\ radio.through \subseteq Options
    OBVIOUS
  <1>1. CASE StartBatch
    BY <1>1, BatchSizesAssumption DEF StartBatch, Places, Stages
  <1>2. CASE ProcessIF
    <2> DEFINE iq == IqToIf(path["decimation"])
               f == FilterRatio(path["filter"])
               room == Needed(iq, radio.n)
               fitting == FilterNeeded(f, room)
               decimated == Decimated(iq, left.iq, radio.n)
               filtered == f * Decimated(f, left.filter, decimated)
               through == radio.through \union
                            {path[p] : p \in {"shifters", "decimation", "filter"}}
    <2>1. iq \in Nat \ {0} /\ f \in Nat \ {0} /\ left.iq < iq /\ left.filter < f
      BY <1>0, IqToIfType, FilterRatioType DEF Room, Parts
    <2>2. /\ decimated \in Nat /\ room \in Nat /\ decimated <= room
          /\ Unprocessed(iq, left.iq, radio.n) \in Nat
      BY <1>0, <2>1, DecimatorFits
    <2>3. filtered \in Nat /\ fitting \in Nat
      BY <1>0, <2>1, <2>2, FilterFits
    <2>4. Unprocessed(f, left.filter, decimated) \in Nat
      BY <1>0, <2>1, <2>2, DecimatorFits
    <2>5. through \in SUBSET Options
      BY <1>0 DEF Parts
    <2> HIDE DEF iq, f, room, fitting, decimated, filtered, through
    <2>6. /\ buffers'.if \in Nat /\ buffers'.af \in Nat
          /\ buffers' = [if |-> buffers'.if, af |-> buffers'.af]
      <3>1. /\ buffers' = [if |-> Greater(buffers.if, Greater(room, fitting)),
                           af |-> Greater(buffers.af, Greater(buffers.if, Greater(room, fitting)))]
        BY <1>2 DEF ProcessIF, iq, f, room, fitting
      <3> QED
        BY <2>2, <2>3, <3>1 DEF Greater
    <2>7. left' \in [iq : Nat, filter : Nat, af : Nat]
      BY <1>0, <1>2, <2>2, <2>4 DEF ProcessIF, iq, f, decimated
    <2>8. radio' = [at |-> "push", stage |-> "IF", n |-> filtered,
                    written |-> Greater(decimated, filtered), todo |-> <<>>,
                    through |-> through]
      BY <1>2 DEF ProcessIF, Through, iq, f, decimated, filtered, through
    <2>9. radio' \in [at : Places, stage : Stages, n : Nat, written : Nat,
                      todo : {radio'.todo}, through : SUBSET Options]
      BY <2>2, <2>3, <2>5, <2>8 DEF Greater, Places, Stages
    <2> QED
      BY <1>2, <2>6, <2>7, <2>9 DEF ProcessIF
  <1>3. CASE ProcessAF
    <2> DEFINE af == IfToAf(path["decimation"])
               n == Decimated(af, left.af, radio.n)
               through == radio.through \union
                            {path[p] : p \in {"demodulator", "decimation", "audio"}}
    <2>1. af \in Nat \ {0} /\ left.af < af
      BY <1>0, IfToAfType DEF Room, Parts
    <2>2. n \in Nat /\ Unprocessed(af, left.af, radio.n) \in Nat
      BY <1>0, <2>1, DecimatorFits
    <2>3. through \in SUBSET Options
      BY <1>0 DEF Parts
    <2> HIDE DEF af, n, through
    <2>4. left' \in [iq : Nat, filter : Nat, af : Nat]
      BY <1>3, <2>2 DEF ProcessAF, af
    <2>5. volume' \in 0..FullVolume
      BY <1>3, <2>2, LouderType DEF ProcessAF, af, n
    <2>6. charge' \in BOOLEAN /\ asked' \in BOOLEAN
      BY <1>3, Zenon DEF ProcessAF
    <2>7. radio' = [at |-> "push", stage |-> "AF", n |-> n, written |-> radio.n,
                    todo |-> <<>>, through |-> through]
      BY <1>3 DEF ProcessAF, Through, af, n, through
    <2>8. radio' \in [at : Places, stage : Stages, n : Nat, written : Nat,
                      todo : {radio'.todo}, through : SUBSET Options]
      BY <1>0, <2>2, <2>3, <2>7 DEF Places, Stages
    <2> QED
      BY <1>3, <2>4, <2>5, <2>6, <2>8 DEF ProcessAF
  <1>4. CASE LockCollection
    BY <1>4 DEF LockCollection, Places
  <1>5. CASE PushToSink
    BY <1>5 DEF PushToSink
  <1>6. CASE UnlockCollection
    BY <1>6 DEF UnlockCollection, AfterSinks, Places
  <1>7. CASE EndBatch
    BY <1>7 DEF EndBatch, Quiet, Places, Stages
  <1> QED
    BY <1>1, <1>2, <1>3, <1>4, <1>5, <1>6, <1>7 DEF RadioInside
--------------------------------------------------------------------------------
(* One configuration at a time.                                             *)

\* A controller that does not hold the mutex is not configuring.
LEMMA OnlyTheHolderConfigures ==
  ASSUME Holders, NEW c \in Controllers, mutex # c
  PROVE  control[c].at \in {"idle", "lock"} /\ ~Configuring(c)
  BY DEF Holders, Configuring, Parts

\* The thread that holds the mutex is the only one that is inside a call.
LEMMA ControllerKeepsHolders ==
  ASSUME PathType, Holders, NEW c \in Controllers,
         CallAny(c) \/ Enter(c) \/ ControlInside(c)
  PROVE  Holders'
  <1>0. control \in [Controllers -> Frames] /\ c # Radio /\ c # Nobody /\ Nobody # Radio
    BY ThreadsAssumption DEF PathType
  <1>1. CASE CallAny(c)
    <2>1. PICK k \in Frames : k.at = "lock" /\ control' = [control EXCEPT ![c] = k]
      BY <1>1, CallEffect
    <2>2. mutex' = mutex /\ radio' = radio
      BY <1>1, CallEffect
    <2> QED
      BY <1>0, <2>1, <2>2 DEF Holders
  <1>2. CASE Enter(c)
    <2>1. mutex = Nobody /\ mutex' = c /\ radio' = radio
      BY <1>2 DEF Enter, Lock
    <2>2. \A d \in Controllers : d # c => control'[d] = control[d]
      BY <1>0, <1>2 DEF Enter, Goto
    <2>3. \A d \in Controllers : d # Nobody
      BY ThreadsAssumption
    <2> QED
      BY <1>0, <2>1, <2>2, <2>3 DEF Holders
  <1>3. CASE ConfigurePart(c) \/ ChangeCollection(c)
    <2>1. mutex' = mutex /\ radio' = radio /\ control[c].at \notin {"idle", "lock"}
      BY <1>3 DEF ConfigurePart, ChangeCollection, Parts
    <2>2. \A d \in Controllers : d # c => control'[d] = control[d]
      BY <1>0, <1>3 DEF ConfigurePart, ChangeCollection, Goto
    <2> QED
      BY <1>0, <2>1, <2>2 DEF Holders
  <1>4. CASE Leave(c)
    <2>1. mutex = c /\ radio' = radio
      BY <1>4 DEF Leave, Holders
    <2>2. /\ \A d \in Controllers : d # c => control'[d] = control[d]
          /\ control'[c] = Idle
      BY <1>0, <1>4 DEF Leave
    <2> QED
      BY <1>0, <2>1, <2>2 DEF Holders, Idle
  <1> QED
    BY <1>1, <1>2, <1>3, <1>4 DEF ControlInside

LEMMA RadioKeepsHolders ==
  ASSUME PathType, Holders, StartBatch \/ ProcessIF \/ RadioInside
  PROVE  Holders'
  <1>0. Radio \notin Controllers /\ Nobody \notin Controllers /\ Nobody # Radio
    BY ThreadsAssumption
  <1>1. control' = control
    BY DEF StartBatch, ProcessIF, RadioInside, ProcessAF, LockCollection, PushToSink,
           UnlockCollection, EndBatch
  <1>2. CASE StartBatch
    BY <1>1, <1>2 DEF StartBatch, Holders
  <1>3. CASE ProcessIF
    BY <1>0, <1>1, <1>3 DEF ProcessIF, Lock, Holders
  <1>4. CASE ProcessAF \/ LockCollection \/ PushToSink \/ UnlockCollection
    <2>1. mutex' = mutex /\ radio.at \notin {"idle", "lock"}
      BY <1>4 DEF ProcessAF, LockCollection, PushToSink, UnlockCollection
    <2> QED
      BY <1>1, <2>1 DEF Holders
  <1>5. CASE EndBatch
    <2>1. mutex = Radio /\ radio'.at = "idle"
      BY <1>5 DEF EndBatch, Holders, Quiet
    <2> QED
      BY <1>0, <1>1, <2>1 DEF Holders
  <1> QED
    BY <1>2, <1>3, <1>4, <1>5 DEF RadioInside
\* Configure goes through the parts in order.
LEMMA AfterIsNext ==
  ASSUME NEW part \in Parts
  PROVE  /\ After(part) \in Parts \union {"unlock"}
         /\ Before(After(part)) = Before(part) \union {part}
         /\ part \notin Before(part)
  BY DEF Parts, After, Before

\* Only the controller that holds the mutex changes the path, one part after
\* the other, and returns when all parts have the new options.
LEMMA ControllerKeepsOneByOne ==
  ASSUME PathType, Holders, OneByOne, NEW c \in Controllers,
         CallAny(c) \/ Enter(c) \/ ControlInside(c)
  PROVE  OneByOne'
  <1>0. control \in [Controllers -> Frames] /\ path \in [Parts -> Options] /\ c # Nobody
    BY ThreadsAssumption DEF PathType
  <1>1. CASE CallAny(c)
    <2>1. PICK k \in Frames : k.at = "lock" /\ control' = [control EXCEPT ![c] = k]
      BY <1>1, CallEffect
    <2>2. path' = path /\ configured' = configured /\ control[c].at = "idle"
      BY <1>1, CallEffect
    <2>3. /\ \A d \in Controllers : d # c => control'[d] = control[d]
          /\ control'[c].at = "lock"
      BY <1>0, <2>1
    <2>4. ~Configuring(c) /\ ~Configuring(c)' /\ control'[c].at \notin Parts
      BY <2>2, <2>3 DEF Configuring, Parts
    <2>5. \A d \in Controllers : Configuring(d)' <=> Configuring(d)
      BY <2>3, <2>4 DEF Configuring
    <2> QED
      BY <2>2, <2>3, <2>4, <2>5 DEF OneByOne
  <1>2. CASE Enter(c)
    <2>1. mutex = Nobody /\ path' = path /\ configured' = configured
      BY <1>2 DEF Enter, Lock
    <2>2. \A d \in Controllers : ~Configuring(d)
      BY <2>1, OnlyTheHolderConfigures, ThreadsAssumption
    <2>3. \A p \in Parts : path'[p] = configured'
      BY <2>1, <2>2 DEF OneByOne
    <2>4. /\ \A d \in Controllers : d # c => control'[d] = control[d]
          /\ control'[c].call = control[c].call
          /\ control'[c].at = CASE control[c].call = "Configure" -> "decimation"
                                [] control[c].call = "ResetSoftAudioStart" -> "unlock"
                                [] OTHER -> "collection"
      BY <1>0, <1>2 DEF Enter, Goto, Frames
    <2>5. \A d \in Controllers \ {c} : ~Configuring(d)' /\ control'[d].at \notin Parts
      BY <2>2, <2>4 DEF Configuring
    <2>6. /\ control'[c].at \in Parts => control'[c].call = "Configure"
          /\ control'[c].at = "collection"
               => control'[c].call \notin {"Configure", "ResetSoftAudioStart"}
          /\ Configuring(c)' => control'[c].at = "decimation"
      BY <2>4 DEF Configuring, Parts
    <2>7. Before("decimation") = {}
      BY DEF Before
    <2> QED
      BY <2>3, <2>4, <2>5, <2>6, <2>7 DEF OneByOne
  <1>3. CASE ConfigurePart(c)
    <2> DEFINE part == control[c].at
    <2>1. part \in Parts /\ path' = [path EXCEPT ![part] = control[c].options]
      BY <1>3 DEF ConfigurePart
    <2>2. mutex = c /\ configured' = configured
      BY <1>3, <2>1 DEF ConfigurePart, Holders, Parts
    <2>3. \A d \in Controllers \ {c} : ~Configuring(d) /\ control[d].at \notin Parts
      BY <2>2, OnlyTheHolderConfigures DEF Configuring
    <2>4. /\ \A d \in Controllers : d # c => control'[d] = control[d]
          /\ control'[c].call = control[c].call /\ control'[c].at = After(part)
          /\ control'[c].options = control[c].options
      BY <1>0, <1>3 DEF ConfigurePart, Goto, Frames
    <2>5. \A d \in Controllers \ {c} : ~Configuring(d)' /\ control'[d].at \notin Parts
      BY <2>3, <2>4 DEF Configuring
    <2>6. /\ control[c].call = "Configure" /\ Configuring(c)
          /\ \A p \in Parts : path[p] = IF p \in Before(part)
                                          THEN control[c].options ELSE configured
      BY <2>1 DEF OneByOne, Configuring
    <2>7. Configuring(c)' /\ control'[c].at # "collection"
      BY <2>1, <2>4, <2>6, AfterIsNext DEF Configuring, Parts
    <2>8. \A p \in Parts : path'[p] = IF p \in Before(control'[c].at)
                                        THEN control'[c].options ELSE configured'
      BY <1>0, <2>1, <2>2, <2>4, <2>6, AfterIsNext
    <2> QED
      BY <2>4, <2>5, <2>6, <2>7, <2>8 DEF OneByOne
  <1>4. CASE ChangeCollection(c)
    <2>1. /\ path' = path /\ configured' = configured
          /\ control[c].at = "collection"
      BY <1>4 DEF ChangeCollection
    <2>2. mutex = c
      BY <2>1 DEF Holders
    <2>3. \A d \in Controllers : ~Configuring(d) /\ control[d].at \notin Parts
      BY <2>1, <2>2, OnlyTheHolderConfigures DEF Configuring, Parts
    <2>4. /\ \A d \in Controllers : d # c => control'[d] = control[d]
          /\ control'[c].at = "unlock" /\ control'[c].call = control[c].call
      BY <1>0, <1>4 DEF ChangeCollection, Goto, Frames
    <2>5. control[c].call # "Configure"
      BY <2>1 DEF OneByOne
    <2>6. \A d \in Controllers : ~Configuring(d)' /\ control'[d].at \notin Parts
      BY <2>3, <2>4, <2>5 DEF Configuring, Parts
    <2> QED
      BY <2>1, <2>3, <2>4, <2>6 DEF OneByOne
  <1>5. CASE Leave(c)
    <2>1. /\ path' = path /\ control[c].at = "unlock"
          /\ configured' = IF control[c].call = "Configure"
                             THEN control[c].options ELSE configured
      BY <1>5 DEF Leave
    <2>2. mutex = c
      BY <2>1 DEF Holders
    <2>3. \A d \in Controllers \ {c} : ~Configuring(d) /\ control[d].at \notin Parts
      BY <2>2, OnlyTheHolderConfigures DEF Configuring
    <2>4. /\ \A d \in Controllers : d # c => control'[d] = control[d]
          /\ control'[c].at = "idle"
      BY <1>0, <1>5 DEF Leave, Idle
    <2>5. \A d \in Controllers : ~Configuring(d)' /\ control'[d].at \notin Parts
      BY <2>3, <2>4 DEF Configuring, Parts
    <2>6. Before("unlock") = Parts
      BY DEF Before
    <2>7. \A p \in Parts : path'[p] = configured'
      BY <2>1, <2>3, <2>6 DEF OneByOne, Configuring
    <2> QED
      BY <2>4, <2>5, <2>7 DEF OneByOne
  <1> QED
    BY <1>1, <1>2, <1>3, <1>4, <1>5 DEF ControlInside
LEMMA RadioKeepsOneByOne ==
  ASSUME OneByOne, StartBatch \/ ProcessIF \/ RadioInside
  PROVE  OneByOne'
  <1>1. control' = control /\ path' = path /\ configured' = configured
    BY DEF StartBatch, ProcessIF, RadioInside, ProcessAF, LockCollection, PushToSink,
           UnlockCollection, EndBatch
  <1> QED
    BY <1>1 DEF OneByOne, Configuring

\* A new configuration comes between two batches: the controller which returns
\* from Configure holds the mutex.
LEMMA ControllerKeepsBatch ==
  ASSUME Holders, Batch, NEW c \in Controllers,
         PathType, CallAny(c) \/ Enter(c) \/ ControlInside(c)
  PROVE  Batch'
  <1>1. CASE CallAny(c)
    BY <1>1, CallEffect DEF Batch, OneConfiguration
  <1>2. CASE Enter(c) \/ ConfigurePart(c) \/ ChangeCollection(c)
    BY <1>2 DEF Enter, ConfigurePart, ChangeCollection, Batch, OneConfiguration
  <1>3. CASE Leave(c)
    <2>1. mutex = c /\ radio' = radio
      BY <1>3 DEF Leave, Holders
    <2>2. radio.at \in {"idle", "lock"}
      BY <2>1, ThreadsAssumption DEF Holders
    <2>3. radio.through = {}
      BY <2>2 DEF Batch
    <2> QED
      BY <2>1, <2>3 DEF Batch, OneConfiguration
  <1> QED
    BY <1>1, <1>2, <1>3 DEF ControlInside

\* While the radio thread is in a batch no controller configures, so that all
\* parts have the same options.
LEMMA RadioKeepsBatch ==
  ASSUME PathType, Holders, OneByOne, Batch, StartBatch \/ ProcessIF \/ RadioInside
  PROVE  Batch'
  <1>0. configured' = configured
    BY DEF StartBatch, ProcessIF, RadioInside, ProcessAF, LockCollection, PushToSink,
           UnlockCollection, EndBatch
  <1>1. mutex \notin Controllers => \A p \in Parts : path[p] = configured
    BY OnlyTheHolderConfigures DEF OneByOne
  <1>2. CASE StartBatch
    BY <1>0, <1>2 DEF StartBatch, Batch, OneConfiguration
  <1>3. CASE ProcessIF
    <2>1. mutex \notin Controllers
      BY <1>3, ThreadsAssumption DEF ProcessIF, Lock
    <2>2. /\ radio'.at = "push"
          /\ radio'.through = radio.through \union
               {path[p] : p \in {"shifters", "decimation", "filter"}}
      BY <1>3 DEF ProcessIF, Through
    <2> QED
      BY <1>0, <1>1, <2>1, <2>2 DEF Batch, OneConfiguration, Parts
  <1>4. CASE ProcessAF
    <2>1. mutex \notin Controllers
      BY <1>4, ThreadsAssumption DEF ProcessAF, Holders
    <2>2. /\ radio'.at = "push"
          /\ radio'.through = radio.through \union
               {path[p] : p \in {"demodulator", "decimation", "audio"}}
      BY <1>4 DEF ProcessAF, Through
    <2> QED
      BY <1>0, <1>1, <2>1, <2>2 DEF Batch, OneConfiguration, Parts
  <1>5. CASE LockCollection \/ PushToSink \/ UnlockCollection
    <2>1. radio'.through = radio.through /\ radio'.at \notin {"idle", "lock"}
      BY <1>5 DEF LockCollection, PushToSink, UnlockCollection, AfterSinks, PathType
    <2> QED
      BY <1>0, <2>1 DEF Batch, OneConfiguration
  <1>6. CASE EndBatch
    BY <1>0, <1>6 DEF EndBatch, Quiet, Batch, OneConfiguration
  <1> QED
    BY <1>2, <1>3, <1>4, <1>5, <1>6 DEF RadioInside
--------------------------------------------------------------------------------
(* The first audio of a new modulation is quiet.                            *)

\* A controller makes the path quiet before it changes the modulation.
LEMMA ControllerKeepsQuiet ==
  ASSUME PathType, Holders, OneByOne, QuietUntilHeard, NEW c \in Controllers,
         CallAny(c) \/ Enter(c) \/ ControlInside(c)
  PROVE  QuietUntilHeard'
  <1>0. control \in [Controllers -> Frames] /\ path \in [Parts -> Options] /\ c # Nobody
    BY ThreadsAssumption DEF PathType
  <1>1. CASE CallAny(c)
    <2>1. PICK k \in Frames : k.at = "lock" /\ control' = [control EXCEPT ![c] = k]
      BY <1>1, CallEffect
    <2>2. /\ path' = path /\ volume' = volume /\ charge' = charge
          /\ heard' = heard /\ asked' = asked
      BY <1>1, CallEffect
    <2>3. /\ \A d \in Controllers : d # c => control'[d] = control[d]
          /\ control'[c].at = "lock"
      BY <1>0, <2>1
    <2> QED
      BY <2>2, <2>3 DEF QuietUntilHeard, IsQuiet, Parts
  <1>2. CASE Enter(c)
    <2>1. /\ path' = path /\ heard' = heard /\ asked' = asked /\ mutex = Nobody
      BY <1>2 DEF Enter, Lock
    <2>2. /\ \A d \in Controllers : d # c => control'[d] = control[d]
          /\ control'[c].call = control[c].call /\ control'[c].options = control[c].options
          /\ control'[c].at = CASE control[c].call = "Configure" -> "decimation"
                                [] control[c].call = "ResetSoftAudioStart" -> "unlock"
                                [] OTHER -> "collection"
      BY <1>0, <1>2 DEF Enter, Goto, Frames
    <2>3. \A d \in Controllers \ {c} : control'[d].at \in {"idle", "lock"}
      BY <2>1, <2>2, OnlyTheHolderConfigures, ThreadsAssumption
    <2>4. \/ volume' = 0 /\ charge' = FALSE
          \/ /\ volume' = volume /\ charge' = charge
             /\ control[c].call # "ResetSoftAudioStart"
             /\ control[c].call = "Configure" => ~NeedReset(c)
      BY <1>2, Zenon DEF Enter, ResetSoftAudio
    <2>5. CASE volume' = 0 /\ charge' = FALSE
      BY <2>5 DEF QuietUntilHeard, IsQuiet
    <2>6. CASE /\ volume' = volume /\ charge' = charge
               /\ control[c].call # "ResetSoftAudioStart"
               /\ control[c].call = "Configure" => ~NeedReset(c)
      <3>1. IsQuiet' <=> IsQuiet
        BY <2>6 DEF IsQuiet
      <3>2. control'[c].at \in Parts => control[c].call = "Configure"
        BY <2>2 DEF Parts
      <3>3. control'[c].at \in Parts /\ control'[c].options.modulation # heard' => IsQuiet
        BY <2>1, <2>2, <2>6, <3>2 DEF NeedReset, QuietUntilHeard
      <3>4. \A d \in Controllers \ {c} :
              control'[d].at \notin Parts /\ control'[d].at # "unlock"
        BY <2>3 DEF Parts
      <3>5. \A d \in Controllers :
              /\ control'[d].at \in Parts /\ control'[d].options.modulation # heard' => IsQuiet'
              /\ control'[d].at = "unlock" /\ control'[d].call = "ResetSoftAudioStart" => IsQuiet'
        BY <2>2, <2>6, <3>1, <3>3, <3>4
      <3>6. /\ path'["demodulator"].modulation # heard' => IsQuiet'
            /\ asked' => IsQuiet'
        BY <2>1, <3>1 DEF QuietUntilHeard
      <3> QED
        BY <3>5, <3>6 DEF QuietUntilHeard
    <2> QED
      BY <2>4, <2>5, <2>6
  <1>3. CASE ConfigurePart(c)
    <2>1. /\ control[c].at \in Parts
          /\ path' = [path EXCEPT ![control[c].at] = control[c].options]
          /\ volume' = volume /\ charge' = charge /\ heard' = heard /\ asked' = asked
      BY <1>3 DEF ConfigurePart
    <2>2. /\ \A d \in Controllers : d # c => control'[d] = control[d]
          /\ control'[c].call = control[c].call /\ control'[c].options = control[c].options
      BY <1>0, <1>3 DEF ConfigurePart, Goto, Frames
    <2>3. path'["demodulator"] \in {path["demodulator"], control[c].options}
      BY <1>0, <2>1 DEF Parts
    <2>4. control[c].call = "Configure"
      BY <2>1 DEF OneByOne
    <2> QED
      BY <2>1, <2>2, <2>3, <2>4 DEF QuietUntilHeard, IsQuiet
  <1>4. CASE ChangeCollection(c)
    <2>1. /\ path' = path /\ volume' = volume /\ charge' = charge
          /\ heard' = heard /\ asked' = asked /\ control[c].at = "collection"
      BY <1>4 DEF ChangeCollection
    <2>2. /\ \A d \in Controllers : d # c => control'[d] = control[d]
          /\ control'[c].call = control[c].call /\ control'[c].at = "unlock"
      BY <1>0, <1>4 DEF ChangeCollection, Goto, Frames
    <2>3. control[c].call # "ResetSoftAudioStart"
      BY <2>1 DEF OneByOne
    <2> QED
      BY <2>1, <2>2, <2>3 DEF QuietUntilHeard, IsQuiet, Parts
  <1>5. CASE Leave(c)
    <2>1. /\ path' = path /\ volume' = volume /\ charge' = charge /\ heard' = heard
          /\ asked' = (asked \/ control[c].call = "ResetSoftAudioStart")
          /\ control[c].at = "unlock"
      BY <1>5 DEF Leave
    <2>2. /\ \A d \in Controllers : d # c => control'[d] = control[d]
          /\ control'[c].at = "idle"
      BY <1>0, <1>5 DEF Leave, Idle
    <2> QED
      BY <2>1, <2>2 DEF QuietUntilHeard, IsQuiet, Parts
  <1> QED
    BY <1>1, <1>2, <1>3, <1>4, <1>5 DEF ControlInside

\* Audio that is heard has the modulation of the demodulator, and a batch
\* without audio changes neither the volume nor the AGC.
LEMMA RadioKeepsQuiet ==
  ASSUME PathType, Holders, Room, QuietUntilHeard, StartBatch \/ ProcessIF \/ RadioInside
  PROVE  QuietUntilHeard'
  <1>0. control' = control /\ path' = path
    BY DEF StartBatch, ProcessIF, RadioInside, ProcessAF, LockCollection, PushToSink,
           UnlockCollection, EndBatch
  <1>1. CASE ProcessAF
    <2> DEFINE af == IfToAf(path["decimation"])
               n == Decimated(af, left.af, radio.n)
    <2>1. n \in Nat
      <3>1. af \in Nat \ {0}
        BY IfToAfType DEF PathType, Parts
      <3>2. left.af \in Nat /\ left.af < af /\ radio.n \in Nat
        BY DEF PathType, Room
      <3> QED
        BY <3>1, <3>2, DecimatorFits
    <2>2. /\ volume' = Louder(volume, n)
          /\ charge' = (charge \/ (n > 0 /\ path["audio"].agc))
          /\ heard' = IF n > 0 THEN path["demodulator"].modulation ELSE heard
          /\ asked' = (asked /\ n = 0)
      BY <1>1, Zenon DEF ProcessAF
    <2>3. \A d \in Controllers : control[d].at \in {"idle", "lock"}
      BY <1>1, OnlyTheHolderConfigures, ThreadsAssumption DEF ProcessAF, Holders
    <2> HIDE DEF af, n
    <2>4. CASE n = 0
      <3>1. ~(n > 0)
        BY <2>4
      <3>2. volume' = volume
        BY <2>2, <2>4, LouderType DEF PathType
      <3>3. charge' = charge /\ heard' = heard /\ asked' = asked
        BY <2>2, <2>4, <3>1, Zenon DEF PathType
      <3> QED
        BY <1>0, <3>2, <3>3 DEF QuietUntilHeard, IsQuiet
    <2>5. CASE n # 0
      <3>1. n > 0
        BY <2>1, <2>5
      <3>2. heard' = path'["demodulator"].modulation /\ ~asked'
        BY <1>0, <2>2, <2>5, <3>1
      <3> QED
        BY <1>0, <2>3, <3>2 DEF QuietUntilHeard, Parts
    <2> QED
      BY <2>4, <2>5
  <1>2. CASE \/ StartBatch \/ ProcessIF \/ LockCollection \/ PushToSink
             \/ UnlockCollection \/ EndBatch
    <2>1. /\ volume' = volume /\ charge' = charge /\ heard' = heard /\ asked' = asked
      BY <1>2 DEF StartBatch, ProcessIF, LockCollection, PushToSink, UnlockCollection,
                  EndBatch
    <2> QED
      BY <1>0, <2>1 DEF QuietUntilHeard, IsQuiet
  <1> QED
    BY <1>1, <1>2 DEF RadioInside
--------------------------------------------------------------------------------
(* The work buffers suffice.                                                *)

\* A ratio that changes empties its decimator.
LEMMA KeptIsLess ==
  ASSUME NEW l \in Nat, NEW old \in Nat \ {0}, NEW new \in Nat \ {0}, l < old
  PROVE  Kept(l, old, new) < new
  BY DEF Kept

LEMMA ControllerKeepsRoom ==
  ASSUME PathType, Room, NEW c \in Controllers,
         CallAny(c) \/ Enter(c) \/ ControlInside(c)
  PROVE  Room'
  <1>0. /\ path \in [Parts -> Options] /\ control[c].options \in Options
        /\ left.iq \in Nat /\ left.filter \in Nat /\ left.af \in Nat
    BY DEF PathType, Frames
  <1>1. CASE ConfigurePart(c)
    <2> DEFINE part == control[c].at
               new == control[c].options
    <2>1. /\ part \in Parts /\ path' = [path EXCEPT ![part] = new]
          /\ radio' = radio /\ buffers' = buffers
      BY <1>1 DEF ConfigurePart
    <2>2. /\ \A o \in Options : /\ IqToIf(o) \in Nat \ {0} /\ IfToAf(o) \in Nat \ {0}
                                /\ FilterRatio(o) \in Nat \ {0}
      BY IqToIfType, IfToAfType, FilterRatioType
    <2>3. CASE part = "decimation"
      <3>1. left' = [iq |-> Kept(left.iq, IqToIf(path[part]), IqToIf(new)),
                     filter |-> left.filter,
                     af |-> Kept(left.af, IfToAf(path[part]), IfToAf(new))]
        BY <1>1, <2>3 DEF ConfigurePart
      <3>2. path'["decimation"] = new /\ path'["filter"] = path["filter"]
        BY <1>0, <2>1, <2>3 DEF Parts
      <3>3. path["decimation"] \in Options
        BY <1>0 DEF Parts
      <3>4. /\ Kept(left.iq, IqToIf(path[part]), IqToIf(new)) < IqToIf(new)
            /\ Kept(left.af, IfToAf(path[part]), IfToAf(new)) < IfToAf(new)
        BY <1>0, <2>2, <2>3, <3>3, KeptIsLess DEF Room
      <3>5. left'.iq < IqToIf(new) /\ left'.af < IfToAf(new) /\ left'.filter = left.filter
        BY <3>1, <3>4
      <3> QED
        BY <2>1, <3>2, <3>5 DEF Room, OutputFits
    <2>4. CASE part = "filter"
      <3>1. left' = [iq |-> left.iq, af |-> left.af,
                     filter |-> Kept(left.filter, FilterRatio(path[part]), FilterRatio(new))]
        BY <1>1, <2>4 DEF ConfigurePart
      <3>2. path'["decimation"] = path["decimation"] /\ path'["filter"] = new
        BY <1>0, <2>1, <2>4 DEF Parts
      <3>3. path["filter"] \in Options
        BY <1>0 DEF Parts
      <3>4. Kept(left.filter, FilterRatio(path[part]), FilterRatio(new)) < FilterRatio(new)
        BY <1>0, <2>2, <2>4, <3>3, KeptIsLess DEF Room
      <3>5. left'.iq = left.iq /\ left'.af = left.af /\ left'.filter < FilterRatio(new)
        BY <3>1, <3>4
      <3> QED
        BY <2>1, <3>2, <3>5 DEF Room, OutputFits
    <2>5. CASE part \notin {"decimation", "filter"}
      <3>1. left' = left
        BY <1>1, <2>5 DEF ConfigurePart
      <3>2. path'["decimation"] = path["decimation"] /\ path'["filter"] = path["filter"]
        BY <1>0, <2>1, <2>5 DEF Parts
      <3> QED
        BY <2>1, <3>1, <3>2 DEF Room, OutputFits
    <2> QED
      BY <2>3, <2>4, <2>5
  <1>2. CASE CallAny(c) \/ Enter(c) \/ ChangeCollection(c) \/ Leave(c)
    <2>1. path' = path /\ left' = left /\ radio' = radio /\ buffers' = buffers
      BY <1>2, CallEffect DEF Enter, ChangeCollection, Leave
    <2> QED
      BY <2>1 DEF Room, OutputFits
  <1> QED
    BY <1>1, <1>2 DEF ControlInside

LEMMA RadioKeepsRoom ==
  ASSUME PathType, Room, StartBatch \/ ProcessIF \/ RadioInside
  PROVE  Room'
  <1>0. /\ path' = path /\ path["decimation"] \in Options /\ path["filter"] \in Options
        /\ left.iq \in Nat /\ left.filter \in Nat /\ left.af \in Nat
        /\ left = [iq |-> left.iq, filter |-> left.filter, af |-> left.af]
        /\ radio.n \in Nat /\ buffers.if \in Nat /\ buffers.af \in Nat
    BY DEF PathType, Parts, StartBatch, ProcessIF, RadioInside, ProcessAF, LockCollection,
           PushToSink, UnlockCollection, EndBatch
  <1>1. CASE ProcessIF
    <2> DEFINE iq == IqToIf(path["decimation"])
               f == FilterRatio(path["filter"])
               room == Needed(iq, radio.n)
               fitting == FilterNeeded(f, room)
               decimated == Decimated(iq, left.iq, radio.n)
               filtered == f * Decimated(f, left.filter, decimated)
    <2>1. iq \in Nat \ {0} /\ f \in Nat \ {0} /\ left.iq < iq /\ left.filter < f
      BY <1>0, IqToIfType, FilterRatioType DEF Room
    <2>2. /\ decimated \in Nat /\ room \in Nat /\ decimated <= room
          /\ Unprocessed(iq, left.iq, radio.n) < iq
      BY <1>0, <2>1, DecimatorFits
    <2>3. filtered \in Nat /\ fitting \in Nat /\ filtered <= fitting
      BY <1>0, <2>1, <2>2, FilterFits
    <2>4. Unprocessed(f, left.filter, decimated) < f
      BY <1>0, <2>1, <2>2, DecimatorFits
    <2>5. left'.iq < iq /\ left'.filter < f /\ left'.af = left.af
      BY <1>1, <2>2, <2>4 DEF ProcessIF
    <2>6. /\ radio'.at = "push" /\ radio'.stage = "IF" /\ radio'.n = filtered
          /\ radio'.written = Greater(decimated, filtered)
          /\ buffers'.if = Greater(buffers.if, Greater(room, fitting))
          /\ buffers'.af = Greater(buffers.af, Greater(buffers.if, Greater(room, fitting)))
      BY <1>1 DEF ProcessIF, Through
    <2> HIDE DEF iq, f, room, fitting, decimated, filtered
    <2>7. radio'.written <= buffers'.if /\ radio'.n <= buffers'.af
      BY <1>0, <2>2, <2>3, <2>6 DEF Greater
    <2> QED
      BY <1>0, <2>5, <2>6, <2>7 DEF Room, OutputFits, iq, f
  <1>2. CASE ProcessAF
    <2> DEFINE af == IfToAf(path["decimation"])
    <2>1. af \in Nat \ {0} /\ left.af < af
      BY <1>0, IfToAfType DEF Room
    <2>2. Unprocessed(af, left.af, radio.n) < af
      BY <1>0, <2>1, DecimatorFits
    <2>3. left'.iq = left.iq /\ left'.filter = left.filter /\ left'.af < af
      BY <1>0, <1>2, <2>2 DEF ProcessAF
    <2>4. /\ radio'.at = "push" /\ radio'.stage = "AF" /\ radio'.written = radio.n
          /\ buffers' = buffers
      BY <1>2 DEF ProcessAF, Through
    <2>5. radio.n <= buffers.af
      BY <1>2 DEF ProcessAF, Room
    <2> QED
      BY <1>0, <2>3, <2>4, <2>5 DEF Room, OutputFits
  <1>3. CASE LockCollection \/ PushToSink \/ UnlockCollection
    <2>1. /\ radio'.stage = radio.stage /\ radio'.n = radio.n /\ buffers' = buffers
          /\ left' = left /\ radio'.at \in {"sinks", "demodulate", "unlock"}
          /\ radio'.at = "demodulate" => radio.stage = "IF"
          /\ radio.at \in {"push", "sinks"}
      BY <1>3 DEF LockCollection, PushToSink, UnlockCollection, AfterSinks, PathType
    <2> QED
      BY <1>0, <2>1 DEF Room, OutputFits
  <1>4. CASE StartBatch \/ EndBatch
    <2>1. radio'.at \in {"idle", "lock"} /\ left' = left /\ buffers' = buffers
      BY <1>4 DEF StartBatch, EndBatch, Quiet
    <2> QED
      BY <1>0, <2>1 DEF Room, OutputFits
  <1> QED
    BY <1>1, <1>2, <1>3, <1>4 DEF RadioInside
--------------------------------------------------------------------------------
(* The sinks, as their owners left them.                                    *)

LEMMA SinksAtFirst == Init => SinkInv
  <1> SUFFICES ASSUME Init PROVE SinkInv
    OBVIOUS
  <1>1. SinkTypes
    BY DEF Init, SinkTypes, Quiet
  <1>2. \A c \in Controllers : control[c].at = "idle" /\ control[c].call = "none"
    BY DEF Init, Idle
  <1>3. \A c \in Owners, s \in Stages : Occurrences(sinks[s], c) = 0 /\ Expected(c, s) = 0
    <2>1. \A c \in Owners : Occurrences(<<>>, c) = 0
      BY OccurrencesEmpty
    <2>2. \A c \in Owners, s \in Stages : Expected(c, s) = attached[c][s]
      BY <1>2, ThreadsAssumption DEF Expected
    <2> QED
      BY <2>1, <2>2 DEF Init
  <1>4. radio.todo = <<>>
    BY DEF Init, Quiet
  <1> QED
    BY <1>1, <1>2, <1>3, <1>4 DEF SinkInv, CallsOfOwners, Attachments

\* A step of a controller that touches no sink leaves what is expected as it is.
LEMMA ControllerKeepsSinks ==
  ASSUME PathType, Holders, OneByOne, SinkInv, NEW c \in Controllers,
         CallAny(c) \/ Enter(c) \/ ControlInside(c)
  PROVE  SinkInv'
  <1>0. /\ control \in [Controllers -> Frames] /\ Owners \subseteq Controllers
        /\ c # Radio /\ radio \in [at : Places, stage : Stages, n : Nat, written : Nat,
                                   todo : {radio.todo}, through : SUBSET Options]
    BY ThreadsAssumption DEF PathType
  <1>1. CASE CallAny(c) \/ Enter(c) \/ ConfigurePart(c)
    <2>1. sinks' = sinks /\ attached' = attached /\ radio' = radio
      BY <1>1, CallEffect DEF Enter, ConfigurePart
    <2>2. /\ \A d \in Controllers : d # c => control'[d] = control[d]
          /\ control[c].at # "unlock"
          /\ control'[c].at = "unlock" =>
               control'[c].call \notin {"AddSink", "RemoveSink"}
          /\ control'[c].call # "none"
          /\ control'[c].call \in {"AddSink", "RemoveSink"} => c \in Owners
      <3>1. CASE CallAny(c)
        <4>1. PICK k \in Frames :
                /\ k.at = "lock" /\ control' = [control EXCEPT ![c] = k]
                /\ k.call # "none" /\ (k.call \in {"AddSink", "RemoveSink"} => c \in Owners)
          BY <3>1, CallEffect
        <4>2. control[c].at = "idle"
          BY <3>1, CallEffect
        <4> QED
          BY <1>0, <4>1, <4>2
      <3>2. CASE Enter(c)
        <4>1. /\ control[c].at = "lock"
              /\ control' = [control EXCEPT ![c] = [@ EXCEPT !.at =
                   CASE control[c].call = "Configure" -> "decimation"
                     [] control[c].call = "ResetSoftAudioStart" -> "unlock"
                     [] OTHER -> "collection"]]
          BY <3>2 DEF Enter, Goto
        <4> QED
          BY <1>0, <4>1 DEF SinkInv, CallsOfOwners, Frames
      <3>3. CASE ConfigurePart(c)
        <4>1. /\ control[c].at \in Parts /\ control[c].call = "Configure"
              /\ control' = [control EXCEPT ![c] = [@ EXCEPT !.at = After(control[c].at)]]
          BY <3>3 DEF ConfigurePart, Goto, OneByOne
        <4> QED
          BY <1>0, <4>1 DEF Parts, Frames
      <3> QED
        BY <1>1, <3>1, <3>2, <3>3
    <2>3. \A d \in Owners, s \in Stages : Expected(d, s)' = Expected(d, s)
      BY <1>0, <2>1, <2>2 DEF Expected
    <2>4. CallsOfOwners'
      BY <2>2 DEF SinkInv, CallsOfOwners
    <2>5. Attachments'
      BY <2>1, <2>3 DEF SinkInv, Attachments
    <2> QED
      BY <2>1, <2>4, <2>5 DEF SinkInv, SinkTypes
  <1>2. CASE ChangeCollection(c)
    <2> DEFINE t == control[c].stage
               one == IF control[c].call = "AddSink" THEN Append(sinks[t], c)
                                                     ELSE Erase(c, sinks[t])
    <2>1. /\ control[c].at = "collection" /\ mutex = c
          /\ control[c].call \in {"AddSink", "RemoveSink"} /\ c \in Owners /\ t \in Stages
      <3>1. control[c].at = "collection" /\ control[c].call \in Calls /\ t \in Stages
        BY <1>0, <1>2 DEF ChangeCollection, Frames
      <3>2. control[c].call \notin {"none", "Configure", "ResetSoftAudioStart"}
        BY <3>1 DEF OneByOne, SinkInv, CallsOfOwners
      <3> QED
        BY <3>1, <3>2 DEF Holders, Calls, SinkInv, CallsOfOwners
    <2>2. /\ sinks' = [sinks EXCEPT ![t] = one]
          /\ radio' = radio /\ attached' = attached
          /\ control' = [control EXCEPT ![c] = [@ EXCEPT !.at = "unlock"]]
      BY <1>2 DEF ChangeCollection, Goto
    <2>3. /\ one \in Seq(Owners)
          /\ \A d \in Owners : Occurrences(one, d) =
               IF d = c THEN IF control[c].call = "AddSink" THEN Occurrences(sinks[t], c) + 1
                                                            ELSE 0
                        ELSE Occurrences(sinks[t], d)
      <3>1. sinks[t] \in Seq(Owners)
        BY <2>1 DEF SinkInv, SinkTypes
      <3>2. CASE control[c].call = "AddSink"
        <4>1. one = Append(sinks[t], c)
          BY <3>2
        <4>2. \A d \in Owners : /\ Occurrences(sinks[t], d) \in Nat
                /\ Occurrences(Append(sinks[t], c), d) =
                     Occurrences(sinks[t], d) + IF c = d THEN 1 ELSE 0
          BY <2>1, <3>1, OccurrencesAppend
        <4> QED
          BY <2>1, <3>1, <3>2, <4>1, <4>2
      <3>3. CASE control[c].call # "AddSink"
        <4>1. one = Erase(c, sinks[t])
          BY <3>3
        <4> DEFINE list == sinks[t]
        <4>2. list \in Seq(Owners)
          BY <3>1
        <4> HIDE DEF list
        <4>3. /\ Erase(c, list) \in Seq(Owners)
              /\ \A d \in Owners : Occurrences(Erase(c, list), d) =
                                    IF d = c THEN 0 ELSE Occurrences(list, d)
          BY <2>1, <4>2, EraseRemovesAll
        <4> QED
          BY <3>3, <4>1, <4>3 DEF list
      <3> QED
        BY <3>2, <3>3
    <2> HIDE DEF one
    <2>4. \A s \in Stages : sinks'[s] = IF s = t THEN one ELSE sinks[s]
      BY <2>2 DEF SinkInv, SinkTypes
    <2>5. /\ \A d \in Controllers : d # c => control'[d] = control[d]
          /\ control'[c].at = "unlock" /\ control'[c].stage = t
          /\ control'[c].call = control[c].call
      BY <1>0, <2>2 DEF Frames
    <2>6. \A d \in Owners, s \in Stages : Occurrences(sinks'[s], d) = Expected(d, s)'
      <3> SUFFICES ASSUME NEW d \in Owners, NEW s \in Stages
                   PROVE  Occurrences(sinks'[s], d) = Expected(d, s)'
        OBVIOUS
      <3>1. Occurrences(sinks[s], d) = Expected(d, s)
        BY DEF SinkInv, Attachments
      <3>2. CASE d = c /\ s = t
        <4>1. Expected(d, s) = attached[d][s]
          BY <2>1, <3>2 DEF Expected
        <4>2. Expected(d, s)' = IF control[c].call = "AddSink" THEN attached[c][t] + 1 ELSE 0
          BY <2>1, <2>2, <2>5, <3>2 DEF Expected
        <4> QED
          BY <2>1, <2>3, <2>4, <3>1, <3>2, <4>1, <4>2
      <3>3. CASE ~(d = c /\ s = t)
        <4>1. Expected(d, s)' = Expected(d, s)
          BY <1>0, <2>1, <2>2, <2>5, <3>3 DEF Expected
        <4>2. Occurrences(sinks'[s], d) = Occurrences(sinks[s], d)
          BY <2>3, <2>4, <3>3
        <4> QED
          BY <3>1, <4>1, <4>2
      <3> QED
        BY <3>2, <3>3
    <2>7. radio.todo = <<>>
      BY <1>0, <2>1 DEF Holders, SinkInv, Attachments
    <2>8. SinkTypes'
      BY <2>2, <2>3, <2>4 DEF SinkInv, SinkTypes
    <2>9. CallsOfOwners'
      BY <2>1, <2>5 DEF SinkInv, CallsOfOwners
    <2>10. Attachments'
      BY <2>2, <2>6, <2>7 DEF Attachments
    <2> QED
      BY <2>8, <2>9, <2>10 DEF SinkInv
  <1>3. CASE Leave(c)
    <2> DEFINE t == control[c].stage
    <2>1. /\ control[c].at = "unlock" /\ t \in Stages /\ control' = [control EXCEPT ![c] = Idle]
          /\ sinks' = sinks /\ radio' = radio
          /\ attached' =
               CASE control[c].call = "AddSink" ->
                      [attached EXCEPT ![c] = [@ EXCEPT ![t] = attached[c][t] + 1]]
                 [] control[c].call = "RemoveSink" ->
                      [attached EXCEPT ![c] = [@ EXCEPT ![t] = 0]]
                 [] OTHER -> attached
      BY <1>0, <1>3 DEF Leave, Frames
    <2>2. /\ \A d \in Controllers : d # c => control'[d] = control[d]
          /\ control'[c].at = "idle" /\ control'[c].call = "none"
      BY <1>0, <2>1 DEF Idle
    <2>3. control[c].call \in {"AddSink", "RemoveSink"} => c \in Owners
      BY DEF SinkInv, CallsOfOwners
    <2>4. attached \in [Owners -> [Stages -> Nat]]
      BY DEF SinkInv, SinkTypes
    <2>5. /\ attached' \in [Owners -> [Stages -> Nat]]
          /\ \A d \in Owners, s \in Stages :
               attached'[d][s] = IF d = c THEN Expected(d, s) ELSE attached[d][s]
      <3>1. CASE control[c].call \in {"AddSink", "RemoveSink"}
        <4> DEFINE v == IF control[c].call = "AddSink" THEN attached[c][t] + 1 ELSE 0
        <4>1. c \in Owners /\ v \in Nat
          BY <2>1, <2>3, <2>4, <3>1
        <4>2. attached' = [attached EXCEPT ![c] = [@ EXCEPT ![t] = v]]
          <5>1. CASE control[c].call = "AddSink"
            BY <2>1, <5>1
          <5>2. CASE control[c].call = "RemoveSink"
            BY <2>1, <5>2
          <5> QED
            BY <3>1, <5>1, <5>2
        <4>3. \A s \in Stages : Expected(c, s) = IF s = t THEN v ELSE attached[c][s]
          BY <2>1, <3>1 DEF Expected
        <4> HIDE DEF v, t
        <4>4. \A d \in Owners, s \in Stages :
                attached'[d][s] = IF d = c /\ s = t THEN v ELSE attached[d][s]
          BY <2>4, <4>1, <4>2
        <4>5. attached' \in [Owners -> [Stages -> Nat]]
          BY <2>4, <4>1, <4>2
        <4> QED
          BY <4>3, <4>4, <4>5
      <3>2. CASE control[c].call \notin {"AddSink", "RemoveSink"}
        BY <2>1, <2>4, <3>2 DEF Expected
      <3> QED
        BY <3>1, <3>2
    <2>7. \A d \in Owners, s \in Stages : Expected(d, s)' = Expected(d, s)
      <3> SUFFICES ASSUME NEW d \in Owners, NEW s \in Stages
                   PROVE  Expected(d, s)' = Expected(d, s)
        OBVIOUS
      <3>1. CASE d = c
        BY <2>2, <2>5, <3>1 DEF Expected
      <3>2. CASE d # c
        <4>1. control'[d] = control[d] /\ attached'[d][s] = attached[d][s]
          BY <1>0, <2>2, <2>5, <3>2
        <4> QED
          BY <4>1 DEF Expected
      <3> QED
        BY <3>1, <3>2
    <2>6. CallsOfOwners'
      BY <2>2 DEF SinkInv, CallsOfOwners
    <2>8. Attachments'
      BY <2>1, <2>7 DEF SinkInv, Attachments
    <2> QED
      BY <2>1, <2>5, <2>6, <2>8 DEF SinkInv, SinkTypes
  <1> QED
    BY <1>1, <1>2, <1>3 DEF ControlInside

\* The radio thread takes its list from the collection, and shortens it.
LEMMA RadioKeepsSinks ==
  ASSUME PathType, SinkInv, StartBatch \/ ProcessIF \/ RadioInside
  PROVE  SinkInv'
  <1>0. /\ control' = control /\ sinks' = sinks /\ attached' = attached
        /\ radio \in [at : Places, stage : Stages, n : Nat, written : Nat,
                      todo : {radio.todo}, through : SUBSET Options]
        /\ radio.todo \in Seq(Owners) /\ sinks[radio.stage] \in Seq(Owners)
    BY DEF PathType, SinkInv, SinkTypes, StartBatch, ProcessIF, RadioInside, ProcessAF,
           LockCollection, PushToSink, UnlockCollection, EndBatch
  <1>1. SinkInv' <=> /\ radio'.todo \in Seq(Owners)
                     /\ radio'.todo # <<>> => radio'.at = "sinks"
                     /\ \A i \in DOMAIN radio'.todo : \E j \in DOMAIN sinks[radio'.stage] :
                          sinks[radio'.stage][j] = radio'.todo[i]
    <2>1. \A d \in Owners, s \in Stages : Expected(d, s)' = Expected(d, s)
      BY <1>0 DEF Expected
    <2> QED
      BY <1>0, <2>1 DEF SinkInv, SinkTypes, CallsOfOwners, Attachments
  <1>2. CASE StartBatch \/ ProcessIF \/ ProcessAF \/ EndBatch
    <2>1. radio'.todo = <<>>
      BY <1>2 DEF StartBatch, ProcessIF, ProcessAF, EndBatch, Through, Quiet
    <2> QED
      BY <1>1, <2>1
  <1>3. CASE LockCollection
    <2>1. radio'.todo = sinks[radio.stage] /\ radio'.at = "sinks" /\ radio'.stage = radio.stage
      BY <1>3 DEF LockCollection
    <2> QED
      BY <1>0, <1>1, <2>1
  <1>4. CASE PushToSink
    <2>1. /\ radio'.todo = Tail(radio.todo) /\ radio'.at = "sinks"
          /\ radio'.stage = radio.stage /\ radio.todo # <<>>
      BY <1>0, <1>4 DEF PushToSink
    <2>2. /\ Tail(radio.todo) \in Seq(Owners)
          /\ \A i \in DOMAIN Tail(radio.todo) : /\ i + 1 \in DOMAIN radio.todo
                                                /\ Tail(radio.todo)[i] = radio.todo[i + 1]
      BY <1>0, <2>1
    <2>3. \A i \in DOMAIN radio.todo : \E j \in DOMAIN sinks[radio.stage] :
            sinks[radio.stage][j] = radio.todo[i]
      BY DEF SinkInv, Attachments
    <2> QED
      BY <1>1, <2>1, <2>2, <2>3
  <1>5. CASE UnlockCollection
    <2>1. radio'.todo = <<>>
      BY <1>0, <1>5 DEF UnlockCollection
    <2> QED
      BY <1>1, <2>1
  <1> QED
    BY <1>2, <1>3, <1>4, <1>5 DEF RadioInside
--------------------------------------------------------------------------------
(* The theorems.                                                            *)

LEMMA NextInv == PathInv /\ [Next]_vars => PathInv'
  <1> SUFFICES ASSUME PathInv, [Next]_vars PROVE PathInv'
    OBVIOUS
  <1>0. PathType /\ Holders /\ OneByOne /\ Batch /\ QuietUntilHeard /\ Room
    BY DEF PathInv, ConfigurationInv
  <1>1. CASE StartBatch \/ ProcessIF \/ RadioInside
    BY <1>0, <1>1, RadioKeepsType, RadioKeepsHolders, RadioKeepsOneByOne, RadioKeepsBatch,
       RadioKeepsQuiet, RadioKeepsRoom DEF PathInv, ConfigurationInv
  <1>2. ASSUME NEW c \in Controllers, CallAny(c) \/ Enter(c) \/ ControlInside(c)
        PROVE  PathInv'
    BY <1>0, <1>2, ControllerKeepsType, ControllerKeepsHolders, ControllerKeepsOneByOne,
       ControllerKeepsBatch, ControllerKeepsQuiet, ControllerKeepsRoom
       DEF PathInv, ConfigurationInv
  <1>3. CASE UNCHANGED vars
    <2>1. /\ mutex' = mutex /\ path' = path /\ left' = left /\ volume' = volume
          /\ charge' = charge /\ buffers' = buffers /\ radio' = radio
          /\ control' = control /\ configured' = configured /\ heard' = heard
          /\ asked' = asked
      BY <1>3 DEF vars
    <2>2. PathType'
      BY <1>0, <2>1 DEF PathType
    <2>3. Holders' /\ OneByOne' /\ Batch'
      BY <1>0, <2>1 DEF Holders, OneByOne, Configuring, Batch, OneConfiguration
    <2>4. QuietUntilHeard' /\ Room'
      BY <1>0, <2>1 DEF QuietUntilHeard, IsQuiet, Room, OutputFits
    <2> QED
      BY <2>2, <2>3, <2>4 DEF PathInv, ConfigurationInv
  <1> QED
    BY <1>1, <1>2, <1>3 DEF Next

\* The inductive invariant of PushSamples against Configure, ResetSoftAudioStart,
\* AddSink and RemoveSink.
THEOREM PathInvariant == Spec => []PathInv
  BY InitInv, NextInv, PTL DEF Spec

\* A batch goes through the whole path with the options of one Configure,
\* whatever the controllers do while it is on its way.
THEOREM BatchesHaveOneConfiguration == Spec => []OneConfiguration
  <1>1. PathInv => OneConfiguration
    BY DEF PathInv, ConfigurationInv, Batch
  <1> QED
    BY <1>1, PathInvariant, PTL

\* The work buffers that PushSamples sizes from the batch hold the output of
\* every stage, for all ratios and whatever waits in the decimators.
THEOREM OutputAlwaysFits == Spec => []OutputFits
  <1>1. PathInv => OutputFits
    BY DEF PathInv, Room
  <1> QED
    BY <1>1, PathInvariant, PTL

\* The first audio of a new modulation starts at volume 0 with a fresh AGC.
THEOREM ModulationStartsQuiet == Spec => StartsQuiet
  <1>1. PathInv /\ [Next]_vars =>
          [heard' # heard \/ (asked /\ ~asked') => volume = 0 /\ ~charge]_vars
    <2> SUFFICES ASSUME PathInv, [Next]_vars, heard' # heard \/ (asked /\ ~asked')
                 PROVE  volume = 0 /\ ~charge
      OBVIOUS
    <2>1. QuietUntilHeard
      BY DEF PathInv
    <2>2. ProcessAF
      <3>1. ASSUME NEW c \in Controllers, CallAny(c) \/ Enter(c) \/ ControlInside(c)
            PROVE  heard' = heard /\ (asked => asked')
        <4>1. CASE CallAny(c)
          BY <4>1, CallEffect DEF PathInv
        <4>2. CASE Enter(c) \/ ControlInside(c)
          BY <4>2 DEF Enter, ControlInside, ConfigurePart, ChangeCollection, Leave
        <4> QED
          BY <3>1, <4>1, <4>2
      <3>2. StartBatch \/ ProcessIF \/ LockCollection \/ PushToSink \/ UnlockCollection
              \/ EndBatch => heard' = heard /\ asked' = asked
        BY DEF StartBatch, ProcessIF, LockCollection, PushToSink, UnlockCollection, EndBatch
      <3>3. UNCHANGED vars => heard' = heard /\ asked' = asked
        BY DEF vars
      <3> QED
        BY <3>1, <3>2, <3>3 DEF Next, RadioInside
    <2>3. heard' # heard => path["demodulator"].modulation # heard
      BY <2>2 DEF ProcessAF
    <2> QED
      BY <2>1, <2>3 DEF QuietUntilHeard, IsQuiet
  <1> QED
    BY <1>1, PathInvariant, PTL DEF Spec, StartsQuiet

\* The inductive invariant of AddSink and RemoveSink against PushSamples.
LEMMA SinksStepwise == PathInv /\ SinkInv /\ [Next]_vars => SinkInv'
  <1> SUFFICES ASSUME PathInv, SinkInv, [Next]_vars PROVE SinkInv'
    OBVIOUS
  <1>1. PathType /\ Holders /\ OneByOne
    BY DEF PathInv, ConfigurationInv
  <1>2. CASE StartBatch \/ ProcessIF \/ RadioInside
    BY <1>1, <1>2, RadioKeepsSinks
  <1>3. ASSUME NEW c \in Controllers, CallAny(c) \/ Enter(c) \/ ControlInside(c)
        PROVE  SinkInv'
    BY <1>1, <1>3, ControllerKeepsSinks
  <1>4. CASE UNCHANGED vars
    <2>1. sinks' = sinks /\ attached' = attached /\ radio' = radio /\ control' = control
      BY <1>4 DEF vars
    <2>2. \A d \in Owners, s \in Stages : Expected(d, s)' = Expected(d, s)
      BY <2>1 DEF Expected
    <2> QED
      BY <2>1, <2>2 DEF SinkInv, SinkTypes, CallsOfOwners, Attachments
  <1> QED
    BY <1>2, <1>3, <1>4 DEF Next

\* Once RemoveSink has returned, the sink of the caller is in no collection and
\* in no list that PushSamples still goes through, however often it was added;
\* until then it is there as often as AddSink has returned.
THEOREM RemovedSinksAreNotCalled == Spec => []SinksAsTheirOwnersLeftThem
  <1>1. PathInv /\ SinkInv => SinksAsTheirOwnersLeftThem
    <2> SUFFICES ASSUME PathInv, SinkInv, NEW c \in Owners, NEW s \in Stages, control[c] = Idle
                 PROVE  /\ Occurrences(sinks[s], c) = attached[c][s]
                        /\ radio.stage = s /\ attached[c][s] = 0
                             => \A i \in DOMAIN radio.todo : radio.todo[i] # c
      BY DEF SinksAsTheirOwnersLeftThem
    <2>1. Occurrences(sinks[s], c) = attached[c][s]
      BY DEF SinkInv, Attachments, Expected, Idle
    <2>2. sinks[s] \in Seq(Owners)
      BY DEF SinkInv, SinkTypes
    <2>3. attached[c][s] = 0 => \A j \in DOMAIN sinks[s] : sinks[s][j] # c
      BY <2>1, <2>2, OccurrencesNone
    <2>4. \A i \in DOMAIN radio.todo : \E j \in DOMAIN sinks[radio.stage] :
            sinks[radio.stage][j] = radio.todo[i]
      BY DEF SinkInv, Attachments
    <2> QED
      BY <2>1, <2>3, <2>4
  <1>2. Spec => []SinkInv
    BY PathInvariant, SinksAtFirst, SinksStepwise, PTL DEF Spec
  <1> QED
    BY <1>1, <1>2, PathInvariant, PTL
================================================================================
