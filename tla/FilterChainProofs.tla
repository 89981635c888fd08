-------------------------- MODULE FilterChainProofs ----------------------------
(***************************************************************************)
(* Proofs about the sample rate conversions, for any options, any number   *)
(* of taps and batches of any size.                                        *)
(***************************************************************************)
EXTENDS FilterChain, FoldProofs, SequenceTheorems

--------------------------------------------------------------------------------
(* The steps of a fold.                                                     *)

\* The sets of indices are folded with f, as far as the values are in S.
FoldedWith(it, b, N, f, S) ==
  /\ it[{}] = b
  /\ \A s \in SUBSET (1 .. N) :
       s # {} /\ it[s \ {Max(s)}] \in S => it[s] = f[<<it[s \ {Max(s)}], Max(s)>>]

\* Each step goes from one of some sets to the next one.
LeadsThrough(f, I, N, S) ==
  \A k \in 1 .. N : \A p \in S : p \in I[k - 1] => f[<<p, k>>] \in I[k]

\* A fold then goes from the first of them to the last one.
LEMMA FoldWithin ==
  ASSUME NEW S, NEW b \in S, NEW N \in Nat, NEW f \in [S \X (1 .. N) -> S],
         NEW it, FoldedWith(it, b, N, f, S), NEW I, b \in I[0], LeadsThrough(f, I, N, S)
  PROVE  it[1 .. N] \in S /\ it[1 .. N] \in I[N]
  <1>1. \A k \in 1 .. N : it[1 .. k - 1] \in S => it[1 .. k] = f[<<it[1 .. k - 1], k>>]
    BY ZenonT(60), InitialIndices DEF FoldedWith
  <1> DEFINE Good == {k \in Nat : k <= N => it[1 .. k] \in S /\ it[1 .. k] \in I[k]}
  <1>2. 0 \in Good
    BY InitialIndices DEF FoldedWith
  <1>3. ASSUME NEW k \in Nat, k \in Good PROVE k + 1 \in Good
    <2> SUFFICES ASSUME k + 1 <= N
                 PROVE  it[1 .. k + 1] \in S /\ it[1 .. k + 1] \in I[k + 1]
      OBVIOUS
    <2>1. it[1 .. k] \in S /\ it[1 .. k] \in I[k] /\ k + 1 \in 1 .. N /\ (k + 1) - 1 = k
      BY <1>3
    <2>2. it[1 .. k + 1] = f[<<it[1 .. k], k + 1>>]
      BY <1>1, <2>1
    <2>3. <<it[1 .. k], k + 1>> \in S \X (1 .. N)
      BY <2>1
    <2>4. f[<<it[1 .. k], k + 1>>] \in I[k + 1]
      BY <2>1 DEF LeadsThrough
    <2> QED
      BY <2>2, <2>3, <2>4
  <1>4. \A k \in Nat : k \in Good
    <2> HIDE DEF Good
    <2> QED
      BY <1>2, <1>3, NatSetInduction
  <1> QED
    BY <1>4

--------------------------------------------------------------------------------
(* Sequences as functions.                                                  *)

LEMMA FunctionIsSeq ==
  ASSUME NEW S, NEW n \in Nat, NEW s \in [1 .. n -> S]
  PROVE  s \in Seq(S) /\ Len(s) = n /\ DOMAIN s = 1 .. n
  OBVIOUS

LEMMA SeqIsFunction ==
  ASSUME NEW S, NEW s \in Seq(S)
  PROVE  Len(s) \in Nat /\ s \in [1 .. Len(s) -> S] /\ DOMAIN s = 1 .. Len(s)
  BY LenProperties

LEMMA JoinedFunctions ==
  ASSUME NEW S, NEW m \in Nat, NEW n \in Nat,
         NEW s \in [1 .. m -> S], NEW t \in [1 .. n -> S]
  PROVE  /\ s \o t \in [1 .. m + n -> S]
         /\ \A j \in 1 .. m + n : (s \o t)[j] = IF j <= m THEN s[j] ELSE t[j - m]
  <1>1. s \in Seq(S) /\ Len(s) = m /\ t \in Seq(S) /\ Len(t) = n
    BY FunctionIsSeq
  <1>2. /\ s \o t \in Seq(S) /\ Len(s \o t) = m + n
        /\ \A j \in 1 .. m + n : (s \o t)[j] = IF j <= m THEN s[j] ELSE t[j - m]
    BY <1>1, ConcatProperties
  <1> QED
    BY <1>2, SeqIsFunction

--------------------------------------------------------------------------------
(* The ring buffer: the samples in the order of time.                       *)

\* The latest samples when i more of x have come.
After(w, x, i) ==
  [j \in 1 .. Len(w) |-> IF i - Len(w) + j > 0 THEN x[i - Len(w) + j] ELSE w[i + j]]

\* The buffers of n samples.
Rings(n) ==
  {b \in [data : [0 .. n - 1 -> Int], head : 0 .. n - 1, tail : 0 .. n - 1] :
     b.tail = IF b.head = 0 THEN n - 1 ELSE b.head - 1}

LEMMA SizeOfRing ==
  ASSUME NEW n \in Nat, NEW b, DOMAIN b.data = 0 .. n - 1
  PROVE  Size(b) = n
  <1>1. Cardinality(0 .. n - 1) = IF 0 > n - 1 THEN 0 ELSE n - 1 - 0 + 1
    BY FS_Interval
  <1> QED
    BY <1>1 DEF Size

LEMMA WindowOfRing ==
  ASSUME NEW n \in Nat \ {0}, NEW b \in Rings(n)
  PROVE  /\ StoredWindow(b) \in [1 .. n -> Int]
         /\ \A j \in 1 .. n : StoredWindow(b)[j] =
              b.data[IF b.head + j <= n THEN b.head + j - 1 ELSE b.head + j - 1 - n]
  <1>1. Size(b) = n
    BY SizeOfRing DEF Rings
  <1>2. b.head \in 0 .. n - 1 /\ b.data \in [0 .. n - 1 -> Int]
    BY DEF Rings
  <1>3. PICK p \in Nat, q \in Nat : q = b.head /\ p = n - q
    BY <1>2
  <1> DEFINE old == [i \in 1 .. p |-> b.data[b.head + i - 1]]
             new == [i \in 1 .. q |-> b.data[i - 1]]
  <1>4. GetContinuousOldElements(b) = old
    <2>1. n - 1 - b.head + 1 = p
      BY <1>2, <1>3
    <2> QED
      BY <1>1, <2>1 DEF GetContinuousOldElements, Span
  <1>5. GetContinuousNewElements(b) = new
    BY <1>1, <1>2, <1>3 DEF GetContinuousNewElements, Span
  <1>6. old \in [1 .. p -> Int]
    <2>1. \A i \in 1 .. p : b.head + i - 1 \in 0 .. n - 1
      BY <1>2, <1>3
    <2> QED
      BY <1>2, <2>1
  <1>7. new \in [1 .. q -> Int]
    <2>1. \A i \in 1 .. q : i - 1 \in 0 .. n - 1
      BY <1>2, <1>3
    <2> QED
      BY <1>2, <2>1
  <1>8. /\ old \o new \in [1 .. p + q -> Int]
        /\ \A j \in 1 .. p + q :
             (old \o new)[j] = IF j <= p THEN old[j] ELSE new[j - p]
    <2> HIDE DEF old, new
    <2>1. old \o new \in [1 .. p + q -> Int]
      BY <1>6, <1>7, JoinedFunctions
    <2>2. old \in Seq(Int) /\ Len(old) = p
      BY <1>6, FunctionIsSeq
    <2>3. new \in Seq(Int) /\ Len(new) = q
      BY <1>7, FunctionIsSeq
    <2>4. ASSUME NEW j \in 1 .. p + q
          PROVE  (old \o new)[j] = IF j <= p THEN old[j] ELSE new[j - p]
      BY <2>2, <2>3, ConcatProperties
    <2> QED
      BY <2>1, <2>4
  <1>9. ASSUME NEW j \in 1 .. n
        PROVE  (IF j <= p THEN old[j] ELSE new[j - p]) =
                 b.data[IF b.head + j <= n THEN b.head + j - 1 ELSE b.head + j - 1 - n]
    <2>1. CASE j <= p
      <3>1. j \in 1 .. p /\ b.head + j <= n
        BY <1>2, <1>3, <2>1
      <3> QED
        BY <2>1, <3>1
    <2>2. CASE ~ (j <= p)
      <3>1. /\ j - p \in 1 .. q /\ ~ (b.head + j <= n)
            /\ j - p - 1 = b.head + j - 1 - n
        BY SMTT(30), <1>2, <1>3, <2>2
      <3> QED
        BY <2>2, <3>1
    <2> QED
      BY <2>1, <2>2
  <1>10. p + q = n
    BY <1>2, <1>3
  <1> HIDE DEF old, new
  <1> QED
    BY <1>4, <1>5, <1>8, <1>9, <1>10 DEF StoredWindow

LEMMA LastElements ==
  ASSUME NEW S, NEW e \in Seq(S), NEW n \in Nat
  PROVE  /\ LastOf(e, n) \in Seq(S)
         /\ Len(LastOf(e, n)) = IF Len(e) > n THEN n ELSE Len(e)
         /\ \A k \in 1 .. Len(LastOf(e, n)) :
              LastOf(e, n)[k] = e[Len(e) - Len(LastOf(e, n)) + k]
  <1>1. Len(e) \in Nat
    BY LenProperties
  <1>2. CASE Len(e) > n
    <2>1. \A i \in Len(e) - n + 1 .. Len(e) : e[i] \in S
      BY <1>1, <1>2, ElementOfSeq
    <2>2. Len(e) - n + 1 \in 1 .. Len(e) + 1
      BY <1>1, <1>2
    <2>3. LastOf(e, n) = SubSeq(e, Len(e) - n + 1, Len(e))
      BY <1>2 DEF LastOf
    <2>4. Len(SubSeq(e, Len(e) - n + 1, Len(e))) = n
      BY <1>1, <1>2, SubSeqProperties
    <2>5. SubSeq(e, Len(e) - n + 1, Len(e)) \in Seq(S)
      BY <1>1, <1>2, <2>1, SubSeqProperties
    <2>6. ASSUME NEW k \in 1 .. n
          PROVE  SubSeq(e, Len(e) - n + 1, Len(e))[k] = e[Len(e) - n + k]
      <3>1. SubSeq(e, Len(e) - n + 1, Len(e))[k] = e[(Len(e) - n + 1) + k - 1]
        BY <1>1, <1>2, SubSeqProperties
      <3>2. (Len(e) - n + 1) + k - 1 = Len(e) - n + k
        BY <1>1
      <3> QED
        BY <3>1, <3>2
    <2> QED
      BY <1>2, <2>3, <2>4, <2>5, <2>6
  <1>3. CASE ~ (Len(e) > n)
    BY <1>1, <1>3 DEF LastOf
  <1> QED
    BY <1>2, <1>3

\* Where the places of the buffer are in the order of time, before and after
\* m pushes.
Place(head, n, j) == IF head + j <= n THEN head + j - 1 ELSE head + j - 1 - n

LEMMA WindowType ==
  ASSUME NEW n \in Nat \ {0}, NEW b \in Rings(n)
  PROVE  /\ StoredWindow(b) \in Seq(Int) /\ Len(StoredWindow(b)) = n
         /\ \A j \in 1 .. n : StoredWindow(b)[j] = b.data[Place(b.head, n, j)]
  <1>1. StoredWindow(b) \in [1 .. n -> Int]
    BY WindowOfRing
  <1>2. \A j \in 1 .. n : StoredWindow(b)[j] = b.data[Place(b.head, n, j)]
    BY WindowOfRing DEF Place
  <1> QED
    BY <1>1, <1>2, FunctionIsSeq

LEMMA PlacesOfPushed ==
  ASSUME NEW n \in Nat \ {0}, NEW tail \in 0 .. n - 1, NEW m \in 0 .. n,
         NEW hs, hs = IF n - tail - 1 < m THEN n - tail - 1 ELSE m,
         NEW i \in 0 .. n - 1
  PROVE  /\ i \in tail + 1 .. tail + hs => i - tail \in 1 .. m
         /\ i < m - hs => hs + i + 1 \in 1 .. m
  OBVIOUS

\* The storage after m elements were written, by their places.
LEMMA OverwrittenType ==
  ASSUME NEW n \in Nat \ {0}, NEW b \in Rings(n), NEW p \in Seq(Int), Len(p) <= n
  PROVE  Overwritten(b, p) \in [0 .. n - 1 -> Int]
  <1>1. b.data \in [0 .. n - 1 -> Int] /\ b.tail \in 0 .. n - 1
    BY DEF Rings
  <1>2. Size(b) = n
    BY <1>1, SizeOfRing
  <1>3. PICK m \in Nat : m = Len(p)
    BY LenProperties
  <1>4. PICK hs \in Nat : hs = IF n - b.tail - 1 < m THEN n - b.tail - 1 ELSE m
    BY <1>1
  <1>5. \A k \in 1 .. m : p[k] \in Int
    BY <1>3, ElementOfSeq
  <1>6. Overwritten(b, p) =
          [i \in 0 .. n - 1 |->
             IF i \in b.tail + 1 .. b.tail + hs THEN p[i - b.tail]
             ELSE IF i < m - hs THEN p[hs + i + 1]
             ELSE b.data[i]]
    BY <1>1, <1>2, <1>3, <1>4, Zenon DEF Overwritten
  <1>7. ASSUME NEW i \in 0 .. n - 1
        PROVE  (IF i \in b.tail + 1 .. b.tail + hs THEN p[i - b.tail]
                ELSE IF i < m - hs THEN p[hs + i + 1]
                ELSE b.data[i]) \in Int
    <2>1. m \in 0 .. n
      BY <1>3
    <2>2. /\ i \in b.tail + 1 .. b.tail + hs => i - b.tail \in 1 .. m
          /\ i < m - hs => hs + i + 1 \in 1 .. m
      BY <1>1, <1>4, <2>1, PlacesOfPushed
    <2> QED
      BY <1>1, <1>5, <2>2
  <1> QED
    BY <1>6, <1>7

LEMMA PushedMany ==
  ASSUME NEW n \in Nat \ {0}, NEW b \in Rings(n), NEW e \in Seq(Int)
  PROVE  /\ PushBackMultiple(b, e) \in Rings(n)
         /\ StoredWindow(PushBackMultiple(b, e)) = After(StoredWindow(b), e, Len(e))
  <1> DEFINE p == LastOf(e, n)
  <1>0. PICK h \in 0 .. n - 1, tl \in 0 .. n - 1 : h = b.head /\ tl = b.tail
    BY DEF Rings
  <1>1. b.data \in [0 .. n - 1 -> Int] /\ tl = IF h = 0 THEN n - 1 ELSE h - 1
    BY <1>0 DEF Rings
  <1>2. Size(b) = n
    BY <1>1, SizeOfRing
  <1>3. /\ p \in Seq(Int) /\ Len(p) = IF Len(e) > n THEN n ELSE Len(e)
        /\ \A k \in 1 .. Len(p) : p[k] = e[Len(e) - Len(p) + k]
    BY LastElements
  <1>4. PushBackMultiple(b, e) =
          [data |-> Overwritten(b, p), head |-> AdvanceWarped(h, Len(p), n),
           tail |-> AdvanceWarped(tl, Len(p), n)]
    BY <1>0, <1>2 DEF PushBackMultiple
  <1> HIDE DEF p
  <1>5. PICK m \in Nat : m = Len(p) /\ m <= n
    BY <1>3, LenProperties
  <1>6. PICK l \in Nat : l = Len(e)
    BY LenProperties
  <1>7. PICK hs \in Nat : hs = IF n - tl - 1 < m THEN n - tl - 1 ELSE m
    BY <1>0, <1>5
  <1> DEFINE head == AdvanceWarped(h, m, n)
             tail == AdvanceWarped(tl, m, n)
             r == PushBackMultiple(b, e)
  <1>8. /\ head \in 0 .. n - 1 /\ tail \in 0 .. n - 1
        /\ tail = IF head = 0 THEN n - 1 ELSE head - 1
    <2>1. m \in 0 .. n
      BY <1>5
    <2>2. tl = IF h = 0 THEN n - 1 ELSE h - 1
      BY <1>1
    <2> QED
      BY SMTT(30), <1>0, <2>1, <2>2 DEF AdvanceWarped
  <1>9. r = [data |-> Overwritten(b, p), head |-> head, tail |-> tail]
    BY <1>4, <1>5
  <1>10. Overwritten(b, p) \in [0 .. n - 1 -> Int]
    BY <1>3, <1>5, OverwrittenType
  <1>11. r \in Rings(n)
    BY <1>8, <1>9, <1>10 DEF Rings
  <1>12. Overwritten(b, p) =
          [i \in 0 .. n - 1 |->
             IF i \in tl + 1 .. tl + hs THEN p[i - tl]
             ELSE IF i < m - hs THEN p[hs + i + 1]
             ELSE b.data[i]]
    BY <1>0, <1>1, <1>2, <1>5, <1>7, Zenon DEF Overwritten
  <1> DEFINE w == StoredWindow(b)
  <1>13. Len(w) = n /\ \A j \in 1 .. n : w[j] = b.data[Place(h, n, j)]
    BY <1>0, WindowType
  <1>14. /\ StoredWindow(r) \in Seq(Int) /\ Len(StoredWindow(r)) = n
         /\ \A j \in 1 .. n : StoredWindow(r)[j] = r.data[Place(head, n, j)]
    <2> HIDE DEF head, tail, r
    <2>1. r.head = head
      BY <1>9
    <2> QED
      BY <1>11, <2>1, WindowType
  <1>15. ASSUME NEW j \in 1 .. n
         PROVE  StoredWindow(r)[j] = IF l - n + j > 0 THEN e[l - n + j] ELSE w[l + j]
    <2> DEFINE i == Place(head, n, j)
    <2>1. /\ i \in 0 .. n - 1
          /\ i \in tl + 1 .. tl + hs => m - n + j > 0 /\ i - tl = m - n + j
          /\ i \notin tl + 1 .. tl + hs /\ i < m - hs =>
               m - n + j > 0 /\ hs + i + 1 = m - n + j
          /\ i \notin tl + 1 .. tl + hs /\ ~ (i < m - hs) =>
               m - n + j <= 0 /\ i = Place(h, n, m + j)
      <3>1. m \in 0 .. n
        BY <1>5
      <3>2. i = Place(IF h + m >= n THEN h + m - n ELSE h + m, n, j)
        BY DEF AdvanceWarped
      <3>3. tl = IF h = 0 THEN n - 1 ELSE h - 1
        BY <1>1
      <3>4. hs = IF n - tl - 1 < m THEN n - tl - 1 ELSE m
        BY <1>7
      <3> HIDE DEF i, head, tail, r, w
      <3>5. i \in 0 .. n - 1
        BY <3>1, <3>2 DEF Place
      <3>6. i \in tl + 1 .. tl + hs => m - n + j > 0 /\ i - tl = m - n + j
        BY <3>1, <3>2, <3>3, <3>4 DEF Place
      <3>7. i \notin tl + 1 .. tl + hs /\ i < m - hs =>
              m - n + j > 0 /\ hs + i + 1 = m - n + j
        BY <3>1, <3>2, <3>3, <3>4 DEF Place
      <3>8. i \notin tl + 1 .. tl + hs /\ ~ (i < m - hs) =>
              m - n + j <= 0 /\ i = Place(h, n, m + j)
        BY <3>1, <3>2, <3>3, <3>4 DEF Place
      <3> QED
        BY <3>5, <3>6, <3>7, <3>8
    <2>2. StoredWindow(r)[j] = Overwritten(b, p)[i]
      <3> HIDE DEF head, tail, r
      <3>1. r.data = Overwritten(b, p)
        BY <1>9
      <3> QED
        BY <1>14, <3>1
    <2> HIDE DEF i, head, tail, r, w
    <2>3. Overwritten(b, p)[i] =
            IF i \in tl + 1 .. tl + hs THEN p[i - tl]
            ELSE IF i < m - hs THEN p[hs + i + 1]
            ELSE b.data[i]
      BY <1>12, <2>1
    <2>4. CASE m - n + j > 0
      <3>1. Overwritten(b, p)[i] = p[m - n + j]
        BY <2>1, <2>3, <2>4
      <3>2. m - n + j \in 1 .. m
        BY <1>5, <2>4
      <3>3. p[m - n + j] = e[l - m + (m - n + j)]
        <4>1. \A k \in 1 .. m : p[k] = e[l - m + k]
          BY <1>3, <1>5, <1>6
        <4> QED
          BY <1>5, <1>6, <3>2, <4>1
      <3>4. l - m + (m - n + j) = l - n + j /\ l - n + j > 0
        <4>1. m = IF l > n THEN n ELSE l
          BY <1>3, <1>5, <1>6
        <4>2. m \in Nat /\ m <= n /\ l \in Nat
          BY <1>5, <1>6
        <4> QED
          BY <2>4, <4>1, <4>2
      <3> QED
        BY <2>2, <3>1, <3>3, <3>4
    <2>5. CASE ~ (m - n + j > 0)
      <3>1. Overwritten(b, p)[i] = b.data[Place(h, n, m + j)]
        BY <1>5, <2>1, <2>3, <2>5
      <3>2. m = l /\ m + j \in 1 .. n
        BY <1>3, <1>5, <1>6, <2>5
      <3>3. ~ (l - n + j > 0)
        BY <2>5, <3>2
      <3> QED
        BY <1>13, <2>2, <3>1, <3>2, <3>3
    <2> QED
      BY <2>4, <2>5
  <1>16. StoredWindow(r) = [j \in 1 .. n |-> StoredWindow(r)[j]]
    <2> HIDE DEF r
    <2> QED
      BY <1>14, SeqIsFunction
  <1>17. StoredWindow(r) = After(w, e, l)
    <2> HIDE DEF r, w
    <2> QED
      BY <1>13, <1>15, <1>16 DEF After
  <1> QED
    BY <1>6, <1>11, <1>17

\* One sample is a batch of one.
LEMMA PushedOne ==
  ASSUME NEW n \in Nat \ {0}, NEW b \in Rings(n), NEW x \in Int
  PROVE  PushBack(b, x) = PushBackMultiple(b, <<x>>)
  <1>1. PICK h \in 0 .. n - 1, t \in 0 .. n - 1 : h = b.head /\ t = b.tail
    BY DEF Rings
  <1>2. b.data \in [0 .. n - 1 -> Int]
    BY DEF Rings
  <1>3. Size(b) = n
    BY <1>2, SizeOfRing
  <1>4. LastOf(<<x>>, n) = <<x>> /\ Len(<<x>>) = 1 /\ <<x>>[1] = x
    BY DEF LastOf
  <1>5. PICK hs \in 0 .. 1 : hs = IF n - t - 1 < 1 THEN n - t - 1 ELSE 1
    BY <1>1
  <1> DEFINE s == <<x>>
             u == AdvanceWarped(t, 1, n)
  <1>6. Overwritten(b, s) =
          [i \in 0 .. n - 1 |->
             IF i \in t + 1 .. t + hs THEN s[i - t]
             ELSE IF i < 1 - hs THEN s[hs + i + 1]
             ELSE b.data[i]]
    BY <1>1, <1>2, <1>3, <1>4, <1>5, Zenon DEF Overwritten
  <1>7. ASSUME NEW i \in 0 .. n - 1
        PROVE  (IF i \in t + 1 .. t + hs THEN s[i - t]
                ELSE IF i < 1 - hs THEN s[hs + i + 1] ELSE b.data[i]) =
                 IF i = u THEN x ELSE b.data[i]
    <2> HIDE DEF s
    <2>1. CASE i \in t + 1 .. t + hs
      <3>1. i - t = 1 /\ i = u
        BY <1>1, <1>5, <2>1 DEF AdvanceWarped
      <3> QED
        BY <1>4, <2>1, <3>1 DEF s
    <2>2. CASE i \notin t + 1 .. t + hs /\ i < 1 - hs
      <3>1. hs + i + 1 = 1 /\ i = u
        BY <1>1, <1>5, <2>2 DEF AdvanceWarped
      <3> QED
        BY <1>4, <2>2, <3>1 DEF s
    <2>3. CASE i \notin t + 1 .. t + hs /\ ~ (i < 1 - hs)
      <3>1. i # u
        BY <1>1, <1>5, <2>3 DEF AdvanceWarped
      <3> QED
        BY <2>3, <3>1
    <2> QED
      BY <2>1, <2>2, <2>3
  <1>8. [b.data EXCEPT ![u] = x] = [i \in 0 .. n - 1 |-> IF i = u THEN x ELSE b.data[i]]
    BY <1>2
  <1>9. Overwritten(b, s) = [b.data EXCEPT ![u] = x]
    <2> HIDE DEF s, u
    <2> QED
      BY <1>6, <1>7, <1>8
  <1>10. PushBack(b, x) = [data |-> [b.data EXCEPT ![u] = x],
                           head |-> AdvanceWarped(h, 1, n), tail |-> u]
    BY <1>1, <1>3 DEF PushBack
  <1>11. PushBackMultiple(b, s) = [data |-> Overwritten(b, s),
                                   head |-> AdvanceWarped(h, 1, n), tail |-> u]
    BY <1>1, <1>3, <1>4 DEF PushBackMultiple
  <1> QED
    BY <1>9, <1>10, <1>11

--------------------------------------------------------------------------------
(* The latest samples.                                                      *)

LEMMA AfterType ==
  ASSUME NEW k \in Nat, NEW w \in [1 .. k -> Int], NEW n \in Nat,
         NEW x \in [1 .. n -> Int], NEW i \in 0 .. n
  PROVE  /\ After(w, x, i) \in [1 .. k -> Int]
         /\ \A j \in 1 .. k : After(w, x, i)[j] =
              IF i - k + j > 0 THEN x[i - k + j] ELSE w[i + j]
  <1>1. Len(w) = k
    BY FunctionIsSeq
  <1>2. After(w, x, i) = [j \in 1 .. k |-> IF i - k + j > 0 THEN x[i - k + j] ELSE w[i + j]]
    BY <1>1 DEF After
  <1>3. ASSUME NEW j \in 1 .. k
        PROVE  (IF i - k + j > 0 THEN x[i - k + j] ELSE w[i + j]) \in Int
    <2>1. i - k + j > 0 => i - k + j \in 1 .. n
      OBVIOUS
    <2>2. ~ (i - k + j > 0) => i + j \in 1 .. k
      OBVIOUS
    <2> QED
      BY <2>1, <2>2
  <1> QED
    BY <1>2, <1>3

LEMMA AfterNothing ==
  ASSUME NEW k \in Nat, NEW w \in [1 .. k -> Int], NEW x
  PROVE  After(w, x, 0) = w
  <1>1. Len(w) = k
    BY FunctionIsSeq
  <1>2. After(w, x, 0) = [j \in 1 .. k |-> IF 0 - k + j > 0 THEN x[0 - k + j] ELSE w[0 + j]]
    BY <1>1 DEF After
  <1>3. \A j \in 1 .. k : ~ (0 - k + j > 0) /\ 0 + j = j
    OBVIOUS
  <1>4. \A j \in 1 .. k : (IF 0 - k + j > 0 THEN x[0 - k + j] ELSE w[0 + j]) = w[j]
    BY <1>3
  <1>5. w = [j \in 1 .. k |-> w[j]]
    OBVIOUS
  <1> QED
    BY <1>2, <1>4, <1>5

\* y holds the m elements of x behind the first i ones.
Continues(y, m, x, i) == y \in [1 .. m -> Int] /\ \A j \in 1 .. m : y[j] = x[i + j]

LEMMA AfterMore ==
  ASSUME NEW k \in Nat, NEW w \in [1 .. k -> Int], NEW n \in Nat,
         NEW x \in [1 .. n -> Int], NEW i \in Nat,
         NEW m \in Nat, i + m <= n, NEW y, Continues(y, m, x, i)
  PROVE  After(After(w, x, i), y, m) = After(w, x, i + m)
  <1>0. i \in 0 .. n /\ y \in [1 .. m -> Int] /\ \A j \in 1 .. m : y[j] = x[i + j]
    BY DEF Continues
  <1> DEFINE v == After(w, x, i)
  <1>1. v \in [1 .. k -> Int]
    BY <1>0, AfterType
  <1>2. \A j \in 1 .. k : v[j] = IF i - k + j > 0 THEN x[i - k + j] ELSE w[i + j]
    BY <1>0, AfterType
  <1>3. i + m \in 0 .. n /\ m \in 0 .. m
    OBVIOUS
  <1> HIDE DEF v
  <1>4. After(v, y, m) \in [1 .. k -> Int]
    BY <1>0, <1>1, <1>3, AfterType
  <1>5. \A j \in 1 .. k : After(v, y, m)[j] =
          IF m - k + j > 0 THEN y[m - k + j] ELSE v[m + j]
    BY <1>0, <1>1, <1>3, AfterType
  <1>6. After(w, x, i + m) \in [1 .. k -> Int]
    BY <1>3, AfterType
  <1>7. \A j \in 1 .. k : After(w, x, i + m)[j] =
          IF (i + m) - k + j > 0 THEN x[(i + m) - k + j] ELSE w[(i + m) + j]
    BY <1>3, AfterType
  <1>8. ASSUME NEW j \in 1 .. k PROVE After(v, y, m)[j] = After(w, x, i + m)[j]
    <2>1. CASE m - k + j > 0
      <3>1. m - k + j \in 1 .. m /\ i + (m - k + j) = (i + m) - k + j
            /\ (i + m) - k + j > 0
        BY <2>1
      <3>2. y[m - k + j] = x[i + (m - k + j)]
        BY <1>0, <3>1
      <3> QED
        BY <1>5, <1>7, <2>1, <3>1, <3>2
    <2>2. CASE ~ (m - k + j > 0)
      <3>1. m + j \in 1 .. k /\ i - k + (m + j) = (i + m) - k + j /\ i + (m + j) = (i + m) + j
        BY <2>2
      <3>2. v[m + j] = IF i - k + (m + j) > 0 THEN x[i - k + (m + j)] ELSE w[i + (m + j)]
        BY <1>2, <3>1
      <3> QED
        BY <1>5, <1>7, <2>2, <3>1, <3>2
    <2> QED
      BY <2>1, <2>2
  <1> QED
    BY <1>4, <1>6, <1>8 DEF v

--------------------------------------------------------------------------------
(* Products and quotients.                                                  *)

LEMMA DivisionIs ==
  ASSUME NEW q \in Nat, NEW r \in Nat \ {0}, NEW m \in 0 .. r - 1
  PROVE  /\ (r * q + m) \div r = q
         /\ (r * q + m) % r = m
  OBVIOUS

LEMMA Division ==
  ASSUME NEW a \in Nat, NEW r \in Nat \ {0}
  PROVE  \E q \in Nat, m \in 0 .. r - 1 : a = r * q + m /\ a \div r = q /\ a % r = m
  <1>1. PICK q \in Nat : q = a \div r
    OBVIOUS
  <1>2. r * q <= a /\ a < r * (q + 1)
    BY <1>1
  <1>3. PICK p \in Nat : p = r * q
    BY <1>1
  <1>4. r * (q + 1) = p + r
    BY <1>1, <1>3
  <1>5. PICK m \in 0 .. r - 1 : a = p + m
    <2>1. a - p \in 0 .. r - 1 /\ a = p + (a - p)
      BY <1>2, <1>3, <1>4
    <2> QED
      BY <2>1
  <1>6. (r * q + m) % r = m
    BY <1>1, <1>5, DivisionIs
  <1>7. a % r = m
    BY <1>3, <1>5, <1>6
  <1>8. a = r * q + m
    BY <1>3, <1>5
  <1> QED
    BY <1>1, <1>5, <1>7, <1>8

LEMMA KernelSizeType ==
  ASSUME NEW r \in Nat
  PROVE  KernelSize(r) \in Nat \ {0}
  <1>1. TapsPerRatio * r \in Nat
    BY TapsAssumption
  <1> QED
    BY <1>1 DEF KernelSize

\* While so many outputs are written, the samples move on by a window.
LEMMA MaxCombinedType ==
  ASSUME NEW r \in Nat \ {0, 1}
  PROVE  /\ MaxCombinedOutputs(r) \in Nat \ {0}
         /\ KernelSize(r) < (r - 1) * MaxCombinedOutputs(r)
  <1>1. PICK s \in Nat \ {0} : s = r - 1
    OBVIOUS
  <1>2. PICK k \in Nat \ {0} : k = KernelSize(r)
    BY KernelSizeType
  <1>3. PICK q \in Nat, m \in 0 .. s - 1 : k = s * q + m /\ k \div s = q /\ k % s = m
    BY <1>1, <1>2, Division, Zenon
  <1>4. MaxCombinedOutputs(r) = q + 1
    BY <1>1, <1>2, <1>3 DEF MaxCombinedOutputs
  <1>5. PICK p \in Nat : p = s * q
    BY <1>1, <1>3
  <1>6. s * (q + 1) = p + s
    BY <1>1, <1>3, <1>5
  <1>7. k < s * (q + 1)
    BY <1>1, <1>2, <1>3, <1>5, <1>6
  <1> QED
    BY <1>1, <1>2, <1>3, <1>4, <1>7

\* The outputs stay behind the samples that were read for them.
LEMMA OutputsStayBehind ==
  ASSUME NEW r \in Nat \ {0, 1}, NEW u \in 0 .. r - 1, NEW j \in Nat \ {0}
  PROVE  r * j - u \in Nat /\ j <= r * j - u
  <1>1. r * j = (r - 1) * j + j
    OBVIOUS
  <1>2. (r - 1) * j = (r - 1) * (j - 1) + (r - 1)
    OBVIOUS
  <1>3. (r - 1) * (j - 1) \in Nat /\ r * j \in Nat
    OBVIOUS
  <1> QED
    BY <1>1, <1>2, <1>3

--------------------------------------------------------------------------------
(* The decimator: the first outputs, from the samples that were stored and  *)
(* the first ones of the batch.                                             *)

DecimatorsOf(r) ==
  [ratio : {r}, stored : Rings(KernelSize(r)), unprocessed : 0 .. r - 1]

\* The samples of the batch that were read, of a decimator of which u samples
\* waited and whose latest samples were w.
Read(r, u, j) == IF j = 0 THEN 0 ELSE r * j - u

Progress(r, u, w, n, x, ip) ==
  {p \in [decimator : DecimatorsOf(r), samples : {x}, read : 0 .. n,
          outputs : Seq(Seq(Int)), inPlace : {ip}] :
     /\ p.read = Read(r, u, Len(p.outputs))
     /\ p.decimator.unprocessed = IF Len(p.outputs) = 0 THEN u ELSE 0
     /\ StoredWindow(p.decimator.stored) = After(w, x, p.read)
     /\ \A k \in 1 .. Len(p.outputs) : p.outputs[k] = After(w, x, r * k - u)}

\* Only what was read was overwritten.
LEMMA MemoryIsKept ==
  ASSUME NEW n \in Nat, NEW x \in [1 .. n -> Int], NEW p, p.samples = x,
         Len(p.outputs) \in Nat
  PROVE  /\ Memory(p) \in [1 .. n -> Int]
         /\ \A i \in 1 .. n : i > Len(p.outputs) => Memory(p)[i] = x[i]
  <1>1. Memory(p) = [i \in 1 .. n |->
                       IF p.inPlace /\ i <= Len(p.outputs) THEN Written ELSE x[i]]
    BY DEF Memory
  <1>2. Written \in Int
    BY DEF Written
  <1> HIDE DEF Written
  <1>3. \A i \in 1 .. n : (IF p.inPlace /\ i <= Len(p.outputs) THEN Written ELSE x[i]) \in Int
    BY <1>2
  <1>4. Memory(p) \in [1 .. n -> Int]
    BY <1>1, <1>3
  <1>5. ASSUME NEW i \in 1 .. n, i > Len(p.outputs) PROVE Memory(p)[i] = x[i]
    <2>1. ~ (i <= Len(p.outputs))
      BY <1>5
    <2> QED
      BY <1>1, <2>1
  <1> QED
    BY <1>4, <1>5

\* A part of the memory that was not overwritten.
LEMMA ReadFromMemory ==
  ASSUME NEW n \in Nat, NEW x \in [1 .. n -> Int], NEW p, p.samples = x,
         Len(p.outputs) \in Nat,
         NEW a \in Nat, NEW m \in Nat, a + m <= n, a >= Len(p.outputs)
  PROVE  Continues(SubSeq(Memory(p), a + 1, a + m), m, x, a)
  <1> DEFINE y == Memory(p)
             s == SubSeq(y, a + 1, a + m)
  <1>1. y \in Seq(Int) /\ Len(y) = n
    BY MemoryIsKept, FunctionIsSeq
  <1>2. \A i \in 1 .. n : i > Len(p.outputs) => y[i] = x[i]
    BY MemoryIsKept
  <1>0. s = SubSeq(y, a + 1, a + m)
    OBVIOUS
  <1> HIDE DEF y, s
  <1>3. \A i \in a + 1 .. a + m : y[i] \in Int
    BY <1>1, ElementOfSeq
  <1>4. s \in Seq(Int)
    BY <1>0, <1>1, <1>3, SubSeqProperties
  <1>5. Len(s) = m
    <2>1. a + 1 \in 1 .. Len(y) + 1 /\ a + m \in Nat /\ a + m <= Len(y)
      BY <1>1
    <2>2. Len(s) = IF a + 1 <= a + m THEN (a + m) - (a + 1) + 1 ELSE 0
      BY <1>0, <1>1, <2>1, SubSeqProperties
    <2> QED
      BY <2>2
  <1>6. ASSUME NEW j \in 1 .. m PROVE s[j] = x[a + j]
    <2>1. SubSeq(y, a + 1, a + m)[j] = y[(a + 1) + j - 1]
      <3>1. Len(SubSeq(y, a + 1, a + m)) = m
        BY <1>0, <1>5
      <3>2. a + 1 \in 1 .. Len(y) + 1 /\ a + m \in Nat /\ a + m <= Len(y)
        BY <1>1
      <3> QED
        BY <1>1, <3>1, <3>2, SubSeqProperties
    <2>2. (a + 1) + j - 1 = a + j /\ a + j \in 1 .. n /\ a + j > Len(p.outputs)
      OBVIOUS
    <2>3. s[j] = y[a + j]
      BY <1>0, <2>1, <2>2
    <2> QED
      BY <1>2, <2>2, <2>3
  <1>7. s \in [1 .. m -> Int]
    BY <1>4, <1>5, SeqIsFunction
  <1> QED
    BY <1>6, <1>7 DEF Continues, s, y

LEMMA ReadNext ==
  ASSUME NEW r \in Nat \ {0, 1}, NEW u \in 0 .. r - 1, NEW j \in Nat,
         NEW needed, j = 0 => needed = r - u, j # 0 => needed = r
  PROVE  /\ needed \in 1 .. r
         /\ Read(r, u, j) \in Nat /\ Read(r, u, j) >= j
         /\ Read(r, u, j) + needed = Read(r, u, j + 1)
         /\ Read(r, u, j + 1) = r * (j + 1) - u
  <1>1. CASE j = 0
    BY <1>1 DEF Read
  <1>2. CASE j # 0
    <2>1. r * j - u \in Nat /\ j <= r * j - u
      BY <1>2, OutputsStayBehind
    <2>2. r * (j + 1) = r * j + r
      OBVIOUS
    <2> QED
      BY <1>2, <2>1, <2>2 DEF Read
  <1> QED
    BY <1>1, <1>2

\* The buffer of k samples holds the latest ones when i more of x have come.
HoldsLatest(b, k, w, x, i) == b \in Rings(k) /\ StoredWindow(b) = After(w, x, i)

\* Storing samples that follow those of the window.
LEMMA PushedLatest ==
  ASSUME NEW k \in Nat, k # 0, NEW n \in Nat, NEW x \in [1 .. n -> Int],
         NEW w \in [1 .. k -> Int], NEW i \in Nat, NEW m \in Nat, i + m <= n,
         NEW b, HoldsLatest(b, k, w, x, i), NEW y, Continues(y, m, x, i)
  PROVE  HoldsLatest(PushBackMultiple(b, y), k, w, x, i + m)
  <1> DEFINE s == PushBackMultiple(b, y)
  <1>1. b \in Rings(k) /\ StoredWindow(b) = After(w, x, i)
    BY DEF HoldsLatest
  <1>2. y \in [1 .. m -> Int] /\ \A j \in 1 .. m : y[j] = x[i + j]
    BY DEF Continues
  <1>3. y \in Seq(Int) /\ Len(y) = m
    BY <1>2, FunctionIsSeq
  <1>4. s \in Rings(k)
    BY <1>1, <1>3, PushedMany
  <1>5. StoredWindow(s) = After(StoredWindow(b), y, Len(y))
    BY <1>1, <1>3, PushedMany
  <1>6. After(After(w, x, i), y, m) = After(w, x, i + m)
    BY SMTT(30), AfterMore
  <1> HIDE DEF s
  <1>7. StoredWindow(s) = After(w, x, i + m)
    BY <1>1, <1>3, <1>5, <1>6
  <1> QED
    BY <1>4, <1>7 DEF HoldsLatest, s

LEMMA StoredFromMemory ==
  ASSUME NEW k \in Nat, k # 0, NEW n \in Nat, NEW x \in [1 .. n -> Int],
         NEW w \in [1 .. k -> Int], NEW c \in Nat, NEW b, HoldsLatest(b, k, w, x, c),
         NEW p, p.samples = x, Len(p.outputs) \in Nat, c >= Len(p.outputs),
         NEW m \in Nat, c + m <= n
  PROVE  HoldsLatest(PushBackMultiple(b, SubSeq(Memory(p), c + 1, c + m)), k, w, x, c + m)
  <1> DEFINE y == SubSeq(Memory(p), c + 1, c + m)
  <1>1. Continues(y, m, x, c)
    BY ReadFromMemory
  <1> HIDE DEF y
  <1>2. HoldsLatest(PushBackMultiple(b, y), k, w, x, c + m)
    BY <1>1, PushedLatest
  <1> QED
    BY <1>2 DEF y

LEMMA ProgressParts ==
  ASSUME NEW r, NEW u, NEW w, NEW n, NEW x, NEW ip, NEW p \in Progress(r, u, w, n, x, ip)
  PROVE  \E b \in Rings(KernelSize(r)), v \in 0 .. r - 1, c \in 0 .. n, o \in Seq(Seq(Int)) :
           /\ p = [decimator |-> [ratio |-> r, stored |-> b, unprocessed |-> v],
                   samples |-> x, read |-> c, outputs |-> o, inPlace |-> ip]
           /\ c = Read(r, u, Len(o)) /\ v = IF Len(o) = 0 THEN u ELSE 0
           /\ StoredWindow(b) = After(w, x, c)
           /\ \A k \in 1 .. Len(o) : o[k] = After(w, x, r * k - u)
  <1>1. PICK d \in DecimatorsOf(r), c \in 0 .. n, o \in Seq(Seq(Int)) :
          p = [decimator |-> d, samples |-> x, read |-> c, outputs |-> o, inPlace |-> ip]
    BY DEF Progress
  <1>2. PICK b \in Rings(KernelSize(r)), v \in 0 .. r - 1 :
          d = [ratio |-> r, stored |-> b, unprocessed |-> v]
    BY DEF DecimatorsOf
  <1>3. /\ p.read = Read(r, u, Len(p.outputs))
        /\ p.decimator.unprocessed = IF Len(p.outputs) = 0 THEN u ELSE 0
        /\ StoredWindow(p.decimator.stored) = After(w, x, p.read)
        /\ \A k \in 1 .. Len(p.outputs) : p.outputs[k] = After(w, x, r * k - u)
    BY DEF Progress
  <1>4. /\ p.read = c /\ p.outputs = o /\ p.decimator.unprocessed = v
        /\ p.decimator.stored = b
    BY <1>1, <1>2
  <1> QED
    BY <1>1, <1>2, <1>3, <1>4

LEMMA ProgressOf ==
  ASSUME NEW r, NEW u, NEW w, NEW n, NEW x, NEW ip, NEW b \in Rings(KernelSize(r)),
         NEW v \in 0 .. r - 1, NEW c \in 0 .. n, NEW o \in Seq(Seq(Int)),
         c = Read(r, u, Len(o)), v = IF Len(o) = 0 THEN u ELSE 0,
         StoredWindow(b) = After(w, x, c),
         \A k \in 1 .. Len(o) : o[k] = After(w, x, r * k - u)
  PROVE  [decimator |-> [ratio |-> r, stored |-> b, unprocessed |-> v],
          samples |-> x, read |-> c, outputs |-> o, inPlace |-> ip]
           \in Progress(r, u, w, n, x, ip)
  <1> DEFINE p == [decimator |-> [ratio |-> r, stored |-> b, unprocessed |-> v],
                   samples |-> x, read |-> c, outputs |-> o, inPlace |-> ip]
  <1>1. /\ p.read = c /\ p.outputs = o /\ p.decimator.unprocessed = v
        /\ p.decimator.stored = b
    OBVIOUS
  <1>2. p \in [decimator : DecimatorsOf(r), samples : {x}, read : 0 .. n,
               outputs : Seq(Seq(Int)), inPlace : {ip}]
    BY DEF DecimatorsOf
  <1> HIDE DEF p
  <1>3. p \in Progress(r, u, w, n, x, ip)
    BY <1>1, <1>2 DEF Progress
  <1> QED
    BY <1>3 DEF p

\* The batch p whose decimator is taken apart, too.
IsBatch(p, r, b, v, x, c, o, ip) ==
  p = [decimator |-> [ratio |-> r, stored |-> b, unprocessed |-> v],
       samples |-> x, read |-> c, outputs |-> o, inPlace |-> ip]

\* One output more.
LEMMA CombinedOutputIs ==
  ASSUME NEW r, NEW b, NEW v, NEW x, NEW c, NEW o, NEW ip, NEW i,
         NEW p, IsBatch(p, r, b, v, x, c, o, ip)
  PROVE  CombinedOutput(p, i) =
           LET s == PushBackMultiple(b, SubSeq(Memory(p), c + 1, c + (r - v)))
           IN  IF Len(x) - c < r - v THEN p
               ELSE [decimator |-> [ratio |-> r, stored |-> s, unprocessed |-> 0],
                     samples |-> x, read |-> c + (r - v),
                     outputs |-> Append(o, StoredWindow(s)), inPlace |-> ip]
  <1> DEFINE y == SubSeq(Memory(p), c + 1, c + (r - v))
             s == PushBackMultiple(b, y)
  <1>0. p = [decimator |-> [ratio |-> r, stored |-> b, unprocessed |-> v],
             samples |-> x, read |-> c, outputs |-> o, inPlace |-> ip]
    BY DEF IsBatch
  <1>1. /\ p.decimator.ratio = r /\ p.decimator.unprocessed = v /\ p.read = c
        /\ p.decimator.stored = b /\ Remaining(p) = Len(x) - c
    BY <1>0 DEF Remaining
  <1> DEFINE z == Store(p, y)
  <1>2. z = [decimator |-> [ratio |-> r, stored |-> s, unprocessed |-> v],
             samples |-> x, read |-> c, outputs |-> o, inPlace |-> ip]
    BY <1>0 DEF Store
  <1>3. z.decimator.stored = s
    <2> HIDE DEF z
    <2> QED
      BY <1>2
  <1>4. CombinedOutput(p, i) =
          IF Remaining(p) < r - v THEN p
          ELSE [z EXCEPT !.read = @ + (r - v), !.outputs = Append(@, StoredWindow(s)),
                         !.decimator.unprocessed = 0]
    <2> HIDE DEF z
    <2> QED
      BY <1>1, <1>3, Zenon DEF CombinedOutput, z
  <1> HIDE DEF z
  <1> DEFINE g == c + (r - v)
             a == Append(o, StoredWindow(s))
             z1 == [z EXCEPT !.read = g]
             z2 == [z1 EXCEPT !.outputs = a]
             z3 == [z2 EXCEPT !.decimator.unprocessed = 0]
  <1>5. z.read = c /\ z.outputs = o
    BY <1>2
  <1>6. [z EXCEPT !.read = @ + (r - v), !.outputs = Append(@, StoredWindow(s)),
                  !.decimator.unprocessed = 0] = z3
    BY <1>5, Zenon
  <1> HIDE DEF g, a
  <1>7. z1 = [decimator |-> [ratio |-> r, stored |-> s, unprocessed |-> v],
              samples |-> x, read |-> g, outputs |-> o, inPlace |-> ip]
    BY <1>2
  <1> HIDE DEF z1
  <1>8. z2 = [decimator |-> [ratio |-> r, stored |-> s, unprocessed |-> v],
              samples |-> x, read |-> g, outputs |-> a, inPlace |-> ip]
    BY <1>7
  <1> HIDE DEF z2
  <1>9. z3 = [decimator |-> [ratio |-> r, stored |-> s, unprocessed |-> 0],
              samples |-> x, read |-> g, outputs |-> a, inPlace |-> ip]
    BY <1>8
  <1> HIDE DEF z3
  <1> QED
    BY <1>1, <1>4, <1>6, <1>9, Zenon DEF g, a

\* There are not enough samples for one more output.
Stuck(p, r, n) == n - p.read < r - p.decimator.unprocessed

LEMMA CombinedStep ==
  ASSUME NEW r \in Nat \ {0, 1}, NEW u \in 0 .. r - 1,
         NEW w \in [1 .. KernelSize(r) -> Int],
         NEW n \in Nat, NEW x \in [1 .. n -> Int], NEW ip,
         NEW p \in Progress(r, u, w, n, x, ip), NEW i
  PROVE  /\ CombinedOutput(p, i) \in Progress(r, u, w, n, x, ip)
         /\ IF Stuck(p, r, n) THEN CombinedOutput(p, i) = p
            ELSE Len(CombinedOutput(p, i).outputs) = Len(p.outputs) + 1
  <1>1. PICK b \in Rings(KernelSize(r)), v \in 0 .. r - 1, c \in 0 .. n,
             o \in Seq(Seq(Int)) :
           /\ p = [decimator |-> [ratio |-> r, stored |-> b, unprocessed |-> v],
                   samples |-> x, read |-> c, outputs |-> o, inPlace |-> ip]
           /\ c = Read(r, u, Len(o)) /\ v = IF Len(o) = 0 THEN u ELSE 0
           /\ StoredWindow(b) = After(w, x, c)
           /\ \A k \in 1 .. Len(o) : o[k] = After(w, x, r * k - u)
    BY ProgressParts
  <1>0. p = [decimator |-> [ratio |-> r, stored |-> b, unprocessed |-> v],
             samples |-> x, read |-> c, outputs |-> o, inPlace |-> ip]
    BY <1>1
  <1>2. p.samples = x /\ p.outputs = o /\ p.read = c /\ p.decimator.unprocessed = v
    BY <1>1
  <1>3. Len(x) = n
    BY FunctionIsSeq
  <1>4. PICK j \in Nat : j = Len(o)
    BY LenProperties
  <1>5. PICK needed \in Nat : needed = r - v
    OBVIOUS
  <1>6. (j = 0 => needed = r - u) /\ (j # 0 => needed = r)
    BY <1>1, <1>4, <1>5
  <1>7. /\ Read(r, u, j) \in Nat /\ Read(r, u, j) >= j
        /\ Read(r, u, j) + needed = Read(r, u, j + 1)
        /\ Read(r, u, j + 1) = r * (j + 1) - u
    BY ZenonT(60), <1>6, ReadNext
  <1>8. c = Read(r, u, j) /\ c >= j
    BY <1>1, <1>4, <1>7
  <1> DEFINE y == SubSeq(Memory(p), c + 1, c + needed)
             s == PushBackMultiple(b, y)
             a == Append(o, StoredWindow(s))
             q == CombinedOutput(p, i)
  <1>9. q = IF n - c < needed THEN p
            ELSE [decimator |-> [ratio |-> r, stored |-> s, unprocessed |-> 0],
                  samples |-> x, read |-> c + needed, outputs |-> a, inPlace |-> ip]
    <2>1. IsBatch(p, r, b, v, x, c, o, ip)
      BY <1>0 DEF IsBatch
    <2>2. CombinedOutput(p, i) =
           LET z == PushBackMultiple(b, SubSeq(Memory(p), c + 1, c + (r - v)))
           IN  IF Len(x) - c < r - v THEN p
               ELSE [decimator |-> [ratio |-> r, stored |-> z, unprocessed |-> 0],
                     samples |-> x, read |-> c + (r - v),
                     outputs |-> Append(o, StoredWindow(z)), inPlace |-> ip]
      BY SMTT(30), <2>1, CombinedOutputIs
    <2>3. CombinedOutput(p, i) =
            IF Len(x) - c < r - v THEN p
            ELSE [decimator |-> [ratio |-> r, stored |-> s, unprocessed |-> 0],
                  samples |-> x, read |-> c + (r - v),
                  outputs |-> Append(o, StoredWindow(s)), inPlace |-> ip]
      BY <1>5, <2>2, Zenon
    <2> QED
      BY <1>3, <1>5, <2>3, Zenon
  <1>10. CASE n - c < needed
    <2>1. q = p
      <3> HIDE DEF q, a
      <3> QED
        BY <1>9, <1>10, Zenon
    <2>2. Stuck(p, r, n)
      BY <1>2, <1>5, <1>10 DEF Stuck
    <2> QED
      BY <2>1, <2>2
  <1>11. CASE ~ (n - c < needed)
    <2>1. c + needed <= n /\ c \in Nat
      BY <1>11
    <2>2. c >= Len(p.outputs) /\ Len(p.outputs) \in Nat
      BY <1>2, <1>4, <1>8
    <2>3. PICK k \in Nat : k # 0 /\ k = KernelSize(r)
      BY KernelSizeType
    <2>4. w \in [1 .. k -> Int] /\ HoldsLatest(b, k, w, x, c)
      BY <1>1, <2>3 DEF HoldsLatest
    <2>5. HoldsLatest(s, k, w, x, c + needed)
      BY <1>2, <2>1, <2>2, <2>3, <2>4, StoredFromMemory
    <2> HIDE DEF y, s
    <2>7. s \in Rings(k)
      BY <2>5 DEF HoldsLatest
    <2>8. StoredWindow(s) = After(w, x, c + needed)
      BY <2>5 DEF HoldsLatest
    <2>9. StoredWindow(s) \in Seq(Int)
      BY <2>3, <2>7, WindowType
    <2>10. /\ a \in Seq(Seq(Int)) /\ Len(a) = j + 1 /\ a[j + 1] = StoredWindow(s)
           /\ \A l \in 1 .. j : a[l] = o[l]
      BY <1>4, <2>9, AppendProperties
    <2> HIDE DEF a
    <2>11. c + needed = Read(r, u, j + 1) /\ c + needed = r * (j + 1) - u
      BY <1>7, <1>8
    <2>12. \A l \in 1 .. j + 1 : a[l] = After(w, x, r * l - u)
      <3> SUFFICES ASSUME NEW l \in 1 .. j + 1 PROVE a[l] = After(w, x, r * l - u)
        OBVIOUS
      <3>1. CASE l = j + 1
        BY <2>8, <2>10, <2>11, <3>1
      <3>2. CASE l # j + 1
        <4>1. l \in 1 .. j
          BY <3>2
        <4>2. o[l] = After(w, x, r * l - u)
          BY <1>1, <1>4, <4>1
        <4> QED
          BY <2>10, <4>1, <4>2
      <3> QED
        BY <3>1, <3>2
    <2>13. q = [decimator |-> [ratio |-> r, stored |-> s, unprocessed |-> 0],
                samples |-> x, read |-> c + needed, outputs |-> a, inPlace |-> ip]
      <3> HIDE DEF q
      <3> QED
        BY <1>9, <1>11, Zenon
    <2>14. c + needed \in 0 .. n /\ 0 \in 0 .. r - 1
      BY <2>1
    <2>15. s \in Rings(KernelSize(r))
      BY <2>3, <2>7
    <2>16. Len(a) \in Nat /\ Len(a) # 0
      BY <2>10
    <2>17. c + needed = Read(r, u, Len(a)) /\ 0 = IF Len(a) = 0 THEN u ELSE 0
      BY <2>10, <2>11, <2>16
    <2>18. \A l \in 1 .. Len(a) : a[l] = After(w, x, r * l - u)
      BY <2>10, <2>12
    <2> HIDE DEF q
    <2>19. q \in Progress(r, u, w, n, x, ip)
      <3>1. a \in Seq(Seq(Int))
        BY <2>10
      <3> QED
        BY <2>8, <2>13, <2>14, <2>15, <2>17, <2>18, <3>1, ProgressOf, Zenon
    <2>20. Len(q.outputs) = Len(p.outputs) + 1
      BY <1>2, <1>4, <2>10, <2>13
    <2>21. ~ Stuck(p, r, n)
      BY <1>2, <1>5, <1>11 DEF Stuck
    <2> QED
      BY <2>19, <2>20, <2>21 DEF q
  <1> QED
    BY <1>10, <1>11

LEMMA CombinedSamples ==
  ASSUME NEW r \in Nat \ {0, 1}, NEW u \in 0 .. r - 1,
         NEW w \in [1 .. KernelSize(r) -> Int],
         NEW n \in Nat, NEW x \in [1 .. n -> Int], NEW ip,
         NEW p \in Progress(r, u, w, n, x, ip), Len(p.outputs) = 0
  PROVE  /\ ProcessCombinedSamples(p) \in Progress(r, u, w, n, x, ip)
         /\ \/ Stuck(ProcessCombinedSamples(p), r, n)
            \/ Len(ProcessCombinedSamples(p).outputs) = MaxCombinedOutputs(r)
  <1>0. PICK N \in Nat : N = MaxCombinedOutputs(r)
    BY MaxCombinedType
  <1> DEFINE S == Progress(r, u, w, n, x, ip)
             seq == Times(N)
             Solves(it) == it = [s \in SUBSET DOMAIN seq |->
                                  IF s = {} THEN p
                                  ELSE LET y == Max(s) IN CombinedOutput(it[s \ {y}], seq[y])]
             f == [q \in S \X (1 .. N) |-> CombinedOutput(q[1], q[2])]
             I == [k \in 0 .. N |-> {q \in S : Stuck(q, r, n) \/ Len(q.outputs) = k}]
             i == CHOOSE it : Solves(it)
  <1>1. DOMAIN seq = 1 .. N /\ \A k \in 1 .. N : seq[k] = k
    BY DEF Times
  <1>2. p.decimator.ratio = r
    BY DEF Progress, DecimatorsOf
  <1>3. ProcessCombinedSamples(p) = i[DOMAIN seq]
    BY <1>0, <1>2 DEF ProcessCombinedSamples, FoldLeft, MapThenFoldSet
  <1>4. \A q \in S : \A k \in 1 .. N :
           /\ CombinedOutput(q, k) \in S
           /\ IF Stuck(q, r, n) THEN CombinedOutput(q, k) = q
              ELSE Len(CombinedOutput(q, k).outputs) = Len(q.outputs) + 1
    BY CombinedStep
  <1> HIDE DEF S, seq
  <1>5. f \in [S \X (1 .. N) -> S] /\ \A q \in S : \A k \in 1 .. N : f[<<q, k>>] = CombinedOutput(q, k)
    BY <1>4
  <1> HIDE DEF f
  <1>6. PICK g \in [SUBSET (1 .. N) -> S] : FoldOf(g, p, N, f)
    BY <1>5, FoldExists DEF S
  <1>7. \A s \in SUBSET (1 .. N) : s # {} => Max(s) \in 1 .. N
    BY GreatestOfSome
  <1>8. Solves(g)
    <2>1. ASSUME NEW s \in SUBSET (1 .. N), s # {}
          PROVE  f[<<g[s \ {Max(s)}], Max(s)>>] = CombinedOutput(g[s \ {Max(s)}], seq[Max(s)])
      <3>1. Max(s) \in 1 .. N
        BY <1>7, <2>1
      <3>2. g[s \ {Max(s)}] \in S
        OBVIOUS
      <3> QED
        BY <1>1, <1>5, <3>1, <3>2
    <2> QED
      BY <1>1, <1>6, <2>1 DEF FoldOf
  <1>9. Solves(i)
    BY <1>8
  <1> HIDE DEF i
  <1>10. i[{}] = p
    BY <1>1, <1>9
  <1>11. FoldedWith(i, p, N, f, S)
    <2>1. ASSUME NEW s \in SUBSET (1 .. N), s # {}, i[s \ {Max(s)}] \in S
          PROVE  i[s] = f[<<i[s \ {Max(s)}], Max(s)>>]
      <3>1. Max(s) \in 1 .. N
        BY <1>7, <2>1
      <3>2. i[s] = CombinedOutput(i[s \ {Max(s)}], seq[Max(s)])
        BY <1>1, <1>9, <2>1
      <3> QED
        <4>1. seq[Max(s)] = Max(s)
          BY <1>1, <3>1
        <4>2. f[<<i[s \ {Max(s)}], Max(s)>>] = CombinedOutput(i[s \ {Max(s)}], Max(s))
          BY <1>5, <2>1, <3>1
        <4> QED
          BY <3>2, <4>1, <4>2
    <2> HIDE DEF Solves
    <2> QED
      BY <1>10, <2>1 DEF FoldedWith
  <1> HIDE DEF Solves
  <1>12. p \in I[0]
    BY DEF S
  <1>13. LeadsThrough(f, I, N, S)
    <2> SUFFICES ASSUME NEW k \in 1 .. N, NEW q \in S, q \in I[k - 1]
                 PROVE  f[<<q, k>>] \in I[k]
      BY DEF LeadsThrough
    <2>1. Stuck(q, r, n) \/ Len(q.outputs) = k - 1
      OBVIOUS
    <2>2. CombinedOutput(q, k) \in S
      BY <1>4
    <2>3. Stuck(CombinedOutput(q, k), r, n) \/ Len(CombinedOutput(q, k).outputs) = k
      BY <1>4, <2>1
    <2> QED
      BY <1>5, <2>2, <2>3
  <1>15. p \in S
    BY DEF S
  <1>14. i[1 .. N] \in S /\ i[1 .. N] \in I[N]
    <2> HIDE DEF I
    <2> QED
      BY <1>5, <1>11, <1>12, <1>13, <1>15, FoldWithin
  <1> QED
    BY <1>0, <1>1, <1>3, <1>14 DEF S

--------------------------------------------------------------------------------
(* The decimator: what is stored for the next batch.                        *)

\* As many samples as the window has are all of it.
LEMMA AfterWhole ==
  ASSUME NEW k \in Nat, NEW w \in [1 .. k -> Int], NEW n \in Nat,
         NEW x \in [1 .. n -> Int], NEW a \in Nat, a + k <= n,
         NEW y, Continues(y, k, x, a)
  PROVE  y = After(w, x, a + k)
  <1>1. y \in [1 .. k -> Int] /\ \A j \in 1 .. k : y[j] = x[a + j]
    BY DEF Continues
  <1>2. a + k \in 0 .. n
    OBVIOUS
  <1>3. After(w, x, a + k) \in [1 .. k -> Int]
    BY <1>2, AfterType
  <1>4. \A j \in 1 .. k : After(w, x, a + k)[j] =
          IF (a + k) - k + j > 0 THEN x[(a + k) - k + j] ELSE w[(a + k) + j]
    BY <1>2, AfterType
  <1>5. \A j \in 1 .. k : (a + k) - k + j = a + j /\ (a + k) - k + j > 0
    OBVIOUS
  <1>6. \A j \in 1 .. k : y[j] = After(w, x, a + k)[j]
    BY <1>1, <1>4, <1>5
  <1> QED
    BY <1>1, <1>3, <1>6

LEMMA LastOfMemory ==
  ASSUME NEW n \in Nat, NEW x \in [1 .. n -> Int], NEW p, p.samples = x,
         Len(p.outputs) \in Nat, NEW m \in 0 .. n, n - m >= Len(p.outputs)
  PROVE  Continues(LastOf(Memory(p), m), m, x, n - m)
  <1> DEFINE y == Memory(p)
             s == LastOf(y, m)
  <1>1. y \in Seq(Int) /\ Len(y) = n
    BY MemoryIsKept, FunctionIsSeq
  <1>2. \A i \in 1 .. n : i > Len(p.outputs) => y[i] = x[i]
    BY MemoryIsKept
  <1> HIDE DEF y
  <1>3. s \in Seq(Int) /\ Len(s) = IF Len(y) > m THEN m ELSE Len(y)
    BY <1>1, LastElements
  <1>4. Len(s) = m
    BY <1>1, <1>3
  <1>5. \A k \in 1 .. m : s[k] = y[n - m + k]
    <2>1. \A k \in 1 .. Len(s) : s[k] = y[Len(y) - Len(s) + k]
      <3>1. y \in Seq(Int) /\ m \in Nat
        BY <1>1
      <3> QED
        BY <3>1, LastElements, Zenon
    <2> HIDE DEF s
    <2> QED
      BY <1>1, <1>4, <2>1
  <1> HIDE DEF s
  <1>6. ASSUME NEW k \in 1 .. m PROVE s[k] = x[(n - m) + k]
    <2>1. n - m + k \in 1 .. n /\ n - m + k > Len(p.outputs)
      OBVIOUS
    <2> QED
      BY <1>2, <1>5, <2>1
  <1>7. s \in [1 .. m -> Int]
    BY <1>3, <1>4, SeqIsFunction
  <1> QED
    BY <1>6, <1>7 DEF Continues, s, y

\* The windows of the samples behind MaxCombinedOutputs lie behind the outputs.
LEMMA WindowsBehindOutputs ==
  ASSUME NEW r \in Nat \ {0, 1}, NEW u \in 0 .. r - 1, NEW t \in Nat,
         NEW M, M = MaxCombinedOutputs(r), NEW k, k = KernelSize(r)
  PROVE  /\ M \in Nat \ {0} /\ k \in Nat \ {0}
         /\ (r * M - u) + r * (t + 1) - k >= M + t
  <1>1. M \in Nat \ {0} /\ k < (r - 1) * M
    BY MaxCombinedType
  <1>2. k \in Nat \ {0}
    BY KernelSizeType
  <1>3. PICK a \in Nat : a = (r - 1) * M
    BY <1>1
  <1>4. r * M = a + M
    BY <1>1, <1>3
  <1>5. PICK b \in Nat : b = (r - 1) * t
    OBVIOUS
  <1>6. r * (t + 1) = b + t + r
    BY <1>5
  <1> QED
    BY <1>1, <1>2, <1>3, <1>4, <1>6

LEMMA StoreIs ==
  ASSUME NEW r, NEW b, NEW v, NEW x, NEW c, NEW o, NEW ip,
         NEW p, IsBatch(p, r, b, v, x, c, o, ip), NEW e
  PROVE  IsBatch(Store(p, e), r, PushBackMultiple(b, e), v, x, c, o, ip)
  <1>1. p = [decimator |-> [ratio |-> r, stored |-> b, unprocessed |-> v],
             samples |-> x, read |-> c, outputs |-> o, inPlace |-> ip]
    BY DEF IsBatch
  <1>2. Store(p, e) =
          [decimator |-> [ratio |-> r, stored |-> PushBackMultiple(b, e), unprocessed |-> v],
           samples |-> x, read |-> c, outputs |-> o, inPlace |-> ip]
    BY <1>1 DEF Store
  <1> QED
    BY <1>2 DEF IsBatch

\* The outputs o of a batch are as many as they can be or there is a window of
\* samples behind them.
EnoughOutputs(r, u, w, n, x, c, o) ==
  /\ c \in 0 .. n /\ o \in Seq(Seq(Int)) /\ c = Read(r, u, Len(o))
  /\ \A k \in 1 .. Len(o) : o[k] = After(w, x, r * k - u)
  /\ \/ n - c < IF Len(o) = 0 THEN r - u ELSE r
     \/ Len(o) = MaxCombinedOutputs(r)

LEMMA CombinedParts ==
  ASSUME NEW r \in Nat \ {0, 1}, NEW u \in 0 .. r - 1, NEW w,
         NEW n \in Nat, NEW x \in [1 .. n -> Int], NEW ip,
         NEW p \in Progress(r, u, w, n, x, ip),
         Stuck(p, r, n) \/ Len(p.outputs) = MaxCombinedOutputs(r)
  PROVE  \E b, v, c, o :
           /\ IsBatch(p, r, b, v, x, c, o, ip)
           /\ HoldsLatest(b, KernelSize(r), w, x, c)
           /\ EnoughOutputs(r, u, w, n, x, c, o)
  <1>1. PICK b \in Rings(KernelSize(r)), v \in 0 .. r - 1, c \in 0 .. n,
             o \in Seq(Seq(Int)) :
           /\ p = [decimator |-> [ratio |-> r, stored |-> b, unprocessed |-> v],
                   samples |-> x, read |-> c, outputs |-> o, inPlace |-> ip]
           /\ c = Read(r, u, Len(o)) /\ v = IF Len(o) = 0 THEN u ELSE 0
           /\ StoredWindow(b) = After(w, x, c)
           /\ \A k \in 1 .. Len(o) : o[k] = After(w, x, r * k - u)
    BY ProgressParts
  <1>2. p.outputs = o /\ p.read = c /\ p.decimator.unprocessed = v
    BY <1>1
  <1>3. IsBatch(p, r, b, v, x, c, o, ip)
    BY <1>1 DEF IsBatch
  <1>4. HoldsLatest(b, KernelSize(r), w, x, c)
    BY <1>1 DEF HoldsLatest
  <1>5. \/ n - c < IF Len(o) = 0 THEN r - u ELSE r
        \/ Len(o) = MaxCombinedOutputs(r)
    <2>1. n - c < r - v \/ Len(o) = MaxCombinedOutputs(r)
      BY <1>2 DEF Stuck
    <2>2. v = IF Len(o) = 0 THEN u ELSE 0
      BY <1>1
    <2>3. r - v = IF Len(o) = 0 THEN r - u ELSE r
      BY <2>2
    <2> QED
      BY <2>1, <2>3
  <1>6. EnoughOutputs(r, u, w, n, x, c, o)
    BY <1>1, <1>5 DEF EnoughOutputs
  <1> QED
    BY <1>3, <1>4, <1>6

LEMMA LatestStored ==
  ASSUME NEW r \in Nat \ {0, 1}, NEW u \in 0 .. r - 1,
         NEW w \in [1 .. KernelSize(r) -> Int],
         NEW n \in Nat, NEW x \in [1 .. n -> Int], NEW ip,
         NEW b, NEW v, NEW c, NEW o, NEW p, IsBatch(p, r, b, v, x, c, o, ip),
         HoldsLatest(b, KernelSize(r), w, x, c), EnoughOutputs(r, u, w, n, x, c, o)
  PROVE  \E s : /\ IsBatch(StoreLatest(p), r, s, v, x, c, o, ip)
                /\ HoldsLatest(s, KernelSize(r), w, x, n)
  <1>1. PICK k \in Nat \ {0} : k = KernelSize(r)
    BY KernelSizeType
  <1>2. PICK M \in Nat \ {0} : M = MaxCombinedOutputs(r)
    BY MaxCombinedType
  <1>3. /\ c \in 0 .. n /\ o \in Seq(Seq(Int)) /\ c = Read(r, u, Len(o))
        /\ n - c < r \/ Len(o) = M
    <2>1. /\ c \in 0 .. n /\ o \in Seq(Seq(Int)) /\ c = Read(r, u, Len(o))
          /\ n - c < (IF Len(o) = 0 THEN r - u ELSE r) \/ Len(o) = M
      BY <1>2 DEF EnoughOutputs
    <2>2. n - c < (IF Len(o) = 0 THEN r - u ELSE r) => n - c < r
      <3>1. c \in 0 .. n
        BY <2>1
      <3>2. n - c < r - u => n - c < r
        BY <3>1
      <3> QED
        BY <3>2
    <2> QED
      BY <2>1, <2>2
  <1>4. PICK j \in Nat : j = Len(o)
    BY <1>3, LenProperties
  <1>5. p.samples = x /\ p.outputs = o /\ p.read = c /\ p.decimator.ratio = r
    BY DEF IsBatch
  <1>6. Len(x) = n
    BY FunctionIsSeq
  <1>7. Remaining(p) = n - c
    BY <1>5, <1>6 DEF Remaining
  <1>8. w \in [1 .. k -> Int] /\ HoldsLatest(b, k, w, x, c)
    BY <1>1
  <1>9. Len(p.outputs) \in Nat /\ Len(p.outputs) = j
    BY <1>4, <1>5
  <1>10. CASE n - c >= r
    <2> DEFINE e == LastOf(Memory(p), k)
    <2>1. StoreLatest(p) = Store(p, e)
      BY <1>1, <1>5, <1>7, <1>10, Zenon DEF StoreLatest
    <2>2. j = M
      BY <1>3, <1>4, <1>10
    <2>3. c = r * M - u
      BY <1>2, <1>3, <1>4, <2>2 DEF Read
    <2>4. 0 \in Nat /\ (r * M - u) + r * (0 + 1) - k >= M + 0
      BY <1>1, <1>2, WindowsBehindOutputs
    <2>5. k \in 0 .. n /\ n - k >= Len(p.outputs)
      <3>1. c + r - k >= M
        BY <2>3, <2>4
      <3> QED
        BY SMTT(30), <1>1, <1>2, <1>3, <1>9, <1>10, <2>2, <3>1
    <2>6. Continues(e, k, x, n - k)
      BY <1>5, <1>9, <2>5, LastOfMemory
    <2> HIDE DEF e
    <2>7. e \in [1 .. k -> Int] /\ \A l \in 1 .. k : e[l] = x[(n - k) + l]
      BY <2>6 DEF Continues
    <2>8. e \in Seq(Int) /\ Len(e) = k
      BY <2>7, FunctionIsSeq
    <2>9. PICK a \in Nat : a = n - k /\ a + k = n
      BY <2>5
    <2>10. e = After(w, x, n)
      <3>1. Continues(e, k, x, a)
        BY <2>6, <2>9
      <3>0. w \in [1 .. k -> Int] /\ a + k <= n /\ k \in Nat
        BY <1>8, <2>9
      <3>2. e = After(w, x, a + k)
        BY <3>0, <3>1, AfterWhole, Zenon
      <3> QED
        BY <2>9, <3>2
    <2> DEFINE s == PushBackMultiple(b, e)
    <2>11. b \in Rings(k)
      BY <1>8 DEF HoldsLatest
    <2>12. s \in Rings(k) /\ StoredWindow(s) = After(StoredWindow(b), e, Len(e))
      BY <2>8, <2>11, PushedMany
    <2>13. After(StoredWindow(b), e, k) = e
      <3>1. StoredWindow(b) \in [1 .. k -> Int]
        BY <2>11, WindowOfRing
      <3>2. \A l \in 1 .. k : e[l] = e[0 + l]
        OBVIOUS
      <3>3. Continues(e, k, e, 0)
        BY <2>7, <3>2 DEF Continues
      <3>5. 0 + k = k /\ 0 + k <= k /\ k \in Nat /\ 0 \in Nat
        OBVIOUS
      <3>4. e = After(StoredWindow(b), e, 0 + k)
        BY <2>7, <3>1, <3>3, <3>5, AfterWhole, Zenon
      <3> QED
        BY <3>4, <3>5
    <2> HIDE DEF s
    <2>14. HoldsLatest(s, k, w, x, n)
      BY <2>8, <2>10, <2>12, <2>13 DEF HoldsLatest
    <2>15. IsBatch(StoreLatest(p), r, s, v, x, c, o, ip)
      BY <2>1, StoreIs DEF s
    <2> QED
      BY <1>1, <2>14, <2>15
  <1>11. CASE ~ (n - c >= r)
    <2> DEFINE e == LastOf(Memory(p), n - c)
               s == PushBackMultiple(b, e)
    <2>1. StoreLatest(p) = Store(p, e)
      <3> HIDE DEF s
      <3>1. ~ (Remaining(p) >= p.decimator.ratio)
        BY <1>5, <1>7, <1>11
      <3>2. StoreLatest(p) = Store(p, LastOf(Memory(p), Remaining(p)))
        BY <3>1, Zenon DEF StoreLatest
      <3> QED
        BY <1>7, <3>2, Zenon
    <2>2. PICK m \in Nat : m = n - c /\ n - m = c /\ c + m = n /\ m \in 0 .. n /\ c \in Nat
      <3> HIDE DEF s, e
      <3>1. c \in 0 .. n
        BY <1>3
      <3>2. n - c \in Nat /\ n - (n - c) = c /\ c + (n - c) = n /\ n - c \in 0 .. n /\ c \in Nat
        BY <3>1
      <3> QED
        BY <3>2
    <2>3. c >= j
      <3>1. CASE j = 0
        BY <1>3, <3>1
      <3>2. CASE j # 0
        BY <1>3, <1>4, <3>2, OutputsStayBehind DEF Read
      <3> QED
        BY <3>1, <3>2
    <2>4. n - m >= Len(p.outputs)
      BY <1>9, <2>2, <2>3
    <2>5. Continues(LastOf(Memory(p), m), m, x, n - m)
      BY <1>5, <1>9, <2>2, <2>4, LastOfMemory
    <2>6. Continues(e, m, x, c)
      BY <2>2, <2>5
    <2> HIDE DEF e
    <2>7. HoldsLatest(s, k, w, x, c + m)
      <3>1. c + m <= n /\ k \in Nat /\ k # 0
        BY <2>2
      <3> QED
        BY <1>8, <2>2, <2>6, <3>1, PushedLatest
    <2>8. IsBatch(StoreLatest(p), r, s, v, x, c, o, ip)
      BY <2>1, StoreIs
    <2> HIDE DEF s
    <2> QED
      BY <1>1, <2>2, <2>7, <2>8
  <1> QED
    BY <1>10, <1>11

--------------------------------------------------------------------------------
(* The decimator: the outputs that are computed from the samples where they *)
(* are.                                                                     *)

\* Spans of sequences of numbers, whatever their ends.
Spans == {SubSeq(s[1], s[2], s[3]) : s \in Seq(Int) \X Int \X Int}

Batches(d, x, ip) ==
  [decimator : {d}, samples : {x}, read : Nat, outputs : Seq(Seq(Int) \cup Spans),
   inPlace : {ip}]

\* The first outputs o, read until sample c, and t more of them.
Continued(r, u, w, x, o, c, t, p) ==
  /\ p.read = c + r * t /\ Len(p.outputs) = Len(o) + t
  /\ \A k \in 1 .. Len(p.outputs) : p.outputs[k] = After(w, x, r * k - u)

LEMMA ContinuousOutputIs ==
  ASSUME NEW r, NEW b, NEW v, NEW x, NEW c, NEW o, NEW ip, NEW i,
         NEW p, IsBatch(p, r, b, v, x, c, o, ip)
  PROVE  IsBatch(ContinuousOutput(p, i), r, b, v, x, c + r,
                 Append(o, SubSeq(Memory(p), (c + r) - KernelSize(r) + 1, c + r)), ip)
  <1>1. p = [decimator |-> [ratio |-> r, stored |-> b, unprocessed |-> v],
             samples |-> x, read |-> c, outputs |-> o, inPlace |-> ip]
    BY DEF IsBatch
  <1>2. p.read = c /\ p.decimator.ratio = r /\ p.outputs = o
    BY <1>1
  <1> DEFINE g == c + r
             y == SubSeq(Memory(p), g - KernelSize(r) + 1, g)
             a == Append(o, y)
             p1 == [p EXCEPT !.read = g]
             p2 == [p1 EXCEPT !.outputs = a]
  <1>3. ContinuousOutput(p, i) = p2
    <2>1. ContinuousOutput(p, i) = [p EXCEPT !.read = g, !.outputs = Append(@, y)]
      <3> DEFINE G == p.read + p.decimator.ratio
                 Y == SubSeq(Memory(p), G - KernelSize(p.decimator.ratio) + 1, G)
      <3>1. ContinuousOutput(p, i) = [p EXCEPT !.read = G, !.outputs = Append(@, Y)]
        BY DEF ContinuousOutput
      <3>2. G = g
        BY <1>2
      <3> HIDE DEF p1, p2, G, g
      <3>3. Y = y
        BY <1>2, <3>2, Zenon
      <3> HIDE DEF Y, y
      <3> QED
        BY <3>1, <3>2, <3>3, Zenon
    <2> QED
      BY <1>2, <2>1, Zenon
  <1> HIDE DEF y, a, g
  <1>4. p1 = [decimator |-> [ratio |-> r, stored |-> b, unprocessed |-> v],
              samples |-> x, read |-> g, outputs |-> o, inPlace |-> ip]
    BY <1>1
  <1> HIDE DEF p1
  <1>5. p2 = [decimator |-> [ratio |-> r, stored |-> b, unprocessed |-> v],
              samples |-> x, read |-> g, outputs |-> a, inPlace |-> ip]
    BY <1>4
  <1> HIDE DEF p2
  <1>6. IsBatch(ContinuousOutput(p, i), r, b, v, x, g, a, ip)
    BY <1>3, <1>5 DEF IsBatch
  <1> QED
    BY <1>6 DEF g, a, y

LEMMA BatchesAre ==
  ASSUME NEW r, NEW b, NEW v, NEW x, NEW ip, NEW d,
         d = [ratio |-> r, stored |-> b, unprocessed |-> v], NEW p \in Batches(d, x, ip)
  PROVE  IsBatch(p, r, b, v, x, p.read, p.outputs, ip)
  <1>1. PICK c \in Nat, o \in Seq(Seq(Int) \cup Spans) :
          p = [decimator |-> d, samples |-> x, read |-> c, outputs |-> o, inPlace |-> ip]
    BY DEF Batches
  <1>2. p.read = c /\ p.outputs = o
    BY <1>1
  <1> QED
    BY <1>1, <1>2 DEF IsBatch

LEMMA BatchIs ==
  ASSUME NEW r, NEW b, NEW v, NEW x, NEW ip, NEW d,
         d = [ratio |-> r, stored |-> b, unprocessed |-> v],
         NEW c \in Nat, NEW o \in Seq(Seq(Int) \cup Spans),
         NEW p, IsBatch(p, r, b, v, x, c, o, ip)
  PROVE  p \in Batches(d, x, ip) /\ p.read = c /\ p.outputs = o
  BY DEF IsBatch, Batches

LEMMA ContinuousType ==
  ASSUME NEW r \in Nat, NEW b, NEW v, NEW n \in Nat, NEW x \in [1 .. n -> Int], NEW ip, NEW i,
         NEW d, d = [ratio |-> r, stored |-> b, unprocessed |-> v],
         NEW p \in Batches(d, x, ip)
  PROVE  ContinuousOutput(p, i) \in Batches(d, x, ip)
  <1>1. IsBatch(p, r, b, v, x, p.read, p.outputs, ip)
    BY BatchesAre
  <1>2. p.read \in Nat /\ p.outputs \in Seq(Seq(Int) \cup Spans) /\ p.samples = x
    BY DEF Batches
  <1>3. PICK c \in Nat, o \in Seq(Seq(Int) \cup Spans) : c = p.read /\ o = p.outputs
    BY <1>2
  <1>4. Memory(p) \in Seq(Int)
    <2>1. Len(p.outputs) \in Nat
      BY <1>2, LenProperties
    <2>2. Memory(p) \in [1 .. n -> Int]
      BY <1>2, <2>1, MemoryIsKept
    <2> QED
      BY <2>2, FunctionIsSeq
  <1> DEFINE y == SubSeq(Memory(p), (c + r) - KernelSize(r) + 1, c + r)
  <1>5. y \in Spans
    <2>1. PICK k \in Nat : k = KernelSize(r)
      BY KernelSizeType
    <2>2. PICK f \in Int, l \in Int : f = (c + r) - KernelSize(r) + 1 /\ l = c + r
      BY <2>1
    <2>3. PICK m \in Seq(Int) : m = Memory(p)
      BY <1>4
    <2>4. SubSeq(m, f, l) \in Spans
      <3> HIDE DEF y
      <3> QED
        <4>1. PICK s \in Seq(Int) \X Int \X Int : s[1] = m /\ s[2] = f /\ s[3] = l
          <5>1. /\ <<m, f, l>> \in Seq(Int) \X Int \X Int
                /\ <<m, f, l>>[1] = m /\ <<m, f, l>>[2] = f /\ <<m, f, l>>[3] = l
            OBVIOUS
          <5> QED
            BY <5>1
        <4>2. SubSeq(s[1], s[2], s[3]) \in Spans
          BY DEF Spans
        <4> QED
          BY <4>1, <4>2, Zenon
    <2> QED
      BY <2>2, <2>3, <2>4
  <1> HIDE DEF y
  <1>6. Append(o, y) \in Seq(Seq(Int) \cup Spans)
    BY <1>5, AppendProperties
  <1>7. IsBatch(ContinuousOutput(p, i), r, b, v, x, c + r, Append(o, y), ip)
    BY <1>1, <1>3, ContinuousOutputIs DEF y
  <1>8. c + r \in Nat
    OBVIOUS
  <1> QED
    BY <1>6, <1>7, <1>8, BatchIs

LEMMA ContinuousStep ==
  ASSUME NEW r \in Nat \ {0, 1}, NEW u \in 0 .. r - 1,
         NEW w \in [1 .. KernelSize(r) -> Int],
         NEW n \in Nat, NEW x \in [1 .. n -> Int], NEW ip, NEW c, NEW o,
         EnoughOutputs(r, u, w, n, x, c, o),
         NEW b, NEW v, NEW d, d = [ratio |-> r, stored |-> b, unprocessed |-> v],
         NEW p \in Batches(d, x, ip), NEW t \in Nat, Continued(r, u, w, x, o, c, t, p),
         t + 1 <= (n - c) \div r, NEW i
  PROVE  Continued(r, u, w, x, o, c, t + 1, ContinuousOutput(p, i))
  <1>1. PICK k \in Nat \ {0} : k = KernelSize(r)
    BY KernelSizeType
  <1>2. PICK M \in Nat \ {0} : M = MaxCombinedOutputs(r)
    BY MaxCombinedType
  <1>3. /\ c \in 0 .. n /\ o \in Seq(Seq(Int)) /\ c = Read(r, u, Len(o))
        /\ n - c < r \/ Len(o) = M
    <2>1. /\ c \in 0 .. n /\ o \in Seq(Seq(Int)) /\ c = Read(r, u, Len(o))
          /\ n - c < (IF Len(o) = 0 THEN r - u ELSE r) \/ Len(o) = M
      BY <1>2 DEF EnoughOutputs
    <2>2. n - c < (IF Len(o) = 0 THEN r - u ELSE r) => n - c < r
      <3>1. c \in 0 .. n
        BY <2>1
      <3>2. n - c < r - u => n - c < r
        BY <3>1
      <3> QED
        BY <3>2
    <2> QED
      BY <2>1, <2>2
  <1>4. r * (t + 1) <= n - c
    <2>1. PICK l \in Nat : l = n - c
      BY <1>3
    <2>2. PICK q \in Nat, m \in 0 .. r - 1 : l = r * q + m /\ l \div r = q /\ l % r = m
      BY <2>1, Division, Zenon
    <2>3. t + 1 <= q
      BY <2>1, <2>2
    <2>4. PICK e \in Nat : q = (t + 1) + e
      <3>1. q - (t + 1) \in Nat /\ q = (t + 1) + (q - (t + 1))
        BY <2>2, <2>3
      <3> QED
        BY <3>1
    <2>5. r * q = r * (t + 1) + r * e
      BY <2>4
    <2>6. PICK f \in Nat, g \in Nat : f = r * (t + 1) /\ g = r * e
      OBVIOUS
    <2>7. l = (f + g) + m
      BY <2>2, <2>5, <2>6
    <2>8. f <= l
      BY <2>7
    <2> QED
      BY <2>1, <2>6, <2>8
  <1>a. PICK z \in Nat : z = r * t
    OBVIOUS
  <1>5. r * (t + 1) = z + r
    BY <1>a
  <1>6. Len(o) = M
    BY <1>3, <1>4, <1>5
  <1>7. c = r * M - u
    BY <1>2, <1>3, <1>6 DEF Read
  <1>8. IsBatch(p, r, b, v, x, p.read, p.outputs, ip)
    BY BatchesAre
  <1>9. p.outputs \in Seq(Seq(Int) \cup Spans) /\ p.samples = x
    BY DEF Batches
  <1>10. p.read = c + z /\ Len(p.outputs) = M + t
    BY <1>6, <1>a DEF Continued
  <1>11. PICK a \in Nat : a = p.read
    BY <1>3, <1>5, <1>10
  <1>b. PICK Z \in Nat : Z = r * (t + 1)
    BY <1>a, <1>5
  <1>c. Z = z + r /\ Z <= n - c
    BY <1>4, <1>5, <1>b
  <1>d. a + r = c + Z /\ a + r <= n
    <2>1. a = c + z
      BY <1>10, <1>11
    <2>2. c \in 0 .. n
      BY <1>3
    <2> QED
      BY <1>c, <2>1, <2>2
  <1>12. a + r = c + r * (t + 1) /\ a + r <= n
    BY <1>b, <1>d
  <1>13. (a + r) - k >= M + t
    <2>1. (r * M - u) + r * (t + 1) - k >= M + t
      BY <1>1, <1>2, WindowsBehindOutputs
    <2>2. c + Z - k >= M + t
      BY <1>7, <1>b, <2>1
    <2> QED
      BY <1>1, <1>2, <1>3, <1>d, <2>2
  <1>14. PICK e \in Nat : e = (a + r) - k
    BY <1>1, <1>2, <1>13
  <1>15. e + k = a + r /\ e >= Len(p.outputs) /\ e + k <= n /\ Len(p.outputs) \in Nat
    BY SMTT(30), <1>1, <1>2, <1>10, <1>12, <1>13, <1>14
  <1> DEFINE y == SubSeq(Memory(p), e + 1, e + k)
             q == ContinuousOutput(p, i)
  <1>16. Continues(y, k, x, e)
    BY <1>9, <1>15, ReadFromMemory
  <1>17. y = After(w, x, e + k)
    <2> HIDE DEF y
    <2>1. w \in [1 .. k -> Int] /\ k \in Nat
      BY <1>1
    <2> QED
      BY <1>15, <1>16, <2>1, AfterWhole, Zenon
  <1>18. IsBatch(q, r, b, v, x, a + r, Append(p.outputs, y), ip)
    <2>1. IsBatch(p, r, b, v, x, a, p.outputs, ip)
      BY <1>8, <1>11
    <2>2. IsBatch(q, r, b, v, x, a + r,
                  Append(p.outputs, SubSeq(Memory(p), (a + r) - KernelSize(r) + 1, a + r)), ip)
      BY <2>1, ContinuousOutputIs
    <2>3. (a + r) - KernelSize(r) + 1 = e + 1 /\ a + r = e + k
      BY <1>1, <1>14, <1>15
    <2> HIDE DEF q
    <2> QED
      BY <2>2, <2>3
  <1>19. q.read = a + r /\ q.outputs = Append(p.outputs, y)
    <2> HIDE DEF y, q
    <2> QED
      BY <1>18 DEF IsBatch
  <1> HIDE DEF y, q
  <1>20. /\ Len(q.outputs) = M + (t + 1) /\ q.outputs[M + (t + 1)] = y
         /\ \A l \in 1 .. M + t : q.outputs[l] = p.outputs[l]
    <2>1. PICK s : s = p.outputs
      OBVIOUS
    <2>2. PICK V : V = Seq(Int) \cup Spans \cup {y}
      OBVIOUS
    <2>3. \A l \in 1 .. Len(s) : s[l] \in V
      BY <1>9, <2>1, <2>2, ElementOfSeq
    <2>4. s \in Seq(V) /\ y \in V
      <3>1. s \in [1 .. Len(s) -> V] /\ Len(s) \in Nat
        BY <1>9, <2>1, <2>3, SeqIsFunction
      <3>2. s \in Seq(V)
        BY <3>1, FunctionIsSeq
      <3> QED
        BY <2>2, <3>2
    <2>5. /\ Len(Append(s, y)) = Len(s) + 1 /\ Append(s, y)[Len(s) + 1] = y
          /\ \A l \in 1 .. Len(s) : Append(s, y)[l] = s[l]
      BY <2>4, AppendProperties
    <2>6. M + t + 1 = M + (t + 1)
      OBVIOUS
    <2> QED
      BY <1>10, <1>19, <2>1, <2>5, <2>6
  <1>21. ASSUME NEW l \in 1 .. M + (t + 1) PROVE q.outputs[l] = After(w, x, r * l - u)
    <2>1. CASE l = M + (t + 1)
      <3>1. r * (M + (t + 1)) = r * M + r * (t + 1)
        OBVIOUS
      <3>2. r * (M + (t + 1)) - u = e + k
        <4>1. PICK f \in Nat, g \in Nat, h \in Nat :
                 f = r * M /\ g = r * (t + 1) /\ h = r * (M + (t + 1))
          OBVIOUS
        <4>2. h = f + g /\ c = f - u /\ e + k = c + g
          BY <1>7, <1>12, <1>15, <3>1, <4>1
        <4>3. h - u = e + k
          BY <1>3, <4>2
        <4> QED
          BY <4>1, <4>3
      <3> QED
        BY <1>17, <1>20, <2>1, <3>2
    <2>2. CASE l # M + (t + 1)
      <3>1. l \in 1 .. M + t
        BY <2>2
      <3>2. p.outputs[l] = After(w, x, r * l - u)
        BY <1>10, <3>1 DEF Continued
      <3> QED
        BY <1>20, <3>1, <3>2
    <2> QED
      BY <2>1, <2>2
  <1>22. q.read = c + r * (t + 1)
    BY <1>12, <1>19
  <1> QED
    BY <1>6, <1>20, <1>21, <1>22 DEF Continued, q

LEMMA ContinuousSamples ==
  ASSUME NEW r \in Nat \ {0, 1}, NEW u \in 0 .. r - 1,
         NEW w \in [1 .. KernelSize(r) -> Int],
         NEW n \in Nat, NEW x \in [1 .. n -> Int], NEW ip, NEW c, NEW o,
         EnoughOutputs(r, u, w, n, x, c, o),
         NEW b, NEW v, NEW d, d = [ratio |-> r, stored |-> b, unprocessed |-> v],
         NEW p, IsBatch(p, r, b, v, x, c, o, ip)
  PROVE  /\ ProcessContinuousSamples(p) \in Batches(d, x, ip)
         /\ Continued(r, u, w, x, o, c, (n - c) \div r, ProcessContinuousSamples(p))
  <1>0. /\ c \in 0 .. n /\ o \in Seq(Seq(Int))
        /\ \A k \in 1 .. Len(o) : o[k] = After(w, x, r * k - u)
    BY DEF EnoughOutputs
  <1>1. PICK N \in Nat : N = (n - c) \div r
    <2>1. n - c \in Nat
      BY <1>0
    <2> QED
      BY <2>1, Division, Zenon
  <1>2. p.samples = x /\ p.outputs = o /\ p.read = c /\ p.decimator.ratio = r
    BY DEF IsBatch
  <1>3. Remaining(p) = n - c
    <2>1. Len(x) = n
      BY FunctionIsSeq
    <2> QED
      BY <1>2, <2>1 DEF Remaining
  <1>4. o \in Seq(Seq(Int) \cup Spans)
    <2>1. PICK V : V = Seq(Int) \cup Spans
      OBVIOUS
    <2>2. Len(o) \in Nat /\ o \in [1 .. Len(o) -> Seq(Int)]
      BY <1>0, SeqIsFunction
    <2>3. o \in [1 .. Len(o) -> V]
      BY <2>1, <2>2
    <2>4. o \in Seq(V)
      BY <2>2, <2>3, FunctionIsSeq
    <2> QED
      BY <2>1, <2>4
  <1>5. p \in Batches(d, x, ip)
    <2>1. c \in Nat
      BY <1>0
    <2>2. p = [decimator |-> d, samples |-> x, read |-> c, outputs |-> o, inPlace |-> ip]
      BY DEF IsBatch
    <2> QED
      BY <1>4, <2>1, <2>2 DEF Batches
  <1>6. Continued(r, u, w, x, o, c, 0, p)
    <2>1. c = c + r * 0
      BY <1>0
    <2>2. Len(o) = Len(o) + 0
      BY <1>0, LenProperties
    <2> QED
      BY <1>0, <1>2, <2>1, <2>2 DEF Continued
  <1> DEFINE S == Batches(d, x, ip)
             seq == Times(N)
             Solves(it) == it = [s \in SUBSET DOMAIN seq |->
                                  IF s = {} THEN p
                                  ELSE LET y == Max(s) IN ContinuousOutput(it[s \ {y}], seq[y])]
             f == [q \in S \X (1 .. N) |-> ContinuousOutput(q[1], q[2])]
             I == [k \in 0 .. N |-> {q \in S : Continued(r, u, w, x, o, c, k, q)}]
             i == CHOOSE it : Solves(it)
  <1>7. DOMAIN seq = 1 .. N /\ \A k \in 1 .. N : seq[k] = k
    BY DEF Times
  <1>8. ProcessContinuousSamples(p) = i[DOMAIN seq]
    BY <1>1, <1>2, <1>3 DEF ProcessContinuousSamples, FoldLeft, MapThenFoldSet
  <1>9. \A q \in S : \A k \in 1 .. N : ContinuousOutput(q, k) \in S
    BY ContinuousType
  <1>10. p \in S
    BY <1>5
  <1> HIDE DEF S, seq
  <1>11. f \in [S \X (1 .. N) -> S] /\ \A q \in S : \A k \in 1 .. N : f[<<q, k>>] = ContinuousOutput(q, k)
    BY <1>9
  <1> HIDE DEF f
  <1>12. PICK g \in [SUBSET (1 .. N) -> S] : FoldOf(g, p, N, f)
    BY <1>10, <1>11, FoldExists
  <1>13. \A s \in SUBSET (1 .. N) : s # {} => Max(s) \in 1 .. N
    BY GreatestOfSome
  <1>14. Solves(g)
    <2>1. ASSUME NEW s \in SUBSET (1 .. N), s # {}
          PROVE  f[<<g[s \ {Max(s)}], Max(s)>>] = ContinuousOutput(g[s \ {Max(s)}], seq[Max(s)])
      <3>1. Max(s) \in 1 .. N
        BY <1>13, <2>1
      <3>2. g[s \ {Max(s)}] \in S
        OBVIOUS
      <3> QED
        BY <1>7, <1>11, <3>1, <3>2
    <2> QED
      BY <1>7, <1>12, <2>1 DEF FoldOf
  <1>15. Solves(i)
    BY <1>14
  <1> HIDE DEF i
  <1>16. i[{}] = p
    BY <1>7, <1>15
  <1>17. FoldedWith(i, p, N, f, S)
    <2>1. ASSUME NEW s \in SUBSET (1 .. N), s # {}, i[s \ {Max(s)}] \in S
          PROVE  i[s] = f[<<i[s \ {Max(s)}], Max(s)>>]
      <3>1. Max(s) \in 1 .. N
        BY <1>13, <2>1
      <3>2. i[s] = ContinuousOutput(i[s \ {Max(s)}], seq[Max(s)])
        BY <1>7, <1>15, <2>1
      <3>3. seq[Max(s)] = Max(s)
        BY <1>7, <3>1
      <3>4. f[<<i[s \ {Max(s)}], Max(s)>>] = ContinuousOutput(i[s \ {Max(s)}], Max(s))
        BY <1>11, <2>1, <3>1
      <3> QED
        BY <3>2, <3>3, <3>4
    <2> HIDE DEF Solves
    <2> QED
      BY <1>16, <2>1 DEF FoldedWith
  <1> HIDE DEF Solves
  <1>18. p \in I[0]
    BY <1>6, <1>10
  <1>19. LeadsThrough(f, I, N, S)
    <2> SUFFICES ASSUME NEW k \in 1 .. N, NEW q \in S, q \in I[k - 1]
                 PROVE  f[<<q, k>>] \in I[k]
      BY DEF LeadsThrough
    <2>1. PICK t \in Nat : t = k - 1 /\ t + 1 = k
      OBVIOUS
    <2>2. Continued(r, u, w, x, o, c, t, q)
      BY <2>1
    <2>3. t + 1 <= (n - c) \div r
      BY <1>1, <2>1
    <2>4. q \in Batches(d, x, ip)
      BY DEF S
    <2>5. Continued(r, u, w, x, o, c, t + 1, ContinuousOutput(q, k))
      BY <2>2, <2>3, <2>4, ContinuousStep
    <2>6. ContinuousOutput(q, k) \in S
      BY <1>9
    <2> QED
      BY <1>11, <2>1, <2>5, <2>6
  <1>20. i[1 .. N] \in S /\ i[1 .. N] \in I[N]
    <2> HIDE DEF I
    <2> QED
      BY <1>10, <1>11, <1>17, <1>18, <1>19, FoldWithin
  <1> QED
    BY <1>1, <1>7, <1>8, <1>20 DEF S

--------------------------------------------------------------------------------
(* The decimator: a whole batch.                                            *)

\* The decimator after n samples x and the outputs it gave, when u samples
\* waited before and its latest samples were w.
IsDecimated(q, r, u, w, n, x) ==
  LET J == (u + n) \div r
  IN  /\ q.decimator \in DecimatorsOf(r)
      /\ q.decimator.unprocessed = IF J = 0 THEN n ELSE (u + n) - r * J
      /\ StoredWindow(q.decimator.stored) = After(w, x, n)
      /\ J \in Nat /\ Len(q.outputs) = J /\ DOMAIN q.outputs = 1 .. J
      /\ q.outputs \in Seq(Seq(Int) \cup Spans)
      /\ \A k \in 1 .. J : q.outputs[k] = After(w, x, r * k - u)

\* j outputs of the samples until c, and t outputs of the rest.
InParts(r, u, n, j, c, t) ==
  c = Read(r, u, j) /\ (j = 0 => n - c < r - u) /\ t = (n - c) \div r

\* The outputs of both parts are one for every r samples.
LEMMA OutputsOfBoth ==
  ASSUME NEW r \in Nat \ {0, 1}, NEW u \in 0 .. r - 1, NEW n \in Nat,
         NEW j \in Nat, NEW c \in 0 .. n, NEW t, InParts(r, u, n, j, c, t)
  PROVE  /\ t \in Nat /\ (u + n) \div r = j + t
         /\ n - (c + r * t) \in 0 .. r - 1
         /\ n - (c + r * t) = IF j + t = 0 THEN n ELSE (u + n) - r * (j + t)
  <1>0. c = Read(r, u, j) /\ (j = 0 => n - c < r - u) /\ t = (n - c) \div r
    BY DEF InParts
  <1>1. PICK l \in Nat : l = n - c
    OBVIOUS
  <1>2. PICK q \in Nat, m \in 0 .. r - 1 : l = r * q + m /\ l \div r = q /\ l % r = m
    BY <1>1, Division, Zenon
  <1>3. t = q
    BY <1>0, <1>1, <1>2
  <1>4. PICK z \in Nat : z = r * t
    BY <1>2, <1>3
  <1>5. n - (c + z) = m /\ n = c + z + m
    BY <1>1, <1>2, <1>3, <1>4
  <1>6. CASE j = 0
    <2>1. c = 0 /\ n < r - u
      BY <1>0, <1>6 DEF Read
    <2>2. PICK s \in Nat : s = u + n /\ s < r
      BY <2>1
    <2>3. s = r * 0 + s /\ s \in 0 .. r - 1 /\ 0 \in Nat
      BY <2>2
    <2>4. (r * 0 + s) \div r = 0
      BY <2>3, DivisionIs, Zenon
    <2>5. s \div r = 0
      BY <2>3, <2>4
    <2>6. t = 0
      <3>1. q = 0
        <4>1. q # 0 => r * q >= r
          <5>1. SUFFICES ASSUME q # 0 PROVE r * q >= r
            OBVIOUS
          <5>2. PICK e \in Nat : q = e + 1
            <6>1. q - 1 \in Nat /\ q = (q - 1) + 1
              BY <5>1
            <6> QED
              BY <6>1
          <5>3. r * q = r * e + r /\ r * e \in Nat
            BY <5>2
          <5> QED
            BY <5>3
        <4>2. PICK y \in Nat : y = r * q
          OBVIOUS
        <4>3. y < r
          BY <1>1, <1>2, <2>1, <4>2
        <4> QED
          BY <4>1, <4>2, <4>3
      <3> QED
        BY <1>3, <3>1
    <2>7. j + t = 0 /\ c + r * t = 0
      <3>1. r * t = 0
        BY <2>6
      <3> QED
        BY <1>6, <2>1, <2>6, <3>1
    <2>8. (u + n) \div r = j + t
      BY <2>2, <2>5, <2>7
    <2>9. n - (c + r * t) = n /\ n \in 0 .. r - 1
      BY <2>1, <2>7
    <2>10. t \in Nat
      BY <2>6
    <2> HIDE DEF Read
    <2> QED
      BY <2>7, <2>8, <2>9, <2>10
  <1>7. CASE j # 0
    <2>1. c = r * j - u
      BY <1>0, <1>7 DEF Read
    <2>2. r * (j + t) = r * j + r * t
      BY <1>2, <1>3
    <2>3. PICK y \in Nat : y = r * j
      OBVIOUS
    <2>4. u + n = (y + z) + m
      BY <1>5, <2>1, <2>3
    <2>5. PICK g \in Nat : g = j + t /\ g # 0
      BY <1>2, <1>3, <1>7
    <2>6. r * g = y + z
      BY <1>4, <2>2, <2>3, <2>5
    <2>7. u + n = r * g + m
      BY <2>4, <2>6
    <2>8. (u + n) \div r = g
      BY <2>7, DivisionIs
    <2>9. (u + n) - r * g = m
      BY <2>4, <2>6
    <2> QED
      BY <1>2, <1>3, <1>4, <1>5, <2>5, <2>8, <2>9
  <1> QED
    BY <1>6, <1>7

LEMMA Begun ==
  ASSUME NEW r \in Nat \ {0, 1}, NEW d \in DecimatorsOf(r), NEW n \in Nat, NEW x, NEW ip,
         NEW u, u = d.unprocessed, NEW w, w = StoredWindow(d.stored)
  PROVE  /\ u \in 0 .. r - 1 /\ d.ratio = r /\ w \in [1 .. KernelSize(r) -> Int]
         /\ [decimator |-> d, samples |-> x, read |-> 0, outputs |-> <<>>, inPlace |-> ip]
              \in Progress(r, u, w, n, x, ip)
  <1>1. PICK b \in Rings(KernelSize(r)), v \in 0 .. r - 1 :
          d = [ratio |-> r, stored |-> b, unprocessed |-> v]
    BY DEF DecimatorsOf
  <1>2. u = v /\ d.ratio = r /\ w = StoredWindow(b)
    BY <1>1
  <1>3. PICK k \in Nat \ {0} : k = KernelSize(r)
    BY KernelSizeType
  <1>4. w \in [1 .. k -> Int]
    BY <1>1, <1>2, <1>3, WindowOfRing
  <1>5. StoredWindow(b) = After(w, x, 0)
    BY <1>2, <1>3, <1>4, AfterNothing
  <1>a. PICK o \in Seq(Seq(Int)) : o = <<>> /\ Len(o) = 0
    <2>1. <<>> \in Seq(Seq(Int)) /\ Len(<<>>) = 0
      OBVIOUS
    <2> QED
      BY <2>1
  <1>b. PICK c \in 0 .. n : c = 0
    OBVIOUS
  <1>6. o = <<>> /\ c = 0 /\ Len(o) = 0
    BY <1>a, <1>b
  <1>7. c = Read(r, u, Len(o)) /\ v = IF Len(o) = 0 THEN u ELSE 0
    BY <1>2, <1>6 DEF Read
  <1>8. StoredWindow(b) = After(w, x, c) /\ \A k_ \in 1 .. Len(o) : o[k_] = After(w, x, r * k_ - u)
    BY <1>5, <1>6
  <1>9. [decimator |-> [ratio |-> r, stored |-> b, unprocessed |-> v],
         samples |-> x, read |-> c, outputs |-> o, inPlace |-> ip]
           \in Progress(r, u, w, n, x, ip)
    BY <1>7, <1>8, ProgressOf
  <1> QED
    BY <1>1, <1>2, <1>3, <1>4, <1>6, <1>9

LEMMA Decimated ==
  ASSUME NEW r \in Nat \ {0, 1}, NEW d \in DecimatorsOf(r),
         NEW n \in Nat, NEW x \in [1 .. n -> Int], NEW ip
  PROVE  IsDecimated(Decimate(d, x, ip), r, d.unprocessed, StoredWindow(d.stored), n, x)
  <1>1. PICK u : u = d.unprocessed
    OBVIOUS
  <1>2. PICK w : w = StoredWindow(d.stored)
    OBVIOUS
  <1> DEFINE begun == [decimator |-> d, samples |-> x, read |-> 0,
                       outputs |-> <<>>, inPlace |-> ip]
             combined == ProcessCombinedSamples(begun)
             stored == StoreLatest(combined)
             ended == ProcessContinuousSamples(stored)
             q == Decimate(d, x, ip)
  <1>3. u \in 0 .. r - 1 /\ d.ratio = r /\ w \in [1 .. KernelSize(r) -> Int]
    BY <1>1, <1>2, Begun
  <1>4. begun \in Progress(r, u, w, n, x, ip)
    BY <1>1, <1>2, Begun
  <1>5. Len(begun.outputs) = 0
    OBVIOUS
  <1>6. q = [decimator |-> [ended.decimator EXCEPT !.unprocessed = Remaining(ended)],
             outputs |-> ended.outputs]
    <2>1. d.ratio # 1
      BY <1>3
    <2> QED
      BY <2>1, Zenon DEF Decimate
  <1> HIDE DEF begun, q
  <1>7. combined \in Progress(r, u, w, n, x, ip)
    BY <1>3, <1>4, <1>5, CombinedSamples
  <1>8. Stuck(combined, r, n) \/ Len(combined.outputs) = MaxCombinedOutputs(r)
    BY <1>3, <1>4, <1>5, CombinedSamples
  <1> HIDE DEF combined
  <1>9. PICK b, v, c, o :
           /\ IsBatch(combined, r, b, v, x, c, o, ip)
           /\ HoldsLatest(b, KernelSize(r), w, x, c)
           /\ EnoughOutputs(r, u, w, n, x, c, o)
    BY <1>3, <1>7, <1>8, CombinedParts
  <1>10. PICK s : /\ IsBatch(stored, r, s, v, x, c, o, ip)
                  /\ HoldsLatest(s, KernelSize(r), w, x, n)
    BY <1>3, <1>9, LatestStored
  <1> HIDE DEF stored
  <1>11. PICK e : e = [ratio |-> r, stored |-> s, unprocessed |-> v]
    OBVIOUS
  <1>12. ended \in Batches(e, x, ip)
    BY <1>3, <1>9, <1>10, <1>11, ContinuousSamples
  <1>13. Continued(r, u, w, x, o, c, (n - c) \div r, ended)
    BY <1>3, <1>9, <1>10, <1>11, ContinuousSamples
  <1> HIDE DEF ended
  <1>14. /\ c \in 0 .. n /\ o \in Seq(Seq(Int)) /\ c = Read(r, u, Len(o))
         /\ (n - c < IF Len(o) = 0 THEN r - u ELSE r) \/ Len(o) = MaxCombinedOutputs(r)
    BY <1>9 DEF EnoughOutputs
  <1>15. PICK j \in Nat : j = Len(o)
    BY <1>14, LenProperties
  <1>16. j = 0 => n - c < r - u
    <2>1. MaxCombinedOutputs(r) # 0
      BY MaxCombinedType
    <2> QED
      BY <1>14, <1>15, <2>1
  <1>17. PICK t : t = (n - c) \div r
    OBVIOUS
  <1>18. /\ t \in Nat /\ (u + n) \div r = j + t
         /\ n - (c + r * t) \in 0 .. r - 1
         /\ n - (c + r * t) = IF j + t = 0 THEN n ELSE (u + n) - r * (j + t)
    <2>1. u \in 0 .. r - 1 /\ c \in 0 .. n /\ c = Read(r, u, j)
      BY <1>3, <1>14, <1>15
    <2>2. InParts(r, u, n, j, c, t)
      BY <1>16, <1>17, <2>1 DEF InParts
    <2> QED
      BY <2>1, <2>2, OutputsOfBoth
  <1>19. /\ ended.read = c + r * t /\ Len(ended.outputs) = j + t
         /\ \A k \in 1 .. j + t : ended.outputs[k] = After(w, x, r * k - u)
    BY <1>13, <1>15, <1>17 DEF Continued
  <1>20. /\ ended.decimator = e /\ ended.samples = x
         /\ ended.outputs \in Seq(Seq(Int) \cup Spans)
    BY <1>12 DEF Batches
  <1>21. DOMAIN ended.outputs = 1 .. j + t
    BY <1>19, <1>20, SeqIsFunction
  <1>22. Remaining(ended) = n - (c + r * t)
    <2>1. Len(x) = n
      BY FunctionIsSeq
    <2> QED
      BY <1>19, <1>20, <2>1 DEF Remaining
  <1>23. PICK m \in 0 .. r - 1 : m = Remaining(ended)
    BY <1>18, <1>22
  <1>24. q.decimator = [ratio |-> r, stored |-> s, unprocessed |-> m]
    BY <1>6, <1>11, <1>20, <1>23
  <1>25. q.outputs = ended.outputs
    BY <1>6
  <1>26. s \in Rings(KernelSize(r)) /\ StoredWindow(s) = After(w, x, n)
    BY <1>10 DEF HoldsLatest
  <1>27. q.decimator \in DecimatorsOf(r)
    BY <1>24, <1>26 DEF DecimatorsOf
  <1>28. q.decimator.unprocessed = m /\ StoredWindow(q.decimator.stored) = After(w, x, n)
    BY <1>24, <1>26
  <1>29. PICK J \in Nat : J = j + t
    BY <1>18
  <1>30. m = IF J = 0 THEN n ELSE (u + n) - r * J
    BY <1>18, <1>22, <1>23, <1>29
  <1>31. IsDecimated(q, r, u, w, n, x)
    BY <1>18, <1>19, <1>20, <1>21, <1>25, <1>27, <1>28, <1>29, <1>30 DEF IsDecimated
  <1> QED
    BY <1>1, <1>2, <1>31 DEF q

--------------------------------------------------------------------------------
(* The ring buffer whose storage is in the reverse order.                   *)

Reverses(n) == [data : [0 .. n - 1 -> Int], tail : 0 .. n - 1]

\* The samples from the newest one to the oldest one.
ReverseWindow(b) == ReverseNewElements(b) \o ReverseOldElements(b)

LEMMA ReverseWindowOf ==
  ASSUME NEW n \in Nat \ {0}, NEW b \in Reverses(n)
  PROVE  /\ ReverseWindow(b) \in [1 .. n -> Int]
         /\ \A j \in 1 .. n : ReverseWindow(b)[j] =
              b.data[IF b.tail + j < n THEN b.tail + j ELSE b.tail + j - n]
  <1>1. b.tail \in 0 .. n - 1 /\ b.data \in [0 .. n - 1 -> Int]
    BY DEF Reverses
  <1>2. Size(b) = n
    BY <1>1, SizeOfRing
  <1>0. PICK z \in 0 .. n - 1 : z = b.tail
    BY <1>1
  <1>3. PICK p \in Nat, q \in Nat : q = z + 1 /\ p = n - q
    OBVIOUS
  <1> DEFINE new == [i \in 1 .. p |-> b.data[q + i - 1]]
             old == [i \in 1 .. q |-> b.data[i - 1]]
  <1>4. ReverseNewElements(b) = new
    <2>1. n - 1 - (b.tail + 1) + 1 = p
      BY <1>0, <1>1, <1>3
    <2> QED
      BY <1>0, <1>2, <1>3, <2>1 DEF ReverseNewElements, Span
  <1>5. ReverseOldElements(b) = old
    <2>1. b.tail - 0 + 1 = q
      BY <1>0, <1>1, <1>3
    <2>2. \A i \in 1 .. q : 0 + i - 1 = i - 1
      OBVIOUS
    <2> QED
      BY <2>1, <2>2 DEF ReverseOldElements, Span
  <1>6. new \in [1 .. p -> Int]
    <2>1. \A i \in 1 .. p : q + i - 1 \in 0 .. n - 1
      BY <1>0, <1>1, <1>3
    <2> QED
      BY <1>1, <2>1
  <1>7. old \in [1 .. q -> Int]
    <2>1. \A i \in 1 .. q : i - 1 \in 0 .. n - 1
      BY <1>0, <1>1, <1>3
    <2> QED
      BY <1>1, <2>1
  <1>8. new \o old \in [1 .. p + q -> Int]
    <2> HIDE DEF old, new
    <2> QED
      BY <1>6, <1>7, JoinedFunctions
  <1>9. ASSUME NEW j \in 1 .. p + q
        PROVE  (new \o old)[j] = IF j <= p THEN new[j] ELSE old[j - p]
    <2> HIDE DEF old, new
    <2>2. new \in Seq(Int) /\ Len(new) = p
      BY <1>6, FunctionIsSeq
    <2>3. old \in Seq(Int) /\ Len(old) = q
      BY <1>7, FunctionIsSeq
    <2> QED
      BY <2>2, <2>3, ConcatProperties
  <1>10. ASSUME NEW j \in 1 .. n
        PROVE  (IF j <= p THEN new[j] ELSE old[j - p]) =
                 b.data[IF b.tail + j < n THEN b.tail + j ELSE b.tail + j - n]
    <2>1. CASE j <= p
      <3>1. j \in 1 .. p /\ z + j < n /\ q + j - 1 = z + j
        BY <1>3, <2>1
      <3> QED
        BY <1>0, <2>1, <3>1
    <2>2. CASE ~ (j <= p)
      <3>1. /\ j - p \in 1 .. q /\ ~ (z + j < n)
            /\ j - p - 1 = z + j - n
        BY <1>3, <2>2
      <3> QED
        BY <1>0, <2>2, <3>1
    <2> QED
      BY <2>1, <2>2
  <1>11. p + q = n
    BY <1>0, <1>1, <1>3
  <1> HIDE DEF old, new
  <1> QED
    BY <1>4, <1>5, <1>8, <1>9, <1>10, <1>11 DEF ReverseWindow

LEMMA ReversePushed ==
  ASSUME NEW n \in Nat \ {0}, NEW b \in Reverses(n), NEW x \in Int
  PROVE  /\ ReversePush(b, x) \in Reverses(n)
         /\ ReverseWindow(ReversePush(b, x))[1] = x
         /\ \A j \in 2 .. n :
              ReverseWindow(ReversePush(b, x))[j] = ReverseWindow(b)[j - 1]
  <1>1. PICK t \in 0 .. n - 1, data \in [0 .. n - 1 -> Int] :
           b = [data |-> data, tail |-> t] /\ t = b.tail /\ data = b.data
    BY DEF Reverses
  <1>2. Size(b) = n
    BY <1>1, SizeOfRing
  <1> DEFINE r == ReversePush(b, x)
             after == [data EXCEPT ![t] = x]
  <1>3. PICK e \in 0 .. n - 1 : e = IF t > 0 THEN t - 1 ELSE n - 1
    OBVIOUS
  <1>4. r = [data |-> after, tail |-> e]
    BY <1>1, <1>2, <1>3 DEF ReversePush
  <1>5. after \in [0 .. n - 1 -> Int] /\ \A i \in 0 .. n - 1 : after[i] = IF i = t THEN x ELSE data[i]
    OBVIOUS
  <1> HIDE DEF after, r
  <1>6. r \in Reverses(n) /\ r.data = after /\ r.tail = e
    BY <1>4, <1>5 DEF Reverses
  <1>7. \A j \in 1 .. n : ReverseWindow(r)[j] =
              after[IF e + j < n THEN e + j ELSE e + j - n]
    BY <1>6, ReverseWindowOf
  <1>8. \A j \in 1 .. n : ReverseWindow(b)[j] =
              data[IF t + j < n THEN t + j ELSE t + j - n]
    BY <1>1, ReverseWindowOf
  <1>9. ReverseWindow(r)[1] = x
    <2>1. (IF e + 1 < n THEN e + 1 ELSE e + 1 - n) = t /\ 1 \in 1 .. n
      BY <1>3
    <2> QED
      BY <1>5, <1>7, <2>1
  <1>10. ASSUME NEW j \in 2 .. n PROVE ReverseWindow(r)[j] = ReverseWindow(b)[j - 1]
    <2>0. (IF e + j < n THEN e + j ELSE e + j - n) \in 0 .. n - 1
      OBVIOUS
    <2>1. PICK i \in 0 .. n - 1 : i = IF e + j < n THEN e + j ELSE e + j - n
      BY <2>0
    <2>2. i # t /\ i = IF t + (j - 1) < n THEN t + (j - 1) ELSE t + (j - 1) - n
      BY <1>3, <2>1
    <2>3. j \in 1 .. n /\ j - 1 \in 1 .. n
      OBVIOUS
    <2>4. ReverseWindow(r)[j] = after[i]
      BY <1>7, <2>1, <2>3
    <2>5. ReverseWindow(b)[j - 1] = data[i]
      BY <1>8, <2>2, <2>3
    <2> QED
      BY <1>5, <2>2, <2>4, <2>5
  <1> QED
    BY <1>6, <1>9, <1>10 DEF r

\* The window is that of sample t and those before it, of which c are known.
Newest(b, n, t, c) ==
  b \in Reverses(n) /\ \A j \in 1 .. n : j <= c => ReverseWindow(b)[j] = t - j + 1

LEMMA NewestPushed ==
  ASSUME NEW n \in Nat \ {0}, NEW t \in Int, NEW c \in Int, NEW b, Newest(b, n, t, c)
  PROVE  Newest(ReversePush(b, t + 1), n, t + 1, c + 1)
  <1>1. b \in Reverses(n) /\ \A j \in 1 .. n : j <= c => ReverseWindow(b)[j] = t - j + 1
    BY DEF Newest
  <1> DEFINE r == ReversePush(b, t + 1)
  <1>2. t + 1 \in Int
    OBVIOUS
  <1>3. r \in Reverses(n)
    BY <1>1, <1>2, ReversePushed
  <1>4. ReverseWindow(r)[1] = t + 1
    BY <1>1, <1>2, ReversePushed
  <1>5. \A j \in 2 .. n : ReverseWindow(r)[j] = ReverseWindow(b)[j - 1]
    BY <1>1, <1>2, ReversePushed
  <1> HIDE DEF r
  <1>6. ASSUME NEW j \in 1 .. n, j <= c + 1 PROVE ReverseWindow(r)[j] = (t + 1) - j + 1
    <2>1. CASE j = 1
      BY <1>4, <2>1
    <2>2. CASE j # 1
      <3>1. j \in 2 .. n /\ j - 1 \in 1 .. n /\ j - 1 <= c /\ t - (j - 1) + 1 = (t + 1) - j + 1
        BY <1>6, <2>2
      <3> QED
        BY <1>1, <1>5, <3>1
    <2> QED
      BY <2>1, <2>2
  <1> QED
    BY <1>3, <1>6 DEF Newest, r

LEMMA NewestAgain ==
  ASSUME NEW n \in Nat \ {0}, NEW t \in Int
  PROVE  Newest(ReverseResize(n), n, t, 0)
  <1>1. ReverseResize(n) \in Reverses(n)
    BY DEF ReverseResize, Reverses, Zero
  <1> QED
    BY <1>1 DEF Newest

\* The sequence s counts the samples behind sample t.
Counts(s, n, t) == s \in [1 .. n -> Int] /\ \A i \in 1 .. n : s[i] = t + i

LEMMA PushedInReverse ==
  ASSUME NEW n \in Nat \ {0}, NEW b \in Reverses(n), NEW t \in Int, NEW c \in Int,
         NEW m \in Nat, m >= n, NEW e, Counts(e, m, t)
  PROVE  Newest(ReversePushMultiple(b, e), n, t + m, c)
  <1>0. e \in [1 .. m -> Int] /\ \A i \in 1 .. m : e[i] = t + i
    BY DEF Counts
  <1>1. e \in Seq(Int) /\ Len(e) = m
    BY <1>0, FunctionIsSeq
  <1>2. Size(b) = n
    BY SizeOfRing DEF Reverses
  <1> DEFINE seq == LastOf(e, n)
  <1>3. seq \in Seq(Int) /\ Len(seq) = n
    <2>1. Len(seq) = IF Len(e) > n THEN n ELSE Len(e)
      BY <1>1, LastElements
    <2>2. seq \in Seq(Int)
      BY <1>1, LastElements
    <2> HIDE DEF seq
    <2> QED
      BY <1>1, <2>1, <2>2
  <1>4. PICK a \in Int : a = t + m - n
    OBVIOUS
  <1>5. \A k \in 1 .. n : seq[k] = a + k
    <2>1. n \in Nat
      OBVIOUS
    <2>2. \A k \in 1 .. Len(seq) : seq[k] = e[Len(e) - Len(seq) + k]
      BY <1>1, <2>1, LastElements, Zenon
    <2> HIDE DEF seq
    <2>3. ASSUME NEW k \in 1 .. n PROVE seq[k] = a + k
      <3>1. seq[k] = e[m - n + k]
        BY <1>1, <1>3, <2>2
      <3>2. m - n + k \in 1 .. m /\ t + (m - n + k) = a + k
        BY <1>4
      <3> QED
        BY <1>0, <3>1, <3>2
    <2> QED
      BY <2>3
  <1> DEFINE S == Reverses(n)
             Solves(it) == it = [s \in SUBSET DOMAIN seq |->
                                  IF s = {} THEN b
                                  ELSE LET y == Max(s) IN ReversePush(it[s \ {y}], seq[y])]
             f == [q \in S \X (1 .. n) |-> ReversePush(q[1], a + q[2])]
             I == [k \in 0 .. n |-> {q \in S : Newest(q, n, a + k, k)}]
             i == CHOOSE it : Solves(it)
  <1>6. ReversePushMultiple(b, e) = i[DOMAIN seq]
    BY <1>2 DEF ReversePushMultiple, FoldLeft, MapThenFoldSet
  <1>7. DOMAIN seq = 1 .. n
    BY <1>3
  <1> HIDE DEF seq
  <1>9. \A q \in S : \A k \in 1 .. n : ReversePush(q, a + k) \in S
    BY ReversePushed
  <1>10. b \in S
    OBVIOUS
  <1> HIDE DEF S
  <1>11. f \in [S \X (1 .. n) -> S] /\ \A q \in S : \A k \in 1 .. n : f[<<q, k>>] = ReversePush(q, a + k)
    BY <1>9
  <1> HIDE DEF f
  <1>12. PICK g \in [SUBSET (1 .. n) -> S] : FoldOf(g, b, n, f)
    BY <1>10, <1>11, FoldExists
  <1>13. \A s \in SUBSET (1 .. n) : s # {} => Max(s) \in 1 .. n
    BY GreatestOfSome
  <1>14. Solves(g)
    <2>1. ASSUME NEW s \in SUBSET (1 .. n), s # {}
          PROVE  f[<<g[s \ {Max(s)}], Max(s)>>] = ReversePush(g[s \ {Max(s)}], seq[Max(s)])
      <3>1. Max(s) \in 1 .. n
        BY <1>13, <2>1
      <3>2. g[s \ {Max(s)}] \in S
        OBVIOUS
      <3> QED
        BY <1>5, <1>11, <3>1, <3>2
    <2> QED
      BY <1>7, <1>12, <2>1 DEF FoldOf
  <1>15. Solves(i)
    BY <1>14
  <1> HIDE DEF i
  <1>16. i[{}] = b
    BY <1>7, <1>15
  <1>17. FoldedWith(i, b, n, f, S)
    <2>1. ASSUME NEW s \in SUBSET (1 .. n), s # {}, i[s \ {Max(s)}] \in S
          PROVE  i[s] = f[<<i[s \ {Max(s)}], Max(s)>>]
      <3>1. Max(s) \in 1 .. n
        BY <1>13, <2>1
      <3>2. i[s] = ReversePush(i[s \ {Max(s)}], seq[Max(s)])
        BY <1>7, <1>15, <2>1
      <3>3. seq[Max(s)] = a + Max(s)
        BY <1>5, <3>1
      <3>4. f[<<i[s \ {Max(s)}], Max(s)>>] = ReversePush(i[s \ {Max(s)}], a + Max(s))
        BY <1>11, <2>1, <3>1
      <3> QED
        BY <3>2, <3>3, <3>4
    <2> HIDE DEF Solves
    <2> QED
      BY <1>16, <2>1 DEF FoldedWith
  <1> HIDE DEF Solves
  <1>18. b \in I[0]
    BY <1>10 DEF S, Newest
  <1>19. LeadsThrough(f, I, n, S)
    <2> SUFFICES ASSUME NEW k \in 1 .. n, NEW q \in S, q \in I[k - 1]
                 PROVE  f[<<q, k>>] \in I[k]
      BY DEF LeadsThrough
    <2>1. PICK l \in Nat : l = k - 1 /\ l + 1 = k
      OBVIOUS
    <2>2. Newest(q, n, a + l, l)
      BY <2>1
    <2>3. a + l \in Int /\ l \in Int /\ (a + l) + 1 = a + k
      BY <2>1
    <2>4. Newest(ReversePush(q, (a + l) + 1), n, (a + l) + 1, l + 1)
      BY <2>2, <2>3, NewestPushed
    <2>5. ReversePush(q, a + k) \in S
      BY <1>9
    <2> QED
      BY <1>11, <2>1, <2>3, <2>4, <2>5
  <1>20. i[1 .. n] \in S /\ i[1 .. n] \in I[n]
    <2> HIDE DEF I
    <2> QED
      BY <1>10, <1>11, <1>17, <1>18, <1>19, FoldWithin
  <1>21. Newest(i[1 .. n], n, t + m, n)
    <2>1. a + n = t + m
      BY <1>4
    <2> QED
      BY <1>20, <2>1
  <1>22. Newest(i[1 .. n], n, t + m, c)
    BY <1>21 DEF Newest
  <1> QED
    BY <1>6, <1>7, <1>22

--------------------------------------------------------------------------------
(* The filter.                                                              *)

FiltersOf(n) == [kernelSize : {n}, stored : Reverses(n)]

\* An output that is computed from sample t and those before it, of which c are
\* known.
NewestFirst(o, n, t, c) ==
  o \in [1 .. n -> Int] /\ \A j \in 1 .. n : j <= c => o[j] = t - j + 1

LEMMA FilteredSample ==
  ASSUME NEW n \in Nat \ {0}, NEW f \in FiltersOf(n), NEW x \in Int
  PROVE  /\ FilterSample(f, x).filter \in FiltersOf(n)
         /\ FilterSample(f, x).output \in [1 .. n -> Int]
  <1>1. PICK b \in Reverses(n) : f = [kernelSize |-> n, stored |-> b] /\ f.stored = b
    BY DEF FiltersOf
  <1> DEFINE s == ReversePush(b, x)
             g == [f EXCEPT !.stored = s]
  <1>2. s \in Reverses(n)
    BY ReversePushed
  <1>3. FilterSample(f, x) = [filter |-> g, output |-> ReverseWindow(s)]
    BY <1>1 DEF FilterSample, ReverseWindow
  <1> HIDE DEF s
  <1>4. g = [kernelSize |-> n, stored |-> s]
    BY <1>1
  <1>5. g \in FiltersOf(n)
    BY <1>2, <1>4 DEF FiltersOf
  <1> HIDE DEF g
  <1>6. ReverseWindow(s) \in [1 .. n -> Int]
    BY <1>2, ReverseWindowOf
  <1> QED
    BY <1>3, <1>5, <1>6

LEMMA FilteredNewest ==
  ASSUME NEW n \in Nat \ {0}, NEW f \in FiltersOf(n), NEW t \in Int, NEW c \in Int,
         Newest(f.stored, n, t, c)
  PROVE  /\ Newest(FilterSample(f, t + 1).filter.stored, n, t + 1, c + 1)
         /\ NewestFirst(FilterSample(f, t + 1).output, n, t + 1, c + 1)
  <1>1. PICK b \in Reverses(n) : f = [kernelSize |-> n, stored |-> b] /\ f.stored = b
    BY DEF FiltersOf
  <1> DEFINE s == ReversePush(b, t + 1)
             g == [f EXCEPT !.stored = s]
  <1>2. Newest(s, n, t + 1, c + 1)
    BY <1>1, NewestPushed
  <1>3. FilterSample(f, t + 1) = [filter |-> g, output |-> ReverseWindow(s)]
    BY <1>1 DEF FilterSample, ReverseWindow
  <1> HIDE DEF s
  <1>4. g.stored = s
    BY <1>1
  <1> HIDE DEF g
  <1>5. FilterSample(f, t + 1).filter.stored = s /\ FilterSample(f, t + 1).output = ReverseWindow(s)
    BY <1>3, <1>4
  <1>6. s \in Reverses(n) /\ \A j \in 1 .. n : j <= c + 1 => ReverseWindow(s)[j] = (t + 1) - j + 1
    BY <1>2 DEF Newest
  <1>7. ReverseWindow(s) \in [1 .. n -> Int]
    BY <1>6, ReverseWindowOf
  <1>8. NewestFirst(ReverseWindow(s), n, t + 1, c + 1)
    BY <1>6, <1>7 DEF NewestFirst
  <1> QED
    BY <1>2, <1>5, <1>8

\* The filter and the outputs after the first k of the samples.
PrefixSteps(n) == [filter : FiltersOf(n), outputs : Seq([1 .. n -> Int])]

Filtered(p, n, t, c, k) ==
  /\ Newest(p.filter.stored, n, t + k, c + k)
  /\ Len(p.outputs) = k
  /\ \A l \in 1 .. k : NewestFirst(p.outputs[l], n, t + l, c + l)

PrefixStep(p, x) ==
  [filter |-> FilterSample(p.filter, x).filter,
   outputs |-> Append(p.outputs, FilterSample(p.filter, x).output)]

LEMMA PrefixStepType ==
  ASSUME NEW n \in Nat \ {0}, NEW p \in PrefixSteps(n), NEW x \in Int
  PROVE  PrefixStep(p, x) \in PrefixSteps(n)
  <1>1. PICK f \in FiltersOf(n), o \in Seq([1 .. n -> Int]) : f = p.filter /\ o = p.outputs
    BY DEF PrefixSteps
  <1> DEFINE g == FilterSample(p.filter, x).filter
             y == FilterSample(p.filter, x).output
  <1>2. g \in FiltersOf(n) /\ y \in [1 .. n -> Int]
    BY <1>1, FilteredSample
  <1> HIDE DEF g, y
  <1>3. Append(o, y) \in Seq([1 .. n -> Int])
    BY <1>2, AppendProperties
  <1>4. PrefixStep(p, x) = [filter |-> g, outputs |-> Append(o, y)]
    BY <1>1 DEF PrefixStep, g, y
  <1> QED
    BY <1>2, <1>3, <1>4 DEF PrefixSteps

LEMMA PrefixStepOutputs ==
  ASSUME NEW n \in Nat \ {0}, NEW p \in PrefixSteps(n), NEW t \in Int, NEW c \in Int,
         NEW k \in Nat, Filtered(p, n, t, c, k)
  PROVE  Filtered(PrefixStep(p, t + (k + 1)), n, t, c, k + 1)
  <1>1. PICK f \in FiltersOf(n), o \in Seq([1 .. n -> Int]) : f = p.filter /\ o = p.outputs
    BY DEF PrefixSteps
  <1>2. /\ Newest(f.stored, n, t + k, c + k) /\ Len(o) = k
        /\ \A l \in 1 .. k : NewestFirst(o[l], n, t + l, c + l)
    BY <1>1 DEF Filtered
  <1>3. PICK a \in Int, z \in Int : a = t + k /\ z = c + k
    OBVIOUS
  <1>4. a + 1 = t + (k + 1) /\ z + 1 = c + (k + 1)
    BY <1>3
  <1> DEFINE g == FilterSample(f, a + 1).filter
             y == FilterSample(f, a + 1).output
             q == PrefixStep(p, t + (k + 1))
  <1>5. Newest(g.stored, n, a + 1, z + 1)
    BY <1>2, <1>3, FilteredNewest
  <1>6. NewestFirst(y, n, a + 1, z + 1)
    BY <1>2, <1>3, FilteredNewest
  <1>7. q = [filter |-> g, outputs |-> Append(o, y)]
    BY <1>1, <1>4 DEF PrefixStep
  <1> HIDE DEF g, y, q
  <1>8. y \in [1 .. n -> Int]
    BY <1>6 DEF NewestFirst
  <1>9. /\ Len(Append(o, y)) = k + 1 /\ Append(o, y)[k + 1] = y
        /\ \A l \in 1 .. k : Append(o, y)[l] = o[l]
    BY <1>2, <1>8, AppendProperties
  <1>10. ASSUME NEW l \in 1 .. k + 1 PROVE NewestFirst(Append(o, y)[l], n, t + l, c + l)
    <2>1. CASE l = k + 1
      BY <1>4, <1>6, <1>9, <2>1
    <2>2. CASE l # k + 1
      <3>1. l \in 1 .. k
        BY <2>2
      <3> QED
        BY <1>2, <1>9, <3>1
    <2> QED
      BY <2>1, <2>2
  <1>11. q.filter = g /\ q.outputs = Append(o, y)
    BY <1>7
  <1>12. Filtered(q, n, t, c, k + 1)
    BY <1>4, <1>5, <1>9, <1>10, <1>11 DEF Filtered
  <1> QED
    BY <1>12 DEF q

LEMMA PrefixRun ==
  ASSUME NEW n \in Nat \ {0}, NEW f \in FiltersOf(n), NEW t \in Int, NEW c \in Int,
         Newest(f.stored, n, t, c), NEW N \in Nat, NEW m \in Nat, N <= m,
         NEW x, Counts(x, m, t)
  PROVE  /\ Prefix(f, x, N) \in PrefixSteps(n)
         /\ Filtered(Prefix(f, x, N), n, t, c, N)
  <1>0. \A k \in 1 .. N : x[k] = t + k
    BY DEF Counts
  <1> DEFINE b == [filter |-> f, outputs |-> <<>>]
             seq == [k \in 1 .. N |-> k]
             S == PrefixSteps(n)
             Solves(it) == it = [s \in SUBSET DOMAIN seq |->
                                  IF s = {} THEN b
                                  ELSE LET y == Max(s) IN PrefixStep(it[s \ {y}], x[seq[y]])]
             g == [q \in S \X (1 .. N) |-> PrefixStep(q[1], t + q[2])]
             I == [k \in 0 .. N |-> {q \in S : Filtered(q, n, t, c, k)}]
             i == CHOOSE it : Solves(it)
  <1>1. Prefix(f, x, N) = i[DOMAIN seq]
    BY Zenon DEF Prefix, FoldLeft, MapThenFoldSet, PrefixStep
  <1>7. DOMAIN seq = 1 .. N /\ \A k \in 1 .. N : x[seq[k]] = t + k
    BY <1>0
  <1>8. b \in S
    BY DEF PrefixSteps
  <1>18. b \in I[0]
    <2>1. b.filter = f /\ Len(b.outputs) = 0 /\ t + 0 = t /\ c + 0 = c
      OBVIOUS
    <2>2. Filtered(b, n, t, c, 0)
      BY <2>1 DEF Filtered
    <2> QED
      BY <1>8, <2>2
  <1> HIDE DEF seq, b
  <1>9. \A q \in S : \A k \in 1 .. N : PrefixStep(q, t + k) \in S
    BY PrefixStepType
  <1> HIDE DEF S
  <1>11. g \in [S \X (1 .. N) -> S] /\ \A q \in S : \A k \in 1 .. N : g[<<q, k>>] = PrefixStep(q, t + k)
    BY <1>9
  <1> HIDE DEF g
  <1>12. PICK h \in [SUBSET (1 .. N) -> S] : FoldOf(h, b, N, g)
    BY <1>8, <1>11, FoldExists
  <1>13. \A s \in SUBSET (1 .. N) : s # {} => Max(s) \in 1 .. N
    BY GreatestOfSome
  <1>14. Solves(h)
    <2>1. ASSUME NEW s \in SUBSET (1 .. N), s # {}
          PROVE  g[<<h[s \ {Max(s)}], Max(s)>>] = PrefixStep(h[s \ {Max(s)}], x[seq[Max(s)]])
      <3>1. Max(s) \in 1 .. N
        BY <1>13, <2>1
      <3>2. h[s \ {Max(s)}] \in S
        OBVIOUS
      <3> QED
        BY <1>7, <1>11, <3>1, <3>2
    <2> QED
      BY <1>7, <1>12, <2>1 DEF FoldOf
  <1>15. Solves(i)
    BY <1>14
  <1> HIDE DEF i
  <1>16. i[{}] = b
    BY <1>7, <1>15
  <1>17. FoldedWith(i, b, N, g, S)
    <2>1. ASSUME NEW s \in SUBSET (1 .. N), s # {}, i[s \ {Max(s)}] \in S
          PROVE  i[s] = g[<<i[s \ {Max(s)}], Max(s)>>]
      <3>1. Max(s) \in 1 .. N
        BY <1>13, <2>1
      <3>2. i[s] = PrefixStep(i[s \ {Max(s)}], x[seq[Max(s)]])
        BY <1>7, <1>15, <2>1
      <3>3. x[seq[Max(s)]] = t + Max(s)
        BY <1>7, <3>1
      <3>4. g[<<i[s \ {Max(s)}], Max(s)>>] = PrefixStep(i[s \ {Max(s)}], t + Max(s))
        BY <1>11, <2>1, <3>1
      <3> QED
        BY <3>2, <3>3, <3>4
    <2> HIDE DEF Solves
    <2> QED
      BY <1>16, <2>1 DEF FoldedWith
  <1> HIDE DEF Solves
  <1>19. LeadsThrough(g, I, N, S)
    <2> SUFFICES ASSUME NEW k \in 1 .. N, NEW q \in S, q \in I[k - 1]
                 PROVE  g[<<q, k>>] \in I[k]
      BY DEF LeadsThrough
    <2>1. PICK l \in Nat : l = k - 1 /\ l + 1 = k
      OBVIOUS
    <2>2. Filtered(q, n, t, c, l)
      BY <2>1
    <2>3. q \in PrefixSteps(n)
      BY DEF S
    <2>4. Filtered(PrefixStep(q, t + (l + 1)), n, t, c, l + 1)
      BY <2>2, <2>3, PrefixStepOutputs
    <2>5. PrefixStep(q, t + k) \in S
      BY <1>9
    <2> QED
      BY <1>11, <2>1, <2>4, <2>5
  <1>20. i[1 .. N] \in S /\ i[1 .. N] \in I[N]
    <2> HIDE DEF I
    <2> QED
      BY <1>8, <1>11, <1>17, <1>18, <1>19, FoldWithin
  <1> QED
    BY <1>1, <1>7, <1>20 DEF S

\* The outputs for N samples.
IsFiltered(q, n, t, c, N) ==
  /\ q.filter \in FiltersOf(n) /\ Newest(q.filter.stored, n, t + N, c + N)
  /\ Len(q.outputs) = N /\ DOMAIN q.outputs = 1 .. N
  /\ \A l \in 1 .. N : NewestFirst(q.outputs[l], n, t + l, c + l)

LEMMA DotFlipIs ==
  ASSUME NEW n \in Nat \ {0}, NEW f \in FiltersOf(n), NEW t \in Int, NEW c,
         NEW m \in Nat, NEW x, Counts(x, m, t), NEW k \in n .. m
  PROVE  NewestFirst(DotFlip(f, x, k), n, t + k, c)
  <1>0. x \in [1 .. m -> Int] /\ \A i \in 1 .. m : x[i] = t + i
    BY DEF Counts
  <1>1. f.kernelSize = n
    BY DEF FiltersOf
  <1> DEFINE y == MemoryAt(f, x, k)
  <1>2. DOMAIN x = 1 .. m
    BY <1>0
  <1>3. PICK V : V = {y[i] : i \in 1 .. m}
    OBVIOUS
  <1>4. y \in [1 .. m -> V]
    BY <1>2, <1>3 DEF MemoryAt
  <1>b. \A i \in 1 .. k : y[i] = t + i
    <2>1. ASSUME NEW i \in 1 .. k PROVE y[i] = t + i
      <3>1. i \in 1 .. m /\ ~ (i > k)
        OBVIOUS
      <3> QED
        BY <1>0, <1>2, <3>1 DEF MemoryAt
    <2> QED
      BY <2>1
  <1> HIDE DEF y
  <1>5. y \in Seq(V) /\ Len(y) = m
    BY <1>4, FunctionIsSeq
  <1>6. PICK a \in Nat : a = k - n /\ a + n = k /\ k - n + 1 = a + 1
    <2>1. k - n \in Nat /\ (k - n) + n = k /\ k - n + 1 = (k - n) + 1
      OBVIOUS
    <2> QED
      BY <2>1
  <1> DEFINE s == SubSeq(y, a + 1, a + n)
  <1>7. a + 1 \in 1 .. Len(y) + 1 /\ a + n \in Nat /\ a + n <= Len(y)
    BY <1>5, <1>6
  <1>8. \A i \in a + 1 .. a + n : y[i] \in V
    BY <1>5, <1>7, ElementOfSeq
  <1>9. s \in Seq(V)
    BY <1>5, <1>7, <1>8, SubSeqProperties
  <1>10. Len(s) = IF a + 1 <= a + n THEN (a + n) - (a + 1) + 1 ELSE 0
    BY <1>5, <1>7, SubSeqProperties
  <1>11. \A i \in 1 .. Len(s) : s[i] = y[(a + 1) + i - 1]
    <2> PICK j, l : j = a + 1 /\ l = a + n
      OBVIOUS
    <2>1. s = SubSeq(y, j, l) /\ j \in 1 .. Len(y) + 1 /\ l \in Nat /\ l <= Len(y)
      BY <1>7
    <2> HIDE DEF s
    <2> QED
      BY <1>5, <2>1, SubSeqProperties
  <1> HIDE DEF s
  <1>12. Len(s) = n
    BY <1>10
  <1>13. DotFlip(f, x, k) = [i \in 1 .. n |-> s[(n - i) + 1]]
    <2>1. DotFlip(f, x, k) = Reverse(s)
      BY <1>1, <1>6 DEF DotFlip, y, s
    <2> QED
      BY <1>12, <2>1 DEF Reverse
  <1>14. ASSUME NEW j \in 1 .. n PROVE s[(n - j) + 1] = (t + k) - j + 1
    <2>1. PICK i \in 1 .. n : i = (n - j) + 1
      OBVIOUS
    <2>2. s[i] = y[(a + 1) + i - 1]
      BY <1>11, <1>12
    <2>3. (a + 1) + i - 1 = a + i /\ a + i \in 1 .. k /\ t + (a + i) = (t + k) - j + 1
      BY <1>6, <2>1
    <2> QED
      BY <1>b, <2>1, <2>2, <2>3
  <1>15. \A j \in 1 .. n : (t + k) - j + 1 \in Int
    OBVIOUS
  <1>16. DotFlip(f, x, k) \in [1 .. n -> Int]
    BY <1>13, <1>14, <1>15
  <1>17. \A j \in 1 .. n : DotFlip(f, x, k)[j] = (t + k) - j + 1
    BY <1>13, <1>14
  <1> QED
    BY <1>16, <1>17 DEF NewestFirst

LEMMA FilteredBatch ==
  ASSUME NEW n \in Nat \ {0}, NEW f \in FiltersOf(n), NEW t \in Int, NEW c \in Int,
         Newest(f.stored, n, t, c), NEW m \in Nat, NEW x, Counts(x, m, t)
  PROVE  IsFiltered(FilterBatch(f, x), n, t, c, m)
  <1>0. x \in [1 .. m -> Int] /\ \A i \in 1 .. m : x[i] = t + i
    BY DEF Counts
  <1>1. x \in Seq(Int) /\ Len(x) = m
    BY <1>0, FunctionIsSeq
  <1>2. f.kernelSize = n
    BY DEF FiltersOf
  <1>3. CASE m < 4 * n
    <2> DEFINE p == Prefix(f, x, m)
    <2>1. FilterBatch(f, x) = p
      BY <1>1, <1>2, <1>3, Zenon DEF FilterBatch
    <2>2. p \in PrefixSteps(n)
      BY PrefixRun
    <2>3. Filtered(p, n, t, c, m)
      BY PrefixRun
    <2> HIDE DEF p
    <2>4. p.filter \in FiltersOf(n) /\ p.outputs \in Seq([1 .. n -> Int])
      BY <2>2 DEF PrefixSteps
    <2>5. /\ Newest(p.filter.stored, n, t + m, c + m) /\ Len(p.outputs) = m
          /\ \A l \in 1 .. m : NewestFirst(p.outputs[l], n, t + l, c + l)
      BY <2>3 DEF Filtered
    <2>6. DOMAIN p.outputs = 1 .. m
      BY <2>4, <2>5, SeqIsFunction
    <2>7. IsFiltered(p, n, t, c, m)
      BY <2>4, <2>5, <2>6 DEF IsFiltered
    <2> QED
      BY <2>1, <2>7
  <1>4. CASE ~ (m < 4 * n)
    <2>1. PICK N \in Nat : N = n + 1
      OBVIOUS
    <2>2. PICK z \in Nat : z = m - N
      <3>1. m - N \in Nat
        BY <1>4, <2>1
      <3> QED
        BY <3>1
    <2>3. N <= m /\ z >= n /\ N + z = m
      BY <1>4, <2>1, <2>2
    <2> DEFINE p == Prefix(f, x, N)
               e == SubSeq(x, N + 1, m)
               s == ReversePushMultiple(p.filter.stored, e)
               rest == [k \in 1 .. z |-> DotFlip(f, x, k + N)]
               g == [p.filter EXCEPT !.stored = s]
               q == FilterBatch(f, x)
    <2>4. q = [filter |-> g, outputs |-> p.outputs \o rest]
      <3>1. ~ (Len(x) < 4 * f.kernelSize) /\ f.kernelSize + 1 = N /\ Len(x) - N = z /\ Len(x) = m
        BY <1>1, <1>2, <1>4, <2>1, <2>2
      <3> QED
        BY <3>1, Zenon DEF FilterBatch
    <2>5. p \in PrefixSteps(n)
      BY <2>3, PrefixRun
    <2>6. Filtered(p, n, t, c, N)
      BY <2>3, PrefixRun
    <2> HIDE DEF p
    <2>7. p.filter \in FiltersOf(n) /\ p.outputs \in Seq([1 .. n -> Int])
      BY <2>5 DEF PrefixSteps
    <2>8. /\ Len(p.outputs) = N
          /\ \A l \in 1 .. N : NewestFirst(p.outputs[l], n, t + l, c + l)
      BY <2>6 DEF Filtered
    <2>9. PICK b \in Reverses(n) : p.filter = [kernelSize |-> n, stored |-> b] /\ p.filter.stored = b
      BY <2>7 DEF FiltersOf
    <2>10. Counts(e, z, t + N)
      <3>1. \A i \in N + 1 .. m : x[i] \in Int
        BY <1>0
      <3>2. N + 1 \in Int /\ m \in Int
        OBVIOUS
      <3>3. e \in Seq(Int)
        BY <3>1, <3>2, SubSeqProperties
      <3>4. Len(e) = z
        <4>1. Len(e) = IF N + 1 <= m THEN m - (N + 1) + 1 ELSE 0
          BY <3>1, <3>2, SubSeqProperties
        <4> QED
          BY <2>2, <2>3, <4>1
      <3>5. ASSUME NEW i \in 1 .. z PROVE e[i] = (t + N) + i
        <4>1. \A k \in 1 .. m - (N + 1) + 1 : e[k] = x[(N + 1) + k - 1]
          BY <3>1, <3>2, SubSeqProperties
        <4>2. i \in 1 .. m - (N + 1) + 1 /\ (N + 1) + i - 1 = N + i /\ N + i \in 1 .. m
          BY <2>2, <2>3
        <4>3. e[i] = x[N + i]
          BY <4>1, <4>2
        <4>4. t + (N + i) = (t + N) + i
          OBVIOUS
        <4> HIDE DEF e
        <4> QED
          BY <1>0, <4>2, <4>3, <4>4
      <3> HIDE DEF e
      <3>6. e \in [1 .. z -> Int]
        BY <3>3, <3>4, SeqIsFunction
      <3> QED
        BY <3>5, <3>6 DEF Counts
    <2> HIDE DEF e
    <2>11. Newest(s, n, t + m, c + m)
      <3>1. PICK y \in Int, w \in Int : y = t + N /\ w = c + m
        OBVIOUS
      <3>2. Newest(ReversePushMultiple(b, e), n, y + z, w)
        BY <2>3, <2>10, <3>1, PushedInReverse
      <3>3. y + z = t + m
        BY <2>3, <3>1
      <3> QED
        BY <2>9, <3>1, <3>2, <3>3
    <2> HIDE DEF s
    <2>12. g = [kernelSize |-> n, stored |-> s]
      BY <2>9
    <2> HIDE DEF g
    <2>13. s \in Reverses(n)
      BY <2>11 DEF Newest
    <2>14. g \in FiltersOf(n) /\ g.stored = s
      BY <2>12, <2>13 DEF FiltersOf
    <2>15. ASSUME NEW k \in 1 .. z PROVE NewestFirst(DotFlip(f, x, k + N), n, t + (k + N), c + (k + N))
      <3>1. k + N \in n .. m
        BY <2>1, <2>3
      <3> QED
        BY <3>1, DotFlipIs
    <2>16. rest \in [1 .. z -> [1 .. n -> Int]] /\ \A k \in 1 .. z : rest[k] = DotFlip(f, x, k + N)
      BY <2>15 DEF NewestFirst
    <2> HIDE DEF rest
    <2>17. p.outputs \in [1 .. N -> [1 .. n -> Int]]
      BY <2>7, <2>8, SeqIsFunction
    <2>18. PICK o : o = p.outputs
      OBVIOUS
    <2>19. o \o rest \in [1 .. N + z -> [1 .. n -> Int]]
      BY <2>16, <2>17, <2>18, JoinedFunctions
    <2>25. /\ o \in Seq([1 .. n -> Int]) /\ Len(o) = N
           /\ rest \in Seq([1 .. n -> Int]) /\ Len(rest) = z
      BY <2>7, <2>8, <2>16, <2>18, FunctionIsSeq
    <2>20. ASSUME NEW j \in 1 .. N + z
           PROVE  (o \o rest)[j] = IF j <= N THEN o[j] ELSE rest[j - N]
      BY <2>25, ConcatProperties
    <2>21. /\ Len(o \o rest) = m /\ DOMAIN (o \o rest) = 1 .. m
      BY <2>3, <2>19, FunctionIsSeq
    <2>22. ASSUME NEW l \in 1 .. m PROVE NewestFirst((o \o rest)[l], n, t + l, c + l)
      <3>1. CASE l <= N
        <4>1. l \in 1 .. N /\ l \in 1 .. N + z
          BY <2>3, <3>1
        <4>2. (o \o rest)[l] = o[l]
          BY <2>20, <3>1, <4>1
        <4> QED
          BY <2>8, <2>18, <4>1, <4>2
      <3>2. CASE ~ (l <= N)
        <4>1. PICK k \in 1 .. z : k = l - N /\ k + N = l
          <5>1. l - N \in 1 .. z /\ (l - N) + N = l
            BY <2>3, <3>2
          <5> QED
            BY <5>1
        <4>2. l \in 1 .. N + z
          BY <2>3
        <4>3. (o \o rest)[l] = rest[k]
          BY <2>20, <3>2, <4>1, <4>2
        <4> QED
          BY <2>15, <2>16, <4>1, <4>3
      <3> QED
        BY <3>1, <3>2
    <2> HIDE DEF q
    <2>23. q.filter = g /\ q.outputs = o \o rest
      BY <2>4, <2>18
    <2>24. IsFiltered(q, n, t, c, m)
      BY <2>11, <2>14, <2>21, <2>22, <2>23 DEF IsFiltered
    <2> QED
      BY <2>24 DEF q
  <1> QED
    BY <1>3, <1>4

--------------------------------------------------------------------------------
(* The interpolator.                                                        *)

LEMMA ComponentSizeType ==
  ASSUME NEW r \in Nat \ {0}
  PROVE  ComponentSize(r) \in Nat \ {0}
  <1>1. KernelSize(r) \in Nat /\ KernelSize(r) > r
    <2>1. PICK t \in Nat \ {0} : t = TapsPerRatio
      BY TapsAssumption
    <2>2. t * r \in Nat /\ t * r >= r
      <3>1. t * r = (t - 1) * r + r /\ (t - 1) * r \in Nat
        OBVIOUS
      <3> QED
        BY <3>1
    <2> QED
      BY <2>1, <2>2 DEF KernelSize
  <1>2. PICK k \in Nat : k = KernelSize(r) /\ k > r
    BY <1>1
  <1>3. PICK q \in Nat, m \in 0 .. r - 1 : k = r * q + m /\ k \div r = q /\ k % r = m
    BY <1>2, Division, Zenon
  <1>4. q # 0
    <2>1. q = 0 => r * q = 0
      OBVIOUS
    <2> QED
      BY <1>2, <1>3, <2>1
  <1> QED
    BY <1>2, <1>3, <1>4 DEF ComponentSize

\* The components after sample t, of which they know c, and the outputs.
PhasesOf(r, n) == [1 .. r -> FiltersOf(n)]

PhasesNewest(ps, r, n, t, c) == \A m \in 1 .. r : Newest(ps[m].stored, n, t, c)

Interpolations(r, n) == [phases : PhasesOf(r, n), outputs : Seq([1 .. n -> Int])]

Interpolated(p, r, n, t, c, k) ==
  /\ PhasesNewest(p.phases, r, n, t + k, c + k)
  /\ Len(p.outputs) = r * k
  /\ \A l \in 1 .. r * k :
       NewestFirst(p.outputs[l], n, t + ((l - 1) \div r + 1), c + ((l - 1) \div r + 1))

\* The outputs of all components for one sample.
OutputsOfPhases(p, r, x) == [m \in 1 .. r |-> FilterSample(p.phases[m], x).output]

PhasesAfter(p, r, x) == [m \in 1 .. r |-> FilterSample(p.phases[m], x).filter]

LEMMA InterpolateSampleIs ==
  ASSUME NEW r \in Nat \ {0}, NEW n \in Nat \ {0}, NEW p \in Interpolations(r, n),
         NEW x \in Int
  PROVE  /\ InterpolateSample(p, x) =
              [phases |-> PhasesAfter(p, r, x), outputs |-> p.outputs \o OutputsOfPhases(p, r, x)]
         /\ PhasesAfter(p, r, x) \in PhasesOf(r, n)
         /\ OutputsOfPhases(p, r, x) \in [1 .. r -> [1 .. n -> Int]]
         /\ InterpolateSample(p, x) \in Interpolations(r, n)
  <1>1. PICK ps \in PhasesOf(r, n), o \in Seq([1 .. n -> Int]) : ps = p.phases /\ o = p.outputs
    BY DEF Interpolations
  <1>2. \A m \in 1 .. r : ps[m] \in FiltersOf(n)
    BY DEF PhasesOf
  <1>3. DOMAIN ps = 1 .. r
    BY DEF PhasesOf
  <1> DEFINE steps == [m \in 1 .. r |-> FilterSample(p.phases[m], x)]
             a == PhasesAfter(p, r, x)
             y == OutputsOfPhases(p, r, x)
  <1>4. InterpolateSample(p, x) =
          [phases |-> [m \in DOMAIN steps |-> steps[m].filter],
           outputs |-> p.outputs \o [m \in DOMAIN steps |-> steps[m].output]]
    BY <1>1, <1>3 DEF InterpolateSample
  <1>5. [m \in DOMAIN steps |-> steps[m].filter] = a
    BY DEF PhasesAfter
  <1>6. [m \in DOMAIN steps |-> steps[m].output] = y
    BY DEF OutputsOfPhases
  <1> HIDE DEF steps
  <1>7. InterpolateSample(p, x) = [phases |-> a, outputs |-> p.outputs \o y]
    BY <1>4, <1>5, <1>6
  <1>8. a \in PhasesOf(r, n)
    <2>1. \A m \in 1 .. r : FilterSample(ps[m], x).filter \in FiltersOf(n)
      BY <1>2, FilteredSample
    <2> QED
      BY <1>1, <2>1 DEF PhasesAfter, PhasesOf
  <1>9. y \in [1 .. r -> [1 .. n -> Int]]
    <2>1. \A m \in 1 .. r : FilterSample(ps[m], x).output \in [1 .. n -> Int]
      BY <1>2, FilteredSample
    <2> QED
      BY <1>1, <2>1 DEF OutputsOfPhases
  <1> HIDE DEF a, y
  <1>10. o \o y \in Seq([1 .. n -> Int])
    <2>1. y \in Seq([1 .. n -> Int])
      BY <1>9, FunctionIsSeq
    <2> QED
      BY <2>1, ConcatProperties
  <1>11. InterpolateSample(p, x) \in Interpolations(r, n)
    BY <1>1, <1>7, <1>8, <1>10 DEF Interpolations
  <1> QED
    BY <1>7, <1>8, <1>9, <1>11 DEF a, y

LEMMA InterpolatedStep ==
  ASSUME NEW r \in Nat \ {0}, NEW n \in Nat \ {0}, NEW p \in Interpolations(r, n),
         NEW t \in Int, NEW c \in Int, NEW k \in Nat, Interpolated(p, r, n, t, c, k)
  PROVE  Interpolated(InterpolateSample(p, t + (k + 1)), r, n, t, c, k + 1)
  <1>1. PICK ps \in PhasesOf(r, n), o \in Seq([1 .. n -> Int]) : ps = p.phases /\ o = p.outputs
    BY DEF Interpolations
  <1>2. PICK z \in Nat : z = r * k
    OBVIOUS
  <1>3. /\ PhasesNewest(ps, r, n, t + k, c + k) /\ Len(o) = z
        /\ \A l \in 1 .. z :
             NewestFirst(o[l], n, t + ((l - 1) \div r + 1), c + ((l - 1) \div r + 1))
    BY <1>1, <1>2 DEF Interpolated
  <1>4. PICK a \in Int, b \in Int : a = t + k /\ b = c + k
    OBVIOUS
  <1>5. a + 1 = t + (k + 1) /\ b + 1 = c + (k + 1)
    BY <1>4
  <1> DEFINE x == t + (k + 1)
             pa == PhasesAfter(p, r, x)
             y == OutputsOfPhases(p, r, x)
             q == InterpolateSample(p, x)
  <1>6. ASSUME NEW m \in 1 .. r
        PROVE  /\ Newest(pa[m].stored, n, a + 1, b + 1)
               /\ NewestFirst(y[m], n, a + 1, b + 1)
    <2>1. PICK f \in FiltersOf(n) : f = p.phases[m]
      BY <1>1 DEF PhasesOf
    <2>2. Newest(f.stored, n, a, b)
      BY <1>1, <1>3, <1>4, <2>1 DEF PhasesNewest
    <2>3. /\ Newest(FilterSample(f, a + 1).filter.stored, n, a + 1, b + 1)
          /\ NewestFirst(FilterSample(f, a + 1).output, n, a + 1, b + 1)
      BY <2>2, FilteredNewest
    <2>4. pa[m] = FilterSample(f, x).filter /\ y[m] = FilterSample(f, x).output
      BY <2>1 DEF PhasesAfter, OutputsOfPhases
    <2> QED
      BY <1>5, <2>3, <2>4
  <1>7. /\ q = [phases |-> pa, outputs |-> o \o y]
        /\ y \in [1 .. r -> [1 .. n -> Int]]
    <2>1. x \in Int
      OBVIOUS
    <2> HIDE DEF x
    <2> QED
      BY <1>1, <2>1, InterpolateSampleIs
  <1> HIDE DEF pa, y, q
  <1>8. q.phases = pa /\ q.outputs = o \o y
    BY <1>7
  <1>9. y \in Seq([1 .. n -> Int]) /\ Len(y) = r
    BY <1>7, FunctionIsSeq
  <1>10. /\ Len(o \o y) = z + r
         /\ \A l \in 1 .. z + r : (o \o y)[l] = IF l <= z THEN o[l] ELSE y[l - z]
    BY <1>3, <1>9, ConcatProperties
  <1>11. r * (k + 1) = z + r
    BY <1>2
  <1>12. ASSUME NEW l \in 1 .. z + r
         PROVE  NewestFirst((o \o y)[l], n, t + ((l - 1) \div r + 1), c + ((l - 1) \div r + 1))
    <2>1. CASE l <= z
      <3>1. l \in 1 .. z /\ (o \o y)[l] = o[l]
        BY <1>10, <2>1
      <3> QED
        BY <1>3, <3>1
    <2>2. CASE ~ (l <= z)
      <3>1. PICK m \in 1 .. r : m = l - z
        BY <2>2
      <3>2. (o \o y)[l] = y[m]
        BY <1>10, <2>2, <3>1
      <3>3. (l - 1) \div r = k
        <4>1. PICK i \in 0 .. r - 1 : i = m - 1
          OBVIOUS
        <4>2. l - 1 = r * k + i
          BY <1>2, <3>1, <4>1
        <4>3. (r * k + i) \div r = k
          BY DivisionIs
        <4> QED
          BY <4>2, <4>3, Zenon
      <3> QED
        BY <1>5, <1>6, <3>2, <3>3
    <2> QED
      BY <2>1, <2>2
  <1>13. PhasesNewest(pa, r, n, t + (k + 1), c + (k + 1))
    BY <1>5, <1>6 DEF PhasesNewest
  <1>14. Interpolated(q, r, n, t, c, k + 1)
    BY <1>8, <1>10, <1>11, <1>12, <1>13 DEF Interpolated
  <1> QED
    BY <1>14 DEF q

LEMMA InterpolateRun ==
  ASSUME NEW r \in Nat \ {0}, r # 1, NEW n \in Nat \ {0}, NEW ps \in PhasesOf(r, n),
         NEW t \in Int, NEW c \in Int, PhasesNewest(ps, r, n, t, c),
         NEW N \in Nat, NEW x, Counts(x, N, t)
  PROVE  /\ Interpolate(ps, x) \in Interpolations(r, n)
         /\ Interpolated(Interpolate(ps, x), r, n, t, c, N)
  <1>0. x \in [1 .. N -> Int] /\ DOMAIN x = 1 .. N /\ \A k \in 1 .. N : x[k] = t + k
    BY DEF Counts
  <1> DEFINE b == [phases |-> ps, outputs |-> <<>>]
             S == Interpolations(r, n)
             Solves(it) == it = [s \in SUBSET DOMAIN x |->
                                  IF s = {} THEN b
                                  ELSE LET y == Max(s) IN InterpolateSample(it[s \ {y}], x[y])]
             g == [q \in S \X (1 .. N) |-> InterpolateSample(q[1], t + q[2])]
             I == [k \in 0 .. N |-> {q \in S : Interpolated(q, r, n, t, c, k)}]
             i == CHOOSE it : Solves(it)
  <1>1. Interpolate(ps, x) = i[DOMAIN x]
    <2>1. Len(ps) = r
      BY FunctionIsSeq DEF PhasesOf
    <2>2. Len(ps) # 1
      BY <2>1
    <2> QED
      BY <2>2, Zenon DEF Interpolate, FoldLeft, MapThenFoldSet
  <1>8. b \in S
    BY DEF Interpolations
  <1>18. b \in I[0]
    <2>1. b.phases = ps /\ Len(b.outputs) = 0 /\ t + 0 = t /\ c + 0 = c /\ r * 0 = 0
      OBVIOUS
    <2>2. Interpolated(b, r, n, t, c, 0)
      <3>1. \A l \in 1 .. 0 : FALSE
        OBVIOUS
      <3> HIDE DEF b
      <3> QED
        BY <2>1, <3>1 DEF Interpolated
    <2> QED
      BY <1>8, <2>2
  <1> HIDE DEF b
  <1>9. \A q \in S : \A k \in 1 .. N : InterpolateSample(q, t + k) \in S
    <2>1. ASSUME NEW q \in S, NEW k \in 1 .. N PROVE InterpolateSample(q, t + k) \in S
      <3>1. t + k \in Int
        OBVIOUS
      <3> QED
        BY <3>1, InterpolateSampleIs
    <2> QED
      BY <2>1
  <1> HIDE DEF S
  <1>11. g \in [S \X (1 .. N) -> S] /\ \A q \in S : \A k \in 1 .. N : g[<<q, k>>] = InterpolateSample(q, t + k)
    BY <1>9
  <1> HIDE DEF g
  <1>12. PICK h \in [SUBSET (1 .. N) -> S] : FoldOf(h, b, N, g)
    BY <1>8, <1>11, FoldExists
  <1>13. \A s \in SUBSET (1 .. N) : s # {} => Max(s) \in 1 .. N
    BY GreatestOfSome
  <1>14. Solves(h)
    <2>1. ASSUME NEW s \in SUBSET (1 .. N), s # {}
          PROVE  g[<<h[s \ {Max(s)}], Max(s)>>] = InterpolateSample(h[s \ {Max(s)}], x[Max(s)])
      <3>1. Max(s) \in 1 .. N
        BY <1>13, <2>1
      <3>2. h[s \ {Max(s)}] \in S
        OBVIOUS
      <3> QED
        BY <1>0, <1>11, <3>1, <3>2
    <2> QED
      BY <1>0, <1>12, <2>1 DEF FoldOf
  <1>15. Solves(i)
    BY <1>14
  <1> HIDE DEF i
  <1>16. i[{}] = b
    BY <1>0, <1>15
  <1>17. FoldedWith(i, b, N, g, S)
    <2>1. ASSUME NEW s \in SUBSET (1 .. N), s # {}, i[s \ {Max(s)}] \in S
          PROVE  i[s] = g[<<i[s \ {Max(s)}], Max(s)>>]
      <3>1. Max(s) \in 1 .. N
        BY <1>13, <2>1
      <3>2. i[s] = InterpolateSample(i[s \ {Max(s)}], x[Max(s)])
        BY <1>0, <1>15, <2>1
      <3>3. x[Max(s)] = t + Max(s)
        BY <1>0, <3>1
      <3>4. g[<<i[s \ {Max(s)}], Max(s)>>] = InterpolateSample(i[s \ {Max(s)}], t + Max(s))
        BY <1>11, <2>1, <3>1
      <3> QED
        BY <3>2, <3>3, <3>4
    <2> HIDE DEF Solves
    <2> QED
      BY <1>16, <2>1 DEF FoldedWith
  <1> HIDE DEF Solves
  <1>19. LeadsThrough(g, I, N, S)
    <2> SUFFICES ASSUME NEW k \in 1 .. N, NEW q \in S, q \in I[k - 1]
                 PROVE  g[<<q, k>>] \in I[k]
      BY DEF LeadsThrough
    <2>1. PICK l \in Nat : l = k - 1 /\ l + 1 = k
      OBVIOUS
    <2>2. Interpolated(q, r, n, t, c, l)
      BY <2>1
    <2>3. q \in Interpolations(r, n)
      BY DEF S
    <2>4. Interpolated(InterpolateSample(q, t + (l + 1)), r, n, t, c, l + 1)
      BY <2>2, <2>3, InterpolatedStep
    <2>5. InterpolateSample(q, t + k) \in S
      BY <1>9
    <2> QED
      BY <1>11, <2>1, <2>4, <2>5
  <1>20. i[1 .. N] \in S /\ i[1 .. N] \in I[N]
    <2> HIDE DEF I
    <2> QED
      BY <1>8, <1>11, <1>17, <1>18, <1>19, FoldWithin
  <1> QED
    BY <1>0, <1>1, <1>20 DEF S

--------------------------------------------------------------------------------
(* The latest samples, in an output and in a window.                        *)

LEMMA LatestOfNewest ==
  ASSUME NEW n \in Nat, NEW o, NEW t \in Int, NEW c \in Int, NewestFirst(o, n, t, c)
  PROVE  LatestIn(Reverse(o), t, c)
  <1>1. o \in [1 .. n -> Int] /\ \A j \in 1 .. n : j <= c => o[j] = t - j + 1
    BY DEF NewestFirst
  <1>2. Len(o) = n
    BY <1>1, FunctionIsSeq
  <1> DEFINE w == Reverse(o)
  <1>3. w = [j \in 1 .. n |-> o[(n - j) + 1]]
    BY <1>2 DEF Reverse
  <1>4. \A j \in 1 .. n : w[j] = o[(n - j) + 1]
    BY <1>3
  <1>5. w \in [1 .. n -> Int]
    BY <1>1, <1>3
  <1> HIDE DEF w
  <1>6. Len(w) = n
    BY <1>5, FunctionIsSeq
  <1>7. PICK known \in Int : known = IF c < n THEN c ELSE n
    OBVIOUS
  <1>8. ASSUME NEW i \in 0 .. known - 1 PROVE w[n - i] = t - i
    <2>1. PICK j \in 1 .. n : j = i + 1
      BY <1>7
    <2>2. n - i \in 1 .. n /\ (n - (n - i)) + 1 = j /\ j <= c /\ t - j + 1 = t - i
      BY <1>7, <2>1
    <2> QED
      BY <1>1, <1>4, <2>2
  <1>9. LatestIn(w, t, c)
    BY <1>6, <1>7, <1>8 DEF LatestIn
  <1> QED
    BY <1>9 DEF w

\* The samples of a stage which numbers them, behind what it had.
LEMMA LatestAfter ==
  ASSUME NEW k \in Nat, NEW w \in [1 .. k -> Int], NEW t \in Int, NEW c \in Int,
         LatestIn(w, t, c), NEW n \in Nat, NEW x, Counts(x, n, t), NEW i \in 0 .. n
  PROVE  LatestIn(After(w, x, i), t + i, c + i)
  <1>0. x \in [1 .. n -> Int] /\ \A j \in 1 .. n : x[j] = t + j
    BY DEF Counts
  <1>1. Len(w) = k
    BY FunctionIsSeq
  <1>2. \A j \in 0 .. (IF c < k THEN c ELSE k) - 1 : w[k - j] = t - j
    BY <1>1 DEF LatestIn
  <1> DEFINE v == After(w, x, i)
  <1>3. v \in [1 .. k -> Int]
    BY <1>0, AfterType
  <1>4. \A j \in 1 .. k : v[j] = IF i - k + j > 0 THEN x[i - k + j] ELSE w[i + j]
    BY <1>0, AfterType
  <1> HIDE DEF v
  <1>5. Len(v) = k
    BY <1>3, FunctionIsSeq
  <1>6. PICK known \in Int : known = IF c + i < k THEN c + i ELSE k
    OBVIOUS
  <1>7. ASSUME NEW j \in 0 .. known - 1 PROVE v[k - j] = (t + i) - j
    <2>1. k - j \in 1 .. k /\ i - k + (k - j) = i - j /\ i + (k - j) = k - (j - i)
      BY <1>6
    <2>2. v[k - j] = IF i - j > 0 THEN x[i - j] ELSE w[k - (j - i)]
      BY <1>4, <2>1
    <2>3. CASE i - j > 0
      <3>1. i - j \in 1 .. n /\ t + (i - j) = (t + i) - j
        BY <2>3
      <3> QED
        BY <1>0, <2>2, <2>3, <3>1
    <2>4. CASE ~ (i - j > 0)
      <3>1. j - i \in 0 .. (IF c < k THEN c ELSE k) - 1 /\ t - (j - i) = (t + i) - j
        BY <1>6, <2>4
      <3> QED
        BY <1>2, <2>2, <2>4, <3>1
    <2> QED
      BY <2>3, <2>4
  <1>8. LatestIn(v, t + i, c + i)
    BY <1>5, <1>6, <1>7 DEF LatestIn
  <1> QED
    BY <1>8 DEF v

LEMMA LatestOfOne ==
  ASSUME NEW t \in Int, NEW c \in Int
  PROVE  LatestIn(<<t>>, t, c)
  BY DEF LatestIn

LEMMA LatestOfNone ==
  ASSUME NEW k \in Nat, NEW w \in [1 .. k -> Int], NEW t \in Int
  PROVE  LatestIn(w, t, 0)
  <1>1. Len(w) = k
    BY FunctionIsSeq
  <1>2. (IF 0 < k THEN 0 ELSE k) = 0
    OBVIOUS
  <1> QED
    BY <1>1, <1>2 DEF LatestIn

--------------------------------------------------------------------------------
(* The stages after sample t, of which they know the latest c.              *)

KnownPhases(ps, r, t, c) ==
  /\ ps \in PhasesOf(r, ComponentSize(r))
  /\ r # 1 => PhasesNewest(ps, r, ComponentSize(r), t, c)

IsInterpolated(q, r, t, c, n) ==
  /\ KnownPhases(q.phases, r, t + n, c + n)
  /\ Len(q.outputs) = r * n /\ DOMAIN q.outputs = 1 .. r * n
  /\ \A l \in 1 .. r * n :
       LatestIn(Reverse(q.outputs[l]), t + ((l - 1) \div r + 1), c + ((l - 1) \div r + 1))

LEMMA InterpolatedBatch ==
  ASSUME NEW r \in Nat \ {0}, NEW ps, NEW t \in Int, NEW c \in Int,
         KnownPhases(ps, r, t, c), NEW N \in Nat, NEW x, Counts(x, N, t)
  PROVE  IsInterpolated(Interpolate(ps, x), r, t, c, N)
  <1>1. PICK n \in Nat \ {0} : n = ComponentSize(r)
    BY ComponentSizeType
  <1>2. ps \in PhasesOf(r, n) /\ (r # 1 => PhasesNewest(ps, r, n, t, c))
    BY <1>1 DEF KnownPhases
  <1>3. CASE r # 1
    <2> DEFINE q == Interpolate(ps, x)
    <2>1. q \in Interpolations(r, n)
      BY <1>2, <1>3, InterpolateRun
    <2>2. Interpolated(q, r, n, t, c, N)
      BY <1>2, <1>3, InterpolateRun
    <2> HIDE DEF q
    <2>3. PICK z \in Nat : z = r * N
      OBVIOUS
    <2>4. PICK a \in PhasesOf(r, n), o \in Seq([1 .. n -> Int]) : a = q.phases /\ o = q.outputs
      BY <2>1 DEF Interpolations
    <2>5. /\ PhasesNewest(a, r, n, t + N, c + N) /\ Len(o) = z
          /\ \A l \in 1 .. z :
               NewestFirst(o[l], n, t + ((l - 1) \div r + 1), c + ((l - 1) \div r + 1))
      BY <2>2, <2>3, <2>4 DEF Interpolated
    <2>6. ASSUME NEW l \in 1 .. z
          PROVE  LatestIn(Reverse(o[l]), t + ((l - 1) \div r + 1), c + ((l - 1) \div r + 1))
      <3>1. (l - 1) \div r + 1 \in Int
        <4>1. PICK m \in Nat : m = l - 1
          OBVIOUS
        <4>2. PICK p \in Nat : m \div r = p
          BY Division, Zenon
        <4> QED
          BY <4>1, <4>2
      <3>5. PICK h \in Int : h = (l - 1) \div r + 1
        BY <3>1
      <3>6. PICK v \in Int, y \in Int : v = t + h /\ y = c + h
        OBVIOUS
      <3>2. v = t + ((l - 1) \div r + 1) /\ y = c + ((l - 1) \div r + 1)
        BY <3>5, <3>6, Zenon
      <3>3. NewestFirst(o[l], n, v, y)
        BY <2>5, <3>2
      <3>4. LatestIn(Reverse(o[l]), v, y)
        BY <3>3, LatestOfNewest
      <3> QED
        BY <3>2, <3>4
    <2>7. DOMAIN o = 1 .. z
      BY <2>5, SeqIsFunction
    <2>8. KnownPhases(a, r, t + N, c + N)
      BY <1>1, <2>5 DEF KnownPhases
    <2>9. IsInterpolated(q, r, t, c, N)
      BY <2>3, <2>4, <2>5, <2>6, <2>7, <2>8 DEF IsInterpolated
    <2> QED
      BY <2>9 DEF q
  <1>4. CASE r = 1
    <2> DEFINE o == [i \in 1 .. N |-> <<x[i]>>]
               q == Interpolate(ps, x)
    <2>0. x \in [1 .. N -> Int] /\ DOMAIN x = 1 .. N /\ \A i \in 1 .. N : x[i] = t + i
      BY DEF Counts
    <2>1. Len(ps) = 1
      BY <1>2, <1>4, FunctionIsSeq DEF PhasesOf
    <2>2. q = [phases |-> ps, outputs |-> o]
      BY <2>0, <2>1 DEF Interpolate
    <2>3. o \in [1 .. N -> Seq(Int)] /\ \A i \in 1 .. N : o[i] = <<t + i>>
      BY <2>0
    <2> HIDE DEF o, q
    <2>4. Len(o) = N /\ DOMAIN o = 1 .. N /\ r * N = N
      BY <1>4, <2>3, FunctionIsSeq
    <2>5. ASSUME NEW l \in 1 .. N
          PROVE  LatestIn(Reverse(o[l]), t + ((l - 1) \div r + 1), c + ((l - 1) \div r + 1))
      <3>1. (l - 1) \div r + 1 = l
        BY <1>4
      <3>2. PICK v \in Int, y \in Int : v = t + l /\ y = c + l
        OBVIOUS
      <3>3. Reverse(<<v>>) = <<v>>
        BY DEF Reverse
      <3>4. LatestIn(<<v>>, v, y)
        BY LatestOfOne
      <3>5. o[l] = <<v>>
        BY <2>3, <3>2
      <3> QED
        BY <3>1, <3>2, <3>3, <3>4, <3>5
    <2>6. KnownPhases(ps, r, t + N, c + N)
      BY <1>1, <1>2, <1>4 DEF KnownPhases
    <2>7. q.phases = ps /\ q.outputs = o
      BY <2>2
    <2>8. IsInterpolated(q, r, t, c, N)
      BY <2>4, <2>5, <2>6, <2>7 DEF IsInterpolated
    <2> QED
      BY <2>8 DEF q
  <1> QED
    BY <1>3, <1>4

\* A decimator after g outputs: the samples that wait are counted.
KnownDecimator(d, r, t, c) ==
  /\ d \in DecimatorsOf(r)
  /\ r # 1 => LatestIn(StoredWindow(d.stored), t, c)

InTime(d, r, c, g) == c = r * g + d.unprocessed

DecimatedInOrder(d, o, r, t, c) ==
  \A k \in DOMAIN o : LatestIn(o[k], t - d.unprocessed - r * (Len(o) - k),
                               c - d.unprocessed - r * (Len(o) - k))

LEMMA DecimatedBatch ==
  ASSUME NEW r \in Nat \ {0}, NEW d, NEW t \in Int, NEW c \in Int,
         KnownDecimator(d, r, t, c), NEW n \in Nat, NEW x, Counts(x, n, t), NEW ip
  PROVE  /\ KnownDecimator(Decimate(d, x, ip).decimator, r, t + n, c + n)
         /\ DecimatedInOrder(Decimate(d, x, ip).decimator, Decimate(d, x, ip).outputs,
                             r, t + n, c + n)
         /\ Len(Decimate(d, x, ip).outputs) \in Nat
         /\ \A g \in Nat : InTime(d, r, c, g) /\ ~ IsShort(d, n) =>
              InTime(Decimate(d, x, ip).decimator, r, c + n, g + Len(Decimate(d, x, ip).outputs))
  <1> DEFINE q == Decimate(d, x, ip)
  <1>0. x \in [1 .. n -> Int] /\ DOMAIN x = 1 .. n /\ \A i \in 1 .. n : x[i] = t + i
    BY DEF Counts
  <1>1. /\ d \in DecimatorsOf(r) /\ d.ratio = r
        /\ r # 1 => LatestIn(StoredWindow(d.stored), t, c)
    BY DEF KnownDecimator, DecimatorsOf
  <1>2. PICK u \in 0 .. r - 1 : u = d.unprocessed
    BY <1>1 DEF DecimatorsOf
  <1>3. CASE r # 1
    <2>1. PICK w : w = StoredWindow(d.stored)
      OBVIOUS
    <2>2. IsDecimated(q, r, u, w, n, x)
      BY <1>0, <1>1, <1>2, <1>3, <2>1, Decimated
    <2> HIDE DEF q
    <2>14. PICK J \in Nat : J = (u + n) \div r
      BY <2>2 DEF IsDecimated
    <2>15. PICK e \in DecimatorsOf(r) : e = q.decimator
      BY <2>2 DEF IsDecimated
    <2>16. PICK v \in 0 .. r - 1 : v = e.unprocessed
      BY DEF DecimatorsOf
    <2>17. PICK o : o = q.outputs
      OBVIOUS
    <2>3. /\ e = q.decimator /\ o = q.outputs /\ v = e.unprocessed
          /\ v = IF J = 0 THEN n ELSE (u + n) - r * J
          /\ StoredWindow(e.stored) = After(w, x, n)
          /\ Len(o) = J /\ DOMAIN o = 1 .. J
          /\ \A k \in 1 .. J : o[k] = After(w, x, r * k - u)
      BY <2>2, <2>14, <2>15, <2>16, <2>17, Zenon DEF IsDecimated
    <2>4. PICK s \in Nat \ {0} : s = KernelSize(r)
      BY KernelSizeType
    <2>5. w \in [1 .. s -> Int]
      <3>1. d.stored \in Rings(s)
        BY <1>1, <2>4 DEF DecimatorsOf
      <3> QED
        BY <2>1, <3>1, WindowType
    <2>6. LatestIn(w, t, c)
      BY <1>1, <1>3, <2>1
    <2>7. KnownDecimator(e, r, t + n, c + n)
      <3>1. n \in 0 .. n /\ s \in Nat
        OBVIOUS
      <3>2. LatestIn(After(w, x, n), t + n, c + n)
        BY <2>5, <2>6, <3>1, LatestAfter
      <3> QED
        BY <2>3, <3>2 DEF KnownDecimator
    <2>8. PICK z \in Nat : z = r * J
      OBVIOUS
    <2>9. J # 0 => z = (u + n) - v
      BY <2>3, <2>8
    <2>10. ASSUME NEW k \in 1 .. J
           PROVE  LatestIn(o[k], (t + n) - v - r * (J - k), (c + n) - v - r * (J - k))
      <3>1. PICK y \in Nat : y = r * k
        OBVIOUS
      <3>2. PICK l \in Nat : l = J - k
        OBVIOUS
      <3>3. PICK h \in Nat : h = r * l
        OBVIOUS
      <3>4. y + h = z
        <4>1. J = k + l
          BY <3>2
        <4>2. r * (k + l) = r * k + r * l
          OBVIOUS
        <4> QED
          BY <2>8, <3>1, <3>3, <4>1, <4>2
      <3>5. r * k - u \in Nat
        <4>1. k \in Nat \ {0} /\ r \in Nat \ {0, 1}
          BY <1>3
        <4> QED
          BY <4>1, OutputsStayBehind
      <3>6. PICK i \in 0 .. n : i = r * k - u
        <4>1. y - u <= n
          BY <2>9, <3>4
        <4> QED
          BY <3>1, <3>5, <4>1
      <3>7. s \in Nat
        OBVIOUS
      <3>8. LatestIn(After(w, x, i), t + i, c + i)
        BY <2>5, <2>6, <3>6, <3>7, LatestAfter
      <3>9. o[k] = After(w, x, i)
        BY <2>3, <3>6
      <3>10. t + i = (t + n) - v - h /\ c + i = (c + n) - v - h
        BY <2>9, <3>1, <3>4, <3>6
      <3>11. r * (J - k) = h
        BY <3>2, <3>3
      <3> QED
        BY <3>8, <3>9, <3>10, <3>11
    <2>11. DecimatedInOrder(e, o, r, t + n, c + n)
      <3>1. PICK a \in Int, b \in Int : a = t + n /\ b = c + n
        OBVIOUS
      <3>2. \A k \in 1 .. J : LatestIn(o[k], a - v - r * (J - k), b - v - r * (J - k))
        BY <2>10, <3>1
      <3>3. DecimatedInOrder(e, o, r, a, b)
        BY <2>3, <3>2, Zenon DEF DecimatedInOrder
      <3> QED
        BY <3>1, <3>3
    <2>12. ASSUME NEW g \in Nat, InTime(d, r, c, g), ~ IsShort(d, n)
           PROVE  InTime(e, r, c + n, g + J)
      <3>1. PICK a \in Nat : a = r * g
        OBVIOUS
      <3>2. c = a + u
        BY <1>2, <2>12, <3>1 DEF InTime
      <3>3. r * (g + J) = a + z
        BY <2>8, <3>1
      <3>4. J = 0 => u = 0
        <4> SUFFICES ASSUME J = 0, u # 0 PROVE FALSE
          OBVIOUS
        <4>1. PICK m \in Nat : m = u + n
          OBVIOUS
        <4>2. PICK p \in Nat, l \in 0 .. r - 1 : m = r * p + l /\ m \div r = p /\ m % r = l
          BY Division, Zenon
        <4>3. p = 0 /\ r * 0 = 0
          BY <2>14, <4>1, <4>2
        <4>4. u + n < r
          BY <4>1, <4>2, <4>3
        <4> QED
          BY <1>1, <1>2, <1>3, <2>12, <4>4 DEF IsShort
      <3>5. c + n = (a + z) + v
        <4>1. CASE J = 0
          <5>1. z = 0
            BY <2>8, <4>1
          <5> QED
            BY <2>3, <3>2, <3>4, <4>1, <5>1
        <4>2. CASE J # 0
          BY <2>9, <3>2, <4>2
        <4> QED
          BY <4>1, <4>2
      <3> QED
        BY <2>3, <3>3, <3>5 DEF InTime
    <2>13. Len(o) = J
      BY <2>3
    <2> QED
      BY <2>3, <2>7, <2>11, <2>12, <2>13 DEF q
  <1>4. CASE r = 1
    <2> DEFINE o == [i \in 1 .. n |-> <<x[i]>>]
    <2>1. q = [decimator |-> d, outputs |-> o]
      BY <1>0, <1>1, <1>4 DEF Decimate
    <2>2. o \in [1 .. n -> Seq(Int)] /\ \A i \in 1 .. n : o[i] = <<t + i>>
      BY <1>0
    <2> HIDE DEF o, q
    <2>3. Len(o) = n /\ DOMAIN o = 1 .. n
      BY <2>2, FunctionIsSeq
    <2>4. q.decimator = d /\ q.outputs = o
      BY <2>1
    <2>5. u = 0
      BY <1>4
    <2>6. KnownDecimator(d, r, t + n, c + n)
      BY <1>1, <1>4 DEF KnownDecimator
    <2>7. ASSUME NEW k \in 1 .. n
          PROVE  LatestIn(o[k], (t + n) - u - r * (n - k), (c + n) - u - r * (n - k))
      <3>1. r * (n - k) = n - k
        BY <1>4
      <3>2. (t + n) - u - r * (n - k) = t + k /\ (c + n) - u - r * (n - k) = c + k
        BY <2>5, <3>1
      <3>3. PICK v \in Int, y \in Int : v = t + k /\ y = c + k
        OBVIOUS
      <3>4. LatestIn(<<v>>, v, y) /\ o[k] = <<v>>
        BY <2>2, <3>3, LatestOfOne
      <3> QED
        BY <3>2, <3>3, <3>4
    <2>8. DecimatedInOrder(d, o, r, t + n, c + n)
      BY <1>2, <2>3, <2>7, Zenon DEF DecimatedInOrder
    <2>9. \A g \in Nat : InTime(d, r, c, g) => InTime(d, r, c + n, g + n)
      <3>1. ASSUME NEW g \in Nat, InTime(d, r, c, g) PROVE InTime(d, r, c + n, g + n)
        <4>4. PICK h \in Nat : h = g + n
          OBVIOUS
        <4>5. r * g = g
          BY <1>4
        <4>6. r * h = h
          BY <1>4
        <4>1. r * g = g /\ r * (g + n) = g + n
          BY <4>4, <4>5, <4>6
        <4>7. c = r * g + d.unprocessed
          BY <3>1 DEF InTime
        <4>8. d.unprocessed = 0
          BY <1>2, <2>5
        <4>2. c = g
          BY <4>1, <4>7, <4>8
        <4>3. c + n = r * (g + n) + d.unprocessed
          BY <4>1, <4>2, <4>8
        <4> QED
          BY <4>3 DEF InTime
      <3> QED
        BY <3>1
    <2> QED
      BY <2>3, <2>4, <2>6, <2>8, <2>9 DEF q
  <1> QED
    BY <1>3, <1>4

--------------------------------------------------------------------------------
(* The stages when they are configured.                                     *)

KnownFilter(f, n, t, c) == f \in FiltersOf(n) /\ Newest(f.stored, n, t, c)

LEMMA ResizedFilter ==
  ASSUME NEW f, NEW n \in Nat \ {0}, f.kernelSize # n, NEW t \in Int
  PROVE  KnownFilter(SetKernelSize(f, n), n, t, 0)
  <1> DEFINE b == ReverseResize(n)
             g == SetKernelSize(f, n)
  <1>1. g = [kernelSize |-> n, stored |-> b]
    BY DEF SetKernelSize
  <1>2. Newest(b, n, t, 0)
    BY NewestAgain
  <1> HIDE DEF b, g
  <1>3. b \in Reverses(n)
    BY <1>2 DEF Newest
  <1>4. g \in FiltersOf(n) /\ g.stored = b
    BY <1>1, <1>3 DEF FiltersOf
  <1> QED
    BY <1>2, <1>4 DEF KnownFilter, g

LEMMA KeptFilter ==
  ASSUME NEW n \in Nat \ {0}, NEW f \in FiltersOf(n)
  PROVE  SetKernelSize(f, n) = f
  BY DEF FiltersOf, SetKernelSize

LEMMA ConfiguredFilter ==
  ASSUME NEW k \in Nat \ {0}, NEW f, NEW n \in Nat \ {0}, NEW t \in Int, NEW c \in Int,
         KnownFilter(f, k, t, c)
  PROVE  KnownFilter(SetKernelSize(f, n), n, t, IF k = n THEN c ELSE 0)
  <1>1. f \in FiltersOf(k)
    BY DEF KnownFilter
  <1>2. f.kernelSize = k
    BY <1>1 DEF FiltersOf
  <1>3. CASE k = n
    BY <1>1, <1>3, KeptFilter
  <1>4. CASE k # n
    <2>1. KnownFilter(SetKernelSize(f, n), n, t, 0)
      BY <1>2, <1>4, ResizedFilter
    <2> QED
      BY <1>4, <2>1
  <1> QED
    BY <1>3, <1>4

LEMMA ConfiguredPhases ==
  ASSUME NEW old, NEW k \in Nat, NEW r \in Nat \ {0}, NEW t \in Int, k # r,
         k = 0 => old = <<>>,
         k # 0 => old \in PhasesOf(k, ComponentSize(k))
  PROVE  KnownPhases(SetPhases(old, r), r, t, 0)
  <1>1. PICK n \in Nat \ {0} : n = ComponentSize(r)
    BY ComponentSizeType
  <1>2. Len(old) = k /\ DOMAIN old = 1 .. k
    <2>1. CASE k = 0
      BY <2>1
    <2>2. CASE k # 0
      BY <2>2, FunctionIsSeq DEF PhasesOf
    <2> QED
      BY <2>1, <2>2
  <1> DEFINE f(m) == IF m \in DOMAIN old THEN old[m] ELSE NewFilter
             ps == SetPhases(old, r)
  <1>3. ps = [m \in 1 .. r |-> SetKernelSize(f(m), n)]
    BY <1>1, <1>2 DEF SetPhases
  <1>4. ASSUME NEW m \in 1 .. r
        PROVE  /\ SetKernelSize(f(m), n) \in FiltersOf(n)
               /\ Newest(SetKernelSize(f(m), n).stored, n, t, 0)
    <2>1. CASE m \in DOMAIN old
      <3>1. f(m) = old[m] /\ k # 0
        BY <1>2, <2>1
      <3>2. PICK i \in Nat \ {0} : i = ComponentSize(k)
        BY <3>1, ComponentSizeType
      <3>3. old[m] \in FiltersOf(i)
        BY <1>2, <2>1, <3>1, <3>2 DEF PhasesOf
      <3>4. Newest(old[m].stored, i, t, 0)
        BY <3>3 DEF FiltersOf, Newest
      <3>5. KnownFilter(old[m], i, t, 0)
        BY <3>3, <3>4 DEF KnownFilter
      <3>6. 0 \in Int
        OBVIOUS
      <3>7. KnownFilter(SetKernelSize(old[m], n), n, t, IF i = n THEN 0 ELSE 0)
        BY <3>5, <3>6, ConfiguredFilter
      <3>8. KnownFilter(SetKernelSize(old[m], n), n, t, 0)
        BY <3>7
      <3> QED
        BY <3>1, <3>8 DEF KnownFilter
    <2>2. CASE m \notin DOMAIN old
      <3>1. f(m) = NewFilter
        BY <2>2
      <3>2. NewFilter.kernelSize # n
        BY DEF NewFilter
      <3>3. KnownFilter(SetKernelSize(NewFilter, n), n, t, 0)
        BY <3>2, ResizedFilter
      <3> QED
        BY <3>1, <3>3 DEF KnownFilter
    <2> QED
      BY <2>1, <2>2
  <1> HIDE DEF f, ps
  <1>5. ps \in PhasesOf(r, n) /\ PhasesNewest(ps, r, n, t, 0)
    BY <1>3, <1>4 DEF PhasesOf, PhasesNewest
  <1>6. KnownPhases(ps, r, t, 0)
    BY <1>1, <1>5 DEF KnownPhases
  <1> QED
    BY <1>6 DEF ps

LEMMA KeptPhases ==
  ASSUME NEW r \in Nat \ {0}, NEW ps \in PhasesOf(r, ComponentSize(r))
  PROVE  SetPhases(ps, r) = ps
  <1>1. Len(ps) = r
    BY FunctionIsSeq DEF PhasesOf
  <1> QED
    BY <1>1 DEF SetPhases

LEMMA ConfiguredAgain ==
  ASSUME NEW k \in Nat \ {0}, NEW ps, NEW r \in Nat \ {0}, NEW t \in Int, NEW c \in Int,
         KnownPhases(ps, k, t, c)
  PROVE  KnownPhases(SetPhases(ps, r), r, t, IF k = r THEN c ELSE 0)
  <1>1. ps \in PhasesOf(k, ComponentSize(k))
    BY DEF KnownPhases
  <1>2. CASE k = r
    BY <1>1, <1>2, KeptPhases
  <1>3. CASE k # r
    <2>1. k \in Nat /\ (k = 0 => ps = <<>>)
      OBVIOUS
    <2>2. KnownPhases(SetPhases(ps, r), r, t, 0)
      BY <1>1, <1>3, <2>1, ConfiguredPhases
    <2> QED
      BY <1>3, <2>2
  <1> QED
    BY <1>2, <1>3

LEMMA ChangedRatio ==
  ASSUME NEW d, NEW r \in Nat \ {0}, d.ratio # r, NEW t \in Int,
         \A i \in DOMAIN d.stored.data : d.stored.data[i] \in Int
  PROVE  KnownDecimator(SetRatio(d, r), r, t, 0) /\ SetRatio(d, r).unprocessed = 0
  <1>1. PICK k \in Nat \ {0} : k = KernelSize(r)
    BY KernelSizeType
  <1> DEFINE data == [i \in 0 .. k - 1 |->
                        IF i \in DOMAIN d.stored.data THEN d.stored.data[i] ELSE Zero]
             b == Resize(d.stored, k)
             e == SetRatio(d, r)
  <1>2. b = [data |-> data, head |-> 0, tail |-> k - 1]
    BY DEF Resize
  <1>3. e = [ratio |-> r, stored |-> b, unprocessed |-> 0]
    BY <1>1 DEF SetRatio
  <1>4. data \in [0 .. k - 1 -> Int]
    BY DEF Zero
  <1> HIDE DEF data, b, e
  <1>5. b \in Rings(k)
    BY <1>2, <1>4 DEF Rings
  <1>6. e \in DecimatorsOf(r) /\ e.stored = b /\ e.unprocessed = 0
    <2>1. 0 \in 0 .. r - 1
      OBVIOUS
    <2> QED
      BY <1>1, <1>3, <1>5, <2>1 DEF DecimatorsOf
  <1>7. LatestIn(StoredWindow(b), t, 0)
    <2>1. StoredWindow(b) \in [1 .. k -> Int]
      BY <1>5, WindowOfRing
    <2>2. k \in Nat
      OBVIOUS
    <2> QED
      BY <2>1, <2>2, LatestOfNone
  <1>8. KnownDecimator(e, r, t, 0) /\ e.unprocessed = 0
    BY <1>6, <1>7 DEF KnownDecimator
  <1> QED
    BY <1>8 DEF e

LEMMA FirstRatio ==
  ASSUME NEW r \in Nat \ {0}, NEW t \in Int
  PROVE  /\ KnownDecimator(SetRatio(NewDecimator, r), r, t, 0)
         /\ SetRatio(NewDecimator, r).unprocessed = 0
  <1>1. NewDecimator.ratio = 0 /\ NewDecimator.stored.data = <<>> /\ DOMAIN <<>> = {}
    BY DEF NewDecimator, EmptyBuffer
  <1>2. NewDecimator.ratio # r /\ \A i \in DOMAIN NewDecimator.stored.data : NewDecimator.stored.data[i] \in Int
    BY <1>1
  <1> QED
    BY <1>2, ChangedRatio

LEMMA ConfiguredRatio ==
  ASSUME NEW k \in Nat \ {0}, NEW d, NEW r \in Nat \ {0}, NEW t \in Int, NEW c \in Int,
         KnownDecimator(d, k, t, c)
  PROVE  /\ KnownDecimator(SetRatio(d, r), r, t, IF k = r THEN c ELSE 0)
         /\ k = r => SetRatio(d, r) = d
         /\ k # r => SetRatio(d, r).unprocessed = 0
  <1>1. d \in DecimatorsOf(k)
    BY DEF KnownDecimator
  <1>2. d.ratio = k /\ d.stored \in Rings(KernelSize(k))
    BY <1>1 DEF DecimatorsOf
  <1>3. CASE k = r
    <2>1. SetRatio(d, r) = d
      BY <1>2, <1>3 DEF SetRatio
    <2> QED
      BY <1>3, <2>1
  <1>4. CASE k # r
    <2>1. \A i \in DOMAIN d.stored.data : d.stored.data[i] \in Int
      BY <1>2 DEF Rings
    <2>2. KnownDecimator(SetRatio(d, r), r, t, 0) /\ SetRatio(d, r).unprocessed = 0
      BY <1>2, <1>4, <2>1, ChangedRatio
    <2> QED
      BY <1>4, <2>2
  <1> QED
    BY <1>3, <1>4

--------------------------------------------------------------------------------
(* What holds of a stage with its latest outputs o, when it has taken t     *)
(* samples, b of them before its size changed.                              *)

\* A decimator that has given g outputs since then, also if batches were late.
DecimatorHolds(d, r, t, b, o, g, late) ==
  /\ r \in Nat \ {0} /\ t \in Nat /\ b \in Nat /\ g \in Nat
  /\ KnownDecimator(d, r, t, t - b)
  /\ DecimatedInOrder(d, o, r, t, t - b) /\ Len(o) \in Nat /\ DOMAIN o = 1 .. Len(o)
  /\ ~ late => InTime(d, r, t - b, g)

FilteredInOrder(o, t, c) ==
  \A k \in DOMAIN o : LatestIn(Reverse(o[k]), t - Len(o) + k, c - Len(o) + k)

FilterHolds(f, n, t, b, o) ==
  /\ n \in Nat \ {0} /\ t \in Nat /\ b \in Nat
  /\ KnownFilter(f, n, t, t - b)
  /\ FilteredInOrder(o, t, t - b) /\ Len(o) \in Nat /\ DOMAIN o = 1 .. Len(o)

InterpolatedInOrder(o, r, t, c) ==
  \A k \in DOMAIN o : LatestIn(Reverse(o[k]), t - Len(o) \div r + ((k - 1) \div r + 1),
                                              c - Len(o) \div r + ((k - 1) \div r + 1))

PhasesHold(ps, r, t, b, o) ==
  /\ r \in Nat \ {0} /\ t \in Nat /\ b \in Nat
  /\ KnownPhases(ps, r, t, t - b)
  /\ InterpolatedInOrder(o, r, t, t - b) /\ Len(o) \in Nat /\ DOMAIN o = 1 .. Len(o)

LEMMA DomainOfDecimated ==
  ASSUME NEW r \in Nat \ {0}, NEW d, NEW t \in Int, NEW c \in Int,
         KnownDecimator(d, r, t, c), NEW n \in Nat, NEW x, Counts(x, n, t), NEW ip
  PROVE  DOMAIN Decimate(d, x, ip).outputs = 1 .. Len(Decimate(d, x, ip).outputs)
  <1>0. x \in [1 .. n -> Int] /\ DOMAIN x = 1 .. n
    BY DEF Counts
  <1>1. d \in DecimatorsOf(r) /\ d.ratio = r
    BY DEF KnownDecimator, DecimatorsOf
  <1>2. CASE r # 1
    <2>1. IsDecimated(Decimate(d, x, ip), r, d.unprocessed, StoredWindow(d.stored), n, x)
      BY <1>0, <1>1, <1>2, Decimated
    <2> QED
      BY <2>1, Zenon DEF IsDecimated
  <1>3. CASE r = 1
    <2> DEFINE o == [i \in 1 .. n |-> <<x[i]>>]
    <2>1. Decimate(d, x, ip) = [decimator |-> d, outputs |-> o]
      BY <1>0, <1>1, <1>3 DEF Decimate
    <2>2. o \in [1 .. n -> Seq(Int)]
      BY <1>0
    <2> HIDE DEF o
    <2> QED
      BY <2>1, <2>2, FunctionIsSeq
  <1> QED
    BY <1>2, <1>3

LEMMA DecimatorHoldsAfterBatch ==
  ASSUME NEW d, NEW r, NEW t, NEW b, NEW o, NEW g, NEW late,
         DecimatorHolds(d, r, t, b, o, g, late),
         NEW n \in Nat, NEW x, Counts(x, n, t), NEW ip
  PROVE  /\ DecimatorHolds(Decimate(d, x, ip).decimator, r, t + n, b,
                           Decimate(d, x, ip).outputs,
                           g + Len(Decimate(d, x, ip).outputs), late \/ IsShort(d, n))
         /\ Len(Decimate(d, x, ip).outputs) \in Nat
  <1>1. r \in Nat \ {0} /\ t \in Nat /\ b \in Nat /\ g \in Nat
    BY DEF DecimatorHolds
  <1>2. PICK c \in Int : c = t - b
    BY <1>1
  <1>3. KnownDecimator(d, r, t, c)
    BY <1>2 DEF DecimatorHolds
  <1>4. ~ late => InTime(d, r, c, g)
    BY <1>2 DEF DecimatorHolds
  <1>5. t \in Int
    BY <1>1
  <1> DEFINE q == Decimate(d, x, ip)
  <1>6. /\ KnownDecimator(q.decimator, r, t + n, c + n)
        /\ DecimatedInOrder(q.decimator, q.outputs, r, t + n, c + n)
        /\ Len(q.outputs) \in Nat
        /\ \A h \in Nat : InTime(d, r, c, h) /\ ~ IsShort(d, n) =>
             InTime(q.decimator, r, c + n, h + Len(q.outputs))
    BY <1>1, <1>3, <1>5, DecimatedBatch
  <1>10. DOMAIN q.outputs = 1 .. Len(q.outputs)
    BY <1>1, <1>3, <1>5, DomainOfDecimated
  <1> HIDE DEF q
  <1>7. PICK m \in Nat : m = Len(q.outputs)
    BY <1>6
  <1>8. (t + n) - b = c + n /\ t + n \in Nat /\ g + m \in Nat
    BY <1>1, <1>2, <1>7
  <1>9. ~ (late \/ IsShort(d, n)) => InTime(q.decimator, r, c + n, g + m)
    BY <1>1, <1>4, <1>6, <1>7
  <1>11. DecimatorHolds(q.decimator, r, t + n, b, q.outputs, g + m, late \/ IsShort(d, n))
    BY <1>1, <1>6, <1>7, <1>8, <1>9, <1>10 DEF DecimatorHolds
  <1> QED
    BY <1>7, <1>11 DEF q

LEMMA DecimatorHoldsConfigured ==
  ASSUME NEW d, NEW k, NEW t, NEW b, NEW o, NEW g, NEW late,
         DecimatorHolds(d, k, t, b, o, g, late), NEW r \in Nat \ {0}
  PROVE  DecimatorHolds(SetRatio(d, r), r, t, IF k # r THEN t ELSE b, <<>>,
                        IF k # r THEN 0 ELSE g, late /\ k = r)
  <1>1. k \in Nat \ {0} /\ t \in Nat /\ b \in Nat /\ g \in Nat
    BY DEF DecimatorHolds
  <1>2. PICK c \in Int : c = t - b
    BY <1>1
  <1>3. KnownDecimator(d, k, t, c)
    BY <1>2 DEF DecimatorHolds
  <1>4. ~ late => InTime(d, k, c, g)
    BY <1>2 DEF DecimatorHolds
  <1>5. t \in Int
    BY <1>1
  <1> DEFINE e == SetRatio(d, r)
  <1>6. /\ KnownDecimator(e, r, t, IF k = r THEN c ELSE 0)
        /\ k = r => e = d
        /\ k # r => e.unprocessed = 0
    BY <1>1, <1>3, <1>5, ConfiguredRatio
  <1> HIDE DEF e
  <1>7. DecimatedInOrder(e, <<>>, r, t, t - (IF k # r THEN t ELSE b))
    BY DEF DecimatedInOrder
  <1>8. Len(<<>>) = 0 /\ DOMAIN <<>> = 1 .. 0
    OBVIOUS
  <1>9. CASE k = r
    <2>1. e = d /\ KnownDecimator(d, r, t, t - b)
      BY <1>2, <1>3, <1>6, <1>9
    <2>2. DecimatedInOrder(d, <<>>, r, t, t - b)
      BY DEF DecimatedInOrder
    <2>3. ~ (late /\ k = r) => InTime(d, r, t - b, g)
      BY <1>2, <1>4, <1>9
    <2>4. DecimatorHolds(d, r, t, b, <<>>, g, late /\ k = r)
      BY <1>1, <1>8, <2>1, <2>2, <2>3 DEF DecimatorHolds
    <2> QED
      BY <1>9, <2>1, <2>4 DEF e
  <1>10. CASE k # r
    <2>1. t - t = 0
      BY <1>1
    <2>2. InTime(e, r, 0, 0)
      <3>1. r * 0 = 0 /\ 0 + 0 = 0
        OBVIOUS
      <3> QED
        BY <1>6, <1>10, <3>1 DEF InTime
    <2>3. DecimatorHolds(e, r, t, t, <<>>, 0, FALSE)
      BY <1>1, <1>6, <1>7, <1>8, <1>10, <2>1, <2>2 DEF DecimatorHolds
    <2>4. DecimatorHolds(e, r, t, t, <<>>, 0, late /\ k = r)
      BY <1>10, <2>3 DEF DecimatorHolds
    <2> QED
      BY <1>10, <2>4 DEF e
  <1> QED
    BY <1>9, <1>10

LEMMA FilterHoldsAfterBatch ==
  ASSUME NEW f, NEW k, NEW t, NEW b, NEW o, FilterHolds(f, k, t, b, o),
         NEW n \in Nat, NEW x, Counts(x, n, t)
  PROVE  FilterHolds(FilterBatch(f, x).filter, k, t + n, b, FilterBatch(f, x).outputs)
  <1>1. k \in Nat \ {0} /\ t \in Nat /\ b \in Nat
    BY DEF FilterHolds
  <1>2. PICK c \in Int : c = t - b
    BY <1>1
  <1>3. f \in FiltersOf(k) /\ Newest(f.stored, k, t, c)
    BY <1>2 DEF FilterHolds, KnownFilter
  <1>4. t \in Int
    BY <1>1
  <1> DEFINE q == FilterBatch(f, x)
  <1>5. IsFiltered(q, k, t, c, n)
    BY <1>1, <1>3, <1>4, FilteredBatch
  <1> HIDE DEF q
  <1>6. PICK e, y : e = q.filter /\ y = q.outputs
    OBVIOUS
  <1>7. /\ e \in FiltersOf(k) /\ Newest(e.stored, k, t + n, c + n)
        /\ Len(y) = n /\ DOMAIN y = 1 .. n
        /\ \A l \in 1 .. n : NewestFirst(y[l], k, t + l, c + l)
    BY <1>5, <1>6 DEF IsFiltered
  <1>8. (t + n) - b = c + n /\ t + n \in Nat
    BY <1>1, <1>2
  <1>9. ASSUME NEW l \in 1 .. n
        PROVE  LatestIn(Reverse(y[l]), (t + n) - n + l, (c + n) - n + l)
    <2>1. PICK v \in Int, w \in Int : v = t + l /\ w = c + l
      BY <1>4
    <2>2. NewestFirst(y[l], k, v, w)
      BY <1>7, <2>1
    <2>3. k \in Nat
      BY <1>1
    <2>4. LatestIn(Reverse(y[l]), v, w)
      BY <2>2, <2>3, LatestOfNewest
    <2>5. v = (t + n) - n + l /\ w = (c + n) - n + l
      BY <1>1, <2>1
    <2> QED
      BY <2>4, <2>5
  <1>10. FilteredInOrder(y, t + n, c + n)
    BY <1>7, <1>9, Zenon DEF FilteredInOrder
  <1>11. KnownFilter(e, k, t + n, c + n)
    BY <1>7 DEF KnownFilter
  <1>12. FilterHolds(e, k, t + n, b, y)
    BY <1>1, <1>7, <1>8, <1>10, <1>11 DEF FilterHolds
  <1> QED
    BY <1>6, <1>12 DEF q

LEMMA FilterHoldsConfigured ==
  ASSUME NEW f, NEW k, NEW t, NEW b, NEW o, FilterHolds(f, k, t, b, o),
         NEW n \in Nat \ {0}
  PROVE  FilterHolds(SetKernelSize(f, n), n, t, IF k # n THEN t ELSE b, <<>>)
  <1>1. k \in Nat \ {0} /\ t \in Nat /\ b \in Nat
    BY DEF FilterHolds
  <1>2. PICK c \in Int : c = t - b
    BY <1>1
  <1>3. KnownFilter(f, k, t, c)
    BY <1>2 DEF FilterHolds
  <1>4. t \in Int
    BY <1>1
  <1> DEFINE e == SetKernelSize(f, n)
  <1>5. KnownFilter(e, n, t, IF k = n THEN c ELSE 0)
    BY <1>1, <1>3, <1>4, ConfiguredFilter
  <1> HIDE DEF e
  <1>6. PICK a \in Nat : a = IF k # n THEN t ELSE b
    BY <1>1
  <1>7. t - a = IF k = n THEN c ELSE 0
    BY <1>1, <1>2, <1>6
  <1>8. FilteredInOrder(<<>>, t, t - a) /\ Len(<<>>) = 0 /\ DOMAIN <<>> = 1 .. 0
    BY DEF FilteredInOrder
  <1>9. FilterHolds(e, n, t, a, <<>>)
    BY <1>1, <1>5, <1>7, <1>8 DEF FilterHolds
  <1> QED
    BY <1>6, <1>9 DEF e

LEMMA PhasesHoldAfterBatch ==
  ASSUME NEW ps, NEW r, NEW t, NEW b, NEW o, PhasesHold(ps, r, t, b, o),
         NEW n \in Nat, NEW x, Counts(x, n, t)
  PROVE  /\ PhasesHold(Interpolate(ps, x).phases, r, t + n, b, Interpolate(ps, x).outputs)
         /\ Len(Interpolate(ps, x).outputs) \in Nat
  <1>1. r \in Nat \ {0} /\ t \in Nat /\ b \in Nat
    BY DEF PhasesHold
  <1>2. PICK c \in Int : c = t - b
    BY <1>1
  <1>3. KnownPhases(ps, r, t, c)
    BY <1>2 DEF PhasesHold
  <1>4. t \in Int
    BY <1>1
  <1> DEFINE q == Interpolate(ps, x)
  <1>5. IsInterpolated(q, r, t, c, n)
    BY <1>1, <1>3, <1>4, InterpolatedBatch
  <1> HIDE DEF q
  <1>6. PICK e, y : e = q.phases /\ y = q.outputs
    OBVIOUS
  <1>7. PICK z \in Nat : z = r * n
    BY <1>1
  <1>8. /\ KnownPhases(e, r, t + n, c + n) /\ Len(y) = z /\ DOMAIN y = 1 .. z
        /\ \A l \in 1 .. z :
             LatestIn(Reverse(y[l]), t + ((l - 1) \div r + 1), c + ((l - 1) \div r + 1))
    BY <1>5, <1>6, <1>7 DEF IsInterpolated
  <1>9. (t + n) - b = c + n /\ t + n \in Nat
    BY <1>1, <1>2
  <1>10. z \div r = n
    <2>1. 0 \in 0 .. r - 1 /\ r * n + 0 = z
      BY <1>1, <1>7
    <2>2. (r * n + 0) \div r = n
      BY <1>1, <2>1, DivisionIs
    <2> QED
      BY <2>1, <2>2
  <1>11. ASSUME NEW l \in 1 .. z
         PROVE  LatestIn(Reverse(y[l]), (t + n) - n + ((l - 1) \div r + 1),
                                        (c + n) - n + ((l - 1) \div r + 1))
    <2>1. (t + n) - n = t /\ (c + n) - n = c
      BY <1>1
    <2> QED
      BY <1>8, <2>1
  <1>12. InterpolatedInOrder(y, r, t + n, c + n)
    BY <1>8, <1>10, <1>11, Zenon DEF InterpolatedInOrder
  <1>13. PhasesHold(e, r, t + n, b, y)
    BY <1>1, <1>8, <1>9, <1>12 DEF PhasesHold
  <1> QED
    BY <1>6, <1>8, <1>13 DEF q

LEMMA PhasesHoldConfigured ==
  ASSUME NEW ps, NEW k, NEW t, NEW b, NEW o, PhasesHold(ps, k, t, b, o),
         NEW r \in Nat \ {0}
  PROVE  PhasesHold(SetPhases(ps, r), r, t, IF k # r THEN t ELSE b, <<>>)
  <1>1. k \in Nat \ {0} /\ t \in Nat /\ b \in Nat
    BY DEF PhasesHold
  <1>2. PICK c \in Int : c = t - b
    BY <1>1
  <1>3. KnownPhases(ps, k, t, c)
    BY <1>2 DEF PhasesHold
  <1>4. t \in Int
    BY <1>1
  <1> DEFINE e == SetPhases(ps, r)
  <1>5. KnownPhases(e, r, t, IF k = r THEN c ELSE 0)
    BY <1>1, <1>3, <1>4, ConfiguredAgain
  <1> HIDE DEF e
  <1>6. PICK a \in Nat : a = IF k # r THEN t ELSE b
    BY <1>1
  <1>7. t - a = IF k = r THEN c ELSE 0
    BY <1>1, <1>2, <1>6
  <1>8. InterpolatedInOrder(<<>>, r, t, t - a) /\ Len(<<>>) = 0 /\ DOMAIN <<>> = 1 .. 0
    BY DEF InterpolatedInOrder
  <1>9. PhasesHold(e, r, t, a, <<>>)
    BY <1>1, <1>5, <1>7, <1>8 DEF PhasesHold
  <1> QED
    BY <1>6, <1>9 DEF e

--------------------------------------------------------------------------------
(* The path.                                                                *)

LEMMA RatioOfDecimator ==
  ASSUME NEW d, NEW r, NEW t, NEW b, NEW o, NEW g, NEW late,
         DecimatorHolds(d, r, t, b, o, g, late)
  PROVE  d.ratio = r
  <1>1. d \in DecimatorsOf(r)
    BY DEF DecimatorHolds, KnownDecimator
  <1> QED
    BY <1>1 DEF DecimatorsOf

LEMMA SizeOfFilter ==
  ASSUME NEW f, NEW n, NEW t, NEW b, NEW o, FilterHolds(f, n, t, b, o)
  PROVE  f.kernelSize = n
  <1>1. f \in FiltersOf(n)
    BY DEF FilterHolds, KnownFilter
  <1> QED
    BY <1>1 DEF FiltersOf

DecimatorInv ==
  DecimatorHolds(decimator, ratio, taken["decimator"], begin["decimator"],
                 outputs["decimator"], given["decimator"], "decimator" \in short)

AudioInv ==
  DecimatorHolds(af, af.ratio, taken["af"], begin["af"],
                 outputs["af"], given["af"], "af" \in short)

FilterInv ==
  FilterHolds(filter, filter.kernelSize, taken["filter"], begin["filter"],
              outputs["filter"])

PhasesInv ==
  PhasesHold(phases, ratio, taken["interpolator"], begin["interpolator"],
             outputs["interpolator"])

\* Every stage holds its latest samples, its last outputs were computed from
\* them, and the count of a decimator which was never late is in time.
ChainInv == DecimatorInv /\ AudioInv /\ FilterInv /\ PhasesInv

LEMMA FirstDecimator ==
  ASSUME NEW r \in Nat \ {0}
  PROVE  DecimatorHolds(SetRatio(NewDecimator, r), r, 0, 0, <<>>, 0, FALSE)
  <1> DEFINE d == SetRatio(NewDecimator, r)
  <1>1. KnownDecimator(d, r, 0, 0) /\ d.unprocessed = 0
    BY FirstRatio
  <1> HIDE DEF d
  <1>2. DecimatedInOrder(d, <<>>, r, 0, 0)
    BY DEF DecimatedInOrder
  <1>3. r * 0 = 0 /\ 0 - 0 = 0 /\ Len(<<>>) = 0 /\ DOMAIN <<>> = 1 .. 0
    OBVIOUS
  <1>4. InTime(d, r, 0, 0)
    BY <1>1, <1>3 DEF InTime
  <1>5. DecimatorHolds(d, r, 0, 0, <<>>, 0, FALSE)
    BY <1>1, <1>2, <1>3, <1>4 DEF DecimatorHolds
  <1> QED
    BY <1>5 DEF d

LEMMA FirstFilter ==
  ASSUME NEW n \in Nat \ {0}
  PROVE  FilterHolds(SetKernelSize(NewFilter, n), n, 0, 0, <<>>)
  <1>1. NewFilter.kernelSize # n
    BY DEF NewFilter
  <1> DEFINE f == SetKernelSize(NewFilter, n)
  <1>2. KnownFilter(f, n, 0, 0)
    BY <1>1, ResizedFilter
  <1> HIDE DEF f
  <1>3. FilteredInOrder(<<>>, 0, 0)
    BY DEF FilteredInOrder
  <1>4. 0 - 0 = 0 /\ Len(<<>>) = 0 /\ DOMAIN <<>> = 1 .. 0
    OBVIOUS
  <1>5. FilterHolds(f, n, 0, 0, <<>>)
    BY <1>2, <1>3, <1>4 DEF FilterHolds
  <1> QED
    BY <1>5 DEF f

LEMMA FirstPhases ==
  ASSUME NEW r \in Nat \ {0}
  PROVE  PhasesHold(SetPhases(<<>>, r), r, 0, 0, <<>>)
  <1> DEFINE ps == SetPhases(<<>>, r)
  <1>1. KnownPhases(ps, r, 0, 0)
    <2>1. PICK k \in Nat : k = 0 /\ k # r
      OBVIOUS
    <2>2. PICK old : old = <<>>
      OBVIOUS
    <2>3. KnownPhases(SetPhases(old, r), r, 0, 0)
      BY <2>1, <2>2, ConfiguredPhases
    <2> QED
      BY <2>2, <2>3
  <1> HIDE DEF ps
  <1>3. InterpolatedInOrder(<<>>, r, 0, 0)
    BY DEF InterpolatedInOrder
  <1>4. 0 - 0 = 0 /\ Len(<<>>) = 0 /\ DOMAIN <<>> = 1 .. 0
    OBVIOUS
  <1>5. PhasesHold(ps, r, 0, 0, <<>>)
    BY <1>1, <1>3, <1>4 DEF PhasesHold
  <1> QED
    BY <1>5 DEF ps

LEMMA OptionsType ==
  ASSUME NEW o \in Options
  PROVE  o.ratio \in Nat \ {0} /\ o.kernel \in Nat \ {0} /\ o.audio \in Nat \ {0}
  BY OptionsAssumption DEF Configuration

LEMMA ChainInit == Init => ChainInv
  <1> SUFFICES ASSUME Init PROVE ChainInv
    OBVIOUS
  <1>1. PICK o \in Options :
          /\ ratio = o.ratio
          /\ decimator = SetRatio(NewDecimator, o.ratio)
          /\ phases = SetPhases(<<>>, o.ratio)
          /\ filter = SetKernelSize(NewFilter, o.kernel)
          /\ af = SetRatio(NewDecimator, o.audio)
          /\ taken = Zeroes
          /\ begin = Zeroes
          /\ given = [s \in Decimators |-> 0]
          /\ outputs = [s \in Stages |-> <<>>]
          /\ short = {}
    BY Zenon DEF Init
  <1>2. o.ratio \in Nat \ {0} /\ o.kernel \in Nat \ {0} /\ o.audio \in Nat \ {0}
    BY OptionsType
  <1>3. "decimator" \in Decimators /\ "af" \in Decimators
    BY DEF Decimators
  <1>4. \A s \in Stages : taken[s] = 0 /\ begin[s] = 0 /\ outputs[s] = <<>>
    BY <1>1 DEF Zeroes
  <1>5. {"decimator", "af", "filter", "interpolator"} \subseteq Stages
    BY DEF Stages, Decimators
  <1>6. given["decimator"] = 0 /\ given["af"] = 0
    BY <1>1, <1>3
  <1>7. ("decimator" \in short) = FALSE /\ ("af" \in short) = FALSE
    BY <1>1
  <1>8. DecimatorInv
    <2>1. DecimatorHolds(decimator, ratio, 0, 0, <<>>, 0, FALSE)
      BY <1>1, <1>2, FirstDecimator
    <2> QED
      BY <1>4, <1>5, <1>6, <1>7, <2>1 DEF DecimatorInv
  <1>9. AudioInv
    <2>1. DecimatorHolds(af, o.audio, 0, 0, <<>>, 0, FALSE)
      BY <1>1, <1>2, FirstDecimator
    <2>2. af.ratio = o.audio
      BY <2>1, RatioOfDecimator
    <2> QED
      BY <1>4, <1>5, <1>6, <1>7, <2>1, <2>2 DEF AudioInv
  <1>10. FilterInv
    <2>1. FilterHolds(filter, o.kernel, 0, 0, <<>>)
      BY <1>1, <1>2, FirstFilter
    <2>2. filter.kernelSize = o.kernel
      BY <2>1, SizeOfFilter
    <2> QED
      BY <1>4, <1>5, <2>1, <2>2 DEF FilterInv
  <1>11. PhasesInv
    <2>1. PhasesHold(phases, ratio, 0, 0, <<>>)
      BY <1>1, <1>2, FirstPhases
    <2> QED
      BY <1>4, <1>5, <2>1 DEF PhasesInv
  <1> QED
    BY <1>8, <1>9, <1>10, <1>11 DEF ChainInv

LEMMA ChainConfigure ==
  ASSUME ChainInv, NEW o \in Options, Configure(o)
  PROVE  ChainInv'
  <1>1. o.ratio \in Nat \ {0} /\ o.kernel \in Nat \ {0} /\ o.audio \in Nat \ {0}
    BY OptionsType
  <1> DEFINE changed == (IF ratio # o.ratio THEN {"decimator", "interpolator"} ELSE {})
            \union (IF filter.kernelSize # o.kernel THEN {"filter"} ELSE {})
            \union (IF af.ratio # o.audio THEN {"af"} ELSE {})
  <1>2. /\ ratio' = o.ratio
        /\ decimator' = SetRatio(decimator, o.ratio)
        /\ phases' = SetPhases(phases, o.ratio)
        /\ filter' = SetKernelSize(filter, o.kernel)
        /\ af' = SetRatio(af, o.audio)
        /\ begin' = [s \in Stages |-> IF s \in changed THEN taken[s] ELSE begin[s]]
        /\ given' = [s \in Decimators |-> IF s \in changed THEN 0 ELSE given[s]]
        /\ outputs' = [s \in Stages |-> <<>>]
        /\ short' = short \ changed
        /\ taken' = taken
    BY Zenon DEF Configure
  <1>3. /\ ("decimator" \in changed) <=> (ratio # o.ratio)
        /\ ("interpolator" \in changed) <=> (ratio # o.ratio)
        /\ ("filter" \in changed) <=> (filter.kernelSize # o.kernel)
        /\ ("af" \in changed) <=> (af.ratio # o.audio)
    OBVIOUS
  <1> HIDE DEF changed
  <1>4. "decimator" \in Decimators /\ "af" \in Decimators
    BY DEF Decimators
  <1>5. /\ "decimator" \in Stages /\ "af" \in Stages
        /\ "filter" \in Stages /\ "interpolator" \in Stages
    BY DEF Stages, Decimators
  <1>6. DecimatorInv'
    <2>1. DecimatorHolds(decimator, ratio, taken["decimator"], begin["decimator"],
                         outputs["decimator"], given["decimator"], "decimator" \in short)
      BY DEF ChainInv, DecimatorInv
    <2>2. DecimatorHolds(decimator', ratio', taken["decimator"],
                         IF ratio # o.ratio THEN taken["decimator"] ELSE begin["decimator"], <<>>,
                         IF ratio # o.ratio THEN 0 ELSE given["decimator"],
                         "decimator" \in short /\ ratio = o.ratio)
      <3>1. PICK late : late = ("decimator" \in short)
        OBVIOUS
      <3>2. DecimatorHolds(decimator, ratio, taken["decimator"], begin["decimator"],
                           outputs["decimator"], given["decimator"], late)
        BY <2>1, <3>1, Zenon
      <3>3. DecimatorHolds(SetRatio(decimator, o.ratio), o.ratio, taken["decimator"],
                           IF ratio # o.ratio THEN taken["decimator"] ELSE begin["decimator"], <<>>,
                           IF ratio # o.ratio THEN 0 ELSE given["decimator"], late /\ ratio = o.ratio)
        BY <1>1, <3>2, DecimatorHoldsConfigured
      <3> QED
        BY <1>2, <3>1, <3>3, Zenon
    <2>3. /\ begin'["decimator"] = IF ratio # o.ratio THEN taken["decimator"] ELSE begin["decimator"]
          /\ given'["decimator"] = IF ratio # o.ratio THEN 0 ELSE given["decimator"]
          /\ outputs'["decimator"] = <<>>
      BY <1>2, <1>3, <1>4, <1>5
    <2>4. ("decimator" \in short') = ("decimator" \in short /\ ratio = o.ratio)
      BY <1>2, <1>3
    <2> QED
      BY <1>2, <2>2, <2>3, <2>4 DEF DecimatorInv
  <1>7. AudioInv'
    <2>1. DecimatorHolds(af, af.ratio, taken["af"], begin["af"],
                         outputs["af"], given["af"], "af" \in short)
      BY DEF ChainInv, AudioInv
    <2>2. DecimatorHolds(af', o.audio, taken["af"],
                         IF af.ratio # o.audio THEN taken["af"] ELSE begin["af"], <<>>,
                         IF af.ratio # o.audio THEN 0 ELSE given["af"],
                         "af" \in short /\ af.ratio = o.audio)
      <3>1. PICK late : late = ("af" \in short)
        OBVIOUS
      <3>2. DecimatorHolds(af, af.ratio, taken["af"], begin["af"],
                           outputs["af"], given["af"], late)
        BY <2>1, <3>1, Zenon
      <3>3. DecimatorHolds(SetRatio(af, o.audio), o.audio, taken["af"],
                           IF af.ratio # o.audio THEN taken["af"] ELSE begin["af"], <<>>,
                           IF af.ratio # o.audio THEN 0 ELSE given["af"], late /\ af.ratio = o.audio)
        BY <1>1, <3>2, DecimatorHoldsConfigured
      <3> QED
        BY <1>2, <3>1, <3>3, Zenon
    <2>3. /\ begin'["af"] = IF af.ratio # o.audio THEN taken["af"] ELSE begin["af"]
          /\ given'["af"] = IF af.ratio # o.audio THEN 0 ELSE given["af"]
          /\ outputs'["af"] = <<>>
      BY <1>2, <1>3, <1>4, <1>5
    <2>4. ("af" \in short') = ("af" \in short /\ af.ratio = o.audio)
      BY <1>2, <1>3
    <2>5. af'.ratio = o.audio
      BY <2>2, RatioOfDecimator
    <2> QED
      BY <1>2, <2>2, <2>3, <2>4, <2>5 DEF AudioInv
  <1>8. FilterInv'
    <2>1. FilterHolds(filter, filter.kernelSize, taken["filter"], begin["filter"], outputs["filter"])
      BY DEF ChainInv, FilterInv
    <2>2. FilterHolds(filter', o.kernel, taken["filter"],
                      IF filter.kernelSize # o.kernel THEN taken["filter"] ELSE begin["filter"], <<>>)
      BY <1>1, <1>2, <2>1, FilterHoldsConfigured
    <2>3. /\ begin'["filter"] = IF filter.kernelSize # o.kernel THEN taken["filter"] ELSE begin["filter"]
          /\ outputs'["filter"] = <<>>
      BY <1>2, <1>3, <1>5
    <2>4. filter'.kernelSize = o.kernel
      BY <2>2, SizeOfFilter
    <2> QED
      BY <1>2, <2>2, <2>3, <2>4 DEF FilterInv
  <1>9. PhasesInv'
    <2>1. PhasesHold(phases, ratio, taken["interpolator"], begin["interpolator"], outputs["interpolator"])
      BY DEF ChainInv, PhasesInv
    <2>2. PhasesHold(phases', ratio', taken["interpolator"],
                     IF ratio # o.ratio THEN taken["interpolator"] ELSE begin["interpolator"], <<>>)
      BY <1>1, <1>2, <2>1, PhasesHoldConfigured
    <2>3. /\ begin'["interpolator"] = IF ratio # o.ratio THEN taken["interpolator"] ELSE begin["interpolator"]
          /\ outputs'["interpolator"] = <<>>
      BY <1>2, <1>3, <1>5
    <2> QED
      BY <1>2, <2>2, <2>3 DEF PhasesInv
  <1> QED
    BY <1>6, <1>7, <1>8, <1>9 DEF ChainInv

LEMMA SamplesCount ==
  ASSUME NEW s, taken[s] \in Nat, NEW n \in Nat
  PROVE  Counts(Samples(s, n), n, taken[s])
  <1>1. PICK t \in Nat : t = taken[s]
    OBVIOUS
  <1>2. Samples(s, n) = [i \in 1 .. n |-> t + i]
    BY <1>1 DEF Samples
  <1>3. Counts([i \in 1 .. n |-> t + i], n, t)
    BY DEF Counts
  <1> QED
    BY <1>1, <1>2, <1>3, Zenon

LEMMA ChainPushSamples ==
  ASSUME ChainInv, NEW n \in BatchSizes, PushSamples(n)
  PROVE  ChainInv'
  <1>0. n \in Nat
    BY BatchSizesAssumption
  <1> DEFINE decimated == Decimate(decimator, Samples("decimator", n), FALSE)
             filtering == Len(decimated.outputs)
             filtered == FilterBatch(filter, Samples("filter", filtering))
             interpolated == Interpolate(phases, Samples("interpolator", filtering))
             demodulated == Len(interpolated.outputs)
             audio == Decimate(af, Samples("af", demodulated), TRUE)
             inputs == [decimator |-> n, filter |-> filtering,
                        interpolator |-> filtering, af |-> demodulated]
             outs == [decimator |-> decimated.outputs, filter |-> filtered.outputs,
                      interpolator |-> interpolated.outputs, af |-> audio.outputs]
             late == {s \in Decimators : IsShort(IF s = "af" THEN af ELSE decimator, inputs[s])}
  <1>1. /\ decimator' = decimated.decimator
        /\ filter' = filtered.filter
        /\ phases' = interpolated.phases
        /\ af' = audio.decimator
        /\ outputs' = outs
        /\ taken' = [s \in Stages |-> taken[s] + inputs[s]]
        /\ given' = [s \in Decimators |-> given[s] + Len(outputs'[s])]
        /\ short' = short \union late
        /\ ratio' = ratio /\ begin' = begin
    BY Zenon DEF PushSamples
  <1>2. "decimator" \in Decimators /\ "af" \in Decimators
    BY DEF Decimators
  <1>3. /\ "decimator" \in Stages /\ "af" \in Stages
        /\ "filter" \in Stages /\ "interpolator" \in Stages
    BY DEF Stages, Decimators
  <1>4. /\ inputs["decimator"] = n /\ inputs["filter"] = filtering
        /\ inputs["interpolator"] = filtering /\ inputs["af"] = demodulated
    OBVIOUS
  <1>5. /\ outs["decimator"] = decimated.outputs /\ outs["filter"] = filtered.outputs
        /\ outs["interpolator"] = interpolated.outputs /\ outs["af"] = audio.outputs
    OBVIOUS
  <1>6. /\ IsShort(decimator, inputs["decimator"]) => "decimator" \in late
        /\ IsShort(af, inputs["af"]) => "af" \in late
    BY <1>2
  <1> HIDE DEF inputs, outs, late
  <1>7. /\ taken'["decimator"] = taken["decimator"] + n
        /\ taken'["filter"] = taken["filter"] + filtering
        /\ taken'["interpolator"] = taken["interpolator"] + filtering
        /\ taken'["af"] = taken["af"] + demodulated
    <2> HIDE DEF filtering, demodulated
    <2> QED
      BY <1>1, <1>3, <1>4
  <1>8. /\ outputs'["decimator"] = decimated.outputs
        /\ outputs'["filter"] = filtered.outputs
        /\ outputs'["interpolator"] = interpolated.outputs
        /\ outputs'["af"] = audio.outputs
    <2> HIDE DEF decimated, filtered, interpolated, audio
    <2> QED
      BY <1>1, <1>5
  <1>9. /\ given'["decimator"] = given["decimator"] + Len(decimated.outputs)
        /\ given'["af"] = given["af"] + Len(audio.outputs)
    <2> HIDE DEF decimated, filtered, interpolated, audio
    <2> QED
      BY <1>1, <1>2, <1>8
  <1>10. DecimatorInv /\ AudioInv /\ FilterInv /\ PhasesInv
    BY DEF ChainInv
  <1>11. DecimatorInv' /\ filtering \in Nat
    <2> DEFINE x == Samples("decimator", n)
    <2>1. PICK l : l = ("decimator" \in short)
      OBVIOUS
    <2>2. DecimatorHolds(decimator, ratio, taken["decimator"], begin["decimator"],
                         outputs["decimator"], given["decimator"], l)
      BY <1>10, <2>1, Zenon DEF DecimatorInv
    <2>3. Counts(x, n, taken["decimator"])
      <3>1. taken["decimator"] \in Nat
        BY <2>2 DEF DecimatorHolds
      <3> QED
        BY <1>0, <3>1, SamplesCount
    <2> HIDE DEF x
    <2>9. PICK ip : ip = FALSE
      OBVIOUS
    <2>4. /\ DecimatorHolds(Decimate(decimator, x, ip).decimator, ratio,
                            taken["decimator"] + n, begin["decimator"],
                            Decimate(decimator, x, ip).outputs,
                            given["decimator"] + Len(Decimate(decimator, x, ip).outputs),
                            l \/ IsShort(decimator, n))
          /\ Len(Decimate(decimator, x, ip).outputs) \in Nat
      BY <1>0, <2>2, <2>3, DecimatorHoldsAfterBatch
    <2>5. Decimate(decimator, x, ip) = decimated
      BY <2>9, Zenon DEF x
    <2> HIDE DEF decimated
    <2>6. "decimator" \notin short' => ~ (l \/ IsShort(decimator, n))
      BY <1>1, <1>4, <1>6, <2>1
    <2>7. DecimatorHolds(decimator', ratio', taken'["decimator"], begin'["decimator"],
                         outputs'["decimator"], given'["decimator"], "decimator" \in short')
      <3>1. DecimatorHolds(decimator', ratio', taken'["decimator"], begin'["decimator"],
                           outputs'["decimator"], given'["decimator"], l \/ IsShort(decimator, n))
        BY <1>1, <1>7, <1>8, <1>9, <2>4, <2>5, Zenon
      <3> QED
        BY <2>6, <3>1, Zenon DEF DecimatorHolds
    <2>8. Len(decimated.outputs) \in Nat
      BY <2>4, <2>5, Zenon
    <2> QED
      BY <2>7, <2>8 DEF DecimatorInv
  <1> HIDE DEF filtering
  <1>12. FilterInv'
    <2> DEFINE x == Samples("filter", filtering)
    <2>1. FilterHolds(filter, filter.kernelSize, taken["filter"], begin["filter"], outputs["filter"])
      BY <1>10 DEF FilterInv
    <2>2. Counts(x, filtering, taken["filter"])
      <3>1. taken["filter"] \in Nat
        BY <2>1 DEF FilterHolds
      <3> QED
        BY <1>11, <3>1, SamplesCount
    <2> HIDE DEF x
    <2>3. FilterHolds(FilterBatch(filter, x).filter, filter.kernelSize, taken["filter"] + filtering,
                      begin["filter"], FilterBatch(filter, x).outputs)
      BY <1>11, <2>1, <2>2, FilterHoldsAfterBatch
    <2>4. FilterBatch(filter, x) = filtered
      BY Zenon DEF x
    <2>5. FilterHolds(filter', filter.kernelSize, taken'["filter"], begin'["filter"], outputs'["filter"])
      <3> HIDE DEF filtered
      <3> QED
        BY <1>1, <1>7, <1>8, <2>3, <2>4, Zenon
    <2>6. filter'.kernelSize = filter.kernelSize
      BY <2>5, SizeOfFilter
    <2> QED
      BY <2>5, <2>6, Zenon DEF FilterInv
  <1>13. PhasesInv' /\ demodulated \in Nat
    <2> DEFINE x == Samples("interpolator", filtering)
    <2>1. PhasesHold(phases, ratio, taken["interpolator"], begin["interpolator"], outputs["interpolator"])
      BY <1>10 DEF PhasesInv
    <2>2. Counts(x, filtering, taken["interpolator"])
      <3>1. taken["interpolator"] \in Nat
        BY <2>1 DEF PhasesHold
      <3> QED
        BY <1>11, <3>1, SamplesCount
    <2> HIDE DEF x
    <2>3. /\ PhasesHold(Interpolate(phases, x).phases, ratio, taken["interpolator"] + filtering,
                        begin["interpolator"], Interpolate(phases, x).outputs)
          /\ Len(Interpolate(phases, x).outputs) \in Nat
      BY <1>11, <2>1, <2>2, PhasesHoldAfterBatch
    <2>4. Interpolate(phases, x) = interpolated
      BY Zenon DEF x
    <2> HIDE DEF interpolated
    <2>5. PhasesHold(phases', ratio', taken'["interpolator"], begin'["interpolator"], outputs'["interpolator"])
      BY <1>1, <1>7, <1>8, <2>3, <2>4, Zenon
    <2>6. Len(interpolated.outputs) \in Nat
      BY <2>3, <2>4, Zenon
    <2> QED
      BY <2>5, <2>6 DEF PhasesInv
  <1> HIDE DEF demodulated
  <1>14. AudioInv'
    <2> DEFINE x == Samples("af", demodulated)
    <2>1. PICK l : l = ("af" \in short)
      OBVIOUS
    <2>2. DecimatorHolds(af, af.ratio, taken["af"], begin["af"], outputs["af"], given["af"], l)
      BY <1>10, <2>1, Zenon DEF AudioInv
    <2>3. Counts(x, demodulated, taken["af"])
      <3>1. taken["af"] \in Nat
        BY <2>2 DEF DecimatorHolds
      <3> QED
        BY <1>13, <3>1, SamplesCount
    <2> HIDE DEF x
    <2>9. PICK ip : ip = TRUE
      OBVIOUS
    <2>4. DecimatorHolds(Decimate(af, x, ip).decimator, af.ratio, taken["af"] + demodulated,
                         begin["af"], Decimate(af, x, ip).outputs,
                         given["af"] + Len(Decimate(af, x, ip).outputs),
                         l \/ IsShort(af, demodulated))
      BY <1>13, <2>2, <2>3, DecimatorHoldsAfterBatch
    <2>5. Decimate(af, x, ip) = audio
      BY <2>9, Zenon DEF x
    <2> HIDE DEF audio
    <2>6. "af" \notin short' => ~ (l \/ IsShort(af, demodulated))
      BY <1>1, <1>4, <1>6, <2>1
    <2>7. DecimatorHolds(af', af.ratio, taken'["af"], begin'["af"], outputs'["af"], given'["af"],
                         "af" \in short')
      <3>1. DecimatorHolds(af', af.ratio, taken'["af"], begin'["af"], outputs'["af"], given'["af"],
                           l \/ IsShort(af, demodulated))
        BY <1>1, <1>7, <1>8, <1>9, <2>4, <2>5, Zenon
      <3> QED
        BY <2>6, <3>1, Zenon DEF DecimatorHolds
    <2>8. af'.ratio = af.ratio
      BY <2>7, RatioOfDecimator
    <2> QED
      BY <2>7, <2>8, Zenon DEF AudioInv
  <1> QED
    BY <1>11, <1>12, <1>13, <1>14 DEF ChainInv

\* In every reachable state, whatever the options and the batches have been, the
\* ring buffers of every stage hold its latest samples and the decimators have
\* counted the samples that wait.
THEOREM ChainAlwaysHolds == Spec => []ChainInv
  <1>1. ChainInv /\ [Next]_vars => ChainInv'
    <2> SUFFICES ASSUME ChainInv, [Next]_vars PROVE ChainInv'
      OBVIOUS
    <2>1. CASE \E o \in Options : Configure(o)
      BY <2>1, ChainConfigure
    <2>2. CASE \E n \in BatchSizes : PushSamples(n)
      BY <2>2, ChainPushSamples
    <2>3. CASE UNCHANGED vars
      BY <2>3 DEF vars, ChainInv, DecimatorInv, AudioInv, FilterInv, PhasesInv
    <2> QED
      BY <2>1, <2>2, <2>3 DEF Next
  <1> QED
    BY ChainInit, <1>1, PTL DEF Spec

--------------------------------------------------------------------------------
(* What the chain promises.                                                 *)

LEMMA DecimatedOfHolding ==
  ASSUME NEW d, NEW r, NEW s, NEW late,
         DecimatorHolds(d, r, taken[s], begin[s], outputs[s], given[s], late)
  PROVE  DecimatedOf(d, s) /\ (~ late => OnTime(d, s))
  <1>1. PICK t, b, g, o : t = taken[s] /\ b = begin[s] /\ g = given[s] /\ o = outputs[s]
    OBVIOUS
  <1>2. DecimatorHolds(d, r, t, b, o, g, late)
    BY <1>1
  <1>3. /\ r \in Nat \ {0} /\ t \in Nat /\ b \in Nat /\ g \in Nat /\ Len(o) \in Nat
        /\ DOMAIN o = 1 .. Len(o) /\ d.ratio = r
    BY <1>2, RatioOfDecimator DEF DecimatorHolds
  <1>4. PICK u \in 0 .. r - 1 : u = d.unprocessed
    BY <1>2 DEF DecimatorHolds, KnownDecimator, DecimatorsOf
  <1>5. ASSUME NEW k \in DOMAIN o
        PROVE  LatestIn(o[k], t - u - r * (Len(o) - k), (t - u - r * (Len(o) - k)) - b)
    <2>1. PICK l \in Nat : l = Len(o) - k
      BY <1>3
    <2>2. PICK h \in Nat : h = r * (Len(o) - k)
      BY <1>3, <2>1
    <2>3. (t - b) - u - h = (t - u - h) - b
      BY <1>3
    <2>4. LatestIn(o[k], t - u - r * (Len(o) - k), (t - b) - u - r * (Len(o) - k))
      BY <1>2, <1>4 DEF DecimatorHolds, DecimatedInOrder
    <2>5. LatestIn(o[k], t - u - h, (t - b) - u - h)
      BY <2>2, <2>4
    <2> QED
      BY <2>2, <2>3, <2>5
  <1>6. DecimatedOf(d, s)
    BY <1>1, <1>3, <1>4, <1>5, Zenon DEF DecimatedOf
  <1>7. ASSUME ~ late PROVE OnTime(d, s)
    <2>1. t - b = r * g + u
      BY <1>2, <1>4, <1>7 DEF DecimatorHolds, InTime
    <2>2. (r * g + u) \div r = g
      BY <1>3, DivisionIs
    <2>3. (t - b) \div r = g
      BY <2>1, <2>2, Zenon
    <2> QED
      BY <1>1, <1>3, <2>3, Zenon DEF OnTime
  <1> QED
    BY <1>6, <1>7

LEMMA LatestSamplesOfChain == ChainInv => OutputsOfLatestSamples
  <1> SUFFICES ASSUME ChainInv PROVE OutputsOfLatestSamples
    OBVIOUS
  <1>0. DecimatorInv /\ AudioInv /\ FilterInv /\ PhasesInv
    BY DEF ChainInv
  <1>1. DecimatedOf(decimator, "decimator")
    <2>1. PICK l : l = ("decimator" \in short)
      OBVIOUS
    <2>2. DecimatorHolds(decimator, ratio, taken["decimator"], begin["decimator"],
                         outputs["decimator"], given["decimator"], l)
      BY <1>0, <2>1, Zenon DEF DecimatorInv
    <2> QED
      BY <2>2, DecimatedOfHolding
  <1>2. DecimatedOf(af, "af")
    <2>1. PICK l : l = ("af" \in short)
      OBVIOUS
    <2>2. DecimatorHolds(af, af.ratio, taken["af"], begin["af"], outputs["af"], given["af"], l)
      BY <1>0, <2>1, Zenon DEF AudioInv
    <2> QED
      BY <2>2, DecimatedOfHolding
  <1>3. \A k \in DOMAIN outputs["filter"] :
           LET newest == taken["filter"] - Len(outputs["filter"]) + k
           IN  LatestIn(Reverse(outputs["filter"][k]), newest, newest - begin["filter"])
    <2>1. PICK t, b, o : t = taken["filter"] /\ b = begin["filter"] /\ o = outputs["filter"]
      OBVIOUS
    <2>2. FilterHolds(filter, filter.kernelSize, t, b, o)
      BY <1>0, <2>1 DEF FilterInv
    <2>3. t \in Nat /\ b \in Nat /\ Len(o) \in Nat /\ DOMAIN o = 1 .. Len(o)
      BY <2>2 DEF FilterHolds
    <2>4. ASSUME NEW k \in DOMAIN o
          PROVE  LatestIn(Reverse(o[k]), t - Len(o) + k, (t - Len(o) + k) - b)
      <3>1. LatestIn(Reverse(o[k]), t - Len(o) + k, (t - b) - Len(o) + k)
        BY <2>2 DEF FilterHolds, FilteredInOrder
      <3>2. (t - b) - Len(o) + k = (t - Len(o) + k) - b
        BY <2>3
      <3> QED
        BY <3>1, <3>2
    <2> QED
      BY <2>1, <2>4, Zenon
  <1>4. \A k \in DOMAIN outputs["interpolator"] :
           LET n == Len(outputs["interpolator"]) \div ratio
               newest == taken["interpolator"] - n + (k - 1) \div ratio + 1
           IN  LatestIn(Reverse(outputs["interpolator"][k]), newest,
                        newest - begin["interpolator"])
    <2>1. PICK t, b, o : /\ t = taken["interpolator"] /\ b = begin["interpolator"]
                         /\ o = outputs["interpolator"]
      OBVIOUS
    <2>2. PhasesHold(phases, ratio, t, b, o)
      BY <1>0, <2>1 DEF PhasesInv
    <2>3. /\ t \in Nat /\ b \in Nat /\ Len(o) \in Nat /\ DOMAIN o = 1 .. Len(o)
          /\ ratio \in Nat \ {0}
      BY <2>2 DEF PhasesHold
    <2>4. ASSUME NEW k \in DOMAIN o
          PROVE  LatestIn(Reverse(o[k]), t - Len(o) \div ratio + (k - 1) \div ratio + 1,
                          (t - Len(o) \div ratio + (k - 1) \div ratio + 1) - b)
      <3>1. LatestIn(Reverse(o[k]), t - Len(o) \div ratio + ((k - 1) \div ratio + 1),
                                    (t - b) - Len(o) \div ratio + ((k - 1) \div ratio + 1))
        BY <2>2 DEF PhasesHold, InterpolatedInOrder
      <3>2. PICK m \in Nat : m = k - 1
        BY <2>3
      <3>3. PICK p \in Nat : p = m \div ratio
        BY <2>3, Division, Zenon
      <3>4. PICK n \in Nat : n = Len(o) \div ratio
        BY <2>3, Division, Zenon
      <3>5. t - n + (p + 1) = t - n + p + 1 /\ (t - b) - n + (p + 1) = (t - n + p + 1) - b
        BY <2>3
      <3>6. LatestIn(Reverse(o[k]), t - n + (p + 1), (t - b) - n + (p + 1))
        BY <3>1, <3>2, <3>3, <3>4, Zenon
      <3>7. LatestIn(Reverse(o[k]), t - n + p + 1, (t - n + p + 1) - b)
        BY <3>5, <3>6, Zenon
      <3> QED
        BY <3>2, <3>3, <3>4, <3>7, Zenon
    <2> QED
      BY <2>1, <2>4, Zenon
  <1> QED
    BY <1>1, <1>2, <1>3, <1>4, Zenon DEF OutputsOfLatestSamples

\* Every output of a decimator, of the filter and of the interpolator is
\* computed from the latest samples, in order, whatever the options, the number
\* of taps and the sizes of the batches.
THEOREM OutputsAlwaysOfLatestSamples == Spec => []OutputsOfLatestSamples
  BY ChainAlwaysHolds, LatestSamplesOfChain, PTL

LEMMA OnTimeOfChain == ChainInv => OutputsOnTime
  <1> SUFFICES ASSUME ChainInv PROVE OutputsOnTime
    OBVIOUS
  <1>0. DecimatorInv /\ AudioInv
    BY DEF ChainInv
  <1>1. "decimator" \notin short => OnTime(decimator, "decimator")
    <2>1. PICK l : l = ("decimator" \in short)
      OBVIOUS
    <2>2. DecimatorHolds(decimator, ratio, taken["decimator"], begin["decimator"],
                         outputs["decimator"], given["decimator"], l)
      BY <1>0, <2>1, Zenon DEF DecimatorInv
    <2>3. ~ l => OnTime(decimator, "decimator")
      BY <2>2, DecimatedOfHolding
    <2> QED
      BY <2>1, <2>3, Zenon
  <1>2. "af" \notin short => OnTime(af, "af")
    <2>1. PICK l : l = ("af" \in short)
      OBVIOUS
    <2>2. DecimatorHolds(af, af.ratio, taken["af"], begin["af"], outputs["af"], given["af"], l)
      BY <1>0, <2>1, Zenon DEF AudioInv
    <2>3. PICK r : r = af.ratio
      OBVIOUS
    <2>4. DecimatorHolds(af, r, taken["af"], begin["af"], outputs["af"], given["af"], l)
      BY <2>2, <2>3, Zenon
    <2>5. ~ l => OnTime(af, "af")
      BY <2>4, DecimatedOfHolding
    <2> QED
      BY <2>1, <2>5, Zenon
  <1> QED
    BY <1>1, <1>2 DEF OutputsOnTime

\* A decimator which never got a batch that was too small for the samples that
\* waited gives an output with every ratio-th sample.
THEOREM OutputsAlwaysOnTime == Spec => []OutputsOnTime
  BY ChainAlwaysHolds, OnTimeOfChain, PTL

--------------------------------------------------------------------------------
(* The samples one by one.                                                  *)

Singles(r) == [decimator : DecimatorsOf(r), outputs : Seq(Seq(Int))]

SingleStep(p, v) ==
  [decimator |-> DecimateSample(p.decimator, v).decimator,
   outputs |-> p.outputs \o DecimateSample(p.decimator, v).outputs]

LEMMA SampleIs ==
  ASSUME NEW r \in Nat \ {0, 1}, NEW d \in DecimatorsOf(r), NEW v \in Int,
         NEW b, b = PushBackMultiple(d.stored, <<v>>), NEW u, u = d.unprocessed
  PROVE  /\ b \in Rings(KernelSize(r))
         /\ u + 1 = r => DecimateSample(d, v) =
              [decimator |-> [ratio |-> r, stored |-> b, unprocessed |-> 0],
               outputs |-> <<StoredWindow(b)>>]
         /\ u + 1 # r => DecimateSample(d, v) =
              [decimator |-> [ratio |-> r, stored |-> b, unprocessed |-> u + 1],
               outputs |-> <<>>]
  <1>1. PICK s \in Rings(KernelSize(r)) : s = d.stored
    BY DEF DecimatorsOf
  <1>2. u \in 0 .. r - 1 /\ d = [ratio |-> r, stored |-> s, unprocessed |-> u]
    BY <1>1 DEF DecimatorsOf
  <1>3. PICK k \in Nat \ {0} : k = KernelSize(r)
    BY KernelSizeType
  <1>4. PushBack(s, v) = b
    BY <1>1, <1>3, PushedOne
  <1>5. b \in Rings(k)
    <2>1. <<v>> \in Seq(Int)
      OBVIOUS
    <2> QED
      BY <1>1, <1>3, <2>1, PushedMany
  <1>6. d.ratio # 1 /\ d.ratio = r /\ d.stored = s /\ d.unprocessed = u
    BY <1>2
  <1> DEFINE following == IF d.unprocessed + 1 = d.ratio THEN 0 ELSE d.unprocessed + 1
             pushed == PushBack(d.stored, v)
             z1 == [d EXCEPT !.stored = pushed]
             z2 == [z1 EXCEPT !.unprocessed = following]
             y == IF d.unprocessed + 1 = d.ratio THEN <<StoredWindow(pushed)>> ELSE <<>>
  <1>11. DecimateSample(d, v) =
           [decimator |-> [d EXCEPT !.stored = pushed, !.unprocessed = following], outputs |-> y]
    BY <1>6 DEF DecimateSample
  <1>12. pushed = b
    BY <1>4, <1>6
  <1>13. [d EXCEPT !.stored = pushed, !.unprocessed = following] = z2
    BY Zenon
  <1> HIDE DEF pushed, following
  <1>14. z1 = [ratio |-> r, stored |-> b, unprocessed |-> u]
    <2>1. d = [ratio |-> r, stored |-> s, unprocessed |-> u]
      BY <1>2
    <2>2. [[ratio |-> r, stored |-> s, unprocessed |-> u] EXCEPT !.stored = b] =
            [ratio |-> r, stored |-> b, unprocessed |-> u]
      OBVIOUS
    <2> QED
      BY <1>12, <2>1, <2>2, Zenon
  <1> HIDE DEF z1
  <1>15. z2 = [ratio |-> r, stored |-> b, unprocessed |-> following]
    BY <1>14
  <1> HIDE DEF z2
  <1>16. DecimateSample(d, v) = [decimator |-> z2, outputs |-> y]
    BY <1>11, <1>13, Zenon
  <1>9. CASE u + 1 = r
    <2>1. following = 0 /\ y = <<StoredWindow(b)>>
      BY <1>6, <1>9, <1>12 DEF following
    <2> HIDE DEF y
    <2> QED
      BY <1>3, <1>5, <1>9, <1>15, <1>16, <2>1
  <1>10. CASE u + 1 # r
    <2>1. following = u + 1 /\ y = <<>>
      BY <1>6, <1>10 DEF following
    <2> HIDE DEF y
    <2> QED
      BY <1>3, <1>5, <1>10, <1>15, <1>16, <2>1
  <1> QED
    BY <1>9, <1>10

LEMMA SingleStepType ==
  ASSUME NEW r \in Nat \ {0}, NEW p \in Singles(r), NEW v \in Int
  PROVE  SingleStep(p, v) \in Singles(r)
  <1>1. PICK d \in DecimatorsOf(r), o \in Seq(Seq(Int)) : d = p.decimator /\ o = p.outputs
    BY DEF Singles
  <1>2. d.ratio = r /\ d.stored \in Rings(KernelSize(r))
    BY DEF DecimatorsOf
  <1>3. PICK e, y : e = DecimateSample(d, v).decimator /\ y = DecimateSample(d, v).outputs
    OBVIOUS
  <1>4. e \in DecimatorsOf(r) /\ y \in Seq(Seq(Int))
    <2>1. CASE r = 1
      <3>1. DecimateSample(d, v) = [decimator |-> d, outputs |-> << <<v>> >>]
        BY <1>2, <2>1 DEF DecimateSample
      <3> QED
        BY <1>3, <3>1
    <2>2. CASE r # 1
      <3>1. PICK b : b = PushBackMultiple(d.stored, <<v>>)
        OBVIOUS
      <3>2. PICK u \in 0 .. r - 1 : u = d.unprocessed
        BY DEF DecimatorsOf
      <3>3. /\ b \in Rings(KernelSize(r))
            /\ u + 1 = r => DecimateSample(d, v) =
                 [decimator |-> [ratio |-> r, stored |-> b, unprocessed |-> 0],
                  outputs |-> <<StoredWindow(b)>>]
            /\ u + 1 # r => DecimateSample(d, v) =
                 [decimator |-> [ratio |-> r, stored |-> b, unprocessed |-> u + 1],
                  outputs |-> <<>>]
        BY <2>2, <3>1, <3>2, SampleIs
      <3>4. PICK z : z = StoredWindow(b)
        OBVIOUS
      <3>5. z \in Seq(Int)
        <4>1. PICK k \in Nat \ {0} : k = KernelSize(r)
          BY KernelSizeType
        <4>2. z \in [1 .. k -> Int]
          BY <3>3, <3>4, <4>1, WindowOfRing
        <4> QED
          BY <4>2, FunctionIsSeq
      <3>6. CASE u + 1 = r
        <4>1. e = [ratio |-> r, stored |-> b, unprocessed |-> 0] /\ y = <<z>>
          BY <1>3, <3>3, <3>4, <3>6
        <4>2. 0 \in 0 .. r - 1
          OBVIOUS
        <4> QED
          BY <3>3, <3>5, <4>1, <4>2 DEF DecimatorsOf
      <3>7. CASE u + 1 # r
        <4>1. e = [ratio |-> r, stored |-> b, unprocessed |-> u + 1] /\ y = <<>>
          BY <1>3, <3>3, <3>7
        <4>2. u + 1 \in 0 .. r - 1
          BY <3>7
        <4> QED
          BY <3>3, <4>1, <4>2 DEF DecimatorsOf
      <3> QED
        BY <3>6, <3>7
    <2> QED
      BY <2>1, <2>2
  <1>5. o \o y \in Seq(Seq(Int))
    BY <1>4, ConcatProperties
  <1>6. SingleStep(p, v) = [decimator |-> e, outputs |-> o \o y]
    BY <1>1, <1>3 DEF SingleStep
  <1> QED
    BY <1>4, <1>5, <1>6 DEF Singles

\* Each sample leads from one of some sets to the next one.
LeadsBySamples(I, r, n, x) ==
  \A k \in 1 .. n : \A p \in Singles(r) : p \in I[k - 1] => SingleStep(p, x[k]) \in I[k]

LEMMA SinglesRun ==
  ASSUME NEW r \in Nat \ {0}, NEW d \in DecimatorsOf(r), NEW N \in Nat,
         NEW x \in [1 .. N -> Int], NEW I, LeadsBySamples(I, r, N, x),
         NEW b, b = [decimator |-> d, outputs |-> <<>>], b \in I[0]
  PROVE  OneByOne(d, x) \in Singles(r) /\ OneByOne(d, x) \in I[N]
  <1> DEFINE S == Singles(r)
             Solves(it) == it = [s \in SUBSET DOMAIN x |->
                                  IF s = {} THEN [decimator |-> d, outputs |-> <<>>]
                                  ELSE LET y == Max(s) IN SingleStep(it[s \ {y}], x[y])]
             g == [q \in S \X (1 .. N) |-> SingleStep(q[1], x[q[2]])]
             i == CHOOSE it : Solves(it)
  <1>1. OneByOne(d, x) = i[DOMAIN x]
    BY Zenon DEF OneByOne, FoldLeft, MapThenFoldSet, SingleStep
  <1>2. DOMAIN x = 1 .. N
    OBVIOUS
  <1>8. b \in S
    BY DEF Singles
  <1>3. \A it : Solves(it) <=> it = [s \in SUBSET (1 .. N) |->
                                  IF s = {} THEN b
                                  ELSE LET y == Max(s) IN SingleStep(it[s \ {y}], x[y])]
    BY <1>2
  <1>9. \A q \in S : \A k \in 1 .. N : SingleStep(q, x[k]) \in S
    BY SingleStepType
  <1> HIDE DEF S
  <1>11. g \in [S \X (1 .. N) -> S] /\ \A q \in S : \A k \in 1 .. N : g[<<q, k>>] = SingleStep(q, x[k])
    BY <1>9
  <1> HIDE DEF g
  <1>12. PICK h \in [SUBSET (1 .. N) -> S] : FoldOf(h, b, N, g)
    BY <1>8, <1>11, FoldExists
  <1>13. \A s \in SUBSET (1 .. N) : s # {} => Max(s) \in 1 .. N
    BY GreatestOfSome
  <1>14. Solves(h)
    <2>1. ASSUME NEW s \in SUBSET (1 .. N), s # {}
          PROVE  g[<<h[s \ {Max(s)}], Max(s)>>] = SingleStep(h[s \ {Max(s)}], x[Max(s)])
      <3>1. Max(s) \in 1 .. N
        BY <1>13, <2>1
      <3>2. h[s \ {Max(s)}] \in S
        OBVIOUS
      <3> QED
        BY <1>11, <3>1, <3>2
    <2>2. h = [s \in SUBSET (1 .. N) |->
                  IF s = {} THEN b ELSE LET y == Max(s) IN SingleStep(h[s \ {y}], x[y])]
      BY <1>12, <2>1 DEF FoldOf
    <2> HIDE DEF Solves
    <2> QED
      BY <1>3, <2>2, Zenon
  <1>15. i = [s \in SUBSET (1 .. N) |->
                IF s = {} THEN b ELSE LET y == Max(s) IN SingleStep(i[s \ {y}], x[y])]
    <2>1. Solves(i)
      BY <1>14
    <2> HIDE DEF Solves, i
    <2> QED
      BY <1>3, <2>1, Zenon
  <1> HIDE DEF i, Solves
  <1>16. i[{}] = b
    BY <1>15
  <1>17. FoldedWith(i, b, N, g, S)
    <2>1. ASSUME NEW s \in SUBSET (1 .. N), s # {}, i[s \ {Max(s)}] \in S
          PROVE  i[s] = g[<<i[s \ {Max(s)}], Max(s)>>]
      <3>1. Max(s) \in 1 .. N
        BY <1>13, <2>1
      <3>2. i[s] = SingleStep(i[s \ {Max(s)}], x[Max(s)])
        BY <1>15, <2>1
      <3>3. g[<<i[s \ {Max(s)}], Max(s)>>] = SingleStep(i[s \ {Max(s)}], x[Max(s)])
        BY <1>11, <2>1, <3>1
      <3> QED
        BY <3>2, <3>3
    <2> QED
      BY <1>16, <2>1 DEF FoldedWith
  <1>19. LeadsThrough(g, I, N, S)
    <2> SUFFICES ASSUME NEW k \in 1 .. N, NEW q \in S, q \in I[k - 1]
                 PROVE  g[<<q, k>>] \in I[k]
      BY DEF LeadsThrough
    <2>1. SingleStep(q, x[k]) \in I[k]
      BY DEF LeadsBySamples, S
    <2> QED
      BY <1>11, <2>1
  <1>20. i[1 .. N] \in S /\ i[1 .. N] \in I[N]
    BY <1>8, <1>11, <1>17, <1>19, FoldWithin
  <1> QED
    BY <1>1, <1>2, <1>20 DEF S

SingleOutputs(p, r, u, w, x, i) ==
  /\ HoldsLatest(p.decimator.stored, KernelSize(r), w, x, i)
  /\ u + i = r * Len(p.outputs) + p.decimator.unprocessed
  /\ \A k \in 1 .. Len(p.outputs) : p.outputs[k] = After(w, x, r * k - u)

LEMMA SingleStepOutputs ==
  ASSUME NEW r \in Nat \ {0, 1}, NEW u \in 0 .. r - 1,
         NEW w \in [1 .. KernelSize(r) -> Int], NEW n \in Nat, NEW x \in [1 .. n -> Int],
         NEW i \in Nat, i + 1 <= n,
         NEW p \in Singles(r), SingleOutputs(p, r, u, w, x, i)
  PROVE  SingleOutputs(SingleStep(p, x[i + 1]), r, u, w, x, i + 1)
  <1>1. PICK d \in DecimatorsOf(r), o \in Seq(Seq(Int)) : d = p.decimator /\ o = p.outputs
    BY DEF Singles
  <1>2. PICK m \in 0 .. r - 1, J \in Nat : m = d.unprocessed /\ J = Len(o)
    BY LenProperties DEF DecimatorsOf
  <1>3. /\ HoldsLatest(d.stored, KernelSize(r), w, x, i)
        /\ u + i = r * J + m
        /\ \A k \in 1 .. J : o[k] = After(w, x, r * k - u)
    BY <1>1, <1>2 DEF SingleOutputs
  <1>4. PICK v \in Int : v = x[i + 1]
    OBVIOUS
  <1>5. PICK b : b = PushBackMultiple(d.stored, <<v>>)
    OBVIOUS
  <1>6. HoldsLatest(b, KernelSize(r), w, x, i + 1)
    <2>1. PICK h \in Nat : h = KernelSize(r) /\ h # 0
      BY KernelSizeType
    <2>2. PICK y : y = <<v>>
      OBVIOUS
    <2>3. Continues(y, 1, x, i)
      <3>1. <<v>> \in [1 .. 1 -> Int] /\ <<v>>[1] = v
        OBVIOUS
      <3>2. \A j \in 1 .. 1 : <<v>>[j] = x[i + j]
        BY <1>4, <3>1
      <3> QED
        BY <2>2, <3>1, <3>2, Zenon DEF Continues
    <2>4. HoldsLatest(d.stored, h, w, x, i)
      BY <1>3, <2>1
    <2>5. w \in [1 .. h -> Int] /\ 1 \in Nat
      BY <2>1
    <2>6. HoldsLatest(PushBackMultiple(d.stored, y), h, w, x, i + 1)
      BY <2>1, <2>3, <2>4, <2>5, PushedLatest
    <2> QED
      BY <1>5, <2>1, <2>2, <2>6
  <1>7. /\ m + 1 = r => DecimateSample(d, v) =
             [decimator |-> [ratio |-> r, stored |-> b, unprocessed |-> 0],
              outputs |-> <<StoredWindow(b)>>]
        /\ m + 1 # r => DecimateSample(d, v) =
             [decimator |-> [ratio |-> r, stored |-> b, unprocessed |-> m + 1],
              outputs |-> <<>>]
    BY <1>2, <1>5, SampleIs
  <1> DEFINE q == SingleStep(p, v)
  <1>8. q = [decimator |-> DecimateSample(d, v).decimator,
             outputs |-> o \o DecimateSample(d, v).outputs]
    BY <1>1 DEF SingleStep
  <1> HIDE DEF q
  <1>9. PICK z \in Nat : z = r * J
    OBVIOUS
  <1>10. CASE m + 1 = r
    <2>1. PICK y : y = StoredWindow(b)
      OBVIOUS
    <2>2. y = After(w, x, i + 1)
      BY <1>6, <2>1 DEF HoldsLatest
    <2>3. y \in Seq(Int)
      <3>1. PICK h \in Nat \ {0} : h = KernelSize(r)
        BY KernelSizeType
      <3>2. b \in Rings(h)
        BY <1>6, <3>1 DEF HoldsLatest
      <3>3. y \in [1 .. h -> Int]
        BY <2>1, <3>2, WindowOfRing
      <3> QED
        BY <3>3, FunctionIsSeq
    <2>4. DecimateSample(d, v) = [decimator |-> [ratio |-> r, stored |-> b, unprocessed |-> 0],
                                  outputs |-> <<y>>]
      BY <1>7, <1>10, <2>1
    <2>5. q.decimator = [ratio |-> r, stored |-> b, unprocessed |-> 0] /\ q.outputs = o \o <<y>>
      BY <1>8, <2>4
    <2>6. /\ Len(o \o <<y>>) = J + 1 /\ (o \o <<y>>)[J + 1] = y
          /\ \A k \in 1 .. J : (o \o <<y>>)[k] = o[k]
      <3>1. <<y>> \in Seq(Seq(Int)) /\ Len(<<y>>) = 1 /\ <<y>>[1] = y
        BY <2>3
      <3>2. /\ Len(o \o <<y>>) = J + 1
            /\ \A k \in 1 .. J + 1 : (o \o <<y>>)[k] = IF k <= J THEN o[k] ELSE <<y>>[k - J]
        <4>1. PICK s \in Seq(Seq(Int)) : s = <<y>> /\ Len(s) = 1
          BY <3>1
        <4>2. /\ Len(o \o s) = J + 1
              /\ \A k \in 1 .. J + 1 : (o \o s)[k] = IF k <= J THEN o[k] ELSE s[k - J]
          BY <1>2, <4>1, ConcatProperties
        <4> QED
          BY <4>1, <4>2
      <3>3. ASSUME NEW k \in 1 .. J PROVE (o \o <<y>>)[k] = o[k]
        <4>1. k \in 1 .. J + 1 /\ k <= J
          OBVIOUS
        <4> QED
          BY <3>2, <4>1
      <3>4. (o \o <<y>>)[J + 1] = y
        <4>1. J + 1 \in 1 .. J + 1 /\ ~ (J + 1 <= J) /\ (J + 1) - J = 1
          OBVIOUS
        <4> QED
          BY <3>1, <3>2, <4>1
      <3> QED
        BY <3>2, <3>3, <3>4
    <2>7. r * (J + 1) = z + r
      BY <1>9
    <2>8. u + (i + 1) = r * (J + 1) + 0 /\ r * (J + 1) - u = i + 1
      BY <1>3, <1>9, <1>10, <2>7
    <2>9. ASSUME NEW k \in 1 .. J + 1 PROVE (o \o <<y>>)[k] = After(w, x, r * k - u)
      <3>1. CASE k = J + 1
        BY <2>2, <2>6, <2>8, <3>1
      <3>2. CASE k # J + 1
        <4>1. k \in 1 .. J
          BY <3>2
        <4> QED
          BY <1>3, <2>6, <4>1
      <3> QED
        BY <3>1, <3>2
    <2>10. q.decimator.stored = b /\ q.decimator.unprocessed = 0
      BY <2>5
    <2>11. SingleOutputs(q, r, u, w, x, i + 1)
      BY <1>6, <2>5, <2>6, <2>8, <2>9, <2>10 DEF SingleOutputs
    <2> QED
      BY <1>4, <2>11 DEF q
  <1>11. CASE m + 1 # r
    <2>1. q.decimator = [ratio |-> r, stored |-> b, unprocessed |-> m + 1] /\ q.outputs = o \o <<>>
      BY <1>7, <1>8, <1>11
    <2>2. o \o <<>> = o
      OBVIOUS
    <2>3. u + (i + 1) = r * J + (m + 1)
      BY <1>3, <1>9
    <2>4. q.decimator.stored = b /\ q.decimator.unprocessed = m + 1 /\ q.outputs = o
      BY <2>1, <2>2
    <2>5. SingleOutputs(q, r, u, w, x, i + 1)
      BY <1>2, <1>3, <1>6, <2>3, <2>4 DEF SingleOutputs
    <2> QED
      BY <1>4, <2>5 DEF q
  <1> QED
    BY <1>10, <1>11

LEMMA SinglesOfSamples ==
  ASSUME NEW r \in Nat \ {0, 1}, NEW d \in DecimatorsOf(r), NEW n \in Nat,
         NEW x \in [1 .. n -> Int], NEW u, u = d.unprocessed,
         NEW w, w = StoredWindow(d.stored)
  PROVE  /\ OneByOne(d, x) \in Singles(r)
         /\ SingleOutputs(OneByOne(d, x), r, u, w, x, n)
  <1>1. u \in 0 .. r - 1 /\ d.stored \in Rings(KernelSize(r))
    BY DEF DecimatorsOf
  <1>2. w \in [1 .. KernelSize(r) -> Int]
    <2>1. PICK k \in Nat \ {0} : k = KernelSize(r)
      BY KernelSizeType
    <2> QED
      BY <1>1, <2>1, WindowOfRing
  <1>3. PICK b : b = [decimator |-> d, outputs |-> <<>>]
    OBVIOUS
  <1> DEFINE S == Singles(r)
             I == [i \in 0 .. n |-> {q \in S : SingleOutputs(q, r, u, w, x, i)}]
  <1>4. b \in I[0]
    <2>1. b \in S
      BY <1>3 DEF Singles
    <2>2. HoldsLatest(d.stored, KernelSize(r), w, x, 0)
      <3>1. After(w, x, 0) = w
        <4>1. PICK k \in Nat : k = KernelSize(r)
          BY KernelSizeType
        <4> QED
          BY <1>2, <4>1, AfterNothing
      <3> QED
        BY <1>1, <3>1 DEF HoldsLatest
    <2>3. b.decimator = d /\ Len(b.outputs) = 0
      BY <1>3
    <2>4. u + 0 = r * 0 + u
      BY <1>1
    <2>5. SingleOutputs(b, r, u, w, x, 0)
      BY <2>2, <2>3, <2>4 DEF SingleOutputs
    <2> HIDE DEF S
    <2> QED
      BY <2>1, <2>5
  <1>5. LeadsBySamples(I, r, n, x)
    <2> SUFFICES ASSUME NEW k \in 1 .. n, NEW q \in S, q \in I[k - 1]
                 PROVE  SingleStep(q, x[k]) \in I[k]
      BY DEF LeadsBySamples
    <2>1. PICK l \in Nat : l = k - 1 /\ l + 1 = k /\ l + 1 <= n
      OBVIOUS
    <2>2. SingleOutputs(q, r, u, w, x, l)
      BY <2>1
    <2>3. SingleOutputs(SingleStep(q, x[l + 1]), r, u, w, x, l + 1)
      BY <1>1, <1>2, <2>1, <2>2, SingleStepOutputs
    <2>4. SingleStep(q, x[k]) \in S
      <3>1. x[k] \in Int /\ r \in Nat \ {0}
        OBVIOUS
      <3> QED
        BY <3>1, SingleStepType
    <2> HIDE DEF S
    <2> QED
      BY <2>1, <2>3, <2>4
  <1>6. r \in Nat \ {0}
    OBVIOUS
  <1> HIDE DEF I
  <1>7. OneByOne(d, x) \in Singles(r) /\ OneByOne(d, x) \in I[n]
    BY <1>3, <1>4, <1>5, <1>6, SinglesRun
  <1> QED
    BY <1>7 DEF I

SingleCopies(q, d, x, k) ==
  q.decimator = d /\ Len(q.outputs) = k /\ \A l \in 1 .. k : q.outputs[l] = <<x[l]>>

LEMMA SinglesOfOne ==
  ASSUME NEW d \in DecimatorsOf(1), NEW n \in Nat, NEW x \in [1 .. n -> Int]
  PROVE  /\ OneByOne(d, x) \in Singles(1)
         /\ SingleCopies(OneByOne(d, x), d, x, n)
  <1>0. d.ratio = 1
    BY DEF DecimatorsOf
  <1>3. PICK b : b = [decimator |-> d, outputs |-> <<>>]
    OBVIOUS
  <1> DEFINE S == Singles(1)
             I == [i \in 0 .. n |-> {q \in S : SingleCopies(q, d, x, i)}]
  <1>4. b \in I[0]
    <2>1. b \in S
      BY <1>3 DEF Singles
    <2>2. SingleCopies(b, d, x, 0)
      BY <1>3 DEF SingleCopies
    <2> HIDE DEF S
    <2> QED
      BY <2>1, <2>2
  <1>5. LeadsBySamples(I, 1, n, x)
    <2> SUFFICES ASSUME NEW k \in 1 .. n, NEW q \in S, q \in I[k - 1]
                 PROVE  SingleStep(q, x[k]) \in I[k]
      BY DEF LeadsBySamples
    <2>1. PICK l \in Nat : l = k - 1 /\ l + 1 = k
      OBVIOUS
    <2>2. SingleCopies(q, d, x, l)
      BY <2>1
    <2>3. PICK o \in Seq(Seq(Int)) : o = q.outputs
      BY DEF Singles
    <2>4. Len(o) = l /\ q.decimator = d /\ \A j \in 1 .. l : o[j] = <<x[j]>>
      BY <2>2, <2>3 DEF SingleCopies
    <2>5. PICK v \in Int : v = x[k]
      OBVIOUS
    <2>6. DecimateSample(d, v) = [decimator |-> d, outputs |-> << <<v>> >>]
      BY <1>0 DEF DecimateSample
    <2>13. PICK y \in Seq(Int) : y = <<v>>
      <3>1. <<v>> \in Seq(Int)
        OBVIOUS
      <3> QED
        BY <3>1, Zenon
    <2>7. PICK s \in Seq(Seq(Int)) : s = << <<v>> >> /\ Len(s) = 1 /\ s[1] = y
      <3>1. <<y>> \in Seq(Seq(Int)) /\ Len(<<y>>) = 1 /\ <<y>>[1] = y
        OBVIOUS
      <3> QED
        BY <2>13, <3>1, Zenon
    <2>8. SingleStep(q, v) = [decimator |-> d, outputs |-> o \o s]
      BY <2>3, <2>4, <2>6, <2>7 DEF SingleStep
    <2>9. /\ Len(o \o s) = l + 1
          /\ \A j \in 1 .. l + 1 : (o \o s)[j] = IF j <= l THEN o[j] ELSE s[j - l]
      BY <2>4, <2>7, ConcatProperties
    <2>10. ASSUME NEW j \in 1 .. k PROVE (o \o s)[j] = <<x[j]>>
      <3>1. CASE j <= l
        <4>1. j \in 1 .. l + 1 /\ j \in 1 .. l
          BY <2>1, <3>1
        <4> QED
          BY <2>4, <2>9, <3>1, <4>1
      <3>2. CASE ~ (j <= l)
        <4>1. j \in 1 .. l + 1 /\ j = k /\ j - l = 1
          BY <2>1, <3>2
        <4> QED
          BY <2>5, <2>7, <2>9, <2>13, <3>2, <4>1
      <3> QED
        BY <3>1, <3>2
    <2>11. SingleCopies(SingleStep(q, v), d, x, k)
      <3>1. PICK z : z = o \o s
        OBVIOUS
      <3>2. SingleStep(q, v).decimator = d /\ SingleStep(q, v).outputs = z
        BY <2>8, <3>1
      <3>3. Len(z) = k /\ \A j \in 1 .. k : z[j] = <<x[j]>>
        BY <2>1, <2>9, <2>10, <3>1
      <3> QED
        BY <3>2, <3>3 DEF SingleCopies
    <2>12. SingleStep(q, v) \in S
      <3>1. 1 \in Nat \ {0}
        OBVIOUS
      <3> QED
        BY <3>1, SingleStepType
    <2> HIDE DEF S
    <2> QED
      BY <2>5, <2>11, <2>12
  <1>6. 1 \in Nat \ {0}
    OBVIOUS
  <1> HIDE DEF I
  <1>7. OneByOne(d, x) \in Singles(1) /\ OneByOne(d, x) \in I[n]
    BY <1>3, <1>4, <1>5, <1>6, SinglesRun
  <1> QED
    BY <1>7 DEF I

LEMMA SameSequences ==
  ASSUME NEW S, NEW T, NEW s \in Seq(S), NEW t \in Seq(T), NEW n \in Nat,
         Len(s) = n, Len(t) = n, \A i \in 1 .. n : s[i] = t[i]
  PROVE  s = t
  <1>1. s \in [1 .. n -> S] /\ t \in [1 .. n -> T]
    BY SeqIsFunction
  <1> QED
    BY <1>1

LEMMA BatchIsSingles ==
  ASSUME NEW r \in Nat \ {0}, NEW d \in DecimatorsOf(r), NEW n \in Nat,
         NEW x \in [1 .. n -> Int], NEW ip, ~ IsShort(d, n)
  PROVE  SameAsOneByOne(d, x, Decimate(d, x, ip).decimator, Decimate(d, x, ip).outputs)
  <1>0. d.ratio = r
    BY DEF DecimatorsOf
  <1> DEFINE q == Decimate(d, x, ip)
             p == OneByOne(d, x)
  <1>1. CASE r = 1
    <2> DEFINE copies == [i \in 1 .. n |-> <<x[i]>>]
    <2>1. q = [decimator |-> d, outputs |-> copies]
      BY <1>0, <1>1 DEF Decimate
    <2>2. copies \in [1 .. n -> Seq(Int)] /\ \A i \in 1 .. n : copies[i] = <<x[i]>>
      OBVIOUS
    <2>3. p \in Singles(1) /\ SingleCopies(p, d, x, n)
      BY <1>1, SinglesOfOne
    <2> HIDE DEF copies, p, q
    <2>4. /\ p.outputs \in Seq(Seq(Int)) /\ p.decimator = d /\ Len(p.outputs) = n
          /\ \A i \in 1 .. n : p.outputs[i] = <<x[i]>>
      BY <2>3 DEF Singles, SingleCopies
    <2>5. copies \in Seq(Seq(Int)) /\ Len(copies) = n
      BY <2>2, FunctionIsSeq
    <2>6. \A i \in 1 .. n : p.outputs[i] = copies[i]
      BY <2>2, <2>4
    <2>7. p.outputs = copies
      BY <2>4, <2>5, <2>6, SameSequences
    <2>8. q.decimator = d /\ q.outputs = copies
      BY <2>1
    <2>9. SameAsOneByOne(d, x, q.decimator, q.outputs)
      <3>1. p.outputs = q.outputs /\ p.decimator.unprocessed = q.decimator.unprocessed
        BY <2>4, <2>7, <2>8
      <3>2. d.ratio = 1
        BY <1>0, <1>1
      <3> QED
        BY <3>1, <3>2 DEF SameAsOneByOne, p
    <2> QED
      BY <2>9 DEF q
  <1>2. CASE r # 1
    <2>1. PICK u \in 0 .. r - 1 : u = d.unprocessed
      BY DEF DecimatorsOf
    <2>2. PICK w : w = StoredWindow(d.stored)
      OBVIOUS
    <2>3. IsDecimated(q, r, u, w, n, x)
      BY <1>2, <2>1, <2>2, Decimated
    <2>4. p \in Singles(r) /\ SingleOutputs(p, r, u, w, x, n)
      BY <1>2, <2>1, <2>2, SinglesOfSamples
    <2> HIDE DEF p, q
    <2>5. PICK J \in Nat : J = (u + n) \div r
      BY <2>3 DEF IsDecimated
    <2>6. PICK e, o : e = q.decimator /\ o = q.outputs
      OBVIOUS
    <2>7. /\ e.unprocessed = IF J = 0 THEN n ELSE (u + n) - r * J
          /\ StoredWindow(e.stored) = After(w, x, n)
          /\ Len(o) = J /\ o \in Seq(Seq(Int) \cup Spans)
          /\ \A k \in 1 .. J : o[k] = After(w, x, r * k - u)
      BY <2>3, <2>5, <2>6, Zenon DEF IsDecimated
    <2>8. PICK c \in DecimatorsOf(r), y \in Seq(Seq(Int)) : c = p.decimator /\ y = p.outputs
      BY <2>4 DEF Singles
    <2>9. PICK L \in Nat, m \in 0 .. r - 1 : L = Len(y) /\ m = c.unprocessed
      BY LenProperties DEF DecimatorsOf
    <2>10. /\ StoredWindow(c.stored) = After(w, x, n)
           /\ u + n = r * L + m
           /\ \A k \in 1 .. L : y[k] = After(w, x, r * k - u)
      BY <2>4, <2>8, <2>9 DEF SingleOutputs, HoldsLatest
    <2>11. J = L
      <3>1. (r * L + m) \div r = L
        BY DivisionIs
      <3> QED
        BY <2>5, <2>10, <3>1, Zenon
    <2>12. y = o
      <3>1. \A k \in 1 .. L : y[k] = o[k]
        BY <2>7, <2>10, <2>11
      <3>2. Len(o) = L /\ Len(y) = L
        BY <2>7, <2>9, <2>11
      <3> QED
        BY <2>7, <3>1, <3>2, SameSequences
    <2>13. PICK z \in Nat : z = r * L
      OBVIOUS
    <2>14. m = e.unprocessed
      <3>1. CASE L = 0
        <4>1. z = 0
          BY <2>13, <3>1
        <4>2. u + n = m
          BY <2>10, <2>13, <4>1
        <4>3. u + n < r
          BY <4>2
        <4>4. u = 0
          BY <1>0, <1>2, <2>1, <4>3 DEF IsShort
        <4> QED
          BY <2>7, <2>11, <3>1, <4>2, <4>4
      <3>2. CASE L # 0
        <4>1. e.unprocessed = (u + n) - z
          BY <2>7, <2>11, <2>13, <3>2
        <4> QED
          BY <2>10, <2>13, <4>1
      <3> QED
        BY <3>1, <3>2
    <2>15. SameAsOneByOne(d, x, e, o)
      BY <2>7, <2>8, <2>9, <2>10, <2>12, <2>14 DEF SameAsOneByOne, p
    <2> QED
      BY <2>6, <2>15 DEF q
  <1> QED
    BY <1>1, <1>2

\* However the buffers stand, the batch of each stage has a length: what the
\* decimator leaves is what the filter and the interpolator take.
LEMMA SizesOfBatches ==
  ASSUME ChainInv, NEW n \in Nat
  PROVE  LET filtering == Len(Decimate(decimator, Samples("decimator", n), FALSE).outputs)
         IN  /\ filtering \in Nat
             /\ Len(Interpolate(phases, Samples("interpolator", filtering)).outputs) \in Nat
  <1> DEFINE filtering == Len(Decimate(decimator, Samples("decimator", n), FALSE).outputs)
  <1>1. DecimatorInv /\ PhasesInv
    BY DEF ChainInv
  <1>2. filtering \in Nat
    <2> DEFINE x == Samples("decimator", n)
    <2>1. PICK l : l = ("decimator" \in short)
      OBVIOUS
    <2>2. DecimatorHolds(decimator, ratio, taken["decimator"], begin["decimator"],
                         outputs["decimator"], given["decimator"], l)
      BY <1>1, <2>1, Zenon DEF DecimatorInv
    <2>3. Counts(x, n, taken["decimator"])
      <3>1. taken["decimator"] \in Nat
        BY <2>2 DEF DecimatorHolds
      <3> QED
        BY <3>1, SamplesCount
    <2> HIDE DEF x
    <2>4. PICK ip : ip = FALSE
      OBVIOUS
    <2>5. Len(Decimate(decimator, x, ip).outputs) \in Nat
      BY <2>2, <2>3, DecimatorHoldsAfterBatch
    <2> QED
      BY <2>4, <2>5, Zenon DEF x
  <1> HIDE DEF filtering
  <1>3. Len(Interpolate(phases, Samples("interpolator", filtering)).outputs) \in Nat
    <2> DEFINE x == Samples("interpolator", filtering)
    <2>1. PhasesHold(phases, ratio, taken["interpolator"], begin["interpolator"], outputs["interpolator"])
      BY <1>1 DEF PhasesInv
    <2>2. Counts(x, filtering, taken["interpolator"])
      <3>1. taken["interpolator"] \in Nat
        BY <2>1 DEF PhasesHold
      <3> QED
        BY <1>2, <3>1, SamplesCount
    <2> HIDE DEF x
    <2>3. Len(Interpolate(phases, x).outputs) \in Nat
      BY <1>2, <2>1, <2>2, PhasesHoldAfterBatch
    <2> QED
      BY <2>3, Zenon DEF x
  <1> QED
    BY <1>2, <1>3, Zenon DEF filtering

LEMMA ChainTypes ==
  ASSUME ChainInv
  PROVE  /\ ratio \in Nat \ {0} /\ decimator \in DecimatorsOf(ratio) /\ taken["decimator"] \in Nat
         /\ af.ratio \in Nat \ {0} /\ af \in DecimatorsOf(af.ratio) /\ taken["af"] \in Nat
         /\ taken["filter"] \in Nat /\ taken["interpolator"] \in Nat
  <1>0. DecimatorInv /\ AudioInv /\ FilterInv /\ PhasesInv
    BY DEF ChainInv
  <1>1. ratio \in Nat \ {0} /\ decimator \in DecimatorsOf(ratio) /\ taken["decimator"] \in Nat
    BY <1>0 DEF DecimatorInv, DecimatorHolds, KnownDecimator
  <1>2. af.ratio \in Nat \ {0} /\ af \in DecimatorsOf(af.ratio) /\ taken["af"] \in Nat
    BY <1>0 DEF AudioInv, DecimatorHolds, KnownDecimator
  <1>3. taken["filter"] \in Nat /\ taken["interpolator"] \in Nat
    BY <1>0 DEF FilterInv, FilterHolds, PhasesInv, PhasesHold
  <1> QED
    BY <1>1, <1>2, <1>3

LEMMA SamplesType ==
  ASSUME NEW s, taken[s] \in Nat, NEW n \in Nat
  PROVE  Samples(s, n) \in [1 .. n -> Int]
  <1>1. Counts(Samples(s, n), n, taken[s])
    BY SamplesCount
  <1> QED
    BY <1>1 DEF Counts

LEMMA BatchesInAction ==
  ASSUME ChainInv, NEW n \in BatchSizes, PushSamples(n)
  PROVE  \A s \in Decimators :
          (taken' # taken /\ s \notin short') =>
              LET d == IF s = "af" THEN af ELSE decimator
                  after == IF s = "af" THEN af' ELSE decimator'
              IN  SameAsOneByOne(d, Samples(s, taken'[s] - taken[s]), after,
                                 outputs'[s])
  <1>0. n \in Nat
    BY BatchSizesAssumption
  <1> DEFINE decimated == Decimate(decimator, Samples("decimator", n), FALSE)
             filtering == Len(decimated.outputs)
             filtered == FilterBatch(filter, Samples("filter", filtering))
             interpolated == Interpolate(phases, Samples("interpolator", filtering))
             demodulated == Len(interpolated.outputs)
             audio == Decimate(af, Samples("af", demodulated), TRUE)
             inputs == [decimator |-> n, filter |-> filtering,
                        interpolator |-> filtering, af |-> demodulated]
             outs == [decimator |-> decimated.outputs, filter |-> filtered.outputs,
                      interpolator |-> interpolated.outputs, af |-> audio.outputs]
             late == {s \in Decimators : IsShort(IF s = "af" THEN af ELSE decimator, inputs[s])}
  <1>1. /\ decimator' = decimated.decimator
        /\ af' = audio.decimator
        /\ outputs' = outs
        /\ taken' = [s \in Stages |-> taken[s] + inputs[s]]
        /\ short' = short \union late
    BY Zenon DEF PushSamples
  <1>2. "decimator" \in Decimators /\ "af" \in Decimators
    BY DEF Decimators
  <1>3. "decimator" \in Stages /\ "af" \in Stages
    BY DEF Stages, Decimators
  <1>4. inputs["decimator"] = n /\ inputs["af"] = demodulated
    OBVIOUS
  <1>5. outs["decimator"] = decimated.outputs /\ outs["af"] = audio.outputs
    OBVIOUS
  <1>6. /\ IsShort(decimator, inputs["decimator"]) => "decimator" \in late
        /\ IsShort(af, inputs["af"]) => "af" \in late
    BY <1>2
  <1> HIDE DEF inputs, outs, late
  <1>7. taken'["decimator"] = taken["decimator"] + n /\ taken'["af"] = taken["af"] + demodulated
    <2> HIDE DEF filtering, demodulated
    <2> QED
      BY <1>1, <1>3, <1>4
  <1>8. outputs'["decimator"] = decimated.outputs /\ outputs'["af"] = audio.outputs
    <2> HIDE DEF decimated, filtered, interpolated, audio
    <2> QED
      BY <1>1, <1>5
  <1>9. /\ ratio \in Nat \ {0} /\ decimator \in DecimatorsOf(ratio) /\ taken["decimator"] \in Nat
        /\ af.ratio \in Nat \ {0} /\ af \in DecimatorsOf(af.ratio) /\ taken["af"] \in Nat
    BY ChainTypes
  <1>13. demodulated \in Nat
    BY <1>0, SizesOfBatches, Zenon
  <1>10. ASSUME "decimator" \notin short'
         PROVE  SameAsOneByOne(decimator, Samples("decimator", taken'["decimator"] - taken["decimator"]),
                               decimator', outputs'["decimator"])
    <2> DEFINE x == Samples("decimator", n)
    <2>1. ~ IsShort(decimator, n)
      BY <1>1, <1>4, <1>6, <1>10
    <2>2. x \in [1 .. n -> Int]
      BY <1>0, <1>9, SamplesType
    <2>3. PICK ip : ip = FALSE
      OBVIOUS
    <2> HIDE DEF x
    <2>4. SameAsOneByOne(decimator, x, Decimate(decimator, x, ip).decimator,
                         Decimate(decimator, x, ip).outputs)
      BY <1>0, <1>9, <2>1, <2>2, BatchIsSingles
    <2>5. Decimate(decimator, x, ip) = decimated
      BY <2>3, Zenon DEF x
    <2> HIDE DEF decimated
    <2>6. taken'["decimator"] - taken["decimator"] = n
      BY <1>0, <1>7, <1>9
    <2> QED
      BY <1>1, <1>8, <2>4, <2>5, <2>6, Zenon DEF x
  <1>11. ASSUME "af" \notin short'
         PROVE  SameAsOneByOne(af, Samples("af", taken'["af"] - taken["af"]), af', outputs'["af"])
    <2> HIDE DEF demodulated
    <2>7. demodulated \in Nat
      BY <1>13
    <2> DEFINE x == Samples("af", demodulated)
    <2>1. ~ IsShort(af, demodulated)
      BY <1>1, <1>4, <1>6, <1>11
    <2>2. x \in [1 .. demodulated -> Int]
      BY <1>9, <2>7, SamplesType
    <2>3. PICK ip : ip = TRUE
      OBVIOUS
    <2> HIDE DEF x
    <2>4. SameAsOneByOne(af, x, Decimate(af, x, ip).decimator, Decimate(af, x, ip).outputs)
      BY <1>9, <2>1, <2>2, <2>7, BatchIsSingles
    <2>5. Decimate(af, x, ip) = audio
      BY <2>3, Zenon DEF x
    <2> HIDE DEF audio
    <2>6. taken'["af"] - taken["af"] = demodulated
      BY <1>7, <1>9, <2>7
    <2> QED
      BY <1>1, <1>8, <2>4, <2>5, <2>6, Zenon DEF x
  <1> QED
    <2>1. \A s \in Decimators : s = "decimator" \/ s = "af"
      BY DEF Decimators
    <2> HIDE DEF decimated, filtering, filtered, interpolated, demodulated, audio
    <2> QED
      BY <1>10, <1>11, <2>1

\* A batch gives the outputs, and leaves the decimator in the state, that its
\* samples would have given and left had they been decimated one by one, unless
\* the batch was too small for the group of samples that waited.
THEOREM BatchesAlwaysAsSamples == Spec => BatchesAsSamples
  <1> DEFINE A == \A s \in Decimators :
          (taken' # taken /\ s \notin short') =>
              LET d == IF s = "af" THEN af ELSE decimator
                  after == IF s = "af" THEN af' ELSE decimator'
              IN  SameAsOneByOne(d, Samples(s, taken'[s] - taken[s]), after,
                                 outputs'[s])
  <1>1. ASSUME ChainInv, [Next]_vars PROVE [A]_vars
    <2>1. ASSUME NEW o \in Options, Configure(o) PROVE A
      <3>1. taken' = taken
        BY <2>1, Zenon DEF Configure
      <3> QED
        BY <3>1, Zenon
    <2>2. ASSUME NEW n \in BatchSizes, PushSamples(n) PROVE A
      BY <1>1, <2>2, BatchesInAction, Zenon
    <2> HIDE DEF A
    <2> QED
      BY <1>1, <2>1, <2>2, Zenon DEF Next
  <1> QED
    BY <1>1, ChainAlwaysHolds, PTL DEF Spec, BatchesAsSamples
================================================================================
