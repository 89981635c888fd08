--------------------------- MODULE StaticVectorProofs --------------------------
(***************************************************************************)
(* Proofs about StaticVector, for any capacity, vectors and values: until  *)
(* a mishandled call is made, every slot below the size of a vector holds  *)
(* an object, no other slot does (but for those abandoned by a move), and  *)
(* no loop constructs over an object or destroys where there is none.      *)
(***************************************************************************)
EXTENDS StaticVector, FoldProofs, FiniteSetTheorems

--------------------------------------------------------------------------------
(* Where objects live.                                                      *)

Memories ==
  [slots : [Vectors -> [Slots -> Contained]], size : [Vectors -> Int], wrong : BOOLEAN]

\* The memories of sizes z in which nothing went wrong, with objects in the
\* slots L[v] of each vector v.
Layout(z, L) ==
  {m \in Memories : /\ m.wrong = FALSE /\ m.size = z
                    /\ \A v \in Vectors : \A i \in Slots : m.slots[v][i] \notin Free <=> i \in L[v]}

With(L, v, slots) == [L EXCEPT ![v] = slots]
Layouts == [Vectors -> SUBSET Int]

\* A memory that differs in one vector.
Changed(m, v, slots, wrong) ==
  [slots |-> [m.slots EXCEPT ![v] = slots], size |-> m.size, wrong |-> wrong]

LEMMA ChangedLays ==
  ASSUME NEW z, NEW L \in Layouts, NEW m \in Layout(z, L), NEW v \in Vectors,
         NEW slots \in [Slots -> Contained], NEW l \in SUBSET Int,
         \A i \in Slots : slots[i] \notin Free <=> i \in l
  PROVE  Changed(m, v, slots, FALSE) \in Layout(z, With(L, v, l))
  <1> DEFINE all == [m.slots EXCEPT ![v] = slots]
             c == Changed(m, v, slots, FALSE)
  <1>1. /\ m.slots \in [Vectors -> [Slots -> Contained]] /\ m.size \in [Vectors -> Int]
        /\ m.size = z /\ \A w \in Vectors : \A i \in Slots : m.slots[w][i] \notin Free <=> i \in L[w]
    BY DEF Layout, Memories
  <1>2. all \in [Vectors -> [Slots -> Contained]] /\ all[v] = slots
    BY <1>1
  <1>3. \A w \in Vectors : w # v => all[w] = m.slots[w]
    BY <1>1
  <1>4. /\ With(L, v, l)[v] = l /\ \A w \in Vectors : w # v => With(L, v, l)[w] = L[w]
    BY DEF Layouts, With
  <1>5. c.slots = all /\ c.size = m.size /\ c.wrong = FALSE /\ c \in Memories
    BY <1>1, <1>2 DEF Changed, Memories
  <1> HIDE DEF all, c
  <1>6. \A w \in Vectors : \A i \in Slots : all[w][i] \notin Free <=> i \in With(L, v, l)[w]
    <2> SUFFICES ASSUME NEW w \in Vectors, NEW i \in Slots
                 PROVE  all[w][i] \notin Free <=> i \in With(L, v, l)[w]
      OBVIOUS
    <2>1. CASE w = v
      BY <1>2, <1>4, <2>1
    <2>2. CASE w # v
      BY <1>1, <1>3, <1>4, <2>2
    <2> QED
      BY <2>1, <2>2
  <1> QED
    BY <1>1, <1>5, <1>6 DEF Layout, c

\* An element in a free slot.
LEMMA ConstructLays ==
  ASSUME NEW z, NEW L \in Layouts, NEW m \in Layout(z, L), NEW v \in Vectors,
         NEW i \in Slots, i \notin L[v], NEW value \in Contained, value \notin Free
  PROVE  Construct(m, v, i, value) \in Layout(z, With(L, v, L[v] \union {i}))
  <1> DEFINE slots == [m.slots[v] EXCEPT ![i] = value]
             l == L[v] \union {i}
  <1>1. /\ m \in Memories /\ m.slots \in [Vectors -> [Slots -> Contained]] /\ m.wrong = FALSE
        /\ \A j \in Slots : m.slots[v][j] \notin Free <=> j \in L[v]
    BY DEF Layout, Memories
  <1>2. slots \in [Slots -> Contained] /\ \A j \in Slots : slots[j] \notin Free <=> j \in l
    BY <1>1
  <1>3. l \in SUBSET Int
    BY DEF Layouts, Slots
  <1>4. Construct(m, v, i, value) = Changed(m, v, slots, FALSE)
    <2>1. m.slots[v][i] \in Free
      BY <1>1
    <2>2. Construct(m, v, i, value) = [m EXCEPT !.slots = [m.slots EXCEPT ![v] = slots],
                                                !.wrong = FALSE]
      BY <1>1, <2>1 DEF Construct, Memories
    <2> HIDE DEF slots
    <2> QED
      BY <1>1, <2>2 DEF Changed, Memories
  <1> HIDE DEF slots, l
  <1>5. Changed(m, v, slots, FALSE) \in Layout(z, With(L, v, l))
    BY <1>2, <1>3, ChangedLays
  <1> QED
    BY <1>4, <1>5 DEF l

LEMMA DestroyLays ==
  ASSUME NEW z, NEW L \in Layouts, NEW m \in Layout(z, L), NEW v \in Vectors,
         NEW i \in Slots, i \in L[v]
  PROVE  DestroyElement(m, v, i) \in Layout(z, With(L, v, L[v] \ {i}))
  <1> DEFINE slots == [m.slots[v] EXCEPT ![i] = Raw]
             l == L[v] \ {i}
  <1>1. /\ m \in Memories /\ m.slots \in [Vectors -> [Slots -> Contained]] /\ m.wrong = FALSE
        /\ \A j \in Slots : m.slots[v][j] \notin Free <=> j \in L[v]
    BY DEF Layout, Memories
  <1>2. slots \in [Slots -> Contained] /\ \A j \in Slots : slots[j] \notin Free <=> j \in l
    BY <1>1 DEF Contained, Free
  <1>3. l \in SUBSET Int
    BY DEF Layouts
  <1>4. DestroyElement(m, v, i) = Changed(m, v, slots, FALSE)
    <2>1. m.slots[v][i] \notin Free
      BY <1>1
    <2>2. DestroyElement(m, v, i) = [m EXCEPT !.slots = [m.slots EXCEPT ![v] = slots],
                                              !.wrong = FALSE]
      BY <1>1, <2>1 DEF DestroyElement, Memories
    <2> HIDE DEF slots
    <2> QED
      BY <1>1, <2>2 DEF Changed, Memories
  <1> HIDE DEF slots, l
  <1>5. Changed(m, v, slots, FALSE) \in Layout(z, With(L, v, l))
    BY <1>2, <1>3, ChangedLays
  <1> QED
    BY <1>4, <1>5 DEF l

\* What is moved from stays an object.
LEMMA MovedFromLays ==
  ASSUME NEW z, NEW L \in Layouts, NEW m \in Layout(z, L), NEW w \in Vectors,
         NEW j \in Slots, j \in L[w]
  PROVE  [m EXCEPT !.slots[w][j] = Moved] \in Layout(z, L)
  <1> DEFINE slots == [m.slots[w] EXCEPT ![j] = Moved]
             moved == [m EXCEPT !.slots[w][j] = Moved]
  <1>1. /\ m \in Memories /\ m.slots \in [Vectors -> [Slots -> Contained]] /\ m.wrong = FALSE
        /\ \A i \in Slots : m.slots[w][i] \notin Free <=> i \in L[w]
    BY DEF Layout, Memories
  <1>2. slots \in [Slots -> Contained] /\ \A i \in Slots : slots[i] \notin Free <=> i \in L[w]
    BY <1>1, ValuesAssumption DEF Contained, Free
  <1>3. L[w] \in SUBSET Int /\ With(L, w, L[w]) = L
    BY DEF Layouts, With
  <1>4. moved = Changed(m, w, slots, FALSE)
    <2>1. moved = [m EXCEPT !.slots = [m.slots EXCEPT ![w] = slots]]
      BY <1>1 DEF Memories
    <2> HIDE DEF slots, moved
    <2> QED
      BY <1>1, <2>1 DEF Changed, Memories
  <1> HIDE DEF slots, moved
  <1>5. Changed(m, w, slots, FALSE) \in Layout(z, With(L, w, L[w]))
    BY <1>2, <1>3, ChangedLays
  <1> QED
    BY <1>3, <1>4, <1>5 DEF moved

LEMMA MoveLays ==
  ASSUME NEW z, NEW L \in Layouts, NEW m \in Layout(z, L), NEW w \in Vectors, NEW v \in Vectors,
         NEW j \in Slots, j \in L[w], NEW i \in Slots, i \notin L[v]
  PROVE  MoveConstruct(m, w, j, v, i) \in Layout(z, With(L, v, L[v] \union {i}))
  <1> DEFINE moved == [m EXCEPT !.slots[w][j] = Moved]
             value == m.slots[w][j]
  <1>1. moved \in Layout(z, L)
    BY MovedFromLays
  <1>2. value \in Contained /\ value \notin Free
    BY DEF Layout, Memories
  <1>3. MoveConstruct(m, w, j, v, i) = Construct(moved, v, i, value)
    BY DEF MoveConstruct
  <1> HIDE DEF moved, value
  <1> QED
    BY <1>1, <1>2, <1>3, ConstructLays

LEMMA RelocateLays ==
  ASSUME NEW z, NEW L \in Layouts, NEW m \in Layout(z, L), NEW w \in Vectors, NEW v \in Vectors,
         NEW j \in Slots, j \in L[w], NEW i \in Slots, i \notin L[v]
  PROVE  LET K == With(L, v, L[v] \union {i})
         IN  Relocate(m, w, j, v, i) \in Layout(z, With(K, w, K[w] \ {j}))
  <1> DEFINE K == With(L, v, L[v] \union {i})
             n == MoveConstruct(m, w, j, v, i)
  <1>1. n \in Layout(z, K)
    BY MoveLays
  <1>2. K \in Layouts /\ j \in K[w]
    BY DEF Layouts, With, Slots
  <1>3. Relocate(m, w, j, v, i) = DestroyElement(n, w, j)
    BY DEF Relocate
  <1> HIDE DEF n, K
  <1>4. DestroyElement(n, w, j) \in Layout(z, With(K, w, K[w] \ {j}))
    BY <1>1, <1>2, DestroyLays
  <1> QED
    BY <1>3, <1>4 DEF K

LEMMA SwapLays ==
  ASSUME NEW z, NEW L \in Layouts, NEW m \in Layout(z, L), NEW v \in Vectors, NEW w \in Vectors,
         NEW i \in Slots, i \in L[v], i \in L[w]
  PROVE  SwapElement(m, v, w, i) \in Layout(z, L)
  <1> DEFINE a == [m.slots[v] EXCEPT ![i] = m.slots[w][i]]
             b == [m.slots[w] EXCEPT ![i] = m.slots[v][i]]
             all == [m.slots EXCEPT ![v][i] = m.slots[w][i], ![w][i] = m.slots[v][i]]
  <1>1. /\ m \in Memories /\ m.slots \in [Vectors -> [Slots -> Contained]] /\ m.wrong = FALSE
        /\ m.size = z /\ m.size \in [Vectors -> Int]
        /\ \A u \in Vectors : \A j \in Slots : m.slots[u][j] \notin Free <=> j \in L[u]
    BY DEF Layout, Memories
  <1>2. \A u \in Vectors : \A j \in Slots :
          all[u][j] = IF j = i /\ u = w THEN m.slots[v][i]
                      ELSE IF j = i /\ u = v THEN m.slots[w][i] ELSE m.slots[u][j]
    BY <1>1
  <1>3. all \in [Vectors -> [Slots -> Contained]]
    BY ZenonT(60), <1>1
  <1>4. SwapElement(m, v, w, i) = [slots |-> all, size |-> m.size, wrong |-> FALSE]
    <2>1. m.slots[v][i] \notin Free /\ m.slots[w][i] \notin Free
      BY <1>1
    <2>2. SwapElement(m, v, w, i) = [m EXCEPT !.slots = all, !.wrong = FALSE]
      BY <1>1, <2>1 DEF SwapElement, Memories
    <2> HIDE DEF all
    <2> QED
      BY <1>1, <2>2 DEF Memories
  <1> HIDE DEF all
  <1>5. \A u \in Vectors : \A j \in Slots : all[u][j] \notin Free <=> j \in L[u]
    BY <1>1, <1>2
  <1> QED
    BY <1>1, <1>3, <1>4, <1>5 DEF Layout, Memories

LEMMA MoveAssignLays ==
  ASSUME NEW z, NEW L \in Layouts, NEW m \in Layout(z, L), NEW v \in Vectors,
         NEW j \in Slots, j \in L[v], NEW i \in Slots, i \in L[v]
  PROVE  MoveAssign(m, v, j, i) \in Layout(z, L)
  <1> DEFINE slots == [m.slots[v] EXCEPT ![i] = m.slots[v][j], ![j] = Moved]
  <1>1. /\ m \in Memories /\ m.slots \in [Vectors -> [Slots -> Contained]] /\ m.wrong = FALSE
        /\ \A k \in Slots : m.slots[v][k] \notin Free <=> k \in L[v]
    BY DEF Layout, Memories
  <1>2. slots \in [Slots -> Contained] /\ \A k \in Slots : slots[k] \notin Free <=> k \in L[v]
    BY <1>1, ValuesAssumption DEF Contained, Free
  <1>3. L[v] \in SUBSET Int /\ With(L, v, L[v]) = L
    BY DEF Layouts, With
  <1>4. MoveAssign(m, v, j, i) = Changed(m, v, slots, FALSE)
    <2>1. m.slots[v][j] \notin Free /\ m.slots[v][i] \notin Free
      BY <1>1
    <2>2. MoveAssign(m, v, j, i) = [m EXCEPT !.slots = [m.slots EXCEPT ![v] = slots],
                                             !.wrong = FALSE]
      BY <1>1, <2>1 DEF MoveAssign, Memories
    <2> HIDE DEF slots
    <2> QED
      BY <1>1, <2>2 DEF Changed, Memories
  <1> HIDE DEF slots
  <1>5. Changed(m, v, slots, FALSE) \in Layout(z, With(L, v, L[v]))
    BY <1>2, <1>3, ChangedLays
  <1> QED
    BY <1>3, <1>4, <1>5

\* A vector of another size.
LEMMA ResizedLays ==
  ASSUME NEW z, NEW L \in Layouts, NEW m \in Layout(z, L), NEW v \in Vectors, NEW size \in Int
  PROVE  Resized(m, v, size) \in Layout([z EXCEPT ![v] = size], L)
  <1>1. /\ m \in Memories /\ m.slots \in [Vectors -> [Slots -> Contained]] /\ m.wrong = FALSE
        /\ m.size = z /\ m.size \in [Vectors -> Int]
        /\ \A u \in Vectors : \A j \in Slots : m.slots[u][j] \notin Free <=> j \in L[u]
    BY DEF Layout, Memories
  <1> DEFINE sizes == [z EXCEPT ![v] = size]
  <1>2. sizes \in [Vectors -> Int]
    BY <1>1
  <1>3. Resized(m, v, size) = [slots |-> m.slots, size |-> sizes, wrong |-> FALSE]
    <2>1. Resized(m, v, size) = [m EXCEPT !.size = sizes]
      BY <1>1 DEF Resized, Memories
    <2> HIDE DEF sizes
    <2> QED
      BY <1>1, <2>1 DEF Memories
  <1> HIDE DEF sizes
  <1>4. Resized(m, v, size) \in Layout(sizes, L)
    BY <1>1, <1>2, <1>3 DEF Layout, Memories
  <1> QED
    BY <1>4 DEF sizes

LEMMA PushLays ==
  ASSUME NEW z, NEW L \in Layouts, NEW m \in Layout(z, L), NEW v \in Vectors,
         z[v] \in Slots, z[v] \notin L[v], NEW value \in Contained, value \notin Free
  PROVE  PushBack(m, v, value)
           \in Layout([z EXCEPT ![v] = z[v] + 1], With(L, v, L[v] \union {z[v]}))
  <1> DEFINE c == Construct(m, v, z[v], value)
             K == With(L, v, L[v] \union {z[v]})
  <1>1. m.size = z /\ z[v] \in Int
    BY DEF Layout, Slots
  <1>2. c \in Layout(z, K)
    BY ConstructLays
  <1>3. K \in Layouts
    BY <1>1 DEF Layouts, With
  <1>4. PushBack(m, v, value) = Resized(c, v, z[v] + 1)
    BY <1>1 DEF PushBack
  <1> HIDE DEF c, K
  <1>5. Resized(c, v, z[v] + 1) \in Layout([z EXCEPT ![v] = z[v] + 1], K)
    <2>1. z[v] + 1 \in Int
      BY <1>1
    <2> QED
      BY <1>2, <1>3, <2>1, ResizedLays
  <1> QED
    BY <1>4, <1>5 DEF K

--------------------------------------------------------------------------------
(* The loops, as sequences of steps of any kind.                            *)

Kinds == {"construct", "destroy", "move", "relocate", "swap", "assign", "push", "nothing"}
Steps == [does : Kinds, vector : Vectors, slot : Slots, other : Vectors, source : Slots,
          value : Contained]
Step(does, v, i, w, j, value) ==
  [does |-> does, vector |-> v, slot |-> i, other |-> w, source |-> j, value |-> value]

Do(m, e) ==
  CASE e.does = "construct" -> Construct(m, e.vector, e.slot, e.value)
    [] e.does = "destroy" -> DestroyElement(m, e.vector, e.slot)
    [] e.does = "move" -> MoveConstruct(m, e.other, e.source, e.vector, e.slot)
    [] e.does = "relocate" -> Relocate(m, e.other, e.source, e.vector, e.slot)
    [] e.does = "swap" -> SwapElement(m, e.vector, e.other, e.slot)
    [] e.does = "assign" -> MoveAssign(m, e.vector, e.source, e.slot)
    [] e.does = "push" -> PushBack(m, e.vector, e.value)
    [] e.does = "nothing" -> m

Run(m, steps) == FoldLeft(Do, m, steps)

LEMMA DoKinds ==
  ASSUME NEW m, NEW v, NEW i, NEW w, NEW j, NEW value
  PROVE  /\ Do(m, Step("construct", v, i, w, j, value)) = Construct(m, v, i, value)
         /\ Do(m, Step("destroy", v, i, w, j, value)) = DestroyElement(m, v, i)
         /\ Do(m, Step("move", v, i, w, j, value)) = MoveConstruct(m, w, j, v, i)
         /\ Do(m, Step("relocate", v, i, w, j, value)) = Relocate(m, w, j, v, i)
         /\ Do(m, Step("swap", v, i, w, j, value)) = SwapElement(m, v, w, i)
         /\ Do(m, Step("assign", v, i, w, j, value)) = MoveAssign(m, v, j, i)
         /\ Do(m, Step("push", v, i, w, j, value)) = PushBack(m, v, value)
         /\ Do(m, Step("nothing", v, i, w, j, value)) = m
  BY DEF Do, Step

LEMMA ConstructTyped ==
  ASSUME NEW m \in Memories, NEW v \in Vectors, NEW i, NEW value \in Contained
  PROVE  Construct(m, v, i, value) \in Memories
  <1> DEFINE all == [m.slots EXCEPT ![v] = [m.slots[v] EXCEPT ![i] = value]]
             wrong == m.wrong \/ m.slots[v][i] \notin Free \/ value \in Free
  <1>1. m.slots \in [Vectors -> [Slots -> Contained]]
    BY DEF Memories
  <1>2. all \in [Vectors -> [Slots -> Contained]]
    BY <1>1
  <1>3. Construct(m, v, i, value) = [m EXCEPT !.slots = all, !.wrong = wrong]
    BY DEF Construct, Memories
  <1>4. wrong \in BOOLEAN
    BY Zenon
  <1> HIDE DEF all, wrong
  <1> QED
    BY <1>2, <1>3, <1>4 DEF Memories

LEMMA DestroyTyped ==
  ASSUME NEW m \in Memories, NEW v \in Vectors, NEW i
  PROVE  DestroyElement(m, v, i) \in Memories
  <1> DEFINE all == [m.slots EXCEPT ![v] = [m.slots[v] EXCEPT ![i] = Raw]]
             wrong == m.wrong \/ m.slots[v][i] \in Free
  <1>1. m.slots \in [Vectors -> [Slots -> Contained]]
    BY DEF Memories
  <1>2. all \in [Vectors -> [Slots -> Contained]]
    BY <1>1 DEF Contained
  <1>3. DestroyElement(m, v, i) = [m EXCEPT !.slots = all, !.wrong = wrong]
    BY DEF DestroyElement, Memories
  <1>4. wrong \in BOOLEAN
    BY Zenon
  <1> HIDE DEF all, wrong
  <1> QED
    BY <1>2, <1>3, <1>4 DEF Memories

LEMMA MoveTyped ==
  ASSUME NEW m \in Memories, NEW w \in Vectors, NEW j \in Slots, NEW v \in Vectors, NEW i
  PROVE  MoveConstruct(m, w, j, v, i) \in Memories
  <1> DEFINE moved == [m EXCEPT !.slots[w][j] = Moved]
             value == m.slots[w][j]
  <1>1. m.slots \in [Vectors -> [Slots -> Contained]] /\ value \in Contained
    BY DEF Memories
  <1>2. moved \in Memories
    <2> DEFINE all == [m.slots EXCEPT ![w] = [m.slots[w] EXCEPT ![j] = Moved]]
    <2>1. all \in [Vectors -> [Slots -> Contained]]
      BY <1>1 DEF Contained
    <2>2. moved = [m EXCEPT !.slots = all]
      BY DEF Memories
    <2> HIDE DEF all, moved
    <2> QED
      BY <2>1, <2>2 DEF Memories
  <1>3. MoveConstruct(m, w, j, v, i) = Construct(moved, v, i, value)
    BY DEF MoveConstruct
  <1> HIDE DEF moved, value
  <1> QED
    BY <1>1, <1>2, <1>3, ConstructTyped

LEMMA SwapTyped ==
  ASSUME NEW m \in Memories, NEW v \in Vectors, NEW w \in Vectors, NEW i \in Slots
  PROVE  SwapElement(m, v, w, i) \in Memories
  <1> DEFINE all == [m.slots EXCEPT ![v][i] = m.slots[w][i], ![w][i] = m.slots[v][i]]
             wrong == m.wrong \/ m.slots[v][i] \in Free \/ m.slots[w][i] \in Free
  <1>1. m.slots \in [Vectors -> [Slots -> Contained]]
    BY DEF Memories
  <1>2. all \in [Vectors -> [Slots -> Contained]]
    BY <1>1
  <1>3. SwapElement(m, v, w, i) = [m EXCEPT !.slots = all, !.wrong = wrong]
    BY DEF SwapElement, Memories
  <1>4. wrong \in BOOLEAN
    BY Zenon
  <1> HIDE DEF all, wrong
  <1> QED
    BY <1>2, <1>3, <1>4 DEF Memories

LEMMA MoveAssignTyped ==
  ASSUME NEW m \in Memories, NEW v \in Vectors, NEW j \in Slots, NEW i \in Slots
  PROVE  MoveAssign(m, v, j, i) \in Memories
  <1> DEFINE all == [m.slots EXCEPT ![v] = [m.slots[v] EXCEPT ![i] = m.slots[v][j], ![j] = Moved]]
             wrong == m.wrong \/ m.slots[v][j] \in Free \/ m.slots[v][i] \in Free
  <1>1. m.slots \in [Vectors -> [Slots -> Contained]]
    BY DEF Memories
  <1>2. all \in [Vectors -> [Slots -> Contained]]
    BY <1>1 DEF Contained
  <1>3. MoveAssign(m, v, j, i) = [m EXCEPT !.slots = all, !.wrong = wrong]
    BY DEF MoveAssign, Memories
  <1>4. wrong \in BOOLEAN
    BY Zenon
  <1> HIDE DEF all, wrong
  <1> QED
    BY <1>2, <1>3, <1>4 DEF Memories

LEMMA PushTyped ==
  ASSUME NEW m \in Memories, NEW v \in Vectors, NEW value \in Contained
  PROVE  PushBack(m, v, value) \in Memories
  <1> DEFINE c == Construct(m, v, m.size[v], value)
             sizes == [c.size EXCEPT ![v] = m.size[v] + 1]
  <1>1. c \in Memories /\ m.size[v] + 1 \in Int
    BY ConstructTyped DEF Memories
  <1>2. PushBack(m, v, value) = [c EXCEPT !.size[v] = m.size[v] + 1]
    BY DEF PushBack, Resized
  <1> HIDE DEF c
  <1>3. PushBack(m, v, value) = [c EXCEPT !.size = sizes]
    BY <1>1, <1>2 DEF Memories
  <1>4. sizes \in [Vectors -> Int]
    BY <1>1 DEF Memories
  <1> HIDE DEF sizes
  <1> QED
    BY <1>1, <1>3, <1>4 DEF Memories

LEMMA DoTyped ==
  ASSUME NEW m \in Memories, NEW e \in Steps
  PROVE  Do(m, e) \in Memories
  <1> DEFINE v == e.vector
             i == e.slot
             w == e.other
             j == e.source
  <1>1. /\ v \in Vectors /\ i \in Slots /\ w \in Vectors /\ j \in Slots /\ e.value \in Contained
        /\ e.does \in Kinds /\ e = Step(e.does, v, i, w, j, e.value)
    BY DEF Steps, Step
  <1> HIDE DEF v, i, w, j
  <1>2. /\ Construct(m, v, i, e.value) \in Memories /\ DestroyElement(m, v, i) \in Memories
        /\ MoveConstruct(m, w, j, v, i) \in Memories /\ SwapElement(m, v, w, i) \in Memories
        /\ MoveAssign(m, v, j, i) \in Memories /\ PushBack(m, v, e.value) \in Memories
    BY <1>1, ConstructTyped, DestroyTyped, MoveTyped, SwapTyped, MoveAssignTyped, PushTyped
  <1>3. Relocate(m, w, j, v, i) \in Memories
    BY <1>1, <1>2, DestroyTyped DEF Relocate
  <1> QED
    BY <1>1, <1>2, <1>3, DoKinds DEF Kinds

\* A loop goes from the first of some sets of memories to the last one when each
\* of its steps goes from one of them to the next.
LEMMA RunWithin ==
  ASSUME NEW m \in Memories, NEW steps \in Seq(Steps), NEW I, m \in I[0],
         \A k \in 1 .. Len(steps) : \A p \in I[k - 1] : Do(p, steps[k]) \in I[k]
  PROVE  Run(m, steps) \in I[Len(steps)]
  <1> DEFINE n == Len(steps)
             Solves(it) == it = [s \in SUBSET DOMAIN steps |->
                                  IF s = {} THEN m
                                  ELSE LET x == Max(s) IN Do(it[s \ {x}], steps[x])]
             f == [q \in Memories \X (1 .. n) |-> Do(q[1], steps[q[2]])]
  <1>1. n \in Nat /\ DOMAIN steps = 1 .. n
    OBVIOUS
  <1>2. f \in [Memories \X (1 .. n) -> Memories]
    <2>1. ASSUME NEW q \in Memories \X (1 .. n) PROVE Do(q[1], steps[q[2]]) \in Memories
      <3>1. q[1] \in Memories /\ steps[q[2]] \in Steps
        BY <1>1
      <3> QED
        BY <3>1, DoTyped
    <2> QED
      BY <2>1
  <1>3. PICK g \in [SUBSET (1 .. n) -> Memories] : FoldOf(g, m, n, f)
    <2> HIDE DEF f, n
    <2> QED
      BY <1>1, <1>2, FoldExists
  <1>4. Solves(g)
    <2>1. ASSUME NEW s \in SUBSET (1 .. n), s # {}
          PROVE  Max(s) \in 1 .. n /\ g[s \ {Max(s)}] \in Memories
      <3>1. Max(s) \in s
        BY <1>1, <2>1, GreatestOfSome
      <3> QED
        BY <3>1
    <2> QED
      BY <1>1, <1>3, <2>1 DEF FoldOf
  <1> DEFINE i == CHOOSE it : Solves(it)
  <1>5. Solves(i)
    BY <1>4
  <1>6. Run(m, steps) = i[DOMAIN steps]
    BY DEF Run, FoldLeft, MapThenFoldSet
  <1> HIDE DEF i, f
  <1>7. i[1 .. 0] = m
    BY <1>1, <1>5, InitialIndices
  <1>8. \A k \in 1 .. n : i[1 .. k] = Do(i[1 .. (k - 1)], steps[k])
    <2> SUFFICES ASSUME NEW k \in 1 .. n
                 PROVE  i[1 .. k] = Do(i[1 .. (k - 1)], steps[k])
      OBVIOUS
    <2>1. /\ 1 .. k \in SUBSET DOMAIN steps /\ 1 .. k # {} /\ Max(1 .. k) = k
          /\ (1 .. k) \ {k} = 1 .. (k - 1)
      BY <1>1, InitialIndices
    <2> QED
      BY <1>5, <2>1
  <1> DEFINE Good == {k \in Nat : k <= n => i[1 .. k] \in I[k]}
  <1> HIDE DEF Solves
  <1>9. 0 \in Good
    BY <1>7
  <1>10. ASSUME NEW k \in Nat, k \in Good PROVE k + 1 \in Good
    <2> SUFFICES ASSUME k + 1 <= n PROVE i[1 .. (k + 1)] \in I[k + 1]
      OBVIOUS
    <2>1. k + 1 \in 1 .. n /\ (k + 1) - 1 = k /\ k <= n
      BY <1>1
    <2>2. i[1 .. k] \in I[k]
      BY <1>10, <2>1
    <2>3. i[1 .. (k + 1)] = Do(i[1 .. k], steps[k + 1])
      BY <1>8, <2>1
    <2> QED
      BY <2>1, <2>2, <2>3
  <1>11. n \in Good
    <2> HIDE DEF Good
    <2> QED
      BY <1>1, <1>9, <1>10, NatSetInduction
  <1>12. n <= n
    BY <1>1
  <1> QED
    BY <1>1, <1>6, <1>11, <1>12

\* Each loop of the model is a sequence of such steps.

DestroySteps(v, first, n) ==
  [k \in 1 .. n |-> Step("destroy", v, first + k - 1, v, first + k - 1, Raw)]

LEMMA DestroyRuns ==
  ASSUME NEW m, NEW v, NEW first, NEW last, last - first + 1 \in Nat
  PROVE  DestroyRange(m, v, first, last) = Run(m, DestroySteps(v, first, last - first + 1))
  <1> DEFINE seq == [k \in 1 .. last - first + 1 |-> first + k - 1]
             steps == DestroySteps(v, first, last - first + 1)
             Loop(it) == it = [s \in SUBSET DOMAIN seq |->
                           IF s = {} THEN m
                           ELSE LET x == Max(s) IN DestroyElement(it[s \ {x}], v, seq[x])]
             Stepwise(it) == it = [s \in SUBSET DOMAIN steps |->
                               IF s = {} THEN m ELSE LET x == Max(s) IN Do(it[s \ {x}], steps[x])]
             n == last - first + 1
  <1>1. n \in Nat /\ DOMAIN seq = 1 .. n /\ DOMAIN steps = 1 .. n
    BY DEF DestroySteps
  <1>2. \A k \in 1 .. n : \A p : DestroyElement(p, v, seq[k]) = Do(p, steps[k])
    BY DoKinds DEF DestroySteps
  <1>3. \A s \in SUBSET (1 .. n) : s # {} => Max(s) \in 1 .. n
    BY <1>1, GreatestOfSome
  <1> DEFINE i == CHOOSE it : Loop(it)
             j == CHOOSE it : Stepwise(it)
  <1>4. DestroyRange(m, v, first, last) = i[DOMAIN seq]
    BY DEF DestroyRange, Upwards, FoldLeft, MapThenFoldSet
  <1>5. Run(m, steps) = j[DOMAIN steps]
    BY DEF Run, FoldLeft, MapThenFoldSet
  <1>6. \A it : Loop(it) <=> Stepwise(it)
    <2> HIDE DEF n, seq, steps
    <2> QED
      BY <1>1, <1>2, <1>3
  <1>7. i = j
    <2> HIDE DEF Loop, Stepwise
    <2> QED
      BY <1>6
  <1> HIDE DEF i, j
  <1> QED
    BY <1>1, <1>4, <1>5, <1>7

ConstructSteps(v, first, values) ==
  [k \in 1 .. Len(values) |-> Step("construct", v, first + k - 1, v, first + k - 1, values[k])]

LEMMA ConstructRuns ==
  ASSUME NEW m, NEW v, NEW first \in Int, NEW values, Len(values) \in Nat
  PROVE  ConstructRange(m, v, first, values) = Run(m, ConstructSteps(v, first, values))
  <1> DEFINE seq == [k \in 1 .. Len(values) - 1 + 1 |-> 1 + k - 1]
             steps == ConstructSteps(v, first, values)
             Loop(it) == it = [s \in SUBSET DOMAIN seq |->
                           IF s = {} THEN m
                           ELSE LET x == Max(s)
                                IN  Construct(it[s \ {x}], v, first + seq[x] - 1, values[seq[x]])]
             Stepwise(it) == it = [s \in SUBSET DOMAIN steps |->
                               IF s = {} THEN m ELSE LET x == Max(s) IN Do(it[s \ {x}], steps[x])]
             n == Len(values)
  <1>1. n \in Nat /\ DOMAIN seq = 1 .. n /\ DOMAIN steps = 1 .. n
    BY DEF ConstructSteps
  <1>2. \A k \in 1 .. n : \A p :
           Construct(p, v, first + seq[k] - 1, values[seq[k]]) = Do(p, steps[k])
    BY DoKinds DEF ConstructSteps
  <1>3. \A s \in SUBSET (1 .. n) : s # {} => Max(s) \in 1 .. n
    BY <1>1, GreatestOfSome
  <1> DEFINE i == CHOOSE it : Loop(it)
             j == CHOOSE it : Stepwise(it)
  <1>4. ConstructRange(m, v, first, values) = i[DOMAIN seq]
    BY DEF ConstructRange, Upwards, FoldLeft, MapThenFoldSet
  <1>5. Run(m, steps) = j[DOMAIN steps]
    BY DEF Run, FoldLeft, MapThenFoldSet
  <1>6. \A it : Loop(it) <=> Stepwise(it)
    <2> HIDE DEF n, seq, steps
    <2> QED
      BY <1>1, <1>2, <1>3
  <1>7. i = j
    <2> HIDE DEF Loop, Stepwise
    <2> QED
      BY <1>6
  <1> HIDE DEF i, j
  <1> QED
    BY <1>1, <1>4, <1>5, <1>7

Taken(m, v, w) == Upwards(m, 0, m.size[w] - 1, LAMBDA n, i : MoveConstruct(n, w, i, v, i))
TakeSteps(v, w, n) == [k \in 1 .. n |-> Step("move", v, k - 1, w, k - 1, Raw)]

LEMMA TakeRuns ==
  ASSUME NEW m, NEW v, NEW w, m.size[w] \in Nat
  PROVE  Taken(m, v, w) = Run(m, TakeSteps(v, w, m.size[w]))
  <1> DEFINE seq == [k \in 1 .. m.size[w] - 1 - 0 + 1 |-> 0 + k - 1]
             steps == TakeSteps(v, w, m.size[w])
             Loop(it) == it = [s \in SUBSET DOMAIN seq |->
                           IF s = {} THEN m
                           ELSE LET x == Max(s) IN MoveConstruct(it[s \ {x}], w, seq[x], v, seq[x])]
             Stepwise(it) == it = [s \in SUBSET DOMAIN steps |->
                               IF s = {} THEN m ELSE LET x == Max(s) IN Do(it[s \ {x}], steps[x])]
             n == m.size[w]
  <1>1. n \in Nat /\ DOMAIN seq = 1 .. n /\ DOMAIN steps = 1 .. n
    BY DEF TakeSteps
  <1>2. \A k \in 1 .. n : \A p : MoveConstruct(p, w, seq[k], v, seq[k]) = Do(p, steps[k])
    BY DoKinds DEF TakeSteps
  <1>3. \A s \in SUBSET (1 .. n) : s # {} => Max(s) \in 1 .. n
    BY <1>1, GreatestOfSome
  <1> DEFINE i == CHOOSE it : Loop(it)
             j == CHOOSE it : Stepwise(it)
  <1>4. Taken(m, v, w) = i[DOMAIN seq]
    BY DEF Taken, Upwards, FoldLeft, MapThenFoldSet
  <1>5. Run(m, steps) = j[DOMAIN steps]
    BY DEF Run, FoldLeft, MapThenFoldSet
  <1>6. \A it : Loop(it) <=> Stepwise(it)
    <2> HIDE DEF n, seq, steps
    <2> QED
      BY <1>1, <1>2, <1>3
  <1>7. i = j
    <2> HIDE DEF Loop, Stepwise
    <2> QED
      BY <1>6
  <1> HIDE DEF i, j
  <1> QED
    BY <1>1, <1>4, <1>5, <1>7

Pushed(m, v, values) == FoldLeft(LAMBDA n, value : PushBack(n, v, value), m, values)
PushSteps(v, values) == [k \in 1 .. Len(values) |-> Step("push", v, 0, v, 0, values[k])]

LEMMA PushRuns ==
  ASSUME NEW m, NEW v, NEW S, NEW values \in Seq(S)
  PROVE  Pushed(m, v, values) = Run(m, PushSteps(v, values))
  <1> DEFINE seq == values
             steps == PushSteps(v, values)
             Loop(it) == it = [s \in SUBSET DOMAIN seq |->
                           IF s = {} THEN m
                           ELSE LET x == Max(s) IN PushBack(it[s \ {x}], v, seq[x])]
             Stepwise(it) == it = [s \in SUBSET DOMAIN steps |->
                               IF s = {} THEN m ELSE LET x == Max(s) IN Do(it[s \ {x}], steps[x])]
             n == Len(values)
  <1>1. n \in Nat /\ DOMAIN seq = 1 .. n /\ DOMAIN steps = 1 .. n
    BY DEF PushSteps
  <1>2. \A k \in 1 .. n : \A p : PushBack(p, v, seq[k]) = Do(p, steps[k])
    BY DoKinds DEF PushSteps
  <1>3. \A s \in SUBSET (1 .. n) : s # {} => Max(s) \in 1 .. n
    BY <1>1, GreatestOfSome
  <1> DEFINE i == CHOOSE it : Loop(it)
             j == CHOOSE it : Stepwise(it)
  <1>4. Pushed(m, v, values) = i[DOMAIN seq]
    BY DEF Pushed, FoldLeft, MapThenFoldSet
  <1>5. Run(m, steps) = j[DOMAIN steps]
    BY DEF Run, FoldLeft, MapThenFoldSet
  <1>6. \A it : Loop(it) <=> Stepwise(it)
    <2> HIDE DEF n, seq, steps
    <2> QED
      BY <1>1, <1>2, <1>3
  <1>7. i = j
    <2> HIDE DEF Loop, Stepwise
    <2> QED
      BY <1>6
  <1> HIDE DEF i, j
  <1> QED
    BY <1>1, <1>4, <1>5, <1>7

MovedBack(m, v, index, count) ==
  Downwards(m, m.size[v] - 1, index, LAMBDA n, i : Relocate(n, v, i, v, i + count))
RelocateSteps(v, from, to, direction, n) ==
  [k \in 1 .. n |-> Step("relocate", v, to + direction * (k - 1),
                         v, from + direction * (k - 1), Raw)]

LEMMA BackRuns ==
  ASSUME NEW m, NEW v, NEW index \in Int, NEW count \in Int,
         m.size[v] \in Int, m.size[v] - index \in Nat
  PROVE  MovedBack(m, v, index, count)
           = Run(m, RelocateSteps(v, m.size[v] - 1, m.size[v] - 1 + count, -1, m.size[v] - index))
  <1> DEFINE seq == [k \in 1 .. m.size[v] - 1 - index + 1 |-> m.size[v] - 1 - k + 1]
             steps == RelocateSteps(v, m.size[v] - 1, m.size[v] - 1 + count, -1, m.size[v] - index)
             Loop(it) == it = [s \in SUBSET DOMAIN seq |->
                           IF s = {} THEN m
                           ELSE LET x == Max(s)
                                IN  Relocate(it[s \ {x}], v, seq[x], v, seq[x] + count)]
             Stepwise(it) == it = [s \in SUBSET DOMAIN steps |->
                               IF s = {} THEN m ELSE LET x == Max(s) IN Do(it[s \ {x}], steps[x])]
             n == m.size[v] - index
  <1>1. n \in Nat /\ DOMAIN seq = 1 .. n /\ DOMAIN steps = 1 .. n
    BY DEF RelocateSteps
  <1>2. \A k \in 1 .. n : \A p : Relocate(p, v, seq[k], v, seq[k] + count) = Do(p, steps[k])
    BY SMTT(30), DoKinds DEF RelocateSteps
  <1>3. \A s \in SUBSET (1 .. n) : s # {} => Max(s) \in 1 .. n
    BY <1>1, GreatestOfSome
  <1> DEFINE i == CHOOSE it : Loop(it)
             j == CHOOSE it : Stepwise(it)
  <1>4. MovedBack(m, v, index, count) = i[DOMAIN seq]
    BY DEF MovedBack, Downwards, FoldLeft, MapThenFoldSet
  <1>5. Run(m, steps) = j[DOMAIN steps]
    BY DEF Run, FoldLeft, MapThenFoldSet
  <1>6. \A it : Loop(it) <=> Stepwise(it)
    <2> HIDE DEF n, seq, steps
    <2> QED
      BY <1>1, <1>2, <1>3
  <1>7. i = j
    <2> HIDE DEF Loop, Stepwise
    <2> QED
      BY <1>6
  <1> HIDE DEF i, j
  <1> QED
    BY <1>1, <1>4, <1>5, <1>7

MovedForth(m, v, first, last, count) ==
  Upwards(m, first, last, LAMBDA n, i : Relocate(n, v, i, v, i - count))

LEMMA ForthRuns ==
  ASSUME NEW m, NEW v, NEW first \in Int, NEW last \in Int, NEW count \in Int,
         last - first + 1 \in Nat
  PROVE  MovedForth(m, v, first, last, count)
           = Run(m, RelocateSteps(v, first, first - count, 1, last - first + 1))
  <1> DEFINE seq == [k \in 1 .. last - first + 1 |-> first + k - 1]
             steps == RelocateSteps(v, first, first - count, 1, last - first + 1)
             Loop(it) == it = [s \in SUBSET DOMAIN seq |->
                           IF s = {} THEN m
                           ELSE LET x == Max(s)
                                IN  Relocate(it[s \ {x}], v, seq[x], v, seq[x] - count)]
             Stepwise(it) == it = [s \in SUBSET DOMAIN steps |->
                               IF s = {} THEN m ELSE LET x == Max(s) IN Do(it[s \ {x}], steps[x])]
             n == last - first + 1
  <1>1. n \in Nat /\ DOMAIN seq = 1 .. n /\ DOMAIN steps = 1 .. n
    BY DEF RelocateSteps
  <1>2. \A k \in 1 .. n : \A p : Relocate(p, v, seq[k], v, seq[k] - count) = Do(p, steps[k])
    BY DoKinds DEF RelocateSteps
  <1>3. \A s \in SUBSET (1 .. n) : s # {} => Max(s) \in 1 .. n
    BY <1>1, GreatestOfSome
  <1> DEFINE i == CHOOSE it : Loop(it)
             j == CHOOSE it : Stepwise(it)
  <1>4. MovedForth(m, v, first, last, count) = i[DOMAIN seq]
    BY DEF MovedForth, Upwards, FoldLeft, MapThenFoldSet
  <1>5. Run(m, steps) = j[DOMAIN steps]
    BY DEF Run, FoldLeft, MapThenFoldSet
  <1>6. \A it : Loop(it) <=> Stepwise(it)
    <2> HIDE DEF n, seq, steps
    <2> QED
      BY <1>1, <1>2, <1>3
  <1>7. i = j
    <2> HIDE DEF Loop, Stepwise
    <2> QED
      BY <1>6
  <1> HIDE DEF i, j
  <1> QED
    BY <1>1, <1>4, <1>5, <1>7

Swapped(m, v, w, size) == Upwards(m, 0, size - 1, LAMBDA n, i : SwapElement(n, v, w, i))
SwapSteps(v, w, n) == [k \in 1 .. n |-> Step("swap", v, k - 1, w, k - 1, Raw)]

LEMMA SwapRuns ==
  ASSUME NEW m, NEW v, NEW w, NEW size \in Nat
  PROVE  Swapped(m, v, w, size) = Run(m, SwapSteps(v, w, size))
  <1> DEFINE seq == [k \in 1 .. size - 1 - 0 + 1 |-> 0 + k - 1]
             steps == SwapSteps(v, w, size)
             Loop(it) == it = [s \in SUBSET DOMAIN seq |->
                           IF s = {} THEN m
                           ELSE LET x == Max(s) IN SwapElement(it[s \ {x}], v, w, seq[x])]
             Stepwise(it) == it = [s \in SUBSET DOMAIN steps |->
                               IF s = {} THEN m ELSE LET x == Max(s) IN Do(it[s \ {x}], steps[x])]
             n == size
  <1>1. n \in Nat /\ DOMAIN seq = 1 .. n /\ DOMAIN steps = 1 .. n
    BY DEF SwapSteps
  <1>2. \A k \in 1 .. n : \A p : SwapElement(p, v, w, seq[k]) = Do(p, steps[k])
    BY DoKinds DEF SwapSteps
  <1>3. \A s \in SUBSET (1 .. n) : s # {} => Max(s) \in 1 .. n
    BY <1>1, GreatestOfSome
  <1> DEFINE i == CHOOSE it : Loop(it)
             j == CHOOSE it : Stepwise(it)
  <1>4. Swapped(m, v, w, size) = i[DOMAIN seq]
    BY DEF Swapped, Upwards, FoldLeft, MapThenFoldSet
  <1>5. Run(m, steps) = j[DOMAIN steps]
    BY DEF Run, FoldLeft, MapThenFoldSet
  <1>6. \A it : Loop(it) <=> Stepwise(it)
    <2> HIDE DEF n, seq, steps
    <2> QED
      BY <1>1, <1>2, <1>3
  <1>7. i = j
    <2> HIDE DEF Loop, Stepwise
    <2> QED
      BY <1>6
  <1> HIDE DEF i, j
  <1> QED
    BY <1>1, <1>4, <1>5, <1>7

Rest(m, v, w, first, last) == Upwards(m, first, last, LAMBDA n, i : Relocate(n, w, i, v, i))
RestSteps(v, w, first, n) ==
  [k \in 1 .. n |-> Step("relocate", v, first + k - 1, w, first + k - 1, Raw)]

LEMMA RestRuns ==
  ASSUME NEW m, NEW v, NEW w, NEW first \in Int, NEW last \in Int, last - first + 1 \in Nat
  PROVE  Rest(m, v, w, first, last) = Run(m, RestSteps(v, w, first, last - first + 1))
  <1> DEFINE seq == [k \in 1 .. last - first + 1 |-> first + k - 1]
             steps == RestSteps(v, w, first, last - first + 1)
             Loop(it) == it = [s \in SUBSET DOMAIN seq |->
                           IF s = {} THEN m
                           ELSE LET x == Max(s) IN Relocate(it[s \ {x}], w, seq[x], v, seq[x])]
             Stepwise(it) == it = [s \in SUBSET DOMAIN steps |->
                               IF s = {} THEN m ELSE LET x == Max(s) IN Do(it[s \ {x}], steps[x])]
             n == last - first + 1
  <1>1. n \in Nat /\ DOMAIN seq = 1 .. n /\ DOMAIN steps = 1 .. n
    BY DEF RestSteps
  <1>2. \A k \in 1 .. n : \A p : Relocate(p, w, seq[k], v, seq[k]) = Do(p, steps[k])
    BY DoKinds DEF RestSteps
  <1>3. \A s \in SUBSET (1 .. n) : s # {} => Max(s) \in 1 .. n
    BY <1>1, GreatestOfSome
  <1> DEFINE i == CHOOSE it : Loop(it)
             j == CHOOSE it : Stepwise(it)
  <1>4. Rest(m, v, w, first, last) = i[DOMAIN seq]
    BY DEF Rest, Upwards, FoldLeft, MapThenFoldSet
  <1>5. Run(m, steps) = j[DOMAIN steps]
    BY DEF Run, FoldLeft, MapThenFoldSet
  <1>6. \A it : Loop(it) <=> Stepwise(it)
    <2> HIDE DEF n, seq, steps
    <2> QED
      BY <1>1, <1>2, <1>3
  <1>7. i = j
    <2> HIDE DEF Loop, Stepwise
    <2> QED
      BY <1>6
  <1> HIDE DEF i, j
  <1> QED
    BY <1>1, <1>4, <1>5, <1>7

RemoveSteps(m, v, value) ==
  [k \in 1 .. m.size[v] |->
     LET target == KeptBefore(m, v, k - 1, value)
     IN  Step(IF m.slots[v][k - 1] = value \/ target = k - 1 THEN "nothing" ELSE "assign",
              v, target, v, k - 1, Raw)]

LEMMA RemoveRuns ==
  ASSUME NEW m, NEW v, NEW value, m.size[v] \in Nat
  PROVE  RemoveIf(m, v, value) = Run(m, RemoveSteps(m, v, value))
  <1> DEFINE seq == [k \in 1 .. m.size[v] - 1 - 0 + 1 |-> 0 + k - 1]
             steps == RemoveSteps(m, v, value)
             Keep(q, x) == IF m.slots[v][x] = value \/ KeptBefore(m, v, x, value) = x THEN q
                           ELSE MoveAssign(q, v, x, KeptBefore(m, v, x, value))
             Loop(it) == it = [s \in SUBSET DOMAIN seq |->
                           IF s = {} THEN m
                           ELSE LET x == Max(s) IN Keep(it[s \ {x}], seq[x])]
             Stepwise(it) == it = [s \in SUBSET DOMAIN steps |->
                               IF s = {} THEN m ELSE LET x == Max(s) IN Do(it[s \ {x}], steps[x])]
             n == m.size[v]
  <1>1. n \in Nat /\ DOMAIN seq = 1 .. n /\ DOMAIN steps = 1 .. n
    BY DEF RemoveSteps
  <1>2. \A k \in 1 .. n : \A p : Keep(p, seq[k]) = Do(p, steps[k])
    BY DoKinds DEF RemoveSteps
  <1>3. \A s \in SUBSET (1 .. n) : s # {} => Max(s) \in 1 .. n
    BY <1>1, GreatestOfSome
  <1> DEFINE i == CHOOSE it : Loop(it)
             j == CHOOSE it : Stepwise(it)
  <1>4. RemoveIf(m, v, value) = i[DOMAIN seq]
    BY DEF RemoveIf, Upwards, FoldLeft, MapThenFoldSet
  <1>5. Run(m, steps) = j[DOMAIN steps]
    BY DEF Run, FoldLeft, MapThenFoldSet
  <1>6. \A it : Loop(it) <=> Stepwise(it)
    <2> HIDE DEF n, seq, steps
    <2> QED
      BY ZenonT(60), <1>1, <1>2, <1>3
  <1>7. i = j
    <2> HIDE DEF Loop, Stepwise
    <2> QED
      BY <1>6
  <1> HIDE DEF i, j
  <1> QED
    BY <1>1, <1>4, <1>5, <1>7

--------------------------------------------------------------------------------
(* Where objects live after each loop.                                      *)

LEMMA WithOnce ==
  ASSUME NEW L \in Layouts, NEW v \in Vectors, NEW a \in SUBSET Int
  PROVE  /\ With(L, v, a) \in Layouts
         /\ With(L, v, a)[v] = a
         /\ \A w \in Vectors : w # v => With(L, v, a)[w] = L[w]
         /\ \A b : With(With(L, v, a), v, b) = With(L, v, b)
         /\ With(L, v, L[v]) = L
  BY DEF With, Layouts

LEMMA Sized ==
  ASSUME NEW z, NEW L, NEW m \in Layout(z, L)
  PROVE  /\ m \in Memories /\ m.wrong = FALSE /\ m.size = z /\ z \in [Vectors -> Int]
         /\ \A v \in Vectors : \A i \in Slots :
               m.slots[v][i] \in Contained /\ (m.slots[v][i] \notin Free <=> i \in L[v])
  BY DEF Layout, Memories

\* A step within one vector, where objects live in the slots S, and in T after it.
Moves(e, v, S, T) ==
  /\ e \in Steps /\ e.vector = v /\ e.other = v
  /\ \/ e.does = "construct" /\ e.slot \notin S /\ e.value \notin Free /\ T = S \union {e.slot}
     \/ e.does = "destroy" /\ e.slot \in S /\ T = S \ {e.slot}
     \/ /\ e.does = "relocate" /\ e.source \in S /\ e.slot \notin S
        /\ T = (S \union {e.slot}) \ {e.source}
     \/ e.does = "assign" /\ e.source \in S /\ e.slot \in S /\ T = S
     \/ e.does = "nothing" /\ T = S

LEMMA MovesLays ==
  ASSUME NEW z, NEW L \in Layouts, NEW v \in Vectors, NEW S \in SUBSET Int, NEW T \in SUBSET Int,
         NEW m \in Layout(z, With(L, v, S)), NEW e, Moves(e, v, S, T)
  PROVE  Do(m, e) \in Layout(z, With(L, v, T))
  <1> DEFINE i == e.slot
             j == e.source
             K == With(L, v, S)
  <1>1. /\ i \in Slots /\ j \in Slots /\ e.value \in Contained
        /\ e = Step(e.does, v, i, v, j, e.value)
    BY DEF Moves, Steps, Step
  <1>2. /\ K \in Layouts /\ K[v] = S /\ \A b : With(K, v, b) = With(L, v, b)
    BY WithOnce
  <1>3. Slots \in SUBSET Int
    BY DEF Slots
  <1> HIDE DEF i, j, K
  <1>4. CASE e.does = "construct"
    <2>1. i \notin S /\ e.value \notin Free /\ T = S \union {i}
      BY <1>4 DEF Moves, i
    <2>2. Do(m, e) = Construct(m, v, i, e.value)
      BY <1>1, <1>4, DoKinds
    <2>3. Construct(m, v, i, e.value) \in Layout(z, With(K, v, K[v] \union {i}))
      BY <1>1, <1>2, <2>1, ConstructLays DEF K
    <2> QED
      BY <1>2, <2>1, <2>2, <2>3
  <1>5. CASE e.does = "destroy"
    <2>1. i \in S /\ T = S \ {i}
      BY <1>5 DEF Moves, i
    <2>2. Do(m, e) = DestroyElement(m, v, i)
      BY <1>1, <1>5, DoKinds
    <2>3. DestroyElement(m, v, i) \in Layout(z, With(K, v, K[v] \ {i}))
      BY <1>1, <1>2, <2>1, DestroyLays DEF K
    <2> QED
      BY <1>2, <2>1, <2>2, <2>3
  <1>6. CASE e.does = "relocate"
    <2>1. j \in S /\ i \notin S /\ T = (S \union {i}) \ {j}
      BY <1>6 DEF Moves, i, j
    <2>2. Do(m, e) = Relocate(m, v, j, v, i)
      BY <1>1, <1>6, DoKinds
    <2> DEFINE M == With(K, v, K[v] \union {i})
             A == S \union {i}
    <2>3. M = With(L, v, A) /\ A \in SUBSET Int
      BY <1>1, <1>2, <1>3
    <2>4. M[v] = A /\ \A b : With(M, v, b) = With(L, v, b)
      <3> HIDE DEF A, M
      <3> QED
        BY <2>3, WithOnce
    <2>5. Relocate(m, v, j, v, i) \in Layout(z, With(M, v, M[v] \ {j}))
      BY <1>1, <1>2, <2>1, RelocateLays DEF K
    <2> HIDE DEF M
    <2> QED
      BY <2>1, <2>2, <2>4, <2>5
  <1>7. CASE e.does = "assign"
    <2>1. j \in S /\ i \in S /\ T = S
      BY <1>7 DEF Moves, i, j
    <2>2. Do(m, e) = MoveAssign(m, v, j, i)
      BY <1>1, <1>7, DoKinds
    <2>3. MoveAssign(m, v, j, i) \in Layout(z, K)
      BY <1>1, <1>2, <2>1, MoveAssignLays DEF K
    <2> QED
      BY <2>1, <2>2, <2>3 DEF K
  <1>8. CASE e.does = "nothing"
    <2>1. T = S
      BY <1>8 DEF Moves
    <2>2. Do(m, e) = m
      BY <1>1, <1>8, DoKinds
    <2> QED
      BY <2>1, <2>2
  <1> QED
    BY <1>4, <1>5, <1>6, <1>7, <1>8 DEF Moves

\* A loop over one vector, with the slots of objects after each of its steps.
LEMMA LoopLays ==
  ASSUME NEW z, NEW L \in Layouts, NEW m \in Layout(z, L), NEW v \in Vectors,
         NEW n \in Nat, NEW steps, steps = [k \in 1 .. n |-> steps[k]],
         NEW S \in [0 .. n -> SUBSET Int], S[0] = L[v],
         \A k \in 1 .. n : Moves(steps[k], v, S[k - 1], S[k])
  PROVE  Run(m, steps) \in Layout(z, With(L, v, S[n]))
  <1> DEFINE I == [k \in 0 .. n |-> Layout(z, With(L, v, S[k]))]
  <1>1. steps \in Seq(Steps) /\ Len(steps) = n
    <2>1. \A k \in 1 .. n : steps[k] \in Steps
      BY DEF Moves
    <2> QED
      BY <2>1
  <1>2. 0 \in 0 .. n /\ n \in 0 .. n
    OBVIOUS
  <1>3. m \in Memories /\ m \in I[0]
    <2>1. m \in Memories /\ With(L, v, S[0]) = L
      BY Sized, WithOnce DEF Layouts
    <2> QED
      BY <1>2, <2>1
  <1>4. ASSUME NEW k \in 1 .. n, NEW p \in I[k - 1] PROVE Do(p, steps[k]) \in I[k]
    <2>1. k - 1 \in 0 .. n /\ k \in 0 .. n
      OBVIOUS
    <2>2. S[k - 1] \in SUBSET Int /\ S[k] \in SUBSET Int /\ p \in Layout(z, With(L, v, S[k - 1]))
      BY <2>1, <1>4
    <2>3. Do(p, steps[k]) \in Layout(z, With(L, v, S[k]))
      BY <2>2, MovesLays
    <2> QED
      BY <2>1, <2>3
  <1> HIDE DEF I
  <1>5. Run(m, steps) \in I[n]
    BY <1>1, <1>2, <1>3, <1>4, RunWithin
  <1> QED
    BY <1>2, <1>5 DEF I

LEMMA DestroyRangeLays ==
  ASSUME NEW z, NEW L \in Layouts, NEW m \in Layout(z, L), NEW v \in Vectors,
         NEW first \in Int, NEW last \in Int, last - first + 1 \in Nat,
         first .. last \subseteq Slots, first .. last \subseteq L[v]
  PROVE  DestroyRange(m, v, first, last) \in Layout(z, With(L, v, L[v] \ (first .. last)))
  <1> DEFINE n == last - first + 1
             steps == DestroySteps(v, first, n)
             S == [k \in 0 .. n |-> L[v] \ (first .. first + k - 1)]
  <1>1. n \in Nat /\ steps = [k \in 1 .. n |-> steps[k]]
    BY DEF DestroySteps
  <1>2. S \in [0 .. n -> SUBSET Int] /\ S[0] = L[v] /\ S[n] = L[v] \ (first .. last)
    BY DEF Layouts
  <1>3. ASSUME NEW k \in 1 .. n PROVE Moves(steps[k], v, S[k - 1], S[k])
    <2>1. /\ first + k - 1 \in first .. last /\ first + k - 1 \in S[k - 1]
          /\ S[k] = S[k - 1] \ {first + k - 1}
      BY SMTT(30), <1>1
    <2>2. steps[k] = Step("destroy", v, first + k - 1, v, first + k - 1, Raw)
      BY <1>1 DEF DestroySteps
    <2> HIDE DEF S, steps
    <2> QED
      BY <2>1, <2>2 DEF Moves, Step, Steps, Kinds, Contained
  <1>4. DestroyRange(m, v, first, last) = Run(m, steps)
    BY DestroyRuns
  <1> HIDE DEF n, steps, S
  <1>5. Run(m, steps) \in Layout(z, With(L, v, S[n]))
    BY <1>1, <1>2, <1>3, LoopLays
  <1> QED
    BY <1>2, <1>4, <1>5

LEMMA ConstructRangeLays ==
  ASSUME NEW z, NEW L \in Layouts, NEW m \in Layout(z, L), NEW v \in Vectors,
         NEW first \in Int, NEW values \in Seq(Contained \ Free),
         first .. first + Len(values) - 1 \subseteq Slots,
         \A i \in first .. first + Len(values) - 1 : i \notin L[v]
  PROVE  ConstructRange(m, v, first, values)
           \in Layout(z, With(L, v, L[v] \union (first .. first + Len(values) - 1)))
  <1> DEFINE n == Len(values)
             steps == ConstructSteps(v, first, values)
             S == [k \in 0 .. n |-> L[v] \union (first .. first + k - 1)]
  <1>1. n \in Nat /\ steps = [k \in 1 .. n |-> steps[k]]
    BY DEF ConstructSteps
  <1>2. S \in [0 .. n -> SUBSET Int] /\ S[0] = L[v] /\ S[n] = L[v] \union (first .. first + n - 1)
    BY DEF Layouts
  <1>3. ASSUME NEW k \in 1 .. n PROVE Moves(steps[k], v, S[k - 1], S[k])
    <2>1. /\ first + k - 1 \in first .. first + n - 1 /\ first + k - 1 \notin S[k - 1]
          /\ S[k] = S[k - 1] \union {first + k - 1}
      BY <1>1
    <2>2. steps[k] = Step("construct", v, first + k - 1, v, first + k - 1, values[k])
      BY <1>1 DEF ConstructSteps
    <2>3. values[k] \in Contained /\ values[k] \notin Free
      BY <1>1
    <2>4. first + k - 1 \in Slots
      BY <2>1
    <2> HIDE DEF S, steps
    <2> QED
      BY <2>1, <2>2, <2>3, <2>4 DEF Moves, Step, Steps, Kinds
  <1>4. ConstructRange(m, v, first, values) = Run(m, steps)
    BY <1>1, ConstructRuns
  <1> HIDE DEF n, steps, S
  <1>5. Run(m, steps) \in Layout(z, With(L, v, S[n]))
    BY <1>1, <1>2, <1>3, LoopLays
  <1> QED
    BY <1>2, <1>4, <1>5 DEF n

\* The elements from an index on move to behind a gap.
LEMMA BackLays ==
  ASSUME NEW z, NEW L \in Layouts, NEW m \in Layout(z, L), NEW v \in Vectors,
         z[v] \in Nat, L[v] = 0 .. z[v] - 1, NEW index \in 0 .. z[v], NEW count \in Nat \ {0},
         z[v] + count <= N
  PROVE  MovedBack(m, v, index, count)
           \in Layout(z, With(L, v, (0 .. index - 1) \union (index + count .. z[v] + count - 1)))
  <1> DEFINE size == z[v]
             n == size - index
             steps == RelocateSteps(v, size - 1, size - 1 + count, -1, n)
             S == [k \in 0 .. n |->
                     (0 .. size - k - 1) \union (size + count - k .. size + count - 1)]
  <1>0. /\ size \in Nat /\ L[v] = 0 .. size - 1 /\ index \in 0 .. size /\ size + count <= N
        /\ m.size[v] = size
    BY ZenonT(60), Sized
  <1> HIDE DEF size
  <1>1. /\ n \in Nat /\ index \in Int /\ count \in Int
        /\ steps = [k \in 1 .. n |-> steps[k]]
    BY <1>0 DEF RelocateSteps
  <1>2. /\ S \in [0 .. n -> SUBSET Int] /\ S[0] = L[v]
        /\ S[n] = (0 .. index - 1) \union (index + count .. size + count - 1)
    <2>1. /\ size - n - 1 = index - 1 /\ size + count - n = index + count
          /\ 0 \in 0 .. n /\ n \in 0 .. n
      <3> HIDE DEF S, steps
      <3>1. n = size - index /\ index \in Int /\ size \in Int
        BY <1>0, <1>1
      <3>2. size - n - 1 = index - 1 /\ size + count - n = index + count
        BY <1>1, <3>1
      <3> HIDE DEF n
      <3>3. 0 \in 0 .. n /\ n \in 0 .. n
        BY <1>1
      <3> QED
        BY <3>2, <3>3
    <2>2. S[0] = L[v]
      <3>1. S[0] = (0 .. size - 0 - 1) \union (size + count - 0 .. size + count - 1)
        BY <2>1
      <3>2. /\ size - 0 - 1 = size - 1 /\ size + count - 0 = size + count
            /\ size + count .. size + count - 1 = {}
        BY <1>0, <1>1
      <3> QED
        BY <1>0, <3>1, <3>2
    <2>3. S[n] = (0 .. size - n - 1) \union (size + count - n .. size + count - 1)
      BY <2>1
    <2> QED
      BY <2>1, <2>2, <2>3
  <1>3. ASSUME NEW k \in 1 .. n PROVE Moves(steps[k], v, S[k - 1], S[k])
    <2> DEFINE i == size - 1 + count + (-1) * (k - 1)
               j == size - 1 + (-1) * (k - 1)
    <2>1. steps[k] = Step("relocate", v, i, v, j, Raw)
      BY <1>1 DEF RelocateSteps
    <2>2. i = size + count - k /\ j = size - k /\ k <= size
      BY SMTT(30), <1>0, <1>1
    <2>3. i \in Slots /\ j \in Slots
      <3>1. N \in Nat /\ k \in Nat /\ k >= 1
        BY <1>1, CapacityAssumption
      <3> HIDE DEF i, j, n, S, steps
      <3> QED
        BY <1>0, <2>2, <3>1 DEF Slots
    <2>4. /\ S[k - 1]
               = (0 .. size - (k - 1) - 1) \union (size + count - (k - 1) .. size + count - 1)
          /\ S[k] = (0 .. size - k - 1) \union (size + count - k .. size + count - 1)
      <3>1. k - 1 \in 0 .. n /\ k \in 0 .. n
        BY <1>1
      <3> QED
        BY <3>1
    <2> HIDE DEF S, steps, i, j, n
    <2>5. j \in S[k - 1] /\ i \notin S[k - 1] /\ S[k] = (S[k - 1] \union {i}) \ {j}
      <3>1. i \in Int /\ j \in Int /\ k \in 1 .. size
        BY <1>0, <1>1, <2>2
      <3>2. j \in S[k - 1]
        BY <1>0, <2>2, <2>4, <3>1
      <3>3. i \notin S[k - 1]
        BY <1>0, <2>2, <2>4, <3>1
      <3>4. \A x : x \in S[k] <=> x = i \/ (x \in S[k - 1] /\ x # j)
        BY <1>0, <2>2, <2>4, <3>1
      <3>5. i # j
        BY <1>0, <2>2, <3>1
      <3> QED
        BY <3>2, <3>3, <3>4, <3>5
    <2> QED
      BY <2>1, <2>3, <2>5 DEF Moves, Step, Steps, Kinds, Contained
  <1>4. MovedBack(m, v, index, count) = Run(m, steps)
    BY <1>0, <1>1, BackRuns
  <1> HIDE DEF n, steps, S
  <1>5. Run(m, steps) \in Layout(z, With(L, v, S[n]))
    BY <1>1, <1>2, <1>3, LoopLays
  <1> QED
    BY <1>2, <1>4, <1>5 DEF size

\* The elements behind a gap move to its begin.
LEMMA ForthLays ==
  ASSUME NEW z, NEW L \in Layouts, NEW m \in Layout(z, L), NEW v \in Vectors,
         NEW size \in Nat, size <= N, NEW first \in Nat, NEW count \in Nat \ {0},
         first + count <= size, L[v] = (0 .. first - 1) \union (first + count .. size - 1)
  PROVE  MovedForth(m, v, first + count, size - 1, count)
           \in Layout(z, With(L, v, 0 .. size - count - 1))
  <1> DEFINE from == first + count
             n == size - 1 - from + 1
             steps == RelocateSteps(v, from, from - count, 1, n)
             S == [k \in 0 .. n |-> (0 .. first + k - 1) \union (from + k .. size - 1)]
  <1>1. /\ n \in Nat /\ n = size - from /\ from \in Nat /\ from = first + count
        /\ steps = [k \in 1 .. n |-> steps[k]]
    BY DEF RelocateSteps
  <1>0. MovedForth(m, v, from, size - 1, count) = Run(m, steps)
    BY <1>1, ForthRuns
  <1> HIDE DEF n, from
  <1>2. /\ S \in [0 .. n -> SUBSET Int] /\ S[0] = L[v] /\ S[n] = 0 .. size - count - 1
    <2>1. 0 \in 0 .. n /\ n \in 0 .. n /\ first + n - 1 = size - count - 1 /\ from + n = size
      <3> HIDE DEF S, steps
      <3>1. 0 \in 0 .. n /\ n \in 0 .. n
        BY <1>1
      <3>2. first + n - 1 = size - count - 1
        BY <1>1
      <3>3. from + n = size
        BY <1>1
      <3> QED
        BY <3>1, <3>2, <3>3
    <2>2. S[0] = L[v]
      <3>1. S[0] = (0 .. first + 0 - 1) \union (from + 0 .. size - 1)
        BY <2>1
      <3>2. first + 0 - 1 = first - 1 /\ from + 0 = first + count
        BY <1>1
      <3> QED
        BY <3>1, <3>2
    <2>3. S[n] = (0 .. first + n - 1) \union (from + n .. size - 1)
      BY <2>1
    <2>4. size .. size - 1 = {}
      OBVIOUS
    <2> QED
      BY <2>1, <2>2, <2>3, <2>4
  <1>3. ASSUME NEW k \in 1 .. n PROVE Moves(steps[k], v, S[k - 1], S[k])
    <2> DEFINE i == from - count + 1 * (k - 1)
               j == from + 1 * (k - 1)
    <2>1. steps[k] = Step("relocate", v, i, v, j, Raw)
      BY <1>1 DEF RelocateSteps
    <2>2. /\ i = first + k - 1 /\ j = from + k - 1 /\ i \in Int /\ j \in Int /\ k \in Nat
          /\ i < j /\ j < size /\ i >= 0 /\ j >= 0
      <3>1. 1 * (k - 1) = k - 1 /\ k \in Nat /\ k >= 1 /\ k <= size - from
        BY <1>1
      <3> QED
        BY <1>1, <3>1
    <2>3. i \in Slots /\ j \in Slots
      BY <2>2, CapacityAssumption DEF Slots
    <2>4. /\ S[k - 1] = (0 .. first + (k - 1) - 1) \union (from + (k - 1) .. size - 1)
          /\ S[k] = (0 .. first + k - 1) \union (from + k .. size - 1)
      <3>1. k - 1 \in 0 .. n /\ k \in 0 .. n
        BY <1>1
      <3> QED
        BY <3>1
    <2> HIDE DEF S, steps, i, j
    <2>5. j \in S[k - 1]
      BY <1>1, <2>2, <2>4
    <2>6. i \notin S[k - 1]
      BY <1>1, <2>2, <2>4
    <2>7. \A x : x \in S[k] <=> x = i \/ (x \in S[k - 1] /\ x # j)
      <3>1. ASSUME NEW x \in Int PROVE x \in S[k] <=> x = i \/ (x \in S[k - 1] /\ x # j)
        BY SMTT(30), <1>1, <2>2, <2>4
      <3>2. S[k] \subseteq Int /\ S[k - 1] \subseteq Int /\ i \in Int
        BY <2>2, <2>4
      <3> QED
        BY <3>1, <3>2
    <2>8. S[k] = (S[k - 1] \union {i}) \ {j}
      BY <2>2, <2>7
    <2> QED
      BY <2>1, <2>3, <2>5, <2>6, <2>8 DEF Moves, Step, Steps, Kinds, Contained
  <1> HIDE DEF steps, S
  <1>5. Run(m, steps) \in Layout(z, With(L, v, S[n]))
    BY <1>1, <1>2, <1>3, LoopLays
  <1> QED
    BY <1>0, <1>2, <1>5 DEF from

LEMMA KeptWithin ==
  ASSUME NEW m, NEW v, NEW i \in Nat, NEW value
  PROVE  KeptBefore(m, v, i, value) \in 0 .. i
  <1> DEFINE kept == {j \in 0 .. i - 1 : m.slots[v][j] # value}
  <1>1. IsFiniteSet(0 .. i - 1) /\ Cardinality(0 .. i - 1) = i
    BY FS_Interval
  <1>2. kept \subseteq 0 .. i - 1
    OBVIOUS
  <1>3. KeptBefore(m, v, i, value) = Cardinality(kept)
    BY DEF KeptBefore
  <1> HIDE DEF kept
  <1>4. IsFiniteSet(kept) /\ Cardinality(kept) <= i
    BY <1>1, <1>2, FS_Subset
  <1>5. Cardinality(kept) \in Nat
    BY <1>4, FS_CardinalityType
  <1> QED
    BY <1>3, <1>4, <1>5

\* What is removed is assigned over: no object comes or goes.
LEMMA RemoveLays ==
  ASSUME NEW z, NEW L \in Layouts, NEW m \in Layout(z, L), NEW v \in Vectors,
         z[v] \in 0 .. N, L[v] = 0 .. z[v] - 1, NEW value
  PROVE  RemoveIf(m, v, value) \in Layout(z, L)
  <1> DEFINE n == z[v]
             steps == RemoveSteps(m, v, value)
             S == [k \in 0 .. n |-> L[v]]
  <1>1. n \in Nat /\ n <= N /\ m.size[v] = n
    <2>1. m.size = z
      BY Sized
    <2> QED
      BY <2>1, CapacityAssumption
  <1>2. steps = [k \in 1 .. n |-> steps[k]]
    BY <1>1 DEF RemoveSteps
  <1>3. S \in [0 .. n -> SUBSET Int] /\ S[0] = L[v] /\ S[n] = L[v]
    BY <1>1 DEF Layouts
  <1>4. ASSUME NEW k \in 1 .. n PROVE Moves(steps[k], v, S[k - 1], S[k])
    <2> DEFINE target == KeptBefore(m, v, k - 1, value)
               does == IF m.slots[v][k - 1] = value \/ target = k - 1 THEN "nothing" ELSE "assign"
    <2>1. steps[k] = Step(does, v, target, v, k - 1, Raw)
      BY <1>1 DEF RemoveSteps
    <2>2. S[k - 1] = L[v] /\ S[k] = L[v] /\ k - 1 \in Nat
      BY <1>1
    <2>3. target \in 0 .. k - 1
      BY <2>2, KeptWithin
    <2>4. does \in {"nothing", "assign"}
      OBVIOUS
    <2> HIDE DEF S, steps, target, does
    <2>5. target \in L[v] /\ k - 1 \in L[v] /\ target \in Slots /\ k - 1 \in Slots
      <3> HIDE DEF n
      <3>1. L[v] = 0 .. n - 1
        BY DEF n
      <3> QED
        BY <1>1, <2>2, <2>3, <3>1, CapacityAssumption DEF Slots
    <2> QED
      BY <2>1, <2>2, <2>4, <2>5 DEF Moves, Step, Steps, Kinds, Contained
  <1>5. RemoveIf(m, v, value) = Run(m, steps)
    BY <1>1, RemoveRuns
  <1> HIDE DEF n, steps, S
  <1>6. Run(m, steps) \in Layout(z, With(L, v, S[n]))
    BY <1>1, <1>2, <1>3, <1>4, LoopLays
  <1>7. With(L, v, L[v]) = L
    BY WithOnce DEF Layouts, With
  <1> QED
    BY <1>3, <1>5, <1>6, <1>7

LEMMA SwapLoopLays ==
  ASSUME NEW z, NEW L \in Layouts, NEW m \in Layout(z, L), NEW v \in Vectors, NEW w \in Vectors,
         NEW n \in Nat, 0 .. n - 1 \subseteq Slots,
         0 .. n - 1 \subseteq L[v], 0 .. n - 1 \subseteq L[w]
  PROVE  Swapped(m, v, w, n) \in Layout(z, L)
  <1> DEFINE steps == SwapSteps(v, w, n)
             I == [k \in 0 .. n |-> Layout(z, L)]
  <1>1. \A k \in 1 .. n : /\ k - 1 \in Slots /\ k - 1 \in L[v] /\ k - 1 \in L[w]
                          /\ steps[k] = Step("swap", v, k - 1, w, k - 1, Raw)
    BY DEF SwapSteps
  <1>2. steps \in Seq(Steps) /\ Len(steps) = n
    <2>1. steps = [k \in 1 .. n |-> steps[k]]
      BY DEF SwapSteps
    <2> HIDE DEF steps
    <2>2. ASSUME NEW k \in 1 .. n PROVE steps[k] \in Steps
      <3> DEFINE i == k - 1
      <3>1. i \in Slots /\ steps[k] = Step("swap", v, i, w, i, Raw)
        BY <1>1
      <3> HIDE DEF i
      <3> QED
        BY <3>1 DEF Steps, Step, Kinds, Contained
    <2> QED
      BY <2>1, <2>2
  <1> HIDE DEF steps
  <1>3. m \in Memories /\ m \in I[0] /\ I[n] = Layout(z, L)
    <2>1. 0 \in 0 .. n /\ n \in 0 .. n
      OBVIOUS
    <2>2. I[0] = Layout(z, L) /\ I[n] = Layout(z, L)
      BY <2>1
    <2> QED
      BY <2>2, Sized
  <1>4. ASSUME NEW k \in 1 .. n, NEW p \in I[k - 1] PROVE Do(p, steps[k]) \in I[k]
    <2>1. p \in Layout(z, L) /\ I[k] = Layout(z, L)
      BY <1>4
    <2>2. Do(p, steps[k]) = SwapElement(p, v, w, k - 1)
      BY <1>1, DoKinds
    <2>3. SwapElement(p, v, w, k - 1) \in Layout(z, L)
      BY <1>1, <2>1, SwapLays
    <2> QED
      BY <2>1, <2>2, <2>3
  <1> HIDE DEF I
  <1>5. Run(m, steps) \in I[n]
    BY <1>2, <1>3, <1>4, RunWithin
  <1>6. Swapped(m, v, w, n) = Run(m, steps)
    BY SwapRuns DEF steps
  <1> QED
    BY <1>3, <1>5, <1>6

LEMMA WithTwo ==
  ASSUME NEW L \in Layouts, NEW v \in Vectors, NEW w \in Vectors,
         v # w, NEW a \in SUBSET Int, NEW b \in SUBSET Int
  PROVE  LET K == With(With(L, v, a), w, b)
         IN  /\ K \in Layouts /\ K[v] = a /\ K[w] = b
             /\ \A c, d \in SUBSET Int : With(With(K, v, c), w, d) = With(With(L, v, c), w, d)
  <1> DEFINE K == With(With(L, v, a), w, b)
  <1>1. K \in Layouts /\ K[v] = a /\ K[w] = b /\ \A u \in Vectors : u # v /\ u # w => K[u] = L[u]
    BY DEF With, Layouts
  <1>2. ASSUME NEW c \in SUBSET Int, NEW d \in SUBSET Int
        PROVE  With(With(K, v, c), w, d) = With(With(L, v, c), w, d)
    <2> HIDE DEF K
    <2> DEFINE f == With(With(K, v, c), w, d)
               g == With(With(L, v, c), w, d)
    <2>1. f \in Layouts /\ f[v] = c /\ f[w] = d /\ \A u \in Vectors : u # v /\ u # w => f[u] = K[u]
      BY <1>1 DEF With, Layouts
    <2>2. g \in Layouts /\ g[v] = c /\ g[w] = d /\ \A u \in Vectors : u # v /\ u # w => g[u] = L[u]
      BY DEF With, Layouts
    <2> HIDE DEF f, g
    <2>3. \A u \in Vectors : f[u] = g[u]
      BY <1>1, <2>1, <2>2
    <2>4. f = g
      BY <2>1, <2>2, <2>3 DEF Layouts
    <2> QED
      BY <2>4 DEF f, g
  <1> QED
    BY <1>1, <1>2

\* Elements of w from an index on move to the end of v.
LEMMA RestLays ==
  ASSUME NEW z, NEW L \in Layouts, NEW m \in Layout(z, L), NEW v \in Vectors, NEW w \in Vectors,
         v # w, NEW first \in Nat, NEW last \in Int, last < N, last - first + 1 \in Nat,
         L[v] = 0 .. first - 1, L[w] = 0 .. last
  PROVE  Rest(m, v, w, first, last) \in Layout(z, With(With(L, v, 0 .. last), w, 0 .. first - 1))
  <1> DEFINE n == last - first + 1
             steps == RestSteps(v, w, first, n)
             A == [k \in 0 .. n |-> 0 .. first + k - 1]
             B == [k \in 0 .. n |-> (0 .. first - 1) \union (first + k .. last)]
             I == [k \in 0 .. n |-> Layout(z, With(With(L, v, A[k]), w, B[k]))]
  <1>1. n \in Nat /\ n = last - first + 1 /\ 0 \in 0 .. n /\ n \in 0 .. n
    OBVIOUS
  <1>2. Rest(m, v, w, first, last) = Run(m, steps)
    BY RestRuns
  <1>3. /\ \A k \in 0 .. n : A[k] \in SUBSET Int /\ B[k] \in SUBSET Int
        /\ \A k \in 0 .. n : /\ A[k] = 0 .. first + k - 1
                             /\ B[k] = (0 .. first - 1) \union (first + k .. last)
    OBVIOUS
  <1>4. A[0] = L[v] /\ B[0] = L[w] /\ A[n] = 0 .. last /\ B[n] = 0 .. first - 1
    <2> HIDE DEF A, B, n
    <2>1. A[0] = 0 .. first + 0 - 1 /\ B[0] = (0 .. first - 1) \union (first + 0 .. last)
      BY <1>1, <1>3
    <2>2. A[n] = 0 .. first + n - 1 /\ B[n] = (0 .. first - 1) \union (first + n .. last)
      BY <1>1, <1>3
    <2>3. /\ first + 0 - 1 = first - 1 /\ first + 0 = first /\ first + n - 1 = last
          /\ first + n = last + 1 /\ first <= last + 1
      BY <1>1
    <2>4. (0 .. first - 1) \union (first .. last) = 0 .. last /\ last + 1 .. last = {}
      BY <2>3
    <2> QED
      BY <2>1, <2>2, <2>3, <2>4
  <1>5. \A k \in 1 .. n : steps[k] = Step("relocate", v, first + k - 1, w, first + k - 1, Raw)
    BY DEF RestSteps
  <1>6. steps = [k \in 1 .. n |-> steps[k]]
    BY DEF RestSteps
  <1> HIDE DEF n, steps, A, B
  <1>7. \A k \in 1 .. n : first + k - 1 \in Slots
    BY <1>1, CapacityAssumption DEF Slots
  <1>8. steps \in Seq(Steps) /\ Len(steps) = n
    <2>1. ASSUME NEW k \in 1 .. n PROVE steps[k] \in Steps
      <3> DEFINE i == first + k - 1
      <3>1. i \in Slots /\ steps[k] = Step("relocate", v, i, w, i, Raw)
        BY <1>5, <1>7
      <3> HIDE DEF i
      <3> QED
        BY <3>1 DEF Steps, Step, Kinds, Contained
    <2>2. n \in Nat
      BY <1>1
    <2> QED
      BY <1>6, <2>1, <2>2
  <1>9. m \in Memories /\ m \in I[0]
    <2>1. With(With(L, v, L[v]), w, L[w]) = L
      BY DEF With, Layouts
    <2>2. I[0] = Layout(z, With(With(L, v, A[0]), w, B[0]))
      BY <1>1
    <2>3. m \in Memories
      BY Sized
    <2> HIDE DEF I
    <2> QED
      BY <1>4, <2>1, <2>2, <2>3
  <1>10. ASSUME NEW k \in 1 .. n, NEW p \in I[k - 1] PROVE Do(p, steps[k]) \in I[k]
    <2> DEFINE i == first + k - 1
               a == A[k - 1]
               b == B[k - 1]
               K == With(With(L, v, a), w, b)
    <2>1. /\ k - 1 \in 0 .. n /\ k \in 0 .. n /\ i \in Slots /\ i \in Int
          /\ Do(p, steps[k]) = Relocate(p, w, i, v, i)
      <3>1. k - 1 \in 0 .. n /\ k \in 0 .. n /\ i \in Slots /\ i \in Int
        BY <1>1, <1>7
      <3>2. steps[k] = Step("relocate", v, i, w, i, Raw)
        BY <1>5
      <3> HIDE DEF i
      <3> QED
        BY <3>1, <3>2, DoKinds
    <2>2. i \in b /\ i \notin a /\ A[k] = a \union {i} /\ B[k] = b \ {i}
      <3>1. /\ a = 0 .. first + (k - 1) - 1 /\ A[k] = 0 .. first + k - 1
            /\ b = (0 .. first - 1) \union (first + (k - 1) .. last)
            /\ B[k] = (0 .. first - 1) \union (first + k .. last)
        BY <1>3, <2>1
      <3> HIDE DEF a, b
      <3>2. k \in Nat /\ k >= 1 /\ k <= last - first + 1 /\ i = first + k - 1
        BY <1>1
      <3> HIDE DEF i
      <3> QED
        BY <3>1, <3>2
    <2>3. p \in Layout(z, K) /\ I[k] = Layout(z, With(With(L, v, A[k]), w, B[k]))
      BY <1>10, <2>1
    <2>4. a \in SUBSET Int /\ b \in SUBSET Int /\ A[k] \in SUBSET Int /\ B[k] \in SUBSET Int
      BY <1>3, <2>1
    <2> HIDE DEF i, a, b, I
    <2>5. /\ K \in Layouts /\ K[v] = a /\ K[w] = b
          /\ \A c, d \in SUBSET Int : With(With(K, v, c), w, d) = With(With(L, v, c), w, d)
      BY <2>4, WithTwo
    <2> HIDE DEF K
    <2> DEFINE M == With(K, v, K[v] \union {i})
    <2>6. Relocate(p, w, i, v, i) \in Layout(z, With(M, w, M[w] \ {i}))
      BY <2>1, <2>2, <2>3, <2>5, RelocateLays
    <2>7. M = With(K, v, A[k]) /\ M[w] = b
      BY <2>2, <2>5 DEF With, Layouts
    <2> HIDE DEF M
    <2>8. With(M, w, M[w] \ {i}) = With(With(L, v, A[k]), w, B[k])
      BY <2>2, <2>4, <2>5, <2>7
    <2> QED
      BY <2>1, <2>3, <2>6, <2>8
  <1>11. I[n] = Layout(z, With(With(L, v, A[n]), w, B[n]))
    BY <1>1
  <1> HIDE DEF I
  <1>12. Run(m, steps) \in I[n]
    BY <1>8, <1>9, <1>10, RunWithin
  <1> QED
    BY <1>2, <1>4, <1>11, <1>12

\* The elements of w are moved to the empty vector v, and stay objects.
LEMMA TakeLays ==
  ASSUME NEW z, NEW L \in Layouts, NEW m \in Layout(z, L), NEW v \in Vectors, NEW w \in Vectors,
         v # w, z[w] \in 0 .. N, L[v] = {}, L[w] = 0 .. z[w] - 1
  PROVE  Taken(m, v, w) \in Layout(z, With(L, v, 0 .. z[w] - 1))
  <1> DEFINE n == z[w]
             steps == TakeSteps(v, w, n)
             S == [k \in 0 .. n |-> 0 .. k - 1]
             I == [k \in 0 .. n |-> Layout(z, With(L, v, S[k]))]
  <1>1. n \in Nat /\ n <= N /\ m.size[w] = n /\ L[w] = 0 .. n - 1
    <2>1. m.size = z
      BY Sized
    <2> QED
      BY <2>1, CapacityAssumption
  <1>2. Taken(m, v, w) = Run(m, steps)
    BY <1>1, TakeRuns
  <1> HIDE DEF n
  <1>3. /\ \A k \in 0 .. n : S[k] \in SUBSET Int /\ S[k] = 0 .. k - 1
        /\ 0 \in 0 .. n /\ n \in 0 .. n /\ S[0] = {}
    BY <1>1
  <1>4. \A k \in 1 .. n : steps[k] = Step("move", v, k - 1, w, k - 1, Raw)
    BY DEF TakeSteps
  <1>5. steps = [k \in 1 .. n |-> steps[k]]
    BY DEF TakeSteps
  <1> HIDE DEF steps, S
  <1>6. \A k \in 1 .. n : k - 1 \in Slots
    BY <1>1, CapacityAssumption DEF Slots
  <1>7. steps \in Seq(Steps) /\ Len(steps) = n
    <2>1. ASSUME NEW k \in 1 .. n PROVE steps[k] \in Steps
      <3> DEFINE i == k - 1
      <3>1. i \in Slots /\ steps[k] = Step("move", v, i, w, i, Raw)
        BY <1>4, <1>6
      <3> HIDE DEF i
      <3> QED
        BY <3>1 DEF Steps, Step, Kinds, Contained
    <2> QED
      BY <1>1, <1>5, <2>1
  <1>8. m \in Memories /\ m \in I[0]
    <2>1. With(L, v, L[v]) = L
      BY DEF With, Layouts
    <2>2. I[0] = Layout(z, With(L, v, S[0]))
      BY <1>3
    <2>3. m \in Memories /\ S[0] = L[v]
      BY <1>3, Sized
    <2> HIDE DEF I
    <2> QED
      BY <2>1, <2>2, <2>3
  <1>9. ASSUME NEW k \in 1 .. n, NEW p \in I[k - 1] PROVE Do(p, steps[k]) \in I[k]
    <2> DEFINE i == k - 1
               K == With(L, v, S[i])
    <2>1. /\ i \in 0 .. n /\ k \in 0 .. n /\ i \in Slots /\ i \in L[w]
          /\ S[i] = 0 .. i - 1 /\ S[k] = 0 .. k - 1
      BY <1>1, <1>3, <1>6
    <2>2. i \notin S[i] /\ S[k] = S[i] \union {i}
      BY <2>1
    <2>3. p \in Layout(z, K) /\ I[k] = Layout(z, With(L, v, S[k])) /\ S[i] \in SUBSET Int
      BY <1>3, <1>9, <2>1
    <2>4. steps[k] = Step("move", v, i, w, i, Raw)
      BY <1>4
    <2> HIDE DEF i, I
    <2>5. K \in Layouts /\ K[v] = S[i] /\ K[w] = L[w] /\ \A b : With(K, v, b) = With(L, v, b)
      BY <2>3, WithOnce
    <2>6. Do(p, steps[k]) = MoveConstruct(p, w, i, v, i)
      BY <2>4, DoKinds
    <2> HIDE DEF K
    <2>7. MoveConstruct(p, w, i, v, i) \in Layout(z, With(K, v, K[v] \union {i}))
      BY <2>1, <2>2, <2>3, <2>5, MoveLays
    <2> QED
      BY <2>2, <2>3, <2>5, <2>6, <2>7
  <1>10. I[n] = Layout(z, With(L, v, 0 .. n - 1))
    BY <1>3
  <1> HIDE DEF I
  <1>11. Run(m, steps) \in I[n]
    BY <1>7, <1>8, <1>9, RunWithin
  <1> QED
    BY <1>2, <1>10, <1>11 DEF n

\* Elements at the end.
LEMMA PushedLays ==
  ASSUME NEW z, NEW L \in Layouts, NEW m \in Layout(z, L), NEW v \in Vectors,
         z[v] \in Nat, L[v] = 0 .. z[v] - 1, NEW values \in Seq(Contained \ Free),
         z[v] + Len(values) <= N
  PROVE  Pushed(m, v, values)
           \in Layout([z EXCEPT ![v] = z[v] + Len(values)], With(L, v, 0 .. z[v] + Len(values) - 1))
  <1> DEFINE n == Len(values)
             size == z[v]
             steps == PushSteps(v, values)
             At(k) == Layout([z EXCEPT ![v] = size + k], With(L, v, 0 .. size + k - 1))
             I == [k \in 0 .. n |-> At(k)]
  <1>1. n \in Nat /\ size \in Nat /\ size + n <= N /\ 0 \in 0 .. n /\ n \in 0 .. n
    OBVIOUS
  <1>2. Pushed(m, v, values) = Run(m, steps)
    BY PushRuns
  <1>3. \A k \in 1 .. n : /\ values[k] \in Contained /\ values[k] \notin Free
                          /\ steps[k] = Step("push", v, 0, v, 0, values[k])
    BY DEF PushSteps
  <1>4. steps = [k \in 1 .. n |-> steps[k]]
    BY DEF PushSteps
  <1>5. z \in [Vectors -> Int] /\ m \in Memories /\ L[v] = 0 .. size - 1
    BY Sized
  <1> HIDE DEF n, size, steps
  <1>6. steps \in Seq(Steps) /\ Len(steps) = n
    <2>1. 0 \in Slots
      BY CapacityAssumption DEF Slots
    <2>2. ASSUME NEW k \in 1 .. n PROVE steps[k] \in Steps
      <3> DEFINE i == 0
                 value == values[k]
      <3>1. /\ i \in Slots /\ value \in Contained
            /\ steps[k] = Step("push", v, i, v, i, value)
        BY <1>3, <2>1
      <3> HIDE DEF i, value
      <3> QED
        BY <3>1 DEF Steps, Step, Kinds
    <2>3. n \in Nat
      BY <1>1
    <2> QED
      BY <1>4, <2>2, <2>3
  <1>7. m \in At(0)
    <2>1. [z EXCEPT ![v] = size + 0] = z
      BY <1>1, <1>5 DEF size
    <2>2. With(L, v, 0 .. size + 0 - 1) = L
      <3>1. size + 0 - 1 = size - 1
        BY <1>1
      <3> QED
        BY <1>5, <3>1 DEF With, Layouts
    <2> QED
      BY <2>1, <2>2
  <1>8. ASSUME NEW k \in 1 .. n, NEW p \in At(k - 1) PROVE Do(p, steps[k]) \in At(k)
    <2> DEFINE i == size + (k - 1)
               y == [z EXCEPT ![v] = i]
               S == 0 .. size + (k - 1) - 1
               K == With(L, v, S)
               value == values[k]
    <2>1. p \in Layout(y, K)
      BY <1>8
    <2>2. i \in Slots /\ i \in Int /\ i \notin S /\ S \in SUBSET Int
      BY <1>1, CapacityAssumption DEF Slots
    <2>3. i + 1 = size + k /\ 0 .. size + k - 1 = S \union {i}
      BY SMTT(30), <1>1
    <2>4. value \in Contained /\ value \notin Free /\ Do(p, steps[k]) = PushBack(p, v, value)
      BY <1>3, DoKinds
    <2> HIDE DEF i, value, S
    <2>5. y[v] = i /\ [y EXCEPT ![v] = i + 1] = [z EXCEPT ![v] = size + k]
      BY <1>5, <2>3
    <2>6. K \in Layouts /\ K[v] = S /\ \A b : With(K, v, b) = With(L, v, b)
      BY <2>2, WithOnce
    <2> HIDE DEF y, K
    <2>7. PushBack(p, v, value)
            \in Layout([y EXCEPT ![v] = y[v] + 1], With(K, v, K[v] \union {y[v]}))
      BY <2>1, <2>2, <2>4, <2>5, <2>6, PushLays
    <2> QED
      BY <2>3, <2>4, <2>5, <2>6, <2>7
  <1> HIDE DEF At
  <1>9. m \in I[0] /\ I[n] = At(n)
    BY <1>1, <1>7
  <1>10. ASSUME NEW k \in 1 .. n, NEW p \in I[k - 1] PROVE Do(p, steps[k]) \in I[k]
    <2>1. k - 1 \in 0 .. n /\ k \in 0 .. n
      BY <1>1
    <2>2. I[k - 1] = At(k - 1) /\ I[k] = At(k)
      BY <2>1
    <2> QED
      BY <1>8, <1>10, <2>2
  <1> HIDE DEF I
  <1>11. Run(m, steps) \in I[n]
    BY <1>5, <1>6, <1>9, <1>10, RunWithin
  <1> QED
    BY <1>2, <1>9, <1>11 DEF At, n, size

--------------------------------------------------------------------------------
(* The calls: objects live in the slots below the size of each vector,      *)
(* before and after.                                                        *)

Objects == Contained \ Free
Sizes == [Vectors -> 0 .. N]
Full(z) == [v \in Vectors |-> 0 .. z[v] - 1]
Whole(z) == Layout(z, Full(z))

LEMMA FullLays ==
  ASSUME NEW z \in Sizes, NEW v \in Vectors
  PROVE  /\ Full(z) \in Layouts /\ Full(z)[v] = 0 .. z[v] - 1
         /\ z[v] \in 0 .. N /\ z[v] \in Nat /\ 0 .. z[v] - 1 \subseteq Slots
  BY CapacityAssumption DEF Full, Layouts, Sizes, Slots

LEMMA ResizedWhole ==
  ASSUME NEW z \in Sizes, NEW v \in Vectors, NEW s \in 0 .. N,
         NEW m \in Layout(z, With(Full(z), v, 0 .. s - 1))
  PROVE  Resized(m, v, s) \in Whole([z EXCEPT ![v] = s]) /\ [z EXCEPT ![v] = s] \in Sizes
  <1> DEFINE y == [z EXCEPT ![v] = s]
             K == With(Full(z), v, 0 .. s - 1)
  <1>1. y \in Sizes /\ s \in Int
    BY DEF Sizes
  <1>2. K = Full(y) /\ K \in Layouts
    <2>1. K = [w \in Vectors |-> IF w = v THEN 0 .. s - 1 ELSE 0 .. z[w] - 1]
      BY DEF With, Full
    <2>2. \A w \in Vectors : y[w] = IF w = v THEN s ELSE z[w]
      BY DEF Sizes
    <2>3. K = Full(y)
      BY <2>1, <2>2 DEF Full
    <2> QED
      BY <1>1, <2>3, FullLays
  <1> HIDE DEF K
  <1>3. Resized(m, v, s) \in Layout(y, K)
    BY <1>1, <1>2, ResizedLays DEF K
  <1> QED
    BY <1>1, <1>2, <1>3 DEF Whole

LEMMA ContentsAreObjects ==
  ASSUME NEW z \in Sizes, NEW m \in Whole(z), NEW v \in Vectors
  PROVE  Contents(m, v) \in Seq(Objects) /\ Len(Contents(m, v)) = z[v]
  <1> DEFINE n == z[v]
  <1>1. n \in Nat /\ Full(z)[v] = 0 .. n - 1 /\ 0 .. n - 1 \subseteq Slots
    BY FullLays
  <1>2. m.size[v] = n /\ \A i \in Slots :
             m.slots[v][i] \in Contained /\ (m.slots[v][i] \notin Free <=> i \in 0 .. n - 1)
    <2> DEFINE L == Full(z)
    <2>0. m \in Layout(z, L) /\ L[v] = 0 .. n - 1
      BY <1>1 DEF Whole
    <2> HIDE DEF L
    <2>1. m.size = z
      BY <2>0, Sized
    <2>2. \A i \in Slots : m.slots[v][i] \in Contained /\ (m.slots[v][i] \notin Free <=> i \in L[v])
      BY <2>0 DEF Layout, Memories
    <2> QED
      BY <2>0, <2>1, <2>2
  <1> HIDE DEF n
  <1>3. Contents(m, v) = [k \in 1 .. n |-> m.slots[v][k - 1]]
    BY <1>2 DEF Contents
  <1>4. \A k \in 1 .. n : m.slots[v][k - 1] \in Objects
    <2>1. \A k \in 1 .. n : k - 1 \in 0 .. n - 1
      BY <1>1
    <2> QED
      BY <1>1, <1>2, <2>1 DEF Objects
  <1> QED
    BY <1>1, <1>3, <1>4 DEF n

LEMMA ClearWhole ==
  ASSUME NEW z \in Sizes, NEW m \in Whole(z), NEW v \in Vectors
  PROVE  Clear(m, v) \in Whole([z EXCEPT ![v] = 0]) /\ [z EXCEPT ![v] = 0] \in Sizes
  <1> DEFINE n == z[v]
             d == DestroyRange(m, v, 0, n - 1)
             L == Full(z)
  <1>1. L \in Layouts /\ L[v] = 0 .. n - 1 /\ n \in Nat /\ 0 .. n - 1 \subseteq Slots
    BY FullLays
  <1>2. m \in Layout(z, L) /\ m.size[v] = n
    BY Sized DEF Whole
  <1> HIDE DEF n, L
  <1>3. n - 1 - 0 + 1 \in Nat /\ n - 1 \in Int /\ 0 \in 0 .. N /\ 0 \in Int
    BY <1>1, CapacityAssumption
  <1> DEFINE o == 0
             last == n - 1
  <1> HIDE DEF o, last
  <1>4. DestroyRange(m, v, o, last) \in Layout(z, With(L, v, L[v] \ (o .. last)))
    <2>1. /\ last - o + 1 \in Nat /\ last \in Int /\ o \in Int
          /\ o .. last = L[v] /\ o .. last \subseteq Slots
      BY <1>1, <1>3 DEF o, last
    <2> QED
      BY <1>1, <1>2, <2>1, DestroyRangeLays
  <1>5. d \in Layout(z, With(L, v, 0 .. 0 - 1))
    <2>1. L[v] \ (o .. last) = 0 .. 0 - 1
      BY <1>1 DEF o, last
    <2> QED
      BY <1>4, <2>1 DEF o, last
  <1>6. Clear(m, v) = Resized(d, v, 0)
    BY <1>2 DEF Clear
  <1> HIDE DEF d
  <1> QED
    BY <1>3, <1>5, <1>6, ResizedWhole DEF L

\* Elements in an empty vector.
LEMMA FilledWhole ==
  ASSUME NEW z \in Sizes, NEW m \in Whole(z), NEW v \in Vectors, z[v] = 0,
         NEW values \in Seq(Objects), Len(values) <= N
  PROVE  /\ Resized(ConstructRange(m, v, 0, values), v, Len(values))
              \in Whole([z EXCEPT ![v] = Len(values)])
         /\ [z EXCEPT ![v] = Len(values)] \in Sizes
  <1> DEFINE n == Len(values)
             L == Full(z)
             o == 0
             c == ConstructRange(m, v, o, values)
  <1>1. /\ L \in Layouts /\ L[v] = {} /\ n \in Nat /\ n \in 0 .. N /\ o \in Int
        /\ o .. o + n - 1 = 0 .. n - 1 /\ 0 .. n - 1 \subseteq Slots
    <2>1. L \in Layouts /\ L[v] = 0 .. z[v] - 1
      BY FullLays
    <2>2. n \in Nat /\ n \in 0 .. N /\ 0 .. n - 1 \subseteq Slots
      BY CapacityAssumption DEF Slots
    <2> HIDE DEF n, L
    <2> QED
      BY <2>1, <2>2
  <1>2. m \in Layout(z, L)
    BY DEF Whole
  <1> HIDE DEF L, o
  <1>3. c \in Layout(z, With(L, v, L[v] \union (o .. o + n - 1)))
    BY <1>1, <1>2, ConstructRangeLays DEF Objects
  <1>4. c \in Layout(z, With(Full(z), v, 0 .. n - 1))
    <2>1. L[v] \union (o .. o + n - 1) = 0 .. n - 1
      BY <1>1
    <2> QED
      BY <1>3, <2>1 DEF L
  <1>5. c = ConstructRange(m, v, 0, values)
    BY DEF o
  <1> HIDE DEF c, n
  <1> QED
    BY <1>1, <1>4, <1>5, ResizedWhole DEF n

LEMMA AssignWhole ==
  ASSUME NEW z \in Sizes, NEW m \in Whole(z), NEW v \in Vectors,
         NEW values \in Seq(Objects), Len(values) <= N
  PROVE  /\ Assign(m, v, values) \in Whole([z EXCEPT ![v] = Len(values)])
         /\ [z EXCEPT ![v] = Len(values)] \in Sizes
  <1> DEFINE y == [z EXCEPT ![v] = 0]
             c == Clear(m, v)
  <1>1. c \in Whole(y) /\ y \in Sizes
    BY ClearWhole
  <1>2. y[v] = 0 /\ [y EXCEPT ![v] = Len(values)] = [z EXCEPT ![v] = Len(values)]
    BY DEF Sizes
  <1>3. Assign(m, v, values) = Resized(ConstructRange(c, v, 0, values), v, Len(values))
    BY DEF Assign
  <1> HIDE DEF y, c
  <1>4. /\ Resized(ConstructRange(c, v, 0, values), v, Len(values))
              \in Whole([y EXCEPT ![v] = Len(values)])
        /\ [y EXCEPT ![v] = Len(values)] \in Sizes
    BY <1>1, <1>2, FilledWhole
  <1> QED
    BY <1>2, <1>3, <1>4

\* Both vectors are changed, and the slots of w are free afterwards, with the
\* abandoned objects in them.
LEMMA TakeWhole ==
  ASSUME NEW z \in Sizes, NEW m \in Whole(z), NEW v \in Vectors, NEW w \in Vectors, v # w, z[v] = 0
  PROVE  LET y == [z EXCEPT ![v] = z[w], ![w] = 0]
         IN  Take(m, v, w) \in Whole(y) /\ y \in Sizes
  <1> DEFINE L == Full(z)
             n == z[w]
             t == Taken(m, v, w)
             y == [z EXCEPT ![v] = z[w]]
             x == [y EXCEPT ![w] = 0]
             r == Resized(Resized(t, v, n), w, 0)
             free == [i \in Slots |-> IF i < n THEN Abandoned ELSE m.slots[w][i]]
             K == With(L, v, 0 .. n - 1)
  <1>1. /\ L \in Layouts /\ L[v] = {} /\ L[w] = 0 .. n - 1 /\ n \in 0 .. N
        /\ m \in Layout(z, L) /\ m.size[w] = n
        /\ \A i \in Slots : m.slots[w][i] \in Contained /\ (m.slots[w][i] \notin Free <=> i \in L[w])
    <2>1. L \in Layouts /\ L[v] = 0 .. z[v] - 1 /\ L[w] = 0 .. n - 1 /\ n \in 0 .. N
      BY FullLays
    <2>2. m \in Layout(z, L)
      BY DEF Whole
    <2> HIDE DEF L
    <2>3. m.size = z
      BY <2>2, Sized
    <2>4. \A i \in Slots : m.slots[w][i] \in Contained /\ (m.slots[w][i] \notin Free <=> i \in L[w])
      BY <2>2, Sized
    <2> QED
      BY <2>1, <2>2, <2>3, <2>4
  <1>2. /\ y \in Sizes /\ x \in Sizes /\ x = [z EXCEPT ![v] = z[w], ![w] = 0]
        /\ x[w] = 0 /\ \A u \in Vectors : x[u] = IF u = w THEN 0 ELSE IF u = v THEN n ELSE z[u]
    BY CapacityAssumption DEF Sizes
  <1>3. Take(m, v, w) = [r EXCEPT !.slots = [r.slots EXCEPT ![w] = free]]
    BY <1>1 DEF Take, Taken
  <1>4. t \in Layout(z, K)
    <2> HIDE DEF L
    <2> QED
      BY <1>1, TakeLays
  <1>5. r \in Layout(x, K) /\ K \in Layouts
    <2>1. K \in Layouts
      BY <1>1, WithOnce
    <2> HIDE DEF K, t
    <2>2. n \in Int /\ 0 \in Int
      BY <1>1
    <2>3. Resized(t, v, n) \in Layout(y, K)
      BY <1>4, <2>1, <2>2, ResizedLays
    <2> DEFINE s == Resized(t, v, n)
               o == 0
    <2> HIDE DEF s, o, y
    <2>4. Resized(s, w, o) \in Layout([y EXCEPT ![w] = o], K)
      BY <2>1, <2>2, <2>3, ResizedLays DEF s, o
    <2> QED
      BY <2>1, <2>4 DEF s, o
  <1>6. With(K, w, {}) = Full(x)
    <2>1. With(K, w, {}) = [u \in Vectors |-> IF u = w THEN {}
                                               ELSE IF u = v THEN 0 .. n - 1 ELSE 0 .. z[u] - 1]
      BY DEF With, Full
    <2> HIDE DEF x, n
    <2>2. \A u \in Vectors :
             0 .. x[u] - 1 = IF u = w THEN {} ELSE IF u = v THEN 0 .. n - 1 ELSE 0 .. z[u] - 1
      <3>1. 0 .. 0 - 1 = {}
        OBVIOUS
      <3> QED
        BY <1>2, <3>1, Zenon
    <2> QED
      BY <2>1, <2>2 DEF Full
  <1> HIDE DEF x, K, r
  <1>7. Changed(r, w, free, FALSE) \in Layout(x, With(K, w, {}))
    <2> DEFINE none == {}
    <2>1. /\ free \in [Slots -> Contained] /\ none \in SUBSET Int
          /\ \A i \in Slots : free[i] \notin Free <=> i \in none
      <3>1. ASSUME NEW i \in Slots PROVE free[i] \in Contained /\ free[i] \in Free
        <4>1. CASE i < n
          BY <4>1 DEF Contained, Free
        <4>2. CASE ~(i < n)
          <5>1. i \notin L[w] /\ free[i] = m.slots[w][i]
            BY <1>1, <4>2 DEF Slots
          <5> HIDE DEF free, L
          <5> QED
            BY <1>1, <5>1
        <4> QED
          BY <4>1, <4>2
      <3>2. free = [i \in Slots |-> free[i]]
        OBVIOUS
      <3> HIDE DEF free
      <3> QED
        BY <3>1, <3>2
    <2> HIDE DEF free, none
    <2>2. Changed(r, w, free, FALSE) \in Layout(x, With(K, w, none))
      BY <1>5, <2>1, ChangedLays
    <2> QED
      BY <2>2 DEF none
  <1>8. Take(m, v, w) = Changed(r, w, free, FALSE)
    <2> DEFINE a == [r.slots EXCEPT ![w] = free]
    <2> HIDE DEF a
    <2>1. r \in Memories /\ r.wrong = FALSE /\ Take(m, v, w) = [r EXCEPT !.slots = a]
      BY <1>3, <1>5, Sized DEF a
    <2>2. Changed(r, w, free, FALSE) = [slots |-> a, size |-> r.size, wrong |-> FALSE]
      BY DEF Changed, a
    <2> QED
      BY <2>1, <2>2 DEF Memories
  <1> QED
    BY <1>2, <1>6, <1>7, <1>8 DEF Whole

LEMMA PushWhole ==
  ASSUME NEW z \in Sizes, NEW m \in Whole(z), NEW v \in Vectors, z[v] < N, NEW value \in Objects
  PROVE  LET y == [z EXCEPT ![v] = z[v] + 1] IN PushBack(m, v, value) \in Whole(y) /\ y \in Sizes
  <1> DEFINE n == z[v]
             L == Full(z)
             y == [z EXCEPT ![v] = n + 1]
  <1>1. L \in Layouts /\ L[v] = 0 .. n - 1 /\ n \in Nat /\ n \in Slots /\ m \in Layout(z, L)
    <2>1. L \in Layouts /\ L[v] = 0 .. n - 1 /\ n \in Nat
      BY FullLays
    <2>2. n \in Slots
      BY <2>1, CapacityAssumption DEF Slots
    <2> QED
      BY <2>1, <2>2 DEF Whole
  <1>2. y \in Sizes
    BY CapacityAssumption DEF Sizes
  <1>3. With(L, v, L[v] \union {n}) = Full(y)
    <2>2. With(L, v, L[v] \union {n})
            = [u \in Vectors |-> IF u = v THEN L[v] \union {n} ELSE 0 .. z[u] - 1]
      BY DEF With, Full
    <2>3. \A u \in Vectors : y[u] = IF u = v THEN n + 1 ELSE z[u]
      BY DEF Sizes
    <2> HIDE DEF y, n, L
    <2>4. L[v] \union {n} = 0 .. (n + 1) - 1
      BY <1>1
    <2> QED
      BY <2>2, <2>3, <2>4, Zenon DEF Full
  <1> HIDE DEF L
  <1>4. n \notin L[v]
    BY <1>1
  <1>5. PushBack(m, v, value) \in Layout(y, With(L, v, L[v] \union {n}))
    BY <1>1, <1>4, PushLays DEF Objects
  <1> QED
    BY <1>2, <1>3, <1>5 DEF Whole

LEMMA PopWhole ==
  ASSUME NEW z \in Sizes, NEW m \in Whole(z), NEW v \in Vectors, z[v] > 0
  PROVE  LET y == [z EXCEPT ![v] = z[v] - 1] IN PopBack(m, v) \in Whole(y) /\ y \in Sizes
  <1> DEFINE i == z[v] - 1
             L == Full(z)
             d == DestroyElement(m, v, i)
  <1>1. /\ L \in Layouts /\ L[v] = 0 .. i /\ i \in Slots /\ i \in 0 .. N
        /\ m \in Layout(z, L) /\ m.size[v] - 1 = i
    <2>1. L \in Layouts /\ L[v] = 0 .. z[v] - 1 /\ z[v] \in 0 .. N
      BY FullLays
    <2>2. i \in Slots /\ i \in 0 .. N
      BY <2>1, CapacityAssumption DEF Slots
    <2>3. m \in Layout(z, L)
      BY DEF Whole
    <2>4. m.size = z
      <3> HIDE DEF L
      <3> QED
        BY <2>3, Sized
    <2> QED
      BY <2>1, <2>2, <2>3, <2>4
  <1> HIDE DEF i, L
  <1>2. L[v] \ {i} = 0 .. i - 1 /\ i \in L[v]
    BY <1>1
  <1>3. d \in Layout(z, With(L, v, L[v] \ {i}))
    BY <1>1, <1>2, DestroyLays
  <1>4. PopBack(m, v) = Resized(d, v, i)
    BY <1>1 DEF PopBack
  <1> HIDE DEF d
  <1>5. Resized(d, v, i) \in Whole([z EXCEPT ![v] = i]) /\ [z EXCEPT ![v] = i] \in Sizes
    BY <1>1, <1>2, <1>3, ResizedWhole DEF L
  <1> QED
    BY <1>4, <1>5 DEF i

LEMMA FullWith ==
  ASSUME NEW z \in Sizes, NEW v \in Vectors, NEW s \in 0 .. N
  PROVE  With(Full(z), v, 0 .. s - 1) = Full([z EXCEPT ![v] = s]) /\ [z EXCEPT ![v] = s] \in Sizes
  <1> DEFINE K == With(Full(z), v, 0 .. s - 1)
             y == [z EXCEPT ![v] = s]
  <1>1. K = [w \in Vectors |-> IF w = v THEN 0 .. s - 1 ELSE 0 .. z[w] - 1]
    BY DEF With, Full
  <1>2. y \in Sizes /\ \A w \in Vectors : y[w] = IF w = v THEN s ELSE z[w]
    BY DEF Sizes
  <1>3. K = Full(y)
    BY <1>1, <1>2 DEF Full
  <1> QED
    BY <1>2, <1>3

\* An empty range is only inserted at the end.
LEMMA InsertWhole ==
  ASSUME NEW z \in Sizes, NEW m \in Whole(z), NEW v \in Vectors, NEW pos \in 0 .. z[v],
         NEW values \in Seq(Objects), z[v] + Len(values) <= N, values # <<>> \/ pos = z[v]
  PROVE  LET y == [z EXCEPT ![v] = z[v] + Len(values)]
         IN  Insert(m, v, pos, values) \in Whole(y) /\ y \in Sizes
  <1> DEFINE n == z[v]
             c == Len(values)
             L == Full(z)
             y == [z EXCEPT ![v] = n + c]
             end == n + c
  <1>1. /\ L \in Layouts /\ L[v] = 0 .. n - 1 /\ n \in Nat /\ c \in Nat /\ end \in 0 .. N
        /\ m \in Layout(z, L) /\ m.size[v] = n
    <2>1. L \in Layouts /\ L[v] = 0 .. n - 1 /\ n \in Nat /\ c \in Nat
      BY FullLays
    <2>2. end \in 0 .. N
      BY <2>1, CapacityAssumption
    <2>3. m \in Layout(z, L)
      BY DEF Whole
    <2>4. m.size = z
      <3> HIDE DEF L
      <3> QED
        BY <2>3, Sized
    <2> QED
      BY <2>1, <2>2, <2>3, <2>4
  <1>2. With(L, v, 0 .. end - 1) = Full(y) /\ y \in Sizes
    BY <1>1, FullWith
  <1>3. CASE pos = n
    <2>1. Insert(m, v, pos, values) = Pushed(m, v, values)
      BY <1>1, <1>3 DEF Insert, Pushed
    <2>2. Pushed(m, v, values) \in Layout(y, With(L, v, 0 .. n + c - 1))
      <3> HIDE DEF L
      <3> QED
        BY <1>1, PushedLays DEF Objects
    <2>3. n + c - 1 = end - 1
      BY <1>1
    <2> QED
      BY <1>2, <2>1, <2>2, <2>3 DEF Whole
  <1>4. CASE pos # n
    <2> DEFINE K == With(L, v, (0 .. pos - 1) \union (pos + c .. n + c - 1))
               back == MovedBack(m, v, pos, c)
               b == Resized(back, v, end)
    <2>1. c \in Nat \ {0} /\ pos \in 0 .. n /\ n + c <= N
      BY <1>1, <1>4
    <2>2. /\ Insert(m, v, pos, values) = ConstructRange(b, v, pos, values)
      BY <1>1, <1>4 DEF Insert, MoveElementsBack, MovedBack
    <2>3. back \in Layout(z, K)
      <3> HIDE DEF L, c
      <3> QED
        BY <1>1, <2>1, BackLays
    <2>4. /\ K \in Layouts /\ K[v] = (0 .. pos - 1) \union (pos + c .. n + c - 1)
          /\ \A d : With(K, v, d) = With(L, v, d)
      <3> DEFINE a == (0 .. pos - 1) \union (pos + c .. n + c - 1)
      <3>1. a \in SUBSET Int
        OBVIOUS
      <3> HIDE DEF a, L
      <3> QED
        BY <1>1, <3>1, WithOnce
    <2> HIDE DEF K, back, L
    <2>5. b \in Layout(y, K)
      <3>1. end \in Int
        BY <1>1
      <3> HIDE DEF end
      <3>2. Resized(back, v, end) \in Layout([z EXCEPT ![v] = end], K)
        BY <2>3, <2>4, <3>1, ResizedLays
      <3> QED
        BY <3>2 DEF end
    <2> DEFINE gap == pos .. pos + c - 1
    <2>6. /\ gap \subseteq Slots /\ \A i \in gap : i \notin K[v]
          /\ K[v] \union gap = 0 .. end - 1 /\ pos \in Int
      <3>1. /\ pos \in Nat /\ pos <= n /\ n \in Nat /\ c \in Nat
            /\ end = n + c /\ n + c <= N /\ N \in Nat
        BY <1>1, <2>1, CapacityAssumption
      <3> HIDE DEF n, c, end
      <3>2. gap \subseteq Slots
        BY <3>1 DEF Slots
      <3>3. \A i \in gap : i \notin K[v]
        BY <2>4, <3>1
      <3>4. K[v] \union gap = 0 .. end - 1
        BY <2>4, <3>1
      <3> QED
        BY <3>1, <3>2, <3>3, <3>4
    <2> HIDE DEF b, y
    <2>7. ConstructRange(b, v, pos, values) \in Layout(y, With(K, v, K[v] \union gap))
      BY <2>4, <2>5, <2>6, ConstructRangeLays DEF Objects
    <2>8. With(K, v, K[v] \union gap) = Full(y)
      BY <1>2, <2>4, <2>6
    <2> QED
      BY <1>2, <2>2, <2>7, <2>8 DEF Whole, y
  <1> QED
    BY <1>3, <1>4

\* An element of the vector, which is not among those that move.
LEMMA InsertElementWhole ==
  ASSUME NEW z \in Sizes, NEW m \in Whole(z), NEW v \in Vectors, NEW pos \in 0 .. z[v],
         NEW i \in Slots, i < z[v], z[v] + 1 <= N, i < pos
  PROVE  LET y == [z EXCEPT ![v] = z[v] + 1]
         IN  InsertElement(m, v, pos, i) \in Whole(y) /\ y \in Sizes
  <1> DEFINE n == z[v]
             one == 1
             L == Full(z)
             y == [z EXCEPT ![v] = n + 1]
             end == n + 1
  <1>1. /\ L \in Layouts /\ L[v] = 0 .. n - 1 /\ n \in Nat /\ end \in 0 .. N
        /\ m \in Layout(z, L) /\ m.size[v] = n /\ i \in Nat
    <2>1. L \in Layouts /\ L[v] = 0 .. n - 1 /\ n \in Nat
      BY FullLays
    <2>2. end \in 0 .. N /\ i \in Nat
      BY <2>1, CapacityAssumption DEF Slots
    <2>3. m \in Layout(z, L)
      BY DEF Whole
    <2>4. m.size = z
      <3> HIDE DEF L
      <3> QED
        BY <2>3, Sized
    <2> QED
      BY <2>1, <2>2, <2>3, <2>4
  <1>2. With(L, v, 0 .. end - 1) = Full(y) /\ y \in Sizes
    BY <1>1, FullWith
  <1>3. CASE pos = n
    <2> DEFINE value == m.slots[v][i]
    <2>1. InsertElement(m, v, pos, i) = PushBack(m, v, value)
      BY <1>1, <1>3 DEF InsertElement
    <2>2. value \in Objects
      <3>1. i \in L[v]
        BY <1>1
      <3> HIDE DEF L
      <3>2. m.slots[v][i] \in Contained /\ (m.slots[v][i] \notin Free <=> i \in L[v])
        BY <1>1, Sized
      <3> QED
        BY <3>1, <3>2 DEF Objects
    <2>3. n < N
      BY <1>1, CapacityAssumption
    <2> HIDE DEF value
    <2> QED
      BY <2>1, <2>2, <2>3, PushWhole
  <1>4. CASE pos # n
    <2> DEFINE A == (0 .. pos - 1) \union (pos + one .. n + one - 1)
               K == With(L, v, A)
               back == MovedBack(m, v, pos, one)
               b == Resized(back, v, end)
               value == b.slots[v][i]
    <2>1. one \in Nat \ {0} /\ pos \in 0 .. n /\ n + one <= N
      BY <1>1, <1>4
    <2>2. InsertElement(m, v, pos, i) = Construct(b, v, pos, value)
      BY <1>1, <1>4 DEF InsertElement, MoveElementsBack, MovedBack
    <2>3. back \in Layout(z, K)
      <3> HIDE DEF L, one
      <3> QED
        BY <1>1, <2>1, BackLays
    <2>4. K \in Layouts /\ K[v] = A /\ \A d : With(K, v, d) = With(L, v, d)
      <3>1. A \in SUBSET Int
        OBVIOUS
      <3> HIDE DEF A, L
      <3> QED
        BY <1>1, <3>1, WithOnce
    <2>5. pos \in Slots /\ pos \notin A /\ i \in A /\ A \union {pos} = 0 .. end - 1
      <3>1. pos \in Nat /\ pos < n /\ n \in Nat /\ n < N /\ N \in Nat /\ end = n + 1
        BY <1>1, <1>4, <2>1, CapacityAssumption
      <3> HIDE DEF n, end
      <3> QED
        BY <1>1, <3>1 DEF Slots
    <2> HIDE DEF A, K, back, L
    <2>6. b \in Layout(y, K)
      <3>1. end \in Int
        BY <1>1
      <3> HIDE DEF end
      <3>2. Resized(back, v, end) \in Layout([z EXCEPT ![v] = end], K)
        BY <2>3, <2>4, <3>1, ResizedLays
      <3> QED
        BY <3>2 DEF end
    <2> HIDE DEF b, y, end
    <2>7. value \in Contained /\ value \notin Free
      BY <2>4, <2>5, <2>6, Sized
    <2> HIDE DEF value
    <2>8. Construct(b, v, pos, value) \in Layout(y, With(K, v, K[v] \union {pos}))
      BY <2>4, <2>5, <2>6, <2>7, ConstructLays
    <2>9. With(K, v, K[v] \union {pos}) = Full(y)
      BY <1>2, <2>4, <2>5
    <2> QED
      BY <1>2, <2>2, <2>8, <2>9 DEF Whole, y
  <1> QED
    BY <1>3, <1>4

\* An empty range is only erased at the end.
LEMMA EraseWhole ==
  ASSUME NEW z \in Sizes, NEW m \in Whole(z), NEW v \in Vectors, NEW pos \in Nat, NEW count \in Nat,
         pos + count <= z[v], count # 0 \/ pos = z[v]
  PROVE  LET y == [z EXCEPT ![v] = z[v] - count]
         IN  EraseRange(m, v, pos, count) \in Whole(y) /\ y \in Sizes
  <1> DEFINE n == z[v]
             L == Full(z)
             end == n - count
             y == [z EXCEPT ![v] = end]
             last == pos + count - 1
             d == DestroyRange(m, v, pos, last)
             K == With(L, v, L[v] \ (pos .. last))
             e == MovedForth(d, v, pos + count, n - 1, count)
  <1>1. /\ L \in Layouts /\ L[v] = 0 .. n - 1 /\ n \in Nat /\ n <= N /\ end \in 0 .. N
        /\ m \in Layout(z, L) /\ m.size[v] = n /\ pos + count <= n
    <2>1. L \in Layouts /\ L[v] = 0 .. n - 1 /\ n \in Nat /\ n \in 0 .. N
      BY FullLays
    <2>2. end \in 0 .. N /\ n <= N
      BY <2>1, CapacityAssumption
    <2>3. m \in Layout(z, L)
      BY DEF Whole
    <2>4. m.size = z
      <3> HIDE DEF L
      <3> QED
        BY <2>3, Sized
    <2> QED
      BY <2>1, <2>2, <2>3, <2>4
  <1>2. /\ EraseRange(m, v, pos, count) = Resized(IF pos + count = n THEN d ELSE e, v, end)
    BY <1>1 DEF EraseRange, MovedForth
  <1>3. d \in Layout(z, K) /\ K \in Layouts /\ \A a : With(K, v, a) = With(L, v, a)
    <2>1. /\ last \in Int /\ last - pos + 1 \in Nat /\ pos \in Int
          /\ pos .. last \subseteq Slots /\ pos .. last \subseteq L[v]
      <3>1. last \in Int /\ last - pos + 1 \in Nat /\ pos >= 0 /\ last < n /\ N \in Nat
        BY <1>1, CapacityAssumption
      <3> HIDE DEF last, n, L
      <3>2. pos .. last \subseteq L[v]
        BY <1>1, <3>1
      <3>3. pos .. last \subseteq Slots
        BY <1>1, <3>1 DEF Slots
      <3> QED
        BY <3>1, <3>2, <3>3
    <2>2. L[v] \ (pos .. last) \in SUBSET Int
      BY <1>1
    <2> DEFINE a == L[v] \ (pos .. last)
    <2> HIDE DEF last, L, a
    <2>3. d \in Layout(z, K)
      BY <1>1, <2>1, DestroyRangeLays
    <2>4. With(L, v, a) \in Layouts /\ \A b : With(With(L, v, a), v, b) = With(L, v, b)
      BY <1>1, <2>2, WithOnce DEF a
    <2> QED
      BY <2>3, <2>4 DEF a
  <1>4. K[v] = L[v] \ (pos .. last)
    BY <1>1 DEF With, Layouts
  <1>5. (IF pos + count = n THEN d ELSE e) \in Layout(z, With(L, v, 0 .. end - 1))
    <2>0. pos \in Nat /\ count \in Nat /\ n \in Nat /\ last = pos + count - 1 /\ end = n - count
      BY <1>1
    <2>1. CASE pos + count = n
      <3>1. L[v] \ (pos .. last) = 0 .. end - 1
        <4> HIDE DEF last, end, n, L
        <4> QED
          BY <1>1, <2>0, <2>1
      <3> QED
        BY <1>3, <2>1, <3>1
    <2>2. CASE pos + count # n
      <3>1. count \in Nat \ {0}
        BY <2>0, <2>2
      <3>2. K[v] = (0 .. pos - 1) \union (pos + count .. n - 1)
        <4> HIDE DEF last, end, n, L, K
        <4> QED
          BY <1>1, <1>4, <2>0
      <3>3. e \in Layout(z, With(K, v, 0 .. n - count - 1))
        <4> HIDE DEF n, K, d
        <4> QED
          BY <1>1, <1>3, <2>0, <3>1, <3>2, ForthLays
      <3>4. n - count - 1 = end - 1
        OBVIOUS
      <3> HIDE DEF K, e
      <3> QED
        BY <1>3, <2>2, <3>3, <3>4
    <2> QED
      BY <2>1, <2>2
  <1> DEFINE r == IF pos + count = n THEN d ELSE e
  <1> HIDE DEF r, end
  <1>6. Resized(r, v, end) \in Whole([z EXCEPT ![v] = end]) /\ [z EXCEPT ![v] = end] \in Sizes
    BY <1>1, <1>5, ResizedWhole DEF r
  <1> QED
    BY <1>2, <1>6 DEF r, end

LEMMA ResizeWhole ==
  ASSUME NEW z \in Sizes, NEW m \in Whole(z), NEW v \in Vectors,
         NEW count \in 0 .. N, NEW value \in Objects
  PROVE  LET y == [z EXCEPT ![v] = count] IN Resize(m, v, count, value) \in Whole(y) /\ y \in Sizes
  <1> DEFINE n == z[v]
             L == Full(z)
             added == [k \in 1 .. count - n |-> value]
             c == ConstructRange(m, v, n, added)
             d == DestroyRange(m, v, count, n - 1)
             r == IF n < count THEN c ELSE d
  <1>1. /\ L \in Layouts /\ L[v] = 0 .. n - 1 /\ n \in Nat /\ n <= N /\ count \in Nat /\ count <= N
        /\ m \in Layout(z, L) /\ m.size[v] = n
    <2>1. L \in Layouts /\ L[v] = 0 .. n - 1 /\ n \in Nat /\ n \in 0 .. N
      BY FullLays
    <2>2. n <= N /\ count \in Nat /\ count <= N
      BY <2>1, CapacityAssumption
    <2>3. m \in Layout(z, L)
      BY DEF Whole
    <2>4. m.size = z
      <3> HIDE DEF L
      <3> QED
        BY <2>3, Sized
    <2> QED
      BY <2>1, <2>2, <2>3, <2>4
  <1>2. Resize(m, v, count, value) = Resized(r, v, count)
    BY <1>1 DEF Resize
  <1>3. r \in Layout(z, With(L, v, 0 .. count - 1))
    <2>1. CASE n < count
      <3>1. added \in Seq(Objects) /\ Len(added) = count - n
        BY <1>1, <2>1
      <3> HIDE DEF added, L, n
      <3> DEFINE slots == n .. n + Len(added) - 1
      <3>2. /\ slots = n .. count - 1 /\ slots \subseteq Slots /\ n \in Int
            /\ \A i \in slots : i \notin L[v]
        BY <1>1, <2>1, <3>1, CapacityAssumption DEF Slots
      <3>3. L[v] \union slots = 0 .. count - 1
        BY <1>1, <2>1, <3>2
      <3>4. c \in Layout(z, With(L, v, L[v] \union slots))
        BY <1>1, <3>1, <3>2, ConstructRangeLays DEF Objects
      <3> QED
        BY <2>1, <3>3, <3>4
    <2>2. CASE ~(n < count)
      <3> DEFINE last == n - 1
      <3> HIDE DEF L, n
      <3>1. /\ last \in Int /\ last - count + 1 \in Nat /\ count \in Int
            /\ count .. last \subseteq L[v] /\ count .. last \subseteq Slots
            /\ L[v] \ (count .. last) = 0 .. count - 1
        BY <1>1, <2>2, CapacityAssumption DEF Slots
      <3> HIDE DEF last
      <3>2. DestroyRange(m, v, count, last) \in Layout(z, With(L, v, L[v] \ (count .. last)))
        BY <1>1, <3>1, DestroyRangeLays
      <3>3. r = DestroyRange(m, v, count, last)
        BY <2>2 DEF last
      <3> HIDE DEF r
      <3> QED
        BY <3>1, <3>2, <3>3
    <2> QED
      BY <2>1, <2>2
  <1> HIDE DEF r
  <1> QED
    BY <1>2, <1>3, ResizedWhole

\* Behind what is kept, the range that erase gets is empty only at the end.
LEMMA EraseIfWhole ==
  ASSUME NEW z \in Sizes, NEW m \in Whole(z), NEW v \in Vectors, NEW value
  PROVE  LET y == [z EXCEPT ![v] = KeptBefore(m, v, z[v], value)]
         IN  EraseIf(m, v, value) \in Whole(y) /\ y \in Sizes
  <1> DEFINE n == z[v]
             L == Full(z)
             kept == KeptBefore(m, v, n, value)
             r == RemoveIf(m, v, value)
             count == n - kept
  <1>1. L \in Layouts /\ L[v] = 0 .. n - 1 /\ n \in 0 .. N /\ n \in Nat /\ m \in Layout(z, L)
    BY FullLays DEF Whole
  <1>2. m.size[v] = n
    <2> HIDE DEF L
    <2> QED
      BY ZenonT(60), <1>1, Sized
  <1>3. r \in Whole(z)
    <2>1. r \in Layout(z, L)
      <3> HIDE DEF L
      <3> QED
        BY <1>1, RemoveLays
    <2> QED
      BY <2>1 DEF Whole
  <1>4. kept \in 0 .. n
    <2> HIDE DEF n
    <2> QED
      BY <1>1, KeptWithin
  <1>5. EraseIf(m, v, value) = EraseRange(r, v, kept, count)
    BY <1>2 DEF EraseIf
  <1>6. /\ kept \in Nat /\ count \in Nat /\ kept + count <= n
        /\ (count # 0 \/ kept = n) /\ n - count = kept
    <2> HIDE DEF n, kept
    <2> QED
      BY <1>1, <1>4
  <1>7. EraseRange(r, v, kept, count) \in Whole([z EXCEPT ![v] = n - count])
          /\ [z EXCEPT ![v] = n - count] \in Sizes
    <2> HIDE DEF r, kept, count
    <2> QED
      BY <1>3, <1>6, EraseWhole
  <1> QED
    BY <1>5, <1>6, <1>7

LEMMA SwapWhole ==
  ASSUME NEW z \in Sizes, NEW m \in Whole(z), NEW v \in Vectors, NEW w \in Vectors
  PROVE  LET y == [z EXCEPT ![v] = z[w], ![w] = z[v]] IN Swap(m, v, w) \in Whole(y) /\ y \in Sizes
  <1> DEFINE small == IF z[v] > z[w] THEN w ELSE v
             large == IF z[v] > z[w] THEN v ELSE w
             a == z[small]
             b == z[large]
             L == Full(z)
             common == Swapped(m, v, w, a)
             rest == Rest(common, small, large, a, b - 1)
             x == [z EXCEPT ![v] = z[w]]
             y == [x EXCEPT ![w] = z[v]]
             K == Full(y)
  <1>1. /\ L \in Layouts /\ m \in Layout(z, L) /\ \A u \in Vectors : L[u] = 0 .. z[u] - 1
        /\ \A u \in Vectors : z[u] \in Nat /\ z[u] <= N
    BY CapacityAssumption, FullLays DEF Whole, Sizes
  <1>2. m.size = z
    <2> HIDE DEF L
    <2> QED
      BY <1>1, Sized
  <1>3. Swap(m, v, w) = Resized(Resized(rest, v, z[w]), w, z[v])
    BY <1>2 DEF Swap, Swapped, Rest
  <1>4. /\ small \in Vectors /\ large \in Vectors /\ a \in Nat /\ b \in Nat /\ a <= b /\ b <= N
        /\ a <= z[v] /\ a <= z[w]
    BY <1>1
  <1>5. common \in Layout(z, L)
    <2>1. 0 .. a - 1 \subseteq Slots /\ 0 .. a - 1 \subseteq L[v] /\ 0 .. a - 1 \subseteq L[w]
      <3> HIDE DEF a, L
      <3>1. /\ N \in Nat /\ z[v] \in Nat /\ z[w] \in Nat
            /\ L[v] = 0 .. z[v] - 1 /\ L[w] = 0 .. z[w] - 1
        BY <1>1, CapacityAssumption
      <3> QED
        BY <1>4, <3>1 DEF Slots
    <2> HIDE DEF a, L
    <2> QED
      BY <1>1, <1>4, <2>1, SwapLoopLays
  <1>6. y \in Sizes /\ x \in Sizes /\ y = [z EXCEPT ![v] = z[w], ![w] = z[v]]
        /\ \A u \in Vectors : y[u] = IF u = w THEN z[v] ELSE IF u = v THEN z[w] ELSE z[u]
    BY DEF Sizes
  <1>7. K \in Layouts /\ \A u \in Vectors : K[u] = 0 .. y[u] - 1
    BY <1>6, FullLays
  <1>8. rest \in Layout(z, K)
    <2>1. CASE v = w
      <3>1. y = z
        BY <1>6, <2>1 DEF Sizes
      <3>2. a = z[v] /\ b = a /\ (b - 1) - a + 1 = 0
        BY <1>1, <2>1
      <3> HIDE DEF L, small, large, a, b, common
      <3> DEFINE steps == RestSteps(small, large, a, 0)
                 I == [k \in {0} |-> Layout(z, L)]
      <3>3. steps \in Seq(Steps) /\ Len(steps) = 0
        BY DEF RestSteps
      <3>4. rest = Run(common, steps)
        <4> DEFINE last == b - 1
        <4>1. a \in Int /\ last \in Int /\ last - a + 1 = 0
          BY <1>4, <3>2
        <4> HIDE DEF last
        <4>2. Rest(common, small, large, a, last)
                = Run(common, RestSteps(small, large, a, last - a + 1))
          BY <4>1, RestRuns
        <4> QED
          BY <4>1, <4>2 DEF last
      <3>5. common \in Memories /\ common \in I[0]
        BY <1>5, Sized
      <3> HIDE DEF I, steps
      <3>6. \A k \in 1 .. Len(steps) : \A p \in I[k - 1] : Do(p, steps[k]) \in I[k]
        BY <3>3
      <3>7. Run(common, steps) \in I[Len(steps)]
        BY <3>3, <3>5, <3>6, RunWithin
      <3>8. Run(common, steps) \in I[0]
        BY <3>3, <3>7
      <3> QED
        BY <3>1, <3>4, <3>8 DEF I, L
    <2>2. CASE v # w
      <3> DEFINE last == b - 1
      <3>1. small # large /\ L[small] = 0 .. a - 1 /\ L[large] = 0 .. last
        BY <1>1, <2>2
      <3>2. last \in Int /\ last < N /\ last - a + 1 \in Nat /\ a \in Nat
        <4> HIDE DEF a, b
        <4> QED
          BY <1>4, CapacityAssumption
      <3>3. With(With(L, small, 0 .. last), large, 0 .. a - 1) = K
        <4>1. With(With(L, small, 0 .. last), large, 0 .. a - 1)
                = [u \in Vectors |-> IF u = large THEN 0 .. a - 1
                                     ELSE IF u = small THEN 0 .. last ELSE 0 .. z[u] - 1]
          BY DEF With, Full
        <4>2. \A u \in Vectors : y[u] = IF u = large THEN a ELSE IF u = small THEN b ELSE z[u]
          <5>1. CASE z[v] > z[w]
            <6>1. small = w /\ large = v /\ a = z[w] /\ b = z[v]
              BY <5>1
            <6> HIDE DEF y, a, b, small, large
            <6> QED
              BY <1>6, <2>2, <6>1
          <5>2. CASE ~(z[v] > z[w])
            <6>1. small = v /\ large = w /\ a = z[v] /\ b = z[w]
              BY <5>2
            <6> HIDE DEF y, a, b, small, large
            <6> QED
              BY <1>6, <2>2, <6>1
          <5> QED
            BY <5>1, <5>2
        <4> HIDE DEF y, a, b, small, large
        <4> QED
          BY <4>1, <4>2, Zenon DEF Full
      <3> HIDE DEF L, small, large, a, last, common, K
      <3>4. Rest(common, small, large, a, last)
              \in Layout(z, With(With(L, small, 0 .. last), large, 0 .. a - 1))
        BY <1>1, <1>4, <1>5, <3>1, <3>2, RestLays
      <3> QED
        BY <3>3, <3>4 DEF last
    <2> QED
      BY <2>1, <2>2
  <1> HIDE DEF rest, K
  <1>9. Resized(rest, v, z[w]) \in Layout(x, K)
    <2>1. z[w] \in Int
      BY <1>1
    <2> QED
      BY <1>7, <1>8, <2>1, ResizedLays
  <1> DEFINE r == Resized(rest, v, z[w])
  <1>10. Resized(r, w, z[v]) \in Layout(y, K)
    <2>1. z[v] \in Int
      BY <1>1
    <2> HIDE DEF r, x
    <2> QED
      BY <1>7, <1>9, <2>1, ResizedLays DEF r
  <1> QED
    BY <1>3, <1>6, <1>10 DEF Whole, K

--------------------------------------------------------------------------------
(* The invariant.                                                           *)

Sound(m, alive) ==
  m.size \in Sizes /\ m \in Whole(m.size) /\ \A v \in Vectors \ alive : m.size[v] = 0

LEMMA SoundIs ==
  ASSUME NEW z \in Sizes, NEW m \in Whole(z), NEW alive, \A v \in Vectors \ alive : z[v] = 0
  PROVE  Sound(m, alive)
  <1> DEFINE L == Full(z)
  <1>1. m \in Layout(z, L)
    BY DEF Whole
  <1>2. m.size = z
    <2> HIDE DEF L
    <2> QED
      BY <1>1, Sized
  <1> QED
    BY <1>2 DEF Sound

LEMMA InvIsSound == VectorInv <=> unsound \/ (living \in SUBSET Vectors /\ Sound(memory, living))
  <1> DEFINE z == memory.size
  <1>1. ASSUME z \in Sizes
        PROVE  \A v \in Vectors, i \in Slots : i \in Full(z)[v] <=> i < z[v]
    <2> SUFFICES ASSUME NEW v \in Vectors, NEW i \in Slots PROVE i \in Full(z)[v] <=> i < z[v]
      OBVIOUS
    <2>1. Full(z)[v] = 0 .. z[v] - 1 /\ z[v] \in Nat
      BY <1>1, FullLays
    <2>2. i \in Nat
      BY CapacityAssumption DEF Slots
    <2> HIDE DEF z
    <2> QED
      BY <2>1, <2>2
  <1>2. ASSUME VectorInv, ~unsound PROVE living \in SUBSET Vectors /\ Sound(memory, living)
    <2>1. /\ memory \in [slots : [Vectors -> [Slots -> Contained]], size : [Vectors -> 0 .. N],
                         wrong : BOOLEAN]
          /\ living \in SUBSET Vectors /\ ~memory.wrong
          /\ \A v \in Vectors : \A i \in Slots : memory.slots[v][i] \notin Free <=> i < z[v]
          /\ \A v \in Vectors \ living : z[v] = 0
      BY <1>2 DEF VectorInv, TypeOK, ElementsLive
    <2>2. z \in Sizes /\ z \in [Vectors -> Int]
      BY <2>1, CapacityAssumption DEF Sizes
    <2>3. memory \in Memories /\ memory.wrong = FALSE
      BY <2>1, <2>2 DEF Memories
    <2>4. \A v \in Vectors : \A i \in Slots : memory.slots[v][i] \notin Free <=> i \in Full(z)[v]
      BY <1>1, <2>1, <2>2
    <2>5. memory \in Whole(z)
      <3> HIDE DEF Full
      <3> QED
        BY <2>3, <2>4 DEF Whole, Layout
    <2> QED
      BY <2>1, <2>2, <2>5 DEF Sound
  <1>3. ASSUME living \in SUBSET Vectors, Sound(memory, living) PROVE VectorInv
    <2> DEFINE L == Full(z)
    <2>1. /\ z \in Sizes /\ memory \in Memories /\ memory.wrong = FALSE
          /\ \A v \in Vectors : \A i \in Slots : memory.slots[v][i] \notin Free <=> i \in L[v]
          /\ \A v \in Vectors \ living : z[v] = 0
      BY <1>3 DEF Sound, Whole, Layout
    <2>2. \A v \in Vectors : \A i \in Slots : i \in L[v] <=> i < z[v]
      BY <1>1, <2>1
    <2> HIDE DEF L
    <2>3. TypeOK
      BY <1>3, <2>1 DEF TypeOK, Memories, Sizes
    <2>4. ElementsLive
      BY <2>1, <2>2 DEF ElementsLive
    <2> QED
      BY <2>1, <2>3, <2>4 DEF VectorInv
  <1> QED
    BY <1>2, <1>3 DEF VectorInv

LEMMA RangesAreSequences ==
  ASSUME NEW values \in Ranges
  PROVE  values \in Seq(Objects) /\ Len(values) \in Nat
  <1>1. PICK n \in 0 .. MaxRange : values \in [1 .. n -> Values]
    BY DEF Ranges
  <1>2. n \in Nat
    BY BoundsAssumption
  <1>3. \A x \in Values : x \in Objects
    BY ValuesAssumption DEF Objects, Contained, Free
  <1> QED
    BY <1>1, <1>2, <1>3

\* Vectors in new sizes, where one that is alive has changed.
LEMMA SoundStep ==
  ASSUME Sound(memory, living), living \in SUBSET Vectors, NEW v \in living, NEW s,
         [memory.size EXCEPT ![v] = s] \in Sizes,
         memory' \in Whole([memory.size EXCEPT ![v] = s]), UNCHANGED living
  PROVE  Sound(memory', living') /\ living' \in SUBSET Vectors
  <1> DEFINE y == [memory.size EXCEPT ![v] = s]
  <1>1. \A u \in Vectors \ living' : y[u] = 0
    BY DEF Sound, Sizes
  <1> HIDE DEF y
  <1>2. Sound(memory', living')
    BY <1>1, SoundIs DEF y
  <1> QED
    BY <1>2

LEMMA SoundInit == Init => VectorInv
  <1> SUFFICES ASSUME Init PROVE VectorInv
    OBVIOUS
  <1> DEFINE slots == [v \in Vectors |-> [i \in Slots |-> Raw]]
             z == [v \in Vectors |-> 0]
  <1>1. memory = [slots |-> slots, size |-> z, wrong |-> FALSE] /\ living = {} /\ unsound = FALSE
    BY DEF Init
  <1>2. slots \in [Vectors -> [Slots -> Contained]] /\ z \in [Vectors -> 0 .. N]
    BY CapacityAssumption DEF Contained
  <1>3. \A v \in Vectors : \A i \in Slots : slots[v][i] = Raw /\ z[v] = 0 /\ ~(i < 0)
    BY DEF Slots
  <1>4. \A v \in Vectors : z[v] = 0
    OBVIOUS
  <1> HIDE DEF slots, z
  <1> QED
    BY <1>1, <1>2, <1>3, <1>4 DEF VectorInv, TypeOK, ElementsLive, Free

\* Every call that is not mishandled keeps objects in the slots below the size.
LEMMA SoundCall ==
  ASSUME living \in SUBSET Vectors, Sound(memory, living), ~unsound',
         Construction \/ \E v \in living : Member(v)
  PROVE  Sound(memory', living') /\ living' \in SUBSET Vectors
  <1> DEFINE z == memory.size
  <1>1. living \in SUBSET Vectors /\ Sound(memory, living)
    OBVIOUS
  <1>2. z \in Sizes /\ memory \in Whole(z) /\ \A v \in Vectors \ living : z[v] = 0
    BY <1>1 DEF Sound
  <1>3. \A v \in Vectors : z[v] \in 0 .. N /\ z[v] \in Nat /\ z[v] <= N
    BY <1>2, CapacityAssumption DEF Sizes
  <1> DEFINE Kept == Sound(memory', living') /\ living' \in SUBSET Vectors
  <1>4. ASSUME NEW c, NEW m, Makes(c, m) PROVE memory' = m /\ ~Mishandled(c)
    BY <1>4 DEF Makes
  <1>5. ASSUME NEW v \in Vectors, NEW values \in Ranges, ConstructOf(v, values) PROVE Kept
    <2> DEFINE n == Len(values)
               y == [z EXCEPT ![v] = n]
    <2>1. /\ v \notin living /\ n <= N /\ living' = living \union {v}
          /\ memory' = Resized(ConstructRange(memory, v, 0, values), v, n)
      BY <1>5 DEF ConstructOf, Makes
    <2>2. z[v] = 0 /\ values \in Seq(Objects)
      BY <1>2, <2>1, RangesAreSequences
    <2>3. memory' \in Whole(y) /\ y \in Sizes
      <3> HIDE DEF z
      <3> QED
        BY <1>2, <2>1, <2>2, FilledWhole
    <2>4. \A u \in Vectors \ living' : y[u] = 0
      BY <1>2, <2>1 DEF Sizes
    <2> HIDE DEF y
    <2>5. Sound(memory', living')
      BY <2>3, <2>4, SoundIs
    <2> QED
      BY <1>1, <2>1, <2>5
  <1>6. ASSUME NEW v \in Vectors, NEW w \in living, ConstructCopy(v, w) PROVE Kept
    <2> DEFINE values == Contents(memory, w)
               n == z[w]
               y == [z EXCEPT ![v] = n]
    <2>1. /\ v \notin living /\ living' = living \union {v}
          /\ memory' = Resized(ConstructRange(memory, v, 0, values), v, n)
      BY <1>6 DEF ConstructCopy, Makes
    <2>2. z[v] = 0 /\ values \in Seq(Objects) /\ Len(values) = n /\ n <= N /\ w \in Vectors
      BY <1>1, <1>2, <1>3, <2>1, ContentsAreObjects
    <2>3. memory' \in Whole(y) /\ y \in Sizes
      <3> HIDE DEF z, values, n
      <3> QED
        BY <1>2, <2>1, <2>2, FilledWhole
    <2>4. \A u \in Vectors \ living' : y[u] = 0
      BY <1>2, <2>1 DEF Sizes
    <2> HIDE DEF y
    <2>5. Sound(memory', living')
      BY <2>3, <2>4, SoundIs
    <2> QED
      BY <1>1, <2>1, <2>5
  <1>7. ASSUME NEW v \in Vectors, NEW w \in living, ConstructMove(v, w) PROVE Kept
    <2> DEFINE y == [z EXCEPT ![v] = z[w], ![w] = 0]
    <2>1. v \notin living /\ living' = living \union {v} /\ memory' = Take(memory, v, w)
      BY <1>7 DEF ConstructMove, Makes
    <2>2. z[v] = 0 /\ v # w /\ w \in Vectors
      BY <1>1, <1>2, <2>1
    <2>3. memory' \in Whole(y) /\ y \in Sizes
      <3> HIDE DEF z
      <3> QED
        BY <1>2, <2>1, <2>2, TakeWhole
    <2>4. \A u \in Vectors \ living' : y[u] = 0
      BY <1>1, <1>2, <2>1 DEF Sizes
    <2> HIDE DEF y
    <2>5. Sound(memory', living')
      BY <2>3, <2>4, SoundIs
    <2> QED
      BY <1>1, <2>1, <2>5
  <1>8. ASSUME NEW v \in living, Destruct(v) PROVE Kept
    <2> DEFINE y == [z EXCEPT ![v] = 0]
    <2>1. living' = living \ {v} /\ memory' = Clear(memory, v) /\ v \in Vectors
      BY <1>1, <1>8 DEF Destruct, Makes
    <2>2. memory' \in Whole(y) /\ y \in Sizes
      <3> HIDE DEF z
      <3> QED
        BY <1>2, <2>1, ClearWhole
    <2>3. \A u \in Vectors \ living' : y[u] = 0
      BY <1>2, <2>1 DEF Sizes
    <2> HIDE DEF y
    <2>4. Sound(memory', living')
      BY <2>2, <2>3, SoundIs
    <2> QED
      BY <1>1, <2>1, <2>4
  <1>9. ASSUME UNCHANGED <<memory, living>> PROVE Kept
    BY <1>1, <1>9
  <1>10. ASSUME NEW v \in living, ClearAll(v) PROVE Kept
    <2> DEFINE s == 0
    <2>1. memory' = Clear(memory, v) /\ UNCHANGED living /\ v \in Vectors
      BY <1>1, <1>10 DEF ClearAll, Makes
    <2>2. memory' \in Whole([z EXCEPT ![v] = s]) /\ [z EXCEPT ![v] = s] \in Sizes
      <3> HIDE DEF z
      <3> QED
        BY <1>2, <2>1, ClearWhole
    <2> HIDE DEF s
    <2> QED
      BY <1>1, <2>1, <2>2, SoundStep
  <1>11. ASSUME NEW v \in living, Pop(v) PROVE Kept
    <2> DEFINE s == z[v] - 1
    <2>1. z[v] > 0 /\ memory' = PopBack(memory, v) /\ UNCHANGED living /\ v \in Vectors
      BY <1>1, <1>11 DEF Pop, Makes
    <2>2. memory' \in Whole([z EXCEPT ![v] = s]) /\ [z EXCEPT ![v] = s] \in Sizes
      <3> HIDE DEF z
      <3> QED
        BY <1>2, <2>1, PopWhole
    <2> HIDE DEF s
    <2> QED
      BY <1>1, <2>1, <2>2, SoundStep
  <1>12. ASSUME NEW v \in living, NEW values \in Ranges, AssignRange(v, values) PROVE Kept
    <2> DEFINE s == Len(values)
    <2>1. UNCHANGED living /\ v \in Vectors /\ values \in Seq(Objects)
      BY <1>1, <1>12, RangesAreSequences DEF AssignRange
    <2>2. CASE s <= N /\ memory' = Assign(memory, v, values)
      <3>1. memory' \in Whole([z EXCEPT ![v] = s]) /\ [z EXCEPT ![v] = s] \in Sizes
        <4> HIDE DEF z
        <4> QED
          BY <1>2, <2>1, <2>2, AssignWhole
      <3> HIDE DEF s
      <3> QED
        BY <1>1, <2>1, <3>1, SoundStep
    <2> QED
      BY <1>9, <1>12, <2>1, <2>2 DEF AssignRange, MakesWithin, Makes, Throws
  <1>13. ASSUME NEW v \in living, NEW w \in living, AssignCopy(v, w) PROVE Kept
    <2> DEFINE values == Contents(memory, w)
               s == z[w]
    <2>1. /\ UNCHANGED living /\ v \in Vectors /\ w \in Vectors
          /\ memory' = IF v = w THEN memory ELSE Assign(memory, v, values)
      BY <1>1, <1>13 DEF AssignCopy, Makes
    <2>2. CASE v # w
      <3>1. values \in Seq(Objects) /\ Len(values) = s /\ s <= N
        BY <1>2, <1>3, <2>1, ContentsAreObjects
      <3>2. memory' = Assign(memory, v, values)
        BY <2>1, <2>2
      <3>3. memory' \in Whole([z EXCEPT ![v] = s]) /\ [z EXCEPT ![v] = s] \in Sizes
        <4> HIDE DEF z, values, s
        <4> QED
          BY <1>2, <2>1, <3>1, <3>2, AssignWhole
      <3> HIDE DEF s
      <3> QED
        BY <1>1, <2>1, <3>3, SoundStep
    <2> QED
      BY <1>9, <2>1, <2>2
  <1>14. ASSUME NEW v \in living, NEW w \in living, AssignMove(v, w) PROVE Kept
    <2> DEFINE c == Clear(memory, v)
               x == [z EXCEPT ![v] = 0]
               y == [x EXCEPT ![v] = x[w], ![w] = 0]
    <2>1. /\ UNCHANGED living /\ v \in Vectors /\ w \in Vectors
          /\ memory' = IF v = w THEN memory ELSE Take(c, v, w)
      BY <1>1, <1>14 DEF AssignMove, Makes
    <2>2. CASE v # w
      <3>1. c \in Whole(x) /\ x \in Sizes
        <4> HIDE DEF z
        <4> QED
          BY <1>2, <2>1, ClearWhole
      <3>2. x[v] = 0 /\ \A u \in Vectors : u # v => x[u] = z[u]
        BY <1>2, <2>1 DEF Sizes
      <3>3. memory' = Take(c, v, w)
        BY <2>1, <2>2
      <3>4. memory' \in Whole(y) /\ y \in Sizes
        <4> HIDE DEF c, x
        <4> QED
          BY <2>1, <2>2, <3>1, <3>2, <3>3, TakeWhole
      <3>5. \A u \in Vectors \ living' : y[u] = 0
        <4> HIDE DEF x
        <4> QED
          BY <1>2, <2>1, <3>1, <3>2 DEF Sizes
      <3> HIDE DEF y
      <3>6. Sound(memory', living')
        BY <3>4, <3>5, SoundIs
      <3> QED
        BY <1>1, <2>1, <3>6
    <2> QED
      BY <1>9, <2>1, <2>2
  <1>15. ASSUME NEW v \in living, NEW w \in living, SwapWith(v, w) PROVE Kept
    <2> DEFINE y == [z EXCEPT ![v] = z[w], ![w] = z[v]]
    <2>1. UNCHANGED living /\ v \in Vectors /\ w \in Vectors /\ memory' = Swap(memory, v, w)
      BY <1>1, <1>15 DEF SwapWith, Makes
    <2>2. memory' \in Whole(y) /\ y \in Sizes
      <3> HIDE DEF z
      <3> QED
        BY <1>2, <2>1, SwapWhole
    <2>3. \A u \in Vectors \ living' : y[u] = 0
      BY <1>2, <2>1 DEF Sizes
    <2> HIDE DEF y
    <2>4. Sound(memory', living')
      BY <2>2, <2>3, SoundIs
    <2> QED
      BY <1>1, <2>1, <2>4
  <1>16. ASSUME NEW v \in living, NEW value \in Values, Push(v, value) PROVE Kept
    <2> DEFINE s == z[v] + 1
    <2>1. UNCHANGED living /\ v \in Vectors /\ value \in Objects
      BY <1>1, <1>16, ValuesAssumption DEF Push, Objects, Contained, Free
    <2>2. CASE s <= N /\ memory' = PushBack(memory, v, value)
      <3>1. z[v] < N
        BY <1>3, <2>1, <2>2, CapacityAssumption
      <3>2. memory' \in Whole([z EXCEPT ![v] = s]) /\ [z EXCEPT ![v] = s] \in Sizes
        <4> HIDE DEF z
        <4> QED
          BY <1>2, <2>1, <2>2, <3>1, PushWhole
      <3> HIDE DEF s
      <3> QED
        BY <1>1, <2>1, <3>2, SoundStep
    <2> QED
      BY <1>9, <1>16, <2>1, <2>2 DEF Push, MakesWithin, Makes, Throws
  <1>17. ASSUME NEW v \in living, NEW value \in Values, EraseAll(v, value) PROVE Kept
    <2> DEFINE s == KeptBefore(memory, v, z[v], value)
    <2>1. UNCHANGED living /\ v \in Vectors /\ memory' = EraseIf(memory, v, value)
      BY <1>1, <1>17 DEF EraseAll, Makes
    <2>2. memory' \in Whole([z EXCEPT ![v] = s]) /\ [z EXCEPT ![v] = s] \in Sizes
      <3> HIDE DEF z
      <3> QED
        BY <1>2, <2>1, EraseIfWhole
    <2> HIDE DEF s
    <2> QED
      BY <1>1, <2>1, <2>2, SoundStep
  <1>18. ASSUME NEW v \in living, NEW pos \in 0 .. N, NEW values \in Ranges,
                InsertRange(v, pos, values)
         PROVE  Kept
    <2> DEFINE s == z[v] + Len(values)
    <2>1. /\ UNCHANGED living /\ v \in Vectors /\ values \in Seq(Objects)
          /\ pos <= z[v] /\ pos \in Nat
      BY <1>1, <1>18, RangesAreSequences, CapacityAssumption DEF InsertRange
    <2> DEFINE c == Calling("insert", v, v, pos, 0, values)
    <2>2. CASE s <= N /\ Makes(c, Insert(memory, v, pos, values))
      <3>1. memory' = Insert(memory, v, pos, values) /\ ~Mishandled(c)
        BY <1>4, <2>2
      <3>2. pos \in 0 .. z[v] /\ (values # <<>> \/ pos = z[v])
        <4>1. c.op = "insert" /\ c.values = values /\ c.pos = pos /\ c.vector = v
          BY DEF Calling
        <4> HIDE DEF c
        <4> QED
          BY <1>3, <2>1, <3>1, <4>1 DEF Mishandled, OfNoElements
      <3>3. memory' \in Whole([z EXCEPT ![v] = s]) /\ [z EXCEPT ![v] = s] \in Sizes
        <4> HIDE DEF z
        <4> QED
          BY <1>2, <2>1, <2>2, <3>1, <3>2, InsertWhole
      <3> HIDE DEF s
      <3> QED
        BY <1>1, <2>1, <3>3, SoundStep
    <2> QED
      BY <1>9, <1>18, <2>1, <2>2 DEF InsertRange, MakesWithin, Throws
  <1>19. ASSUME NEW v \in living, NEW pos \in 0 .. N, NEW count \in 0 .. N, Erase(v, pos, count)
         PROVE  Kept
    <2> DEFINE s == z[v] - count
    <2> DEFINE c == Calling("erase", v, v, pos, count, <<>>)
    <2>0. /\ UNCHANGED living /\ v \in Vectors /\ pos + count <= z[v]
          /\ Makes(c, EraseRange(memory, v, pos, count))
      BY <1>1, <1>19 DEF Erase
    <2>2. pos \in Nat /\ count \in Nat
      BY CapacityAssumption
    <2>1. /\ UNCHANGED living /\ v \in Vectors /\ memory' = EraseRange(memory, v, pos, count)
          /\ pos + count <= z[v] /\ (count # 0 \/ pos = z[v])
      <3>1. memory' = EraseRange(memory, v, pos, count) /\ ~Mishandled(c)
        BY <1>4, <2>0
      <3>2. c.op = "erase" /\ c.count = count /\ c.pos = pos /\ c.vector = v
        BY DEF Calling
      <3> HIDE DEF c
      <3>3. count # 0 \/ pos = z[v]
        BY <1>3, <2>0, <2>2, <3>1, <3>2 DEF Mishandled, OfNoElements
      <3> QED
        BY <2>0, <3>1, <3>3
    <2>3. memory' \in Whole([z EXCEPT ![v] = s]) /\ [z EXCEPT ![v] = s] \in Sizes
      <3> HIDE DEF z
      <3> QED
        BY <1>2, <2>1, <2>2, EraseWhole
    <2> HIDE DEF s
    <2> QED
      BY <1>1, <2>1, <2>3, SoundStep
  <1>20. ASSUME NEW v \in living, NEW count \in 0 .. N + 1, NEW value \in Values,
                ResizeTo(v, count, value)
         PROVE  Kept
    <2>1. UNCHANGED living /\ v \in Vectors /\ value \in Objects
      BY <1>1, <1>20, ValuesAssumption DEF ResizeTo, Objects, Contained, Free
    <2>2. CASE z[v] + count <= N /\ memory' = Resize(memory, v, count, value)
      <3>1. count \in 0 .. N
        BY <1>3, <2>1, <2>2, CapacityAssumption
      <3>2. memory' \in Whole([z EXCEPT ![v] = count]) /\ [z EXCEPT ![v] = count] \in Sizes
        <4> HIDE DEF z
        <4> QED
          BY <1>2, <2>1, <2>2, <3>1, ResizeWhole
      <3> QED
        BY <1>1, <2>1, <3>2, SoundStep
    <2> QED
      BY <1>9, <1>20, <2>1, <2>2 DEF ResizeTo, MakesWithin, Makes, Throws
  <1>21. ASSUME NEW v \in living, NEW pos \in 0 .. N, NEW i \in Slots, InsertOwn(v, pos, i)
         PROVE  Kept
    <2> DEFINE s == z[v] + 1
               value == memory.slots[v][i]
               c == Calling("insert own", v, v, pos, i, <<value>>)
    <2>1. /\ UNCHANGED living /\ v \in Vectors /\ pos <= z[v] /\ i < z[v]
          /\ pos \in Nat /\ i \in Nat
      <3>1. pos \in Nat /\ i \in Nat /\ v \in Vectors
        BY <1>1, CapacityAssumption DEF Slots
      <3>2. UNCHANGED living /\ pos <= z[v] /\ i < z[v]
        BY <1>21 DEF InsertOwn
      <3> QED
        BY <3>1, <3>2
    <2>2. CASE s <= N /\ Makes(c, InsertElement(memory, v, pos, i))
      <3>1. memory' = InsertElement(memory, v, pos, i) /\ ~Mishandled(c)
        BY <1>4, <2>2
      <3>2. pos \in 0 .. z[v] /\ i < pos
        <4>1. c.op = "insert own" /\ c.count = i /\ c.pos = pos /\ c.vector = v
          BY DEF Calling
        <4> HIDE DEF c
        <4>2. ~(pos < z[v] /\ i >= pos)
          BY <3>1, <4>1 DEF Mishandled
        <4>3. z[v] \in Nat
          BY <1>3, <2>1
        <4> HIDE DEF z
        <4> QED
          BY <2>1, <4>2, <4>3
      <3>3. memory' \in Whole([z EXCEPT ![v] = s]) /\ [z EXCEPT ![v] = s] \in Sizes
        <4> HIDE DEF z, c
        <4> QED
          BY <1>2, <2>1, <2>2, <3>1, <3>2, InsertElementWhole
      <3> HIDE DEF s
      <3> QED
        BY <1>1, <2>1, <3>3, SoundStep
    <2> QED
      BY <1>9, <1>21, <2>1, <2>2 DEF InsertOwn, MakesWithin, Throws
  <1> HIDE DEF Kept
  <1>22. ASSUME NEW v \in living, Member(v) PROVE Kept
    BY <1>8, <1>10, <1>11, <1>12, <1>13, <1>14, <1>15, <1>16, <1>17, <1>18, <1>19, <1>20, <1>21,
       <1>22 DEF Member
  <1>23. ASSUME Construction PROVE Kept
    BY <1>5, <1>6, <1>7, <1>23 DEF Construction
  <1>24. Kept
    BY <1>22, <1>23
  <1> QED
    BY <1>24 DEF Kept

LEMMA SoundNext ==
  ASSUME VectorInv, [Next]_vars
  PROVE  VectorInv'
  <1>1. unsound \/ (living \in SUBSET Vectors /\ Sound(memory, living))
    BY InvIsSound
  <1>2. (VectorInv <=> unsound \/ (living \in SUBSET Vectors /\ Sound(memory, living)))'
    BY InvIsSound, PTL
  <1>3. CASE UNCHANGED vars
    BY <1>1, <1>2, <1>3 DEF vars
  <1>4. CASE unsound'
    BY <1>2, <1>4
  <1>5. CASE ~unsound' /\ Next
    <2>1. CASE Undefined
      BY <1>3, <2>1 DEF Undefined
    <2>2. CASE ~unsound /\ (Construction \/ \E v \in living : Member(v))
      <3>1. Sound(memory', living') /\ living' \in SUBSET Vectors
        BY <1>1, <1>5, <2>2, SoundCall
      <3> QED
        BY <1>2, <3>1
    <2> QED
      BY <1>5, <2>1, <2>2 DEF Next
  <1> QED
    BY <1>3, <1>4, <1>5

\* As long as no call was mishandled, every vector holds objects in the slots below
\* its size and in no other slot, but for the abandoned ones, also the vectors that
\* have been destroyed, moved from or swapped (tl_static_vector.h).
THEOREM VectorInvariant == Spec => []VectorInv
  <1>1. VectorInv /\ [Next]_vars => VectorInv'
    BY SoundNext
  <1> QED
    BY <1>1, SoundInit, PTL DEF Spec

\* In any order of calls of any capacity: no call constructs over a living object or
\* destroys or reads where none lives, and the elements are the objects that live and
\* were not abandoned by a move; unless an empty range was inserted or erased before
\* the end, or an own element inserted from behind its place.
THEOREM ObjectsAreTheElements == Spec => []ElementsLive
  <1>1. VectorInv => ElementsLive
    BY DEF VectorInv, ElementsLive
  <1> QED
    BY <1>1, VectorInvariant, PTL
================================================================================
