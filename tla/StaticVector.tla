----------------------------- MODULE StaticVector -----------------------------
(***************************************************************************)
(* base/internal/tiny_lib/tl_static_vector.h: a vector whose elements live *)
(* in a raw storage inside of the vector.  An element is constructed in a  *)
(* slot and destroyed there by hand, so the model follows the life of the  *)
(* object of every slot, loop by loop, next to the values.                 *)
(*                                                                         *)
(* A memory m is the storage and the size of all vectors, and whether an   *)
(* object was constructed over a living one, or destroyed or read where    *)
(* none lives (wrong).                                                     *)
(*                                                                         *)
(* Some calls go wrong by what the code does: they are steps like any      *)
(* other, and unsound tells that one of them was made.                     *)
(***************************************************************************)
EXTENDS Integers, Sequences, FiniteSets, SequencesExt

CONSTANTS
    N,           (* static_capacity                                        *)
    Vectors,
    Values,      (* the values of elements, that of T() among them         *)
    Moved,       (* what remains in an object that was moved from          *)
    Raw,         (* a slot without an object                               *)
    Abandoned,   (* a slot whose object was moved from and is forgotten: it *)
                 (* was not destroyed, and never will be                   *)
    MaxRange     (* bound: how many elements a call is given               *)

ASSUME CapacityAssumption == N \in Nat \ {0}
ASSUME ValuesAssumption ==
    /\ Moved \notin Values /\ Raw \notin Values \union {Moved}
    /\ Abandoned \notin Values \union {Moved, Raw}
ASSUME BoundsAssumption == MaxRange \in Nat

VARIABLES
    memory, (* the vectors                                                 *)
    living, (* those between construction and destruction                  *)
    call,   (* history: the last call, and whether it threw                *)
    unsound (* history: whether a call was made that the code gets wrong   *)

vars == <<memory, living, call, unsound>>

Slots == 0 .. N - 1

(* Where an element may be constructed. Over an abandoned object it may be *)
(* too: its storage is reused, and its destructor never runs.              *)
Free == {Raw, Abandoned}

-------------------------------------------------------------------------------
(* Objects in slots.                                                       *)

Construct(m, v, i, value) ==
    [m EXCEPT !.slots[v][i] = value,
              !.wrong = @ \/ m.slots[v][i] \notin Free \/ value \in Free]

DestroyElement(m, v, i) ==
    [m EXCEPT !.slots[v][i] = Raw, !.wrong = @ \/ m.slots[v][i] \in Free]

(* new (target) T(std::move(source)) *)
MoveConstruct(m, w, source, v, target) ==
    Construct([m EXCEPT !.slots[w][source] = Moved], v, target, m.slots[w][source])

Relocate(m, w, source, v, target) ==
    DestroyElement(MoveConstruct(m, w, source, v, target), w, source)

(* The loops: a step for every index from first to last, or back again. *)
Upwards(m, first, last, Step(_, _)) ==
    FoldLeft(Step, m, [k \in 1 .. last - first + 1 |-> first + k - 1])

Downwards(m, last, first, Step(_, _)) ==
    FoldLeft(Step, m, [k \in 1 .. last - first + 1 |-> last - k + 1])

DestroyRange(m, v, first, last) ==
    Upwards(m, first, last, LAMBDA n, i : DestroyElement(n, v, i))

ConstructRange(m, v, first, values) ==
    Upwards(m, 1, Len(values), LAMBDA n, k : Construct(n, v, first + k - 1, values[k]))

Resized(m, v, size) == [m EXCEPT !.size[v] = size]

(* The elements, as a reader of the vector gets them. *)
Contents(m, v) == [k \in 1 .. m.size[v] |-> m.slots[v][k - 1]]

-------------------------------------------------------------------------------
(* The member functions.                                                   *)

Clear(m, v) == Resized(DestroyRange(m, v, 0, m.size[v] - 1), v, 0)

Assign(m, v, values) ==
    Resized(ConstructRange(Clear(m, v), v, 0, values), v, Len(values))

(* Every element is moved; then ResetOnMove sets the size to zero and      *)
(* destroys nothing: what is left of the elements is abandoned.            *)
Take(m, v, w) ==
    LET MoveElement(n, i) == MoveConstruct(n, w, i, v, i)
        taken == Upwards(m, 0, m.size[w] - 1, MoveElement)
        left == [i \in Slots |-> IF i < m.size[w] THEN Abandoned ELSE m.slots[w][i]]
    IN  [Resized(Resized(taken, v, m.size[w]), w, 0) EXCEPT !.slots[w] = left]

PushBack(m, v, value) ==
    Resized(Construct(m, v, m.size[v], value), v, m.size[v] + 1)

PopBack(m, v) ==
    Resized(DestroyElement(m, v, m.size[v] - 1), v, m.size[v] - 1)

(* Mutant: from the front, over elements that are still to be moved. *)
MoveElementsForward(m, v, index, count) ==
    LET Back(n, i) == Relocate(n, v, i, v, i + count)
    IN  Resized(Upwards(m, index, m.size[v] - 1, Back), v, m.size[v] + count)

MoveElementsBack(m, v, index, count) ==
    LET Back(n, i) == Relocate(n, v, i, v, i + count)
    IN  Resized(Downwards(m, m.size[v] - 1, index, Back), v, m.size[v] + count)

Insert(m, v, pos, values) ==
    IF pos = m.size[v]
    THEN FoldLeft(LAMBDA n, value : PushBack(n, v, value), m, values)
    ELSE ConstructRange(MoveElementsBack(m, v, pos, Len(values)), v, pos, values)

(* insert(pos, vector[i]): the reference to the element is only read after *)
(* the elements were moved away from under it.                             *)
InsertElement(m, v, pos, i) ==
    LET back == MoveElementsBack(m, v, pos, 1)
    IN  IF pos = m.size[v] THEN PushBack(m, v, m.slots[v][i])
        ELSE Construct(back, v, pos, back.slots[v][i])

(* Mutant: one element less is moved. *)
EraseShort(m, v, first, count) ==
    LET destroyed == DestroyRange(m, v, first, first + count - 1)
        Forth(n, i) == Relocate(n, v, i, v, i - count)
        moved == Upwards(destroyed, first + count, m.size[v] - 2, Forth)
    IN  Resized(IF first + count = m.size[v] THEN destroyed ELSE moved,
                v, m.size[v] - count)

EraseRange(m, v, first, count) ==
    LET destroyed == DestroyRange(m, v, first, first + count - 1)
        Forth(n, i) == Relocate(n, v, i, v, i - count)
        moved == Upwards(destroyed, first + count, m.size[v] - 1, Forth)
    IN  Resized(IF first + count = m.size[v] THEN destroyed ELSE moved,
                v, m.size[v] - count)

Resize(m, v, count, value) ==
    LET added == [k \in 1 .. count - m.size[v] |-> value]
    IN  Resized(IF m.size[v] < count THEN ConstructRange(m, v, m.size[v], added)
                ELSE DestroyRange(m, v, count, m.size[v] - 1),
                v, count)

(* One element of the smaller vector, through a temporary object. *)
SwapElement(m, v, w, i) ==
    [m EXCEPT !.slots = [m.slots EXCEPT ![v][i] = m.slots[w][i], ![w][i] = m.slots[v][i]],
              !.wrong = @ \/ m.slots[v][i] \in Free \/ m.slots[w][i] \in Free]

Swap(m, v, w) ==
    LET small == IF m.size[v] > m.size[w] THEN w ELSE v
        large == IF m.size[v] > m.size[w] THEN v ELSE w
        common == Upwards(m, 0, m.size[small] - 1,
                          LAMBDA n, i : SwapElement(n, v, w, i))
        rest == Upwards(common, m.size[small], m.size[large] - 1,
                        LAMBDA n, i : Relocate(n, large, i, small, i))
    IN  Resized(Resized(rest, v, m.size[w]), w, m.size[v])

(* What is in the source is assigned to the object in the target. *)
MoveAssign(m, v, source, target) ==
    [m EXCEPT !.slots[v] = [m.slots[v] EXCEPT ![target] = m.slots[v][source],
                                              ![source] = Moved],
              !.wrong = @ \/ m.slots[v][source] \in Free \/ m.slots[v][target] \in Free]

(* How many elements before index i are not the value. *)
KeptBefore(m, v, i, value) == Cardinality({j \in 0 .. i - 1 : m.slots[v][j] # value})

(* std::remove_if: what is kept moves to behind what was kept before it,   *)
(* unless it is there already.                                             *)
RemoveIf(m, v, value) ==
    LET Keep(n, i) ==
            LET target == KeptBefore(m, v, i, value)
            IN  IF m.slots[v][i] = value \/ target = i THEN n
                ELSE MoveAssign(n, v, i, target)
    IN  Upwards(m, 0, m.size[v] - 1, Keep)

(* erase_if: from the end of what was kept to the end. *)
EraseIf(m, v, value) ==
    LET kept == KeptBefore(m, v, m.size[v], value)
    IN  EraseRange(RemoveIf(m, v, value), v, kept, m.size[v] - kept)

-------------------------------------------------------------------------------
(* Calls. One that finds a size too large throws std::length_error before  *)
(* it has changed anything.                                                *)

Ranges == UNION {[1 .. n -> Values] : n \in 0 .. MaxRange}

OfNoElements(c) ==
    \/ c.op = "insert" /\ c.values = <<>>
    \/ c.op = "erase" /\ c.count = 0

(* Before the end, an insertion or an erasure of no elements constructs    *)
(* every element behind its place over itself and destroys it, and the     *)
(* insertion of an own element from there reads where it was.              *)
Mishandled(c) ==
    /\ c.pos < memory.size[c.vector]
    /\ \/ OfNoElements(c)
       \/ c.op = "insert own" /\ c.count >= c.pos

Makes(c, m) ==
    /\ memory' = m
    /\ call' = [c EXCEPT !.threw = FALSE]
    /\ unsound' = (unsound \/ Mishandled(c))

Throws(c) == UNCHANGED <<memory, unsound>> /\ call' = [c EXCEPT !.threw = TRUE]

(* A call c which throws if the size it computes is more than N. *)
MakesWithin(c, size, m) ==
    \/ size <= N /\ Makes(c, m)
    \/ size > N /\ Throws(c)

Calling(op, v, w, pos, count, values) ==
    [op |-> op, vector |-> v, other |-> w, pos |-> pos, count |-> count,
     values |-> values, threw |-> FALSE]

Of(op, v) == Calling(op, v, v, 0, 0, <<>>)

Init ==
    /\ memory = [slots |-> [v \in Vectors |-> [i \in Slots |-> Raw]],
                 size |-> [v \in Vectors |-> 0], wrong |-> FALSE]
    /\ living = {}
    /\ \E v \in Vectors : call = Of("none", v)
    /\ unsound = FALSE

ConstructOf(v, values) ==
    /\ v \notin living
    /\ Len(values) <= N
    /\ living' = living \union {v}
    /\ Makes(Calling("assign", v, v, 0, 0, values),
             Resized(ConstructRange(memory, v, 0, values), v, Len(values)))

ConstructCopy(v, w) ==
    /\ v \notin living
    /\ living' = living \union {v}
    /\ Makes(Calling("copy", v, w, 0, 0, <<>>),
             Resized(ConstructRange(memory, v, 0, Contents(memory, w)), v, memory.size[w]))

ConstructMove(v, w) ==
    /\ v \notin living
    /\ living' = living \union {v}
    /\ Makes(Calling("move", v, w, 0, 0, <<>>), Take(memory, v, w))

Destruct(v) ==
    /\ living' = living \ {v}
    /\ Makes(Of("clear", v), Clear(memory, v))

ClearAll(v) == Makes(Of("clear", v), Clear(memory, v)) /\ UNCHANGED living

AssignRange(v, values) ==
    /\ UNCHANGED living
    /\ MakesWithin(Calling("assign", v, v, 0, 0, values), Len(values),
                   Assign(memory, v, values))

AssignCopy(v, w) ==
    /\ UNCHANGED living
    /\ Makes(Calling("copy", v, w, 0, 0, <<>>),
             IF v = w THEN memory ELSE Assign(memory, v, Contents(memory, w)))

AssignMove(v, w) ==
    /\ UNCHANGED living
    /\ Makes(Calling(IF v = w THEN "copy" ELSE "move", v, w, 0, 0, <<>>),
             IF v = w THEN memory ELSE Take(Clear(memory, v), v, w))

Push(v, value) ==
    /\ UNCHANGED living
    /\ MakesWithin(Calling("insert", v, v, memory.size[v], 0, <<value>>),
                   memory.size[v] + 1, PushBack(memory, v, value))

(* On an empty vector the behaviour is undefined. *)
Pop(v) ==
    /\ memory.size[v] > 0
    /\ UNCHANGED living
    /\ Makes(Calling("erase", v, v, memory.size[v] - 1, 1, <<>>), PopBack(memory, v))

InsertRange(v, pos, values) ==
    /\ pos <= memory.size[v]
    /\ UNCHANGED living
    /\ MakesWithin(Calling("insert", v, v, pos, 0, values),
                   memory.size[v] + Len(values), Insert(memory, v, pos, values))

(* For this call the count is the index of the element. *)
InsertOwn(v, pos, i) ==
    /\ pos <= memory.size[v] /\ i < memory.size[v]
    /\ UNCHANGED living
    /\ MakesWithin(Calling("insert own", v, v, pos, i, <<memory.slots[v][i]>>),
                   memory.size[v] + 1, InsertElement(memory, v, pos, i))

Erase(v, pos, count) ==
    /\ pos + count <= memory.size[v]
    /\ UNCHANGED living
    /\ Makes(Calling("erase", v, v, pos, count, <<>>), EraseRange(memory, v, pos, count))

(* The sum of both sizes is compared with the capacity. *)
ResizeTo(v, count, value) ==
    /\ UNCHANGED living
    /\ MakesWithin(Calling("resize", v, v, 0, count, <<value>>),
                   memory.size[v] + count, Resize(memory, v, count, value))

SwapWith(v, w) ==
    /\ UNCHANGED living
    /\ Makes(Calling("swap", v, w, 0, 0, <<>>), Swap(memory, v, w))

EraseAll(v, value) ==
    /\ UNCHANGED living
    /\ Makes(Calling("remove", v, v, 0, 0, <<value>>), EraseIf(memory, v, value))

Construction ==
    \E v \in Vectors :
        \/ \E values \in Ranges : ConstructOf(v, values)
        \/ \E w \in living : ConstructCopy(v, w) \/ ConstructMove(v, w)

Member(v) ==
    \/ Destruct(v) \/ ClearAll(v) \/ Pop(v)
    \/ \E values \in Ranges : AssignRange(v, values)
    \/ \E w \in living : AssignCopy(v, w) \/ AssignMove(v, w) \/ SwapWith(v, w)
    \/ \E value \in Values : Push(v, value) \/ EraseAll(v, value)
    \/ \E pos \in 0 .. N, values \in Ranges : InsertRange(v, pos, values)
    \/ \E pos \in 0 .. N, i \in Slots : InsertOwn(v, pos, i)
    \/ \E pos \in 0 .. N, count \in 0 .. N : Erase(v, pos, count)
    \/ \E count \in 0 .. N + 1, value \in Values : ResizeTo(v, count, value)

(* After a mishandled call the behaviour is undefined: it is not followed. *)
Undefined == unsound /\ UNCHANGED vars

Next ==
    \/ ~unsound /\ (Construction \/ \E v \in living : Member(v))
    \/ Undefined

Spec == Init /\ [][Next]_vars

(* No call tells one vector or one value from another. *)
Symmetry == Permutations(Vectors) \union Permutations(Values)

-------------------------------------------------------------------------------
(* What the vector promises.                                               *)

(* Until a mishandled call is made, no object is constructed over a living *)
(* one, destroyed twice or read where none lives, in any order of calls;   *)
(* and apart from those abandoned by a move, the objects that live are the *)
(* elements, which the destructor of the vector ends.                      *)
ElementsLive ==
    \/ unsound
    \/ /\ ~memory.wrong
       /\ \A v \in Vectors, i \in Slots :
             memory.slots[v][i] \notin Free <=> i < memory.size[v]

Contained == Values \union {Moved, Raw, Abandoned}

TypeOK ==
    /\ memory \in [slots : [Vectors -> [Slots -> Contained]],
                   size : [Vectors -> 0 .. N], wrong : BOOLEAN]
    /\ living \in SUBSET Vectors

(* Inductive: a vector that does not live is empty, so that it can be      *)
(* constructed over its slots.                                             *)
VectorInv ==
    \/ unsound
    \/ TypeOK /\ ElementsLive /\ \A v \in Vectors \ living : memory.size[v] = 0

(* What the call c of std::vector makes of the contents. *)
Promised(c, old) ==
    LET x == old[c.vector]
        y == old[c.other]
        removed == SelectSeq(x, LAMBDA e : e # c.values[1])
        resized == [k \in 1 .. c.count |-> IF k <= Len(x) THEN x[k] ELSE c.values[1]]
    IN  CASE c.op = "assign" -> [old EXCEPT ![c.vector] = c.values]
          [] c.op = "copy" -> [old EXCEPT ![c.vector] = y]
          [] c.op = "move" -> [old EXCEPT ![c.vector] = y, ![c.other] = <<>>]
          [] c.op = "clear" -> [old EXCEPT ![c.vector] = <<>>]
          [] c.op \in {"insert", "insert own"} -> [old EXCEPT ![c.vector] =
                 SubSeq(x, 1, c.pos) \o c.values \o SubSeq(x, c.pos + 1, Len(x))]
          [] c.op = "erase" -> [old EXCEPT ![c.vector] =
                 SubSeq(x, 1, c.pos) \o SubSeq(x, c.pos + c.count + 1, Len(x))]
          [] c.op = "resize" -> [old EXCEPT ![c.vector] = resized]
          [] c.op = "swap" -> [old EXCEPT ![c.vector] = y, ![c.other] = x]
          [] c.op = "remove" -> [old EXCEPT ![c.vector] = removed]

AllContents(m) == [v \in Vectors |-> Contents(m, v)]

(* Whether the call of std::vector would make more elements than fit. *)
TooLong(c, old) == \E v \in Vectors : Len(Promised(c, old)[v]) > N

(* resize compares the sum of the old size and the new one. *)
ThrowsTooSoon(c, old) == c.op = "resize" /\ Len(old[c.vector]) + c.count > N

(* Every call that is not mishandled does to the elements what std::vector *)
(* does ("StaticVector implements C++ std::vector API") and nothing to any *)
(* other vector; or it throws and has no effect, which happens only if the *)
(* result would not fit, or in a resize that adds the old size to the new. *)
CallsAsVector ==
    [][LET old == AllContents(memory)
       IN  \/ unsound'
           \/ ~call'.threw /\ AllContents(memory') = Promised(call', old)
           \/ /\ call'.threw
              /\ AllContents(memory') = old
              /\ TooLong(call', old) \/ ThrowsTooSoon(call', old)]_vars

-------------------------------------------------------------------------------
(* What the header says and the code does not do: TLC finds each of these  *)
(* violated.                                                               *)

(* "If an operation would result in size() > max_size(), an                *)
(* std::length_error exception is throw": and only then, as a resize to a  *)
(* size within the capacity results in that size.                          *)
ThrowsOnlyIfTooLong ==
    [][call'.threw => TooLong(call', AllContents(memory))]_vars

(* "If [first, last) is an empty range, then last is returned": nothing is *)
(* erased, and nothing inserted when no elements are given.                *)
EmptyRangesChangeNothing ==
    [][OfNoElements(call') => AllContents(memory') = AllContents(memory)]_vars

(* Like every std::vector, one that is destroyed has ended all objects it  *)
(* held.                                                                   *)
ObjectsEnd ==
    \A v \in Vectors \ living, i \in Slots : memory.slots[v][i] = Raw
===============================================================================
