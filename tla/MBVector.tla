------------------------------ MODULE MBVector ------------------------------
(***************************************************************************)
(* MBUtility::MBVector (MBVector.h): a vector that keeps up to BufferSize  *)
(* elements in the object itself and more of them in a block from the      *)
(* allocator.  A slot of memory holds a value or is Raw, that is, without  *)
(* an object in it; element number i of the code is in slot i + 1.         *)
(***************************************************************************)
EXTENDS Naturals, Sequences

CONSTANTS
  Vectors,      \* the vectors of the program
  Param,        \* the parameter of operator=, a vector that lives for a call
  Blocks,       \* what the allocator can hand out
  Null,         \* no block
  Values,       \* the values of an element
  Default,      \* the value of T()
  Raw,          \* what is in a slot without an object
  Gone,         \* the list of a vector that does not exist
  BufferSizes,  \* the sizes of the preallocated buffer considered
  Lists,        \* the initializer lists used
  MaxSize,      \* bound on the size of a vector
  IndexWidth,   \* the number of bits of IndexType
  Debug         \* the values of the template parameter Debug

ASSUME VectorAssumption ==
  /\ Default \in Values /\ Raw \notin Values /\ Gone \notin Seq(Values)
  /\ Param \notin Vectors /\ Null \notin Blocks
  /\ Blocks \cap (Vectors \cup {Param}) = {} /\ Null \notin Vectors \cup {Param}
  /\ BufferSizes \subseteq Nat /\ MaxSize \in Nat /\ Debug \subseteq BOOLEAN
  /\ Lists \subseteq Seq(Values) /\ \A list \in Lists : Len(list) <= MaxSize

\* The number of values of IndexType, an unsigned type.
IndexRange == 2^IndexWidth

\* IndexType can count the slots a vector of MaxSize elements may ask for.
ASSUME IndexAssumption ==
  IndexWidth \in Nat /\ IndexRange \in Nat /\ 2 * MaxSize < IndexRange

GrowthFactor == 2

Objects == Vectors \cup {Param}
Larger(m, n) == IF m > n THEN m ELSE n

VARIABLES
  type,    \* the type's BufferSize and Debug, and whether T is trivially copyable
  s,       \* the vectors and the memory
  pending  \* what a call in progress has still to push, per vector

vars == <<type, s, pending>>

(***************************************************************************)
(* Memory.  Operators take and return a state t of the vectors.            *)
(***************************************************************************)

Faulty(t, right) == IF t.fault = "none" /\ ~right THEN "storage" ELSE t.fault

\* Placement new of the values f, by slot, in the memory at a.
Construct(t, a, f) ==
  LET right == \A i \in DOMAIN f : /\ i \in DOMAIN t.memory[a]
                                   /\ type.trivial \/ t.memory[a][i] = Raw
  IN [t EXCEPT !.memory[a] = [i \in DOMAIN @ |-> IF i \in DOMAIN f THEN f[i] ELSE @[i]],
               !.fault = Faulty(t, right)]

\* The destructor of the elements in slots of the memory at a.
DestroySlots(t, a, slots) ==
  LET right == \A i \in slots : i \in DOMAIN t.memory[a] /\ t.memory[a][i] # Raw
  IN IF type.trivial THEN t
     ELSE [t EXCEPT !.memory[a] = [i \in DOMAIN @ |-> IF i \in slots THEN Raw ELSE @[i]],
                    !.fault = Faulty(t, right)]

Contents(t, a, slots) ==
  [i \in slots |-> IF i \in DOMAIN t.memory[a] THEN t.memory[a][i] ELSE Raw]

\* Elements are moved to the same slots elsewhere and destroyed.
MoveSlots(t, from, to, slots) ==
  DestroySlots(Construct(t, to, Contents(t, from, slots)), from, slots)

ExchangeSlots(t, a, b, slots) ==
  [t EXCEPT !.memory[a] = [i \in DOMAIN @ |-> IF i \in slots THEN t.memory[b][i] ELSE @[i]],
            !.memory[b] = [i \in DOMAIN @ |-> IF i \in slots THEN t.memory[a][i] ELSE @[i]]]

Allocate(t, block, n) == [t EXCEPT !.memory[block] = [i \in 1..n |-> Raw]]

\* The block goes back whole, with no element left in it.
Deallocate(t, block, n) ==
  LET right == /\ Len(t.memory[block]) = n
               /\ type.trivial \/ \A i \in 1..n : t.memory[block][i] = Raw
  IN [t EXCEPT !.memory[block] = <<>>, !.fault = Faulty(t, right)]

\* Mutant of IsDynamic: the size alone tells which buffer is used.
IsDynamicBySize(t, v) == type.BufferSize = 0 \/ t.m_Size[v] > type.BufferSize

\* p_IsDynamic: whether p_Data is the block rather than the preallocated buffer.
IsDynamic(t, v) ==
  \/ type.BufferSize = 0
  \/ t.m_Size[v] > type.BufferSize
  \/ t.m_DynamicBuffer[v] # Null

Data(t, v) == IF IsDynamic(t, v) THEN t.m_DynamicBuffer[v] ELSE v

Grows(t, v, n) == n > t.m_Capacity[v]

\* Mutant of Reserve: the block is freed after the new one has replaced it.
ReserveFreesLate(t, v, n, block) ==
  LET size  == Larger(t.m_Capacity[v] * GrowthFactor, n * 2)
      moved == MoveSlots(Allocate(t, block, size), Data(t, v), block, 1..t.m_Size[v])
      grown == [moved EXCEPT !.m_DynamicBuffer[v] = block]
  IN IF ~Grows(t, v, n) THEN t
     ELSE [Deallocate(grown, block, t.m_Capacity[v]) EXCEPT !.m_Capacity[v] = size]

\* block is the one the allocator returns.
Reserve(t, v, n, block) ==
  LET size  == Larger(t.m_Capacity[v] * GrowthFactor, n * 2) % IndexRange
      moved == MoveSlots(Allocate(t, block, size), Data(t, v), block, 1..t.m_Size[v])
      freed == IF IsDynamic(t, v) THEN Deallocate(moved, Data(t, v), t.m_Capacity[v])
                                  ELSE moved
  IN IF Grows(t, v, n)
     THEN [freed EXCEPT !.m_DynamicBuffer[v] = block, !.m_Capacity[v] = size]
     ELSE t

\* The elements as v holds them.
Elements(t, v) == Contents(t, Data(t, v), 1..t.m_Size[v])

\* With Debug a vector keeps its elements twice, sets the second copy to list
\* and asserts that they agree.
DebugIs(t, v, list) ==
  IF ~type.debug THEN t
  ELSE [t EXCEPT !.DebugVector[v] = list,
                 !.fault = IF @ = "none" /\ list # Elements(t, v) THEN "assertion" ELSE @]

\* Reserves and sets the size, then constructs the values f in slots of v.
Extend(t, v, n, f, block) ==
  LET sized == [Reserve(t, v, n, block) EXCEPT !.m_Size[v] = n]
  IN Construct(sized, Data(sized, v), f)

EmplaceBack(t, v, x, block) ==
  LET n == t.m_Size[v] + 1
      t2 == Extend(t, v, n, [i \in {n} |-> x], block)
  IN DebugIs(t2, v, Append(t.DebugVector[v], x))

\* The preallocated buffers of v and w for a swap: elements in both of them are
\* exchanged, elements in one of them move to the other.
SwapInPlace(t, v, w) ==
  LET small == IF t.m_Size[v] < t.m_Size[w] THEN v ELSE w
      large == IF small = v THEN w ELSE v
      inner == IF IsDynamic(t, v) THEN w ELSE v
      outer == IF inner = v THEN w ELSE v
  IN IF IsDynamic(t, v) /\ IsDynamic(t, w) THEN t
     ELSE IF IsDynamic(t, v) \/ IsDynamic(t, w)
     THEN MoveSlots(t, inner, outer, 1..t.m_Size[inner])
     ELSE MoveSlots(ExchangeSlots(t, small, large, 1..t.m_Size[small]),
                    large, small, (t.m_Size[small] + 1)..t.m_Size[large])

Exchanged(f, v, w) == [f EXCEPT ![v] = f[w], ![w] = f[v]]

\* Blocks go from one vector to the other.
Swap(t, v, w) ==
  [SwapInPlace(t, v, w) EXCEPT !.m_DynamicBuffer = Exchanged(@, v, w),
                               !.m_Capacity = Exchanged(@, v, w),
                               !.m_Size = Exchanged(@, v, w),
                               !.DebugVector = Exchanged(@, v, w)]

\* The default constructor, and the destructor.
Make(t, v) ==
  [t EXCEPT !.alive = @ \cup {v},
            !.m_Size[v] = 0, !.m_Capacity[v] = type.BufferSize,
            !.m_DynamicBuffer[v] = Null, !.DebugVector[v] = <<>>,
            !.memory[v] = [i \in 1..type.BufferSize |-> Raw]]

Unmake(t, v) ==
  LET empty == DestroySlots(t, Data(t, v), 1..t.m_Size[v])
      freed == IF IsDynamic(t, v) THEN Deallocate(empty, Data(t, v), t.m_Capacity[v])
                                  ELSE empty
  IN [freed EXCEPT !.alive = @ \ {v}, !.memory[v] = <<>>, !.DebugVector[v] = <<>>,
                   !.m_Size[v] = 0, !.m_Capacity[v] = 0, !.m_DynamicBuffer[v] = Null]

MakeCount(t, v, n, x, block) ==
  LET values == [i \in 1..n |-> x]
  IN DebugIs(Extend(Make(t, v), v, n, values, block), v, values)

\* The second copy is not made of trivially copyable elements.
MakeCopy(t, v, w, block) ==
  LET copy == Extend(Make(t, v), v, t.m_Size[w], Elements(t, w), block)
  IN DebugIs(copy, v, IF type.trivial THEN <<>> ELSE Elements(t, w))

MakeMoved(t, v, w) ==
  LET moved == Swap(Make(t, v), w, v) IN DebugIs(moved, v, moved.DebugVector[v])

\* operator= with its parameter, which it destroys.
AssignParam(t, v) ==
  LET swapped == Swap(t, v, Param)
  IN Unmake(DebugIs(swapped, v, swapped.DebugVector[v]), Param)

(***************************************************************************)
(* The operations.  A call that pushes several elements does so one after  *)
(* the other; no other call is made until it is done.                      *)
(***************************************************************************)

Idle == s.fault = "none" /\ \A v \in Vectors : pending[v] = <<>>

Exists(v) == v \in s.alive
Free == {block \in Blocks : s.memory[block] = <<>>}

Calls(t) == Idle /\ s' = t /\ UNCHANGED <<type, pending>>
CallsAndPushes(t, v, values) ==
  Idle /\ s' = t /\ pending' = [pending EXCEPT ![v] = values] /\ UNCHANGED type

Construct0(v) == ~Exists(v) /\ Calls(Make(s, v))

ConstructList(v, list, block) ==
  ~Exists(v) /\ CallsAndPushes(Reserve(Make(s, v), v, Len(list), block), v, list)

ConstructCount(v, n, x, block) ==
  ~Exists(v) /\ Calls(MakeCount(s, v, n, x, block))

ConstructCopy(v, w, block) == ~Exists(v) /\ Exists(w) /\ Calls(MakeCopy(s, v, w, block))

ConstructMoved(v, w) == ~Exists(v) /\ Exists(w) /\ Calls(MakeMoved(s, v, w))

AssignCopy(v, w, block) ==
  Exists(v) /\ Exists(w) /\ Calls(AssignParam(MakeCopy(s, Param, w, block), v))

AssignMoved(v, w) ==
  Exists(v) /\ Exists(w) /\ Calls(AssignParam(MakeMoved(s, Param, w), v))

\* Also emplace_back of arguments that are not in the vector.
PushBack(v, x, block) ==
  Exists(v) /\ s.m_Size[v] < MaxSize /\ Calls(EmplaceBack(s, v, x, block))

\* emplace_back(v[i]) refers to the element while the vector grows.  What it
\* refers to is then gone, unless it is in the preallocated buffer and stays
\* there because it was copied with memcpy.
EmplaceOwn(v, i, block) ==
  LET dangling == /\ Grows(s, v, s.m_Size[v] + 1)
                  /\ ~type.trivial \/ IsDynamic(s, v)
      t == EmplaceBack(s, v, Elements(s, v)[i], block)
  IN /\ Exists(v) /\ i <= s.m_Size[v] /\ s.m_Size[v] < MaxSize
     /\ Calls([t EXCEPT !.fault = IF dangling THEN "dangling" ELSE @])

PushNext(v, block) ==
  /\ s.fault = "none" /\ pending[v] # <<>>
  /\ s' = EmplaceBack(s, v, Head(pending[v]), block)
  /\ pending' = [pending EXCEPT ![v] = Tail(@)]
  /\ UNCHANGED type

\* Also pop_back.
Shrink(v, n) ==
  LET cut == DestroySlots(s, Data(s, v), (n + 1)..s.m_Size[v])
      kept == [i \in 1..n |-> IF i <= Len(s.DebugVector[v]) THEN s.DebugVector[v][i]
                              ELSE Default]
  IN Exists(v) /\ n <= s.m_Size[v] /\ Calls(DebugIs([cut EXCEPT !.m_Size[v] = n], v, kept))

Enlarge(v, n) ==
  /\ Exists(v) /\ n > s.m_Size[v]
  /\ CallsAndPushes(s, v, [i \in 1..(n - s.m_Size[v]) |-> Default])

\* With Debug the function compares the vector with an element.
Reserves(v, n, block) == Exists(v) /\ ~type.debug /\ Calls(Reserve(s, v, n, block))

\* The loop destroys the first element as often as there are elements, and
\* the second copy with Debug stays as it is.
Clear(v) ==
  LET cut == DestroySlots(s, Data(s, v), 1..s.m_Size[v] \cap {1})
      twice == ~type.trivial /\ s.m_Size[v] > 1
  IN Exists(v) /\ Calls([cut EXCEPT !.m_Size[v] = 0, !.fault = IF twice THEN "twice" ELSE @])

Destruct(v) == Exists(v) /\ Calls(Unmake(s, v))

Init ==
  /\ type \in [BufferSize : BufferSizes, trivial : BOOLEAN, debug : Debug]
  /\ s = [alive |-> {}, fault |-> "none",
          m_Size |-> [v \in Objects |-> 0], m_Capacity |-> [v \in Objects |-> 0],
          m_DynamicBuffer |-> [v \in Objects |-> Null],
          DebugVector |-> [v \in Objects |-> <<>>],
          memory |-> [a \in Objects \cup Blocks \cup {Null} |-> <<>>]]
  /\ pending = [v \in Vectors |-> <<>>]

Next ==
  \E v \in Vectors :
    \/ Construct0(v)
    \/ Destruct(v)
    \/ Clear(v)
    \/ \E n \in 0..MaxSize : Shrink(v, n) \/ Enlarge(v, n)
    \/ \E w \in Vectors : ConstructMoved(v, w) \/ AssignMoved(v, w)
    \/ \E block \in Free :
         \/ \E list \in Lists : ConstructList(v, list, block)
         \/ \E n \in 0..MaxSize :
              \/ \E x \in Values : ConstructCount(v, n, x, block)
              \/ Reserves(v, n, block)
         \/ \E w \in Vectors : ConstructCopy(v, w, block) \/ AssignCopy(v, w, block)
         \/ \E x \in Values : PushBack(v, x, block)
         \/ \E i \in 1..MaxSize : EmplaceOwn(v, i, block)
         \/ PushNext(v, block)

Spec == Init /\ [][Next]_vars

(***************************************************************************)
(* Properties                                                              *)
(***************************************************************************)

\* The elements are where p_Data says, and are all that is there.
ElementsInPlace(v) ==
  LET n == s.m_Size[v]  a == Data(s, v)
  IN /\ n <= s.m_Capacity[v]
     /\ Len(s.memory[a]) = s.m_Capacity[v]
     /\ \A i \in DOMAIN s.memory[a] :
          (i <= n => s.memory[a][i] \in Values) /\ (i > n => type.trivial \/ s.memory[a][i] = Raw)
     /\ a # v /\ ~type.trivial => \A i \in DOMAIN s.memory[v] : s.memory[v][i] = Raw

\* Each block that is allocated belongs to one vector.
BlocksOwned ==
  \A block \in Blocks :
    LET owners == {v \in s.alive : s.m_DynamicBuffer[v] = block}
    IN IF block \in Free THEN owners = {} ELSE \E v \in owners : owners = {v}

\* Growing, swapping and destroying keep exactly the elements of each vector
\* alive: none is constructed over another, destroyed twice, left behind or
\* beyond the memory, whichever buffers the vectors use, and blocks neither
\* leak nor are shared nor freed twice.  Two operations are excepted: clear of
\* several elements, which destroys the first one repeatedly, and emplace_back
\* of an element of the vector as it grows.
StorageOK ==
  /\ s.fault # "storage"
  /\ s.fault = "none" => BlocksOwned /\ \A v \in s.alive : ElementsInPlace(v)

\* The vector's own assertions with Debug (p_AssertDebug, push_back) hold.
AssertionsHold == s.fault # "assertion"

\* The elements of v, with those a call is about to push.
ListOf(v) ==
  IF Exists(v) THEN Elements(s, v) \o pending[v]
  ELSE Gone

\* Copying, moving, assigning (also from itself), growing and shrinking do
\* what they do on lists of values, and change no other vector.
List == INSTANCE ValueLists WITH lists <- [v \in Vectors |-> ListOf(v)]
ImplementsLists == List!Spec
=============================================================================
