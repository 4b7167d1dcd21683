---------------------------- MODULE VectorProofs ----------------------------
(***************************************************************************)
(* MBVector keeps its elements in order in memory and implements           *)
(* ValueLists, for any number of vectors, values and blocks, any sizes of  *)
(* the preallocated buffer and any kind of element.  The argument: between *)
(* calls the memory is in order, and each operator that a call is made of  *)
(* takes a state in order to another, in which it has changed the elements *)
(* of the vectors it is about and of no other.                             *)
(***************************************************************************)
EXTENDS MBVector, Integers, SequenceTheorems, TLAPS

Places == Objects \cup Blocks \cup {Null}

States ==
  [alive : SUBSET Objects, fault : {"none", "storage", "assertion", "dangling", "twice"},
   m_Size : [Objects -> Nat], m_Capacity : [Objects -> Nat],
   m_DynamicBuffer : [Objects -> Blocks \cup {Null}],
   DebugVector : [Objects -> Seq(Values)],
   memory : [Places -> Seq(Values \cup {Raw})]]

\* The memory at a has n elements at its beginning and nothing else.
Holds(t, a, n) ==
  \A i \in 1..Len(t.memory[a]) :
    (i <= n => t.memory[a][i] \in Values) /\ (i > n => type.trivial \/ t.memory[a][i] = Raw)

\* A vector has its preallocated buffer and perhaps a block, and there is room
\* for its elements in one of them.
Room(t, v) ==
  /\ t.m_Size[v] <= t.m_Capacity[v] /\ t.m_Size[v] <= MaxSize
  /\ Len(t.memory[v]) = type.BufferSize
  /\ IF t.m_DynamicBuffer[v] = Null THEN t.m_Capacity[v] = type.BufferSize
     ELSE /\ t.m_Capacity[v] > 0
          /\ Len(t.memory[t.m_DynamicBuffer[v]]) = t.m_Capacity[v]

InPlace(t, v) ==
  /\ Room(t, v)
  /\ Holds(t, Data(t, v), t.m_Size[v])
  /\ Data(t, v) # v => Holds(t, v, 0)

\* A block is in use exactly if it is the block of a vector, of one only.
Owned(t) ==
  /\ \A v, w \in t.alive :
       t.m_DynamicBuffer[v] = t.m_DynamicBuffer[w] /\ t.m_DynamicBuffer[v] # Null => v = w
  /\ \A block \in Blocks :
       t.memory[block] # <<>> => \E v \in t.alive : t.m_DynamicBuffer[v] = block
  /\ t.memory[Null] = <<>>

Good(t) ==
  /\ type.BufferSize \in Nat
  /\ t \in States /\ Owned(t) /\ \A v \in t.alive : InPlace(t, v)

TypeOK == type \in [BufferSize : BufferSizes, trivial : BOOLEAN, debug : Debug]

\* Unless the behaviour has ended with a fault, the memory is in order and there
\* is room for what is still to be pushed.
Fine(t, p) ==
  /\ p \in [Vectors -> Seq(Values)]
  /\ t.fault \in {"none", "assertion", "dangling", "twice"}
  /\ t.fault = "none" =>
       /\ Good(t) /\ Param \notin t.alive
       /\ \A v \in Vectors : p[v] # <<>> =>
            v \in t.alive /\ t.m_Size[v] + Len(p[v]) <= MaxSize

IInv == TypeOK /\ Fine(s, pending)


-----------------------------------------------------------------------------
(* The memory operators                                                    *)

\* Nothing but the memory differs.
SameVectors(r, t) ==
  /\ r.alive = t.alive /\ r.fault = t.fault /\ r.DebugVector = t.DebugVector
  /\ r.m_Size = t.m_Size /\ r.m_Capacity = t.m_Capacity
  /\ r.m_DynamicBuffer = t.m_DynamicBuffer

\* Nothing but what is in the slots of some places differs.
ChangedAt(r, t, places) ==
  /\ r \in States /\ SameVectors(r, t)
  /\ \A a \in Places \ places : r.memory[a] = t.memory[a]
  /\ \A a \in places : Len(r.memory[a]) = Len(t.memory[a])

Put(t, a, m) == [t EXCEPT !.memory[a] = m]

\* Nothing but the contents of one place differs.
Replaced(r, t, a, m) ==
  /\ r \in States /\ SameVectors(r, t) /\ r.memory[a] = m
  /\ \A b \in Places \ {a} : r.memory[b] = t.memory[b]

\* Other contents of one place.
LEMMA PutAny ==
  ASSUME NEW t \in States, NEW a \in Places, NEW m \in Seq(Values \cup {Raw}),
         NEW r, r = Put(t, a, m)
  PROVE  Replaced(r, t, a, m)
<1>1. /\ t.memory \in [Places -> Seq(Values \cup {Raw})]
      /\ r = [t EXCEPT !.memory = [t.memory EXCEPT ![a] = m]]
  BY DEF States, Put
<1>2. PICK changed : changed = [t.memory EXCEPT ![a] = m]
  OBVIOUS
<1>3. /\ changed \in [Places -> Seq(Values \cup {Raw})] /\ changed[a] = m
      /\ \A b \in Places \ {a} : changed[b] = t.memory[b]
  BY <1>1, <1>2
<1>4. r.memory = changed /\ SameVectors(r, t) /\ r \in States
  BY <1>1, <1>2, <1>3 DEF States, SameVectors
<1> QED
  BY <1>3, <1>4 DEF Replaced

\* Other contents of as many slots.
LEMMA PutEffect ==
  ASSUME NEW t \in States, NEW a \in Places, NEW m \in Seq(Values \cup {Raw}),
         Len(m) = Len(t.memory[a]), NEW r, r = Put(t, a, m)
  PROVE  ChangedAt(r, t, {a}) /\ r.memory[a] = m
  BY PutAny DEF Replaced, ChangedAt

\* There is room for values where there is no object.
Constructible(t, a, f) ==
  /\ DOMAIN f \subseteq 1..Len(t.memory[a]) /\ \A i \in DOMAIN f : f[i] \in Values
  /\ \A i \in DOMAIN f : type.trivial \/ t.memory[a][i] = Raw

Constructed(r, t, a, f) ==
  /\ ChangedAt(r, t, {a})
  /\ \A i \in 1..Len(t.memory[a]) :
       r.memory[a][i] = IF i \in DOMAIN f THEN f[i] ELSE t.memory[a][i]

\* Values are constructed there.
LEMMA ConstructEffect ==
  ASSUME NEW t \in States, NEW a \in Places, NEW f, Constructible(t, a, f)
  PROVE  Constructed(Construct(t, a, f), t, a, f)
<1> DEFINE m == [i \in DOMAIN t.memory[a] |-> IF i \in DOMAIN f THEN f[i] ELSE t.memory[a][i]]
<1>1. t.memory[a] \in Seq(Values \cup {Raw}) /\ DOMAIN t.memory[a] = 1..Len(t.memory[a])
  BY DEF States
<1>2. m \in Seq(Values \cup {Raw}) /\ Len(m) = Len(t.memory[a])
  BY <1>1 DEF Constructible
<1>3. Construct(t, a, f) = Put(t, a, m)
  BY <1>1 DEF Constructible, Construct, Faulty, States, Put
<1>4. \A i \in 1..Len(t.memory[a]) : m[i] = IF i \in DOMAIN f THEN f[i] ELSE t.memory[a][i]
  BY <1>1
<1> HIDE DEF m
<1> QED
  BY <1>2, <1>3, <1>4, PutEffect DEF Constructed

\* There are elements to destroy.
Destructible(t, a, slots) ==
  slots \subseteq 1..Len(t.memory[a]) /\ \A i \in slots : t.memory[a][i] # Raw

Cleared(r, t, a, slots) ==
  /\ ChangedAt(r, t, {a})
  /\ \A i \in 1..Len(t.memory[a]) :
       r.memory[a][i] = IF i \in slots /\ ~type.trivial THEN Raw ELSE t.memory[a][i]

\* Elements are destroyed there.
LEMMA DestroyEffect ==
  ASSUME NEW t \in States, NEW a \in Places, NEW slots, Destructible(t, a, slots)
  PROVE  Cleared(DestroySlots(t, a, slots), t, a, slots)
<1>1. t.memory[a] \in Seq(Values \cup {Raw}) /\ DOMAIN t.memory[a] = 1..Len(t.memory[a])
  BY DEF States
<1>2. CASE type.trivial
  BY <1>1, <1>2 DEF Cleared, DestroySlots, ChangedAt, SameVectors
<1>3. CASE ~type.trivial
  <2> DEFINE m == [i \in DOMAIN t.memory[a] |-> IF i \in slots THEN Raw ELSE t.memory[a][i]]
  <2>1. m \in Seq(Values \cup {Raw}) /\ Len(m) = Len(t.memory[a])
    BY <1>1
  <2>2. DestroySlots(t, a, slots) = Put(t, a, m)
    BY <1>1, <1>3 DEF Destructible, DestroySlots, Faulty, States, Put
  <2>3. \A i \in 1..Len(t.memory[a]) :
          m[i] = IF i \in slots /\ ~type.trivial THEN Raw ELSE t.memory[a][i]
    BY <1>1, <1>3
  <2> HIDE DEF m
  <2> QED
    BY <2>1, <2>2, <2>3, PutEffect DEF Cleared
<1> QED
  BY <1>2, <1>3

\* The memory at b has room for the elements in slots at a.
Movable(t, a, b, slots) ==
  /\ slots \subseteq 1..Len(t.memory[a]) /\ slots \subseteq 1..Len(t.memory[b])
  /\ \A i \in slots : t.memory[a][i] \in Values
  /\ \A i \in slots : type.trivial \/ t.memory[b][i] = Raw

Moved(r, t, a, b, slots) ==
  /\ ChangedAt(r, t, {a, b})
  /\ \A i \in 1..Len(t.memory[a]) :
       r.memory[a][i] = IF i \in slots /\ ~type.trivial THEN Raw ELSE t.memory[a][i]
  /\ \A i \in 1..Len(t.memory[b]) :
       r.memory[b][i] = IF i \in slots THEN t.memory[a][i] ELSE t.memory[b][i]

\* Elements go where there are none.
LEMMA MoveEffect ==
  ASSUME NEW t \in States, NEW a \in Places, NEW b \in Places, a # b, NEW slots,
         Movable(t, a, b, slots)
  PROVE  Moved(MoveSlots(t, a, b, slots), t, a, b, slots)
<1>1. t.memory[a] \in Seq(Values \cup {Raw}) /\ DOMAIN t.memory[a] = 1..Len(t.memory[a])
  BY DEF States
<1>2. PICK f : f = Contents(t, a, slots)
  OBVIOUS
<1>3. DOMAIN f = slots /\ \A i \in slots : f[i] = t.memory[a][i]
  BY <1>1, <1>2 DEF Contents, Movable
<1>4. PICK u : u = Construct(t, b, f)
  OBVIOUS
<1>5. /\ ChangedAt(u, t, {b})
      /\ \A i \in 1..Len(t.memory[b]) :
           u.memory[b][i] = IF i \in slots THEN t.memory[a][i] ELSE t.memory[b][i]
  <2>1. /\ DOMAIN f \subseteq 1..Len(t.memory[b]) /\ \A i \in DOMAIN f : f[i] \in Values
        /\ \A i \in DOMAIN f : type.trivial \/ t.memory[b][i] = Raw
    BY <1>3 DEF Movable
  <2>2. Constructible(t, b, f)
    BY <2>1 DEF Constructible
  <2>3. Constructed(u, t, b, f)
    BY <1>4, <2>2, ConstructEffect, Zenon
  <2> QED
    BY <1>3, <2>3 DEF Constructed
<1>6. u \in States /\ u.memory[a] = t.memory[a]
  BY <1>5 DEF ChangedAt
<1>7. slots \subseteq 1..Len(u.memory[a]) /\ \A i \in slots : u.memory[a][i] # Raw
  BY <1>6, VectorAssumption DEF Movable
<1>8. PICK r : r = DestroySlots(u, a, slots)
  OBVIOUS
<1>9. /\ ChangedAt(r, u, {a})
      /\ \A i \in 1..Len(t.memory[a]) :
           r.memory[a][i] = IF i \in slots /\ ~type.trivial THEN Raw ELSE t.memory[a][i]
  <2>1. Destructible(u, a, slots)
    BY <1>7 DEF Destructible
  <2>2. Cleared(r, u, a, slots)
    BY <1>6, <1>8, <2>1, DestroyEffect, Zenon
  <2> QED
    BY <1>6, <2>2 DEF Cleared
<1>10. ChangedAt(r, t, {a, b}) /\ r.memory[b] = u.memory[b]
  BY <1>5, <1>9 DEF ChangedAt, SameVectors
<1>11. MoveSlots(t, a, b, slots) = r
  BY <1>2, <1>4, <1>8 DEF MoveSlots
<1> QED
  BY <1>5, <1>9, <1>10, <1>11 DEF Moved
Exchange(r, t, a, b, slots) ==
  /\ ChangedAt(r, t, {a, b})
  /\ \A i \in 1..Len(t.memory[a]) :
       r.memory[a][i] = IF i \in slots THEN t.memory[b][i] ELSE t.memory[a][i]
  /\ \A i \in 1..Len(t.memory[b]) :
       r.memory[b][i] = IF i \in slots THEN t.memory[a][i] ELSE t.memory[b][i]

\* Elements change places.
LEMMA ExchangeEffect ==
  ASSUME NEW t \in States, NEW a \in Places, NEW b \in Places, a # b, NEW slots,
         slots \subseteq 1..Len(t.memory[a]), slots \subseteq 1..Len(t.memory[b])
  PROVE  Exchange(ExchangeSlots(t, a, b, slots), t, a, b, slots)
<1>1. /\ t.memory[a] \in Seq(Values \cup {Raw}) /\ DOMAIN t.memory[a] = 1..Len(t.memory[a])
      /\ t.memory[b] \in Seq(Values \cup {Raw}) /\ DOMAIN t.memory[b] = 1..Len(t.memory[b])
  BY DEF States
<1>2. PICK m : m = [i \in DOMAIN t.memory[a] |-> IF i \in slots THEN t.memory[b][i]
                                                 ELSE t.memory[a][i]]
  OBVIOUS
<1>3. PICK n : n = [i \in DOMAIN t.memory[b] |-> IF i \in slots THEN t.memory[a][i]
                                                 ELSE t.memory[b][i]]
  OBVIOUS
<1>4. m \in Seq(Values \cup {Raw}) /\ Len(m) = Len(t.memory[a])
  BY <1>1, <1>2
<1>5. n \in Seq(Values \cup {Raw}) /\ Len(n) = Len(t.memory[b])
  BY <1>1, <1>3
<1>6. ChangedAt(Put(t, a, m), t, {a}) /\ Put(t, a, m).memory[a] = m
  BY <1>4, PutEffect
<1>7. PICK u : u = Put(t, a, m)
  OBVIOUS
<1>8. u \in States /\ u.memory[b] = t.memory[b]
  BY <1>6, <1>7 DEF ChangedAt
<1>9. ChangedAt(Put(u, b, n), u, {b}) /\ Put(u, b, n).memory[b] = n
  BY <1>5, <1>8, PutEffect
<1>10. ExchangeSlots(t, a, b, slots) = Put(u, b, n)
  BY <1>2, <1>3, <1>7 DEF ExchangeSlots, Put, States
<1>11. PICK r : r = Put(u, b, n)
  OBVIOUS
<1>12. ChangedAt(r, t, {a, b}) /\ r.memory[a] = m /\ r.memory[b] = n
  BY <1>6, <1>7, <1>9, <1>11 DEF ChangedAt, SameVectors
<1>13. \A i \in 1..Len(t.memory[a]) :
         r.memory[a][i] = IF i \in slots THEN t.memory[b][i] ELSE t.memory[a][i]
  BY <1>1, <1>2, <1>12
<1>14. \A i \in 1..Len(t.memory[b]) :
         r.memory[b][i] = IF i \in slots THEN t.memory[a][i] ELSE t.memory[b][i]
  BY <1>1, <1>3, <1>12
<1>15. r = ExchangeSlots(t, a, b, slots)
  BY <1>10, <1>11
<1> QED
  BY <1>12, <1>13, <1>14, <1>15 DEF Exchange

\* The allocator hands out raw memory.
LEMMA AllocateEffect ==
  ASSUME NEW t \in States, NEW a \in Places, NEW n \in Nat
  PROVE  LET r == Allocate(t, a, n)
         IN /\ r \in States /\ SameVectors(r, t)
            /\ \A b \in Places \ {a} : r.memory[b] = t.memory[b]
            /\ Len(r.memory[a]) = n /\ \A i \in 1..n : r.memory[a][i] = Raw
<1>1. PICK m : m = [i \in 1..n |-> Raw]
  OBVIOUS
<1>2. m \in Seq(Values \cup {Raw}) /\ Len(m) = n /\ \A i \in 1..n : m[i] = Raw
  BY <1>1
<1>3. Allocate(t, a, n) = Put(t, a, m)
  BY <1>1 DEF Allocate, Put
<1>4. Replaced(Allocate(t, a, n), t, a, m)
  BY <1>2, <1>3, PutAny, Zenon
<1> QED
  BY <1>2, <1>4 DEF Replaced

\* A block without elements can be given back whole.
LEMMA DeallocateEffect ==
  ASSUME NEW t \in States, NEW a \in Places, NEW n \in Nat, Len(t.memory[a]) = n,
         \A i \in 1..n : type.trivial \/ t.memory[a][i] = Raw
  PROVE  LET r == Deallocate(t, a, n)
         IN /\ r \in States /\ SameVectors(r, t) /\ r.memory[a] = <<>>
            /\ \A b \in Places \ {a} : r.memory[b] = t.memory[b]
<1>1. Deallocate(t, a, n) = Put(t, a, <<>>)
  BY DEF Deallocate, Faulty, States, Put
<1>2. <<>> \in Seq(Values \cup {Raw})
  OBVIOUS
<1>3. Replaced(Deallocate(t, a, n), t, a, <<>>)
  BY <1>1, <1>2, PutAny, Zenon
<1> QED
  BY <1>3 DEF Replaced

-----------------------------------------------------------------------------
(* The vectors                                                             *)

\* Where the elements of a vector are: p_Data.
LEMMA DataIs ==
  ASSUME NEW t \in States, NEW v \in Objects, Room(t, v), type.BufferSize \in Nat
  PROVE  /\ IsDynamic(t, v) <=> t.m_DynamicBuffer[v] # Null \/ type.BufferSize = 0
         /\ Data(t, v) \in Places
         /\ IsDynamic(t, v) => Data(t, v) = t.m_DynamicBuffer[v] /\ Data(t, v) # v
         /\ ~IsDynamic(t, v) => Data(t, v) = v
         /\ t.memory[Null] = <<>> => Len(t.memory[Data(t, v)]) = t.m_Capacity[v]
<1>1. /\ t.m_Size[v] \in Nat /\ t.m_Capacity[v] \in Nat
      /\ t.m_DynamicBuffer[v] \in Blocks \cup {Null}
  BY DEF States
<1>2. v \notin Blocks \cup {Null}
  BY VectorAssumption DEF Objects
<1>3. IsDynamic(t, v) <=> t.m_DynamicBuffer[v] # Null \/ type.BufferSize = 0
  BY <1>1 DEF Room, IsDynamic
<1>4. CASE IsDynamic(t, v)
  BY <1>1, <1>2, <1>3, <1>4 DEF Data, Places, Room
<1>5. CASE ~IsDynamic(t, v)
  BY <1>1, <1>3, <1>5 DEF Data, Places, Room
<1> QED
  BY <1>3, <1>4, <1>5

\* The elements of a vector are values, in the slots from the first one on.
LEMMA ElementsAre ==
  ASSUME NEW t, Good(t), NEW v \in t.alive
  PROVE  /\ Elements(t, v) \in Seq(Values) /\ Len(Elements(t, v)) = t.m_Size[v]
         /\ t.m_Size[v] \in 0..MaxSize
         /\ \A i \in 1..t.m_Size[v] : Elements(t, v)[i] = t.memory[Data(t, v)][i]
<1>1. /\ t \in States /\ v \in Objects /\ Room(t, v) /\ type.BufferSize \in Nat
      /\ t.memory[Null] = <<>> /\ Holds(t, Data(t, v), t.m_Size[v])
  BY DEF Good, InPlace, Owned, States
<1>2. PICK a : a = Data(t, v)
  OBVIOUS
<1>3. a \in Places /\ Len(t.memory[a]) = t.m_Capacity[v]
  BY <1>1, <1>2, DataIs
<1>4. /\ t.m_Size[v] \in Nat /\ t.m_Capacity[v] \in Nat
      /\ t.memory[a] \in Seq(Values \cup {Raw}) /\ DOMAIN t.memory[a] = 1..Len(t.memory[a])
  BY <1>1, <1>3 DEF States
<1>5. t.m_Size[v] <= t.m_Capacity[v] /\ t.m_Size[v] <= MaxSize
  BY <1>1 DEF Room
<1>6. \A i \in 1..t.m_Size[v] : t.memory[a][i] \in Values
  BY <1>1, <1>2, <1>3, <1>4, <1>5 DEF Holds
<1>7. Elements(t, v) = [i \in 1..t.m_Size[v] |-> t.memory[a][i]]
  BY <1>2, <1>3, <1>4, <1>5 DEF Elements, Contents
<1>8. PICK n : n = t.m_Size[v]
  OBVIOUS
<1>9. n \in 0..MaxSize
  BY <1>4, <1>5, <1>8, VectorAssumption
<1>10. PICK list : list = [i \in 1..n |-> t.memory[a][i]]
  OBVIOUS
<1>11. list \in Seq(Values) /\ Len(list) = n /\ \A i \in 1..n : list[i] = t.memory[a][i]
  BY <1>6, <1>8, <1>9, <1>10
<1> QED
  BY <1>2, <1>7, <1>8, <1>9, <1>10, <1>11

\* What a vector holds is given by its length and its slots.
LEMMA ElementsFrom ==
  ASSUME NEW t, Good(t), NEW v \in t.alive, NEW list \in Seq(Values),
         Len(list) = t.m_Size[v],
         \A i \in 1..Len(list) : t.memory[Data(t, v)][i] = list[i]
  PROVE  Elements(t, v) = list
<1>1. /\ Elements(t, v) \in Seq(Values) /\ Len(Elements(t, v)) = t.m_Size[v]
      /\ \A i \in 1..t.m_Size[v] : Elements(t, v)[i] = t.memory[Data(t, v)][i]
  BY ElementsAre
<1> QED
  BY <1>1

\* A vector whose own state and memory are as before holds what it held.
LEMMA Untouched ==
  ASSUME NEW t \in States, NEW r \in States, NEW v \in Objects, InPlace(t, v),
         r.m_Size[v] = t.m_Size[v], r.m_Capacity[v] = t.m_Capacity[v],
         r.m_DynamicBuffer[v] = t.m_DynamicBuffer[v], r.memory[v] = t.memory[v],
         r.memory[t.m_DynamicBuffer[v]] = t.memory[t.m_DynamicBuffer[v]]
  PROVE  InPlace(r, v) /\ Elements(r, v) = Elements(t, v) /\ Data(r, v) = Data(t, v)
<1>1. (IsDynamic(r, v) <=> IsDynamic(t, v)) /\ Data(r, v) = Data(t, v)
  BY DEF IsDynamic, Data
<1>2. r.memory[Data(t, v)] = t.memory[Data(t, v)]
  BY DEF Data
<1>3. InPlace(r, v)
  BY <1>1, <1>2 DEF InPlace, Room, Holds
<1>4. Elements(r, v) = Elements(t, v)
  BY <1>1, <1>2 DEF Elements, Contents
<1> QED
  BY <1>1, <1>3, <1>4

\* What an operation on the vectors vs leaves as it was, but for an assertion.
Keeps(r, t, vs) ==
  /\ Good(r) /\ r.fault \in {t.fault, "assertion"}
  /\ \A u \in t.alive \ vs : u \in r.alive /\ Elements(r, u) = Elements(t, u)

\* What a call makes of the list of v, whether v exists before it or not.
Becomes(r, t, v, list) ==
  Keeps(r, t, {v}) /\ r.alive = t.alive \cup {v} /\ Elements(r, v) = list

\* A step that changes vectors vs and the memory of some places, which the other
\* vectors do not use, leaves the others as they were.
LEMMA OthersKeep ==
  ASSUME NEW t, Good(t), NEW r \in States, NEW vs, NEW places,
         r.fault = t.fault,
         r.alive \ vs = t.alive \ vs,
         \A u \in t.alive \ vs :
           /\ r.m_Size[u] = t.m_Size[u] /\ r.m_Capacity[u] = t.m_Capacity[u]
           /\ r.m_DynamicBuffer[u] = t.m_DynamicBuffer[u]
           /\ u \notin places /\ t.m_DynamicBuffer[u] \notin places,
         \A a \in Places \ places : r.memory[a] = t.memory[a],
         Owned(r), \A u \in r.alive \cap vs : InPlace(r, u)
  PROVE  Keeps(r, t, vs)
<1>1. t \in States /\ t.alive \subseteq Objects /\ type.BufferSize \in Nat
  BY DEF Good, States
<1>2. ASSUME NEW u \in t.alive \ vs
      PROVE  u \in r.alive /\ InPlace(r, u) /\ Elements(r, u) = Elements(t, u)
  <2>1. InPlace(t, u) /\ u \in Objects
    BY <1>1 DEF Good
  <2>2. u \in Places /\ t.m_DynamicBuffer[u] \in Places
    BY <1>1, <2>1 DEF Places, States
  <2>3. /\ r.m_Size[u] = t.m_Size[u] /\ r.m_Capacity[u] = t.m_Capacity[u]
        /\ r.m_DynamicBuffer[u] = t.m_DynamicBuffer[u] /\ r.memory[u] = t.memory[u]
        /\ r.memory[t.m_DynamicBuffer[u]] = t.memory[t.m_DynamicBuffer[u]]
    BY <2>2
  <2> QED
    BY <1>1, <2>1, <2>3, Untouched
<1>3. \A u \in r.alive : InPlace(r, u)
  BY <1>2
<1> QED
  BY <1>1, <1>2, <1>3 DEF Keeps, Good

\* A vector to construct has nothing and gets its preallocated buffer.
LEMMA MakeEffect ==
  ASSUME NEW t, Good(t), NEW v \in Objects \ t.alive
  PROVE  LET r == Make(t, v)
         IN /\ Keeps(r, t, {v}) /\ r.alive = t.alive \cup {v}
            /\ r.m_Size[v] = 0 /\ Elements(r, v) = <<>>
            /\ \A block \in Blocks : r.memory[block] = t.memory[block]
<1>1. t \in States /\ type.BufferSize \in Nat /\ Owned(t)
  BY DEF Good
<1>2. PICK r : r = Make(t, v)
  OBVIOUS
<1>3. PICK m : m = [i \in 1..type.BufferSize |-> Raw]
  OBVIOUS
<1>4. /\ m \in Seq(Values \cup {Raw}) /\ Len(m) = type.BufferSize
      /\ \A i \in 1..type.BufferSize : m[i] = Raw
  BY <1>1, <1>3
<1>5. v \in Places /\ v # Null /\ v \notin Blocks
  BY VectorAssumption DEF Objects, Places
<1>6. r = [t EXCEPT !.alive = @ \cup {v}, !.m_Size[v] = 0,
                    !.m_Capacity[v] = type.BufferSize, !.m_DynamicBuffer[v] = Null,
                    !.DebugVector[v] = <<>>, !.memory[v] = m]
  BY <1>2, <1>3 DEF Make
<1>7. /\ r.alive = t.alive \cup {v} /\ r.fault = t.fault
      /\ r.m_Size = [t.m_Size EXCEPT ![v] = 0]
      /\ r.m_Capacity = [t.m_Capacity EXCEPT ![v] = type.BufferSize]
      /\ r.m_DynamicBuffer = [t.m_DynamicBuffer EXCEPT ![v] = Null]
      /\ r.DebugVector = [t.DebugVector EXCEPT ![v] = <<>>]
      /\ r.memory = [t.memory EXCEPT ![v] = m]
  BY <1>1, <1>6 DEF States
<1>8. r \in States
  <2>1. <<>> \in Seq(Values) /\ t.alive \cup {v} \in SUBSET Objects
    BY <1>1 DEF States
  <2>2. [t.memory EXCEPT ![v] = m] \in [Places -> Seq(Values \cup {Raw})]
    BY <1>1, <1>4, <1>5 DEF States
  <2> QED
    BY <1>1, <1>6, <2>1, <2>2 DEF States
<1>9. /\ r.m_Size[v] = 0 /\ r.m_Capacity[v] = type.BufferSize
      /\ r.m_DynamicBuffer[v] = Null /\ r.memory[v] = m
      /\ \A a \in Places \ {v} : r.memory[a] = t.memory[a]
      /\ \A u \in Objects \ {v} :
           /\ r.m_Size[u] = t.m_Size[u] /\ r.m_Capacity[u] = t.m_Capacity[u]
           /\ r.m_DynamicBuffer[u] = t.m_DynamicBuffer[u]
  BY <1>1, <1>5, <1>7 DEF States
<1>10. Owned(r)
  <2>1. \A block \in Blocks \cup {Null} : r.memory[block] = t.memory[block]
    BY <1>5, <1>9 DEF Places
  <2>2. \A u \in t.alive : u \in Objects \ {v}
    BY <1>1 DEF States
  <2> QED
    BY <1>1, <1>7, <1>9, <2>1, <2>2 DEF Owned
<1>11. Room(r, v)
  BY <1>1, <1>4, <1>9, VectorAssumption DEF Room
<1>12. InPlace(r, v)
  <2>1. Data(r, v) = v \/ Data(r, v) = Null
    BY <1>1, <1>8, <1>9, <1>11, DataIs
  <2>2. r.memory[Null] = <<>>
    BY <1>10 DEF Owned
  <2>3. Holds(r, v, 0)
    BY <1>1, <1>4, <1>9 DEF Holds
  <2>4. Holds(r, Null, 0)
    BY <2>2 DEF Holds
  <2> QED
    BY <1>9, <1>11, <2>1, <2>3, <2>4 DEF InPlace
<1>13. Keeps(r, t, {v})
  <2>1. r.alive \ {v} = t.alive \ {v} /\ \A u \in r.alive \cap {v} : InPlace(r, u)
    BY <1>7, <1>12
  <2>2. \A u \in t.alive \ {v} :
          /\ r.m_Size[u] = t.m_Size[u] /\ r.m_Capacity[u] = t.m_Capacity[u]
          /\ r.m_DynamicBuffer[u] = t.m_DynamicBuffer[u]
          /\ u \notin {v} /\ t.m_DynamicBuffer[u] \notin {v}
    BY <1>1, <1>5, <1>9 DEF States
  <2>3. r.fault = t.fault /\ \A a \in Places \ {v} : r.memory[a] = t.memory[a]
    BY <1>7, <1>9
  <2> QED
    BY <1>8, <1>10, <2>1, <2>2, <2>3, OthersKeep
<1>14. Elements(r, v) = <<>>
  <2>1. Good(r) /\ v \in r.alive
    BY <1>7, <1>13 DEF Keeps
  <2>2. Elements(r, v) \in Seq(Values) /\ Len(Elements(r, v)) = 0
    BY <1>9, <2>1, ElementsAre
  <2> QED
    BY <2>2, EmptySeq
<1> QED
  BY <1>2, <1>5, <1>7, <1>9, <1>13, <1>14 DEF Places

\* Vectors do not use each other's memory, nor a block that is not in use.
LEMMA MemoryApart ==
  ASSUME NEW t, Good(t), NEW v \in t.alive, NEW u \in t.alive \ {v}
  PROVE  /\ u # v /\ t.m_DynamicBuffer[u] # v /\ u # t.m_DynamicBuffer[v]
         /\ t.m_DynamicBuffer[u] # t.m_DynamicBuffer[v] \/ t.m_DynamicBuffer[u] = Null
<1> QED
  BY VectorAssumption DEF Good, States, Owned, Objects

\* The block of a vector is in use.
LEMMA BlockInUse ==
  ASSUME NEW t, Good(t), NEW v \in t.alive, t.m_DynamicBuffer[v] # Null
  PROVE  /\ t.m_DynamicBuffer[v] \in Blocks
         /\ t.memory[t.m_DynamicBuffer[v]] # <<>>
<1>1. /\ t \in States /\ v \in Objects /\ Room(t, v)
  BY DEF Good, InPlace, States
<1>2. Len(t.memory[t.m_DynamicBuffer[v]]) = t.m_Capacity[v] /\ t.m_Capacity[v] > 0
  BY <1>1 DEF Room
<1>3. t.m_Capacity[v] \in Nat /\ t.m_DynamicBuffer[v] \in Blocks
  BY <1>1 DEF States
<1> QED
  BY <1>2, <1>3, EmptySeq

\* A step about v that changes only its buffers, takes blocks that are not in
\* use and gives back its own, keeps the others.
LEMMA OneChanges ==
  ASSUME NEW t, Good(t), NEW v \in t.alive, NEW r \in States,
         r.fault = t.fault,
         r.alive \ {v} = t.alive \ {v},
         \A u \in t.alive \ {v} :
           /\ r.m_Size[u] = t.m_Size[u] /\ r.m_Capacity[u] = t.m_Capacity[u]
           /\ r.m_DynamicBuffer[u] = t.m_DynamicBuffer[u],
         \A a \in Places \ {v} :
           \/ r.memory[a] = t.memory[a]
           \/ a \in Blocks /\ (a = t.m_DynamicBuffer[v] \/ t.memory[a] = <<>>),
         \A block \in Blocks :
           \/ r.memory[block] = <<>>
           \/ r.memory[block] = t.memory[block] /\ block # t.m_DynamicBuffer[v]
           \/ v \in r.alive /\ block = r.m_DynamicBuffer[v],
         v \in r.alive =>
           /\ InPlace(r, v)
           /\ \/ r.m_DynamicBuffer[v] \in {t.m_DynamicBuffer[v], Null}
              \/ t.memory[r.m_DynamicBuffer[v]] = <<>>
  PROVE  Keeps(r, t, {v})
<1>1. /\ t \in States /\ t.alive \subseteq Objects /\ Owned(t) /\ v \in Places
      /\ v # Null /\ v \notin Blocks /\ Null \notin Blocks
  <2>1. t \in States /\ t.alive \subseteq Objects /\ Owned(t)
    BY DEF Good, States
  <2> QED
    BY <2>1, VectorAssumption DEF Objects, Places
<1>2. PICK places : places = {v} \cup
        {a \in Blocks : a = t.m_DynamicBuffer[v] \/ t.memory[a] = <<>>}
  OBVIOUS
<1>3. \A a \in Places \ places : r.memory[a] = t.memory[a]
  BY <1>2
<1>4. ASSUME NEW u \in t.alive \ {v}
      PROVE  /\ u \notin places /\ t.m_DynamicBuffer[u] \notin places
             /\ r.m_DynamicBuffer[u] = t.m_DynamicBuffer[u]
  <2>1. u \notin Blocks /\ t.m_DynamicBuffer[u] \in Blocks \cup {Null}
    BY <1>1, VectorAssumption DEF States, Objects
  <2>2. t.m_DynamicBuffer[u] # v /\
        (t.m_DynamicBuffer[u] # t.m_DynamicBuffer[v] \/ t.m_DynamicBuffer[u] = Null)
    BY MemoryApart
  <2>3. t.m_DynamicBuffer[u] = Null \/ t.memory[t.m_DynamicBuffer[u]] # <<>>
    BY BlockInUse
  <2> QED
    BY <1>1, <1>2, <2>1, <2>2, <2>3
<1>5. Owned(r)
  <2>1. ASSUME NEW u \in r.alive \ {v}, v \in r.alive,
               r.m_DynamicBuffer[u] = r.m_DynamicBuffer[v], r.m_DynamicBuffer[u] # Null
        PROVE  FALSE
    <3>1. u \in t.alive \ {v} /\ r.m_DynamicBuffer[u] = t.m_DynamicBuffer[u]
      BY <1>4
    <3>2. t.m_DynamicBuffer[u] # t.m_DynamicBuffer[v]
      BY <2>1, <3>1, MemoryApart
    <3>3. t.memory[t.m_DynamicBuffer[u]] # <<>>
      BY <2>1, <3>1, BlockInUse
    <3> QED
      BY <2>1, <3>1, <3>2, <3>3
  <2>2. ASSUME NEW u \in r.alive, NEW w \in r.alive,
               r.m_DynamicBuffer[u] = r.m_DynamicBuffer[w], r.m_DynamicBuffer[u] # Null
        PROVE  u = w
    <3>1. CASE u = v \/ w = v
      BY <2>1, <2>2, <3>1
    <3>2. CASE u # v /\ w # v
      <4>1. u \in t.alive \ {v} /\ w \in t.alive \ {v}
        BY <3>2
      <4> QED
        BY <1>1, <1>4, <2>2, <4>1 DEF Owned
    <3> QED
      BY <3>1, <3>2
  <2>3. ASSUME NEW block \in Blocks, r.memory[block] # <<>>
        PROVE  \E u \in r.alive : r.m_DynamicBuffer[u] = block
    <3>1. CASE v \in r.alive /\ block = r.m_DynamicBuffer[v]
      BY <3>1
    <3>2. CASE r.memory[block] = t.memory[block] /\ block # t.m_DynamicBuffer[v]
      <4>1. PICK u \in t.alive : t.m_DynamicBuffer[u] = block
        BY <1>1, <2>3, <3>2 DEF Owned
      <4> QED
        BY <1>4, <3>2, <4>1
    <3> QED
      BY <2>3, <3>1, <3>2
  <2>4. r.memory[Null] = <<>>
    BY <1>1 DEF Owned, Places
  <2> QED
    BY <2>2, <2>3, <2>4 DEF Owned
<1> QED
  BY <1>3, <1>4, <1>5, OthersKeep

-----------------------------------------------------------------------------
(* The operators that calls are made of                                    *)

Reserved(r, t, v, n) ==
  /\ Keeps(r, t, {v}) /\ r.alive = t.alive
  /\ n <= r.m_Capacity[v] /\ r.m_Size[v] = t.m_Size[v]
  /\ Elements(r, v) = Elements(t, v)

\* Growing moves the elements to the new block and frees the old one.
LEMMA ReserveEffect ==
  ASSUME NEW t, Good(t), NEW v \in t.alive, NEW n \in 0..MaxSize,
         NEW block \in Blocks, t.memory[block] = <<>>
  PROVE  Reserved(Reserve(t, v, n, block), t, v, n)
<1>1. /\ t \in States /\ type.BufferSize \in Nat /\ v \in Objects /\ t.alive \subseteq Objects
      /\ Room(t, v) /\ t.memory[Null] = <<>> /\ InPlace(t, v)
  BY DEF Good, InPlace, Owned, States
<1>2. PICK a : a = Data(t, v)
  OBVIOUS
<1>3. PICK old : old = t.m_DynamicBuffer[v]
  OBVIOUS
<1>4. PICK N : N = t.m_Size[v]
  OBVIOUS
<1>5. PICK cap : cap = t.m_Capacity[v]
  OBVIOUS
<1>6. N \in Nat /\ cap \in Nat /\ old \in Blocks \cup {Null} /\ N <= cap
  BY <1>1, <1>3, <1>4, <1>5 DEF States, Room
<1>7. /\ v \in Places /\ v # Null /\ v \notin Blocks /\ Null \notin Blocks /\ v # block
      /\ block \in Places
  BY <1>1, VectorAssumption DEF Objects, Places
<1>8. /\ IsDynamic(t, v) <=> old # Null \/ type.BufferSize = 0
      /\ a \in Places /\ Len(t.memory[a]) = cap
      /\ IsDynamic(t, v) => a = old
      /\ ~IsDynamic(t, v) => a = v
  BY <1>1, <1>2, <1>3, <1>5, DataIs
<1>9. a # block
  BY <1>1, <1>3, <1>7, <1>8, BlockInUse
<1>10. CASE ~Grows(t, v, n)
  <2>1. Reserve(t, v, n, block) = t
    BY <1>10 DEF Reserve
  <2>2. n <= t.m_Capacity[v]
    BY <1>5, <1>6, <1>10 DEF Grows
  <2>3. Keeps(t, t, {v})
    BY DEF Keeps
  <2> QED
    BY <2>1, <2>2, <2>3 DEF Reserved
<1>11. CASE Grows(t, v, n)
  <2>1. n > cap
    BY <1>5, <1>11 DEF Grows
  <2>2. PICK size : size = 2 * n
    OBVIOUS
  <2>3. size \in Nat /\ size > n /\ size < IndexRange /\ IndexRange \in Nat /\ N < size
    BY <1>6, <2>1, <2>2, VectorAssumption, IndexAssumption
  <2>4. Larger(cap * GrowthFactor, n * 2) % IndexRange = size
    <3>1. Larger(cap * GrowthFactor, n * 2) = size
      BY <1>6, <2>1, <2>2 DEF Larger, GrowthFactor
    <3>2. size % IndexRange = size
      BY <2>3
    <3> QED
      BY <3>1, <3>2
  <2>5. PICK t1 : t1 = Allocate(t, block, size)
    OBVIOUS
  <2>6. /\ t1 \in States /\ SameVectors(t1, t)
        /\ \A b \in Places \ {block} : t1.memory[b] = t.memory[b]
        /\ Len(t1.memory[block]) = size /\ \A i \in 1..size : t1.memory[block][i] = Raw
    BY <1>1, <1>7, <2>3, <2>5, AllocateEffect
  <2>7. PICK slots : slots = 1..N
    OBVIOUS
  <2>8. PICK t2 : t2 = MoveSlots(t1, a, block, slots)
    OBVIOUS
  <2>9. t1.memory[a] = t.memory[a] /\ Len(t1.memory[a]) = cap
    BY <1>8, <1>9, <2>6
  <2>10. /\ \A i \in 1..N : t.memory[a][i] \in Values
        /\ \A i \in 1..cap : i > N => type.trivial \/ t.memory[a][i] = Raw
    BY <1>1, <1>2, <1>4, <1>6, <1>8 DEF InPlace, Holds
  <2>11. /\ ChangedAt(t2, t1, {a, block})
         /\ \A i \in 1..cap :
              t2.memory[a][i] = IF i \in 1..N /\ ~type.trivial THEN Raw ELSE t.memory[a][i]
         /\ \A i \in 1..size :
              t2.memory[block][i] = IF i \in 1..N THEN t.memory[a][i] ELSE Raw
    <3>1. Movable(t1, a, block, slots)
      BY <1>6, <2>3, <2>6, <2>7, <2>9, <2>10 DEF Movable
    <3>2. Moved(t2, t1, a, block, slots)
      BY <1>7, <1>8, <1>9, <2>6, <2>8, <3>1, MoveEffect
    <3>3. \A i \in 1..size :
            t2.memory[block][i] = IF i \in 1..N THEN t.memory[a][i] ELSE Raw
      BY <2>6, <2>7, <2>9, <3>2 DEF Moved
    <3> QED
      BY <2>7, <2>9, <3>2, <3>3 DEF Moved
  <2>12. /\ t2 \in States /\ SameVectors(t2, t)
         /\ \A b \in Places \ {a, block} : t2.memory[b] = t.memory[b]
         /\ Len(t2.memory[a]) = cap /\ Len(t2.memory[block]) = size
    BY <2>6, <2>9, <2>11 DEF ChangedAt, SameVectors
  <2>13. \A i \in 1..cap : type.trivial \/ t2.memory[a][i] = Raw
    BY <1>6, <2>10, <2>11
  <2>14. PICK t3 : t3 = IF IsDynamic(t, v) THEN Deallocate(t2, a, cap) ELSE t2
    OBVIOUS
  <2>15. /\ t3 \in States /\ SameVectors(t3, t) /\ t3.memory[block] = t2.memory[block]
         /\ \A b \in Places \ {a, block} : t3.memory[b] = t.memory[b]
         /\ IF IsDynamic(t, v) THEN t3.memory[a] = <<>>
            ELSE t3.memory[a] = t2.memory[a]
    <3>1. CASE IsDynamic(t, v)
      <4>1. /\ t3 \in States /\ SameVectors(t3, t2) /\ t3.memory[a] = <<>>
            /\ \A b \in Places \ {a} : t3.memory[b] = t2.memory[b]
        BY <1>6, <1>8, <2>12, <2>13, <2>14, <3>1, DeallocateEffect
      <4> QED
        BY <1>7, <1>9, <2>12, <3>1, <4>1 DEF SameVectors
    <3>2. CASE ~IsDynamic(t, v)
      BY <2>12, <2>14, <3>2
    <3> QED
      BY <3>1, <3>2
  <2>16. PICK r : r = Reserve(t, v, n, block)
    OBVIOUS
  <2>17. r = [t3 EXCEPT !.m_DynamicBuffer[v] = block, !.m_Capacity[v] = size]
    BY <1>2, <1>4, <1>5, <1>11, <2>4, <2>5, <2>7, <2>8, <2>14, <2>16 DEF Reserve
  <2>18. r \in States
    BY <1>1, <2>3, <2>15, <2>17 DEF States
  <2>19. /\ r.alive = t.alive /\ r.fault = t.fault /\ r.memory = t3.memory
         /\ r.m_Size = t.m_Size
         /\ r.m_DynamicBuffer[v] = block /\ r.m_Capacity[v] = size
         /\ \A u \in Objects \ {v} : /\ r.m_DynamicBuffer[u] = t.m_DynamicBuffer[u]
                                     /\ r.m_Capacity[u] = t.m_Capacity[u]
    BY <1>1, <2>15, <2>17 DEF States, SameVectors
  <2>20. Room(r, v) /\ Data(r, v) = block
    <3>1. Len(r.memory[v]) = type.BufferSize
      <4>1. CASE IsDynamic(t, v)
        <5>1. v \in Places \ {a, block}
          BY <1>6, <1>7, <1>8, <4>1
        <5> QED
          BY <1>1, <2>15, <2>19, <5>1 DEF Room
      <4>2. CASE ~IsDynamic(t, v)
        <5>1. a = v /\ cap = type.BufferSize
          BY <1>1, <1>3, <1>5, <1>8, <4>2 DEF Room
        <5> QED
          BY <2>12, <2>15, <2>19, <4>2, <5>1
      <4> QED
        BY <4>1, <4>2
    <3>2. r.m_Size[v] = N /\ N <= MaxSize /\ Len(r.memory[block]) = size /\ size > 0
      BY <1>1, <1>4, <2>3, <2>12, <2>15, <2>19 DEF Room
    <3>3. Room(r, v)
      BY <1>6, <1>7, <2>3, <2>19, <3>1, <3>2 DEF Room
    <3> QED
      BY <1>1, <1>7, <2>18, <2>19, <3>3, DataIs
  <2>21. InPlace(r, v)
    <3>1. Holds(r, block, N)
      BY <1>6, <2>3, <2>10, <2>11, <2>12, <2>15, <2>19 DEF Holds
    <3>2. Holds(r, v, 0)
      <4>1. CASE a = v
        BY <1>6, <1>8, <2>12, <2>13, <2>15, <2>19, <4>1 DEF Holds
      <4>2. CASE a # v
        <5>1. r.memory[v] = t.memory[v] /\ Holds(t, v, 0)
          BY <1>1, <1>2, <1>7, <2>15, <2>19, <4>2 DEF InPlace
        <5> QED
          BY <5>1 DEF Holds
      <4> QED
        BY <4>1, <4>2
    <3> QED
      BY <1>4, <2>19, <2>20, <3>1, <3>2 DEF InPlace
  <2>22. Keeps(r, t, {v})
    <3>1. \A b \in Places \ {v} :
            \/ r.memory[b] = t.memory[b]
            \/ b \in Blocks /\ (b = t.m_DynamicBuffer[v] \/ t.memory[b] = <<>>)
      <4>1. a = v \/ a = Null \/ (a \in Blocks /\ a = old)
        <5>1. old = Null \/ old \in Blocks
          BY <1>6
        <5> QED
          BY <1>8, <5>1
      <4>2. r.memory[Null] = t.memory[Null]
        BY <1>1, <1>7, <1>8, <2>15, <2>19 DEF Places
      <4> QED
        BY <1>3, <2>15, <2>19, <4>1, <4>2
    <3>2. \A b \in Blocks :
            \/ r.memory[b] = <<>>
            \/ r.memory[b] = t.memory[b] /\ b # t.m_DynamicBuffer[v]
            \/ v \in r.alive /\ b = r.m_DynamicBuffer[v]
      BY <1>3, <1>7, <1>8, <2>15, <2>19 DEF Places
    <3>3. \A u \in t.alive \ {v} :
            /\ r.m_Size[u] = t.m_Size[u] /\ r.m_Capacity[u] = t.m_Capacity[u]
            /\ r.m_DynamicBuffer[u] = t.m_DynamicBuffer[u]
      BY <1>1, <2>19
    <3> QED
      BY <2>18, <2>19, <2>21, <3>1, <3>2, <3>3, OneChanges
  <2>23. Elements(r, v) = Elements(t, v)
    <3>1. /\ Elements(t, v) \in Seq(Values) /\ Len(Elements(t, v)) = N
          /\ \A i \in 1..N : Elements(t, v)[i] = t.memory[a][i]
      BY <1>2, <1>4, ElementsAre
    <3>2. \A i \in 1..N : r.memory[block][i] = t.memory[a][i]
      BY <1>6, <2>3, <2>11, <2>15, <2>19
    <3>3. Good(r) /\ v \in r.alive /\ r.m_Size[v] = N
      BY <1>4, <2>19, <2>22 DEF Keeps
    <3>4. \A i \in 1..Len(Elements(t, v)) : r.memory[Data(r, v)][i] = Elements(t, v)[i]
      BY <2>20, <3>1, <3>2
    <3> QED
      BY <3>1, <3>3, <3>4, ElementsFrom
  <2>24. n <= r.m_Capacity[v]
    BY <2>3, <2>19
  <2> QED
    BY <2>16, <2>19, <2>22, <2>23, <2>24 DEF Reserved
<1> QED
  BY <1>10, <1>11

\* Two steps that keep the other vectors keep them together.
LEMMA KeepsTwice ==
  ASSUME NEW t, NEW q, NEW r, NEW vs, Keeps(q, t, vs), Keeps(r, q, vs)
  PROVE  Keeps(r, t, vs)
  BY DEF Keeps

\* A step that changes the number of elements of v and what is in their slots.
LEMMA ContentsChange ==
  ASSUME NEW t, Good(t), NEW v \in t.alive, NEW n \in 0..MaxSize, n <= t.m_Capacity[v],
         NEW r \in States,
         r.alive = t.alive, r.fault = t.fault, r.m_Capacity = t.m_Capacity,
         r.m_DynamicBuffer = t.m_DynamicBuffer, r.m_Size[v] = n,
         \A u \in t.alive \ {v} : r.m_Size[u] = t.m_Size[u],
         \A a \in Places \ {Data(t, v)} : r.memory[a] = t.memory[a],
         Len(r.memory[Data(t, v)]) = t.m_Capacity[v],
         Holds(r, Data(t, v), n)
  PROVE  Keeps(r, t, {v}) /\ Data(r, v) = Data(t, v)
<1>1. /\ t \in States /\ type.BufferSize \in Nat /\ v \in Objects /\ t.alive \subseteq Objects
      /\ Room(t, v) /\ t.memory[Null] = <<>> /\ InPlace(t, v)
  BY DEF Good, InPlace, Owned, States
<1>2. PICK a : a = Data(t, v)
  OBVIOUS
<1>3. PICK old : old = t.m_DynamicBuffer[v]
  OBVIOUS
<1>4. PICK cap : cap = t.m_Capacity[v]
  OBVIOUS
<1>5. v \in Places /\ v # Null /\ v \notin Blocks /\ Null \notin Blocks
  BY <1>1, VectorAssumption DEF Objects, Places
<1>6. /\ IsDynamic(t, v) <=> old # Null \/ type.BufferSize = 0
      /\ a \in Places /\ Len(t.memory[a]) = cap
      /\ IsDynamic(t, v) => a = old
      /\ ~IsDynamic(t, v) => a = v
  BY <1>1, <1>2, <1>3, <1>4, DataIs
<1>7. r.m_DynamicBuffer[v] = old /\ r.m_Capacity[v] = cap
  BY <1>3, <1>4
<1>8. a = v \/ a = old
  BY <1>6
<1>9. old \in Blocks \cup {Null} /\ cap \in Nat
  BY <1>1, <1>3, <1>4 DEF States
<1>10. \A b \in Places : Len(r.memory[b]) = Len(t.memory[b])
  BY <1>2, <1>4, <1>6
<1>11. Room(r, v)
  <2>1. old \in Places
    BY <1>9 DEF Places
  <2> QED
    BY <1>1, <1>3, <1>4, <1>5, <1>7, <1>10, <2>1 DEF Room
<1>12. Data(r, v) = a
  <2>1. IsDynamic(r, v) <=> IsDynamic(t, v)
    BY <1>1, <1>6, <1>7, <1>11, DataIs
  <2> QED
    BY <1>2, <1>3, <1>7, <2>1 DEF Data
<1>13. r.memory[Null] = <<>>
  <2>1. CASE a = Null
    <3>1. Len(r.memory[Null]) = 0
      BY <1>1, <1>10, EmptySeq DEF Places
    <3>2. r.memory[Null] \in Seq(Values \cup {Raw})
      BY DEF States, Places
    <3> QED
      BY <3>1, <3>2, EmptySeq
  <2>2. CASE a # Null
    BY <1>1, <1>2, <2>2 DEF Places
  <2> QED
    BY <2>1, <2>2
<1>14. InPlace(r, v)
  <2>1. a # v => Holds(r, v, 0)
    BY <1>1, <1>2, <1>5 DEF InPlace, Holds
  <2> QED
    BY <1>2, <1>11, <1>12, <2>1 DEF InPlace
<1>15. Keeps(r, t, {v})
  <2>1. \A b \in Places \ {v} :
          \/ r.memory[b] = t.memory[b]
          \/ b \in Blocks /\ (b = t.m_DynamicBuffer[v] \/ t.memory[b] = <<>>)
    BY <1>1, <1>2, <1>3, <1>8, <1>9, <1>13 DEF Places
  <2>2. \A b \in Blocks :
          \/ r.memory[b] = <<>>
          \/ r.memory[b] = t.memory[b] /\ b # t.m_DynamicBuffer[v]
          \/ v \in r.alive /\ b = r.m_DynamicBuffer[v]
    BY <1>2, <1>3, <1>5, <1>7, <1>8 DEF Places
  <2>3. \A u \in t.alive \ {v} :
          /\ r.m_Size[u] = t.m_Size[u] /\ r.m_Capacity[u] = t.m_Capacity[u]
          /\ r.m_DynamicBuffer[u] = t.m_DynamicBuffer[u]
    OBVIOUS
  <2>4. r.m_DynamicBuffer[v] \in {t.m_DynamicBuffer[v], Null}
    BY <1>3, <1>7
  <2>5. r.alive \ {v} = t.alive \ {v}
    OBVIOUS
  <2> QED
    BY <1>14, <2>1, <2>2, <2>3, <2>4, <2>5, OneChanges
<1> QED
  BY <1>2, <1>12, <1>15

\* The list of values of which the first ones are kept and the others are f.
Extended(list, n, f) == [i \in 1..n |-> IF i <= Len(list) THEN list[i] ELSE f[i]]

\* The values f are for the slots of v after its elements, up to number n.
Addition(t, v, n, f) ==
  /\ n \in 0..MaxSize /\ t.m_Size[v] <= n
  /\ DOMAIN f = (t.m_Size[v] + 1)..n /\ \A i \in DOMAIN f : f[i] \in Values

\* Reserving and constructing adds elements at the end.
LEMMA ExtendEffect ==
  ASSUME NEW t, Good(t), NEW v \in t.alive, NEW n, NEW f, Addition(t, v, n, f),
         NEW block \in Blocks, t.memory[block] = <<>>
  PROVE  LET r == Extend(t, v, n, f, block)
         IN /\ Keeps(r, t, {v}) /\ r.alive = t.alive
            /\ Elements(r, v) = Extended(Elements(t, v), n, f)
<1> /\ n \in 0..MaxSize /\ t.m_Size[v] <= n
    /\ DOMAIN f = (t.m_Size[v] + 1)..n /\ \A i \in DOMAIN f : f[i] \in Values
  BY DEF Addition
<1>1. PICK q : q = Reserve(t, v, n, block)
  OBVIOUS
<1>2. /\ Keeps(q, t, {v}) /\ q.alive = t.alive /\ n <= q.m_Capacity[v]
      /\ q.m_Size[v] = t.m_Size[v] /\ Elements(q, v) = Elements(t, v)
  <2>1. Reserved(q, t, v, n)
    BY <1>1, ReserveEffect, Zenon
  <2> QED
    BY <2>1 DEF Reserved
<1>3. Good(q) /\ v \in q.alive
  BY <1>2 DEF Keeps
<1>4. /\ q \in States /\ type.BufferSize \in Nat /\ v \in Objects /\ Room(q, v)
      /\ q.memory[Null] = <<>> /\ Holds(q, Data(q, v), q.m_Size[v])
  BY <1>3 DEF Good, InPlace, Owned, States
<1>5. PICK a : a = Data(q, v)
  OBVIOUS
<1>6. a \in Places /\ Len(q.memory[a]) = q.m_Capacity[v]
  BY <1>4, <1>5, DataIs
<1>7. PICK N : N = t.m_Size[v]
  OBVIOUS
<1>8. PICK cap : cap = q.m_Capacity[v]
  OBVIOUS
<1>9. N \in 0..MaxSize /\ cap \in Nat /\ n <= cap /\ N <= n /\ n \in Nat
  BY <1>2, <1>4, <1>7, <1>8, ElementsAre, VectorAssumption DEF States
<1>10. PICK p : p = [q EXCEPT !.m_Size[v] = n]
  OBVIOUS
<1>11. /\ p \in States /\ p.memory = q.memory /\ p.alive = q.alive /\ p.fault = q.fault
       /\ p.m_Capacity = q.m_Capacity /\ p.m_DynamicBuffer = q.m_DynamicBuffer
       /\ p.m_Size[v] = n /\ \A u \in Objects \ {v} : p.m_Size[u] = q.m_Size[u]
  BY <1>4, <1>9, <1>10 DEF States
<1>12. Data(p, v) = a
  <2>1. Room(p, v)
    BY <1>4, <1>8, <1>9, <1>11 DEF Room
  <2>2. IsDynamic(p, v) <=> IsDynamic(q, v)
    BY <1>4, <1>11, <2>1, DataIs
  <2> QED
    BY <1>5, <1>11, <2>2 DEF Data
<1>13. PICK r : r = Construct(p, a, f)
  OBVIOUS
<1>14. Extend(t, v, n, f, block) = r
  BY <1>1, <1>10, <1>12, <1>13 DEF Extend
<1>15. /\ DOMAIN f \subseteq 1..Len(p.memory[a])
       /\ \A i \in DOMAIN f : type.trivial \/ p.memory[a][i] = Raw
  <2>1. p.memory[a] = q.memory[a] /\ Len(q.memory[a]) = cap
    BY <1>6, <1>8, <1>11
  <2>2. DOMAIN f \subseteq 1..cap /\ \A i \in DOMAIN f : i > N
    BY <1>7, <1>9
  <2>3. \A i \in 1..cap : i > N => type.trivial \/ q.memory[a][i] = Raw
    BY <1>2, <1>4, <1>5, <1>6, <1>7, <1>8 DEF Holds
  <2> QED
    BY <2>1, <2>2, <2>3
<1>16. /\ ChangedAt(r, p, {a})
       /\ \A i \in 1..Len(p.memory[a]) :
            r.memory[a][i] = IF i \in DOMAIN f THEN f[i] ELSE p.memory[a][i]
  <2>1. Constructible(p, a, f)
    BY <1>15 DEF Constructible
  <2>2. Constructed(r, p, a, f)
    BY <1>6, <1>11, <1>13, <2>1, ConstructEffect, Zenon
  <2> QED
    BY <2>2 DEF Constructed
<1>17. Len(r.memory[a]) = cap
  BY <1>6, <1>8, <1>11, <1>16 DEF ChangedAt
<1>18. \A i \in 1..cap :
         r.memory[a][i] = IF i \in (N + 1)..n THEN f[i] ELSE q.memory[a][i]
  BY <1>6, <1>7, <1>8, <1>11, <1>16
<1>19. Holds(r, a, n)
  <2>1. \A i \in 1..cap :
          /\ i <= N => q.memory[a][i] \in Values
          /\ i > N => type.trivial \/ q.memory[a][i] = Raw
    BY <1>2, <1>4, <1>5, <1>6, <1>7, <1>8 DEF Holds
  <2>2. \A i \in (N + 1)..n : f[i] \in Values
    BY <1>7
  <2> QED
    BY <1>9, <1>17, <1>18, <2>1, <2>2 DEF Holds
<1>20. Keeps(r, q, {v}) /\ Data(r, v) = a
  <2>1. /\ r \in States /\ r.alive = q.alive /\ r.fault = q.fault
        /\ r.m_Capacity = q.m_Capacity /\ r.m_DynamicBuffer = q.m_DynamicBuffer
        /\ r.m_Size = p.m_Size
        /\ \A b \in Places \ {a} : r.memory[b] = q.memory[b]
    BY <1>11, <1>16 DEF ChangedAt, SameVectors
  <2>2. r.m_Size[v] = n /\ \A u \in q.alive \ {v} : r.m_Size[u] = q.m_Size[u]
    BY <1>4, <1>11, <2>1 DEF States
  <2>3. n <= q.m_Capacity[v] /\ Len(r.memory[a]) = q.m_Capacity[v]
    BY <1>2, <1>8, <1>17
  <2> QED
    BY <1>3, <1>5, <1>19, <2>1, <2>2, <2>3, ContentsChange
<1>21. Keeps(r, t, {v}) /\ r.alive = t.alive /\ r.m_Size[v] = n
  BY <1>2, <1>11, <1>16, <1>20, KeepsTwice DEF ChangedAt, SameVectors
<1>22. Elements(r, v) = Extended(Elements(t, v), n, f)
  <2>1. PICK list : list = Elements(t, v)
    OBVIOUS
  <2>2. /\ list \in Seq(Values) /\ Len(list) = N
        /\ \A i \in 1..N : list[i] = q.memory[a][i]
    BY <1>2, <1>3, <1>5, <1>7, <2>1, ElementsAre
  <2>3. PICK all : all = Extended(list, n, f)
    OBVIOUS
  <2>4. /\ all \in Seq(Values) /\ Len(all) = n
        /\ \A i \in 1..n : all[i] = IF i <= N THEN list[i] ELSE f[i]
    <3>1. \A i \in 1..n : (IF i <= N THEN list[i] ELSE f[i]) \in Values
      BY <1>7, <1>9, <2>2
    <3> QED
      BY <1>9, <2>2, <2>3, <3>1 DEF Extended
  <2>5. \A i \in 1..Len(all) : r.memory[Data(r, v)][i] = all[i]
    BY <1>9, <1>18, <1>20, <2>2, <2>4
  <2>6. Good(r) /\ v \in r.alive
    BY <1>21 DEF Keeps
  <2> QED
    BY <1>21, <2>1, <2>3, <2>4, <2>5, <2>6, ElementsFrom
<1> QED
  BY <1>14, <1>21, <1>22

\* The second copy that a vector keeps with Debug is not what it holds.
LEMMA DebugEffect ==
  ASSUME NEW t, Good(t), NEW v \in Objects, NEW list \in Seq(Values)
  PROVE  LET r == DebugIs(t, v, list)
         IN /\ Keeps(r, t, {}) /\ r.alive = t.alive
            /\ r.m_Size = t.m_Size /\ r.memory = t.memory
<1>1. PICK r : r = DebugIs(t, v, list)
  OBVIOUS
<1>2. t \in States /\ t.alive \subseteq Objects
  BY DEF Good, States
<1>3. PICK fault :
        fault = IF t.fault = "none" /\ list # Elements(t, v) THEN "assertion" ELSE t.fault
  OBVIOUS
<1>4. r = t \/ r = [t EXCEPT !.DebugVector[v] = list, !.fault = fault]
  BY <1>1, <1>2, <1>3 DEF DebugIs, States
<1>5. /\ r \in States /\ r.fault \in {t.fault, "assertion"}
      /\ r.alive = t.alive /\ r.m_Size = t.m_Size /\ r.m_Capacity = t.m_Capacity
      /\ r.m_DynamicBuffer = t.m_DynamicBuffer /\ r.memory = t.memory
  <2>1. fault \in {t.fault, "assertion"}
    BY <1>3
  <2>2. CASE r = t
    BY <1>2, <2>2
  <2>3. CASE r = [t EXCEPT !.DebugVector[v] = list, !.fault = fault]
    BY <1>2, <2>1, <2>3 DEF States
  <2> QED
    BY <1>4, <2>2, <2>3
<1>6. \A u \in Objects : InPlace(t, u) =>
        InPlace(r, u) /\ Elements(r, u) = Elements(t, u)
  BY <1>2, <1>5, Untouched
<1>7. Owned(r) /\ Owned(t)
  BY <1>5 DEF Good, Owned
<1> QED
  BY <1>1, <1>2, <1>5, <1>6, <1>7 DEF Keeps, Good

\* What is kept of more vectors than these is kept of these.
LEMMA KeepsMore ==
  ASSUME NEW t, NEW q, NEW r, NEW vs, NEW ws, Keeps(q, t, vs), Keeps(r, q, ws),
         ws \subseteq vs
  PROVE  Keeps(r, t, vs)
  BY DEF Keeps

\* push_back, emplace_back: the value comes last.
LEMMA EmplaceBackEffect ==
  ASSUME NEW t, Good(t), NEW v \in t.alive, t.m_Size[v] < MaxSize, NEW x \in Values,
         NEW block \in Blocks, t.memory[block] = <<>>
  PROVE  LET r == EmplaceBack(t, v, x, block)
         IN /\ Keeps(r, t, {v}) /\ r.alive = t.alive
            /\ Elements(r, v) = Append(Elements(t, v), x)
<1>1. PICK n : n = t.m_Size[v] + 1
  OBVIOUS
<1>2. PICK f : f = [i \in {n} |-> x]
  OBVIOUS
<1>3. PICK q : q = Extend(t, v, n, f, block)
  OBVIOUS
<1>4. /\ t.m_Size[v] \in 0..MaxSize /\ n \in 0..MaxSize /\ t.m_Size[v] <= n
      /\ t.m_Size[v] = n - 1
  BY <1>1, ElementsAre, VectorAssumption
<1>5. Addition(t, v, n, f)
  BY <1>2, <1>4 DEF Addition
<1>6. /\ Keeps(q, t, {v}) /\ q.alive = t.alive
      /\ Elements(q, v) = Extended(Elements(t, v), n, f)
  BY <1>3, <1>5, ExtendEffect
<1>7. v \in Objects /\ Append(t.DebugVector[v], x) \in Seq(Values)
  BY DEF Good, States
<1>8. PICK r : r = DebugIs(q, v, Append(t.DebugVector[v], x))
  OBVIOUS
<1>9. Good(q)
  BY <1>6 DEF Keeps
<1>10. Keeps(r, q, {}) /\ r.alive = q.alive
  BY <1>7, <1>8, <1>9, DebugEffect
<1>11. Keeps(r, t, {v})
  BY <1>6, <1>10, KeepsMore
<1>12. Elements(r, v) = Elements(q, v)
  BY <1>6, <1>10 DEF Keeps
<1>13. Extended(Elements(t, v), n, f) = Append(Elements(t, v), x)
  <2>1. PICK list : list = Elements(t, v)
    OBVIOUS
  <2>2. list \in Seq(Values) /\ Len(list) = n - 1
    BY <1>4, <2>1, ElementsAre
  <2>3. n \in Nat /\ f[n] = x
    BY <1>2, <1>4
  <2>4. PICK all : all = Extended(list, n, f)
    OBVIOUS
  <2>5. \A i \in 1..n : i <= n - 1 \/ i = n
    BY <2>3
  <2>6. /\ all \in Seq(Values) /\ Len(all) = n
        /\ \A i \in 1..n : all[i] = IF i = n THEN x ELSE list[i]
    BY <2>2, <2>3, <2>4, <2>5 DEF Extended
  <2>7. /\ Append(list, x) \in Seq(Values) /\ Len(Append(list, x)) = n
        /\ \A i \in 1..n : Append(list, x)[i] = IF i = n THEN x ELSE list[i]
    BY <2>2, <2>3, <2>5, AppendProperties
  <2>8. all = Append(list, x)
    BY <2>6, <2>7, SeqEqual
  <2> QED
    BY <2>1, <2>4, <2>8
<1>14. EmplaceBack(t, v, x, block) = r
  BY <1>1, <1>2, <1>3, <1>8 DEF EmplaceBack
<1> QED
  BY <1>6, <1>10, <1>11, <1>12, <1>13, <1>14

\* resize, clear: the elements in slots are destroyed and n are left.
Cut(t, v, n, slots) == [DestroySlots(t, Data(t, v), slots) EXCEPT !.m_Size[v] = n]

\* The slots are those of the elements of v after number n.
Suffix(t, v, n, slots) ==
  /\ n \in 0..t.m_Size[v] /\ slots \subseteq (n + 1)..t.m_Size[v]
  /\ type.trivial \/ slots = (n + 1)..t.m_Size[v]

\* Destroying the elements after number n leaves the first n.
LEMMA CutEffect ==
  ASSUME NEW t, Good(t), NEW v \in t.alive, NEW n, NEW slots, Suffix(t, v, n, slots)
  PROVE  Becomes(Cut(t, v, n, slots), t, v, SubSeq(Elements(t, v), 1, n))
<1> n \in 0..t.m_Size[v] /\ slots \subseteq (n + 1)..t.m_Size[v]
  BY DEF Suffix
<1>1. /\ t \in States /\ type.BufferSize \in Nat /\ v \in Objects /\ Room(t, v)
      /\ t.memory[Null] = <<>> /\ Holds(t, Data(t, v), t.m_Size[v])
  BY DEF Good, InPlace, Owned, States
<1>2. PICK a : a = Data(t, v)
  OBVIOUS
<1>3. PICK N : N = t.m_Size[v]
  OBVIOUS
<1>4. PICK cap : cap = t.m_Capacity[v]
  OBVIOUS
<1>5. a \in Places /\ Len(t.memory[a]) = cap
  BY <1>1, <1>2, <1>4, DataIs
<1>6. /\ N \in 0..MaxSize /\ cap \in Nat /\ N <= cap /\ n \in 0..N
      /\ n \in 0..MaxSize /\ n \in Nat
  <2>1. t.m_Size[v] \in 0..MaxSize
    BY ElementsAre
  <2>2. cap \in Nat /\ N <= cap
    BY <1>1, <1>3, <1>4 DEF States, Room
  <2> QED
    BY <1>3, <2>1, <2>2, VectorAssumption
<1>7. \A i \in 1..cap :
        /\ i <= N => t.memory[a][i] \in Values
        /\ i > N => type.trivial \/ t.memory[a][i] = Raw
  BY <1>1, <1>2, <1>3, <1>5 DEF Holds
<1>8. PICK q : q = DestroySlots(t, a, slots)
  OBVIOUS
<1>9. slots \subseteq (n + 1)..N
  BY <1>3
<1>10. slots \subseteq 1..Len(t.memory[a]) /\ \A i \in slots : t.memory[a][i] # Raw
  <2>1. \A i \in slots : i \in 1..cap /\ i <= N
    BY <1>6, <1>9
  <2>2. Raw \notin Values
    BY VectorAssumption
  <2> QED
    BY <1>5, <1>7, <2>1, <2>2
<1>11. /\ ChangedAt(q, t, {a})
       /\ \A i \in 1..cap :
            q.memory[a][i] = IF i \in slots /\ ~type.trivial THEN Raw ELSE t.memory[a][i]
  <2>1. Destructible(t, a, slots)
    BY <1>10 DEF Destructible
  <2>2. Cleared(q, t, a, slots)
    BY <1>1, <1>5, <1>8, <2>1, DestroyEffect, Zenon
  <2> QED
    BY <1>5, <2>2 DEF Cleared
<1>12. PICK r : r = [q EXCEPT !.m_Size[v] = n]
  OBVIOUS
<1>13. q \in States
  BY <1>11 DEF ChangedAt
<1>14. /\ r \in States /\ r.alive = t.alive /\ r.fault = t.fault
       /\ r.m_Capacity = t.m_Capacity /\ r.m_DynamicBuffer = t.m_DynamicBuffer
       /\ r.m_Size[v] = n /\ \A u \in Objects \ {v} : r.m_Size[u] = t.m_Size[u]
       /\ r.memory = q.memory
  BY <1>1, <1>6, <1>11, <1>12, <1>13 DEF ChangedAt, SameVectors, States
<1>15. /\ \A b \in Places \ {a} : r.memory[b] = t.memory[b]
       /\ Len(r.memory[a]) = cap
  BY <1>5, <1>11, <1>14 DEF ChangedAt
<1>16. Holds(r, a, n)
  BY <1>3, <1>6, <1>7, <1>9, <1>11, <1>14, <1>15 DEF Holds, Suffix
<1>17. Keeps(r, t, {v}) /\ Data(r, v) = a
  <2>1. \A u \in t.alive \ {v} : r.m_Size[u] = t.m_Size[u]
    BY <1>1, <1>14 DEF Good, States
  <2>2. n \in 0..MaxSize /\ n <= t.m_Capacity[v] /\ Len(r.memory[a]) = t.m_Capacity[v]
    BY <1>4, <1>6, <1>15
  <2> QED
    BY <1>2, <1>14, <1>15, <1>16, <2>1, <2>2, ContentsChange
<1>18. Elements(r, v) = SubSeq(Elements(t, v), 1, n)
  <2>1. PICK list : list = Elements(t, v)
    OBVIOUS
  <2>2. /\ list \in Seq(Values) /\ Len(list) = N
        /\ \A i \in 1..N : list[i] = t.memory[a][i]
    BY <1>2, <1>3, <2>1, ElementsAre
  <2>3. PICK first : first = SubSeq(list, 1, n)
    OBVIOUS
  <2>4. first \in Seq(Values) /\ Len(first) = n /\ \A i \in 1..n : first[i] = list[i]
    BY <1>6, <2>2, <2>3
  <2>5. \A i \in 1..Len(first) : r.memory[Data(r, v)][i] = first[i]
    BY <1>6, <1>9, <1>11, <1>14, <1>17, <2>2, <2>4
  <2>6. Good(r) /\ v \in r.alive
    BY <1>14, <1>17 DEF Keeps
  <2>7. Len(first) = r.m_Size[v]
    BY <1>14, <2>4
  <2>8. Elements(r, v) = first
    BY <2>4, <2>5, <2>6, <2>7, ElementsFrom
  <2> QED
    BY <2>1, <2>3, <2>8
<1>19. r = Cut(t, v, n, slots) /\ r.alive = t.alive \cup {v}
  BY <1>2, <1>8, <1>12, <1>14 DEF Cut
<1> QED
  BY <1>17, <1>18, <1>19 DEF Becomes

\* The destructor destroys the elements and gives the block back.
LEMMA UnmakeEffect ==
  ASSUME NEW t, Good(t), NEW v \in t.alive
  PROVE  LET r == Unmake(t, v)
         IN Keeps(r, t, {v}) /\ r.alive = t.alive \ {v}
<1>1. /\ t \in States /\ type.BufferSize \in Nat /\ v \in Objects /\ t.alive \subseteq Objects
      /\ Room(t, v) /\ t.memory[Null] = <<>> /\ Holds(t, Data(t, v), t.m_Size[v])
  BY DEF Good, InPlace, Owned, States
<1>2. PICK a : a = Data(t, v)
  OBVIOUS
<1>3. PICK N : N = t.m_Size[v]
  OBVIOUS
<1>4. PICK cap : cap = t.m_Capacity[v]
  OBVIOUS
<1>5. PICK old : old = t.m_DynamicBuffer[v]
  OBVIOUS
<1>6. N \in Nat /\ cap \in Nat /\ N <= cap /\ old \in Blocks \cup {Null}
  BY <1>1, <1>3, <1>4, <1>5 DEF States, Room
<1>7. v \in Places /\ v # Null /\ v \notin Blocks /\ Null \notin Blocks
  BY <1>1, VectorAssumption DEF Objects, Places
<1>8. /\ IsDynamic(t, v) <=> old # Null \/ type.BufferSize = 0
      /\ a \in Places /\ Len(t.memory[a]) = cap
      /\ IsDynamic(t, v) => a = old
      /\ ~IsDynamic(t, v) => a = v
  BY <1>1, <1>2, <1>4, <1>5, DataIs
<1>9. \A i \in 1..cap :
        /\ i <= N => t.memory[a][i] \in Values
        /\ i > N => type.trivial \/ t.memory[a][i] = Raw
  BY <1>1, <1>2, <1>3, <1>8 DEF Holds
<1>10. PICK slots : slots = 1..N
  OBVIOUS
<1>11. PICK q : q = DestroySlots(t, a, slots)
  OBVIOUS
<1>12. /\ ChangedAt(q, t, {a})
       /\ \A i \in 1..Len(t.memory[a]) :
            q.memory[a][i] = IF i \in slots /\ ~type.trivial THEN Raw ELSE t.memory[a][i]
  <2>1. \A i \in slots : i \in 1..cap /\ i <= N
    BY <1>6, <1>10
  <2>2. Destructible(t, a, slots)
    BY <1>8, <1>9, <2>1, VectorAssumption DEF Destructible
  <2>3. Cleared(q, t, a, slots)
    BY <1>1, <1>8, <1>11, <2>2, DestroyEffect, Zenon
  <2> QED
    BY <2>3 DEF Cleared
<1>13. /\ q \in States /\ Len(q.memory[a]) = cap
       /\ \A i \in 1..cap : type.trivial \/ q.memory[a][i] = Raw
  BY <1>6, <1>8, <1>9, <1>10, <1>12 DEF ChangedAt
<1>14. PICK p : p = IF IsDynamic(t, v) THEN Deallocate(q, a, cap) ELSE q
  OBVIOUS
<1>15. /\ p \in States /\ SameVectors(p, t)
       /\ \A b \in Places \ {a} : p.memory[b] = t.memory[b]
       /\ IsDynamic(t, v) => p.memory[a] = <<>>
  <2>1. CASE IsDynamic(t, v)
    <3>1. /\ p \in States /\ SameVectors(p, q) /\ p.memory[a] = <<>>
          /\ \A b \in Places \ {a} : p.memory[b] = q.memory[b]
      BY <1>6, <1>8, <1>13, <1>14, <2>1, DeallocateEffect
    <3> QED
      BY <1>12, <3>1 DEF ChangedAt, SameVectors
  <2>2. CASE ~IsDynamic(t, v)
    BY <1>12, <1>14, <2>2 DEF ChangedAt
  <2> QED
    BY <2>1, <2>2
<1>16. PICK r : r = Unmake(t, v)
  OBVIOUS
<1>17. r = [p EXCEPT !.alive = @ \ {v}, !.memory[v] = <<>>, !.DebugVector[v] = <<>>,
                     !.m_Size[v] = 0, !.m_Capacity[v] = 0, !.m_DynamicBuffer[v] = Null]
  BY <1>2, <1>3, <1>4, <1>10, <1>11, <1>14, <1>16 DEF Unmake
<1>18. /\ r.alive = p.alive \ {v} /\ r.fault = p.fault
       /\ r.memory = [p.memory EXCEPT ![v] = <<>>]
       /\ r.DebugVector = [p.DebugVector EXCEPT ![v] = <<>>]
       /\ r.m_Size = [p.m_Size EXCEPT ![v] = 0]
       /\ r.m_Capacity = [p.m_Capacity EXCEPT ![v] = 0]
       /\ r.m_DynamicBuffer = [p.m_DynamicBuffer EXCEPT ![v] = Null]
  BY <1>15, <1>17 DEF States
<1>19. r \in States
  <2>1. <<>> \in Seq(Values) /\ <<>> \in Seq(Values \cup {Raw})
    OBVIOUS
  <2> QED
    BY <1>15, <1>17, <2>1 DEF States
<1>20. /\ r.alive = t.alive \ {v} /\ r.fault = t.fault /\ r.memory[v] = <<>>
       /\ \A b \in Places \ {v} : r.memory[b] = p.memory[b]
       /\ \A u \in t.alive \ {v} :
            /\ r.m_Size[u] = t.m_Size[u] /\ r.m_Capacity[u] = t.m_Capacity[u]
            /\ r.m_DynamicBuffer[u] = t.m_DynamicBuffer[u]
  <2>1. /\ p.memory \in [Places -> Seq(Values \cup {Raw})]
        /\ p.m_Size \in [Objects -> Nat] /\ p.m_Capacity \in [Objects -> Nat]
        /\ p.m_DynamicBuffer \in [Objects -> Blocks \cup {Null}]
    BY <1>15 DEF States
  <2> QED
    BY <1>1, <1>7, <1>15, <1>18, <2>1 DEF SameVectors
<1>21. Keeps(r, t, {v})
  <2>1. a = v \/ a = Null \/ (a \in Blocks /\ a = old)
    <3>1. old = Null \/ old \in Blocks
      BY <1>6
    <3> QED
      BY <1>8, <3>1
  <2>2. r.memory[Null] = t.memory[Null]
    BY <1>1, <1>7, <1>8, <1>15, <1>20 DEF Places
  <2>3. \A b \in Places \ {v} :
          \/ r.memory[b] = t.memory[b]
          \/ b \in Blocks /\ (b = t.m_DynamicBuffer[v] \/ t.memory[b] = <<>>)
    BY <1>5, <1>15, <1>20, <2>1, <2>2
  <2>4. \A b \in Blocks :
          \/ r.memory[b] = <<>>
          \/ r.memory[b] = t.memory[b] /\ b # t.m_DynamicBuffer[v]
    BY <1>5, <1>7, <1>8, <1>15, <1>20 DEF Places
  <2> QED
    BY <1>19, <1>20, <2>3, <2>4, OneChanges
<1> QED
  BY <1>16, <1>20, <1>21

\* What exchanging the elements of two vectors makes of the memory of v itself.
Arrives(r, t, v, w) ==
  IF IsDynamic(t, w) THEN Holds(r, v, 0)
  ELSE /\ Holds(r, v, t.m_Size[w])
       /\ \A i \in 1..t.m_Size[w] : r.memory[v][i] = t.memory[w][i]

\* v has got the size, the capacity and the block of w, and m the memory.
TakesOver(r, m, t, v, w) ==
  /\ r.memory = m.memory /\ r.m_Size[v] = t.m_Size[w]
  /\ r.m_Capacity[v] = t.m_Capacity[w] /\ r.m_DynamicBuffer[v] = t.m_DynamicBuffer[w]

HoldsOther(r, t, v, w) ==
  /\ InPlace(r, v)
  /\ \A i \in 1..t.m_Size[w] : r.memory[Data(r, v)][i] = t.memory[Data(t, w)][i]

\* A vector that has got the other's size, capacity and block, and its elements
\* where they belong, is in place and holds what the other held.
LEMMA HalfSwapped ==
  ASSUME NEW t, Good(t), NEW v \in t.alive, NEW w \in t.alive, v # w,
         NEW m, ChangedAt(m, t, {v, w}), Arrives(m, t, v, w),
         NEW r \in States, TakesOver(r, m, t, v, w)
  PROVE  HoldsOther(r, t, v, w)
<1>0. /\ r.memory = m.memory /\ r.m_Size[v] = t.m_Size[w]
      /\ r.m_Capacity[v] = t.m_Capacity[w] /\ r.m_DynamicBuffer[v] = t.m_DynamicBuffer[w]
  BY DEF TakesOver
<1>1. /\ t \in States /\ type.BufferSize \in Nat /\ v \in Objects /\ w \in Objects
      /\ Room(t, v) /\ Room(t, w) /\ Holds(t, Data(t, w), t.m_Size[w])
  BY DEF Good, InPlace, States
<1>2. PICK block : block = t.m_DynamicBuffer[w]
  OBVIOUS
<1>3. block \in Blocks \cup {Null}
  BY <1>1, <1>2 DEF States
<1>4. block \in Places /\ v \in Places /\ block \notin {v, w}
  BY <1>1, <1>3, VectorAssumption DEF Places, Objects
<1>5. r.memory[block] = t.memory[block] /\ Len(r.memory[v]) = Len(t.memory[v])
  BY <1>0, <1>4 DEF ChangedAt
<1>6. Room(r, v)
  BY <1>0, <1>1, <1>2, <1>5 DEF Room
<1>7. /\ IsDynamic(r, v) <=> block # Null \/ type.BufferSize = 0
      /\ IsDynamic(r, v) => Data(r, v) = block
      /\ ~IsDynamic(r, v) => Data(r, v) = v
  BY <1>0, <1>1, <1>2, <1>6, DataIs
<1>8. /\ IsDynamic(t, w) <=> block # Null \/ type.BufferSize = 0
      /\ IsDynamic(t, w) => Data(t, w) = block
      /\ ~IsDynamic(t, w) => Data(t, w) = w
  BY <1>1, <1>2, DataIs
<1>9. CASE IsDynamic(t, w)
  <2>1. Data(r, v) = block /\ Data(t, w) = block
    BY <1>7, <1>8, <1>9
  <2>2. Holds(r, v, 0)
    BY <1>0, <1>9 DEF Arrives, Holds
  <2>3. Holds(r, block, r.m_Size[v])
    BY <1>0, <1>1, <1>5, <2>1 DEF Holds
  <2> QED
    BY <1>0, <1>5, <1>6, <2>1, <2>2, <2>3 DEF InPlace, HoldsOther
<1>10. CASE ~IsDynamic(t, w)
  <2>1. Data(r, v) = v /\ Data(t, w) = w
    BY <1>7, <1>8, <1>10
  <2>2. Holds(r, v, r.m_Size[v])
    BY <1>0, <1>10 DEF Arrives, Holds
  <2> QED
    BY <1>0, <1>6, <1>10, <2>1, <2>2 DEF InPlace, Arrives, HoldsOther
<1> QED
  BY <1>9, <1>10

\* One vector has its elements in its preallocated buffer: they move into the
\* preallocated buffer of the other.
LEMMA OneArrives ==
  ASSUME NEW t, Good(t), NEW v \in t.alive, NEW w \in t.alive, v # w,
         ~IsDynamic(t, v), IsDynamic(t, w)
  PROVE  LET m == MoveSlots(t, v, w, 1..t.m_Size[v])
         IN ChangedAt(m, t, {v, w}) /\ Arrives(m, t, v, w) /\ Arrives(m, t, w, v)
<1>1. /\ t \in States /\ type.BufferSize \in Nat /\ v \in Objects /\ w \in Objects
      /\ Room(t, v) /\ Room(t, w) /\ InPlace(t, v) /\ InPlace(t, w)
  BY DEF Good, InPlace, States
<1>2. v \in Places /\ w \in Places
  BY <1>1 DEF Places
<1>3. PICK size : size = type.BufferSize
  OBVIOUS
<1>4. PICK N : N = t.m_Size[v]
  OBVIOUS
<1>5. /\ Len(t.memory[v]) = size /\ Len(t.memory[w]) = size /\ size \in Nat
      /\ N \in Nat /\ N <= size
  <2>1. t.m_DynamicBuffer[v] = Null
    BY <1>1, DataIs
  <2> QED
    BY <1>1, <1>3, <1>4, <2>1 DEF Room, States
<1>6. Data(t, v) = v /\ Data(t, w) # w
  BY <1>1, DataIs
<1>7. /\ \A i \in 1..size : (i <= N => t.memory[v][i] \in Values)
                            /\ (i > N => type.trivial \/ t.memory[v][i] = Raw)
      /\ \A i \in 1..size : type.trivial \/ t.memory[w][i] = Raw
  BY <1>1, <1>4, <1>5, <1>6 DEF InPlace, Holds
<1>8. PICK slots : slots = 1..N
  OBVIOUS
<1>9. PICK m : m = MoveSlots(t, v, w, slots)
  OBVIOUS
<1>10. Moved(m, t, v, w, slots)
  <2>1. Movable(t, v, w, slots)
    BY <1>5, <1>7, <1>8 DEF Movable
  <2> QED
    BY <1>1, <1>2, <1>9, <2>1, MoveEffect
<1>11. /\ ChangedAt(m, t, {v, w}) /\ Len(m.memory[v]) = size /\ Len(m.memory[w]) = size
       /\ \A i \in 1..size :
            /\ m.memory[v][i] = IF i <= N /\ ~type.trivial THEN Raw ELSE t.memory[v][i]
            /\ m.memory[w][i] = IF i <= N THEN t.memory[v][i] ELSE t.memory[w][i]
  BY <1>5, <1>8, <1>10 DEF Moved, ChangedAt
<1>12. Arrives(m, t, v, w)
  BY <1>5, <1>7, <1>11 DEF Arrives, Holds
<1>13. Arrives(m, t, w, v)
  BY <1>4, <1>5, <1>7, <1>11 DEF Arrives, Holds
<1> QED
  BY <1>4, <1>8, <1>9, <1>11, <1>12, <1>13

\* Both have them there: they are exchanged as far as both have some, and the
\* others move.
LEMMA BothArrive ==
  ASSUME NEW t, Good(t), NEW v \in t.alive, NEW w \in t.alive, v # w,
         ~IsDynamic(t, v), ~IsDynamic(t, w), t.m_Size[v] <= t.m_Size[w]
  PROVE  LET m == MoveSlots(ExchangeSlots(t, v, w, 1..t.m_Size[v]), w, v,
                            (t.m_Size[v] + 1)..t.m_Size[w])
         IN ChangedAt(m, t, {v, w}) /\ Arrives(m, t, v, w) /\ Arrives(m, t, w, v)
<1>1. /\ t \in States /\ type.BufferSize \in Nat /\ v \in Objects /\ w \in Objects
      /\ Room(t, v) /\ Room(t, w) /\ InPlace(t, v) /\ InPlace(t, w)
  BY DEF Good, InPlace, States
<1>2. v \in Places /\ w \in Places
  BY <1>1 DEF Places
<1>3. PICK size : size = type.BufferSize
  OBVIOUS
<1>4. PICK N : N = t.m_Size[v]
  OBVIOUS
<1>5. PICK M : M = t.m_Size[w]
  OBVIOUS
<1>6. /\ Len(t.memory[v]) = size /\ Len(t.memory[w]) = size /\ size \in Nat
      /\ N \in Nat /\ M \in Nat /\ N <= M /\ M <= size
  <2>1. t.m_DynamicBuffer[w] = Null
    BY <1>1, DataIs
  <2> QED
    BY <1>1, <1>3, <1>4, <1>5, <2>1 DEF Room, States
<1>7. Data(t, v) = v /\ Data(t, w) = w
  BY <1>1, DataIs
<1>8. \A i \in 1..size :
        /\ i <= N => t.memory[v][i] \in Values
        /\ i > N => type.trivial \/ t.memory[v][i] = Raw
        /\ i <= M => t.memory[w][i] \in Values
        /\ i > M => type.trivial \/ t.memory[w][i] = Raw
  BY <1>1, <1>4, <1>5, <1>6, <1>7 DEF InPlace, Holds
<1>9. PICK both : both = 1..N
  OBVIOUS
<1>10. PICK q : q = ExchangeSlots(t, v, w, both)
  OBVIOUS
<1>11. /\ q \in States /\ ChangedAt(q, t, {v, w})
       /\ Len(q.memory[v]) = size /\ Len(q.memory[w]) = size
       /\ \A i \in 1..size :
            /\ q.memory[v][i] = IF i <= N THEN t.memory[w][i] ELSE t.memory[v][i]
            /\ q.memory[w][i] = IF i <= N THEN t.memory[v][i] ELSE t.memory[w][i]
  <2>1. both \subseteq 1..Len(t.memory[v]) /\ both \subseteq 1..Len(t.memory[w])
    BY <1>6, <1>9
  <2>2. Exchange(q, t, v, w, both)
    BY <1>1, <1>2, <1>10, <2>1, ExchangeEffect
  <2> QED
    BY <1>6, <1>9, <2>2 DEF ChangedAt, Exchange
<1>12. PICK rest : rest = (N + 1)..M
  OBVIOUS
<1>13. PICK m : m = MoveSlots(q, w, v, rest)
  OBVIOUS
<1>14. Moved(m, q, w, v, rest)
  <2>1. Movable(q, w, v, rest)
    BY <1>6, <1>8, <1>11, <1>12 DEF Movable
  <2> QED
    BY <1>2, <1>11, <1>13, <2>1, MoveEffect
<1>15. /\ ChangedAt(m, t, {v, w}) /\ Len(m.memory[v]) = size /\ Len(m.memory[w]) = size
  BY <1>11, <1>14 DEF Moved, ChangedAt, SameVectors
<1>16. \A i \in 1..size :
         /\ m.memory[v][i] = IF i <= M THEN t.memory[w][i] ELSE t.memory[v][i]
         /\ m.memory[w][i] = IF i <= N THEN t.memory[v][i]
                             ELSE IF i <= M /\ ~type.trivial THEN Raw ELSE t.memory[w][i]
  BY <1>6, <1>11, <1>12, <1>14 DEF Moved
<1>17. Arrives(m, t, v, w)
  BY <1>5, <1>6, <1>8, <1>15, <1>16 DEF Arrives, Holds
<1>18. Arrives(m, t, w, v)
  BY <1>4, <1>6, <1>8, <1>15, <1>16 DEF Arrives, Holds
<1> QED
  BY <1>4, <1>5, <1>9, <1>10, <1>12, <1>13, <1>15, <1>17, <1>18

\* Swapping exchanges the elements, whichever buffers they are in.
LEMMA SwapEffect ==
  ASSUME NEW t, Good(t), NEW v \in t.alive, NEW w \in t.alive, v # w
  PROVE  LET r == Swap(t, v, w)
         IN /\ Keeps(r, t, {v, w}) /\ r.alive = t.alive
            /\ Elements(r, v) = Elements(t, w) /\ Elements(r, w) = Elements(t, v)
<1>1. /\ t \in States /\ type.BufferSize \in Nat /\ v \in Objects /\ w \in Objects
      /\ Room(t, v) /\ Room(t, w) /\ InPlace(t, v) /\ InPlace(t, w) /\ Owned(t)
      /\ t.alive \subseteq Objects
  BY DEF Good, InPlace, States
<1>2. PICK m : m = SwapInPlace(t, v, w)
  OBVIOUS
<1>3. ChangedAt(m, t, {v, w}) /\ Arrives(m, t, v, w) /\ Arrives(m, t, w, v)
  <2>1. CASE IsDynamic(t, v) /\ IsDynamic(t, w)
    <3>1. m = t
      BY <1>2, <2>1 DEF SwapInPlace
    <3>2. Holds(t, v, 0) /\ Holds(t, w, 0)
      BY <1>1, <2>1, DataIs DEF InPlace
    <3> QED
      BY <1>1, <2>1, <3>1, <3>2 DEF ChangedAt, SameVectors, Arrives
  <2>2. CASE ~IsDynamic(t, v) /\ IsDynamic(t, w)
    <3>1. m = MoveSlots(t, v, w, 1..t.m_Size[v])
      BY <1>2, <2>2 DEF SwapInPlace
    <3> QED
      BY <2>2, <3>1, OneArrives
  <2>3. CASE IsDynamic(t, v) /\ ~IsDynamic(t, w)
    <3>1. m = MoveSlots(t, w, v, 1..t.m_Size[w])
      BY <1>2, <2>3 DEF SwapInPlace
    <3>2. ChangedAt(m, t, {w, v}) /\ Arrives(m, t, v, w) /\ Arrives(m, t, w, v)
      BY <2>3, <3>1, OneArrives
    <3>3. {v, w} = {w, v}
      OBVIOUS
    <3> QED
      BY <3>2, <3>3
  <2>4. CASE ~IsDynamic(t, v) /\ ~IsDynamic(t, w) /\ t.m_Size[v] < t.m_Size[w]
    <3>1. m = MoveSlots(ExchangeSlots(t, v, w, 1..t.m_Size[v]), w, v,
                        (t.m_Size[v] + 1)..t.m_Size[w])
      BY <1>2, <2>4 DEF SwapInPlace
    <3>2. t.m_Size[v] <= t.m_Size[w]
      BY <1>1, <2>4 DEF States
    <3> QED
      BY <2>4, <3>1, <3>2, BothArrive
  <2>5. CASE ~IsDynamic(t, v) /\ ~IsDynamic(t, w) /\ ~(t.m_Size[v] < t.m_Size[w])
    <3>1. m = MoveSlots(ExchangeSlots(t, w, v, 1..t.m_Size[w]), v, w,
                        (t.m_Size[w] + 1)..t.m_Size[v])
      BY <1>2, <2>5 DEF SwapInPlace
    <3>2. t.m_Size[w] <= t.m_Size[v]
      BY <1>1, <2>5 DEF States
    <3>3. ChangedAt(m, t, {w, v}) /\ Arrives(m, t, v, w) /\ Arrives(m, t, w, v)
      BY <2>5, <3>1, <3>2, BothArrive
    <3>4. {v, w} = {w, v}
      OBVIOUS
    <3> QED
      BY <3>3, <3>4
  <2> QED
    BY <2>1, <2>2, <2>3, <2>4, <2>5
<1>4. PICK r : r = Swap(t, v, w)
  OBVIOUS
<1>5. r = [m EXCEPT !.m_DynamicBuffer = Exchanged(m.m_DynamicBuffer, v, w),
                    !.m_Capacity = Exchanged(m.m_Capacity, v, w),
                    !.m_Size = Exchanged(m.m_Size, v, w),
                    !.DebugVector = Exchanged(m.DebugVector, v, w)]
  BY <1>2, <1>4 DEF Swap
<1>6. m \in States /\ SameVectors(m, t)
  BY <1>3 DEF ChangedAt
<1>7. r \in States
  BY <1>1, <1>5, <1>6 DEF States, Exchanged
<1>8. /\ r.alive = t.alive /\ r.fault = t.fault /\ r.memory = m.memory
      /\ r.m_DynamicBuffer[v] = t.m_DynamicBuffer[w]
      /\ r.m_DynamicBuffer[w] = t.m_DynamicBuffer[v]
      /\ r.m_Capacity[v] = t.m_Capacity[w] /\ r.m_Capacity[w] = t.m_Capacity[v]
      /\ r.m_Size[v] = t.m_Size[w] /\ r.m_Size[w] = t.m_Size[v]
      /\ \A u \in Objects \ {v, w} :
           /\ r.m_Size[u] = t.m_Size[u] /\ r.m_Capacity[u] = t.m_Capacity[u]
           /\ r.m_DynamicBuffer[u] = t.m_DynamicBuffer[u]
  BY <1>1, <1>5, <1>6 DEF States, SameVectors, Exchanged
<1>9. /\ InPlace(r, v)
      /\ \A i \in 1..t.m_Size[w] : r.memory[Data(r, v)][i] = t.memory[Data(t, w)][i]
  <2>1. TakesOver(r, m, t, v, w)
    BY <1>8 DEF TakesOver
  <2>2. HoldsOther(r, t, v, w)
    BY <1>3, <1>7, <2>1, HalfSwapped, Zenon
  <2> QED
    BY <2>2, Zenon DEF HoldsOther
<1>10. /\ InPlace(r, w)
       /\ \A i \in 1..t.m_Size[v] : r.memory[Data(r, w)][i] = t.memory[Data(t, v)][i]
  <2>1. ChangedAt(m, t, {w, v})
    <3>1. {v, w} = {w, v}
      OBVIOUS
    <3> QED
      BY <1>3, <3>1
  <2>2. TakesOver(r, m, t, w, v)
    BY <1>8 DEF TakesOver
  <2>3. HoldsOther(r, t, w, v)
    BY <1>3, <1>7, <2>1, <2>2, HalfSwapped, Zenon
  <2> QED
    BY <2>3, Zenon DEF HoldsOther
<1>11. \A a \in Places \ {v, w} : r.memory[a] = t.memory[a]
  BY <1>3, <1>8 DEF ChangedAt
<1>12. Owned(r)
  <2>1. \A a \in Blocks \cup {Null} : r.memory[a] = t.memory[a]
    BY <1>1, <1>11, VectorAssumption DEF Places, Objects
  <2>2. ASSUME NEW x \in r.alive, NEW u \in r.alive,
               r.m_DynamicBuffer[x] = r.m_DynamicBuffer[u], r.m_DynamicBuffer[x] # Null
        PROVE  x = u
    BY <1>1, <1>8, <2>2 DEF Owned
  <2>3. ASSUME NEW block \in Blocks, r.memory[block] # <<>>
        PROVE  \E u \in r.alive : r.m_DynamicBuffer[u] = block
    <3>1. PICK u \in t.alive : t.m_DynamicBuffer[u] = block
      BY <1>1, <2>1, <2>3 DEF Owned
    <3> QED
      BY <1>1, <1>8, <3>1
  <2> QED
    BY <1>1, <2>1, <2>2, <2>3 DEF Owned
<1>13. Keeps(r, t, {v, w})
  <2>1. \A u \in t.alive \ {v, w} :
          /\ r.m_Size[u] = t.m_Size[u] /\ r.m_Capacity[u] = t.m_Capacity[u]
          /\ r.m_DynamicBuffer[u] = t.m_DynamicBuffer[u]
          /\ u \notin {v, w} /\ t.m_DynamicBuffer[u] \notin {v, w}
    BY <1>1, <1>8, MemoryApart
  <2>2. r.alive \ {v, w} = t.alive \ {v, w} /\ \A u \in r.alive \cap {v, w} : InPlace(r, u)
    BY <1>8, <1>9, <1>10
  <2> QED
    BY <1>7, <1>8, <1>11, <1>12, <2>1, <2>2, OthersKeep
<1>14. Good(r) /\ v \in r.alive /\ w \in r.alive
  BY <1>8, <1>13 DEF Keeps
<1>15. Elements(r, v) = Elements(t, w)
  <2>1. PICK list : list = Elements(t, w)
    OBVIOUS
  <2>2. /\ list \in Seq(Values) /\ Len(list) = r.m_Size[v]
        /\ \A i \in 1..Len(list) : r.memory[Data(r, v)][i] = list[i]
    BY <1>8, <1>9, <2>1, ElementsAre
  <2> QED
    BY <1>14, <2>1, <2>2, ElementsFrom
<1>16. Elements(r, w) = Elements(t, v)
  <2>1. PICK list : list = Elements(t, v)
    OBVIOUS
  <2>2. /\ list \in Seq(Values) /\ Len(list) = r.m_Size[w]
        /\ \A i \in 1..Len(list) : r.memory[Data(r, w)][i] = list[i]
    BY <1>8, <1>10, <2>1, ElementsAre
  <2> QED
    BY <1>14, <2>1, <2>2, ElementsFrom
<1> QED
  BY <1>4, <1>8, <1>13, <1>15, <1>16

\* Bringing the second copy up to date leaves what the vector has become.
LEMMA BecomesWithDebug ==
  ASSUME NEW t, NEW q, NEW v \in Objects, NEW list, Becomes(q, t, v, list),
         NEW copy \in Seq(Values)
  PROVE  Becomes(DebugIs(q, v, copy), t, v, list)
<1>1. PICK r : r = DebugIs(q, v, copy)
  OBVIOUS
<1>2. Keeps(r, q, {}) /\ r.alive = q.alive
  BY <1>1, DebugEffect DEF Becomes, Keeps
<1>3. Elements(r, v) = Elements(q, v)
  BY <1>2 DEF Becomes, Keeps
<1>4. Keeps(r, t, {v})
  BY <1>2, KeepsMore DEF Becomes
<1> QED
  BY <1>1, <1>2, <1>3, <1>4 DEF Becomes

\* A new vector that is given n elements at once.
LEMMA MakeExtended ==
  ASSUME NEW t, Good(t), NEW v \in Objects \ t.alive, NEW list \in Seq(Values),
         Len(list) <= MaxSize, NEW block \in Blocks, t.memory[block] = <<>>
  PROVE  Becomes(Extend(Make(t, v), v, Len(list), list, block), t, v, list)
<1>1. PICK q : q = Make(t, v)
  OBVIOUS
<1>2. /\ Keeps(q, t, {v}) /\ q.alive = t.alive \cup {v}
      /\ q.m_Size[v] = 0 /\ Elements(q, v) = <<>> /\ q.memory[block] = <<>>
  BY <1>1, MakeEffect
<1>3. PICK n : n = Len(list)
  OBVIOUS
<1>4. n \in 0..MaxSize /\ Addition(q, v, n, list)
  BY <1>2, <1>3, VectorAssumption DEF Addition
<1>5. PICK r : r = Extend(q, v, n, list, block)
  OBVIOUS
<1>6. /\ Keeps(r, q, {v}) /\ r.alive = q.alive
      /\ Elements(r, v) = Extended(Elements(q, v), n, list)
  <2>1. Good(q) /\ v \in q.alive /\ q.memory[block] = <<>>
    BY <1>2 DEF Keeps
  <2>2. Keeps(Extend(q, v, n, list, block), q, {v})
    BY <1>4, <2>1, ExtendEffect
  <2>3. Keeps(r, q, {v})
    BY <1>5, <2>2
  <2> QED
    BY <1>4, <1>5, <2>1, <2>3, ExtendEffect
<1>7. Extended(<<>>, n, list) = list
  <2>1. PICK all : all = Extended(<<>>, n, list)
    OBVIOUS
  <2>2. all = [i \in 1..n |-> list[i]]
    BY <1>4, <2>1, EmptySeq DEF Extended
  <2>3. all \in Seq(Values) /\ Len(all) = n /\ \A i \in 1..n : all[i] = list[i]
    BY <1>3, <2>2
  <2>4. all = list
    BY <1>3, <2>3, SeqEqual
  <2> QED
    BY <2>1, <2>4
<1>8. Becomes(r, t, v, list)
  BY <1>2, <1>6, <1>7, KeepsTwice DEF Becomes
<1> QED
  BY <1>1, <1>3, <1>5, <1>8

\* The constructor from a count and a value.
LEMMA MakeCountEffect ==
  ASSUME NEW t, Good(t), NEW v \in Objects \ t.alive, NEW n \in 0..MaxSize,
         NEW x \in Values, NEW block \in Blocks, t.memory[block] = <<>>
  PROVE  Becomes(MakeCount(t, v, n, x, block), t, v, [i \in 1..n |-> x])
<1>1. PICK list : list = [i \in 1..n |-> x]
  OBVIOUS
<1>2. list \in Seq(Values) /\ Len(list) = n /\ Len(list) <= MaxSize
  BY <1>1, VectorAssumption
<1>3. PICK q : q = Extend(Make(t, v), v, n, list, block)
  OBVIOUS
<1>4. Becomes(q, t, v, list)
  <2>1. Becomes(Extend(Make(t, v), v, Len(list), list, block), t, v, list)
    BY <1>2, MakeExtended
  <2> QED
    BY <1>2, <1>3, <2>1
<1>5. Becomes(DebugIs(q, v, list), t, v, list)
  BY <1>2, <1>4, BecomesWithDebug
<1> QED
  BY <1>1, <1>3, <1>5 DEF MakeCount

\* The copy constructor.
LEMMA MakeCopyEffect ==
  ASSUME NEW t, Good(t), NEW v \in Objects \ t.alive, NEW w \in t.alive,
         NEW block \in Blocks, t.memory[block] = <<>>
  PROVE  Becomes(MakeCopy(t, v, w, block), t, v, Elements(t, w))
<1>1. PICK list : list = Elements(t, w)
  OBVIOUS
<1>2. list \in Seq(Values) /\ Len(list) = t.m_Size[w] /\ Len(list) <= MaxSize
  BY <1>1, ElementsAre
<1>3. PICK q : q = Extend(Make(t, v), v, t.m_Size[w], list, block)
  OBVIOUS
<1>4. Becomes(q, t, v, list)
  <2>1. Becomes(Extend(Make(t, v), v, Len(list), list, block), t, v, list)
    BY <1>2, MakeExtended
  <2> QED
    BY <1>2, <1>3, <2>1
<1>5. PICK copy : copy = IF type.trivial THEN <<>> ELSE list
  OBVIOUS
<1>6. copy \in Seq(Values)
  BY <1>2, <1>5, EmptySeq
<1>7. Becomes(DebugIs(q, v, copy), t, v, list)
  BY <1>4, <1>6, BecomesWithDebug
<1> QED
  BY <1>1, <1>3, <1>5, <1>7 DEF MakeCopy

\* The move constructor leaves an empty vector behind.
LEMMA MakeMovedEffect ==
  ASSUME NEW t, Good(t), NEW v \in Objects \ t.alive, NEW w \in t.alive
  PROVE  LET r == MakeMoved(t, v, w)
         IN /\ Keeps(r, t, {v, w}) /\ r.alive = t.alive \cup {v}
            /\ Elements(r, v) = Elements(t, w) /\ Elements(r, w) = <<>>
<1>1. PICK q : q = Make(t, v)
  OBVIOUS
<1>2. /\ Keeps(q, t, {v}) /\ q.alive = t.alive \cup {v} /\ Elements(q, v) = <<>>
  BY <1>1, MakeEffect
<1>3. /\ Good(q) /\ v \in q.alive /\ w \in q.alive /\ w # v
      /\ Elements(q, w) = Elements(t, w)
  BY <1>2 DEF Keeps
<1>4. PICK p : p = Swap(q, w, v)
  OBVIOUS
<1>5. /\ Keeps(p, q, {w, v}) /\ p.alive = q.alive
      /\ Elements(p, v) = Elements(q, w) /\ Elements(p, w) = Elements(q, v)
  BY <1>3, <1>4, SwapEffect
<1>6. Good(p) /\ v \in Objects /\ p.DebugVector[v] \in Seq(Values)
  BY <1>5 DEF Keeps, Good, States
<1>7. PICK r : r = DebugIs(p, v, p.DebugVector[v])
  OBVIOUS
<1>8. Keeps(r, p, {}) /\ r.alive = p.alive
  BY <1>6, <1>7, DebugEffect
<1>9. Elements(r, v) = Elements(t, w) /\ Elements(r, w) = <<>>
  BY <1>2, <1>3, <1>5, <1>8 DEF Keeps
<1>10. Keeps(r, t, {v, w})
  BY <1>2, <1>5, <1>8 DEF Keeps
<1>11. MakeMoved(t, v, w) = r
  BY <1>1, <1>4, <1>7 DEF MakeMoved
<1> QED
  BY <1>2, <1>5, <1>8, <1>9, <1>10, <1>11

\* operator= swaps with its parameter, which is then destroyed.
LEMMA AssignParamEffect ==
  ASSUME NEW t, Good(t), NEW v \in t.alive, Param \in t.alive, v # Param
  PROVE  LET r == AssignParam(t, v)
         IN /\ Keeps(r, t, {v, Param}) /\ r.alive = t.alive \ {Param}
            /\ Elements(r, v) = Elements(t, Param)
<1>1. PICK p : p = Swap(t, v, Param)
  OBVIOUS
<1>2. /\ Keeps(p, t, {v, Param}) /\ p.alive = t.alive
      /\ Elements(p, v) = Elements(t, Param)
  BY <1>1, SwapEffect
<1>3. Good(p) /\ v \in Objects /\ p.DebugVector[v] \in Seq(Values)
  BY <1>2 DEF Keeps, Good, States
<1>4. PICK q : q = DebugIs(p, v, p.DebugVector[v])
  OBVIOUS
<1>5. Keeps(q, p, {}) /\ q.alive = p.alive
  BY <1>3, <1>4, DebugEffect
<1>6. PICK r : r = Unmake(q, Param)
  OBVIOUS
<1>7. Keeps(r, q, {Param}) /\ r.alive = q.alive \ {Param}
  BY <1>2, <1>5, <1>6, UnmakeEffect DEF Keeps
<1>8. Elements(r, v) = Elements(t, Param)
  BY <1>2, <1>5, <1>7 DEF Keeps
<1>9. Keeps(r, t, {v, Param})
  BY <1>2, <1>5, <1>7 DEF Keeps
<1>10. AssignParam(t, v) = r
  BY <1>1, <1>4, <1>6 DEF AssignParam
<1> QED
  BY <1>2, <1>5, <1>7, <1>8, <1>9, <1>10

-----------------------------------------------------------------------------
(* The calls                                                               *)

\* The list of v in a state t of the vectors and p of the calls in progress.
ListIn(t, p, v) == IF v \in t.alive THEN Elements(t, v) \o p[v] ELSE Gone

ListsIn(t, p) == [v \in Vectors |-> ListIn(t, p, v)]

\* A vector holds the one list and takes the other.
Fits(list, more) == Len(list) + Len(more) <= MaxSize

Joined(list, more) == list \o more

Changed(f, v, x) == [f EXCEPT ![v] = x]

\* A call that makes a list of v and has more to push.
LEMMA CallBecomes ==
  ASSUME IInv, s.fault = "none", NEW v \in Vectors, NEW r, NEW list, Becomes(r, s, v, list),
         NEW more \in Seq(Values), Fits(list, more),
         NEW p, p = Changed(pending, v, more)
  PROVE  /\ Fine(r, p)
         /\ ListsIn(r, p) = Changed(ListsIn(s, pending), v, Joined(list, more))
<1>1. /\ Good(s) /\ Param \notin s.alive /\ pending \in [Vectors -> Seq(Values)]
      /\ \A u \in Vectors : pending[u] # <<>> =>
           u \in s.alive /\ s.m_Size[u] + Len(pending[u]) <= MaxSize
  BY DEF IInv, Fine
<1>2. /\ p \in [Vectors -> Seq(Values)] /\ p[v] = more
      /\ \A u \in Vectors \ {v} : p[u] = pending[u]
  BY <1>1 DEF Changed
<1>3. /\ Good(r) /\ r.fault \in {"none", "assertion"} /\ r.alive = s.alive \cup {v}
      /\ Elements(r, v) = list
      /\ \A u \in s.alive \ {v} : Elements(r, u) = Elements(s, u)
  BY DEF Becomes, Keeps
<1>4. Param \notin r.alive
  BY <1>1, <1>3, VectorAssumption
<1>5. \A u \in s.alive : Len(Elements(s, u)) = s.m_Size[u]
  BY <1>1, ElementsAre
<1>6. \A u \in r.alive : Len(Elements(r, u)) = r.m_Size[u]
  BY <1>3, ElementsAre
<1>7. ASSUME NEW u \in Vectors, p[u] # <<>>
      PROVE  u \in r.alive /\ r.m_Size[u] + Len(p[u]) <= MaxSize
  <2>1. CASE u = v
    <3>1. r.m_Size[u] = Len(list)
      BY <1>3, <1>6, <2>1
    <3> QED
      BY <1>2, <1>3, <2>1, <3>1 DEF Fits
  <2>2. CASE u # v
    <3>1. u \in s.alive \ {v} /\ p[u] = pending[u] /\ s.m_Size[u] + Len(pending[u]) <= MaxSize
      BY <1>1, <1>2, <1>7, <2>2
    <3>2. r.m_Size[u] = s.m_Size[u]
      BY <1>3, <1>5, <1>6, <3>1
    <3> QED
      BY <1>3, <3>1, <3>2
  <2> QED
    BY <2>1, <2>2
<1>8. Fine(r, p)
  BY <1>2, <1>3, <1>4, <1>7 DEF Fine
<1>9. ListsIn(r, p) = Changed(ListsIn(s, pending), v, Joined(list, more))
  BY <1>2, <1>3 DEF ListsIn, ListIn, Changed, Joined
<1> QED
  BY <1>8, <1>9

\* A call that pushes nothing.
LEMMA CallOf ==
  ASSUME IInv, Idle, NEW v \in Vectors, NEW r, NEW list, Becomes(r, s, v, list)
  PROVE  /\ Fine(r, pending)
         /\ ListsIn(r, pending) = Changed(ListsIn(s, pending), v, list)
<1>1. s.fault = "none" /\ pending[v] = <<>> /\ pending \in [Vectors -> Seq(Values)]
  BY DEF Idle, IInv, Fine
<1>2. Good(r) /\ v \in r.alive /\ Elements(r, v) = list
  BY DEF Becomes, Keeps
<1>3. list \in Seq(Values) /\ Len(list) <= MaxSize
  BY <1>2, ElementsAre
<1>4. PICK more : more = <<>>
  OBVIOUS
<1>5. more \in Seq(Values) /\ Fits(list, more) /\ Joined(list, more) = list
  BY <1>3, <1>4 DEF Fits, Joined
<1>6. PICK p : p = Changed(pending, v, more)
  OBVIOUS
<1>7. Fine(r, p)
  BY <1>1, <1>5, <1>6, CallBecomes
<1>8. ListsIn(r, p) = Changed(ListsIn(s, pending), v, Joined(list, more))
  BY <1>1, <1>5, <1>6, CallBecomes
<1>9. p = pending
  BY <1>1, <1>4, <1>6 DEF Changed
<1> QED
  BY <1>5, <1>7, <1>8, <1>9

\* A call about the lists of two vectors.
LEMMA CallOfTwo ==
  ASSUME IInv, Idle, NEW v \in Vectors, NEW w \in Vectors, v # w, NEW r, NEW x, NEW y,
         Keeps(r, s, {v, w}), r.alive = s.alive \cup {v, w},
         Elements(r, v) = x, Elements(r, w) = y
  PROVE  /\ Fine(r, pending)
         /\ ListsIn(r, pending) = [ListsIn(s, pending) EXCEPT ![v] = x, ![w] = y]
<1>1. /\ s.fault = "none" /\ \A u \in Vectors : pending[u] = <<>>
      /\ pending \in [Vectors -> Seq(Values)] /\ Param \notin s.alive
  BY DEF Idle, IInv, Fine
<1>2. /\ Good(r) /\ r.fault \in {"none", "assertion"}
      /\ \A u \in s.alive \ {v, w} : Elements(r, u) = Elements(s, u)
  BY <1>1 DEF Keeps
<1>3. x \in Seq(Values) /\ y \in Seq(Values)
  BY <1>2, ElementsAre
<1>4. Fine(r, pending)
  BY <1>1, <1>2, VectorAssumption DEF Fine
<1>5. x \o <<>> = x /\ y \o <<>> = y
  BY <1>3
<1>6. ListsIn(r, pending) = [ListsIn(s, pending) EXCEPT ![v] = x, ![w] = y]
  BY <1>1, <1>2, <1>5 DEF ListsIn, ListIn
<1> QED
  BY <1>4, <1>6

\* Only the fault differs.
LEMMA FaultEffect ==
  ASSUME NEW t \in States, NEW p, NEW f \in {"dangling", "twice", t.fault}, Fine(t, p)
  PROVE  LET r == [t EXCEPT !.fault = f] IN Fine(r, p) /\ ListsIn(r, p) = ListsIn(t, p)
<1>1. PICK r : r = [t EXCEPT !.fault = f]
  OBVIOUS
<1>2. /\ r.alive = t.alive /\ r.fault = f /\ r.m_Size = t.m_Size /\ r.memory = t.memory
      /\ r.m_DynamicBuffer = t.m_DynamicBuffer
  BY <1>1 DEF States
<1>3. \A v : Elements(r, v) = Elements(t, v)
  BY <1>2 DEF Elements, Contents, Data, IsDynamic
<1>4. ListsIn(r, p) = ListsIn(t, p)
  BY <1>2, <1>3 DEF ListsIn, ListIn
<1>5. Fine(r, p)
  <2>1. CASE f = t.fault
    <3>1. r = t
      BY <1>1, <2>1 DEF States
    <3> QED
      BY <3>1
  <2>2. CASE f # t.fault
    BY <1>2, <2>2 DEF Fine
  <2> QED
    BY <2>1, <2>2
<1> QED
  BY <1>1, <1>4, <1>5

-----------------------------------------------------------------------------
(* The calls and ValueLists                                                *)

\* The lists of the vectors, as ImplementsLists has them.
Now == [v \in Vectors |-> ListOf(v)]

\* The lists that the state stands for are those read from s and pending.
LEMMA NowIs == Now = ListsIn(s, pending)
  BY DEF Now, ListsIn, ListIn, ListOf, Exists

\* What a state r of the vectors means is the same a step later.
LEMMA Later ==
  ASSUME TypeOK, type' = type, NEW r, NEW p, s' = r, pending' = p, Fine(r, p)
  PROVE  IInv' /\ Now' = ListsIn(r, p)
<1>1. \A v : IsDynamic(s, v)' <=> IsDynamic(r, v)
  BY DEF IsDynamic
<1>2. \A v : Data(s, v)' = Data(r, v)
  BY <1>1 DEF Data
<1>3. \A v : Elements(s, v)' = Elements(r, v)
  BY <1>2 DEF Elements, Contents
<1>4. Now' = ListsIn(r, p)
  BY <1>3 DEF Now, ListsIn, ListIn, ListOf, Exists
<1>5. \A v : InPlace(s, v)' <=> InPlace(r, v)
  BY <1>2 DEF InPlace, Room, Holds
<1>6. Good(s)' <=> Good(r)
  BY <1>5 DEF Good, Owned, States
<1>7. TypeOK'
  BY DEF TypeOK
<1>8. Fine(s, pending)'
  BY <1>6 DEF Fine
<1> QED
  BY <1>4, <1>7, <1>8 DEF IInv

\* The list of a vector in ValueLists.
LEMMA ListOfVector ==
  ASSUME IInv, s.fault = "none", NEW v \in Vectors
  PROVE  /\ List!Exists(v) <=> v \in s.alive
         /\ v \in s.alive => /\ Elements(s, v) \in Seq(Values) /\ pending[v] \in Seq(Values)
                             /\ Now[v] = Elements(s, v) \o pending[v]
                             /\ pending[v] = <<>> => Now[v] = Elements(s, v)
<1>1. Good(s) /\ pending[v] \in Seq(Values)
  BY DEF IInv, Fine
<1>2. CASE v \in s.alive
  <2>1. Elements(s, v) \in Seq(Values)
    BY <1>1, <1>2, ElementsAre
  <2>2. Elements(s, v) \o pending[v] \in Seq(Values)
    BY <1>1, <2>1
  <2>3. Now[v] = Elements(s, v) \o pending[v]
    BY <1>2 DEF Now, ListOf, Exists
  <2>4. Elements(s, v) \o <<>> = Elements(s, v)
    BY <2>1
  <2> QED
    BY <1>1, <1>2, <2>1, <2>2, <2>3, <2>4, VectorAssumption DEF List!Exists, Now
<1>3. CASE v \notin s.alive
  BY <1>3 DEF List!Exists, ListOf, Exists
<1> QED
  BY <1>2, <1>3

\* A call that does what becoming a list is.
LEMMA CallStep ==
  ASSUME IInv, NEW v \in Vectors, NEW r, NEW list, Becomes(r, s, v, list), Calls(r)
  PROVE  IInv' /\ List!Become(v, list)
<1>1. Idle /\ s' = r /\ type' = type /\ pending' = pending
  BY DEF Calls
<1>2. /\ Fine(r, pending)
      /\ ListsIn(r, pending) = Changed(ListsIn(s, pending), v, list)
  BY <1>1, CallOf
<1>3. PICK p : p = pending
  OBVIOUS
<1>4. IInv' /\ Now' = ListsIn(r, p)
  BY <1>1, <1>2, <1>3, Later DEF IInv
<1>5. Now' = Changed(Now, v, list)
  BY <1>2, <1>3, <1>4, NowIs
<1> QED
  BY <1>4, <1>5 DEF List!Become, Now, Changed

\* The default constructor creates the empty list.
LEMMA ConstructStep ==
  ASSUME IInv, NEW v \in Vectors, Construct0(v)
  PROVE  IInv' /\ List!CreateFrom(v, List!Copies(0, Default))
<1>1. s.fault = "none" /\ Good(s) /\ v \in Objects \ s.alive
  BY DEF Construct0, Calls, Idle, IInv, Fine, Exists, Objects
<1>2. PICK r : r = Make(s, v)
  OBVIOUS
<1>3. Becomes(r, s, v, <<>>)
  BY <1>1, <1>2, MakeEffect DEF Becomes
<1>4. IInv' /\ List!Become(v, <<>>)
  BY <1>2, <1>3, CallStep DEF Construct0
<1>5. ~List!Exists(v)
  BY <1>1, ListOfVector
<1>6. List!Copies(0, Default) = <<>>
  BY DEF List!Copies
<1> QED
  BY <1>4, <1>5, <1>6 DEF List!CreateFrom

\* The constructor from a count creates that many copies of the value.
LEMMA ConstructCountStep ==
  ASSUME IInv, NEW v \in Vectors, NEW n \in 0..MaxSize, NEW x \in Values,
         NEW block \in Free, ConstructCount(v, n, x, block)
  PROVE  IInv' /\ List!CreateFrom(v, List!Copies(n, x))
<1>1. s.fault = "none" /\ Good(s) /\ v \in Objects \ s.alive
  BY DEF ConstructCount, Calls, Idle, IInv, Fine, Exists, Objects
<1>2. PICK r : r = MakeCount(s, v, n, x, block)
  OBVIOUS
<1>3. PICK list : list = [i \in 1..n |-> x]
  OBVIOUS
<1>4. Becomes(r, s, v, list)
  <2>1. block \in Blocks /\ s.memory[block] = <<>>
    BY DEF Free
  <2>2. Becomes(MakeCount(s, v, n, x, block), s, v, [i \in 1..n |-> x])
    BY <1>1, <2>1, MakeCountEffect
  <2> QED
    BY <1>2, <1>3, <2>2
<1>5. IInv' /\ List!Become(v, list)
  BY <1>2, <1>4, CallStep DEF ConstructCount
<1>6. ~List!Exists(v)
  BY <1>1, ListOfVector
<1>7. List!Copies(n, x) = list
  BY <1>3 DEF List!Copies
<1> QED
  BY <1>5, <1>6, <1>7 DEF List!CreateFrom

\* The copy constructor creates the list of the other vector.
LEMMA ConstructCopyStep ==
  ASSUME IInv, NEW v \in Vectors, NEW w \in Vectors, NEW block \in Free,
         ConstructCopy(v, w, block)
  PROVE  IInv' /\ List!Exists(w) /\ List!CreateFrom(v, Now[w])
<1>1. /\ s.fault = "none" /\ Good(s) /\ v \in Objects \ s.alive /\ w \in s.alive
      /\ pending[w] = <<>>
  BY DEF ConstructCopy, Calls, Idle, IInv, Fine, Exists, Objects
<1>2. PICK r : r = MakeCopy(s, v, w, block)
  OBVIOUS
<1>3. PICK list : list = Elements(s, w)
  OBVIOUS
<1>4. Becomes(r, s, v, list)
  <2>1. block \in Blocks /\ s.memory[block] = <<>>
    BY DEF Free
  <2> QED
    BY <1>1, <1>2, <1>3, <2>1, MakeCopyEffect
<1>5. IInv' /\ List!Become(v, list)
  BY <1>2, <1>4, CallStep DEF ConstructCopy
<1>6. ~List!Exists(v) /\ List!Exists(w) /\ Now[w] = list
  BY <1>1, <1>3, ListOfVector
<1> QED
  BY <1>5, <1>6 DEF List!CreateFrom

\* A call, or the next push of one, with more to push.
LEMMA PushesStep ==
  ASSUME IInv, s.fault = "none", NEW v \in Vectors, NEW r, NEW list, Becomes(r, s, v, list),
         NEW more \in Seq(Values), Fits(list, more),
         s' = r, pending' = Changed(pending, v, more), type' = type
  PROVE  IInv' /\ List!Become(v, Joined(list, more))
<1>1. PICK p : p = Changed(pending, v, more)
  OBVIOUS
<1>2. Fine(r, p)
  BY <1>1, CallBecomes
<1>3. ListsIn(r, p) = Changed(ListsIn(s, pending), v, Joined(list, more))
  BY <1>1, CallBecomes
<1>4. IInv' /\ Now' = ListsIn(r, p)
  BY <1>1, <1>2, Later DEF IInv
<1>5. Now' = Changed(Now, v, Joined(list, more))
  BY <1>3, <1>4, NowIs
<1> QED
  BY <1>4, <1>5 DEF List!Become, Now, Changed

\* The constructor from a list creates a vector that still has values to push.
LEMMA ConstructListStep ==
  ASSUME IInv, NEW v \in Vectors, NEW list \in Lists, NEW block \in Free,
         ConstructList(v, list, block)
  PROVE  IInv' /\ List!CreateFrom(v, list)
<1>1. /\ s.fault = "none" /\ Good(s) /\ v \in Objects \ s.alive
      /\ type' = type /\ pending' = Changed(pending, v, list)
  BY DEF ConstructList, CallsAndPushes, Idle, IInv, Fine, Exists, Objects, Changed
<1>2. list \in Seq(Values) /\ Len(list) \in 0..MaxSize
  BY VectorAssumption
<1>3. PICK n : n = Len(list)
  OBVIOUS
<1>4. PICK q : q = Make(s, v)
  OBVIOUS
<1>5. /\ Keeps(q, s, {v}) /\ q.alive = s.alive \cup {v} /\ Elements(q, v) = <<>>
      /\ q.memory[block] = <<>> /\ block \in Blocks
  BY <1>1, <1>4, MakeEffect DEF Free
<1>6. PICK r : r = Reserve(q, v, n, block)
  OBVIOUS
<1>7. Keeps(r, q, {v}) /\ r.alive = q.alive /\ Elements(r, v) = Elements(q, v)
  <2>1. Good(q) /\ v \in q.alive /\ n \in 0..MaxSize
    BY <1>2, <1>3, <1>5 DEF Keeps
  <2>2. Reserved(r, q, v, n)
    BY <1>5, <1>6, <2>1, ReserveEffect, Zenon
  <2> QED
    BY <2>2 DEF Reserved
<1>8. Becomes(r, s, v, <<>>)
  BY <1>5, <1>7, KeepsTwice DEF Becomes
<1>9. s' = r
  BY <1>3, <1>4, <1>6 DEF ConstructList, CallsAndPushes
<1>10. Fits(<<>>, list) /\ Joined(<<>>, list) = list
  BY <1>2, EmptySeq DEF Fits, Joined
<1>11. IInv' /\ List!Become(v, Joined(<<>>, list))
  BY <1>1, <1>2, <1>8, <1>9, <1>10, PushesStep
<1>12. ~List!Exists(v)
  BY <1>1, ListOfVector
<1> QED
  BY <1>10, <1>11, <1>12 DEF List!CreateFrom

\* The move constructor takes the list of the other vector, which is left empty.
LEMMA ConstructMovedStep ==
  ASSUME IInv, NEW v \in Vectors, NEW w \in Vectors, ConstructMoved(v, w)
  PROVE  IInv' /\ List!CreateMoved(v, w)
<1>1. /\ s.fault = "none" /\ Good(s) /\ v \in Objects \ s.alive /\ w \in s.alive /\ Idle
      /\ v # w /\ type' = type /\ pending' = pending /\ pending[w] = <<>>
  BY DEF ConstructMoved, Calls, Idle, IInv, Fine, Exists, Objects
<1>2. PICK r : r = MakeMoved(s, v, w)
  OBVIOUS
<1>3. /\ Keeps(r, s, {v, w}) /\ r.alive = s.alive \cup {v}
      /\ Elements(r, v) = Elements(s, w) /\ Elements(r, w) = <<>>
  BY <1>1, <1>2, MakeMovedEffect
<1>4. r.alive = s.alive \cup {v, w}
  BY <1>1, <1>3
<1>5. PICK p : p = pending
  OBVIOUS
<1>6. /\ Fine(r, p)
      /\ ListsIn(r, p) = [ListsIn(s, pending) EXCEPT ![v] = Elements(s, w), ![w] = <<>>]
  BY <1>1, <1>3, <1>4, <1>5, CallOfTwo
<1>7. s' = r
  BY <1>2 DEF ConstructMoved, Calls
<1>8. IInv' /\ Now' = ListsIn(r, p)
  BY <1>1, <1>5, <1>6, <1>7, Later DEF IInv
<1>9. ~List!Exists(v) /\ List!Exists(w) /\ Now[w] = Elements(s, w)
  BY <1>1, ListOfVector
<1>10. Now' = [Now EXCEPT ![v] = Now[w], ![w] = <<>>]
  BY <1>6, <1>8, <1>9, NowIs
<1> QED
  BY <1>8, <1>9, <1>10 DEF List!CreateMoved, Now

\* Assigning a vector makes the list that of the other, also if it is the same.
LEMMA AssignCopyStep ==
  ASSUME IInv, NEW v \in Vectors, NEW w \in Vectors, NEW block \in Free,
         AssignCopy(v, w, block)
  PROVE  IInv' /\ List!Assign(v, w)
<1>1. /\ s.fault = "none" /\ Good(s) /\ v \in s.alive /\ w \in s.alive
      /\ Param \in Objects \ s.alive /\ v # Param /\ pending[w] = <<>>
  BY VectorAssumption DEF AssignCopy, Calls, Idle, IInv, Fine, Exists, Objects
<1>2. PICK q : q = MakeCopy(s, Param, w, block)
  OBVIOUS
<1>3. Becomes(q, s, Param, Elements(s, w))
  <2>1. block \in Blocks /\ s.memory[block] = <<>>
    BY DEF Free
  <2> QED
    BY <1>1, <1>2, <2>1, MakeCopyEffect
<1>4. /\ Good(q) /\ Param \in q.alive /\ v \in q.alive /\ Elements(q, Param) = Elements(s, w)
  BY <1>1, <1>3 DEF Becomes, Keeps
<1>5. PICK r : r = AssignParam(q, v)
  OBVIOUS
<1>6. /\ Keeps(r, q, {v, Param}) /\ r.alive = q.alive \ {Param}
      /\ Elements(r, v) = Elements(q, Param)
  BY <1>1, <1>4, <1>5, AssignParamEffect
<1>7. Becomes(r, s, v, Elements(s, w))
  BY <1>1, <1>3, <1>4, <1>6 DEF Becomes, Keeps
<1>8. IInv' /\ List!Become(v, Elements(s, w))
  BY <1>2, <1>5, <1>7, CallStep DEF AssignCopy
<1>9. List!Exists(v) /\ List!Exists(w) /\ Now[w] = Elements(s, w)
  BY <1>1, ListOfVector
<1> QED
  BY <1>8, <1>9 DEF List!Assign, Now

\* Assigning a moved vector exchanges it with an empty one: the other ends empty.
LEMMA AssignMovedStep ==
  ASSUME IInv, NEW v \in Vectors, NEW w \in Vectors, AssignMoved(v, w)
  PROVE  IInv' /\ List!AssignMoved(v, w)
<1>1. /\ s.fault = "none" /\ Good(s) /\ v \in s.alive /\ w \in s.alive /\ Idle
      /\ Param \in Objects \ s.alive /\ v # Param /\ w # Param /\ pending[w] = <<>>
      /\ type' = type /\ pending' = pending
  BY VectorAssumption DEF AssignMoved, Calls, Idle, IInv, Fine, Exists, Objects
<1>2. PICK q : q = MakeMoved(s, Param, w)
  OBVIOUS
<1>3. /\ Keeps(q, s, {Param, w}) /\ q.alive = s.alive \cup {Param}
      /\ Elements(q, Param) = Elements(s, w) /\ Elements(q, w) = <<>>
  BY <1>1, <1>2, MakeMovedEffect
<1>4. Good(q) /\ Param \in q.alive /\ v \in q.alive
  BY <1>1, <1>3 DEF Keeps
<1>5. PICK r : r = AssignParam(q, v)
  OBVIOUS
<1>6. /\ Keeps(r, q, {v, Param}) /\ r.alive = q.alive \ {Param}
      /\ Elements(r, v) = Elements(s, w)
  BY <1>1, <1>3, <1>4, <1>5, AssignParamEffect
<1>7. s' = r /\ Calls(r)
  BY <1>2, <1>5 DEF AssignMoved, Calls
<1>8. List!Exists(v) /\ List!Exists(w) /\ Now[w] = Elements(s, w)
  BY <1>1, ListOfVector
<1>9. CASE v = w
  <2>1. Becomes(r, s, v, Elements(s, w))
    BY <1>1, <1>3, <1>6, <1>9 DEF Becomes, Keeps
  <2>2. IInv' /\ List!Become(v, Elements(s, w))
    BY <1>7, <2>1, CallStep
  <2>3. Now' = [Now EXCEPT ![w] = <<>>, ![v] = Now[w]]
    BY <1>8, <1>9, <2>2 DEF List!Become, Now
  <2> QED
    BY <1>8, <2>2, <2>3 DEF List!AssignMoved, Now
<1>10. CASE v # w
  <2>1. r.alive = s.alive \cup {v, w} /\ Elements(r, w) = <<>>
    BY <1>1, <1>3, <1>6, <1>10 DEF Keeps
  <2>2. Keeps(r, s, {v, w})
    BY <1>1, <1>3, <1>6 DEF Keeps
  <2>3. PICK p : p = pending
    OBVIOUS
  <2>4. /\ Fine(r, p)
        /\ ListsIn(r, p) = [ListsIn(s, pending) EXCEPT ![v] = Elements(s, w), ![w] = <<>>]
    BY <1>1, <1>6, <1>10, <2>1, <2>2, <2>3, CallOfTwo
  <2>5. IInv' /\ Now' = ListsIn(r, p)
    BY <1>1, <1>7, <2>3, <2>4, Later DEF IInv
  <2>6. Now' = [Now EXCEPT ![w] = <<>>, ![v] = Now[w]]
    BY <1>8, <1>10, <2>4, <2>5, NowIs
  <2> QED
    BY <1>8, <2>5, <2>6 DEF List!AssignMoved, Now
<1> QED
  BY <1>9, <1>10

\* push_back appends its value.
LEMMA PushBackStep ==
  ASSUME IInv, NEW v \in Vectors, NEW x \in Values, NEW block \in Free, PushBack(v, x, block)
  PROVE  IInv' /\ List!Push(v, x)
<1>1. /\ s.fault = "none" /\ Good(s) /\ v \in s.alive /\ s.m_Size[v] < MaxSize
      /\ pending[v] = <<>> /\ block \in Blocks /\ s.memory[block] = <<>>
  BY DEF PushBack, Calls, Idle, IInv, Fine, Exists, Free
<1>2. PICK r : r = EmplaceBack(s, v, x, block)
  OBVIOUS
<1>3. Becomes(r, s, v, Append(Elements(s, v), x))
  <2>1. Keeps(r, s, {v}) /\ r.alive = s.alive /\ Elements(r, v) = Append(Elements(s, v), x)
    BY <1>1, <1>2, EmplaceBackEffect
  <2>2. r.alive = s.alive \cup {v}
    BY <1>1, <2>1
  <2> QED
    BY <2>1, <2>2 DEF Becomes
<1>4. IInv' /\ List!Become(v, Append(Elements(s, v), x))
  BY <1>2, <1>3, CallStep DEF PushBack
<1>5. List!Exists(v) /\ Now[v] = Elements(s, v)
  BY <1>1, ListOfVector
<1> QED
  BY <1>4, <1>5 DEF List!Push, Now

\* What it refers to may be gone, but then the behaviour ends.
LEMMA EmplaceOwnStep ==
  ASSUME IInv, NEW v \in Vectors, NEW i \in 1..MaxSize, NEW block \in Free,
         EmplaceOwn(v, i, block)
  PROVE  IInv' /\ \E x \in Values : List!Push(v, x)
<1>1. /\ s.fault = "none" /\ Good(s) /\ v \in s.alive /\ s.m_Size[v] < MaxSize
      /\ i <= s.m_Size[v] /\ pending[v] = <<>> /\ Idle
      /\ block \in Blocks /\ s.memory[block] = <<>> /\ type' = type /\ pending' = pending
  BY DEF EmplaceOwn, Calls, Idle, IInv, Fine, Exists, Free
<1>2. PICK x : x = Elements(s, v)[i]
  OBVIOUS
<1>3. x \in Values
  <2>1. Elements(s, v) \in Seq(Values) /\ Len(Elements(s, v)) = s.m_Size[v]
    BY <1>1, ElementsAre
  <2> QED
    BY <1>1, <1>2, <2>1, ElementOfSeq, VectorAssumption
<1>4. PICK t : t = EmplaceBack(s, v, x, block)
  OBVIOUS
<1>5. Becomes(t, s, v, Append(Elements(s, v), x))
  <2>1. Keeps(t, s, {v}) /\ t.alive = s.alive /\ Elements(t, v) = Append(Elements(s, v), x)
    BY <1>1, <1>3, <1>4, EmplaceBackEffect
  <2>2. t.alive = s.alive \cup {v}
    BY <1>1, <2>1
  <2> QED
    BY <2>1, <2>2 DEF Becomes
<1>6. PICK p : p = pending
  OBVIOUS
<1>7. /\ Fine(t, p)
      /\ ListsIn(t, p) = Changed(ListsIn(s, pending), v, Append(Elements(s, v), x))
  BY <1>1, <1>5, <1>6, CallOf
<1>8. PICK f : f = IF /\ Grows(s, v, s.m_Size[v] + 1)
                      /\ ~type.trivial \/ IsDynamic(s, v)
                   THEN "dangling" ELSE t.fault
  OBVIOUS
<1>9. PICK r : r = [t EXCEPT !.fault = f]
  OBVIOUS
<1>10. s' = r
  BY <1>2, <1>4, <1>8, <1>9 DEF EmplaceOwn, Calls
<1>11. Fine(r, p) /\ ListsIn(r, p) = ListsIn(t, p)
  <2>1. t \in States /\ f \in {"dangling", "twice", t.fault}
    BY <1>5, <1>8 DEF Becomes, Keeps, Good
  <2> QED
    BY <1>7, <1>9, <2>1, FaultEffect
<1>12. IInv' /\ Now' = ListsIn(r, p)
  BY <1>1, <1>6, <1>10, <1>11, Later DEF IInv
<1>13. List!Exists(v) /\ Now[v] = Elements(s, v)
  BY <1>1, ListOfVector
<1>14. Now' = Changed(Now, v, Append(Now[v], x))
  BY <1>7, <1>11, <1>12, <1>13, NowIs
<1>15. List!Push(v, x)
  BY <1>13, <1>14 DEF List!Push, List!Become, Now, Changed
<1> QED
  BY <1>3, <1>12, <1>15

\* Each push of a call that pushes several values leaves the list as it stands,
\* with those still to be pushed.
LEMMA PushNextStep ==
  ASSUME IInv, NEW v \in Vectors, NEW block \in Free, PushNext(v, block)
  PROVE  IInv' /\ Now' = Now
<1>1. /\ s.fault = "none" /\ Good(s) /\ pending[v] # <<>> /\ type' = type
      /\ pending[v] \in Seq(Values) /\ pending \in [Vectors -> Seq(Values)]
      /\ v \in s.alive /\ s.m_Size[v] + Len(pending[v]) <= MaxSize
      /\ block \in Blocks /\ s.memory[block] = <<>>
      /\ pending' = Changed(pending, v, Tail(pending[v]))
  BY DEF PushNext, IInv, Fine, Free, Changed
<1>2. PICK rest : rest = pending[v]
  OBVIOUS
<1>3. PICK x : x = Head(rest)
  OBVIOUS
<1>4. PICK more : more = Tail(rest)
  OBVIOUS
<1>5. /\ rest \in Seq(Values) /\ x \in Values /\ more \in Seq(Values)
      /\ Len(rest) \in Nat \ {0} /\ Len(more) = Len(rest) - 1 /\ rest = <<x>> \o more
  BY <1>1, <1>2, <1>3, <1>4, EmptySeq
<1>6. PICK list : list = Elements(s, v)
  OBVIOUS
<1>7. list \in Seq(Values) /\ Len(list) = s.m_Size[v] /\ s.m_Size[v] \in Nat
  BY <1>1, <1>6, ElementsAre, VectorAssumption
<1>8. s.m_Size[v] < MaxSize /\ s.m_Size[v] + Len(rest) <= MaxSize
  BY <1>1, <1>2, <1>5, <1>7, VectorAssumption
<1>9. PICK r : r = EmplaceBack(s, v, x, block)
  OBVIOUS
<1>10. Becomes(r, s, v, Append(list, x))
  <2>1. Keeps(r, s, {v}) /\ r.alive = s.alive /\ Elements(r, v) = Append(list, x)
    BY <1>1, <1>5, <1>6, <1>8, <1>9, EmplaceBackEffect
  <2>2. r.alive = s.alive \cup {v}
    BY <1>1, <2>1
  <2> QED
    BY <2>1, <2>2 DEF Becomes
<1>11. Fits(Append(list, x), more)
  <2>1. Len(Append(list, x)) = s.m_Size[v] + 1
    BY <1>5, <1>7
  <2> QED
    BY <1>5, <1>7, <1>8, <2>1, VectorAssumption DEF Fits
<1>12. s' = r
  BY <1>2, <1>3, <1>9 DEF PushNext
<1>13. pending' = Changed(pending, v, more)
  BY <1>1, <1>2, <1>4
<1>14. IInv' /\ List!Become(v, Joined(Append(list, x), more))
  BY <1>1, <1>5, <1>10, <1>11, <1>12, <1>13, PushesStep
<1>15. Joined(Append(list, x), more) = Now[v]
  <2>1. Now[v] = list \o rest
    BY <1>1, <1>2, <1>6, ListOfVector
  <2>2. Append(list, x) \o more = list \o (<<x>> \o more)
    BY <1>5, <1>7
  <2> QED
    BY <1>5, <2>1, <2>2 DEF Joined
<1>16. Now' = Now
  BY <1>14, <1>15 DEF List!Become, Now
<1> QED
  BY <1>14, <1>16

\* reserve leaves the lists alone.
LEMMA ReservesStep ==
  ASSUME IInv, NEW v \in Vectors, NEW n \in 0..MaxSize, NEW block \in Free,
         Reserves(v, n, block)
  PROVE  IInv' /\ Now' = Now
<1>1. /\ s.fault = "none" /\ Good(s) /\ v \in s.alive /\ pending[v] = <<>>
      /\ block \in Blocks /\ s.memory[block] = <<>>
  BY DEF Reserves, Calls, Idle, IInv, Fine, Exists, Free
<1>2. PICK r : r = Reserve(s, v, n, block)
  OBVIOUS
<1>3. Becomes(r, s, v, Elements(s, v))
  <2>1. Keeps(r, s, {v}) /\ r.alive = s.alive /\ Elements(r, v) = Elements(s, v)
    <3>1. Reserved(r, s, v, n)
      BY <1>1, <1>2, ReserveEffect, Zenon
    <3> QED
      BY <3>1 DEF Reserved
  <2>2. r.alive = s.alive \cup {v}
    BY <1>1, <2>1
  <2> QED
    BY <2>1, <2>2 DEF Becomes
<1>4. IInv' /\ List!Become(v, Elements(s, v))
  BY <1>2, <1>3, CallStep DEF Reserves
<1>5. Now[v] = Elements(s, v)
  BY <1>1, ListOfVector
<1> QED
  BY <1>4, <1>5 DEF List!Become, Now

\* The destructor ends the list.
LEMMA DestructStep ==
  ASSUME IInv, NEW v \in Vectors, Destruct(v)
  PROVE  IInv' /\ List!Destroy(v)
<1>1. /\ s.fault = "none" /\ Good(s) /\ v \in s.alive /\ Param \notin s.alive
      /\ \A u \in Vectors : pending[u] = <<>>
      /\ type' = type /\ pending' = pending /\ pending \in [Vectors -> Seq(Values)]
  BY DEF Destruct, Calls, Idle, IInv, Fine, Exists
<1>2. PICK r : r = Unmake(s, v)
  OBVIOUS
<1>3. Keeps(r, s, {v}) /\ r.alive = s.alive \ {v}
  BY <1>1, <1>2, UnmakeEffect
<1>4. s' = r
  BY <1>2 DEF Destruct, Calls
<1>5. PICK p : p = pending
  OBVIOUS
<1>6. Fine(r, p)
  BY <1>1, <1>3, <1>5 DEF Keeps, Fine
<1>7. ListsIn(r, p) = Changed(ListsIn(s, pending), v, Gone)
  BY <1>1, <1>3, <1>5 DEF Keeps, ListsIn, ListIn, Changed
<1>8. IInv' /\ Now' = ListsIn(r, p)
  BY <1>1, <1>4, <1>5, <1>6, Later DEF IInv
<1>9. List!Exists(v)
  BY <1>1, ListOfVector
<1>10. Now' = Changed(Now, v, Gone)
  BY <1>7, <1>8, NowIs
<1> QED
  BY <1>8, <1>9, <1>10 DEF List!Destroy, List!Become, Now, Changed

\* resize to fewer elements keeps the first ones.
LEMMA ShrinkStep ==
  ASSUME IInv, NEW v \in Vectors, NEW n \in 0..MaxSize, Shrink(v, n)
  PROVE  IInv' /\ List!Resize(v, n)
<1>1. /\ s.fault = "none" /\ Good(s) /\ v \in s.alive /\ n <= s.m_Size[v]
      /\ pending[v] = <<>> /\ v \in Objects
  BY DEF Shrink, Calls, Idle, IInv, Fine, Exists, Objects
<1>2. PICK slots : slots = (n + 1)..s.m_Size[v]
  OBVIOUS
<1>3. /\ Elements(s, v) \in Seq(Values) /\ Len(Elements(s, v)) = s.m_Size[v]
      /\ s.m_Size[v] \in 0..MaxSize
  BY <1>1, ElementsAre
<1>4. n \in Nat /\ Suffix(s, v, n, slots)
  BY <1>1, <1>2, <1>3, VectorAssumption DEF Suffix
<1>5. PICK q : q = Cut(s, v, n, slots)
  OBVIOUS
<1>6. Becomes(q, s, v, SubSeq(Elements(s, v), 1, n))
  BY <1>1, <1>4, <1>5, CutEffect
<1>7. PICK kept : kept = [i \in 1..n |-> IF i <= Len(s.DebugVector[v]) THEN s.DebugVector[v][i]
                                         ELSE Default]
  OBVIOUS
<1>8. kept \in Seq(Values)
  <2>1. s.DebugVector[v] \in Seq(Values)
    BY <1>1 DEF Good, States
  <2>2. \A i \in 1..n : kept[i] \in Values
    BY <1>4, <1>7, <2>1, VectorAssumption
  <2> QED
    BY <1>4, <1>7, <2>2
<1>9. PICK r : r = DebugIs(q, v, kept)
  OBVIOUS
<1>10. Becomes(r, s, v, SubSeq(Elements(s, v), 1, n))
  BY <1>1, <1>6, <1>8, <1>9, BecomesWithDebug
<1>11. Calls(r)
  BY <1>2, <1>5, <1>7, <1>9 DEF Shrink, Cut
<1>12. IInv' /\ List!Become(v, SubSeq(Elements(s, v), 1, n))
  BY <1>10, <1>11, CallStep
<1>13. List!Exists(v) /\ Now[v] = Elements(s, v)
  BY <1>1, ListOfVector
<1>14. List!Resized(Now[v], n) = SubSeq(Elements(s, v), 1, n)
  <2>1. PICK list : list = Elements(s, v)
    OBVIOUS
  <2>2. list \in Seq(Values) /\ n <= Len(list)
    BY <1>1, <1>3, <2>1
  <2>3. List!Resized(list, n) = SubSeq(list, 1, n)
    BY <1>4, <2>2 DEF List!Resized
  <2> QED
    BY <1>13, <2>1, <2>3
<1> QED
  BY <1>12, <1>13, <1>14 DEF List!Resize, Now

\* resize to more elements adds values after those that were there.
LEMMA EnlargeStep ==
  ASSUME IInv, NEW v \in Vectors, NEW n \in 0..MaxSize, Enlarge(v, n)
  PROVE  IInv' /\ List!Resize(v, n)
<1>1. /\ s.fault = "none" /\ Good(s) /\ v \in s.alive /\ n > s.m_Size[v]
      /\ pending[v] = <<>> /\ type' = type
  BY DEF Enlarge, CallsAndPushes, Idle, IInv, Fine, Exists
<1>2. PICK list : list = Elements(s, v)
  OBVIOUS
<1>3. PICK N : N = s.m_Size[v]
  OBVIOUS
<1>4. list \in Seq(Values) /\ Len(list) = N /\ N \in 0..MaxSize
  BY <1>1, <1>2, <1>3, ElementsAre
<1>5. n \in Nat /\ N \in Nat /\ N < n /\ n <= MaxSize
  BY <1>1, <1>3, <1>4, VectorAssumption
<1>6. PICK more : more = [i \in 1..(n - N) |-> Default]
  OBVIOUS
<1>7. more \in Seq(Values) /\ Len(more) = n - N
  BY <1>5, <1>6, VectorAssumption
<1>8. PICK r : r = s
  OBVIOUS
<1>9. Becomes(r, s, v, list)
  BY <1>1, <1>2, <1>8 DEF Becomes, Keeps
<1>10. Fits(list, more)
  BY <1>4, <1>5, <1>7 DEF Fits
<1>11. s' = r /\ pending' = Changed(pending, v, more)
  BY <1>3, <1>6, <1>8 DEF Enlarge, CallsAndPushes, Changed
<1>12. IInv' /\ List!Become(v, Joined(list, more))
  BY <1>1, <1>7, <1>9, <1>10, <1>11, PushesStep
<1>13. List!Exists(v) /\ Now[v] = list
  BY <1>1, <1>2, ListOfVector
<1>14. List!Resized(list, n) = Joined(list, more)
  <2>1. PICK all : all = list \o more
    OBVIOUS
  <2>2. /\ all \in Seq(Values) /\ Len(all) = n
        /\ \A i \in 1..n : all[i] = IF i <= N THEN list[i] ELSE Default
    <3>1. /\ all \in Seq(Values) /\ Len(all) = Len(list) + Len(more)
          /\ \A i \in 1..(Len(list) + Len(more)) :
               all[i] = IF i <= Len(list) THEN list[i] ELSE more[i - Len(list)]
      BY <1>4, <1>7, <2>1, ConcatProperties
    <3>2. Len(list) + Len(more) = n /\ \A i \in 1..n : i > N => i - N \in 1..(n - N)
      BY <1>4, <1>5, <1>7
    <3>3. \A i \in 1..(n - N) : more[i] = Default
      BY <1>6
    <3> QED
      BY <1>4, <1>5, <3>1, <3>2, <3>3
  <2>3. PICK sized : sized = List!Resized(list, n)
    OBVIOUS
  <2>4. /\ sized = [i \in 1..n |-> IF i <= N THEN list[i] ELSE Default]
        /\ \A i \in 1..n : (IF i <= N THEN list[i] ELSE Default) \in Values
    BY <1>4, <1>5, <2>3, VectorAssumption DEF List!Resized
  <2>5. /\ sized \in Seq(Values) /\ Len(sized) = n
        /\ \A i \in 1..n : sized[i] = all[i]
    BY <1>5, <2>2, <2>4
  <2>6. sized = all
    BY <2>2, <2>5, SeqEqual
  <2> QED
    BY <2>1, <2>3, <2>6 DEF Joined
<1> QED
  BY <1>12, <1>13, <1>14 DEF List!Resize, Now

\* clear leaves the empty list.
LEMMA ClearStep ==
  ASSUME IInv, NEW v \in Vectors, Clear(v)
  PROVE  IInv' /\ List!Resize(v, 0)
<1>1. /\ s.fault = "none" /\ Good(s) /\ v \in s.alive /\ Param \notin s.alive
      /\ \A u \in Vectors : pending[u] = <<>>
      /\ type' = type /\ pending' = pending /\ pending \in [Vectors -> Seq(Values)] /\ Idle
  BY DEF Clear, Calls, Idle, IInv, Fine, Exists
<1>2. PICK N : N = s.m_Size[v]
  OBVIOUS
<1>3. N \in Nat
  BY <1>1, <1>2, ElementsAre, VectorAssumption
<1>4. PICK slots : slots = 1..N \cap {1}
  OBVIOUS
<1>5. PICK n : n = 0
  OBVIOUS
<1>6. PICK q : q = Cut(s, v, n, slots)
  OBVIOUS
<1>7. PICK f : f = IF ~type.trivial /\ N > 1 THEN "twice" ELSE q.fault
  OBVIOUS
<1>8. PICK r : r = [q EXCEPT !.fault = f]
  OBVIOUS
<1>9. s' = r
  BY <1>2, <1>4, <1>5, <1>6, <1>7, <1>8 DEF Clear, Calls, Cut
<1>10. PICK p : p = pending
  OBVIOUS
<1>11. List!Exists(v) /\ List!Resized(Now[v], n) = <<>>
  BY <1>1, <1>5, ListOfVector DEF List!Resized
<1>12. Fine(r, p) /\ ListsIn(r, p) = Changed(ListsIn(s, pending), v, <<>>)
  <2>1. CASE type.trivial \/ N <= 1
    <3>1. slots \subseteq 1..N /\ (type.trivial \/ slots = 1..N)
      BY <1>3, <1>4, <2>1
    <3>2. Suffix(s, v, n, slots)
      BY <1>2, <1>3, <1>5, <3>1 DEF Suffix
    <3>3. Becomes(q, s, v, SubSeq(Elements(s, v), 1, n))
      BY <1>1, <1>6, <3>2, CutEffect
    <3>4. SubSeq(Elements(s, v), 1, n) = <<>>
      BY <1>1, <1>5, ElementsAre
    <3>5. Fine(q, p) /\ ListsIn(q, p) = Changed(ListsIn(s, pending), v, <<>>)
      BY <1>1, <1>10, <3>3, <3>4, CallOf
    <3>6. q \in States /\ f \in {"dangling", "twice", q.fault}
      BY <1>7, <3>3 DEF Becomes, Keeps, Good
    <3> QED
      BY <1>8, <3>5, <3>6, FaultEffect
  <2>2. CASE ~type.trivial /\ N > 1
    <3>1. /\ s \in States /\ type.BufferSize \in Nat /\ v \in Objects /\ Room(s, v)
          /\ s.memory[Null] = <<>> /\ Holds(s, Data(s, v), N)
      BY <1>1, <1>2 DEF Good, InPlace, Owned, States
    <3>2. PICK a : a = Data(s, v)
      OBVIOUS
    <3>3. a \in Places /\ (a = v \/ a = s.m_DynamicBuffer[v])
          /\ Len(s.memory[a]) = s.m_Capacity[v]
      BY <3>1, <3>2, DataIs
    <3>4. PICK cap : cap = s.m_Capacity[v]
      OBVIOUS
    <3>5. cap \in Nat /\ N <= cap /\ Len(s.memory[a]) = cap
      BY <1>2, <3>1, <3>3, <3>4 DEF Room, States
    <3>6. a # Null
      <4>1. ASSUME a = Null
            PROVE  cap = 0
        BY <3>1, <3>5, <4>1
      <4> QED
        BY <1>3, <2>2, <3>5, <4>1
    <3>7. slots \subseteq 1..Len(s.memory[a]) /\ \A i \in slots : s.memory[a][i] # Raw
      BY <1>3, <1>4, <3>1, <3>2, <3>5, VectorAssumption DEF Holds
    <3>8. PICK d : d = DestroySlots(s, a, slots)
      OBVIOUS
    <3>9. ChangedAt(d, s, {a})
      <4>1. Destructible(s, a, slots)
        BY <3>7 DEF Destructible
      <4>2. Cleared(d, s, a, slots)
        BY <3>1, <3>3, <3>8, <4>1, DestroyEffect, Zenon
      <4> QED
        BY <4>2 DEF Cleared
    <3>10. /\ d \in States /\ r = [[d EXCEPT !.m_Size[v] = 0] EXCEPT !.fault = "twice"]
      BY <1>5, <1>6, <1>7, <1>8, <2>2, <3>2, <3>8, <3>9 DEF Cut, ChangedAt
    <3>11. /\ r \in States /\ r.fault = "twice" /\ r.alive = s.alive
           /\ r.m_Size[v] = 0 /\ r.m_Capacity = s.m_Capacity
           /\ r.m_DynamicBuffer = s.m_DynamicBuffer
           /\ \A u \in Objects \ {v} : r.m_Size[u] = s.m_Size[u]
           /\ \A b \in Places \ {a} : r.memory[b] = s.memory[b]
      BY <3>1, <3>9, <3>10 DEF ChangedAt, SameVectors, States
    <3>12. Fine(r, p)
      BY <1>1, <1>10, <3>11 DEF Fine
    <3>13. ASSUME NEW u \in s.alive \ {v}
           PROVE  Elements(r, u) = Elements(s, u)
      <4>1. u \in Objects /\ InPlace(s, u) /\ u \in Places /\ s.m_DynamicBuffer[u] \in Places
        BY <1>1 DEF Good, States, Places
      <4>2. u # a /\ s.m_DynamicBuffer[u] # a
        BY <1>1, <3>3, <3>6, MemoryApart
      <4> QED
        BY <3>1, <3>11, <4>1, <4>2, Untouched
    <3>14. Elements(r, v) = <<>>
      BY <3>11 DEF Elements, Contents
    <3>15. <<>> \o <<>> = <<>>
      OBVIOUS
    <3> QED
      BY <1>1, <1>10, <3>11, <3>12, <3>13, <3>14, <3>15 DEF ListsIn, ListIn, Changed
  <2> QED
    BY <1>3, <2>1, <2>2
<1>13. IInv' /\ Now' = ListsIn(r, p)
  BY <1>1, <1>9, <1>10, <1>12, Later DEF IInv
<1>14. Now' = Changed(Now, v, List!Resized(Now[v], 0))
  BY <1>5, <1>11, <1>12, <1>13, NowIs
<1> QED
  BY <1>11, <1>13, <1>14 DEF List!Resize, List!Become, Now, Changed

-----------------------------------------------------------------------------
(* The theorems                                                            *)

\* The memory is in order at the beginning: there is no vector.
LEMMA InitInv == Init => IInv /\ List!Init
<1> SUFFICES ASSUME Init PROVE IInv /\ List!Init
  OBVIOUS
<1>1. type.BufferSize \in Nat /\ TypeOK
  BY VectorAssumption DEF Init, TypeOK
<1>2. s \in States
  <2>1. <<>> \in Seq(Values) /\ <<>> \in Seq(Values \cup {Raw})
    OBVIOUS
  <2> QED
    BY <2>1 DEF Init, States, Places
<1>3. Owned(s) /\ s.alive = {} /\ s.fault = "none"
  BY DEF Init, Owned
<1>4. pending \in [Vectors -> Seq(Values)] /\ \A v \in Vectors : pending[v] = <<>>
  BY DEF Init
<1>5. IInv
  BY <1>1, <1>2, <1>3, <1>4 DEF IInv, Fine, Good
<1>6. List!Init
  BY <1>3 DEF List!Init, ListOf, Exists
<1> QED
  BY <1>5, <1>6

\* Every call, and every push of one, leaves the memory in order and does what
\* one step of ValueLists does, or nothing to the lists.
LEMMA StepInv == IInv /\ [Next]_vars => IInv' /\ (List!Next \/ Now' = Now)
<1> SUFFICES ASSUME IInv, [Next]_vars
             PROVE  IInv' /\ (List!Next \/ Now' = Now)
  OBVIOUS
<1>1. ASSUME NEW v \in Vectors, Construct0(v)
      PROVE  IInv' /\ List!Next
  <2>1. IInv' /\ List!CreateFrom(v, List!Copies(0, Default))
    BY <1>1, ConstructStep
  <2>2. 0 \in 0..MaxSize /\ Default \in Values
    BY VectorAssumption
  <2> QED
    BY <2>1, <2>2 DEF List!Next
<1>2. ASSUME NEW v \in Vectors, Destruct(v)
      PROVE  IInv' /\ List!Next
  BY <1>2, DestructStep DEF List!Next
<1>3. ASSUME NEW v \in Vectors, Clear(v)
      PROVE  IInv' /\ List!Next
  <2>1. 0 \in 0..MaxSize
    BY VectorAssumption
  <2> QED
    BY <1>3, <2>1, ClearStep DEF List!Next
<1>4. ASSUME NEW v \in Vectors, NEW n \in 0..MaxSize, Shrink(v, n)
      PROVE  IInv' /\ List!Next
  BY <1>4, ShrinkStep DEF List!Next
<1>5. ASSUME NEW v \in Vectors, NEW n \in 0..MaxSize, Enlarge(v, n)
      PROVE  IInv' /\ List!Next
  BY <1>5, EnlargeStep DEF List!Next
<1>6. ASSUME NEW v \in Vectors, NEW w \in Vectors, ConstructMoved(v, w)
      PROVE  IInv' /\ List!Next
  BY <1>6, ConstructMovedStep DEF List!Next
<1>7. ASSUME NEW v \in Vectors, NEW w \in Vectors, AssignMoved(v, w)
      PROVE  IInv' /\ List!Next
  BY <1>7, AssignMovedStep DEF List!Next
<1>8. ASSUME NEW v \in Vectors, NEW block \in Free, NEW list \in Lists,
             ConstructList(v, list, block)
      PROVE  IInv' /\ List!Next
  BY <1>8, ConstructListStep DEF List!Next
<1>9. ASSUME NEW v \in Vectors, NEW block \in Free, NEW n \in 0..MaxSize, NEW x \in Values,
             ConstructCount(v, n, x, block)
      PROVE  IInv' /\ List!Next
  BY <1>9, ConstructCountStep DEF List!Next
<1>10. ASSUME NEW v \in Vectors, NEW block \in Free, NEW n \in 0..MaxSize,
              Reserves(v, n, block)
       PROVE  IInv' /\ Now' = Now
  BY <1>10, ReservesStep
<1>11. ASSUME NEW v \in Vectors, NEW block \in Free, NEW w \in Vectors,
              ConstructCopy(v, w, block)
       PROVE  IInv' /\ List!Next
  <2>1. IInv' /\ List!Exists(w) /\ List!CreateFrom(v, Now[w])
    BY <1>11, ConstructCopyStep
  <2> QED
    BY <2>1 DEF List!Next, Now
<1>12. ASSUME NEW v \in Vectors, NEW block \in Free, NEW w \in Vectors,
              AssignCopy(v, w, block)
       PROVE  IInv' /\ List!Next
  BY <1>12, AssignCopyStep DEF List!Next
<1>13. ASSUME NEW v \in Vectors, NEW block \in Free, NEW x \in Values, PushBack(v, x, block)
       PROVE  IInv' /\ List!Next
  BY <1>13, PushBackStep DEF List!Next
<1>14. ASSUME NEW v \in Vectors, NEW block \in Free, NEW i \in 1..MaxSize,
              EmplaceOwn(v, i, block)
       PROVE  IInv' /\ List!Next
  <2>1. IInv' /\ \E x \in Values : List!Push(v, x)
    BY <1>14, EmplaceOwnStep
  <2> QED
    BY <2>1 DEF List!Next
<1>15. ASSUME NEW v \in Vectors, NEW block \in Free, PushNext(v, block)
       PROVE  IInv' /\ Now' = Now
  BY <1>15, PushNextStep
<1>16. CASE UNCHANGED vars
  <2>1. PICK r, p : r = s /\ p = pending
    OBVIOUS
  <2>2. TypeOK /\ type' = type /\ s' = r /\ pending' = p /\ Fine(r, p)
    BY <1>16, <2>1 DEF vars, IInv
  <2> QED
    BY <2>1, <2>2, NowIs, Later
<1> QED
  BY <1>1, <1>2, <1>3, <1>4, <1>5, <1>6, <1>7, <1>8, <1>9, <1>10, <1>11, <1>12, <1>13, <1>14,
     <1>15, <1>16 DEF Next

\* What StorageOK says follows from the order of the memory.
LEMMA InvStorage == IInv => StorageOK
<1> SUFFICES ASSUME IInv PROVE StorageOK
  OBVIOUS
<1>1. s.fault # "storage"
  BY DEF IInv, Fine
<1>2. ASSUME s.fault = "none", NEW v \in s.alive
      PROVE  ElementsInPlace(v)
  <2>1. /\ s \in States /\ v \in Objects /\ InPlace(s, v) /\ Room(s, v)
        /\ type.BufferSize \in Nat /\ s.memory[Null] = <<>>
    BY <1>2 DEF IInv, Fine, Good, Owned, InPlace, States
  <2>2. PICK a : a = Data(s, v)
    OBVIOUS
  <2>3. a \in Places /\ v \in Places /\ Len(s.memory[a]) = s.m_Capacity[v]
    BY <2>1, <2>2, DataIs DEF Places
  <2>4. /\ DOMAIN s.memory[a] = 1..Len(s.memory[a])
        /\ DOMAIN s.memory[v] = 1..Len(s.memory[v])
        /\ s.m_Size[v] \in Nat
    BY <2>1, <2>3 DEF States
  <2>5. \A i \in 1..Len(s.memory[a]) :
          /\ i <= s.m_Size[v] => s.memory[a][i] \in Values
          /\ i > s.m_Size[v] => type.trivial \/ s.memory[a][i] = Raw
    BY <2>1, <2>2 DEF InPlace, Holds
  <2>6. a # v => \A i \in 1..Len(s.memory[v]) : type.trivial \/ s.memory[v][i] = Raw
    BY <2>1, <2>2, <2>4 DEF InPlace, Holds
  <2>7. s.m_Size[v] <= s.m_Capacity[v]
    BY <2>1 DEF Room
  <2> QED
    BY <2>2, <2>3, <2>4, <2>5, <2>6, <2>7 DEF ElementsInPlace
<1>3. ASSUME s.fault = "none"
      PROVE  BlocksOwned
  <2>1. Good(s) /\ Owned(s)
    BY <1>3 DEF IInv, Fine, Good
  <2>2. ASSUME NEW block \in Free, NEW v \in s.alive, s.m_DynamicBuffer[v] = block
        PROVE  FALSE
    <3>1. block \in Blocks /\ block # Null /\ s.memory[block] = <<>>
      BY VectorAssumption DEF Free
    <3> QED
      BY <2>1, <2>2, <3>1, BlockInUse
  <2>3. ASSUME NEW block \in Blocks, block \notin Free
        PROVE  \E v \in s.alive : /\ s.m_DynamicBuffer[v] = block
                                  /\ \A w \in s.alive : s.m_DynamicBuffer[w] = block => w = v
    BY <2>1, <2>3, VectorAssumption DEF Owned, Free
  <2> QED
    BY <2>2, <2>3 DEF BlocksOwned
<1> QED
  BY <1>1, <1>2, <1>3 DEF StorageOK

\* However vectors are made, copied, moved, swapped, grown, cut and destroyed,
\* the elements of each are in place, none is lost or destroyed twice, and each
\* block belongs to one vector.
THEOREM StorageInOrder == Spec => []StorageOK
<1>1. Init => IInv
  BY InitInv
<1>2. IInv /\ [Next]_vars => IInv'
  BY StepInv
<1>3. IInv => StorageOK
  BY InvStorage
<1> QED
  BY <1>1, <1>2, <1>3, PTL DEF Spec

\* The operations of MBVector are those of lists of values.
THEOREM VectorImplementsLists == Spec => ImplementsLists
<1>1. Init => IInv /\ List!Init
  BY InitInv
<1>2. IInv /\ [Next]_vars => IInv' /\ [List!Next]_Now
  BY StepInv
<1>3. [List!Next]_Now => [List!Next]_([v \in Vectors |-> ListOf(v)])
  BY DEF Now
<1> QED
  BY <1>1, <1>2, <1>3, PTL DEF Spec, ImplementsLists, List!Spec
=============================================================================
