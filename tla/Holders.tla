------------------------------ MODULE Holders ------------------------------
(***************************************************************************)
(* The classes that hold one value: Optional (for a trivially copyable     *)
(* type, one that is only trivially destructible, such as std::pair, and   *)
(* any other), DynamicVariant, SmartPtr, CopyableUnique, Dynamic and       *)
(* MOFunction.  A behaviour is a sequence of calls on some objects of one  *)
(* class.                                                                  *)
(***************************************************************************)
EXTENDS Integers, Sequences

CONSTANTS
  Classes,  \* the classes to try
  Names, Values, Default, TypeOf, Empty, Spent  \* as in Cells

Optionals == {"OptionalMemcpy", "OptionalPlain", "OptionalClass"}

HolderAssumption ==
  /\ Classes \subseteq Optionals \cup
       {"DynamicVariant", "SmartPtr", "CopyableUnique", "Dynamic", "MOFunction"}
  /\ Default \in Values /\ TypeOf \in [Values -> Nat] /\ TypeOf[Default] = 0
  /\ Empty \notin Values /\ Spent \notin Values /\ Empty # Spent

VARIABLES
  class,
  object,  \* the objects, see Object
  last     \* the last call, and what it returned

holderVars == <<class, object, last>>

\* tag is m_Initialised (0 or 1) of Optional, m_StoredIndex of DynamicVariant, or
\* the alternative in m_Data of SmartPtr (1 is a shared_ptr); content is the
\* object that is held or owned; ptr is m_Ptr of SmartPtr.
Object(tag, content) == [tag |-> tag, content |-> content, ptr |-> Empty]
Pointer(tag, content) == [tag |-> tag, content |-> content, ptr |-> content]

Is(c) == class = c
IsOptional == class \in Optionals
-----------------------------------------------------------------------------
(* Optional: what a function makes of a target t and a source s            *)

OptionalCopied(s) == IF s.tag = 1 THEN Object(1, s.content) ELSE Object(0, Empty)

\* What T's move constructor or assignment leaves behind.
Left(s) == IF s.tag = 1 /\ Is("OptionalClass") THEN [s EXCEPT !.content = Spent] ELSE s

OptionalMoved(s) == <<OptionalCopied(s), Left(s)>>

\* Mutant of p_DeInitialize: the flag stays set, and what is left is read.
DestroyOnly(t) == IF Is("OptionalClass") THEN [t EXCEPT !.content = Spent] ELSE t

\* p_DeInitilize, which leaves a trivially destructible object as it is.
p_DeInitialize(t) == IF Is("OptionalClass") THEN Object(0, Empty) ELSE t

\* The copy assignment; a trivially copyable T is copied with memcpy.
OptionalAssigned(t, s) ==
  CASE Is("OptionalMemcpy") -> IF s.tag = 1 THEN s ELSE Object(0, t.content)
    [] OTHER                -> IF s.tag = 1 THEN Object(1, s.content)
                               ELSE IF t.tag = 1 THEN p_DeInitialize(t) ELSE t

OptionalMoveAssigned(t, s) == <<OptionalAssigned(t, s), Left(s)>>

\* An empty Optional assigned to a set one of a trivially destructible type that
\* is not copied with memcpy leaves it set.
StaysSet(t, s) == Is("OptionalPlain") /\ t.tag = 1 /\ s.tag = 0

\* operator->, Value: they throw if there is none.
OptionalValue(o) == IF o.tag = 1 THEN o.content ELSE Empty
-----------------------------------------------------------------------------
(* DynamicVariant                                                          *)

VariantFresh == Object(0, Default)
VariantOf(v) == Object(TypeOf[v], v)

\* The copy constructor initialises nothing.
VariantCopied(s) == Object(-1, Empty)

\* A variant that is moved away keeps its index; the assignment swaps with a copy.
VariantMoved(s) == <<s, Object(s.tag, Empty)>>

\* Visit throws without an index; without a value it visits anything.
VariantVisited(o) == IF o.tag = -1 THEN Empty ELSE IF o.content = Empty THEN Spent ELSE o.content
-----------------------------------------------------------------------------
(* SmartPtr: one constructor for each kind of pointer; both moves swap     *)

SmartPtrOf(v) == {Pointer(tag, v) : tag \in 0..2}
SmartPtrSwap(t, s) == <<s, t>>
-----------------------------------------------------------------------------
(* CopyableUnique, Dynamic and MOFunction, whose content is what m_Data or *)
(* m_StoredFunction points to                                              *)

\* A copy is a new T of the value.
UniqueCopied(s) == Object(0, s.content)
DynamicCopied(s) == Object(0, s.content)

\* A std::unique_ptr is moved and leaves null.
UniqueMoved(s) == <<s, Object(0, Empty)>>

\* The source gets a new T.
DynamicMoved(s) == <<s, Object(0, Default)>>

\* The constructor swaps with null.
FunctionMoved(s) == <<s, Object(0, Empty)>>

\* operator(), which throws if there is no function.
FunctionInvoked(o) == o.content
-----------------------------------------------------------------------------
(* The functions of the class at hand; those that move return both objects *)

Fresh == CASE Is("DynamicVariant") -> VariantFresh
           [] Is("Dynamic")        -> Object(0, Default)
           [] OTHER                -> Object(0, Empty)

Built(v) == CASE IsOptional           -> {Object(1, v)}
              [] Is("DynamicVariant") -> {VariantOf(v)}
              [] Is("SmartPtr")       -> SmartPtrOf(v)
              [] OTHER                -> {Object(0, v)}

Copied(s) == CASE IsOptional           -> OptionalCopied(s)
               [] Is("DynamicVariant") -> VariantCopied(s)
               [] Is("CopyableUnique") -> UniqueCopied(s)
               [] Is("Dynamic")        -> DynamicCopied(s)

Moved(s) == CASE IsOptional           -> OptionalMoved(s)
              [] Is("DynamicVariant") -> VariantMoved(s)
              [] Is("SmartPtr")       -> SmartPtrSwap(Fresh, s)
              [] Is("CopyableUnique") -> UniqueMoved(s)
              [] Is("Dynamic")        -> DynamicMoved(s)
              [] Is("MOFunction")     -> FunctionMoved(s)

MoveAssigned(t, s) == CASE IsOptional     -> OptionalMoveAssigned(t, s)
                        [] Is("SmartPtr") -> SmartPtrSwap(t, s)
                        [] OTHER          -> Moved(s)

ValueOf(o) == CASE IsOptional           -> OptionalValue(o)
                [] Is("DynamicVariant") -> VariantVisited(o)
                [] Is("SmartPtr")       -> o.ptr
                [] Is("MOFunction")     -> FunctionInvoked(o)
                [] OTHER                -> o.content
-----------------------------------------------------------------------------
(* The calls                                                               *)

HoldersInit ==
  /\ class \in Classes
  /\ object = [n \in Names |-> Fresh] /\ last = <<"none">>

\* n is destroyed, and another object constructed for it.
DefaultConstruct(n) ==
  /\ object' = [object EXCEPT ![n] = Fresh]
  /\ last' = IF Fresh.content = Empty THEN <<"clear", n>> ELSE <<"store", n, Default>>
  /\ UNCHANGED class

Construct(n, v) ==
  /\ \E o \in Built(v) : object' = [object EXCEPT ![n] = o]
  /\ last' = <<"store", n, v>>
  /\ UNCHANGED class

\* A copy of a variant amounts to an empty one.
CopyConstruct(n, m) ==
  /\ n # m /\ class \notin {"SmartPtr", "MOFunction"}
  /\ object' = [object EXCEPT ![n] = Copied(object[m])]
  /\ last' = IF Is("DynamicVariant") THEN <<"clear", n>> ELSE <<"copy", n, m>>
  /\ UNCHANGED class

MoveConstruct(n, m) ==
  /\ n # m
  /\ LET both == Moved(object[m]) IN object' = [object EXCEPT ![n] = both[1], ![m] = both[2]]
  /\ last' = <<"move", n, m>>
  /\ UNCHANGED class

CopyAssign(n, m) ==
  /\ IsOptional \/ class \in {"DynamicVariant", "Dynamic"}
  /\ object' = [object EXCEPT ![n] =
       IF IsOptional THEN OptionalAssigned(object[n], object[m]) ELSE Copied(object[m])]
  /\ last' = CASE StaysSet(object[n], object[m]) -> <<"refused", n>>
               [] Is("DynamicVariant")           -> <<"clear", n>>
               [] OTHER                          -> <<"copy", n, m>>
  /\ UNCHANGED class

MoveAssign(n, m) ==
  /\ n # m
  /\ LET both == MoveAssigned(object[n], object[m])
     IN object' = [object EXCEPT ![n] = both[1], ![m] = both[2]]
  /\ last' = IF StaysSet(object[n], object[m]) THEN <<"refused", n>> ELSE <<"move", n, m>>
  /\ UNCHANGED class

Assign(n, v) ==
  /\ IsOptional \/ class \in {"DynamicVariant", "Dynamic"}
  /\ \E o \in Built(v) :
       object' = [object EXCEPT ![n] = IF IsOptional THEN [@ EXCEPT !.tag = 1, !.content = v] ELSE o]
  /\ last' = <<"store", n, v>>
  /\ UNCHANGED class

Reset(n) ==
  /\ Is("CopyableUnique")
  /\ object' = [object EXCEPT ![n] = Object(0, Empty)]
  /\ last' = <<"clear", n>>
  /\ UNCHANGED class

Get(n) == last' = <<"read", n, ValueOf(object[n])>> /\ UNCHANGED <<class, object>>

\* GetType, which looks at the index only.
GetType(n, t) ==
  /\ Is("DynamicVariant")
  /\ last' = IF object[n].tag = t THEN <<"read", n, ValueOf(object[n])>> ELSE <<"mismatch", n, t>>
  /\ UNCHANGED <<class, object>>

\* GetShared of SmartPtr, which throws unless there is a shared_ptr.
GetShared(n) ==
  /\ Is("SmartPtr")
  /\ last' = IF object[n].tag = 1 THEN <<"read", n, object[n].content>> ELSE <<"refused", n>>
  /\ UNCHANGED <<class, object>>

HoldersNext ==
  \E n \in Names :
    \/ DefaultConstruct(n) \/ Reset(n) \/ Get(n) \/ GetShared(n)
    \/ \E v \in Values : Construct(n, v) \/ Assign(n, v) \/ GetType(n, TypeOf[v])
    \/ \E m \in Names :
         CopyConstruct(n, m) \/ MoveConstruct(n, m) \/ CopyAssign(n, m) \/ MoveAssign(n, m)

HoldersSpec == HoldersInit /\ [][HoldersNext]_holderVars
-----------------------------------------------------------------------------
\* What an object holds: of a SmartPtr, what it owns.
Held(o) == IF Is("SmartPtr") THEN o.content ELSE ValueOf(o)

Cell == INSTANCE Cells WITH cell <- [n \in Names |-> Held(object[n])]

\* Whatever calls are mixed, every class behaves as a cell: what was stored,
\* copied or moved in is read, a moved object has left its source, and an empty
\* one says so.
ImplementsCells == Cell!Spec

\* A copy holds what its source holds.
CopyHoldsSource ==
  [][\A n, m \in Names :
       CopyConstruct(n, m) \/ CopyAssign(n, m) => Held(object[n])' = Held(object[m])]_holderVars
=============================================================================
