------------------------------- MODULE Cells -------------------------------
(***************************************************************************)
(* What a holder of a value promises: a cell that is empty or holds one    *)
(* value, which it has until it is given another, cleared or moved from.   *)
(* What the last call was, and what it returned, can be seen.              *)
(***************************************************************************)
CONSTANTS
  Names,    \* the cells
  Values,
  Default,  \* the value of a default-constructed object
  TypeOf,   \* the type of each value
  Empty,
  Spent     \* what is left of a value that was moved away

VARIABLES cell, last

Init == cell \in [Names -> {Empty, Default}] /\ last = <<"none">>

Store(c, v) == cell' = [cell EXCEPT ![c] = v] /\ last' = <<"store", c, v>>
Clear(c)    == cell' = [cell EXCEPT ![c] = Empty] /\ last' = <<"clear", c>>
Copy(c, d)  == cell' = [cell EXCEPT ![c] = cell[d]] /\ last' = <<"copy", c, d>>

\* The source keeps its value, loses it or takes that of the target.
Move(c, d) ==
  /\ c # d /\ last' = <<"move", c, d>>
  /\ \E rest \in {cell[c], cell[d], Empty, Default, Spent} :
       cell' = [cell EXCEPT ![c] = cell[d], ![d] = rest]

\* Reading an empty cell returns Empty, or throws.
Read(c) == last' = <<"read", c, cell[c]>> /\ UNCHANGED cell

\* Asking for a type that is not that of the value.
Mismatch(c, t) ==
  /\ cell[c] \in Values => TypeOf[cell[c]] # t
  /\ last' = <<"mismatch", c, t>> /\ UNCHANGED cell

\* A call that has no effect.
Refuse(c) == last' = <<"refused", c>> /\ UNCHANGED cell

Next ==
  \E c \in Names :
    \/ \E v \in Values : Store(c, v)
    \/ Clear(c) \/ Read(c) \/ Refuse(c)
    \/ \E d \in Names : Copy(c, d) \/ Move(c, d)
    \/ \E v \in Values : Mismatch(c, TypeOf[v])

Spec == Init /\ [][Next]_<<cell, last>>
=============================================================================
