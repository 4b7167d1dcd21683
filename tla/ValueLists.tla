----------------------------- MODULE ValueLists -----------------------------
(***************************************************************************)
(* What MBVector promises: each vector that exists is a list of values,    *)
(* which changes only with an operation on that vector, wherever and how   *)
(* often its elements are moved in memory.                                 *)
(***************************************************************************)
EXTENDS Naturals, Sequences

CONSTANTS Vectors, Values, Lists, Default, Gone, MaxSize

VARIABLE lists  \* the list of each vector, Gone when it does not exist

Exists(v) == lists[v] # Gone

Become(v, list) == lists' = [lists EXCEPT ![v] = list]

Copies(n, x) == [i \in 1..n |-> x]

\* A list cut to n values, or padded to n with the default value.
Resized(list, n) ==
  [i \in 1..n |-> IF i <= Len(list) THEN list[i] ELSE Default]

Init == lists = [v \in Vectors |-> Gone]

CreateFrom(v, list) == ~Exists(v) /\ Become(v, list)

CreateMoved(v, w) ==
  ~Exists(v) /\ Exists(w) /\ lists' = [lists EXCEPT ![v] = lists[w], ![w] = <<>>]

Push(v, x) == Exists(v) /\ Become(v, Append(lists[v], x))

Resize(v, n) == Exists(v) /\ Become(v, Resized(lists[v], n))

Assign(v, w) == Exists(v) /\ Exists(w) /\ Become(v, lists[w])

AssignMoved(v, w) ==
  /\ Exists(v) /\ Exists(w)
  /\ lists' = [lists EXCEPT ![w] = <<>>, ![v] = lists[w]]

Destroy(v) == Exists(v) /\ Become(v, Gone)

Next ==
  \E v \in Vectors :
    \/ \E list \in Lists : CreateFrom(v, list)
    \/ \E n \in 0..MaxSize, x \in Values : CreateFrom(v, Copies(n, x))
    \/ \E w \in Vectors : \/ Exists(w) /\ CreateFrom(v, lists[w])
                          \/ CreateMoved(v, w)
                          \/ Assign(v, w)
                          \/ AssignMoved(v, w)
    \/ \E x \in Values : Push(v, x)
    \/ \E n \in 0..MaxSize : Resize(v, n)
    \/ Destroy(v)

Spec == Init /\ [][Next]_lists
=============================================================================
