----------------------------- MODULE ByteReader -----------------------------
(***************************************************************************)
(* What StreamReader promises: a position in a sequence of bytes, whatever *)
(* it buffers.  What a step may do depends on the call in progress: calls  *)
(* that read return the bytes that follow the position and move it past    *)
(* exactly those, in order and once; calls that peek return them and leave *)
(* it; and an iterator is a distance ahead of it.  The end is reported     *)
(* only at the end.  Byte number i of the input is i.                      *)
(***************************************************************************)
EXTENDS Naturals, Sequences

CONSTANT Length

VARIABLES
  pos,       \* bytes before the position
  op, arg,   \* the call in progress, or "idle"; its size, the byte it stops at,
             \* or the position sought
  seen,      \* the bytes the call has returned, or will
  iterator,  \* "none", "at" a byte or "finished"
  ahead,     \* its distance, 0 when there is none
  end,       \* whether the end has been noticed
  threw      \* whether the last call threw

vars == <<pos, op, arg, seen, iterator, ahead, end, threw>>

Until == {"ReadWhile", "SkipWhile", "ReadLine"}          \* up to the byte arg
Sized == {"ReadByte", "ReadSome", "Read", "ReadExact"}   \* arg bytes
Whole == {"Read", "ReadExact"}                           \* no fewer before the end
Reading == Until \cup Sized \cup {"PeekByte"}
Operations == Reading \cup {"PeekWhile"}

\* The k bytes after the first n.
BytesAfter(n, k) == [i \in 1..k |-> n + i]

Init ==
  /\ pos = 0 /\ op = "idle" /\ arg = 0 /\ seen = <<>>
  /\ iterator = "none" /\ ahead = 0 /\ end = FALSE /\ threw = FALSE

\* A call begins; it ends the use of an iterator.
Call ==
  /\ op = "idle" /\ op' \in Operations
  /\ op' = "ReadByte" => arg' = 1
  /\ seen' = <<>> /\ iterator' = "none" /\ ahead' = 0 /\ threw' = FALSE
  /\ UNCHANGED <<pos, end>>

Return == op' = "idle" /\ UNCHANGED <<arg, iterator, ahead, end>>
GoOn   == UNCHANGED <<op, arg, iterator, ahead, end>>

\* A byte that is wanted is read, or skipped.
TakeByte ==
  /\ op \in Until /\ pos < Length /\ pos + 1 # arg
  /\ pos' = pos + 1
  /\ seen' = IF op = "SkipWhile" THEN seen ELSE Append(seen, pos + 1)
  /\ GoOn /\ UNCHANGED threw

\* At the first that is not, the call returns; ReadLine alone takes it.
Stop ==
  /\ op \in Until /\ pos < Length /\ pos + 1 = arg
  /\ pos' = IF op = "ReadLine" THEN pos + 1 ELSE pos
  /\ Return /\ UNCHANGED <<seen, threw>>

TakeSome(k) ==
  /\ op \in Sized /\ k <= arg - Len(seen) /\ pos + k <= Length
  /\ pos' = pos + k /\ seen' = seen \o BytesAfter(pos, k)
  /\ IF op \in Whole /\ Len(seen') < arg THEN GoOn ELSE Return
  /\ UNCHANGED threw

PeekByte ==
  /\ op = "PeekByte" /\ pos < Length
  /\ seen' = <<pos + 1>>
  /\ Return /\ UNCHANGED <<pos, threw>>

\* PeekWhile goes on until the byte arg.
Peeked == pos + Len(seen)
PeekMore ==
  /\ op = "PeekWhile" /\ Peeked < Length /\ UNCHANGED <<pos, threw>>
  /\ IF Peeked + 1 = arg THEN Return /\ UNCHANGED seen
                         ELSE GoOn /\ seen' = Append(seen, Peeked + 1)

\* The end is noticed; from then on calls return at it, or throw.
NoticeEnd ==
  /\ op \in Reading /\ pos = Length /\ end' = TRUE
  /\ UNCHANGED <<pos, op, arg, seen, iterator, ahead, threw>>

AtEnd ==
  /\ op \in Operations /\ end
  /\ threw' = (op \in {"ReadByte", "PeekByte", "ReadExact"})
  /\ Return /\ UNCHANGED <<pos, seen>>

\* An iterator at the position, one moved forward and backward, and its byte.
Begin ==
  /\ op = "idle" /\ op' = "Increment"
  /\ iterator' = "at" /\ ahead' = 0 /\ seen' = <<>> /\ threw' = FALSE
  /\ UNCHANGED <<pos, arg, end>>

Forward ==
  /\ op = "idle" /\ op' = "Increment"
  /\ iterator = "at" /\ ahead' = ahead + 1
  /\ UNCHANGED <<pos, arg, seen, iterator, end, threw>>

Moved ==
  /\ op = "Increment" /\ op' = "idle"
  /\ iterator' = IF pos + ahead < Length THEN "at" ELSE "finished"
  /\ UNCHANGED <<pos, arg, seen, ahead, end, threw>>

Backward ==
  /\ op = "idle" /\ ahead > 0
  /\ iterator' = "at" /\ ahead' = ahead - 1
  /\ UNCHANGED <<pos, op, arg, seen, end, threw>>

LookAhead ==
  /\ op = "idle" /\ iterator = "at" /\ pos + ahead < Length
  /\ seen' = <<pos + ahead + 1>>
  /\ UNCHANGED <<pos, op, arg, iterator, ahead, end, threw>>

\* The position moves towards the iterator, which stays where it is.
Consume(k) ==
  /\ op = "idle" /\ iterator # "none" /\ k <= ahead
  /\ pos' = pos + k /\ ahead' = ahead - k
  /\ UNCHANGED <<op, arg, seen, iterator, end, threw>>

\* The position asked for becomes the position.
Seek ==
  /\ op = "idle" /\ arg' \in 0..Length /\ pos' = arg'
  /\ iterator' = "none" /\ ahead' = 0 /\ seen' = <<>> /\ end' = FALSE /\ threw' = FALSE
  /\ UNCHANGED op

Next ==
  \/ Call \/ TakeByte \/ Stop \/ PeekByte \/ PeekMore \/ NoticeEnd \/ AtEnd
  \/ Begin \/ Forward \/ Moved \/ Backward \/ LookAhead \/ Seek
  \/ \E k \in 1..Length : TakeSome(k) \/ Consume(k)

Spec == Init /\ [][Next]_vars
=============================================================================
