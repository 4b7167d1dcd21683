----------------------------- MODULE LineSource -----------------------------
(***************************************************************************)
(* What LineRetriever promises: the lines of an input, one after the       *)
(* other.  A line ends at a newline, which is not part of it, nor is a     *)
(* carriage return before it; bytes after the last newline are a line too. *)
(* GetLine returns the line that is held, or the next; PeekLine returns    *)
(* the same and holds it; DiscardLine drops what is held and holds the     *)
(* next.  An empty line after the last may be returned until the end has   *)
(* been reported, and the end is reported only there, with an empty line   *)
(* held.  A line is given by the positions of its bytes.                   *)
(***************************************************************************)
EXTENDS Naturals, Sequences

VARIABLES
  input,  \* the bytes, "x" for any that is not a "CR" or a "LF"
  pos,    \* bytes before the next line
  line,   \* the line fetched last
  held,   \* whether it has still to be returned
  ended,  \* whether the end has been reported
  op      \* the call in progress, or "idle"

vars == <<input, pos, line, held, ended, op>>

InputLength == Len(input)
Positions(first, last) == [i \in 1..(last + 1 - first) |-> first - 1 + i]

Newlines(p) == {i \in p + 1..InputLength : input[i] = "LF"}

\* The line that begins after the first p bytes, and where the next begins.
LineEnd(p) == IF Newlines(p) = {} THEN InputLength + 1
              ELSE CHOOSE i \in Newlines(p) : \A j \in Newlines(p) : i <= j
LineAt(p) ==
  LET end == LineEnd(p)
      hasReturn == end <= InputLength /\ end - 1 > p /\ input[end - 1] = "CR"
  IN Positions(p + 1, IF hasReturn THEN end - 2 ELSE end - 1)
NextLine(p) == IF LineEnd(p) > InputLength THEN InputLength ELSE LineEnd(p)

Init ==
  /\ input \in Seq({"x", "CR", "LF"})
  /\ pos = 0 /\ line = <<>> /\ held = FALSE /\ ended = FALSE /\ op = "idle"

Call ==
  /\ op = "idle" /\ op' \in {"GetLine", "PeekLine", "DiscardLine"}
  /\ held' = (held /\ op' # "DiscardLine")
  /\ UNCHANGED <<input, pos, line, ended>>

\* The held line is returned; only a peek goes on holding it.
ReturnHeld ==
  /\ op # "idle" /\ held
  /\ op' = "idle" /\ held' = (op = "PeekLine")
  /\ UNCHANGED <<input, pos, line, ended>>

\* The next line is returned, or held.
Fetch ==
  /\ op # "idle" /\ ~held
  /\ ended => pos < InputLength
  /\ line' = LineAt(pos) /\ pos' = NextLine(pos)
  /\ op' = "idle" /\ held' = (op # "GetLine")
  /\ UNCHANGED <<input, ended>>

ReportEnd ==
  /\ op # "idle" /\ ~held
  /\ pos = InputLength /\ ended' = TRUE
  /\ line' = IF op = "GetLine" THEN line ELSE <<>>
  /\ op' = "idle" /\ held' = (op # "GetLine")
  /\ UNCHANGED <<input, pos>>

Next == Call \/ ReturnHeld \/ Fetch \/ ReportEnd

Spec == Init /\ [][Next]_vars
=============================================================================
