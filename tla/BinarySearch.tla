---------------------------- MODULE BinarySearch ----------------------------
(***************************************************************************)
(* The three versions of MBAlgorithms::BinarySearch (MBAlgorithms.h): with *)
(* operator<, with a comparison, and with a comparison and a function that *)
(* gets an element.  Positions count from 0, as in the code.  What the     *)
(* memory next to the container holds is in beside.                        *)
(***************************************************************************)
EXTENDS Integers, Sequences

CONSTANTS
  Keys,       \* the values, integers
  MaxLength   \* bound on the container, so that LowerLimit + UpperLimit is an int

ASSUME KeysAssumption == Keys \subseteq Int /\ MaxLength \in Nat

VARIABLES
  version, list, wanted, beside,  \* the arguments
  lower, upper,                   \* LowerLimit, UpperLimit
  returned,                       \* what is returned
  strayed,                        \* an element outside the container was read
  phase                           \* "start", "loop" or "done"

binaryVars == <<version, list, wanted, beside, lower, upper, returned, strayed, phase>>
arguments == <<version, list, wanted, beside>>

Sorted(s) == \A i, j \in 1..Len(s) : i < j => s[i] <= s[j]

Containers == {s \in UNION {[1..n -> Keys] : n \in 0..MaxLength} : Sorted(s)}

BinaryInit ==
  /\ version \in {"less", "compare", "get"}
  /\ list \in Containers /\ wanted \in Keys /\ beside \in Keys
  /\ lower = -1 /\ upper = Len(list)
  /\ returned = -1 /\ strayed = FALSE /\ phase = "start"

Inside(i)  == i \in 0..Len(list) - 1
Element(i) == IF Inside(i) THEN list[i + 1] ELSE beside

\* Division of ints rounds towards zero.
Guess == IF lower + upper < 0 THEN 0 ELSE (lower + upper) \div 2

Return(i) ==
  /\ returned' = i /\ phase' = "done"

\* Two versions return when there is nothing to search.
Start ==
  /\ phase = "start"
  /\ IF list = <<>> /\ version # "compare"
     THEN Return(-1)
     ELSE phase' = "loop" /\ UNCHANGED returned
  /\ UNCHANGED <<arguments, lower, upper, strayed>>

\* Mutant of Narrow: the lower limit is moved past the element looked at.
NarrowFar ==
  IF Element(Guess) < wanted
  THEN lower' = Guess + 1 /\ UNCHANGED upper
  ELSE upper' = Guess /\ UNCHANGED lower

\* One of the limits moves to the element looked at.
Narrow ==
  IF Element(Guess) < wanted
  THEN lower' = Guess /\ UNCHANGED upper
  ELSE upper' = Guess /\ UNCHANGED lower

\* With operator<, the element looked at decides in the end.
LoopLess ==
  /\ phase = "loop" /\ version = "less"
  /\ Narrow
  /\ strayed' = (strayed \/ ~Inside(Guess))
  /\ IF Element(Guess) = wanted THEN Return(Guess)
     ELSE IF upper' - lower' = 1 THEN Return(-1)
     ELSE UNCHANGED <<returned, phase>>
  /\ UNCHANGED arguments

\* The other versions return at once when they find the value, and otherwise
\* look once more when the limits meet: at LowerLimit or at the last guess.
LoopCompare ==
  /\ phase = "loop" /\ version # "less"
  /\ Narrow
  /\ LET last == IF version = "compare" THEN lower' ELSE Guess
         met  == upper' - lower' = 1
     IN IF Element(Guess) = wanted
        THEN /\ strayed' = (strayed \/ ~Inside(Guess))
             /\ Return(Guess)
        ELSE /\ strayed' = (strayed \/ ~Inside(Guess) \/ (met /\ ~Inside(last)))
             /\ IF ~met THEN UNCHANGED <<returned, phase>>
                ELSE Return(IF Element(last) = wanted THEN lower' ELSE -1)
  /\ UNCHANGED arguments

BinaryNext == Start \/ LoopLess \/ LoopCompare

BinarySpec == BinaryInit /\ [][BinaryNext]_binaryVars /\ WF_binaryVars(BinaryNext)
-----------------------------------------------------------------------------
\* The version with a comparison does not look whether there is an element.
Callable == version = "compare" => list # <<>>

\* A finished search has found the value if it is there, and says -1 if not; it
\* reads only elements of the container, but for the element before the first,
\* which the version with a comparison may read.
SearchRight ==
  Callable =>
    /\ strayed => version = "compare" /\ lower = -1 /\ returned = -1
    /\ phase = "done" =>
         IF \E i \in 0..Len(list) - 1 : Element(i) = wanted
         THEN Inside(returned) /\ Element(returned) = wanted
         ELSE returned = -1

\* And it finishes: the limits meet, whatever the container.
SearchEnds == Callable ~> phase = "done"
=============================================================================
