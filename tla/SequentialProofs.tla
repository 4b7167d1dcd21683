-------------------------- MODULE SequentialProofs --------------------------
(***************************************************************************)
(* Proofs about code that runs in one thread, for every size of its data:  *)
(* the three binary searches of MBAlgorithms.h, Merge, WriteData, the      *)
(* classes that hold a value, RemoveLeadingString and the codecs of        *)
(* MBStrings.h.                                                            *)
(*                                                                         *)
(* Searches: what is at or before LowerLimit is less than the value, what  *)
(* is at or behind UpperLimit is greater, and the element looked at lies   *)
(* between them.                                                           *)
(*                                                                         *)
(* Merge: what is merged is in order and before the heads of all lists, of *)
(* which the least is taken.                                               *)
(*                                                                         *)
(* WriteData: the copy is the first bytes of what was left of the input,   *)
(* and the input stands behind them and the chunk.                         *)
(*                                                                         *)
(* Holders: an object is Sound, and each call of it is one of its cell.    *)
(*                                                                         *)
(* Strings: what is encoded are the first bytes of the string; a decoder   *)
(* never stands inside an escape, and has met no error;                    *)
(* RemoveLeadingString has passed no copy but those that lead the text.    *)
(***************************************************************************)
EXTENDS BinarySearch, Merge, MemoryStreams, Holders,
        SequenceTheorems, WellFoundedInduction, TLAPS

(* Binary searches                                                         *)

Types ==
  /\ version \in {"less", "compare", "get"}
  /\ list \in Containers /\ wanted \in Keys /\ beside \in Keys
  /\ lower \in Int /\ upper \in Int /\ returned \in Int
  /\ strayed \in BOOLEAN /\ phase \in {"start", "loop", "done"}

\* Between two rounds the value can only be strictly between the limits.
Between ==
  /\ -1 <= lower /\ lower + 2 <= upper /\ upper <= Len(list)
  /\ \A i \in 0..Len(list) - 1 : i <= lower => list[i + 1] < wanted
  /\ \A i \in 0..Len(list) - 1 : upper <= i => wanted < list[i + 1]

Found == \E i \in 0..Len(list) - 1 : Element(i) = wanted

Straying == strayed => version = "compare" /\ lower = -1 /\ returned = -1

Answer == IF Found THEN Inside(returned) /\ Element(returned) = wanted
                   ELSE returned = -1

IInv ==
  /\ Types
  /\ phase = "start" => lower = -1 /\ upper = Len(list)
  /\ Callable /\ phase # "done" => ~strayed
  /\ Callable /\ phase = "loop" => list # <<>>
  /\ Callable /\ phase = "loop" => Between
  /\ Callable /\ phase = "done" => Straying /\ Answer

\* A container is a sorted sequence of integers.
LEMMA ContainerOK ==
  ASSUME NEW s \in Containers
  PROVE  s \in Seq(Int) /\ Sorted(s)
<1>1. PICK n \in 0..MaxLength : s \in [1..n -> Keys]
  BY DEF Containers
<1>2. s \in [1..n -> Int]
  BY <1>1, KeysAssumption
<1> QED
  BY <1>2, KeysAssumption DEF Containers

\* The element looked at lies strictly between the limits, and in the container.
LEMMA GuessBetween ==
  ASSUME Types, Between
  PROVE  Guess \in Int /\ lower < Guess /\ Guess < upper /\ Inside(Guess)
         /\ Element(Guess) = list[Guess + 1] /\ list[Guess + 1] \in Int
<1>1. list \in Seq(Int) /\ Len(list) \in Nat
  BY ContainerOK DEF Types
<1>2. lower + upper >= 0 /\ lower \in Int /\ upper \in Int
  BY DEF Types, Between
<1>3. Guess = (lower + upper) \div 2
  BY <1>2 DEF Guess
<1>4. Guess \in Int /\ lower < Guess /\ Guess < upper /\ 0 <= Guess
  BY <1>2, <1>3 DEF Between
<1>5. Inside(Guess)
  BY <1>1, <1>4, <1>2 DEF Inside, Between
<1>6. list[Guess + 1] \in Int
  BY <1>1, <1>5, <1>4 DEF Inside
<1> QED
  BY <1>4, <1>5, <1>6 DEF Element

\* A round leaves the value between the limits, if it was not what was looked at.
LEMMA NarrowKeeps ==
  ASSUME Types, Between, Narrow, Element(Guess) # wanted
  PROVE  /\ lower' \in Int /\ upper' \in Int
         /\ -1 <= lower' /\ lower' < upper' /\ upper' <= Len(list)
         /\ \A i \in 0..Len(list) - 1 : i <= lower' => list[i + 1] < wanted
         /\ \A i \in 0..Len(list) - 1 : upper' <= i => wanted < list[i + 1]
<1>1. list \in Seq(Int) /\ Len(list) \in Nat /\ Sorted(list)
  BY ContainerOK DEF Types
<1>2. wanted \in Int /\ lower \in Int /\ upper \in Int
  BY KeysAssumption DEF Types
<1>3. Guess \in Int /\ lower < Guess /\ Guess < upper /\ Inside(Guess)
      /\ Element(Guess) = list[Guess + 1] /\ list[Guess + 1] \in Int
  BY GuessBetween
<1> DEFINE g == Guess
<1>g. g = Guess
  OBVIOUS
<1> HIDE DEF g
<1>4. ASSUME NEW i \in 0..Len(list) - 1, NEW j \in 0..Len(list) - 1, i <= j
      PROVE  list[i + 1] \in Int /\ list[j + 1] \in Int /\ list[i + 1] <= list[j + 1]
  BY <1>1, <1>4 DEF Sorted
<1>5. g \in 0..Len(list) - 1
  BY <1>3, <1>g DEF Inside
<1>6. CASE Element(Guess) < wanted
  <2>1. lower' = g /\ upper' = upper
    BY <1>6, <1>g DEF Narrow
  <2>2. ASSUME NEW i \in 0..Len(list) - 1, i <= g
        PROVE  list[i + 1] < wanted
    BY <1>2, <1>3, <1>4, <1>5, <1>6, <2>2, <1>g
  <2> QED
    BY <2>1, <2>2, <1>2, <1>3, <1>g DEF Between
<1>7. CASE ~(Element(Guess) < wanted)
  <2>1. lower' = lower /\ upper' = g
    BY <1>7, <1>g DEF Narrow
  <2>2. wanted < list[g + 1]
    BY <1>7, <1>2, <1>3, <1>g
  <2>3. ASSUME NEW i \in 0..Len(list) - 1, g <= i
        PROVE  wanted < list[i + 1]
    BY <1>2, <1>3, <1>4, <1>5, <2>2, <2>3, <1>g
  <2> QED
    BY <2>1, <2>3, <1>1, <1>2, <1>3, <1>g DEF Between
<1> QED
  BY <1>6, <1>7

\* When the limits meet, the value is nowhere.
LEMMA Met ==
  ASSUME Types, Between, Narrow, Element(Guess) # wanted, upper' - lower' = 1
  PROVE  ~Found /\ (Inside(lower') => Element(lower') # wanted)
<1>1. list \in Seq(Int) /\ Len(list) \in Nat
  BY ContainerOK DEF Types
<1>2. /\ lower' \in Int /\ upper' \in Int
      /\ \A i \in 0..Len(list) - 1 : i <= lower' => list[i + 1] < wanted
      /\ \A i \in 0..Len(list) - 1 : upper' <= i => wanted < list[i + 1]
  BY NarrowKeeps
<1>3. ASSUME NEW i \in 0..Len(list) - 1
      PROVE  Element(i) # wanted
  <2>1. wanted \in Int /\ list[i + 1] \in Int /\ Element(i) = list[i + 1]
    BY <1>1, KeysAssumption DEF Types, Element, Inside
  <2>2. i <= lower' \/ upper' <= i
    <3>1. \A l, u, k \in Int : u - l = 1 => k <= l \/ u <= k
      OBVIOUS
    <3>2. i \in Int
      BY <1>1
    <3>3. upper' - lower' = 1
      OBVIOUS
    <3> QED
      BY <1>2, <3>1, <3>2, <3>3
  <2> QED
    BY <1>2, <2>1, <2>2
<1> QED
  BY <1>3 DEF Found, Inside

\* Before the first round there are elements on neither side.
LEMMA InitInv == BinaryInit => IInv
<1> SUFFICES ASSUME BinaryInit PROVE IInv
  OBVIOUS
<1>1. Types
  <2>1. Len(list) \in Nat
    BY ContainerOK DEF BinaryInit
  <2>2. lower \in Int /\ upper \in Int /\ returned \in Int
    BY <2>1 DEF BinaryInit
  <2> QED
    BY <2>2 DEF BinaryInit, Types
<1> QED
  BY <1>1 DEF BinaryInit, IInv

\* Entering the loop, or returning because there is nothing to search.
LEMMA StartKeeps == ASSUME IInv, Start PROVE IInv'
<1>0. CASE ~Callable
  BY <1>0 DEF IInv, Types, Start, Return, arguments, Callable
<1> SUFFICES ASSUME Callable PROVE IInv'
  BY <1>0
<1>1. list \in Seq(Int) /\ Len(list) \in Nat
  BY ContainerOK DEF IInv, Types
<1>2. Types' /\ strayed' = strayed /\ ~strayed /\ lower = -1 /\ upper = Len(list)
  BY DEF IInv, Types, Start, Return, arguments
<1>3. UNCHANGED <<version, list, wanted, beside, lower, upper>>
  BY DEF Start, arguments
<1>4. CASE list = <<>> /\ version # "compare"
  <2>1. returned' = -1 /\ phase' = "done"
    BY <1>4 DEF Start, Return
  <2>2. ~Found'
    BY <1>3, <1>4 DEF Found
  <2>3. Answer' /\ Straying'
    BY <1>2, <2>1, <2>2 DEF Answer, Straying
  <2> QED
    BY <1>2, <1>3, <1>4, <2>1, <2>3 DEF IInv, Callable
<1>5. CASE ~(list = <<>> /\ version # "compare")
  <2>1. phase' = "loop"
    BY <1>5 DEF Start
  <2>2. Callable' => list' # <<>>
    BY <1>3, <1>5 DEF Callable
  <2>3. list' # <<>> => Between'
    BY <1>1, <1>2, <1>3 DEF Between
  <2> QED
    BY <1>2, <2>1, <2>2, <2>3 DEF IInv
<1> QED
  BY <1>4, <1>5

\* A round that goes on keeps the value between the limits; one that returns
\* has found it, or the limits have met.
LEMMA RoundKeeps == ASSUME IInv, LoopLess \/ LoopCompare PROVE IInv'
<1>1. phase = "loop" /\ (Callable => ~strayed) /\ Narrow
      /\ UNCHANGED <<version, list, wanted, beside>> /\ Types /\ phase' \in {"loop", "done"}
  BY DEF LoopLess, LoopCompare, Return, IInv, arguments, Types
<1>2. Types'
  <2>1. Guess \in Int
    BY <1>1 DEF Types, Guess
  <2>2. lower' \in Int /\ upper' \in Int
    BY <1>1, <2>1 DEF Types, Narrow
  <2>3. returned' \in Int
    <3>1. CASE LoopLess
      BY <1>1, <2>1, <3>1 DEF LoopLess, Return, Types
    <3>2. CASE LoopCompare
      <4>1. \/ returned' = returned \/ returned' = Guess
            \/ returned' = lower' \/ returned' = -1
        BY <3>2 DEF LoopCompare, Return
      <4> QED
        BY <1>1, <2>1, <2>2, <4>1 DEF Types
    <3> QED
      BY <3>1, <3>2
  <2>4. strayed' \in BOOLEAN
    <3>1. CASE LoopLess
      BY <3>1 DEF LoopLess
    <3>2. CASE LoopCompare
      BY <3>2 DEF LoopCompare
    <3> QED
      BY <3>1, <3>2
  <2> QED
    BY <1>1, <2>2, <2>3, <2>4 DEF Types
<1>3. Callable' = Callable /\ (Callable => list # <<>>)
  BY <1>1 DEF Callable, IInv
<1>4. CASE ~Callable
  BY <1>1, <1>2, <1>3, <1>4 DEF IInv
<1>5. CASE Callable
  <2>1. Between
    BY <1>1, <1>5 DEF IInv
  <2>2. /\ Guess \in Int /\ Inside(Guess)
        /\ Element(Guess) = list[Guess + 1] /\ list[Guess + 1] \in Int
    BY <1>1, <2>1, GuessBetween
  <2>3. CASE Element(Guess) = wanted
    <3>1. returned' = Guess /\ phase' = "done" /\ strayed' = FALSE
      BY <1>1, <1>5, <2>2, <2>3 DEF LoopLess, LoopCompare, Return
    <3>2. Inside(returned)' /\ (Element(returned) = wanted)' /\ Found'
      BY <1>1, <2>2, <2>3, <3>1 DEF Inside, Element, Found
    <3> QED
      BY <1>1, <1>2, <1>3, <1>5, <3>1, <3>2 DEF IInv, Answer, Straying
  <2>4. CASE Element(Guess) # wanted /\ upper' - lower' # 1
    <3>1. phase' = "loop" /\ strayed' = FALSE
      BY <1>1, <1>5, <2>2, <2>4 DEF LoopLess, LoopCompare
    <3>2. Between'
      BY <1>1, <2>1, <2>4, NarrowKeeps DEF Between
    <3> QED
      BY <1>1, <1>2, <1>3, <1>5, <3>1, <3>2 DEF IInv
  <2>5. CASE Element(Guess) # wanted /\ upper' - lower' = 1
    <3>1. ~Found /\ (Inside(lower') => Element(lower') # wanted)
      BY <1>1, <2>1, <2>5, Met
    <3>2. -1 <= lower' /\ lower' < Len(list) /\ lower' \in Int
      BY <1>1, <2>1, <2>5, NarrowKeeps
    <3>3. Inside(lower') \/ lower' = -1
      <4>1. Len(list) \in Nat
        BY <1>1, ContainerOK DEF Types
      <4> QED
        BY <3>2, <4>1 DEF Inside
    <3>4. phase' = "done" /\ returned' = -1
      BY <1>1, <2>5, <3>1, <3>3 DEF LoopLess, LoopCompare, Return
    <3>5. strayed' => version = "compare" /\ lower' = -1
      BY <1>1, <1>5, <2>2, <2>5, <3>3 DEF LoopLess, LoopCompare
    <3>6. ~Found'
      BY <1>1, <3>1 DEF Found, Element, Inside
    <3> QED
      BY <1>1, <1>2, <1>3, <1>5, <3>4, <3>5, <3>6 DEF IInv, Answer, Straying
  <2> QED
    BY <2>3, <2>4, <2>5
<1> QED
  BY <1>4, <1>5

\* Every search keeps the invariant.
THEOREM SearchInvariant == BinarySpec => []IInv
<1>1. IInv /\ [BinaryNext]_binaryVars => IInv'
  <2>1. ASSUME IInv, BinaryNext PROVE IInv'
    BY <2>1, StartKeeps, RoundKeeps DEF BinaryNext
  <2>2. ASSUME IInv, UNCHANGED binaryVars PROVE IInv'
    BY <2>2 DEF binaryVars, arguments, IInv, Types, Between, Found, Straying, Answer, Callable,
       Inside, Element
  <2> QED
    BY <2>1, <2>2
<1> QED
  BY InitInv, <1>1, PTL DEF BinarySpec

\* The searches of MBAlgorithms.h find a value that is in the container, whatever
\* its length, say -1 of any other, and read nothing outside, but for the element
\* before the first that the version with a comparison may look at.
THEOREM SearchCorrect == BinarySpec => []SearchRight
<1>1. IInv => SearchRight
  BY DEF IInv, SearchRight, Types, Straying, Answer, Found
<1> QED
  BY SearchInvariant, <1>1, PTL
-----------------------------------------------------------------------------
(* Merge                                                                   *)

\* A set of numbers has a least one.
LEMMA LeastOf ==
  ASSUME NEW S \in SUBSET Nat, S # {}
  PROVE  \E n \in S : \A m \in S : n <= m
<1>1. \E n \in S : \A m \in S : ~ (<<m, n>> \in OpToRel(<, Nat))
  BY NatLessThanWellFounded, WFMin, Zenon
<1>2. \A n, m \in Nat : m < n => <<m, n>> \in OpToRel(<, Nat)
  BY Zenon DEF OpToRel
<1>3. PICK n \in S : \A m \in S : ~ (m < n)
  BY <1>1, <1>2
<1>4. \A m \in S : n <= m
  BY <1>3
<1> QED
  BY <1>4

\* The element in place p of list l.
Item(l, p) == <<lists[l][p], l, p>>

\* The lists are sorted.
ListsSorted ==
  /\ lists \in [Lists -> Seq(Nat)]
  /\ \A l \in Lists : \A p, q \in 1..Len(lists[l]) :
       p < q => lists[l][p] <= lists[l][q]

\* No more is taken of a list than it has.
TakenOnly ==
  /\ taken \in [Lists -> Nat]
  /\ \A l \in Lists : taken[l] <= Len(lists[l])

\* What is merged are the elements that were taken, in order, and all are before
\* the heads of the lists.
MergedTaken ==
  /\ merged \in Seq(Nat \X Lists \X Nat)
  /\ \A i \in 1..Len(merged) :
       \E l \in Lists : \E p \in 1..taken[l] : merged[i] = Item(l, p)
TakenMerged ==
  \A l \in Lists : \A p \in 1..taken[l] :
    \E i \in 1..Len(merged) : merged[i] = Item(l, p)
MergedInOrder ==
  \A i, j \in 1..Len(merged) : i < j => Before(merged[i], merged[j])
MergedFirst ==
  \A i \in 1..Len(merged) : \A l \in Remaining :
    Before(merged[i], Item(l, taken[l] + 1))
MergedSoFar == MergedTaken /\ TakenMerged /\ MergedInOrder /\ MergedFirst

MergeInv ==
  /\ ListsSorted /\ TakenOnly /\ MergedSoFar
  /\ \A l \in Lists : Len(lists[l]) <= ListLength
  /\ merging \in BOOLEAN /\ (~merging => Remaining = {})

\* There is a candidate while there is a list that is not used up.
LEMMA CandidateLeast ==
  ASSUME ListsAssumption, ListsSorted, TakenOnly, Remaining # {}
  PROVE  /\ Candidate \in Remaining
         /\ \A k \in Remaining :
              \/ Front(Candidate) < Front(k)
              \/ /\ Front(Candidate) = Front(k)
                 /\ Candidate <= k
<1>1. \A l \in Remaining : l \in Nat /\ Front(l) \in Nat
  BY DEF Remaining, Front, Lists, ListsSorted, TakenOnly,
     ListsAssumption
<1>2. PICK fronts : fronts = {Front(l) : l \in Remaining}
  OBVIOUS
<1>3. PICK least \in fronts : \A f \in fronts : least <= f
  <2>1. fronts \in SUBSET Nat /\ fronts # {}
    BY <1>1, <1>2
  <2> QED
    BY <2>1, LeastOf
<1>4. PICK first : first = {l \in Remaining : Front(l) = least}
  OBVIOUS
<1>5. PICK c \in first : \A l \in first : c <= l
  <2>1. first \in SUBSET Nat /\ first # {}
    BY <1>1, <1>2, <1>3, <1>4
  <2> QED
    BY <2>1, LeastOf
<1>6. \A k \in Remaining :
        \/ Front(c) < Front(k)
        \/ Front(c) = Front(k) /\ c <= k
  BY <1>1, <1>2, <1>3, <1>4, <1>5
<1>7. \E l \in Remaining : \A k \in Remaining :
        \/ Front(l) < Front(k)
        \/ Front(l) = Front(k) /\ l <= k
  BY <1>4, <1>5, <1>6
<1> QED
  BY <1>7, Zenon DEF Candidate

\* Before the first element is taken the lists are sorted, and none is merged.
LEMMA MergeBegins ==
  ASSUME ListsAssumption, MergeInit
  PROVE  MergeInv
<1>1. ListsSorted /\ \A l \in Lists : Len(lists[l]) <= ListLength
  <2>1. \A s \in SortedLists :
          /\ s \in Seq(Nat) /\ Len(s) <= ListLength
          /\ \A p, q \in 1..Len(s) : p < q => s[p] <= s[q]
    <3> TAKE s \in SortedLists
    <3>1. PICK n \in 0..ListLength : s \in [1..n -> MergeKeys]
      BY DEF SortedLists
    <3>2. \A p, q \in DOMAIN s : p < q => s[p] <= s[q]
      BY DEF SortedLists
    <3>3. n \in Nat /\ n <= ListLength /\ MergeKeys \subseteq Nat
      BY DEF ListsAssumption
    <3>4. s \in [1..n -> Nat]
      BY <3>1, <3>3
    <3>5. s \in Seq(Nat) /\ Len(s) = n
      BY <3>3, <3>4
    <3> QED
      BY <3>2, <3>3, <3>4, <3>5
  <2> QED
    BY <2>1 DEF MergeInit, ListsSorted
<1> QED
  BY <1>1 DEF MergeInit, MergeInv, TakenOnly, MergedSoFar, ListsSorted, MergedTaken,
     TakenMerged, MergedInOrder, MergedFirst

\* One before another that is not behind a third is before that.
LEMMA BeforeTransitive ==
  ASSUME NEW e \in Nat \X Nat \X Nat, NEW f \in Nat \X Nat \X Nat,
         NEW g \in Nat \X Nat \X Nat,
         Before(e, f), Before(f, g)
  PROVE  Before(e, g)
  BY DEF Before

\* Taking the least of the heads leaves what is merged in order and before the heads.
LEMMA TakeStep ==
  ASSUME ListsAssumption, MergeInv, TakeElement
  PROVE  MergeInv'
<1>1. PICK c : c = Candidate
  OBVIOUS
<1>2. /\ c \in Remaining /\ merging
      /\ \A k \in Remaining :
           \/ Front(c) < Front(k)
           \/ Front(c) = Front(k) /\ c <= k
  BY <1>1, CandidateLeast DEF MergeInv, TakeElement
<1>3. PICK t : t = taken[c]
  OBVIOUS
<1>4. /\ c \in Lists /\ t \in Nat /\ t + 1 <= Len(lists[c]) /\ lists[c] \in Seq(Nat)
      /\ Lists \subseteq Nat
  BY <1>2, <1>3 DEF Remaining, MergeInv, ListsSorted, TakenOnly, Lists,
     ListsAssumption
<1>5. PICK x : x = Item(c, t + 1)
  OBVIOUS
<1>6. /\ merged' = Append(merged, x) /\ taken' = [taken EXCEPT ![c] = t + 1]
      /\ lists' = lists /\ merging' = merging
  BY <1>1, <1>3, <1>5 DEF TakeElement, Front, Item
<1>7. /\ taken' \in [Lists -> Nat] /\ taken'[c] = t + 1
      /\ \A l \in Lists \ {c} : taken'[l] = taken[l]
  BY <1>4, <1>6 DEF MergeInv, TakenOnly
<1>8. ListsSorted' /\ TakenOnly' /\ \A l \in Lists : Len(lists'[l]) <= ListLength
  BY <1>3, <1>4, <1>6, <1>7 DEF MergeInv, ListsSorted, TakenOnly
<1>9. /\ \A l \in Lists : \A p \in 1..Len(lists[l]) :
           /\ Item(l, p)' = Item(l, p) /\ Item(l, p) \in Nat \X Lists \X Nat
           /\ Item(l, p)[1] = lists[l][p] /\ Item(l, p)[2] = l /\ Item(l, p)[3] = p
  BY <1>6 DEF Item, MergeInv, ListsSorted
<1>10. PICK n : n = Len(merged)
  OBVIOUS
<1>11. /\ n \in Nat /\ Len(merged') = n + 1 /\ merged'[n + 1] = x
       /\ \A i \in 1..n : /\ merged'[i] = merged[i]
                         /\ merged[i] \in Nat \X Lists \X Nat
       /\ merged' \in Seq(Nat \X Lists \X Nat)
  BY <1>4, <1>5, <1>6, <1>9, <1>10 DEF MergeInv, MergedSoFar, MergedTaken
<1>12. Remaining' \subseteq Remaining
  <2> SUFFICES ASSUME NEW l \in Remaining'
               PROVE  l \in Remaining
    OBVIOUS
  <2>1. l \in Lists /\ taken'[l] < Len(lists[l])
    BY <1>6 DEF Remaining, Lists
  <2>2. taken[l] \in Nat /\ taken'[l] \in Nat /\ Len(lists[l]) \in Nat
    BY <1>7, <2>1 DEF MergeInv, TakenOnly, ListsSorted
  <2>3. taken[l] <= taken'[l]
    BY <1>3, <1>4, <1>7, <2>1, <2>2
  <2>4. taken[l] < Len(lists[l])
    BY <2>1, <2>2, <2>3
  <2> QED
    BY <2>1, <2>4 DEF Remaining
<1>13. \A i \in 1..n : Before(merged[i], x)
  BY <1>2, <1>3, <1>5, <1>10 DEF MergeInv, MergedSoFar, MergedFirst
<1>14. \A i \in 1..Len(merged') :
         \E l \in Lists : \E p \in 1..taken'[l] : merged'[i] = Item(l, p)
  <2> TAKE i \in 1..Len(merged')
  <2>1. CASE i \in 1..n
    <3>1. PICK l \in Lists : \E p \in 1..taken[l] : merged[i] = Item(l, p)
      BY <1>10, <2>1 DEF MergeInv, MergedSoFar, MergedTaken
    <3>2. 1..taken[l] \subseteq 1..taken'[l]
      BY <1>3, <1>4, <1>7 DEF MergeInv, TakenOnly
    <3> QED
      BY <1>11, <2>1, <3>1, <3>2
  <2>2. CASE i = n + 1
    BY <1>4, <1>5, <1>7, <1>11, <2>2
  <2> QED
    BY <1>11, <2>1, <2>2
<1>15. \A l \in Lists : \A p \in 1..taken'[l] :
         \E i \in 1..Len(merged') : merged'[i] = Item(l, p)
  <2> TAKE l \in Lists
  <2> TAKE p \in 1..taken'[l]
  <2>1. CASE p \in 1..taken[l]
    <3>1. PICK i \in 1..n : merged[i] = Item(l, p)
      BY <1>10, <2>1 DEF MergeInv, MergedSoFar, TakenMerged
    <3> QED
      BY <1>11, <3>1
  <2>2. CASE p \notin 1..taken[l]
    <3>1. l = c /\ p = t + 1
      BY <1>3, <1>4, <1>7, <2>2
    <3> QED
      BY <1>5, <1>11, <3>1
  <2> QED
    BY <2>1, <2>2
<1>16. \A i, j \in 1..Len(merged') : i < j => Before(merged'[i], merged'[j])
  <2> SUFFICES ASSUME NEW i \in 1..Len(merged'), NEW j \in 1..Len(merged'), i < j
               PROVE  Before(merged'[i], merged'[j])
    OBVIOUS
  <2>1. CASE j \in 1..n
    <3>1. i \in 1..n
      <4>1. n \in Nat /\ Len(merged') = n + 1
        BY <1>11
      <4> QED
        BY <2>1, <4>1
    <3>2. merged'[i] = merged[i] /\ merged'[j] = merged[j]
      BY <1>11, <2>1, <3>1
    <3> QED
      BY <1>10, <2>1, <3>1, <3>2 DEF MergeInv, MergedSoFar, MergedInOrder
  <2>2. CASE j = n + 1
    <3>1. i \in 1..n
      BY <1>11, <2>2
    <3>2. merged'[i] = merged[i] /\ merged'[j] = x
      BY <1>11, <2>2, <3>1
    <3> QED
      BY <1>13, <3>1, <3>2
  <2> QED
    BY <1>11, <2>1, <2>2
<1>17. \A i \in 1..Len(merged') : \A l \in Remaining' :
         Before(merged'[i], Item(l, taken'[l] + 1))
  <2> SUFFICES ASSUME NEW i \in 1..Len(merged'), NEW l \in Remaining'
               PROVE  Before(merged'[i], Item(l, taken'[l] + 1))
    OBVIOUS
  <2>1. l \in Remaining /\ l \in Lists
    BY <1>12 DEF Remaining
  <2>2. CASE l # c
    <3>1. taken'[l] = taken[l]
      BY <1>7, <2>1, <2>2
    <3>2. CASE i \in 1..n
      BY <1>10, <1>11, <2>1, <3>1, <3>2 DEF MergeInv, MergedSoFar, MergedFirst
    <3>3. CASE i = n + 1
      <4>1. Before(x, Item(l, taken[l] + 1))
        BY <1>2, <1>3, <1>4, <1>5, <2>1, <2>2 DEF Before, Front, Item
      <4> QED
        BY <1>11, <3>1, <3>3, <4>1
    <3> QED
      BY <1>11, <3>2, <3>3
  <2>3. CASE l = c
    <3>1. t + 2 <= Len(lists[c]) /\ taken'[l] + 1 = t + 2
      BY <1>4, <1>6, <1>7, <2>3 DEF Remaining
    <3>2. /\ lists[c][t + 1] <= lists[c][t + 2]
          /\ t + 1 \in 1..Len(lists[c]) /\ t + 2 \in 1..Len(lists[c])
      BY <1>4, <3>1 DEF MergeInv, ListsSorted
    <3>3. PICK y : y = Item(c, t + 2)
      OBVIOUS
    <3>4. /\ x \in Nat \X Nat \X Nat /\ y \in Nat \X Nat \X Nat /\ Before(x, y)
      <4>1. x = <<lists[c][t + 1], c, t + 1>> /\ y = <<lists[c][t + 2], c, t + 2>>
        BY <1>5, <3>3 DEF Item
      <4>2. lists[c][t + 1] \in Nat /\ lists[c][t + 2] \in Nat /\ c \in Nat
        BY <1>4, <3>2
      <4> DEFINE Triple(j, k, m) == <<j, k, m>>
      <4>6. \A j, k, m \in Nat : Triple(j, k, m) \in Nat \X Nat \X Nat
        OBVIOUS
      <4>7. t + 1 \in Nat /\ t + 2 \in Nat
        BY <1>4
      <4>3. x \in Nat \X Nat \X Nat /\ y \in Nat \X Nat \X Nat
        BY <4>1, <4>2, <4>6, <4>7
      <4>4. lists[c][t + 1] < lists[c][t + 2] \/ lists[c][t + 1] = lists[c][t + 2]
        BY <3>2, <4>2
      <4>5. Before(x, y)
        BY <1>4, <4>1, <4>2, <4>4 DEF Before
      <4> QED
        BY <4>3, <4>5
    <3>5. CASE i \in 1..n
      <4>1. merged[i] \in Nat \X Nat \X Nat
        BY <1>4, <1>11, <3>5
      <4>2. Before(merged[i], y)
        BY <1>13, <3>4, <3>5, <4>1, BeforeTransitive
      <4> QED
        BY <1>11, <2>3, <3>1, <3>3, <3>5, <4>2
    <3>6. CASE i = n + 1
      BY <1>11, <2>3, <3>1, <3>3, <3>4, <3>6
    <3> QED
      BY <1>11, <3>5, <3>6
  <2> QED
    BY <2>2, <2>3
<1>18. MergedSoFar'
  <2>1. \A l, p : Item(l, p)' = Item(l, p)
    BY <1>6 DEF Item
  <2>2. Lists' = Lists
    BY DEF Lists
  <2>3. MergedTaken'
    BY <1>11, <1>14, <2>1, <2>2 DEF MergedTaken
  <2>4. TakenMerged'
    BY <1>15, <2>1, <2>2 DEF TakenMerged
  <2>5. MergedInOrder'
    BY <1>16 DEF MergedInOrder, Before
  <2>6. MergedFirst'
    BY <1>6, <1>17 DEF MergedFirst, Item, Before
  <2> QED
    BY <2>3, <2>4, <2>5, <2>6 DEF MergedSoFar
<1> QED
  BY <1>2, <1>6, <1>8, <1>18 DEF MergeInv, Lists

\* Every step keeps the invariant.
LEMMA MergeStep ==
  ASSUME ListsAssumption, MergeInv, [MergeNext]_(mergeVars)
  PROVE  MergeInv'
<1>1. CASE TakeElement
  BY <1>1, TakeStep
<1>2. CASE Finish \/ UNCHANGED mergeVars
  <2>1. UNCHANGED <<lists, taken, merged>>
    BY <1>2 DEF Finish, mergeVars
  <2>2. merging' \in BOOLEAN /\ (~merging' => Remaining = {})
    BY <1>2, Zenon DEF Finish, mergeVars, MergeInv
  <2>3. Remaining' = Remaining
    BY <2>1 DEF Remaining, Lists
  <2>4. ListsSorted' /\ TakenOnly'
    BY <2>1 DEF MergeInv, ListsSorted, TakenOnly, Lists
  <2>5. MergedTaken' /\ TakenMerged'
    BY <2>1 DEF MergeInv, MergedSoFar, MergedTaken, TakenMerged, Item, Lists
  <2>6. MergedInOrder'
    BY <2>1 DEF MergeInv, MergedSoFar, MergedInOrder, Before
  <2>7. MergedFirst'
    BY <2>1, <2>3 DEF MergeInv, MergedSoFar, MergedFirst, Before, Item
  <2> QED
    BY <2>1, <2>2, <2>3, <2>4, <2>5, <2>6, <2>7 DEF MergeInv, MergedSoFar, Lists
<1> QED
  BY <1>1, <1>2 DEF MergeNext

\* What is merged is in order, and in the end everything.
LEMMA MergedIsRight ==
  ASSUME ListsAssumption, MergeInv
  PROVE  MergeRight
<1>1. DOMAIN merged = 1..Len(merged)
  BY DEF MergeInv, MergedSoFar, MergedTaken
<1>2. \A i, j \in DOMAIN merged : i < j => Before(merged[i], merged[j])
  BY <1>1 DEF MergeInv, MergedSoFar, MergedInOrder
<1>3. ASSUME ~merging
      PROVE  {merged[i] : i \in DOMAIN merged} = Elements
  <2>1. \A l \in Lists : taken[l] = Len(lists[l])
    BY <1>3 DEF MergeInv, Remaining, TakenOnly, ListsSorted
  <2>2. ASSUME NEW z \in Elements
        PROVE  \E i \in DOMAIN merged : z = merged[i]
    <3>1. PICK e \in Lists \X (1..ListLength) :
            e[2] <= Len(lists[e[1]]) /\ z = <<lists[e[1]][e[2]], e[1], e[2]>>
      BY <2>2 DEF Elements
    <3>2. PICK l, p : l = e[1] /\ p = e[2]
      OBVIOUS
    <3>3. l \in Lists /\ p \in 1..taken[l] /\ z = Item(l, p)
      BY <2>1, <3>1, <3>2 DEF Item, ListsAssumption, MergeInv, ListsSorted
    <3> QED
      BY <1>1, <3>3 DEF MergeInv, MergedSoFar, TakenMerged
  <2>3. ASSUME NEW i \in DOMAIN merged
        PROVE  merged[i] \in Elements
    <3>1. PICK l \in Lists : \E p \in 1..taken[l] : merged[i] = Item(l, p)
      BY <1>1 DEF MergeInv, MergedSoFar, MergedTaken
    <3>2. PICK p \in 1..taken[l] : merged[i] = Item(l, p)
      BY <3>1
    <3>3. PICK e : e = <<l, p>>
      OBVIOUS
    <3>4. /\ e \in Lists \X (1..ListLength) /\ e[1] = l /\ e[2] = p
          /\ e[2] <= Len(lists[e[1]])
      BY <2>1, <3>2, <3>3 DEF ListsAssumption, MergeInv, ListsSorted
    <3>5. merged[i] = <<lists[e[1]][e[2]], e[1], e[2]>>
      BY <3>2, <3>4 DEF Item
    <3> QED
      BY <3>4, <3>5 DEF Elements
  <2> QED
    BY <2>2, <2>3
<1> QED
  BY <1>2, <1>3 DEF MergeRight

\* Merge.h: the merged list is sorted, keeps the order of equal elements and has each
\* element of each list once, for any number of lists of any length.
THEOREM MergeCorrect ==
  ASSUME ListsAssumption
  PROVE  MergeSpec => []MergeRight
<1>1. MergeInit => MergeInv
  BY MergeBegins
<1>2. MergeInv /\ [MergeNext]_(mergeVars) => MergeInv'
  BY MergeStep
<1>3. MergeInv => MergeRight
  BY MergedIsRight
<1> QED
  BY <1>1, <1>2, <1>3, PTL DEF MergeSpec
-----------------------------------------------------------------------------
(* WriteData                                                               *)

\* A file that nothing can be read from.
Shut == failed \/ Unopened

\* The bytes are numbers, and the streams stand at or behind their starts.
StreamTypes ==
  /\ input \in Seq(Int) /\ offset \in Nat
  /\ content \in Seq(Int) /\ position \in Nat
  /\ copyPhase \in {"idle", "read", "write", "flush", "copied"}

\* What the output had when WriteData was called, where it stood, and what is copied.
ContentBefore == begun[1]
At == begun[2]
Rest == begun[3]
CopiedCount == position - At

\* No more is copied than there was to copy.
CopyBegun ==
  /\ ContentBefore \in Seq(Int) /\ At \in Nat /\ Rest \in Seq(Int)
  /\ At <= position /\ CopiedCount <= Len(Rest)

\* The bytes of the copy stand behind At, and the others are as they were.
OutputSoFar ==
  /\ \A i \in 1..CopiedCount : content[At + i] = Rest[i]
  /\ \A i \in 1..Len(content) : i \notin At + 1..position =>
       content[i] = IF i \in 1..Len(ContentBefore) THEN ContentBefore[i] ELSE 0
  /\ Len(content) =
       IF position > Len(ContentBefore)
          /\ (CopiedCount > 0 \/ (copyPhase \in {"flush", "copied"} /\ ~ToFile))
       THEN position ELSE Len(ContentBefore)

\* The input stands behind k of the bytes to copy.
InputLeft(k) ==
  /\ Shut => k = Len(Rest)
  /\ ~Shut => /\ k <= Len(Rest)
              /\ k = Len(Rest) => offset >= Len(input)
              /\ k < Len(Rest) => offset + Len(Rest) - k = Len(input)
              /\ \A i \in 1..Len(Rest) : i > k => Rest[i] = input[offset + i - k]

\* The chunk is what comes next of what is copied, and the last if it is not full.
ChunkNext ==
  /\ chunk \in Seq(Int) /\ CopiedCount + Len(chunk) <= Len(Rest)
  /\ \A i \in 1..Len(chunk) : chunk[i] = Rest[CopiedCount + i]
  /\ Len(chunk) < ReadChunkSize => CopiedCount + Len(chunk) = Len(Rest)

\* Where WriteData is says what is copied and what is left.
CopyInv ==
  /\ StreamTypes
  /\ copyPhase # "idle" => CopyBegun /\ OutputSoFar
  /\ copyPhase = "read" => InputLeft(CopiedCount)
  /\ copyPhase = "write" => ChunkNext /\ InputLeft(CopiedCount + Len(chunk))
  /\ copyPhase \in {"flush", "copied"} => CopiedCount = Len(Rest) /\ InputLeft(CopiedCount)
  /\ copyPhase = "copied" => visible = content

\* The bytes behind place m, up to n.
LEMMA InputCut ==
  ASSUME NEW s \in Seq(Int), NEW m \in Nat, NEW n \in Nat, m <= n, n <= Len(s),
         NEW r, r = SubSeq(s, m + 1, n)
  PROVE  /\ r \in Seq(Int) /\ Len(r) = n - m
         /\ \A i \in 1..n - m : r[i] = s[m + i]
<1>1. m + 1 \in 1..Len(s) + 1 /\ n \in m..Len(s) /\ Len(s) \in Nat
  OBVIOUS
<1>2. r \in Seq(Int) /\ Len(r) = n - m
  BY <1>1, SubSeqProperties
<1>3. ASSUME NEW i \in 1..n - m PROVE r[i] = s[m + i]
  BY <1>1, <1>3, SubSeqProperties
<1> QED
  BY <1>2, <1>3

\* What a read of n bytes gets, given as r.
NextBytes(r, n) ==
  /\ r \in Seq(Int) /\ Len(r) \in Nat
  /\ Shut => r = <<>>
  /\ ~Shut => /\ Len(r) = IF offset + n < Len(input) THEN n
                          ELSE IF offset < Len(input) THEN Len(input) - offset ELSE 0
              /\ \A i \in 1..Len(r) : r[i] = input[offset + i]

\* A read gets the bytes that come next, as many as there are.
LEMMA FetchedIs ==
  ASSUME StreamTypes, NEW n \in Nat, NEW r, r = Fetched(n)
  PROVE  NextBytes(r, n)
<1>1. CASE Shut
  BY <1>1 DEF Shut, Fetched, NextBytes
<1>2. CASE ~Shut
  <2>1. PICK e : e = IF offset + n < Len(input) THEN offset + n ELSE Len(input)
    OBVIOUS
  <2>2. r = SubSeq(input, offset + 1, e)
    BY <1>2, <2>1 DEF Shut, Fetched
  <2>3. e \in Nat /\ e <= Len(input) /\ offset \in Nat /\ offset + 1 \in Int /\ e \in Int
    BY <2>1 DEF StreamTypes
  <2>4. CASE offset < e
    <3>1. /\ r \in Seq(Int) /\ Len(r) = e - offset
          /\ \A i \in 1..e - offset : r[i] = input[offset + i]
      <4>1. input \in Seq(Int) /\ offset <= e
        BY <2>3, <2>4 DEF StreamTypes
      <4> QED
        BY SMTT(40), <2>2, <2>3, <4>1, InputCut
    <3> QED
      BY <1>2, <2>1, <2>3, <2>4, <3>1 DEF StreamTypes, NextBytes
  <2>5. CASE ~(offset < e)
    <3>1. r = <<>>
      BY <2>2, <2>3, <2>5, SubSeqEmpty
    <3> QED
      BY <1>2, <2>1, <2>3, <2>5, <3>1 DEF StreamTypes, NextBytes
  <2> QED
    BY <2>4, <2>5
<1> QED
  BY <1>1, <1>2

\* Bytes are put where the output stands.
LEMMA PutIs ==
  ASSUME StreamTypes, NEW data \in Seq(Int), Put(data)
  PROVE  /\ content' \in Seq(Int) /\ position' = position + Len(data)
         /\ Len(content') = IF position + Len(data) > Len(content)
                               /\ ~(ToFile /\ data = <<>>)
                            THEN position + Len(data) ELSE Len(content)
         /\ \A i \in 1..Len(data) : content'[position + i] = data[i]
         /\ \A i \in 1..Len(content') : i \notin position + 1..position + Len(data) =>
              content'[i] = IF i \in 1..Len(content) THEN content[i] ELSE 0
<1>1. PICK d \in Nat : d = Len(data)
  OBVIOUS
<1>2. PICK c \in Nat : c = Len(content)
  BY DEF StreamTypes
<1>3. PICK x : x = Extended(data)
  OBVIOUS
<1>4. PICK e \in Nat : e = IF position + d > c /\ ~(ToFile /\ data = <<>>)
                           THEN position + d ELSE c
  BY DEF StreamTypes
<1>5. /\ x \in Seq(Int) /\ Len(x) = e
      /\ \A i \in 1..e : x[i] = IF i \in 1..c THEN content[i] ELSE 0
  <2>1. CASE position + d > c /\ ~(ToFile /\ data = <<>>)
    <3>1. PICK z : z = [i \in 1..position + d - c |-> 0]
      OBVIOUS
    <3>2. PICK k \in Nat : k = position + d - c
      BY <2>1 DEF StreamTypes
    <3>3. z \in Seq(Int) /\ Len(z) = k /\ \A i \in 1..k : z[i] = 0
      BY <3>1, <3>2
    <3>4. x = content \o z
      BY <1>1, <1>2, <1>3, <2>1, <3>1 DEF Extended
    <3>5. content \in Seq(Int) /\ position \in Nat
      BY DEF StreamTypes
    <3>6. x \in Seq(Int) /\ Len(x) = c + k
          /\ \A i \in 1..c + k : x[i] = IF i <= c THEN content[i] ELSE z[i - c]
      BY <1>2, <3>3, <3>4, <3>5, ConcatProperties
    <3> QED
      <4>1. e = c + k
        BY <1>4, <2>1, <3>2, <3>5
      <4>2. \A i \in 1..c + k : ~(i <= c) => i - c \in 1..k
        BY <3>2
      <4>3. \A i \in 1..c + k : i \in 1..c <=> i <= c
        OBVIOUS
      <4>4. \A i \in 1..c + k : x[i] = IF i \in 1..c THEN content[i] ELSE 0
        BY <3>3, <3>6, <4>2, <4>3
      <4> QED
        BY <3>6, <4>1, <4>4
  <2>2. CASE ~(position + d > c /\ ~(ToFile /\ data = <<>>))
    BY <1>1, <1>2, <1>3, <1>4, <2>2 DEF Extended, StreamTypes
  <2> QED
    BY <2>1, <2>2
<1>6. /\ DOMAIN x = 1..e /\ DOMAIN data = 1..d /\ position \in Nat
      /\ \A i \in 1..e : x[i] \in Int
      /\ \A i \in 1..d : data[i] \in Int
  BY <1>1, <1>5 DEF StreamTypes
<1>7. content' = [i \in 1..e |-> IF i - position \in 1..d THEN data[i - position] ELSE x[i]]
  BY <1>3, <1>6 DEF Put
<1>8. content' \in Seq(Int) /\ Len(content') = e
  <2>1. \A i \in 1..e : content'[i] \in Int
    BY <1>6, <1>7
  <2>2. content' \in [1..e -> Int]
    BY <1>7, <2>1
  <2> QED
    BY <2>2
<1>9. position' = position + d
  BY <1>1 DEF Put
<1>10. \A i \in 1..d : content'[position + i] = data[i]
  <2> TAKE i \in 1..d
  <2>1. data # <<>>
    BY <1>1
  <2>2. position + i \in 1..e /\ position + i - position = i
    BY <1>4, <1>6, <2>1
  <2> QED
    <3>1. PICK k \in 1..e : k = position + i
      BY <2>2
    <3>2. content'[k] = IF k - position \in 1..d THEN data[k - position] ELSE x[k]
      BY <1>7
    <3>3. k - position = i
      BY <1>6, <3>1
    <3>4. content'[k] = data[i]
      BY <3>2, <3>3, Zenon
    <3> QED
      BY <3>1, <3>4, Zenon
<1>11. \A i \in 1..e : i \notin position + 1..position + d =>
         content'[i] = IF i \in 1..c THEN content[i] ELSE 0
  <2> TAKE i \in 1..e
  <2> HAVE i \notin position + 1..position + d
  <2>1. i - position \notin 1..d
    BY <1>6
  <2> QED
    BY <1>5, <1>7, <2>1
<1> QED
  BY <1>1, <1>2, <1>4, <1>8, <1>9, <1>10, <1>11

\* Calls of the program, while WriteData does not run.
LEMMA CallKeeps ==
  ASSUME StreamTypes, ProgramCalls, input' \in Seq(Int), offset' \in Nat,
         content' \in Seq(Int), position' \in Nat
  PROVE  CopyInv'
<1>1. copyPhase' = "idle"
  BY DEF ProgramCalls
<1> QED
  BY <1>1 DEF CopyInv, StreamTypes

\* The input moves on by what was read.
LEMMA AdvanceIs ==
  ASSUME StreamTypes, NEW n \in Nat, Advance(Fetched(n))
  PROVE  offset' = offset + Len(Fetched(n)) /\ offset' \in Nat /\ input' = input
         /\ failed' = failed
<1>1. PICK r : r = Fetched(n)
  OBVIOUS
<1>2. Len(r) \in Nat
  BY <1>1, FetchedIs DEF NextBytes
<1> QED
  BY <1>1, <1>2 DEF Advance, StreamTypes

\* Reads, writes and moves that the program makes itself.
LEMMA ProgramKeeps ==
  ASSUME StreamsAssumption, StreamTypes,
         \/ \E n \in 1..ReadChunkSize : Read(n)
         \/ \E o \in -MaxInput - 1..MaxInput,
               whence \in {"SEEK_SET", "SEEK_CUR", "SEEK_END"} :
              SeekInput(o, whence)
         \/ \E data \in {<<>>, <<Written>>} : Write(data)
         \/ \E p \in 0..MaxOutput : SeekOutput(p)
         \/ FlushOutput
  PROVE  CopyInv'
<1>1. ASSUME NEW n \in 1..ReadChunkSize, Read(n)
      PROVE  CopyInv'
  <2>1. n \in Nat
    BY DEF StreamsAssumption
  <2>2. offset' \in Nat /\ input' = input
    BY <1>1, <2>1, AdvanceIs DEF Read
  <2> QED
    BY <1>1, <2>2, CallKeeps DEF Read, outputVars, StreamTypes
<1>2. ASSUME NEW o \in -MaxInput - 1..MaxInput,
             NEW whence \in {"SEEK_SET", "SEEK_CUR", "SEEK_END"},
             SeekInput(o, whence)
      PROVE  CopyInv'
  <2>1. o \in Int
    BY DEF StreamsAssumption
  <2>2. PICK to : to = o + (CASE whence = "SEEK_SET" -> 0 [] whence = "SEEK_CUR" -> offset
                      [] whence = "SEEK_END" -> Len(input))
    OBVIOUS
  <2>3. to \in Int
    BY <2>1, <2>2 DEF StreamTypes
  <2>4. offset' \in Nat
    BY <1>2, <2>2, <2>3 DEF SeekInput, StreamTypes
  <2> QED
    BY <1>2, <2>4, CallKeeps DEF SeekInput, outputVars, StreamTypes
<1>3. ASSUME NEW data \in {<<>>, <<Written>>}, Write(data)
      PROVE  CopyInv'
  <2>1. data \in Seq(Int)
    <3>1. PICK w \in Int : w = Written
      BY DEF Written
    <3>2. data = <<>> \/ data = <<w>>
      BY <3>1
    <3>3. <<w>> \in Seq(Int) /\ <<>> \in Seq(Int)
      OBVIOUS
    <3> QED
      BY <3>2, <3>3, Zenon
  <2>2. content' \in Seq(Int) /\ position' = position + Len(data)
    BY <1>3, <2>1, PutIs DEF Write
  <2> QED
    BY <1>3, <2>1, <2>2, CallKeeps DEF Write, inputVars, StreamTypes
<1>4. ASSUME NEW p \in 0..MaxOutput, SeekOutput(p)
      PROVE  CopyInv'
  BY <1>4, CallKeeps DEF SeekOutput, inputVars, StreamTypes
<1>5. ASSUME FlushOutput
      PROVE  CopyInv'
  BY <1>5, CallKeeps DEF FlushOutput, Flush, inputVars,
     StreamTypes
<1> QED
  BY <1>1, <1>2, <1>3, <1>4, <1>5

\* When WriteData is called, everything is left to copy.
LEMMA BeginKeeps ==
  ASSUME StreamTypes, WriteData
  PROVE  CopyInv'
<1>1. PICK r : r = Fetched(Len(input))
  OBVIOUS
<1>2. /\ copyPhase' = "read" /\ begun' = <<content, position, r>>
      /\ UNCHANGED <<kinds, input, offset, failed, content, position, visible, chunk>>
  BY <1>1 DEF WriteData, inputVars, outputVars
<1>3. Len(input) \in Nat /\ position \in Nat /\ offset \in Nat
  BY DEF StreamTypes
<1>4. /\ r \in Seq(Int) /\ Len(r) \in Nat
      /\ Shut => r = <<>>
      /\ ~Shut => /\ Len(r) = IF offset < Len(input) THEN Len(input) - offset ELSE 0
                  /\ \A i \in 1..Len(r) : r[i] = input[offset + i]
  <2>1. ~(offset + Len(input) < Len(input))
    BY <1>3
  <2>2. NextBytes(r, Len(input))
    BY <1>1, <1>3, FetchedIs
  <2> QED
    BY <2>1, <2>2 DEF NextBytes
<1>5. ContentBefore' = content /\ At' = position /\ Rest' = r /\ CopiedCount' = 0
  BY <1>2, <1>3 DEF ContentBefore, At, Rest, CopiedCount
<1>6. StreamTypes'
  BY <1>2 DEF StreamTypes
<1>7. CopyBegun'
  BY <1>2, <1>3, <1>4, <1>5 DEF CopyBegun, StreamTypes
<1>8. OutputSoFar'
  BY <1>2, <1>3, <1>5 DEF OutputSoFar, StreamTypes
<1>9. InputLeft(CopiedCount)'
  BY <1>2, <1>3, <1>4, <1>5 DEF InputLeft, Shut, Unopened
<1> QED
  BY <1>2, <1>6, <1>7, <1>8, <1>9 DEF CopyInv

\* A chunk is the next of what is left.
LEMMA ReadChunkKeeps ==
  ASSUME StreamsAssumption, CopyInv, FetchChunk
  PROVE  CopyInv'
<1>1. PICK r : r = Fetched(ReadChunkSize)
  OBVIOUS
<1>2. /\ copyPhase = "read" /\ copyPhase' = "write" /\ chunk' = r
      /\ UNCHANGED <<kinds, content, position, visible, begun>>
  BY <1>1 DEF FetchChunk, outputVars
<1>3. ReadChunkSize \in Nat /\ StreamTypes /\ CopyBegun /\ OutputSoFar /\ InputLeft(CopiedCount)
  BY <1>2 DEF CopyInv, StreamsAssumption
<1>4. /\ offset' = offset + Len(r) /\ offset' \in Nat /\ input' = input /\ failed' = failed
  BY <1>1, <1>3, AdvanceIs DEF FetchChunk
<1>5. UNCHANGED <<ContentBefore, At, Rest, CopiedCount, Shut, ToFile>>
  BY <1>2, <1>4 DEF ContentBefore, At, Rest, CopiedCount, Shut, Unopened, ToFile
<1>6. /\ r \in Seq(Int) /\ Len(r) \in Nat
      /\ Shut => r = <<>>
      /\ ~Shut => /\ Len(r) = IF offset + ReadChunkSize < Len(input) THEN ReadChunkSize
                              ELSE IF offset < Len(input) THEN Len(input) - offset ELSE 0
                  /\ \A i \in 1..Len(r) : r[i] = input[offset + i]
  <2>1. NextBytes(r, ReadChunkSize)
    BY <1>1, <1>3, FetchedIs
  <2> QED
    BY <2>1 DEF NextBytes
<1>7. PICK k : k = CopiedCount
  OBVIOUS
<1>8. k \in Nat /\ k <= Len(Rest) /\ offset \in Nat /\ Len(input) \in Nat
      /\ Rest \in Seq(Int) /\ Len(Rest) \in Nat
  BY <1>3, <1>7 DEF CopyBegun, CopiedCount, StreamTypes
<1>9. StreamTypes' /\ CopyBegun'
  BY <1>2, <1>3, <1>4, <1>5 DEF StreamTypes, CopyBegun
<1>10. OutputSoFar'
  BY <1>2, <1>3, <1>5 DEF OutputSoFar
<1>11. CASE Shut
  <2>1. Len(r) = 0 /\ k = Len(Rest)
    BY <1>3, <1>6, <1>7, <1>11 DEF InputLeft
  <2>2. ChunkNext'
    BY <1>2, <1>5, <1>6, <1>7, <1>8, <2>1 DEF ChunkNext
  <2>3. InputLeft(CopiedCount + Len(chunk))'
    BY <1>2, <1>5, <1>7, <1>8, <1>11, <2>1 DEF InputLeft
  <2> QED
    BY <1>2, <1>9, <1>10, <2>2, <2>3 DEF CopyInv
<1>12. CASE ~Shut
  <2>1. /\ k = Len(Rest) => offset >= Len(input)
        /\ k < Len(Rest) => offset + Len(Rest) - k = Len(input)
        /\ \A i \in 1..Len(Rest) : i > k => Rest[i] = input[offset + i - k]
    BY <1>3, <1>7, <1>12 DEF InputLeft
  <2>2. /\ k + Len(r) <= Len(Rest)
        /\ Len(r) < ReadChunkSize => k + Len(r) = Len(Rest)
        /\ k + Len(r) = Len(Rest) => offset + Len(r) >= Len(input)
        /\ k + Len(r) < Len(Rest) => offset + Len(r) + Len(Rest) - (k + Len(r)) = Len(input)
    <3>1. PICK n \in Nat, l \in Nat, rest \in Nat, o \in Nat :
            n = Len(r) /\ l = Len(input) /\ rest = Len(Rest) /\ o = offset
      BY <1>6, <1>8
    <3>2. n = IF o + ReadChunkSize < l THEN ReadChunkSize ELSE IF o < l THEN l - o ELSE 0
      BY <1>6, <1>12, <3>1
    <3>3. k \in Nat /\ k <= rest /\ (k = rest => o >= l) /\ (k < rest => o + rest - k = l)
      BY <1>8, <2>1, <3>1
    <3>4. k + n <= rest
      BY <1>3, <3>2, <3>3
    <3>5. (n < ReadChunkSize => k + n = rest) /\ (k + n = rest => o + n >= l)
      BY <1>3, <3>2, <3>3
    <3>6. k + n < rest => o + n + rest - (k + n) = l
      BY <1>3, <3>2, <3>3
    <3> QED
      BY <3>1, <3>4, <3>5, <3>6
  <2>3. \A i \in 1..Len(r) : r[i] = Rest[k + i]
    <3> TAKE i \in 1..Len(r)
    <3>1. PICK j \in 1..Len(Rest) : j = k + i
      BY <1>6, <1>8, <2>2
    <3>2. j > k /\ offset + j - k = offset + i
      BY <1>6, <1>8, <3>1
    <3>3. Rest[j] = input[offset + j - k]
      BY <2>1, <3>2
    <3>4. r[i] = input[offset + i]
      BY <1>6, <1>12
    <3> QED
      BY <3>1, <3>2, <3>3, <3>4, Zenon
  <2>4. \A i \in 1..Len(Rest) : i > k + Len(r) =>
          Rest[i] = input[offset + Len(r) + i - (k + Len(r))]
    <3> TAKE i \in 1..Len(Rest)
    <3> HAVE i > k + Len(r)
    <3>1. i > k /\ offset + Len(r) + i - (k + Len(r)) = offset + i - k
      BY <1>6, <1>8
    <3>2. Rest[i] = input[offset + i - k]
      BY <2>1, <3>1
    <3> QED
      BY <3>1, <3>2, Zenon
  <2>5. ChunkNext'
    BY <1>2, <1>5, <1>6, <1>7, <2>2, <2>3 DEF ChunkNext
  <2>6. InputLeft(CopiedCount + Len(chunk))'
    BY <1>2, <1>4, <1>5, <1>7, <1>12, <2>2, <2>4 DEF InputLeft
  <2> QED
    BY <1>2, <1>9, <1>10, <2>5, <2>6 DEF CopyInv
<1> QED
  BY <1>11, <1>12

\* A chunk that is written extends the copy.
LEMMA WriteChunkKeeps ==
  ASSUME StreamsAssumption, CopyInv, WriteChunk
  PROVE  CopyInv'
<1>1. /\ copyPhase = "write" /\ Put(chunk)
      /\ copyPhase' = IF Len(chunk) < ReadChunkSize THEN "flush" ELSE "read"
      /\ UNCHANGED <<kinds, input, offset, failed, chunk, begun>>
  BY DEF WriteChunk, inputVars
<1>2. /\ StreamTypes /\ CopyBegun /\ OutputSoFar /\ ChunkNext
      /\ InputLeft(CopiedCount + Len(chunk))
  BY <1>1 DEF CopyInv
<1>3. PICK n \in Nat : n = Len(chunk)
  BY <1>2 DEF ChunkNext
<1>4. PICK k : k = CopiedCount
  OBVIOUS
<1>5. PICK at \in Nat : at = At
  BY <1>2 DEF CopyBegun
<1>6. /\ k \in Nat /\ position = at + k /\ k + n <= Len(Rest) /\ Rest \in Seq(Int)
      /\ Len(content) \in Nat /\ Len(ContentBefore) \in Nat /\ ContentBefore \in Seq(Int)
      /\ chunk \in Seq(Int) /\ (n < ReadChunkSize => k + n = Len(Rest))
      /\ \A i \in 1..n : chunk[i] = Rest[k + i]
  BY <1>2, <1>3, <1>4, <1>5 DEF CopyBegun, CopiedCount, StreamTypes, ChunkNext
<1>7. /\ content' \in Seq(Int) /\ position' = position + n
      /\ Len(content') = IF position + n > Len(content) /\ ~(ToFile /\ n = 0)
                         THEN position + n ELSE Len(content)
      /\ \A i \in 1..n : content'[position + i] = chunk[i]
      /\ \A i \in 1..Len(content') : i \notin position + 1..position + n =>
           content'[i] = IF i \in 1..Len(content) THEN content[i] ELSE 0
  <2>1. n = 0 <=> chunk = <<>>
    BY <1>3, <1>6
  <2> QED
    BY <1>1, <1>2, <1>3, <1>6, <2>1, PutIs
<1>8. UNCHANGED <<ContentBefore, At, Rest, Shut, ToFile>> /\ CopiedCount' = k + n
  <2>1. UNCHANGED <<ContentBefore, At, Rest, Shut, ToFile>>
    BY <1>1 DEF ContentBefore, At, Rest, Shut, Unopened, ToFile
  <2>2. CopiedCount' = k + n
    BY <1>5, <1>6, <1>7, <2>1 DEF CopiedCount
  <2> QED
    BY <2>1, <2>2
<1>9. StreamTypes'
  BY <1>1, <1>2, <1>6, <1>7 DEF StreamTypes
<1>10. CopyBegun'
  BY <1>2, <1>5, <1>6, <1>7, <1>8 DEF CopyBegun
<1>11. /\ \A i \in 1..k : content[at + i] = Rest[i]
       /\ \A i \in 1..Len(content) : i \notin at + 1..position =>
            content[i] = IF i \in 1..Len(ContentBefore) THEN ContentBefore[i] ELSE 0
       /\ Len(content) = IF position > Len(ContentBefore) /\ k > 0 THEN position ELSE Len(ContentBefore)
       /\ k > 0 => at + k <= Len(content)
  BY <1>1, <1>2, <1>4, <1>5, <1>6 DEF OutputSoFar
<1>12. \A i \in 1..k + n : content'[at + i] = Rest[i]
  <2> TAKE i \in 1..k + n
  <2>1. CASE i \in 1..k
    <3>1. PICK j : j = at + i
      OBVIOUS
    <3>2. /\ j \in 1..Len(content) /\ j \in 1..Len(content')
          /\ j \notin position + 1..position + n
      <4>1. j \in Nat /\ 1 <= j /\ j <= Len(content) /\ j <= position
        BY <1>6, <1>11, <2>1, <3>1
      <4>2. Len(content) <= Len(content')
        BY <1>6, <1>7
      <4>3. Len(content') \in Nat
        BY <1>7
      <4> QED
        BY <1>6, <4>1, <4>2, <4>3
    <3>3. content'[j] = content[j]
      BY <1>7, <3>2
    <3> QED
      BY <1>11, <2>1, <3>1, <3>3
  <2>2. CASE i \notin 1..k
    <3>1. PICK j \in 1..n : j = i - k
      BY <1>6, <2>2
    <3>2. position + j = at + i /\ k + j = i
      BY <1>6, <3>1
    <3>3. content'[position + j] = chunk[j] /\ chunk[j] = Rest[k + j]
      BY <1>6, <1>7
    <3> QED
      BY <3>2, <3>3, Zenon
  <2> QED
    BY <2>1, <2>2
<1>13. \A i \in 1..Len(content') : i \notin at + 1..position + n =>
         content'[i] = IF i \in 1..Len(ContentBefore) THEN ContentBefore[i] ELSE 0
  <2> TAKE i \in 1..Len(content')
  <2> HAVE i \notin at + 1..position + n
  <2>1. i \notin position + 1..position + n /\ i \notin at + 1..position
    <3>1. k \in Nat /\ position = at + k
      BY <1>6
    <3>2. i \in Nat
      BY <1>7
    <3> QED
      BY <3>1, <3>2
  <2>2. content'[i] = IF i \in 1..Len(content) THEN content[i] ELSE 0
    BY <1>7, <2>1
  <2>3. CASE i \in 1..Len(content)
    BY <1>11, <2>1, <2>2, <2>3
  <2>4. CASE i \notin 1..Len(content)
    <3>1. Len(ContentBefore) <= Len(content)
      BY <1>6, <1>11
    <3>2. i \notin 1..Len(ContentBefore)
      BY <1>6, <2>4, <3>1
    <3> QED
      BY <2>2, <2>4, <3>2
  <2> QED
    BY <2>3, <2>4
<1>14. Len(content') =
         IF position + n > Len(ContentBefore)
            /\ (k + n > 0 \/ (copyPhase' \in {"flush", "copied"} /\ ~ToFile))
         THEN position + n ELSE Len(ContentBefore)
  <2>1. copyPhase' = "read" => n > 0
    BY <1>1, <1>3 DEF StreamsAssumption
  <2>2. copyPhase' = "read" \/ copyPhase' = "flush"
    BY <1>1
  <2>3. PICK b \in Nat, c \in Nat : b = Len(ContentBefore) /\ c = Len(content)
    BY <1>6
  <2>4. position \in Nat /\ (k > 0 => at + k <= c)
        /\ c = IF position > b /\ k > 0 THEN position ELSE b
    BY <1>6, <1>11, <2>3
  <2>5. CASE n > 0
    <3>1. Len(content') = IF position + n > c THEN position + n ELSE c
      BY <1>7, <2>3, <2>5
    <3>2. Len(content') = IF position + n > b THEN position + n ELSE b
      BY <2>4, <2>5, <3>1
    <3> QED
      BY <1>6, <2>3, <2>5, <3>2
  <2>6. CASE n = 0
    <3>1. copyPhase' \in {"flush", "copied"} /\ position + n = position /\ k + n = k
      BY <1>6, <2>1, <2>2, <2>4, <2>6
    <3>2. CASE ToFile
      BY <1>7, <2>3, <2>4, <2>6, <3>1, <3>2
    <3>3. CASE ~ToFile
      BY <1>7, <2>3, <2>4, <2>6, <3>1, <3>3
    <3> QED
      BY <3>2, <3>3
  <2> QED
    BY <2>5, <2>6
<1>15. OutputSoFar'
  BY <1>5, <1>7, <1>8, <1>12, <1>13, <1>14 DEF OutputSoFar
<1>16. InputLeft(CopiedCount)'
  BY <1>1, <1>2, <1>3, <1>4, <1>8 DEF InputLeft
<1>17. copyPhase' = "flush" => CopiedCount' = Len(Rest')
  BY <1>1, <1>3, <1>6, <1>8 DEF StreamsAssumption
<1> QED
  BY <1>1, <1>9, <1>10, <1>15, <1>16, <1>17 DEF CopyInv

\* Flushing makes the copy visible.
LEMMA FlushCopyKeeps ==
  ASSUME CopyInv, FlushCopy
  PROVE  CopyInv'
<1>1. /\ copyPhase = "flush" /\ copyPhase' = "copied" /\ visible' = content
      /\ UNCHANGED <<kinds, input, offset, failed, content, position, begun>>
  BY DEF FlushCopy, Flush, inputVars
<1>2. UNCHANGED <<ContentBefore, At, Rest, CopiedCount, Shut, ToFile>>
  BY <1>1 DEF ContentBefore, At, Rest, CopiedCount, Shut, Unopened, ToFile
<1>3. StreamTypes' /\ CopyBegun'
  BY <1>1, <1>2 DEF CopyInv, StreamTypes, CopyBegun
<1>4. OutputSoFar'
  BY <1>1, <1>2 DEF CopyInv, OutputSoFar
<1>5. CopiedCount' = Len(Rest') /\ InputLeft(CopiedCount)'
  BY <1>1, <1>2 DEF CopyInv, InputLeft
<1> QED
  BY <1>1, <1>3, <1>4, <1>5 DEF CopyInv

\* WriteData copies what is left of any input to any place of the output, whatever the
\* size of the chunks (MBInterfaces.h).
THEOREM WriteDataCopies ==
  ASSUME StreamsAssumption
  PROVE  StreamsSpec => []CopyComplete
<1>1. StreamsInit => CopyInv
  <2> SUFFICES ASSUME StreamsInit PROVE CopyInv
    OBVIOUS
  <2>1. input \in Seq(Int)
    <3>1. PICK n \in 0..MaxInput : input = [i \in 1..n |-> i]
      BY DEF StreamsInit
    <3>2. n \in Nat
      BY DEF StreamsAssumption
    <3> QED
      BY <3>1, <3>2
  <2>2. content \in Seq(Int) /\ position \in Nat
    <3>1. PICK w \in Int : w = Written
      BY DEF Written
    <3>2. content = <<>> \/ content = <<w, w>>
      BY <3>1 DEF StreamsInit
    <3>3. <<w, w>> \in Seq(Int) /\ <<>> \in Seq(Int)
      OBVIOUS
    <3>4. content \in Seq(Int)
      BY <3>2, <3>3, Zenon
    <3> QED
      BY <3>4 DEF StreamsInit
  <2> QED
    BY <2>1, <2>2 DEF StreamsInit, CopyInv, StreamTypes
<1>2. CopyInv /\ [StreamsNext]_(streamsVars) => CopyInv'
  <2> SUFFICES ASSUME CopyInv, [StreamsNext]_(streamsVars) PROVE CopyInv'
    OBVIOUS
  <2>1. StreamTypes
    BY DEF CopyInv
  <2>2. CASE UNCHANGED streamsVars
    BY <2>2 DEF CopyInv, StreamTypes, CopyBegun, OutputSoFar, InputLeft, ChunkNext,
       ContentBefore, At, Rest, CopiedCount, Shut, streamsVars, inputVars,
       outputVars, Unopened, ToFile
  <2>3. CASE StreamsNext
    BY <2>1, <2>3, ProgramKeeps, BeginKeeps, ReadChunkKeeps, WriteChunkKeeps,
       FlushCopyKeeps DEF StreamsNext
  <2> QED
    BY <2>2, <2>3
<1>3. CopyInv => CopyComplete
  <2> SUFFICES ASSUME CopyInv, copyPhase = "copied" PROVE CopyComplete
    BY DEF CopyComplete
  <2>1. /\ StreamTypes /\ CopyBegun /\ OutputSoFar /\ InputLeft(CopiedCount)
        /\ CopiedCount = Len(Rest) /\ visible = content
    BY DEF CopyInv
  <2>2. PICK end : end = At + Len(Rest)
    OBVIOUS
  <2>3. position = end
    BY <2>1, <2>2 DEF StreamTypes, CopyBegun, CopiedCount
  <2>4. \A i \in 1..Len(Rest) : visible[At + i] = Rest[i]
    BY <2>1 DEF OutputSoFar
  <2>5. \A i \in DOMAIN visible \ (At + 1..end) :
          visible[i] = IF i \in DOMAIN ContentBefore THEN ContentBefore[i] ELSE 0
    <3>1. DOMAIN visible = 1..Len(content) /\ DOMAIN ContentBefore = 1..Len(ContentBefore)
      BY <2>1 DEF StreamTypes, CopyBegun
    <3> QED
      BY <2>1, <2>3, <3>1 DEF OutputSoFar
  <2>6. Len(visible) = IF end > Len(ContentBefore) /\ (Rest # <<>> \/ ~ToFile) THEN end
                       ELSE Len(ContentBefore)
    BY <2>1, <2>3 DEF OutputSoFar, CopyBegun
  <2>7. Fetched(1) = <<>>
    <3>1. PICK r : r = Fetched(1)
      OBVIOUS
    <3>2. r \in Seq(Int) /\ (Shut => r = <<>>)
          /\ (~Shut /\ offset >= Len(input) => Len(r) = 0)
      <4>1. NextBytes(r, 1)
        BY <2>1, <3>1, FetchedIs
      <4> QED
        BY <2>1, <4>1 DEF NextBytes, StreamTypes
    <3>3. ~Shut => offset >= Len(input)
      BY <2>1 DEF InputLeft
    <3> QED
      BY <3>1, <3>2, <3>3
  <2> QED
    BY <2>2, <2>3, <2>4, <2>5, <2>6, <2>7, Zenon DEF CopyComplete, ContentBefore, At,
       Rest
<1> QED
  BY <1>1, <1>2, <1>3, PTL DEF StreamsSpec
-----------------------------------------------------------------------------
(* Holders                                                                 *)

Contents == Values \cup {Empty, Spent}

\* What an object of the class at hand can be: the flag of an Optional is 0 or 1, the
\* index of a variant is that of its value, and a SmartPtr points to what it owns.
Sound(o) ==
  /\ o \in [tag : Nat \cup {-1}, content : Contents, ptr : Contents]
  /\ IsOptional => o.tag \in {0, 1}
  /\ class = "DynamicVariant" =>
       \/ o.tag = -1 \/ o.content = Empty
       \/ o.content \in Values /\ o.tag = TypeOf[o.content]
  /\ class = "SmartPtr" => o.ptr = o.content

Classified ==
  class \in Optionals \cup
    {"DynamicVariant", "SmartPtr", "CopyableUnique", "Dynamic", "MOFunction"}

Objects ==
  /\ Classified
  /\ object \in [Names -> [tag : Nat \cup {-1}, content : Contents, ptr : Contents]]
  /\ \A n \in Names : Sound(object[n])

\* The cells that the objects stand for.
Cellar == [n \in Names |-> Held(object[n])]

\* A default-constructed object.
LEMMA FreshHolds ==
  ASSUME HolderAssumption, Classified
  PROVE  /\ Sound(Fresh)
         /\ Fresh.content \in {Empty, Default}
         /\ Held(Fresh) = Fresh.content
  BY DEF HolderAssumption, Objects, Classified, Optionals, Sound,
     Fresh, Held, Is, IsOptional, VariantFresh,
     Object, Contents, ValueOf, OptionalValue,
     VariantVisited, FunctionInvoked

\* An object that is constructed from a value holds it.
LEMMA BuiltHolds ==
  ASSUME HolderAssumption, Objects, NEW v \in Values, NEW o \in Built(v)
  PROVE  Sound(o) /\ Held(o) = v
  BY DEF HolderAssumption, Objects, Classified, Optionals, Sound,
     Built, Held, Is, IsOptional, VariantOf,
     SmartPtrOf, Pointer, Object, Contents, ValueOf,
     OptionalValue, VariantVisited, FunctionInvoked

\* A copy holds what its source holds, but for that of a variant.
LEMMA CopyHolds ==
  ASSUME HolderAssumption, Objects, NEW s, Sound(s),
         class \notin {"SmartPtr", "MOFunction"}
  PROVE  /\ Sound(Copied(s))
         /\ Held(Copied(s)) =
              IF class = "DynamicVariant" THEN Empty ELSE Held(s)
  BY DEF HolderAssumption, Objects, Classified, Optionals, Sound,
     Copied, Held, Is, IsOptional, VariantCopied,
     UniqueCopied, DynamicCopied, OptionalCopied, Object,
     Contents, ValueOf, OptionalValue, VariantVisited,
     FunctionInvoked

\* What a move makes of a target and a source.
MoveOf(both, s, rests) ==
  /\ Sound(both[1]) /\ Sound(both[2])
  /\ Held(both[1]) = Held(s)
  /\ Held(both[2]) \in rests

\* What a move makes is sound, and holds what its source did; the source keeps it,
\* or has nothing, a default value or a spent one.
LEMMA MoveHolds ==
  ASSUME HolderAssumption, Objects, NEW s, Sound(s)
  PROVE  MoveOf(Moved(s), s, {Held(s), Empty, Default, Spent})
  BY DEF HolderAssumption, Objects, Classified, Optionals, Sound,
     Moved, Held, Is, IsOptional, OptionalMoved,
     VariantMoved, SmartPtrSwap, UniqueMoved,
     DynamicMoved, FunctionMoved, Left, Fresh,
     OptionalCopied, Object, Contents, MoveOf, VariantFresh,
     ValueOf, OptionalValue, VariantVisited,
     FunctionInvoked

\* Assigning an Optional leaves the target alone or makes it hold what the source does.
LEMMA OptionalAssignHolds ==
  ASSUME HolderAssumption, Objects, IsOptional,
         NEW t, Sound(t), NEW s, Sound(s)
  PROVE  /\ Sound(OptionalAssigned(t, s))
         /\ StaysSet(t, s) => OptionalAssigned(t, s) = t
         /\ ~StaysSet(t, s) =>
              Held(OptionalAssigned(t, s)) = Held(s)
  BY DEF HolderAssumption, Objects, Classified, Optionals, Sound,
     Held, Is, IsOptional, StaysSet,
     OptionalAssigned, p_DeInitialize, Object, Contents,
     ValueOf, OptionalValue, VariantVisited,
     FunctionInvoked

\* A move assignment leaves both alone, or moves and may swap.
LEMMA MoveAssignHolds ==
  ASSUME HolderAssumption, Objects, NEW t, Sound(t), NEW s, Sound(s)
  PROVE  /\ StaysSet(t, s) => MoveAssigned(t, s) = <<t, s>>
         /\ ~StaysSet(t, s) =>
              MoveOf(MoveAssigned(t, s), s,
                     {Held(t), Held(s), Empty, Default, Spent})
<1>1. CASE IsOptional
  BY <1>1, OptionalAssignHolds DEF HolderAssumption, Objects, Classified,
     Optionals, Sound, Held, Is, IsOptional,
     StaysSet, OptionalMoveAssigned, MoveAssigned, MoveOf,
     Left, Contents, ValueOf, OptionalValue,
     VariantVisited, FunctionInvoked
<1>2. CASE class = "SmartPtr"
  BY <1>2 DEF Sound, Held, Is, IsOptional, Optionals,
     StaysSet, MoveAssigned, MoveOf, SmartPtrSwap
<1>3. CASE ~IsOptional /\ class # "SmartPtr"
  BY <1>3, MoveHolds DEF MoveAssigned, Is, IsOptional,
     Optionals, StaysSet, MoveOf
<1> QED
  BY <1>1, <1>2, <1>3

\* A call that changes one object changes its cell.
LEMMA OneSet ==
  ASSUME Objects, class' = class, NEW n \in Names, NEW o, Sound(o),
         object' = [object EXCEPT ![n] = o]
  PROVE  Objects' /\ Cellar' = [Cellar EXCEPT ![n] = Held(o)]
<1>1. /\ o \in [tag : Nat \cup {-1}, content : Contents, ptr : Contents]
      /\ object \in [Names -> [tag : Nat \cup {-1}, content : Contents, ptr : Contents]]
  BY DEF Sound, Objects
<1>2. object'[n] = o /\ \A m \in Names \ {n} : object'[m] = object[m]
  BY <1>1
<1>3. \A x : (Sound(x)' <=> Sound(x)) /\ Held(x)' = Held(x)
  BY DEF Sound, IsOptional, Held, Is, ValueOf,
     OptionalValue, VariantVisited, FunctionInvoked
<1> QED
  BY <1>1, <1>2, <1>3 DEF Objects, Classified, Cellar

\* A call that changes two.
LEMMA TwoSet ==
  ASSUME Objects, class' = class, NEW n \in Names, NEW m \in Names, n # m,
         NEW both, Sound(both[1]), Sound(both[2]),
         object' = [object EXCEPT ![n] = both[1], ![m] = both[2]]
  PROVE  /\ Objects'
         /\ Cellar' = [Cellar EXCEPT ![n] = Held(both[1]), ![m] = Held(both[2])]
<1>1. /\ both[1] \in [tag : Nat \cup {-1}, content : Contents, ptr : Contents]
      /\ both[2] \in [tag : Nat \cup {-1}, content : Contents, ptr : Contents]
      /\ object \in [Names -> [tag : Nat \cup {-1}, content : Contents, ptr : Contents]]
  BY DEF Sound, Objects
<1>2. object'[n] = both[1] /\ object'[m] = both[2]
      /\ \A u \in Names \ {n, m} : object'[u] = object[u]
  BY <1>1
<1>3. \A x : (Sound(x)' <=> Sound(x)) /\ Held(x)' = Held(x)
  BY DEF Sound, IsOptional, Held, Is, ValueOf,
     OptionalValue, VariantVisited, FunctionInvoked
<1>4. Objects'
  BY <1>1, <1>2, <1>3 DEF Objects, Classified
<1>5. Cellar' = [u \in Names |-> Held(object'[u])]
  BY <1>3 DEF Cellar
<1>6. PICK a : a = Held(both[1])
  OBVIOUS
<1>7. PICK b : b = Held(both[2])
  OBVIOUS
<1>8. \A u \in Names : Held(object'[u]) =
                         IF u = n THEN a ELSE IF u = m THEN b ELSE Cellar[u]
  <2> TAKE u \in Names
  <2>1. CASE u = n
    BY <1>2, <1>6, <2>1
  <2>2. CASE u = m /\ u # n
    BY <1>2, <1>7, <2>2
  <2>3. CASE u # n /\ u # m
    <3>1. object'[u] = object[u]
      BY <1>2, <2>3
    <3>2. Cellar[u] = Held(object[u])
      BY DEF Cellar
    <3> QED
      BY <2>3, <3>1, <3>2
  <2> QED
    BY <2>1, <2>2, <2>3
<1>9. PICK old : old = Cellar
  OBVIOUS
<1>10. [u \in Names |-> Held(object'[u])] = [old EXCEPT ![n] = a, ![m] = b]
  <2>1. DOMAIN old = Names /\ old = [u \in Names |-> old[u]]
    BY <1>9 DEF Cellar
  <2>2. [u \in Names |-> Held(object'[u])]
          = [u \in Names |-> IF u = n THEN a ELSE IF u = m THEN b ELSE old[u]]
    BY <1>8, <1>9
  <2>3. [old EXCEPT ![n] = a, ![m] = b]
          = [u \in Names |-> IF u = n THEN a ELSE IF u = m THEN b ELSE old[u]]
    BY <2>1
  <2> QED
    BY <2>2, <2>3
<1> QED
  BY <1>4, <1>5, <1>6, <1>7, <1>9, <1>10

\* Calls that change no object.
LEMMA NoneSet ==
  ASSUME Objects, UNCHANGED <<class, object>>
  PROVE  Objects' /\ Cellar' = Cellar
  BY DEF Objects, Classified, Cellar, Sound, IsOptional, Held, Is,
     ValueOf, OptionalValue, VariantVisited,
     FunctionInvoked

\* Default construction clears the cell or stores a default value.
LEMMA DefaultConstructStep ==
  ASSUME HolderAssumption, Objects, NEW n \in Names, DefaultConstruct(n)
  PROVE  Objects' /\ Cell!Next
<1>1. PICK o : o = Fresh
  OBVIOUS
<1>2. Sound(o) /\ Held(o) = o.content /\ o.content \in {Empty, Default}
  BY <1>1, FreshHolds DEF Objects
<1>3. class' = class /\ object' = [object EXCEPT ![n] = o]
  BY <1>1 DEF DefaultConstruct
<1>4. Objects' /\ Cellar' = [Cellar EXCEPT ![n] = o.content]
  BY <1>2, <1>3, OneSet
<1>5. Cell!Clear(n) \/ Cell!Store(n, Default)
  BY <1>1, <1>2, <1>4 DEF DefaultConstruct, Cellar, Cell!Clear,
     Cell!Store
<1>6. Default \in Values
  BY DEF HolderAssumption
<1> QED
  BY <1>4, <1>5, <1>6 DEF Cell!Next

\* Construction from a value and assignment of one store it.
LEMMA ConstructStep ==
  ASSUME HolderAssumption, Objects, NEW n \in Names, NEW v \in Values,
         Construct(n, v) \/ Assign(n, v)
  PROVE  Objects' /\ Cell!Next
<1>1. PICK o : Sound(o) /\ Held(o) = v /\ object' = [object EXCEPT ![n] = o]
  <2>1. CASE Construct(n, v)
    BY <2>1, BuiltHolds DEF Construct
  <2>2. CASE Assign(n, v) /\ ~IsOptional
    BY <2>2, BuiltHolds DEF Assign
  <2>3. CASE Assign(n, v) /\ IsOptional
    <3>1. PICK o : o = [object[n] EXCEPT !.tag = 1, !.content = v]
      OBVIOUS
    <3>2. object' = [object EXCEPT ![n] = o]
      BY <2>3, <3>1 DEF Assign
    <3>3. Sound(object[n])
      BY DEF Objects
    <3>4. Sound(o) /\ Held(o) = v
      BY <2>3, <3>1, <3>3 DEF Sound, Contents, IsOptional, Optionals,
         Is, Held, ValueOf, OptionalValue
    <3> QED
      BY <3>2, <3>4
  <2> QED
    BY <2>1, <2>2, <2>3
<1>2. class' = class /\ last' = <<"store", n, v>>
  BY DEF Construct, Assign
<1>3. Objects' /\ Cellar' = [Cellar EXCEPT ![n] = v]
  BY <1>1, <1>2, OneSet
<1>4. Cell!Store(n, v)
  BY <1>2, <1>3 DEF Cellar, Cell!Store
<1> QED
  BY <1>3, <1>4 DEF Cell!Next

\* A copy copies the cell, but for a variant, whose cell is cleared.
LEMMA CopyConstructStep ==
  ASSUME HolderAssumption, Objects, NEW n \in Names, NEW m \in Names,
         CopyConstruct(n, m)
  PROVE  Objects' /\ Cell!Next
<1>1. Sound(object[m]) /\ class' = class /\ class \notin {"SmartPtr", "MOFunction"}
  BY DEF Objects, CopyConstruct
<1>2. PICK o : o = Copied(object[m])
  OBVIOUS
<1>3. /\ Sound(o)
      /\ Held(o) = IF class = "DynamicVariant" THEN Empty
                           ELSE Held(object[m])
  BY <1>1, <1>2, CopyHolds
<1>4. object' = [object EXCEPT ![n] = o]
  BY <1>2 DEF CopyConstruct
<1>5. Objects' /\ Cellar' = [Cellar EXCEPT ![n] = Held(o)]
  BY <1>1, <1>3, <1>4, OneSet
<1>6. Cell!Clear(n) \/ Cell!Copy(n, m)
  BY <1>3, <1>5 DEF Cellar, CopyConstruct, Is, Cell!Clear,
     Cell!Copy
<1> QED
  BY <1>5, <1>6 DEF Cell!Next

\* A copy assignment copies, clears or is refused.
LEMMA CopyAssignStep ==
  ASSUME HolderAssumption, Objects, NEW n \in Names, NEW m \in Names,
         CopyAssign(n, m)
  PROVE  Objects' /\ Cell!Next
<1>1. Sound(object[n]) /\ Sound(object[m]) /\ class' = class
  BY DEF Objects, CopyAssign
<1>2. CASE IsOptional
  <2>1. PICK o : o = OptionalAssigned(object[n], object[m])
    OBVIOUS
  <2>2. object' = [object EXCEPT ![n] = o]
    BY <1>2, <2>1 DEF CopyAssign
  <2>3. /\ Sound(o) /\ (StaysSet(object[n], object[m]) => o = object[n])
        /\ ~StaysSet(object[n], object[m]) =>
             Held(o) = Held(object[m])
    BY <1>1, <1>2, <2>1, OptionalAssignHolds
  <2>4. Objects' /\ Cellar' = [Cellar EXCEPT ![n] = Held(o)]
    BY <1>1, <2>2, <2>3, OneSet
  <2>5. CASE StaysSet(object[n], object[m])
    <3>1. last' = <<"refused", n>>
      BY <2>5 DEF CopyAssign, StaysSet, Is
    <3>2. Cellar' = Cellar
      BY <2>3, <2>4, <2>5 DEF Cellar
    <3> QED
      BY <2>4, <3>1, <3>2 DEF Cell!Next, Cell!Refuse, Cellar
  <2>6. CASE ~StaysSet(object[n], object[m])
    <3>1. last' = <<"copy", n, m>>
      BY <1>2, <2>6 DEF CopyAssign, Is, IsOptional,
         Optionals
    <3>2. Cell!Copy(n, m)
      BY <2>3, <2>4, <2>6, <3>1 DEF Cell!Copy, Cellar
    <3> QED
      BY <2>4, <3>2 DEF Cell!Next
  <2> QED
    BY <2>5, <2>6
<1>3. CASE ~IsOptional
  <2>1. class \in {"DynamicVariant", "Dynamic"} /\ ~StaysSet(object[n], object[m])
    BY <1>3 DEF CopyAssign, StaysSet, Is, IsOptional,
       Optionals
  <2>2. PICK o : o = Copied(object[m])
    OBVIOUS
  <2>3. object' = [object EXCEPT ![n] = o]
    BY <1>3, <2>2 DEF CopyAssign
  <2>4. /\ Sound(o)
        /\ Held(o) = IF class = "DynamicVariant" THEN Empty
                           ELSE Held(object[m])
    BY <1>1, <2>1, <2>2, CopyHolds
  <2>5. Objects' /\ Cellar' = [Cellar EXCEPT ![n] = Held(o)]
    BY <1>1, <2>3, <2>4, OneSet
  <2>6. last' = IF class = "DynamicVariant" THEN <<"clear", n>> ELSE <<"copy", n, m>>
    BY <2>1 DEF CopyAssign, Is
  <2>7. Cell!Clear(n) \/ Cell!Copy(n, m)
    BY <2>4, <2>5, <2>6 DEF Cellar, Cell!Clear, Cell!Copy
  <2> QED
    BY <2>5, <2>7 DEF Cell!Next
<1> QED
  BY <1>2, <1>3

\* A move is one of cells.
LEMMA MoveCells ==
  ASSUME HolderAssumption, Objects, class' = class,
         NEW n \in Names, NEW m \in Names, n # m, NEW both,
         MoveOf(both, object[m],
                {Held(object[n]), Held(object[m]), Empty, Default, Spent}),
         object' = [object EXCEPT ![n] = both[1], ![m] = both[2]], last' = <<"move", n, m>>
  PROVE  Objects' /\ Cell!Next
<1>1. /\ Objects'
      /\ Cellar' = [Cellar EXCEPT ![n] = Held(both[1]), ![m] = Held(both[2])]
  BY TwoSet DEF MoveOf
<1>2. PICK rest : rest = Held(both[2])
  OBVIOUS
<1>3. /\ rest \in {Cellar[m], Cellar[n], Empty, Default, Spent}
      /\ Cellar' = [Cellar EXCEPT ![n] = Cellar[m], ![m] = rest]
  BY <1>1, <1>2 DEF MoveOf, Cellar
<1>4. Cell!Move(n, m)
  BY <1>3 DEF Cell!Move, Cellar
<1> QED
  BY <1>1, <1>4 DEF Cell!Next

\* A move construction moves the cell.
LEMMA MoveConstructStep ==
  ASSUME HolderAssumption, Objects, NEW n \in Names, NEW m \in Names,
         MoveConstruct(n, m)
  PROVE  Objects' /\ Cell!Next
<1>1. Sound(object[m]) /\ class' = class /\ n # m /\ last' = <<"move", n, m>>
  BY DEF Objects, MoveConstruct
<1>2. PICK both : both = Moved(object[m])
  OBVIOUS
<1>3. MoveOf(both, object[m], {Held(object[m]), Empty, Default, Spent})
  BY <1>1, <1>2, MoveHolds
<1>4. MoveOf(both, object[m],
             {Held(object[n]), Held(object[m]), Empty, Default, Spent})
  BY <1>3 DEF MoveOf
<1>5. object' = [object EXCEPT ![n] = both[1], ![m] = both[2]]
  BY <1>2 DEF MoveConstruct
<1> QED
  BY <1>1, <1>4, <1>5, MoveCells

\* A move assignment moves the cell or is refused.
LEMMA MoveAssignStep ==
  ASSUME HolderAssumption, Objects, NEW n \in Names, NEW m \in Names,
         MoveAssign(n, m)
  PROVE  Objects' /\ Cell!Next
<1>1. Sound(object[n]) /\ Sound(object[m]) /\ class' = class /\ n # m
  BY DEF Objects, MoveAssign
<1>2. PICK both : both = MoveAssigned(object[n], object[m])
  OBVIOUS
<1>3. object' = [object EXCEPT ![n] = both[1], ![m] = both[2]]
  BY <1>2 DEF MoveAssign
<1>4. CASE StaysSet(object[n], object[m])
  <2>1. both = <<object[n], object[m]>>
    BY <1>1, <1>2, <1>4, MoveAssignHolds
  <2>2. object' = object /\ last' = <<"refused", n>>
    BY <1>1, <1>3, <1>4, <2>1 DEF Objects, MoveAssign
  <2>3. Objects' /\ Cellar' = Cellar
    BY <1>1, <2>2, NoneSet
  <2> QED
    BY <2>2, <2>3 DEF Cell!Next, Cell!Refuse, Cellar
<1>5. CASE ~StaysSet(object[n], object[m])
  <2>1. MoveOf(both, object[m],
               {Held(object[n]), Held(object[m]), Empty, Default, Spent})
    BY <1>1, <1>2, <1>5, MoveAssignHolds
  <2>2. last' = <<"move", n, m>>
    BY <1>5 DEF MoveAssign
  <2> QED
    BY <1>1, <1>3, <2>1, <2>2, MoveCells
<1> QED
  BY <1>4, <1>5

\* A reset clears the cell.
LEMMA ResetStep ==
  ASSUME HolderAssumption, Objects, NEW n \in Names, Reset(n)
  PROVE  Objects' /\ Cell!Next
<1>1. PICK o : o = Object(0, Empty)
  OBVIOUS
<1>2. class' = class /\ object' = [object EXCEPT ![n] = o] /\ class = "CopyableUnique"
  BY <1>1 DEF Reset, Is
<1>3. Sound(o) /\ Held(o) = Empty
  BY <1>1, <1>2 DEF Sound, Object, Contents, IsOptional,
     Optionals, Held, Is, ValueOf
<1>4. Objects' /\ Cellar' = [Cellar EXCEPT ![n] = Empty]
  BY <1>2, <1>3, OneSet
<1>5. Cell!Clear(n)
  BY <1>4 DEF Reset, Cell!Clear, Cellar
<1> QED
  BY <1>4, <1>5 DEF Cell!Next

\* Reading the value reads the cell or is refused.
LEMMA ReadStep ==
  ASSUME HolderAssumption, Objects, NEW n \in Names,
         Get(n) \/ GetShared(n)
  PROVE  Objects' /\ Cell!Next
<1>1. Objects' /\ Cellar' = Cellar
  BY NoneSet DEF Get, GetShared
<1>2. Sound(object[n])
  BY DEF Objects
<1>3. last' = <<"read", n, Cellar[n]>> \/ last' = <<"refused", n>>
  BY <1>2 DEF Get, GetShared, Cellar, Sound, Held, Is,
     ValueOf, IsOptional, Optionals
<1>4. Cell!Read(n) \/ Cell!Refuse(n)
  BY <1>1, <1>3 DEF Cell!Read, Cell!Refuse, Cellar
<1> QED
  BY <1>1, <1>4 DEF Cell!Next

\* Reading a type from a variant reads the cell or finds another type in it.
LEMMA GetTypeStep ==
  ASSUME HolderAssumption, Objects, NEW n \in Names, NEW v \in Values,
         GetType(n, TypeOf[v])
  PROVE  Objects' /\ Cell!Next
<1>1. Objects' /\ Cellar' = Cellar /\ class = "DynamicVariant"
  BY NoneSet DEF GetType, Is
<1>2. Sound(object[n])
  BY DEF Objects
<1>3. CASE object[n].tag = TypeOf[v]
  <2>1. last' = <<"read", n, Cellar[n]>>
    BY <1>1, <1>3 DEF GetType, Cellar, Held, Is
  <2> QED
    BY <1>1, <2>1 DEF Cell!Next, Cell!Read, Cellar
<1>4. CASE object[n].tag # TypeOf[v]
  <2>1. last' = <<"mismatch", n, TypeOf[v]>>
    BY <1>4 DEF GetType
  <2>2. Cellar[n] \in Values => TypeOf[Cellar[n]] # TypeOf[v]
    BY <1>1, <1>2, <1>4 DEF Cellar, Sound, Held, Is, ValueOf,
       IsOptional, Optionals, VariantVisited,
       HolderAssumption
  <2>3. Cell!Mismatch(n, TypeOf[v])
    BY <1>1, <2>1, <2>2 DEF Cell!Mismatch, Cellar
  <2> QED
    BY <1>1, <2>3 DEF Cell!Next
<1> QED
  BY <1>3, <1>4

\* Optional, DynamicVariant, SmartPtr, CopyableUnique, Dynamic and MOFunction behave as
\* cells, whatever calls are mixed, for any values, types and number of objects.
THEOREM HoldersImplementCells ==
  ASSUME HolderAssumption
  PROVE  HoldersSpec => ImplementsCells
<1>1. HoldersInit => Objects /\ Cell!Init
  <2> SUFFICES ASSUME HoldersInit PROVE Objects /\ Cell!Init
    OBVIOUS
  <2>1. Classified
    BY DEF HoldersInit, Classified, HolderAssumption
  <2>2. PICK o : o = Fresh
    OBVIOUS
  <2>3. Sound(o) /\ Held(o) \in {Empty, Default}
    BY <2>1, <2>2, FreshHolds
  <2>4. object = [n \in Names |-> o] /\ last = <<"none">>
    BY <2>2 DEF HoldersInit
  <2> QED
    BY <2>1, <2>3, <2>4 DEF Objects, Cell!Init, Sound
<1>2. Objects /\ [HoldersNext]_(holderVars)
        => Objects' /\ [Cell!Next]_<<Cellar, last>>
  <2> SUFFICES ASSUME Objects, [HoldersNext]_(holderVars)
               PROVE  Objects' /\ [Cell!Next]_<<Cellar, last>>
    OBVIOUS
  <2>1. CASE UNCHANGED holderVars
    BY <2>1, NoneSet DEF holderVars
  <2>2. CASE HoldersNext
    BY <2>2, DefaultConstructStep, ConstructStep, CopyConstructStep, CopyAssignStep,
       MoveConstructStep, MoveAssignStep, ResetStep, ReadStep, GetTypeStep
       DEF HoldersNext
  <2> QED
    BY <2>1, <2>2
<1> QED
  BY <1>1, <1>2, PTL DEF HoldersSpec, ImplementsCells, Cell!Spec, Cellar
-----------------------------------------------------------------------------
(* Strings                                                                 *)

CONSTANTS
  Letters, MaxText, MaxPattern, Octets, MaxBytes, Codes, MaxCoded  \* the parameters of MBStrings

VARIABLES  \* and its variables
  stringFunction, source, pattern, with, stringText, stringOffset, output, ok, stringPhase

Texts == INSTANCE MBStrings WITH
  function <- stringFunction, text <- stringText, offset <- stringOffset, phase <- stringPhase

\* How many characters a byte becomes.
Width == IF stringFunction = "URLEncodeData" THEN 3 ELSE 2

\* The characters from n * i - n + 1 to n * i are those of byte i.
Encoded(i) ==
  /\ Texts!ByteOf(output[Width * i - 1], output[Width * i]) = source[i]
  /\ Width = 3 => output[Width * i - 2] = 37

EncodeInv ==
  stringFunction \in Texts!Encoders =>
    /\ source \in Seq(0..255) /\ stringText = source
    /\ output \in Seq(Int) /\ stringPhase \in {"loop", "returned"}
    /\ stringOffset \in 0..Len(source) /\ Len(output) = Width * stringOffset
    /\ \A i \in 1..stringOffset : Encoded(i)
    /\ stringPhase = "returned" => stringOffset = Len(source)

\* The sixteen digits.
LEMMA DigitTables ==
  ASSUME NEW m \in 1..16
  PROVE  /\ Texts!LowerDigits[m] = IF m <= 10 THEN 47 + m ELSE 86 + m
         /\ Texts!UpperDigits[m] = IF m <= 10 THEN 47 + m ELSE 54 + m
<1>1. \/ m = 1 \/ m = 2 \/ m = 3 \/ m = 4 \/ m = 5 \/ m = 6 \/ m = 7 \/ m = 8
      \/ m = 9 \/ m = 10 \/ m = 11 \/ m = 12 \/ m = 13 \/ m = 14 \/ m = 15 \/ m = 16
  OBVIOUS
<1> QED
  BY <1>1 DEF Texts!LowerDigits, Texts!UpperDigits

\* A digit has the value it was made of.
LEMMA DigitsAre ==
  ASSUME NEW n \in 0..15
  PROVE  Texts!HexDigit(n) \in Int /\ Texts!HexValue(Texts!HexDigit(n)) = n
<1>1. PICK c : c = Texts!HexDigit(n)
  OBVIOUS
<1>2. c \in Int /\ c = IF n < 10 THEN 48 + n ELSE 87 + n
  BY <1>1 DEF Texts!HexDigit
<1>4. \A m \in 1..16 : c \in {Texts!LowerDigits[m], Texts!UpperDigits[m]} <=> m = n + 1
  BY <1>2, DigitTables
<1>5. Texts!HexValue(c) = (n + 1) - 1
  BY <1>4 DEF Texts!HexValue
<1> QED
  BY <1>1, <1>2, <1>5

\* A byte has the value of its two digits.
LEMMA ByteIs ==
  ASSUME NEW b \in 0..255
  PROVE  /\ Texts!HexEncodeByte(b) \in Seq(Int) /\ Len(Texts!HexEncodeByte(b)) = 2
         /\ Texts!ByteOf(Texts!HexEncodeByte(b)[1], Texts!HexEncodeByte(b)[2]) = b
<1>1. b \div 16 \in 0..15 /\ b % 16 \in 0..15 /\ b = 16 * (b \div 16) + (b % 16)
  OBVIOUS
<1>2. PICK h \in 0..15, l \in 0..15 : h = b \div 16 /\ l = b % 16
  BY <1>1
<1>3. PICK c \in Int, d \in Int : c = Texts!HexDigit(h) /\ d = Texts!HexDigit(l)
  BY DigitsAre
<1>4. Texts!HexEncodeByte(b) = <<c, d>>
  BY <1>2, <1>3 DEF Texts!HexEncodeByte
<1>5. Texts!ByteOf(c, d) = 16 * h + l
  BY <1>3, DigitsAre DEF Texts!ByteOf
<1> QED
  BY <1>1, <1>2, <1>4, <1>5

\* A turn encodes one byte, and leaves those before it.
LEMMA EncodeStep ==
  ASSUME EncodeInv, stringFunction \in Texts!Encoders, UNCHANGED <<stringFunction, source>>,
         stringPhase = "loop", ~ Texts!AtEnd, Texts!EncodeTurn
  PROVE  EncodeInv'
<1>1. /\ source \in Seq(0..255) /\ stringText = source /\ output \in Seq(Int)
      /\ stringOffset \in 0..Len(source) /\ Len(output) = Width * stringOffset
      /\ \A i \in 1..stringOffset : Encoded(i)
  BY DEF EncodeInv
<1>2. Len(source) \in Nat /\ Width \in {2, 3} /\ Len(output) \in Nat /\ stringOffset < Len(source)
  BY <1>1 DEF Width, Texts!AtEnd
<1>3. PICK b : b = source[stringOffset + 1]
  OBVIOUS
<1>4. b \in 0..255 /\ Texts!Next1 = b
  <2>1. stringOffset + 1 \in 1..Len(source)
    BY <1>1, <1>2
  <2>2. source[stringOffset + 1] \in 0..255
    BY <1>1, <2>1, ElementOfSeq
  <2> QED
    BY <1>1, <1>3, <2>2 DEF Texts!Next1
<1>5. PICK h : h = Texts!HexEncodeByte(b)
  OBVIOUS
<1>6. h \in Seq(Int) /\ Len(h) = 2 /\ Texts!ByteOf(h[1], h[2]) = b
  BY <1>4, <1>5, ByteIs
<1>7. PICK c : c = IF stringFunction = "URLEncodeData" THEN <<37>> \o h ELSE h
  OBVIOUS
<1>8. /\ c \in Seq(Int) /\ Len(c) = Width
      /\ Texts!ByteOf(c[Width - 1], c[Width]) = b /\ (Width = 3 => c[1] = 37)
  <2>1. CASE stringFunction = "URLEncodeData"
    <3>1. Width = 3 /\ c = <<37>> \o h
      BY <1>7, <2>1 DEF Width
    <3>2. PICK p : p = <<37>>
      OBVIOUS
    <3>3. p \in Seq(Int) /\ Len(p) = 1 /\ p[1] = 37 /\ c = p \o h
      BY <3>1, <3>2
    <3>4. c \in Seq(Int) /\ Len(c) = 3 /\ c[1] = 37 /\ c[2] = h[1] /\ c[3] = h[2]
      <4>1. p \o h \in Seq(Int) /\ Len(p \o h) = Len(p) + Len(h)
        BY <1>6, <3>3, ConcatProperties
      <4>2. \A k \in 1..Len(p) + Len(h) :
              (p \o h)[k] = IF k <= Len(p) THEN p[k] ELSE h[k - Len(p)]
        BY <1>6, <3>3, ConcatProperties
      <4> QED
        BY <1>6, <3>3, <4>1, <4>2
    <3> QED
      BY <1>6, <3>1, <3>4
  <2>2. CASE stringFunction # "URLEncodeData"
    <3>1. Width = 2 /\ c = h
      BY <1>7, <2>2 DEF Width
    <3> QED
      BY <1>6, <3>1
  <2> QED
    BY <2>1, <2>2
<1>9. /\ stringOffset' = stringOffset + 1 /\ output' = output \o c
      /\ UNCHANGED <<stringText, ok, stringPhase>>
  BY <1>4, <1>5, <1>7 DEF Texts!EncodeTurn, Texts!Pass, Texts!Encoders
<1>10. /\ output' \in Seq(Int) /\ Len(output') = Len(output) + Width
       /\ \A k \in 1..Len(output) : output'[k] = output[k]
       /\ \A k \in 1..Width : output'[Len(output) + k] = c[k]
  <2>1. output \o c \in Seq(Int) /\ Len(output \o c) = Len(output) + Len(c)
    BY <1>1, <1>8, ConcatProperties
  <2>2. \A k \in 1..Len(output) + Len(c) :
          (output \o c)[k] = IF k <= Len(output) THEN output[k] ELSE c[k - Len(output)]
    BY <1>1, <1>8, ConcatProperties
  <2>3. ASSUME NEW k \in 1..Len(output) PROVE output'[k] = output[k]
    BY <1>2, <1>8, <1>9, <2>2
  <2>4. ASSUME NEW k \in 1..Width PROVE output'[Len(output) + k] = c[k]
    <3>1. Len(output) + k \in 1..Len(output) + Len(c) /\ ~ (Len(output) + k <= Len(output))
          /\ Len(output) + k - Len(output) = k
      BY <1>2, <1>8
    <3> QED
      BY <1>9, <2>2, <3>1
  <2> QED
    BY <1>8, <1>9, <2>1, <2>3, <2>4
<1>11. Width' = Width
  BY DEF Width
<1>12. Len(output') = Width * stringOffset'
  BY <1>1, <1>2, <1>9, <1>10
<1>13. ASSUME NEW i \in 1..stringOffset' PROVE Encoded(i)'
  <2>1. CASE i \in 1..stringOffset
    <3>1. /\ Width * i - 1 \in 1..Len(output) /\ Width * i \in 1..Len(output)
          /\ (Width = 3 => Width * i - 2 \in 1..Len(output))
      BY <1>1, <1>2, <2>1
    <3>2. /\ output'[Width * i - 1] = output[Width * i - 1] /\ output'[Width * i] = output[Width * i]
          /\ (Width = 3 => output'[Width * i - 2] = output[Width * i - 2])
      BY <1>10, <3>1
    <3> QED
      BY <1>1, <1>11, <2>1, <3>2 DEF Encoded
  <2>2. CASE i = stringOffset + 1
    <3>1. /\ Width * i - 1 = Len(output) + (Width - 1) /\ Width * i = Len(output) + Width
          /\ (Width = 3 => Width * i - 2 = Len(output) + 1)
      BY <1>1, <1>2, <2>2
    <3>2. Width - 1 \in 1..Width /\ Width \in 1..Width /\ 1 \in 1..Width
      BY <1>2
    <3>3. /\ output'[Width * i - 1] = c[Width - 1] /\ output'[Width * i] = c[Width]
          /\ (Width = 3 => output'[Width * i - 2] = c[1])
      BY <1>10, <3>1, <3>2
    <3> QED
      BY <1>3, <1>8, <1>11, <2>2, <3>3 DEF Encoded
  <2> QED
    BY <1>1, <1>9, <2>1, <2>2
<1>14. stringOffset' \in 0..Len(source) /\ stringPhase' = "loop"
  BY <1>1, <1>2, <1>9
<1>15. output' \in Seq(Int)
  BY <1>10
<1>16. source' \in Seq(0..255) /\ stringText' = source' /\ 0..Len(source') = 0..Len(source)
  BY <1>1, <1>9
<1>17. stringPhase' # "returned"
  BY <1>14
<1> QED
  BY <1>11, <1>12, <1>13, <1>14, <1>15, <1>16, <1>17 DEF EncodeInv

\* The letters from P to Y, and the characters of a string.
PToY == 80..89
Bytes == 0..255

\* What is a digit is taken for one, and of what is none only the letters from P to
\* Y are.
LEMMA DigitsAccepted ==
  ASSUME NEW c \in Bytes
  PROVE  /\ Texts!IsHex(c) => Texts!Accepted(c) /\ c # 32 /\ c # 37
         /\ Texts!Accepted(c) /\ c \notin PToY => Texts!IsHex(c)
<1> USE DEF Bytes
<1>1. Texts!IsHex(c) <=> c \in (48..57) \cup (65..70) \cup (97..102)
  <2>1. CASE Texts!IsHex(c)
    <3>1. PICK m \in 1..16 : c \in {Texts!LowerDigits[m], Texts!UpperDigits[m]}
      BY <2>1 DEF Texts!IsHex
    <3> QED
      BY <2>1, <3>1, DigitTables
  <2>2. CASE c \in (48..57) \cup (65..70) \cup (97..102)
    <3>1. PICK m \in 1..16 : m = IF c <= 57 THEN c - 47 ELSE IF c <= 70 THEN c - 54 ELSE c - 86
      BY <2>2
    <3>2. c \in {Texts!LowerDigits[m], Texts!UpperDigits[m]}
      BY <2>2, <3>1, DigitTables
    <3> QED
      BY <2>2, <3>2 DEF Texts!IsHex
  <2> QED
    BY <2>1, <2>2
<1>2. Texts!Accepted(c) <=> c \in (48..57) \cup (65..70) \cup (80..89) \cup (97..102)
  BY DEF Texts!Accepted, Texts!Upper
<1> QED
  BY <1>1, <1>2 DEF PToY

\* In a string without these letters, what is accepted is a digit.
LEMMA AcceptedIsDigit ==
  ASSUME source \in Seq(0..255), Texts!Digits, NEW i \in 1..Len(source),
         Texts!Accepted(source[i])
  PROVE  Texts!IsHex(source[i]) /\ source[i] # 37
<1>1. PICK c : c = source[i]
  OBVIOUS
<1>2. c \in Bytes
  BY <1>1, ElementOfSeq DEF Bytes
<1>3. c \notin PToY
  <2>1. i \in DOMAIN source
    OBVIOUS
  <2> QED
    BY <1>1, <2>1, Zenon DEF Texts!Digits, PToY
<1>4. Texts!IsHex(c)
  <2>1. Texts!Accepted(c)
    BY <1>1, Zenon
  <2> QED
    BY <1>2, <1>3, <2>1, DigitsAccepted, Zenon
<1>5. c # 37
  BY <1>2, <1>4, DigitsAccepted, Zenon
<1> QED
  BY <1>1, <1>4, <1>5, Zenon

\* The escape that a percent sign starts is complete.
Complete(i) ==
  i + 2 <= Len(source) /\ Texts!IsHex(source[i + 1]) /\ Texts!IsHex(source[i + 2])

AllDigits == (\A i \in DOMAIN source : Texts!IsHex(source[i])) /\ Len(source) % 2 = 0

\* The position never stands inside an escape, or between two digits of a byte.
DecodeInv ==
  stringFunction \in Texts!Decoders =>
    /\ source \in Seq(0..255) /\ stringText = source
    /\ stringPhase \in {"loop", "returned"} /\ stringOffset \in 0..Len(source)
    /\ stringPhase = "loop" => ok
    /\ stringFunction = "HexStringToBytes" =>
         (~ok => output = <<>>) /\ (AllDigits => ok /\ stringOffset % 2 = 0)
    /\ stringFunction = "URLDecodeData" /\ Texts!Digits =>
         /\ \A i \in Texts!Percent : i <= stringOffset => Complete(i)
         /\ stringPhase = "returned" /\ ok => stringOffset = Len(source)
         /\ ~ok => \E i \in Texts!Percent : ~Complete(i)

\* The characters a turn looks at are characters of the argument.
LEMMA CharactersAre ==
  ASSUME source \in Seq(0..255), stringText = source, stringOffset \in 0..Len(source),
         ~Texts!AtEnd
  PROVE  /\ Len(source) \in Nat /\ DOMAIN source = 1..Len(source) /\ stringOffset < Len(source)
         /\ Texts!Next1 = source[stringOffset + 1] /\ Texts!Next2 = source[stringOffset + 2]
         /\ Texts!Next3 = source[stringOffset + 3]
         /\ \A i \in 1..Len(source) : source[i] \in 0..255
BY ElementOfSeq DEF Texts!AtEnd, Texts!Next1, Texts!Next2, Texts!Next3

\* A turn of HexStringToBytes passes a blank or two digits, or gives up.
LEMMA HexDecodeStep ==
  ASSUME DecodeInv, stringFunction = "HexStringToBytes", UNCHANGED <<stringFunction, source>>,
         stringPhase = "loop", ~Texts!AtEnd, Texts!HexDecodeTurn
  PROVE  DecodeInv'
<1>1. /\ source \in Seq(0..255) /\ stringText = source /\ ok
      /\ stringOffset \in 0..Len(source) /\ (AllDigits => stringOffset % 2 = 0)
  BY DEF DecodeInv, Texts!Decoders
<1>2. /\ Len(source) \in Nat /\ DOMAIN source = 1..Len(source) /\ stringOffset < Len(source)
      /\ Texts!Next1 = source[stringOffset + 1] /\ Texts!Next2 = source[stringOffset + 2]
      /\ \A i \in 1..Len(source) : source[i] \in 0..255
  BY <1>1, CharactersAre
<1>3. AllDigits' = AllDigits
  BY DEF AllDigits
<1>4. AllDigits => /\ Texts!Next1 # 32 /\ stringOffset + 1 < Len(source)
                   /\ Texts!Accepted(Texts!Next1) /\ Texts!Accepted(Texts!Next2)
  <2> SUFFICES ASSUME AllDigits
               PROVE  /\ Texts!Next1 # 32 /\ stringOffset + 1 < Len(source)
                      /\ Texts!Accepted(Texts!Next1) /\ Texts!Accepted(Texts!Next2)
    OBVIOUS
  <2>1. stringOffset + 1 < Len(source)
    BY <1>1, <1>2 DEF AllDigits
  <2>2. /\ stringOffset + 1 \in 1..Len(source) /\ stringOffset + 2 \in 1..Len(source)
    BY <1>1, <1>2, <2>1
  <2>3. /\ Texts!IsHex(Texts!Next1) /\ Texts!IsHex(Texts!Next2)
        /\ Texts!Next1 \in 0..255 /\ Texts!Next2 \in 0..255
    BY <1>2, <2>2 DEF AllDigits
  <2> QED
    BY <2>1, <2>3, DigitsAccepted DEF Bytes
<1>5. CASE Texts!Next1 = 32 /\ Texts!Pass(1, <<>>)
  <2>1. stringOffset' = stringOffset + 1 /\ UNCHANGED <<stringText, ok, stringPhase>>
    BY <1>5 DEF Texts!Pass
  <2> QED
    BY <1>1, <1>2, <1>3, <1>4, <1>5, <2>1 DEF DecodeInv
<1>6. CASE /\ stringOffset + 1 < Len(stringText)
           /\ Texts!Pass(2, <<Texts!HexValueToByte(Texts!Next1, Texts!Next2)>>)
  <2>1. stringOffset' = stringOffset + 2 /\ UNCHANGED <<stringText, ok, stringPhase>>
    BY <1>6 DEF Texts!Pass
  <2> QED
    BY <1>1, <1>2, <1>3, <1>6, <2>1 DEF DecodeInv
<1>7. CASE ~AllDigits /\ Texts!GiveUp(<<>>)
  BY <1>1, <1>3, <1>7 DEF DecodeInv, Texts!GiveUp
<1> QED
  BY <1>1, <1>4, <1>5, <1>6, <1>7 DEF Texts!HexDecodeTurn

\* A turn of URLDecodeData passes a character or a complete escape, or gives up at
\* one that is not.
LEMMA URLDecodeStep ==
  ASSUME DecodeInv, stringFunction = "URLDecodeData", UNCHANGED <<stringFunction, source>>,
         stringPhase = "loop", ~Texts!AtEnd, Texts!URLDecodeTurn
  PROVE  DecodeInv'
<1>1. /\ source \in Seq(0..255) /\ stringText = source /\ ok
      /\ stringOffset \in 0..Len(source)
      /\ Texts!Digits => \A i \in Texts!Percent : i <= stringOffset => Complete(i)
  BY DEF DecodeInv, Texts!Decoders
<1>2. /\ Len(source) \in Nat /\ DOMAIN source = 1..Len(source) /\ stringOffset < Len(source)
      /\ Texts!Next1 = source[stringOffset + 1] /\ Texts!Next2 = source[stringOffset + 2]
      /\ Texts!Next3 = source[stringOffset + 3]
      /\ \A i \in 1..Len(source) : source[i] \in 0..255
  BY <1>1, CharactersAre
<1>3. Texts!Digits' = Texts!Digits /\ Texts!Percent' = Texts!Percent
      /\ \A i \in Texts!Percent : Complete(i)' = Complete(i)
  BY DEF Texts!Digits, Texts!Percent, Complete
<1>4. \A i \in Texts!Percent : i \in 1..Len(source) /\ source[i] = 37
  BY <1>2 DEF Texts!Percent
<1>5. CASE Texts!Next1 # 37 /\ \E b : Texts!Pass(1, b)
  <2>1. stringOffset' = stringOffset + 1 /\ UNCHANGED <<stringText, ok, stringPhase>>
    BY <1>5 DEF Texts!Pass
  <2>2. Texts!Digits => \A i \in Texts!Percent : i <= stringOffset' => Complete(i)
    BY <1>1, <1>2, <1>4, <1>5, <2>1
  <2> QED
    BY <1>1, <1>2, <1>3, <2>1, <2>2 DEF DecodeInv
<1>6. CASE /\ Texts!Next1 = 37 /\ stringOffset + 2 < Len(stringText)
           /\ Texts!Accepted(Texts!Next2) /\ Texts!Accepted(Texts!Next3)
           /\ \E b : Texts!Pass(3, b)
  <2>1. stringOffset' = stringOffset + 3 /\ UNCHANGED <<stringText, ok, stringPhase>>
    BY <1>6 DEF Texts!Pass
  <2>2. stringOffset + 2 \in 1..Len(source) /\ stringOffset + 3 \in 1..Len(source)
    BY <1>1, <1>2, <1>6
  <2>3. ASSUME Texts!Digits
        PROVE  /\ Texts!IsHex(Texts!Next2) /\ Texts!IsHex(Texts!Next3)
               /\ Texts!Next2 # 37 /\ Texts!Next3 # 37
    <3>1. Texts!Accepted(source[stringOffset + 2]) /\ Texts!Accepted(source[stringOffset + 3])
      BY <1>2, <1>6
    <3>2. /\ Texts!IsHex(source[stringOffset + 2]) /\ source[stringOffset + 2] # 37
          /\ Texts!IsHex(source[stringOffset + 3]) /\ source[stringOffset + 3] # 37
      BY <1>1, <2>2, <2>3, <3>1, AcceptedIsDigit
    <3> QED
      BY <1>2, <3>2
  <2>4. ASSUME Texts!Digits, NEW i \in Texts!Percent, i <= stringOffset' PROVE Complete(i)
    <3>1. i \in 1..Len(source) /\ source[i] = 37 /\ i # stringOffset + 2 /\ i # stringOffset + 3
      BY <1>2, <1>4, <2>3, <2>4
    <3>2. i <= stringOffset \/ i = stringOffset + 1
      BY <1>1, <1>2, <2>1, <2>4, <3>1
    <3>3. CASE i = stringOffset + 1
      <4>1. i + 1 = stringOffset + 2 /\ i + 2 = stringOffset + 3 /\ i + 2 <= Len(source)
        BY <1>1, <2>2, <3>3
      <4> QED
        BY <1>2, <2>3, <2>4, <4>1 DEF Complete
    <3> QED
      BY <1>1, <2>4, <3>2, <3>3
  <2>5. stringOffset' \in 0..Len(source)
    BY <1>1, <1>2, <2>1, <2>2
  <2> QED
    BY <1>1, <1>3, <2>1, <2>4, <2>5 DEF DecodeInv
<1>7. CASE /\ Texts!Next1 = 37
           /\ \/ stringOffset + 2 >= Len(stringText)
              \/ ~(Texts!Accepted(Texts!Next2) /\ Texts!Accepted(Texts!Next3))
           /\ \E r : Texts!GiveUp(r)
  <2>1. ~ok' /\ stringPhase' = "returned" /\ UNCHANGED <<stringText, stringOffset>>
    BY <1>7 DEF Texts!GiveUp
  <2>2. stringOffset + 1 \in Texts!Percent
    <3>1. stringOffset + 1 \in 1..Len(source)
      BY <1>1, <1>2
    <3> QED
      BY <1>2, <1>7, <3>1 DEF Texts!Percent
  <2>3. ~Complete(stringOffset + 1)
    <3> SUFFICES ASSUME Complete(stringOffset + 1) PROVE FALSE
      OBVIOUS
    <3>1. /\ stringOffset + 1 + 2 <= Len(source) /\ stringOffset + 1 + 1 = stringOffset + 2
          /\ stringOffset + 1 + 2 = stringOffset + 3
      BY <1>1, <1>2 DEF Complete
    <3>2. stringOffset + 2 \in 1..Len(source) /\ stringOffset + 3 \in 1..Len(source)
      BY <1>1, <1>2, <3>1
    <3>3. /\ Texts!IsHex(Texts!Next2) /\ Texts!IsHex(Texts!Next3)
          /\ Texts!Next2 \in 0..255 /\ Texts!Next3 \in 0..255
      BY <1>2, <3>1, <3>2 DEF Complete
    <3>4. Texts!Accepted(Texts!Next2) /\ Texts!Accepted(Texts!Next3)
      BY <3>3, DigitsAccepted DEF Bytes
    <3> QED
      BY <1>1, <1>2, <1>7, <3>2, <3>4
  <2> QED
    BY <1>1, <1>3, <2>1, <2>2, <2>3 DEF DecodeInv
<1> QED
  BY <1>5, <1>6, <1>7 DEF Texts!URLDecodeTurn

\* n copies of the string lead the text, and what is left after them.
Lead(n) == \A i \in 0..n - 1 : Texts!OccursAt(source, pattern, i * Len(pattern))
After(n) == Texts!Between(source, n * Len(pattern), Texts!npos)

\* The position has passed no copy but those that lead, up to the third one.
RemoveInv ==
  stringFunction = "RemoveLeadingString" =>
    /\ source \in Seq(Letters) /\ pattern \in Seq(Letters) /\ stringText = source
    /\ Texts!npos \in Nat /\ Len(source) < Texts!npos /\ Len(pattern) >= 1
    /\ stringPhase \in {"start", "loop", "returned", "threw"}
    /\ stringPhase = "start" => stringOffset = 0
    /\ stringPhase \in {"start", "loop"} => output = <<>>
    /\ stringPhase = "loop" =>
         \/ Lead(3)
         \/ \E k \in {0, 1} : stringOffset = k * Len(pattern) /\ Lead(k + 1)
    /\ stringPhase \in Texts!Ended =>
         \/ Lead(3)
         \/ \E k \in 0..2 : /\ stringPhase = "returned" /\ output = After(k)
                            /\ Lead(k) /\ ~Lead(k + 1)

\* find tells whether the string is where it begins to look.
LEMMA FindWhereItBegins ==
  ASSUME source \in Seq(Letters), Texts!npos \in Nat, Len(source) < Texts!npos,
         NEW from \in 0..Len(source)
  PROVE  Texts!Find(source, pattern, from) = from <=> Texts!OccursAt(source, pattern, from)
<1> DEFINE S == {Texts!npos} \cup {i \in from..Len(source) : Texts!OccursAt(source, pattern, i)}
<1>1. Len(source) \in Nat /\ Texts!npos \in Nat /\ from < Texts!npos
  OBVIOUS
<1>2. S \in SUBSET Nat /\ S # {}
  BY <1>1
<1>3. PICK n \in S : \A m \in S : n <= m
  BY <1>2, LeastOf
<1>4. /\ Texts!Find(source, pattern, from) \in S
      /\ \A m \in S : Texts!Find(source, pattern, from) <= m
  BY <1>3 DEF Texts!Find, Texts!Min
<1>5. from \in S <=> Texts!OccursAt(source, pattern, from)
  BY <1>1
<1>6. \A m \in S : m >= from
  BY <1>1
<1>7. ASSUME from \in S PROVE Texts!Find(source, pattern, from) = from
  BY <1>1, <1>2, <1>4, <1>6, <1>7
<1> HIDE DEF S
<1> QED
  BY <1>4, <1>5, <1>7

\* Beyond the copies that lead the text there is one more, or none.
LEMMA OneMore ==
  ASSUME NEW n \in Nat
  PROVE  Lead(n + 1) <=> Lead(n) /\ Texts!OccursAt(source, pattern, n * Len(pattern))
<1>1. 0..(n + 1) - 1 = (0..n - 1) \cup {n}
  OBVIOUS
<1> QED
  BY <1>1, Zenon DEF Lead

\* Copies that lead the text are not longer than it.
LEMMA LeadFits ==
  ASSUME source \in Seq(Letters), pattern \in Seq(Letters), Len(pattern) >= 1,
         NEW k \in 1..3, Lead(k)
  PROVE  k * Len(pattern) <= Len(source) /\ k <= Len(source)
<1>1. Len(source) \in Nat /\ Len(pattern) \in Nat
  OBVIOUS
<1>2. k - 1 \in 0..k - 1 /\ (k = 1 \/ k = 2 \/ k = 3)
  OBVIOUS
<1>3. (k - 1) * Len(pattern) + Len(pattern) <= Len(source)
  BY <1>2 DEF Lead, Texts!OccursAt
<1> QED
  BY <1>1, <1>2, <1>3

\* RemoveLeadingString looks for the first copy.
LEMMA RemoveLeadingStarts ==
  ASSUME RemoveInv, stringFunction = "RemoveLeadingString", UNCHANGED <<stringFunction, source, pattern>>,
         stringPhase = "start", Texts!RemoveLeadingStart
  PROVE  RemoveInv'
<1>1. /\ source \in Seq(Letters) /\ pattern \in Seq(Letters) /\ stringText = source
      /\ Texts!npos \in Nat /\ Len(source) < Texts!npos /\ Len(pattern) >= 1 /\ stringOffset = 0 /\ output = <<>>
  BY DEF RemoveInv
<1>2. Len(source) \in Nat /\ 0 \in 0..Len(source) /\ 0 * Len(pattern) = 0
  BY <1>1
<1>3. UNCHANGED <<stringText, stringOffset>>
  BY DEF Texts!RemoveLeadingStart
<1>4. Lead(0) /\ (Lead(1) <=> Texts!Find(source, pattern, 0) = 0)
  <2>1. Lead(0)
    BY DEF Lead
  <2>2. Lead(0 + 1) <=> Texts!OccursAt(source, pattern, 0 * Len(pattern))
    BY <2>1, OneMore
  <2> QED
    BY <1>1, <1>2, <2>1, <2>2, FindWhereItBegins
<1>5. \A k : Lead(k)' = Lead(k) /\ After(k)' = After(k)
  BY DEF Lead, After
<1>6. CASE Texts!Find(source, pattern, 0) # 0
  <2>1. stringPhase' = "returned" /\ output' = source
    BY <1>1, <1>6 DEF Texts!RemoveLeadingStart
  <2>2. After(0) = source
    <3>1. After(0) = SubSeq(source, 1, Len(source))
      <4>1. ~(Texts!npos < Len(source))
        BY <1>1, <1>2
      <4> QED
        BY <1>2, <4>1 DEF After, Texts!Between
    <3>2. SubSeq(source, 1, Len(source)) = source
      BY <1>1, SubSeqFull
    <3> QED
      BY <3>1, <3>2
  <2> QED
    BY <1>1, <1>3, <1>4, <1>5, <1>6, <2>1, <2>2 DEF RemoveInv, Texts!Ended
<1>7. CASE Texts!Find(source, pattern, 0) = 0
  <2>1. stringPhase' = "loop" /\ output' = <<>>
    BY <1>1, <1>7 DEF Texts!RemoveLeadingStart
  <2> QED
    BY <1>1, <1>2, <1>3, <1>4, <1>5, <1>7, <2>1 DEF RemoveInv, Texts!Ended
<1> QED
  BY <1>6, <1>7

\* It passes a copy that another follows, and returns what is behind one that none
\* does.
LEMMA RemoveLeadingTurns ==
  ASSUME RemoveInv, stringFunction = "RemoveLeadingString", UNCHANGED <<stringFunction, source, pattern>>,
         stringPhase = "loop", Texts!RemoveLeadingTurn
  PROVE  RemoveInv'
<1>1. /\ source \in Seq(Letters) /\ pattern \in Seq(Letters) /\ stringText = source
      /\ Texts!npos \in Nat /\ Len(source) < Texts!npos /\ Len(pattern) >= 1 /\ output = <<>>
  BY DEF RemoveInv
<1>2. Len(source) \in Nat /\ Len(pattern) \in Nat
  BY <1>1
<1>3. stringText' = stringText /\ stringPhase' \in {"loop", "returned", "threw"}
      /\ (stringPhase' = "loop" => UNCHANGED output)
  BY DEF Texts!RemoveLeadingTurn
<1>4. \A k : Lead(k)' = Lead(k) /\ After(k)' = After(k)
  BY DEF Lead, After
<1>5. CASE Lead(3)
  BY <1>1, <1>3, <1>4, <1>5 DEF RemoveInv
<1>6. CASE ~Lead(3)
  <2>1. PICK k \in {0, 1} : stringOffset = k * Len(pattern) /\ Lead(k + 1)
    BY <1>6 DEF RemoveInv
  <2> DEFINE beyond == (k + 1) * Len(pattern)
  <2>2. /\ stringOffset + Len(pattern) = beyond /\ beyond \in 0..Len(source)
        /\ stringOffset < Len(source) /\ stringOffset \in Nat
    BY <1>1, <1>2, <2>1, LeadFits
  <2> HIDE DEF beyond
  <2>3. Texts!Find(source, pattern, beyond) = beyond <=> Lead(k + 2)
    <3>1. Lead((k + 1) + 1) <=> Texts!OccursAt(source, pattern, beyond)
      <4>1. k + 1 \in Nat
        BY <2>1
      <4> QED
        BY <2>1, <4>1, OneMore, Zenon DEF beyond
    <3>2. (k + 1) + 1 = k + 2
      BY <2>1
    <3> QED
      BY <1>1, <2>2, <3>1, <3>2, FindWhereItBegins
  <2>4. \/ /\ Texts!Find(source, pattern, beyond) = beyond
           /\ stringOffset' = stringOffset + beyond /\ UNCHANGED <<stringPhase, output>>
        \/ /\ Texts!Find(source, pattern, beyond) # beyond /\ stringPhase' = "returned"
           /\ output' = output \o Texts!Between(source, beyond, Texts!npos)
    BY <1>1, <1>2, <2>2 DEF Texts!RemoveLeadingTurn
  <2>5. CASE /\ Texts!Find(source, pattern, beyond) = beyond
             /\ stringOffset' = stringOffset + beyond /\ UNCHANGED <<stringPhase, output>>
    <3>1. k = 0 /\ Lead(2)
      BY <1>6, <2>1, <2>3, <2>5
    <3>2. stringOffset' = 1 * Len(pattern) /\ 1 + 1 = 2
      BY <1>2, <2>1, <2>5, <3>1 DEF beyond
    <3> QED
      BY <1>1, <1>3, <1>4, <2>5, <3>1, <3>2 DEF RemoveInv, Texts!Ended
  <2>6. CASE /\ Texts!Find(source, pattern, beyond) # beyond /\ stringPhase' = "returned"
             /\ output' = output \o Texts!Between(source, beyond, Texts!npos)
    <3>1. output' = After(k + 1)
      <4>1. After(k + 1) \in Seq(Letters)
        <5>1. After(k + 1) = SubSeq(source, beyond + 1, Len(source))
          <6>1. After(k + 1) = Texts!Between(source, beyond, Texts!npos)
            BY Zenon DEF After, beyond
          <6>2. Texts!Between(source, beyond, Texts!npos) = SubSeq(source, beyond + 1, Len(source))
            <7>1. ~(Texts!npos < Len(source))
              BY <1>1, <1>2
            <7> QED
              BY <7>1, Zenon DEF Texts!Between
          <6> QED
            BY <6>1, <6>2
        <5>2. \A i \in beyond + 1..Len(source) : source[i] \in Letters
          <6>1. \A i \in 1..Len(source) : source[i] \in Letters
            BY <1>1, ElementOfSeq
          <6> QED
            BY <1>2, <2>2, <6>1
        <5>3. PICK m \in Int : m = beyond + 1
          BY <2>2
        <5>4. SubSeq(source, m, Len(source)) \in Seq(Letters)
          BY <1>2, <5>2, <5>3, SubSeqProperties
        <5> QED
          BY <5>1, <5>3, <5>4
      <4> QED
        BY <1>1, <2>6, <4>1 DEF After, beyond
    <3>2. k + 1 \in 0..2 /\ ~Lead((k + 1) + 1)
      BY <2>1, <2>3, <2>6
    <3> QED
      BY <1>1, <1>3, <1>4, <2>1, <2>6, <3>1, <3>2 DEF RemoveInv, Texts!Ended
  <2> QED
    BY <2>4, <2>5, <2>6
<1> QED
  BY <1>5, <1>6

\* Of a text that at most two copies lead, they are removed.
LEMMA RemoveFollows ==
  ASSUME RemoveInv, stringFunction = "RemoveLeadingString", stringPhase \in Texts!Ended
  PROVE  Texts!RemoveLeadingRight
<1> DEFINE S == {n \in 0..Len(source) : Lead(n)}
<1>1. /\ source \in Seq(Letters) /\ pattern \in Seq(Letters) /\ Len(pattern) >= 1
      /\ \/ Lead(3)
         \/ \E k \in 0..2 : /\ stringPhase = "returned" /\ output = After(k)
                            /\ Lead(k) /\ ~Lead(k + 1)
  BY DEF RemoveInv
<1>2. Len(source) \in Nat
  BY <1>1
<1> SUFFICES ASSUME Texts!Max(S) <= 2
             PROVE  stringPhase = "returned" /\ output = After(Texts!Max(S))
  BY DEF Texts!RemoveLeadingRight, Lead, After
<1>3. CASE Lead(3)
  <2>1. 3 \in S
    BY <1>1, <1>2, <1>3, LeadFits
  <2>2. \E n \in S : \A m \in S : n >= m
    <3> DEFINE T == {Len(source) - n : n \in S}
    <3>1. T \in SUBSET Nat /\ T # {}
      BY <1>2, <2>1
    <3>2. PICK t \in T : \A u \in T : t <= u
      BY <3>1, LeastOf
    <3>3. PICK n \in S : t = Len(source) - n
      BY <3>2
    <3>4. ASSUME NEW m \in S PROVE n >= m
      <4>1. Len(source) - m \in T
        OBVIOUS
      <4>2. t <= Len(source) - m
        BY <3>2, <4>1
      <4> QED
        BY <1>2, <3>3, <4>2
    <3> QED
      BY <3>4
  <2>3. Texts!Max(S) \in S /\ Texts!Max(S) >= 3
    BY <2>1, <2>2 DEF Texts!Max
  <2> QED
    BY <1>2, <2>3
<1>4. CASE \E k \in 0..2 : /\ stringPhase = "returned" /\ output = After(k)
                           /\ Lead(k) /\ ~Lead(k + 1)
  <2>1. PICK k \in 0..2 : /\ stringPhase = "returned" /\ output = After(k)
                          /\ Lead(k) /\ ~Lead(k + 1)
    BY <1>4
  <2>2. k \in S
    BY <1>1, <1>2, <2>1, LeadFits
  <2>3. ASSUME NEW n \in S PROVE n <= k
    <3> SUFFICES ASSUME k < n PROVE FALSE
      BY <1>2, <2>1
    <3>1. (0..(k + 1) - 1) \subseteq 0..n - 1
      BY <1>2, <2>1
    <3>2. Lead(n)
      OBVIOUS
    <3> QED
      BY <2>1, <3>1, <3>2, Zenon DEF Lead
  <2>4. Texts!Max(S) = k
    BY <2>2, <2>3 DEF Texts!Max
  <2> QED
    BY <2>1, <2>4
<1> QED
  BY <1>1, <1>3, <1>4

LEMMA RemoveInit == Texts!SizesAssumption /\ Texts!Init => RemoveInv
<1> SUFFICES ASSUME Texts!SizesAssumption, Texts!Init, stringFunction = "RemoveLeadingString"
             PROVE  RemoveInv
  BY DEF RemoveInv
<1>1. /\ source \in Texts!Strings(Letters, 0, MaxText) /\ pattern \in Texts!Strings(Letters, 1, MaxPattern)
      /\ stringText = source /\ stringOffset = 0 /\ output = <<>> /\ stringPhase = "start"
  BY DEF Texts!Init, Texts!Searches, Texts!Encoders, Texts!Decoders
<1>2. Texts!npos \in Nat /\ MaxText \in Nat /\ MaxText < Texts!npos
  <2>1. MaxText \in Nat /\ MaxPattern \in Nat
    BY DEF Texts!SizesAssumption
  <2>2. (MaxText + 1) * (MaxPattern + 1) = (MaxText + 1) * MaxPattern + (MaxText + 1)
    BY <2>1
  <2>3. (MaxText + 1) * MaxPattern \in Nat
    BY <2>1
  <2> QED
    BY <2>1, <2>2, <2>3 DEF Texts!npos
<1>3. source \in Seq(Letters) /\ Len(source) < Texts!npos
  <2>1. PICK n \in 0..MaxText : source \in [1..n -> Letters]
    BY <1>1 DEF Texts!Strings
  <2>2. n \in Nat /\ n < Texts!npos
    BY <1>2
  <2> QED
    BY <2>1, <2>2
<1>4. pattern \in Seq(Letters) /\ Len(pattern) >= 1
  <2>1. PICK n \in 1..MaxPattern : pattern \in [1..n -> Letters]
    BY <1>1 DEF Texts!Strings
  <2>2. n \in Nat /\ n >= 1
    OBVIOUS
  <2> QED
    BY <2>1, <2>2
<1> QED
  BY <1>1, <1>2, <1>3, <1>4 DEF RemoveInv, Texts!Ended

LEMMA RemoveStep == RemoveInv /\ [Texts!Next]_Texts!vars => RemoveInv'
<1> SUFFICES ASSUME RemoveInv, [Texts!Next]_Texts!vars PROVE RemoveInv'
  OBVIOUS
<1>1. CASE UNCHANGED Texts!vars
  BY <1>1 DEF RemoveInv, Lead, After, Texts!vars
<1>2. CASE Texts!Next
  <2>1. UNCHANGED <<stringFunction, source, pattern>>
    BY <1>2 DEF Texts!Next
  <2>2. CASE stringFunction # "RemoveLeadingString"
    BY <2>1, <2>2 DEF RemoveInv
  <2>3. CASE stringFunction = "RemoveLeadingString"
    <3>1. \/ stringPhase = "start" /\ Texts!RemoveLeadingStart
          \/ stringPhase = "loop" /\ Texts!RemoveLeadingTurn
      BY <1>2, <2>3 DEF Texts!Next, Texts!Start, Texts!Turn, Texts!Encoders, Texts!Decoders
    <3> QED
      BY <2>1, <2>3, <3>1, RemoveLeadingStarts, RemoveLeadingTurns
  <2> QED
    BY <2>2, <2>3
<1> QED
  BY <1>1, <1>2

\* RemoveLeadingString: of a text that at most two copies of the string lead, they
\* are removed, and nothing else; no position is beyond the text then.
THEOREM RemoveLeadingCorrect ==
  ASSUME Texts!SizesAssumption
  PROVE  Texts!Spec =>
           [](stringFunction = "RemoveLeadingString" /\ stringPhase \in Texts!Ended
                => Texts!RemoveLeadingRight)
<1>1. RemoveInv => (stringFunction = "RemoveLeadingString" /\ stringPhase \in Texts!Ended
                      => Texts!RemoveLeadingRight)
  BY RemoveFollows
<1> QED
  BY <1>1, RemoveInit, RemoveStep, PTL DEF Texts!Spec

\* HexEncodeString and URLEncodeData: every byte becomes its two digits, after a
\* percent sign in the latter.  HexStringToBytes accepts every string of an even number
\* of digits, and returns nothing with an error; URLDecodeData reports an error when an
\* escape is not complete, and only then (of strings without the letters it mistakes).
CodecsRight ==
  stringPhase \in Texts!Ended =>
    /\ stringFunction \in Texts!Encoders => Texts!EncodeRight
    /\ stringFunction = "HexStringToBytes" => Texts!HexErrorsRight
    /\ stringFunction = "URLDecodeData" => Texts!URLErrorsRight

LEMMA CodecsInit == Texts!SizesAssumption /\ Texts!Init => EncodeInv /\ DecodeInv
<1> SUFFICES ASSUME Texts!SizesAssumption, Texts!Init PROVE EncodeInv /\ DecodeInv
  OBVIOUS
<1>1. /\ stringText = source /\ stringOffset = 0 /\ output = <<>> /\ ok
      /\ stringFunction \in Texts!Encoders \cup Texts!Decoders => stringPhase = "loop"
  BY DEF Texts!Init, Texts!Encoders, Texts!Decoders
<1>2. stringFunction \in Texts!Encoders \cup Texts!Decoders => source \in Seq(0..255)
  <2> SUFFICES ASSUME stringFunction \in Texts!Encoders \cup Texts!Decoders
               PROVE  source \in Seq(0..255)
    OBVIOUS
  <2>1. PICK n \in Nat : source \in [1..n -> Octets] \/ source \in [1..n -> Codes]
    <3>1. \/ source \in Texts!Strings(Octets, 0, MaxBytes)
          \/ source \in Texts!Strings(Codes, 0, MaxCoded)
      BY DEF Texts!Init, Texts!Encoders, Texts!Searches, Texts!Decoders
    <3>2. CASE source \in Texts!Strings(Octets, 0, MaxBytes)
      <4>1. PICK n \in 0..MaxBytes : source \in [1..n -> Octets]
        BY <3>2 DEF Texts!Strings
      <4> QED
        BY <4>1 DEF Texts!SizesAssumption
    <3>3. CASE source \in Texts!Strings(Codes, 0, MaxCoded)
      <4>1. PICK n \in 0..MaxCoded : source \in [1..n -> Codes]
        BY <3>3 DEF Texts!Strings
      <4> QED
        BY <4>1 DEF Texts!SizesAssumption
    <3> QED
      BY <3>1, <3>2, <3>3
  <2>2. source \in [1..n -> 0..255]
    BY <2>1 DEF Texts!SizesAssumption
  <2> QED
    BY <2>2, SeqDef
<1>3. stringFunction \in Texts!Encoders => EncodeInv
  <2> SUFFICES ASSUME stringFunction \in Texts!Encoders PROVE EncodeInv
    OBVIOUS
  <2>1. Width * 0 = 0 /\ Len(source) \in Nat
    BY <1>2 DEF Width
  <2> QED
    BY <1>1, <1>2, <2>1 DEF EncodeInv
<1>4. stringFunction \in Texts!Decoders => DecodeInv
  <2> SUFFICES ASSUME stringFunction \in Texts!Decoders PROVE DecodeInv
    OBVIOUS
  <2>1. Len(source) \in Nat /\ DOMAIN source = 1..Len(source)
    BY <1>2
  <2>2. \A i \in Texts!Percent : ~(i <= 0)
    BY <2>1 DEF Texts!Percent
  <2> QED
    BY <1>1, <1>2, <2>1, <2>2 DEF DecodeInv
<1> QED
  BY <1>3, <1>4 DEF EncodeInv, DecodeInv

LEMMA CodecsStep == EncodeInv /\ DecodeInv /\ [Texts!Next]_Texts!vars => EncodeInv' /\ DecodeInv'
<1> SUFFICES ASSUME EncodeInv, DecodeInv, [Texts!Next]_Texts!vars PROVE EncodeInv' /\ DecodeInv'
  OBVIOUS
<1>1. CASE UNCHANGED Texts!vars
  BY <1>1 DEF EncodeInv, DecodeInv, Encoded, Width, AllDigits, Complete, Texts!Digits,
              Texts!Percent, Texts!vars
<1>2. CASE Texts!Next
  <2>1. UNCHANGED <<stringFunction, source>>
    BY <1>2 DEF Texts!Next
  <2>2. CASE stringFunction \notin Texts!Encoders \cup Texts!Decoders
    BY <2>1, <2>2 DEF EncodeInv, DecodeInv
  <2>3. CASE stringFunction \in Texts!Encoders
    <3>1. stringPhase = "loop" /\ Texts!Turn
      BY <1>2, <2>3 DEF Texts!Next, Texts!Start, Texts!Encoders, EncodeInv
    <3>2. \/ Texts!AtEnd /\ Texts!Return
          \/ ~ Texts!AtEnd /\ Texts!EncodeTurn
      BY <2>3, <3>1 DEF Texts!Turn, Texts!Encoders, Texts!Decoders
    <3>3. ASSUME Texts!AtEnd, Texts!Return PROVE EncodeInv'
      <4>1. /\ stringPhase' = "returned" /\ UNCHANGED <<stringText, stringOffset, output>>
            /\ stringOffset >= Len(stringText)
        BY <3>3 DEF Texts!AtEnd, Texts!Return
      <4>2. Width' = Width /\ \A i : Encoded(i)' = Encoded(i)
        BY <2>1, <4>1 DEF Encoded, Width
      <4>3. /\ source \in Seq(0..255) /\ stringText = source /\ output \in Seq(Int)
            /\ stringOffset \in 0..Len(source) /\ Len(output) = Width * stringOffset
            /\ \A i \in 1..stringOffset : Encoded(i)
        BY <2>3 DEF EncodeInv
      <4>4. stringOffset = Len(source)
        BY <4>1, <4>3
      <4> QED
        BY <2>1, <4>1, <4>2, <4>3, <4>4 DEF EncodeInv
    <3>4. EncodeInv'
      BY <2>1, <2>3, <3>1, <3>2, <3>3, EncodeStep
    <3>5. DecodeInv'
      BY <2>1, <2>3 DEF DecodeInv, Texts!Encoders, Texts!Decoders
    <3> QED
      BY <3>4, <3>5
  <2>4. CASE stringFunction \in Texts!Decoders
    <3>1. stringPhase = "loop" /\ Texts!Turn
      BY <1>2, <2>4 DEF Texts!Next, Texts!Start, Texts!Decoders, DecodeInv
    <3>2. \/ Texts!AtEnd /\ Texts!Return
          \/ ~Texts!AtEnd /\ stringFunction = "HexStringToBytes" /\ Texts!HexDecodeTurn
          \/ ~Texts!AtEnd /\ stringFunction = "URLDecodeData" /\ Texts!URLDecodeTurn
      BY <2>4, <3>1 DEF Texts!Turn, Texts!Encoders, Texts!Decoders
    <3>3. ASSUME Texts!AtEnd, Texts!Return PROVE DecodeInv'
      <4>1. /\ stringPhase' = "returned" /\ UNCHANGED <<stringText, stringOffset, output, ok>>
            /\ stringOffset >= Len(stringText)
        BY <3>3 DEF Texts!AtEnd, Texts!Return
      <4>2. /\ Texts!Digits' = Texts!Digits /\ Texts!Percent' = Texts!Percent
            /\ AllDigits' = AllDigits /\ \A i : Complete(i)' = Complete(i)
        BY <2>1 DEF Texts!Digits, Texts!Percent, AllDigits, Complete
      <4>3. /\ source \in Seq(0..255) /\ stringText = source
            /\ stringOffset \in 0..Len(source) /\ ok
        BY <2>4, <3>1 DEF DecodeInv
      <4>4. stringOffset = Len(source)
        BY <4>1, <4>3
      <4>5. stringFunction = "URLDecodeData" /\ Texts!Digits =>
              \A i \in Texts!Percent : i <= stringOffset => Complete(i)
        BY <2>4 DEF DecodeInv
      <4>6. stringFunction = "HexStringToBytes" /\ AllDigits => stringOffset % 2 = 0
        BY <2>4 DEF DecodeInv
      <4> QED
        BY <2>1, <4>1, <4>2, <4>3, <4>4, <4>5, <4>6 DEF DecodeInv
    <3>4. DecodeInv'
      BY <2>1, <3>1, <3>2, <3>3, HexDecodeStep, URLDecodeStep
    <3>5. EncodeInv'
      BY <2>1, <2>4 DEF EncodeInv, Texts!Encoders, Texts!Decoders
    <3> QED
      BY <3>4, <3>5
  <2> QED
    BY <2>2, <2>3, <2>4
<1> QED
  BY <1>1, <1>2

LEMMA CodecsFollow == EncodeInv /\ DecodeInv => CodecsRight
<1> SUFFICES ASSUME EncodeInv, DecodeInv, stringPhase \in Texts!Ended PROVE CodecsRight
  BY DEF CodecsRight
<1>1. stringFunction \in Texts!Encoders => Texts!EncodeRight
  <2> SUFFICES ASSUME stringFunction \in Texts!Encoders PROVE Texts!EncodeRight
    OBVIOUS
  <2>1. stringPhase = "returned" /\ source \in Seq(0..255) /\ stringOffset = Len(source)
    BY DEF EncodeInv, Texts!Ended
  <2>2. DOMAIN source = 1..stringOffset
    BY <2>1
  <2> QED
    BY <2>1, <2>2 DEF EncodeInv, Encoded, Width, Texts!EncodeRight
<1>2. stringFunction = "HexStringToBytes" => Texts!HexErrorsRight
  BY DEF DecodeInv, AllDigits, Texts!HexErrorsRight, Texts!Decoders
<1>3. stringFunction = "URLDecodeData" => Texts!URLErrorsRight
  <2> SUFFICES ASSUME stringFunction = "URLDecodeData", Texts!Digits
               PROVE  ok <=> \A i \in Texts!Percent : Complete(i)
    BY DEF Complete, Texts!URLErrorsRight
  <2>1. /\ source \in Seq(0..255) /\ stringPhase = "returned"
        /\ \A i \in Texts!Percent : i <= stringOffset => Complete(i)
        /\ ok => stringOffset = Len(source)
        /\ ~ok => \E i \in Texts!Percent : ~Complete(i)
    BY DEF DecodeInv, Texts!Decoders, Texts!Ended
  <2>2. \A i \in Texts!Percent : i <= Len(source)
    BY <2>1 DEF Texts!Percent
  <2> QED
    BY <2>1, <2>2
<1> QED
  BY <1>1, <1>2, <1>3 DEF CodecsRight

\* HexEncodeString, URLEncodeData, HexStringToBytes and URLDecodeData, for strings of
\* every length: the encoders are right, and so is what the decoders report.
THEOREM CodecsCorrect ==
  ASSUME Texts!SizesAssumption
  PROVE  Texts!Spec => []CodecsRight
BY CodecsInit, CodecsStep, CodecsFollow, PTL DEF Texts!Spec
=============================================================================
