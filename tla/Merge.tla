------------------------------- MODULE Merge -------------------------------
(***************************************************************************)
(* MBUtility::Merge (Merge.h): the elements of several sorted lists, in    *)
(* one.  An element is its key, its list and its place in that list, so    *)
(* that equal keys are told apart.                                         *)
(***************************************************************************)
EXTENDS Naturals, Sequences

CONSTANTS
  MergeKeys,   \* the values, naturals
  ListCount,   \* number of lists
  ListLength   \* bound on the length of each

ListsAssumption == MergeKeys \subseteq Nat /\ ListCount \in Nat /\ ListLength \in Nat

VARIABLES
  lists,    \* the lists to merge
  taken,    \* Iterators: how far each has been read
  merged,   \* ReturnValue
  merging   \* whether the call is running

mergeVars == <<lists, taken, merged, merging>>

Lists == 1..ListCount
SortedLists ==
  {s \in UNION {[1..n -> MergeKeys] : n \in 0..ListLength} :
     \A i, j \in DOMAIN s : i < j => s[i] <= s[j]}

MergeInit ==
  /\ lists \in [Lists -> SortedLists]
  /\ taken = [l \in Lists |-> 0] /\ merged = <<>> /\ merging = TRUE

Remaining == {l \in Lists : taken[l] < Len(lists[l])}
Front(l) == lists[l][taken[l] + 1]

\* Mutant of Candidate: a later list is preferred to an earlier one when their
\* heads are equal.
LateCandidate ==
  CHOOSE l \in Remaining : \A k \in Remaining :
    Front(l) < Front(k) \/ (Front(l) = Front(k) /\ l >= k)

\* A list replaces the candidate only if its head compares less.
Candidate ==
  CHOOSE l \in Remaining : \A k \in Remaining :
    Front(l) < Front(k) \/ (Front(l) = Front(k) /\ l <= k)

TakeElement ==
  /\ merging /\ Remaining # {}
  /\ merged' = Append(merged, <<Front(Candidate), Candidate, taken[Candidate] + 1>>)
  /\ taken' = [taken EXCEPT ![Candidate] = @ + 1]
  /\ UNCHANGED <<lists, merging>>

Finish ==
  /\ merging /\ Remaining = {}
  /\ merging' = FALSE
  /\ UNCHANGED <<lists, taken, merged>>

MergeNext == TakeElement \/ Finish

MergeSpec == MergeInit /\ [][MergeNext]_mergeVars /\ WF_mergeVars(MergeNext)
-----------------------------------------------------------------------------
\* e comes before f: a smaller key, or an equal one of an earlier list, or of an
\* earlier place in the same list.
Before(e, f) ==
  \/ e[1] < f[1]
  \/ e[1] = f[1] /\ (e[2] < f[2] \/ (e[2] = f[2] /\ e[3] < f[3]))

Elements == {<<lists[e[1]][e[2]], e[1], e[2]>> :
               e \in {p \in Lists \X (1..ListLength) : p[2] <= Len(lists[p[1]])}}

\* The merged list is sorted and stable at every step, and in the end holds each
\* element of each list (once, since Before is strict).
MergeRight ==
  /\ \A i, j \in DOMAIN merged : i < j => Before(merged[i], merged[j])
  /\ ~merging => {merged[i] : i \in DOMAIN merged} = Elements
=============================================================================
