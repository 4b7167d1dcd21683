---------------------------- MODULE MCSequential ----------------------------
(***************************************************************************)
(* One instance for TLC of the modules of code that runs in one thread.    *)
(* They do not interact: a behaviour is one of the part chosen in the      *)
(* initial state, and the variables of the others keep their values.       *)
(***************************************************************************)
EXTENDS BinarySearch, Merge, RowReduction, MCHolders, LineRetriever, MemoryStreams,
        MCStreamReader

VARIABLES
  part,  \* the module whose actions are taken
  (* MatrixAlgebra *)  function, left, right, result,
  (* MBStrings *)      stringFunction, source, pattern, with, stringText, stringOffset,
                       output, ok, stringPhase

AllVars == <<part, binaryVars, mergeVars, reductionVars, holderVars, lineVars, vars, streamsVars,
  function, left, right, result,
  stringFunction, source, pattern, with, stringText, stringOffset, output, ok, stringPhase>>

\* Two by two modulo 5, three by three modulo 3, and one that is not square.
ShapeDef ==
  {[rows |-> 2, columns |-> 2, prime |-> 5, entries |-> 0..4],
   [rows |-> 3, columns |-> 3, prime |-> 3, entries |-> 0..1],
   [rows |-> 2, columns |-> 1, prime |-> 3, entries |-> 0..2]}

Algebra == INSTANCE MatrixAlgebra WITH Prime <- 3, MaxSide <- 2

Texts == INSTANCE MBStrings WITH
  Letters <- {1, 2}, MaxText <- 7, MaxPattern <- 2, Octets <- {0, 10, 171, 255}, MaxBytes <- 2,
  Codes <- {32, 37, 43, 48, 58, 65, 102, 71, 80}, MaxCoded <- 4,
  function <- stringFunction, text <- stringText, offset <- stringOffset, phase <- stringPhase

ASSUME PartsAssumption ==
  /\ ListsAssumption /\ RetrieverAssumption /\ StreamsAssumption
  /\ ShapesAssumption /\ Algebra!SizesAssumption /\ Texts!SizesAssumption

Parts == {"search", "merge", "rows", "algebra", "holders", "lines", "reader", "copy", "strings"}

\* A part that does not run is in one initial state, of a small instance.
MCInit ==
  /\ part \in Parts
  /\ IF part = "search" THEN BinaryInit
     ELSE /\ version = "compare" /\ list = <<>> /\ wanted = 1 /\ beside = 1
          /\ lower = -1 /\ upper = 0 /\ returned = -1 /\ strayed = FALSE /\ phase = "start"
  /\ IF part = "merge" THEN MergeInit
     ELSE /\ lists = [l \in Lists |-> <<>>] /\ taken = [l \in Lists |-> 0]
          /\ merged = <<>> /\ merging = TRUE
  /\ IF part = "rows" THEN ReductionInit
     ELSE /\ method = "Determinant" /\ original = <<<<0>>>> /\ matrix = <<<<0>>>>
          /\ shape = [rows |-> 1, columns |-> 1, prime |-> 2, entries |-> {0}]
          /\ companion = <<<<1>>>> /\ switches = 0 /\ pivots = <<1>> /\ row = 1 /\ limit = 0
          /\ rowPhase = "eliminate" /\ answer = <<>>
  /\ IF part = "algebra" THEN Algebra!Init
     ELSE function = "CrossProduct" /\ left = <<0, 0, 0>> /\ right = <<0, 0, 0>> /\ result = <<>>
  /\ IF part = "strings" THEN Texts!Init
     ELSE /\ stringFunction = "Split" /\ source = <<>> /\ pattern = <<1>> /\ with = <<>>
          /\ stringText = <<>> /\ stringOffset = 0 /\ output = <<>> /\ ok = TRUE /\ stringPhase = "loop"
  /\ HoldersInit /\ (part # "holders" => class = "Dynamic")
  /\ LineInit    /\ (part # "lines" => text = <<>>)
  /\ StreamsInit /\ (part # "copy" => input = <<>> /\ content = <<>> /\ position = 0
                                       /\ kinds = <<"buffer", "string">>)
  /\ Init

MCNext ==
  /\ UNCHANGED part
  /\ IF part = "search"  THEN BinaryNext ELSE UNCHANGED binaryVars
  /\ IF part = "merge"   THEN MergeNext ELSE UNCHANGED mergeVars
  /\ IF part = "rows"    THEN ReductionNext ELSE UNCHANGED reductionVars
  /\ IF part = "algebra" THEN Algebra!Next ELSE UNCHANGED <<function, left, right, result>>
  /\ IF part = "holders" THEN HoldersNext ELSE UNCHANGED holderVars
  /\ IF part = "lines"   THEN LineNext ELSE UNCHANGED lineVars
  /\ IF part = "reader"  THEN SearchNext ELSE UNCHANGED vars
  /\ IF part = "copy"    THEN StreamsNext ELSE UNCHANGED streamsVars
  /\ IF part = "strings" THEN Texts!Next ELSE UNCHANGED <<stringFunction, source, pattern, with,
       stringText, stringOffset, output, ok, stringPhase>>

\* A search, a call of the reader or one of MBStrings that can go on does.
MCSpec ==
  /\ MCInit /\ [][MCNext]_AllVars
  /\ WF_binaryVars(part = "search" /\ BinaryNext)
  /\ WF_vars(part = "reader" /\ Step)
  /\ WF_<<stringText, stringOffset, output, stringPhase>>(part = "strings" /\ Texts!Next)
-----------------------------------------------------------------------------
\* What a sequential function leaves is what it is for: the merged list is sorted,
\* stable and complete (Merge.h); the determinants and products of MBMatrix.h are right,
\* as far as each is;
\* strings are split, replaced, encoded and decoded (MBStrings.h).
AnswersRight ==
  /\ MergeRight
  /\ DeterminantRight
  /\ Algebra!AlgebraRight
  /\ part = "strings" => Texts!StringsRight

\* Calls of StreamReader return, and binary searches and the functions of MBStrings end.
CallsEnd == /\ CallsReturn /\ SearchEnds
            /\ part = "strings" => Texts!StringCallsEnd
=============================================================================
