---------------------------- MODULE RowReduction ----------------------------
(***************************************************************************)
(* The determinants and inverses of MBMatrix.h, which all reduce rows:     *)
(* Determinant and InvertedMatrix of MBDynamicMatrix, GetDeterminant and   *)
(* GetInverse of the static matrices.  Elements are the integers modulo a  *)
(* prime, in which, as the code expects of T, every number but 0 divides.  *)
(* Row i of the code is row i + 1 here; one step deals with one row.       *)
(***************************************************************************)
EXTENDS Integers, FiniteSetsExt, Sums

\* The matrices to try: a set of records of rows, columns, a prime, entries.
CONSTANT Shapes

\* Every number but 0 has an inverse.
Divides(prime) ==
  \A b \in 1..prime - 1 : \E q \in 0..prime - 1 : (q * b) % prime = 1

ShapesAssumption ==
  /\ Shapes \subseteq [rows : Nat \ {0}, columns : Nat \ {0}, prime : Nat \ {0, 1},
                       entries : SUBSET Nat]
  /\ \A s \in Shapes : Divides(s.prime) /\ s.entries \subseteq 0..s.prime - 1

VARIABLES
  method,     \* the function that was called
  shape,      \* the matrix it was called on, and
  original,   \* its elements
  matrix,     \* MatrixToReturn, or MatrixToOperateOn: what the rows have become
  companion,  \* PartiallyInvertedMatrix.Matrix, or InvertedMatrixToChange
  switches,   \* rows or pivots switched; DeterminantMultiple is -1 when it is odd
  pivots,     \* PivotPositions
  row,        \* the row of the current step
  limit,      \* the comparisons in the current pass of the bubble sort
  rowPhase,   \* "eliminate", "sort", "reduce", "done", "threw" or "fault"
  answer      \* what is returned: <<the determinant>>, or the inverse

reductionVars == <<method, shape, original, matrix, companion, switches, pivots, row, limit, rowPhase, answer>>
reductionArguments == <<method, shape, original>>

Rows    == 1..shape.rows
Columns == 1..shape.columns
Dynamic == method \in {"Determinant", "InvertedMatrix"}
Inverts == method \in {"InvertedMatrix", "GetInverse"}

Mod(n) == n % shape.prime
Quotient(a, b) == CHOOSE q \in 0..shape.prime - 1 : Mod(q * b) = a

Sign == IF switches % 2 = 0 THEN 1 ELSE -1

Unit == [i \in Rows |-> [j \in Rows |-> IF i = j THEN 1 ELSE 0]]

ReductionInit ==
  /\ shape \in Shapes
  /\ original \in [Rows -> [Columns -> shape.entries]]
  /\ method \in IF shape.rows = shape.columns
                THEN {"Determinant", "InvertedMatrix", "GetDeterminant", "GetInverse"}
                ELSE {"Determinant", "InvertedMatrix"}
  /\ matrix = original /\ companion = Unit
  /\ switches = 0 /\ pivots = [i \in Rows |-> 1]
  /\ row = 1 /\ limit = shape.rows - 1 /\ rowPhase = "eliminate" /\ answer = <<>>

Answer(a) == rowPhase' = "done" /\ answer' = a
Throw     == rowPhase' = "threw" /\ UNCHANGED answer

\* A division by 0: what a row then holds depends on T.
Fault == rowPhase' = "fault" /\ UNCHANGED <<matrix, companion, answer>>
-----------------------------------------------------------------------------
(* Row operations                                                          *)

\* Mutant of SwitchRows: the first row is not kept while it is overwritten.
SwitchRowsLosing(m, r, s) == [m EXCEPT ![r] = m[s]]

SwitchRows(m, r, s) == [m EXCEPT ![r] = m[s], ![s] = m[r]]

\* SubtractRow, from each row of targets, with a multiple for each.
SubtractRow(m, r, targets, multiple) ==
  [i \in DOMAIN m |->
     IF i \in targets THEN [j \in DOMAIN m[i] |-> Mod(m[i][j] - multiple[i] * m[r][j])]
                      ELSE m[i]]

\* Mutant of DivideRow: only from the pivot on, before which the matrix is 0.
DivideRowFrom(m, r, d) ==
  [m EXCEPT ![r] = [j \in DOMAIN m[r] |-> IF j < r THEN m[r][j] ELSE Quotient(m[r][j], d)]]

DivideRow(m, r, d) == [m EXCEPT ![r] = [j \in DOMAIN m[r] |-> Quotient(m[r][j], d)]]

\* p_SwapRow: p_Swap moves the right value to the left, and back.
StaticSwapRow(m, r, s) == [m EXCEPT ![r] = m[s]]

DiagonalProduct(m, position) ==
  Mod(ProductTo([i \in Rows |-> m[i][position[i]]], shape.rows))
Diagonal == [i \in Rows |-> i]
-----------------------------------------------------------------------------
(* MBDynamicMatrix                                                         *)

NotSquare ==
  /\ rowPhase = "eliminate" /\ Dynamic /\ shape.rows # shape.columns
  /\ Throw
  /\ UNCHANGED <<reductionArguments, matrix, companion, switches, pivots, row, limit>>

\* GausEliminate: the first row that is not 0 in the column comes up, and is
\* subtracted from those below; the companion takes the same operations.  A
\* column of zeros is passed over.
Eliminate ==
  /\ rowPhase = "eliminate" /\ Dynamic /\ shape.rows = shape.columns /\ row \in Rows
  /\ LET nonZero == {r \in row..shape.rows : matrix[r][row] # 0}
         pivot   == Min(nonZero)
         upper   == SwitchRows(matrix, row, pivot)
         below   == row + 1..shape.rows
         multiple == [r \in below |-> Quotient(upper[r][row], upper[row][row])]
     IN IF nonZero = {} THEN UNCHANGED <<matrix, companion, switches>>
        ELSE /\ matrix' = SubtractRow(upper, row, below, multiple)
             /\ companion' = SubtractRow(SwitchRows(companion, row, pivot),
                                         row, below, multiple)
             /\ switches' = IF pivot # row THEN switches + 1 ELSE switches
  /\ row' = row + 1
  /\ UNCHANGED <<reductionArguments, pivots, limit, rowPhase, answer>>

\* Determinant returns; InvertedMatrix throws or goes on with FullyReduce.
Eliminated ==
  /\ rowPhase = "eliminate" /\ Dynamic /\ row > shape.rows
  /\ LET product == DiagonalProduct(matrix, Diagonal)
     IN IF method = "Determinant" THEN Answer(<<Mod(product * Sign)>>) /\ UNCHANGED row
        ELSE IF product = 0       THEN Throw /\ UNCHANGED row
        ELSE rowPhase' = "reduce" /\ row' = 1 /\ UNCHANGED answer
  /\ UNCHANGED <<reductionArguments, matrix, companion, switches, pivots, limit>>

\* FullyReduce: the row is divided by its pivot and subtracted from those above.
\* (InvertedMatrix calls it with no 0 in the diagonal.)
FullyReduce ==
  /\ rowPhase = "reduce" /\ Dynamic /\ row \in Rows
  /\ LET pivot   == matrix[row][row]
         divided == DivideRow(matrix, row, pivot)
         above   == {r \in 1..row - 1 : divided[r][row] # 0}
         multiple == [r \in above |-> divided[r][row]]
     IN IF pivot = 0 THEN UNCHANGED <<matrix, companion>>
        ELSE /\ matrix' = SubtractRow(divided, row, above, multiple)
             /\ companion' = SubtractRow(DivideRow(companion, row, pivot), row, above, multiple)
  /\ row' = row + 1
  /\ UNCHANGED <<reductionArguments, switches, pivots, limit, rowPhase, answer>>
-----------------------------------------------------------------------------
(* The static matrices                                                     *)

\* p_RowPreservering_GaussEliminate: the first column that is not 0 in the row,
\* or the first column, is cleared in the rows below.
StaticEliminate ==
  /\ rowPhase = "eliminate" /\ ~Dynamic /\ row \in Rows
  /\ LET nonZero == {c \in Columns : matrix[row][c] # 0}
         column  == IF nonZero = {} THEN 1 ELSE Min(nonZero)
         below   == {r \in row + 1..shape.rows : matrix[r][column] # 0}
         multiple == [r \in below |-> Quotient(matrix[r][column], matrix[row][column])]
     IN /\ pivots' = [pivots EXCEPT ![row] = column]
        /\ IF nonZero = {} /\ below # {} THEN Fault
           ELSE /\ matrix' = SubtractRow(matrix, row, below, multiple)
                /\ companion' = IF Inverts THEN SubtractRow(companion, row, below, multiple)
                                           ELSE companion
                /\ rowPhase' = IF row = shape.rows THEN "sort" ELSE rowPhase
                /\ UNCHANGED answer
  /\ row' = IF row = shape.rows THEN 1 ELSE row + 1
  /\ UNCHANGED <<reductionArguments, switches, limit>>

\* p_Make_GaussEliminatedMatrix_RowEchelonForm: one comparison of the bubble
\* sort.  With SwapRows, the rows that have the pivot positions for their indices
\* change too, and only in *this.
SortPivots ==
  /\ rowPhase = "sort" /\ limit > 0
  /\ IF pivots[row] > pivots[row + 1]
     THEN /\ pivots' = SwitchRows(pivots, row, row + 1)
          /\ matrix' = IF Inverts THEN StaticSwapRow(matrix, pivots[row], pivots[row + 1])
                                  ELSE matrix
          /\ switches' = switches + 1
     ELSE UNCHANGED <<pivots, matrix, switches>>
  /\ IF row < limit THEN row' = row + 1 /\ UNCHANGED limit
                    ELSE row' = 1 /\ limit' = limit - 1
  /\ UNCHANGED <<reductionArguments, companion, rowPhase, answer>>

\* GetDeterminant returns, GetInverse goes on from the second row.
PivotsSorted ==
  /\ rowPhase = "sort" /\ limit = 0
  /\ IF Inverts THEN rowPhase' = "reduce" /\ row' = 2 /\ UNCHANGED answer
     ELSE Answer(<<Mod(DiagonalProduct(matrix, pivots) * Sign)>>) /\ UNCHANGED row
  /\ UNCHANGED <<reductionArguments, matrix, companion, switches, pivots, limit>>

\* p_Make_RowEchelonForm_UnitMatrix: the column of the pivot is cleared in the
\* rows above; no row is divided by its pivot.
StaticReduce ==
  /\ rowPhase = "reduce" /\ ~Dynamic /\ row \in Rows
  /\ LET column == pivots[row]
         above  == {r \in 1..row - 1 : matrix[r][column] # 0}
         multiple == [r \in above |-> Quotient(matrix[r][column], matrix[row][column])]
     IN IF matrix[row][column] = 0 /\ above # {} THEN Fault
        ELSE /\ matrix' = SubtractRow(matrix, row, above, multiple)
             /\ companion' = SubtractRow(companion, row, above, multiple)
             /\ UNCHANGED <<rowPhase, answer>>
  /\ row' = row + 1
  /\ UNCHANGED <<reductionArguments, switches, pivots, limit>>

Reduced ==
  /\ rowPhase = "reduce" /\ row > shape.rows
  /\ Answer(companion)
  /\ UNCHANGED <<reductionArguments, matrix, companion, switches, pivots, row, limit>>

ReductionNext ==
  \/ NotSquare \/ Eliminate \/ Eliminated \/ FullyReduce
  \/ StaticEliminate \/ SortPivots \/ PivotsSorted \/ StaticReduce \/ Reduced

ReductionSpec == ReductionInit /\ [][ReductionNext]_reductionVars
-----------------------------------------------------------------------------
Product(a, b) ==
  [i \in Rows |-> [j \in Rows |->
     Mod(SumTo([k \in Rows |-> a[i][k] * b[k][j]], shape.rows))]]

\* The determinant, as the sum over the permutations of the columns.
Permutations == {p \in [Rows -> Rows] : \A i, j \in Rows : p[i] = p[j] => i = j}
Parity(p) ==
  IF Cardinality({e \in Rows \X Rows : e[1] < e[2] /\ p[e[1]] > p[e[2]]}) % 2 = 0 THEN 1 ELSE -1
Determinant(m) == Mod(MapThenSumSet(LAMBDA p : Parity(p) * DiagonalProduct(m, p), Permutations))

\* The pivots of the static functions came out in order and are not 0.
InOrder ==
  switches = 0 /\ \A i \in Rows : matrix[i][i] # 0

\* The companion times the original is the matrix at every step, so that what
\* InvertedMatrix returns is the inverse.  So is what GetInverse returns for pivots
\* in order, but for the pivots, which its rows keep.
InverseRight ==
  /\ shape.rows = shape.columns /\ rowPhase # "fault" =>
       (Dynamic \/ (Inverts /\ switches = 0) => Product(companion, original) = matrix)
  /\ rowPhase = "done" /\ Inverts =>
       (Dynamic \/ InOrder =>
          Product(answer, original) =
            [i \in Rows |-> [j \in Rows |->
               IF i # j THEN 0 ELSE IF Dynamic THEN 1 ELSE matrix[i][i]]])

\* Switching rows is paid for in the sign, Determinant is right, and InvertedMatrix
\* throws when there is no inverse.  GetDeterminant is right only for pivots in order.
DeterminantRight ==
  /\ shape.rows = shape.columns /\ Dynamic /\ rowPhase = "eliminate" =>
       Mod(Sign * Determinant(matrix)) = Determinant(original)
  /\ rowPhase = "threw" => shape.rows # shape.columns
                            \/ (method = "InvertedMatrix" /\ Determinant(original) = 0)
  /\ rowPhase = "done" /\ ~Inverts =>
       (Dynamic \/ InOrder => answer = <<Determinant(original)>>)
=============================================================================
