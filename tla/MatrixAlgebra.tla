--------------------------- MODULE MatrixAlgebra ---------------------------
(***************************************************************************)
(* Products, vectors and quaternions of MBMatrix.h, over the integers      *)
(* modulo a prime.  Each is a function of its arguments: a behaviour is    *)
(* one call.  A vector is <<x, y, z>>, a quaternion <<a, i, j, k>>.        *)
(***************************************************************************)
EXTENDS Integers, Sequences, FiniteSetsExt, Sums

CONSTANTS
  Prime,    \* the elements are 0..Prime - 1
  MaxSide   \* bound on the sides of the matrices that are multiplied

SizesAssumption == Prime \in Nat \ {0, 1} /\ MaxSide \in Nat \ {0}

VARIABLES
  function,  \* what is called,
  left,      \* its arguments,
  right,
  result     \* and what it has returned, <<>> before

vars == <<function, left, right, result>>

Scalars == 0..Prime - 1
Mod(n) == n % Prime
Quotient(a, b) == CHOOSE q \in Scalars : Mod(q * b) = a
-----------------------------------------------------------------------------
(* Matrices: their sides, and their elements in rows, one after the other  *)

MatricesOf(r, c) == [rows : {r}, columns : {c}, data : [1..r * c -> Scalars]]

\* operator() of MBDynamicMatrix: no check, so a column past the end is in the
\* next row, and past the last row there is nothing known (here, 0).
At(m, r, c) ==
  LET i == (r - 1) * m.columns + c IN IF i \in DOMAIN m.data THEN m.data[i] ELSE 0

\* Mutant of InnerIterations: there are as many as rows.
InnerRows(a, b) == a.rows

\* The length of the sums of a product: that of the longer side of the result.
InnerIterations(a, b) == IF b.columns > a.rows THEN b.columns ELSE a.rows

\* operator* of MBDynamicMatrix.
DynamicProduct(a, b) ==
  [r \in 1..a.rows |-> [c \in 1..b.columns |->
     LET n == InnerIterations(a, b)
     IN  Mod(SumTo([k \in 1..n |-> At(a, r, k) * At(b, k, c)], n))]]

\* operator* of MBStaticMatrix, for a right matrix with as many rows as the left:
\* p_GetDotProduct takes as many elements as it has columns.
StaticProduct(a, b) ==
  [r \in 1..a.rows |-> [c \in 1..b.columns |->
     Mod(SumTo([k \in 1..b.columns |-> At(a, r, k) * At(b, k, c)], b.columns))]]

\* Transpose.
Transpose(m) ==
  [rows |-> m.columns, columns |-> m.rows,
   data |-> [i \in DOMAIN m.data |->
               At(m, ((i - 1) % m.rows) + 1, ((i - 1) \div m.rows) + 1)]]
-----------------------------------------------------------------------------
(* Vectors                                                                 *)

Vectors == [1..3 -> Scalars]

Plus(v, w)  == [i \in DOMAIN v |-> Mod(v[i] + w[i])]
Minus(v, w) == [i \in DOMAIN v |-> Mod(v[i] - w[i])]
Scaled(s, v) == [i \in DOMAIN v |-> Mod(s * v[i])]
DotProduct(v, w) == Mod(SumTo([i \in DOMAIN v |-> v[i] * w[i]], Len(v)))

\* CrossProduct of MBStaticVector3.
CrossProduct(v, w) ==
  <<Mod(v[2] * w[3] - v[3] * w[2]), Mod(v[3] * w[1] - v[1] * w[3]),
    Mod(v[1] * w[2] - v[2] * w[1])>>

\* CrossProduct of MBDynamicVector3, with the vectors for columns of TempMatrix,
\* a row left out.  (Determinant is the subject of RowReduction.)
Determinant2(v, w, i, j) == Mod(v[i] * w[j] - w[i] * v[j])
DynamicCrossProduct(v, w) ==
  <<Determinant2(v, w, 2, 3), Mod(-Determinant2(v, w, 1, 3)), Determinant2(v, w, 1, 2)>>
-----------------------------------------------------------------------------
(* Quaternions                                                             *)

Quaternions == [1..4 -> Scalars]
Norm(p) == DotProduct(p, p)

\* Invert; the denominator must not be 0.
Inverted(p) ==
  [n \in 1..4 |-> Quotient(IF n = 1 THEN p[1] ELSE Mod(-p[n]), Norm(p))]

\* Quaternion::GetRotationMatrix.
RotationMatrix(p) ==
  LET a == p[1]  i == p[2]  j == p[3]  k == p[4]
  IN [rows |-> 3, columns |-> 3, data |-> [n \in 1..9 |-> Mod(
       <<1 - 2 * (j * j + k * k), 2 * (i * j - k * a), 2 * (i * k + j * a),
         2 * (i * j + k * a), 1 - 2 * (i * i + k * k), 2 * (j * k - i * a),
         2 * (i * k - j * a), 2 * (j * k + i * a), 1 - 2 * (i * i + j * j)>>[n])]]

\* A static matrix times a vector.
MatrixTimes(m, v) ==
  [r \in 1..3 |-> DotProduct([c \in 1..3 |-> At(m, r, c)], v)]
-----------------------------------------------------------------------------
Init ==
  /\ result = <<>>
  /\ \/ /\ function \in {"DynamicProduct", "StaticProduct"}
        /\ \E r, k, c \in 1..MaxSide :
             /\ left \in MatricesOf(r, k)
             /\ right \in MatricesOf(IF function = "StaticProduct" THEN r ELSE k, c)
     \/ function \in {"CrossProduct", "DynamicCrossProduct"} /\ left \in Vectors /\ right \in Vectors
     \/ /\ function = "RotationMatrix"
        /\ left \in {p \in Quaternions : Norm(p) = 1} /\ right \in Vectors

Compute ==
  /\ result = <<>>
  /\ result' = CASE function = "DynamicProduct"      -> DynamicProduct(left, right)
                 [] function = "StaticProduct"       -> StaticProduct(left, right)
                 [] function = "CrossProduct"        -> CrossProduct(left, right)
                 [] function = "DynamicCrossProduct" -> DynamicCrossProduct(left, right)
                 [] function = "RotationMatrix"      -> MatrixTimes(RotationMatrix(left), right)
  /\ UNCHANGED <<function, left, right>>

Next == Compute

Spec == Init /\ [][Next]_vars
-----------------------------------------------------------------------------
ProductOf(a, b) ==
  [r \in 1..a.rows |-> [c \in 1..b.columns |->
     Mod(SumTo([k \in 1..a.columns |->
                  a.data[(r - 1) * a.columns + k] * b.data[(k - 1) * b.columns + c]],
               a.columns))]]

\* Whether the lengths of the sums are right: for the dynamic product, the inner
\* side is the longer outer one; for the static one, all sides are equal.
InnerFits ==
  /\ left.columns = Max({left.rows, right.columns})
  /\ function = "StaticProduct" => left.rows = right.columns

\* Products are right as far as their sums have the right length; both cross
\* products are perpendicular to their arguments, change sign with their order
\* and disregard multiples; the matrix of a unit quaternion is a rotation: it
\* keeps lengths and cross products, and that of the inverse rotates back.
AlgebraRight ==
  result # <<>> =>
    CASE function \in {"DynamicProduct", "StaticProduct"} ->
           InnerFits => result = ProductOf(left, right)
      [] function \in {"CrossProduct", "DynamicCrossProduct"} ->
           /\ DotProduct(result, left) = 0 /\ DotProduct(result, right) = 0
           /\ result = CrossProduct(left, right)
           /\ Plus(result, DynamicCrossProduct(right, left)) = <<0, 0, 0>>
           /\ CrossProduct(left, Minus(right, Scaled(2, left))) = result
      [] function = "RotationMatrix" ->
           /\ MatrixTimes(RotationMatrix(Inverted(left)), result) = right
           /\ RotationMatrix(Inverted(left)) = Transpose(RotationMatrix(left))
           /\ DotProduct(result, result) = DotProduct(right, right)
           /\ LET axis == <<1, 0, 0>>
                  turned == MatrixTimes(RotationMatrix(left), axis)
              IN CrossProduct(turned, result)
                   = MatrixTimes(RotationMatrix(left), CrossProduct(axis, right))
=============================================================================
