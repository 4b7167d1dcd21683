-------------------------------- MODULE Sums --------------------------------
(* The loops of MBMatrix.h that add or multiply what a row has.             *)
EXTENDS Integers

\* f[1] + ... + f[n]
SumTo(f, n) ==
  LET sum[k \in 0..n] == IF k = 0 THEN 0 ELSE sum[k - 1] + f[k]
  IN  sum[n]

\* f[1] * ... * f[n]
ProductTo(f, n) ==
  LET product[k \in 0..n] == IF k = 0 THEN 1 ELSE product[k - 1] * f[k]
  IN  product[n]
=============================================================================
