--------------------------------- MODULE Sums ---------------------------------
(***************************************************************************)
(* The sum and the product a loop accumulates.                              *)
(***************************************************************************)
EXTENDS Integers

\* f[1] + ... + f[m]
Total(m, f) ==
  LET partial[s \in 0 .. m] == IF s = 0 THEN 0 ELSE partial[s - 1] + f[s]
  IN  partial[m]

\* f[1] * ... * f[m]
ProductOf(m, f) ==
  LET partial[s \in 0 .. m] == IF s = 0 THEN 1 ELSE partial[s - 1] * f[s]
  IN  partial[m]
=============================================================================
