-------------------------------- MODULE Sums --------------------------------
(***************************************************************************)
(* The sum of the first numbers of a sequence or function, as a recursive  *)
(* function: the folds of the community modules are out of the provers'    *)
(* reach. SumProofs has its laws.                                          *)
(***************************************************************************)
EXTENDS Integers

(* f[1] + ... + f[n] *)
SumTo(f, n) ==
  LET sum[i \in 0..n] == IF i = 0 THEN 0 ELSE sum[i - 1] + f[i]
  IN  sum[n]
=============================================================================
