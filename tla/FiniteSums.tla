----------------------------- MODULE FiniteSums -----------------------------
(***************************************************************************)
(* The sum of a function over a finite set: the expected value of a        *)
(* structure and the counts of its history are such sums.                  *)
(***************************************************************************)
EXTENDS Integers

\* One element of a set with elements.
AnyOf(S) == CHOOSE s \in S : TRUE

\* The sum of f over S, in whatever order its elements are taken.
SumOver(f, S) ==
  LET sum[T \in SUBSET S] == IF T = {} THEN 0 ELSE f[AnyOf(T)] + sum[T \ {AnyOf(T)}]
  IN sum[S]
=============================================================================
