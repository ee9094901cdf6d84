-------------------------------- MODULE Sums --------------------------------
(***************************************************************************)
(* Sums of natural numbers over a finite set, without recursion: a sum is  *)
(* the number of pairs of an element and one of the units it stands for.   *)
(* What holds of sums then follows from what holds of cardinalities.       *)
(***************************************************************************)
EXTENDS Integers, FiniteSets

\* f[x] units for each x of S.
Units(f, S) == UNION {{x} \X (1..f[x]) : x \in S}

\* The sum of f[x] over S.
SumOf(f, S) == Cardinality(Units(f, S))
=============================================================================
