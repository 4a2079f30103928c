---------------------------- MODULE Arrangements ----------------------------
(***************************************************************************)
(* Sorting, as what it achieves.                                           *)
(***************************************************************************)
EXTENDS Integers, FiniteSets

\* The members of a finite set in the order of a comparison: what sort() makes of a list
\* no two of which compare as equal.
Arranged(S, LessThan(_, _)) ==
  CHOOSE s \in [1..Cardinality(S) -> S] :
    \A i, j \in 1..Cardinality(S) : i < j => LessThan(s[i], s[j])
=============================================================================
