----------------------------- MODULE OrderedSets -----------------------------
(***************************************************************************)
(* Sets of numbers in ascending order: what the code gets for free from a  *)
(* sorted map or from a loop over the positions of a list.  Written        *)
(* without recursion and without SelectSeq or SortSeq, of which the proof  *)
(* system knows nothing.                                                   *)
(***************************************************************************)
EXTENDS Integers, FiniteSets, Sequences

\* How many members of S come before x.
Position(S, x) == Cardinality({y \in S : y < x})

\* The members of a finite set of numbers as a sequence.
InOrder(S) == [i \in 1..Cardinality(S) |-> CHOOSE x \in S : Position(S, x) = i - 1]
=============================================================================
