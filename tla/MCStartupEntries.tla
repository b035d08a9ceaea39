--------------------------- MODULE MCStartupEntries ---------------------------
(* Lists of up to four rows.  Besides the empty list, a file may hold a list
   whose rows name as parents a row that comes later, or a separator.  (Lists in
   which two rows have one id, which only a hand-edited file holds, are left to the
   proofs.) *)
EXTENDS StartupEntries, TLC

MCSymmetry == Permutations(Ids)

Distinct(n) == {r \in [1..n -> Ids] : Cardinality({r[i] : i \in 1..n}) = n}

MCLists ==
    {<<>>}
    \cup {<<Row(r[1], r[2], FALSE), Row(r[2], NoId, FALSE), Row(r[3], r[2], FALSE)>> : r \in Distinct(3)}
    \cup {<<Row(r[1], NoId, TRUE), Row(r[2], r[1], FALSE), Row(r[3], r[2], TRUE)>> : r \in Distinct(3)}
===============================================================================
