------------------------------ MODULE Sublists ------------------------------
(***************************************************************************)
(* Erasing from lists and vectors.                                         *)
(***************************************************************************)
EXTENDS Integers, FiniteSets, SequencesExt

\* The members of l that are in K, in the order of l.  (SelectSeq is
\* recursive, out of the prover's reach; this says which index comes n-th.)
Sublist(l, K) ==
  LET I       == {i \in 1 .. Len(l) : l[i] \in K}
      Rank(i) == Cardinality({j \in I : j <= i})
  IN  [n \in 1 .. Cardinality(I) |-> l[CHOOSE i \in I : Rank(i) = n]]

NoDuplicates(l) == \A i, j \in 1 .. Len(l) : l[i] = l[j] => i = j
=============================================================================
