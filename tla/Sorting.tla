------------------------------ MODULE Sorting ------------------------------
(***************************************************************************)
(* qsort and std::sort, as functions of what they sort: each element goes  *)
(* to the place that the number of elements before it says.  SetToSortSeq  *)
(* of the community modules does the same by SortSeq, whose definition the *)
(* proof system does not have.                                             *)
(***************************************************************************)
EXTENDS Integers, FiniteSets

Ordering(S, less(_, _)) == {p \in S \X S : less(p[1], p[2])}

Before(x, S, R) == {y \in S : <<y, x>> \in R}

(* A finite set in the order R, a set of pairs that orders it strictly. *)
InOrder(S, R) ==
  [k \in 1 .. Cardinality(S) |->
     CHOOSE x \in S : Cardinality(Before(x, S, R)) = k - 1]

Ascending(S, less(_, _)) == InOrder(S, Ordering(S, less))

(* What a sequence has at the places in S, in its order: SelectSeq for the *)
(* places of what is selected.                                             *)
Picked(seq, S) ==
  LET order == Ascending(S, <)
  IN  [k \in DOMAIN order |-> seq[order[k]]]

(* The values of f, each as often as f has it, from the smallest up. *)
ValuesInOrder(f) ==
  LET before(i, j) == f[i] < f[j] \/ (f[i] = f[j] /\ i < j)
      order == Ascending(DOMAIN f, before)
  IN  [k \in DOMAIN order |-> f[order[k]]]
=============================================================================
