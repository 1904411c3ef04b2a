-------------------------------- MODULE Lists --------------------------------
(***************************************************************************)
(* Filtering and sorting as the iterators and sorts of Rust do them.  Both *)
(* are told apart by sets, the indexes that pass and the elements that     *)
(* come before each one, so that the provers can follow them.              *)
(***************************************************************************)
EXTENDS Naturals, Sequences, FiniteSets

(* The elements of a set, each with as many before it as below says.       *)
Ranked(set, below) ==
    [i \in 1 .. Cardinality(set) |-> CHOOSE x \in set: Cardinality(below[x]) = i - 1]

(* sort_by of elements of which no two are equal.                          *)
Sorted(set, Before(_, _)) == Ranked(set, [x \in set |-> {y \in set: Before(y, x)}])

(* The elements at some indexes, in their order.                           *)
Picked(seq, ixs) ==
    LET order == Ranked(ixs, [i \in ixs |-> {j \in ixs: j < i}])
    IN [k \in DOMAIN order |-> seq[order[k]]]

(* filter: the elements that pass, in their order.                         *)
Where(seq, Test(_)) == Picked(seq, {i \in DOMAIN seq: Test(seq[i])})
=============================================================================
