------------------------------- MODULE Ordering -------------------------------
(***************************************************************************)
(* Sorted and filtered lists, as sorted() and the comprehensions of the    *)
(* code make them, by the place each element takes.  (The SortSeq and      *)
(* SelectSeq of the standard library have no definition a proof can        *)
(* expand.)                                                                *)
(***************************************************************************)
EXTENDS Integers, FiniteSets, SequencesExt

\* The elements of a finite set in a total order: an element comes after as
\* many as are before it.
InOrder(set, Before(_, _)) ==
  [k \in 1..Cardinality(set) |-> CHOOSE x \in set : Cardinality({y \in set : Before(y, x)}) = k - 1]

\* The elements of a list that pass a test, in their order.
Filtered(list, Test(_)) ==
  LET kept == InOrder({k \in DOMAIN list : Test(list[k])}, <)
  IN  [k \in DOMAIN kept |-> list[kept[k]]]

\* A list, as opposed to any other function.
IsList(list) == list \in Seq(ToSet(list))

=============================================================================
