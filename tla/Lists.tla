-------------------------------- MODULE Lists --------------------------------
(***************************************************************************)
(* Sorted and filtered lists, in a form that can be reasoned about: the    *)
(* place of an element is the number of elements before it.                *)
(* (The community modules' SelectSeq and SortSeq are opaque to the proof   *)
(* system.)  An order is a set of pairs.                                   *)
(***************************************************************************)
EXTENDS Integers, Sequences, FiniteSets, Functions, Folds

\* How many elements of S come before x.
Rank(S, R, x) == Cardinality({y \in S : <<y, x>> \in R})

\* The elements of S in the order R, which is strict and total on S.
Listing(S, R) == [k \in 1..Cardinality(S) |-> CHOOSE x \in S : Rank(S, R, x) = k - 1]

Ascending(S) == {p \in S \X S : p[1] < p[2]}

\* The elements of a list at the places in S, in their order.
Picked(list, S) ==
  LET at == Listing(S, Ascending(S)) IN [k \in 1..Cardinality(S) |-> list[at[k]]]
=============================================================================
