------------------------------- MODULE Orders -------------------------------
(***************************************************************************)
(* Sets put in order, as a sequence: SetToSortSeq of the community modules *)
(* by the rank of the elements, which says of each place who has it and so *)
(* can be reasoned about.                                                  *)
(***************************************************************************)
EXTENDS Integers, FiniteSets

Ordered(S, Before(_, _)) ==
  [k \in 1 .. Cardinality(S) |->
     CHOOSE x \in S : Cardinality({y \in S : Before(y, x)}) = k - 1]

\* The elements of a sequence at some places, in its order: a filter.
Pick(s, places) ==
  LET at == Ordered(places, <) IN [k \in DOMAIN at |-> s[at[k]]]
=============================================================================
