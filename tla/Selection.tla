----------------------------- MODULE Selection -------------------------------
(***************************************************************************)
(* Elements taken from a collection in their order: what the code writes as  *)
(* a loop that appends to a list, or as a list comprehension.  They are       *)
(* defined by their positions, not with SelectSeq or SortSeq, so that one can *)
(* reason about them.                                                        *)
(***************************************************************************)
EXTENDS Integers, Sequences, FiniteSets

(* The numbers of a finite set, from the smallest to the greatest.             *)
InOrder(S) ==
  [i \in 1 .. Cardinality(S) |-> CHOOSE k \in S : Cardinality({j \in S : j < k}) = i - 1]

(* The elements of a sequence that are in a set, in their order.               *)
Those(q, T) ==
  LET places == InOrder({i \in DOMAIN q : q[i] \in T})
  IN [k \in DOMAIN places |-> q[places[k]]]

(* The elements of a sequence, but for the first of each that is in a set.      *)
WithoutFirst(q, T) ==
  LET places == InOrder({i \in DOMAIN q : q[i] \in T => \E k \in 1 .. i - 1 : q[k] = q[i]})
  IN [k \in DOMAIN places |-> q[places[k]]]

(* How often an element is in a sequence.                                      *)
Occurrences(e, q) == Cardinality({i \in DOMAIN q : q[i] = e})
=============================================================================
