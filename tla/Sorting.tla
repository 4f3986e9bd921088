------------------------------- MODULE Sorting -------------------------------
(* A stable sort, as the order in which it takes the elements of a list: the    *)
(* place of an element is the number of those that come before it.              *)
EXTENDS Naturals, FiniteSets

\* before is what the comparator says, a set of pairs of places in the list; elements
\* it does not tell apart stay in the order they had.
Earlier(before, i, j) == <<i, j>> \in before \/ (<<j, i>> \notin before /\ i < j)

InOrder(n, before) ==
  [place \in 1..n |->
     CHOOSE i \in 1..n : Cardinality({j \in 1..n : Earlier(before, j, i)}) = place - 1]
===============================================================================
