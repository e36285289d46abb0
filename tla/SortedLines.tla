---------------------------- MODULE SortedLines ----------------------------
(* The numbers of the lines of a message in ascending order: the order in      *)
(* which the runtimes write them.                                           *)
EXTENDS Integers, Sequences, FiniteSets

Sorted(lines) ==
  CHOOSE s \in [1..Cardinality(lines) -> lines] : \A i, j \in DOMAIN s : i < j => s[i] < s[j]
=============================================================================
