-------------------------------- MODULE Rows --------------------------------
(***************************************************************************)
(* ORDER BY ... LIMIT n, where a row is its position in the order: the     *)
(* first or the last n of a set of numbers.                                *)
(***************************************************************************)
EXTENDS Integers, FiniteSets

Oldest(n, rows) == {i \in rows : Cardinality({j \in rows : j < i}) < n}
Newest(n, rows) == {i \in rows : Cardinality({j \in rows : j > i}) < n}

=============================================================================
