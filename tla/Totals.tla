------------------------------- MODULE Totals -------------------------------
(***************************************************************************)
(* Tables keyed by a primary key, and totals over their columns.           *)
(*                                                                         *)
(* A table is a function from the keys it holds.  A total is the number of *)
(* coins in a column: the coin is indivisible (README.md), so a column     *)
(* that holds f[k] in row k stands for the coins <<k, 1>> .. <<k, f[k]>>   *)
(* and its sum is a cardinality, with no recursion over the rows.          *)
(***************************************************************************)
EXTENDS Integers, FiniteSets

EmptyTable == [k \in {} |-> 0]

\* INSERT of row v at key k.
Put(f, k, v) == [x \in DOMAIN f \cup {k} |-> IF x = k THEN v ELSE f[x]]

\* f is a table whose keys are in K and whose rows are in V.
IsTable(f, K, V) == f \in [DOMAIN f -> V] /\ DOMAIN f \subseteq K

Coins(f) == UNION {{k} \X (1..f[k]) : k \in DOMAIN f}

Total(f) == Cardinality(Coins(f))
=============================================================================
