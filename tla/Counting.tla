------------------------------ MODULE Counting ------------------------------
(* Sums over a table as the size of a set, which needs no recursion.       *)
EXTENDS Integers, FiniteSets

\* One element for each unit that count adds up to.
Units(count) == UNION {{x} \X (1..count[x]) : x \in DOMAIN count}

Total(count) == Cardinality(Units(count))
=============================================================================
