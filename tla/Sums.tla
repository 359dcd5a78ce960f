---------------------------------- MODULE Sums ----------------------------------
(* Sums of natural numbers in a form that can be reasoned about: what a        *)
(* function's values add up to is the number of their units.                   *)
EXTENDS Integers, FiniteSets

Units(f) == UNION {{x} \X (1..f[x]) : x \in DOMAIN f}

Total(f) == Cardinality(Units(f))
=================================================================================
