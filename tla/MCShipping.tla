----------------------------- MODULE MCShipping -----------------------------
(* Instances of Shipping for TLC: the lines of the order ask for one or two.*)
EXTENDS Shipping, TLC

OneEach == [l \in Lines |-> 1]
TwoEach == [l \in Lines |-> 2]
Symmetry == Permutations(Lines) \cup Permutations(Series)

=============================================================================
