------------------------------- MODULE MCNode --------------------------------
(* Node with every kind of claiming, and two node ids from the cloud.        *)
EXTENDS Node, TLC

CONSTANTS n1, n2

TwoNodes    == {n1, n2}
EveryMethod == {"none", "self", "assisted"}

\* Node ids are only compared with each other.
Symmetry == Permutations(TwoNodes)
=============================================================================
