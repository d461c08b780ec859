--------------------------- MODULE MCInstanceSaves --------------------------
(* InstanceSaves for TLC: the players are interchangeable. *)
EXTENDS InstanceSaves, TLC

CONSTANTS p1, p2

Symmetry == Permutations(Players)
=============================================================================
