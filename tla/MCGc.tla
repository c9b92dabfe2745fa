-------------------------------- MODULE MCGc --------------------------------
(* Instances of the collector for TLC.                                     *)
EXTENDS Gc, TLC

CONSTANTS a, b, c, p

ThreeObjects == {a, b, c}
OnePermanent == {p}
NoObject == {}

Symmetry == Permutations(MainObj)
=============================================================================
