------------------------------ MODULE MCArrays ------------------------------
(* Instances of the arrays for TLC.                                        *)
EXTENDS Arrays

MCPlaces == -1 .. 3
MCSymmetry == Permutations(Value)

(* The last call decides nothing of what follows.                          *)
MCView == <<arrays, iterators, intact, changes>>
=============================================================================
