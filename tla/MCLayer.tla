------------------------------ MODULE MCLayer ------------------------------
(* The layer with small sets of handles; threads, handles and surfaces are  *)
(* alike: the surfaces are of one Metal layer.                              *)
EXTENDS Layer, TLC

CONSTANTS t1, t2, d1, h1, h2, h3, s1, s2, layer

OneLayer == [s \in Surfaces |-> layer]
Alike == Permutations(Threads) \cup Permutations(Handles) \cup Permutations(Surfaces)
=============================================================================
