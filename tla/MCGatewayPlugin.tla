--------------------------- MODULE MCGatewayPlugin ---------------------------
(* The gateway plugin on a small instance.                                 *)
EXTENDS GatewayPlugin, TLC

CONSTANTS k1, k2, ch1, ch2, c1, c2, p, q, e1, h
Symmetry == Permutations(Tasks) \cup Permutations(Children)
TreeSymmetry == Symmetry \cup Permutations(Projects)
=============================================================================
