-------------------------- MODULE MCGatewayManager --------------------------
(* Model-checking instances of GatewayManager. *)
EXTENDS GatewayManager, TLC

CONSTANTS g1, g2, g3, w1, t1

GatewaySymmetry == Permutations({g1, g2, g3})
=============================================================================
