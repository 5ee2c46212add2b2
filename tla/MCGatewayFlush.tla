--------------------------- MODULE MCGatewayFlush ---------------------------
(* Instances of GatewayFlush for TLC.                                      *)
EXTENDS GatewayFlush, TLC

Symmetry == Permutations(Conn)
=============================================================================
