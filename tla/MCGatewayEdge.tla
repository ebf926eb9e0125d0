----------------------------- MODULE MCGatewayEdge -----------------------------
(***************************************************************************)
(* Small instances of GatewayEdge for TLC.                                 *)
(***************************************************************************)
EXTENDS GatewayEdge, TLC

Symmetry == Permutations(Replicas)
================================================================================
