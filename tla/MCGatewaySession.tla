---------------------------- MODULE MCGatewaySession ----------------------------
(* The gateway's edge on small instances. *)
EXTENDS GatewaySession, TLC

Symmetry == Permutations(Callbacks) \cup Permutations(Sids) \cup Permutations(Persons)

================================================================================
