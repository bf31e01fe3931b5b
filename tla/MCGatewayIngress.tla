-------------------------- MODULE MCGatewayIngress --------------------------
(* GatewayIngress on small instances.  Workers and host ports are never compared   *)
(* or chosen from with CHOOSE, so permuting them is sound.                         *)
EXTENDS GatewayIngress, TLC

Symmetry == Permutations(Workers) \cup Permutations(Ports)

============================================================================
