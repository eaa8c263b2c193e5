--------------------------- MODULE MCGatewayRequest ---------------------------
(* GatewayRequest for TLC. *)
EXTENDS GatewayRequest, TLC

MCSymmetry ==
  Permutations(Requests) \union Permutations(Processes) \union Permutations(Purgers)
=============================================================================
