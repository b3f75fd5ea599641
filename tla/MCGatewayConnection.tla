------------------------ MODULE MCGatewayConnection ------------------------
(* Model-checking instance of GatewayConnection. Sizes are in abstract     *)
(* units: the response header and a message take two units each, so a     *)
(* one-unit chunk splits a frame and a three-unit chunk straddles two.     *)
EXTENDS GatewayConnection

=============================================================================
