-------------------------- MODULE MCGatewayService --------------------------
(* Constants for the model-checking runs of GatewayService. *)
EXTENDS GatewayService, TLC

CONSTANTS poll, http, load

=============================================================================
