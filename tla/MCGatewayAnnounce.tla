--------------------------- MODULE MCGatewayAnnounce ---------------------------
(* Small instances of GatewayAnnounce for TLC. *)
EXTENDS GatewayAnnounce

CONSTANTS w1, c1

AnyOffset == -MaxSkew .. MaxSkew
================================================================================
