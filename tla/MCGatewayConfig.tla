--------------------------- MODULE MCGatewayConfig ---------------------------
(* Instances of GatewayConfig for TLC. *)
EXTENDS GatewayConfig

\* Operations on tables that refer to each other are used together.
MCLoads == {{"route", "upstream", "deleteUpstream"}, {"deleteUpstream", "target"},
            {"switch", "policy"}, {"key"}, {"jwt", "switch"},
            {"new", "route", "upstream"}, {"new", "policy"}}

=============================================================================
