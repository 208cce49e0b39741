------------------------- MODULE MCComposeDiscovery --------------------------
(* Model-checking instance of ComposeDiscovery: the constants are in the cfg. *)
EXTENDS ComposeDiscovery
=============================================================================
