------------------------------ MODULE MCFanout -------------------------------
(* Model-checking instance of Fanout: the hosts are given by name, one twice. *)
EXTENDS Fanout

CONSTANTS h1, h2, h3

FourHosts == <<h1, h2, h1, h3>>
=============================================================================
