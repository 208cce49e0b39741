------------------------------ MODULE MCStartup ------------------------------
(* Instances of Startup for TLC: a host with a hyphen in its name. *)
EXTENDS Startup, TLC

CONSTANTS p1, p2, web

MCParts == {web} \cup Pids

MCHostNames == {<<web, 1>>}

\* Of the settings that decide nothing (on a loopback address, under an invalid
\* URL), one choice.
MCConfigs ==
    {c \in AllConfigs :
        /\ c.loopback \/ ~c.urlValid => ~c.noAuth /\ ~c.token /\ ~c.oauth
        /\ ~c.urlValid => ~c.trustedGateway /\ ~c.allowDestructive}

Symmetry == Permutations({p1, p2})
=============================================================================
