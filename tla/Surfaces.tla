------------------------------- MODULE Surfaces -------------------------------
(***************************************************************************)
(* The surfaces an operation is reached by: REST (api.rs), the tools and   *)
(* the resources of MCP (mcp/tools.rs, mcp/rmcp_server.rs,                 *)
(* mcp/resources.rs) and the command line (cli.rs and cli/), which parses  *)
(* arguments of its own and calls the services itself.                     *)
(***************************************************************************)
EXTENDS Actions

(* REST *)
RestActions ==
    {op \in Operations :
        \/ op.action = "docker"
        \/ op.action = "container" /\ op.sub = "list"
        \/ op.action \in {"nodes", "peek", "exec"}}

(* MCP *)

\* Host after host, a failure of one is an entry of the list; the projects of a
\* host come from the cache or are discovered.
ReadComposeProjectsResource ==
    TargetHosts \o Each(OrElse(Run("cached list"), Discovery, {}))

\* Schemas, help and the list of the hosts ask no host anything.
ReadResource ==
    {Op("resource", "compose/projects", ReadComposeProjectsResource),
     Op("resource", "hosts", <<>>)}

(* The command line *)

\* A flag without its value, a number that is none.
Flags == Validate("flags")
ParseFlux(ops)  == {Op(o.action, o.sub, Flags \o o.prog) : o \in ops}
ParseScout(ops) == {Op(o.action, o.sub, Flags \o o.prog) : o \in ops}

\* Each asks for its host first.
RunDocker ==
    {o \in DispatchFluxDocker : o.sub \in {"info", "df", "images", "networks", "volumes"}}
      \cup {Op("docker", "pull", Require({"host", "image"}) \o DockerPull),
            Op("docker", "build", Require({"host", "context", "tag"}) \o BuildArgs \o DockerBuild),
            Op("docker", "rmi", Require({"host", "image", "force"}) \o DockerRmi)}
      \cup {Op("docker", "prune", Require({"host", "prune_target"}) \o Validate("prune_target")
                                    \o Require({"force"}) \o DockerPrune(t)) :
              t \in PruneTargets}

\* The same operations in the same order of checks.
RunContainer == DispatchFluxContainer
RunHost      == DispatchFluxHost
RunCompose   == DispatchFluxCompose
RunScout     == DispatchScout \cup DispatchScoutZfs \cup DispatchScoutLogs

CliCommands ==
    ParseFlux(RunDocker \cup RunContainer \cup RunHost \cup RunCompose)
      \cup ParseScout(RunScout)

Offered(surface) ==
    CASE surface = "rest" -> RestActions
      [] surface = "mcp"  -> Operations \cup ReadResource
      [] OTHER            -> CliCommands
=============================================================================
