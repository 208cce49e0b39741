------------------------------- MODULE Actions -------------------------------
(***************************************************************************)
(* The table of actions: for every action and subaction the program its    *)
(* dispatch runs (actions/flux.rs, actions/scout.rs, actions/dispatch.rs)  *)
(* and the scope it requires (actions.rs).  A field that is required is    *)
(* checked where the program starts; the parser of scout does so before    *)
(* the scope is looked at, which makes no difference here.                 *)
(***************************************************************************)
EXTENDS ScoutOps, ComposeOps

Op(action, sub, prog) == [action |-> action, sub |-> sub, prog |-> prog]

(* Scopes *)
READ_SCOPE == "synapse:read"
WRITE_SCOPE == "synapse:write"
DENY_SCOPE == "synapse2:__deny__"

\* Write includes read.
ScopesSatisfy(scopes, required) ==
    required \in scopes \/ (required = READ_SCOPE /\ WRITE_SCOPE \in scopes)

\* The scope of the action as a whole; help has none.
RequiredScopeForAction(action) ==
    IF action \in {"exec", "emit", "beam"} THEN WRITE_SCOPE ELSE READ_SCOPE

ScopeForFluxDocker(sub) ==
    CASE sub \in {"info", "df", "images", "networks", "volumes"} -> READ_SCOPE
      [] sub \in {"pull", "build", "rmi", "prune"} -> WRITE_SCOPE
      [] OTHER -> DENY_SCOPE

\* Faulty variant of ScopeForFluxContainer: pull counts as a read.
ContainerPullIsRead(sub) ==
    CASE sub \in {"list", "search", "stats", "inspect", "top", "logs", "pull"} -> READ_SCOPE
      [] sub \in {"start", "stop", "restart", "pause", "resume", "recreate", "exec"} ->
            WRITE_SCOPE
      [] OTHER -> DENY_SCOPE

ScopeForFluxContainer(sub) ==
    CASE sub \in {"list", "search", "stats", "inspect", "top", "logs"} -> READ_SCOPE
      [] sub \in {"start", "stop", "restart", "pause", "resume", "pull", "recreate", "exec"} ->
            WRITE_SCOPE
      [] OTHER -> DENY_SCOPE

ScopeForFluxCompose(sub) ==
    CASE sub \in {"list", "refresh", "status", "logs"} -> READ_SCOPE
      [] sub \in {"up", "down", "restart", "recreate", "build", "pull"} -> WRITE_SCOPE
      [] OTHER -> DENY_SCOPE

RequiredScopeForParsedAction(op) ==
    CASE op.action = "docker" -> ScopeForFluxDocker(op.sub)
      [] op.action = "container" -> ScopeForFluxContainer(op.sub)
      [] op.action = "compose" -> ScopeForFluxCompose(op.sub)
      [] OTHER -> RequiredScopeForAction(op.action)

(* What dispatch runs *)

\* build is validated before its host is asked for; rmi and prune need force.
DispatchFluxDocker ==
    {Op("docker", "info", DockerInfo), Op("docker", "df", DockerDf),
     Op("docker", "images", DockerImages), Op("docker", "networks", DockerNetworks),
     Op("docker", "volumes", DockerVolumes),
     Op("docker", "pull", Require({"image", "host"}) \o DockerPull),
     Op("docker", "build", Require({"context", "tag"}) \o BuildArgs
                             \o Require({"host"}) \o DockerBuild),
     Op("docker", "rmi", Require({"image", "force", "host"}) \o DockerRmi)}
      \cup {Op("docker", "prune", Require({"prune_target"}) \o Validate("prune_target")
                                    \o Require({"force", "host"}) \o DockerPrune(t)) :
              t \in PruneTargets}

WithId(prog) == Require({"container_id"}) \o prog

DispatchFluxContainer ==
    {Op("container", "list", ContainerList),
     Op("container", "search", Require({"query"}) \o ContainerSearch),
     Op("container", "stats", ContainerStatsOne), Op("container", "stats", ContainerStatsAll),
     Op("container", "inspect", WithId(ContainerInspect)),
     Op("container", "top", WithId(ContainerTop)),
     Op("container", "logs", WithId(ContainerLogs)),
     Op("container", "pull", WithId(ContainerPull)),
     Op("container", "recreate", WithId(ContainerRecreate(TRUE))),
     Op("container", "recreate", WithId(ContainerRecreate(FALSE))),
     Op("container", "exec", Require({"command"}) \o WithId(ContainerExec))}
      \cup {Op("container", sub, WithId(ContainerLifecycle(sub))) :
              sub \in {"start", "stop", "restart", "pause", "resume"}}

OnHost(prog) == Require({"host"}) \o prog

DispatchFluxHost ==
    {Op("host", "status", HostStatus), Op("host", "info", HostInfo),
     Op("host", "uptime", HostUptime), Op("host", "resources", HostResources),
     Op("host", "services", OnHost(HostServices)), Op("host", "network", HostNetwork),
     Op("host", "mounts", OnHost(HostMounts)), Op("host", "ports", OnHost(HostPorts)),
     Op("host", "doctor", OnHost(HostDoctor))}

OnHostProject(prog) == Require({"host"}) \o Require({"project"}) \o prog

DispatchFluxCompose ==
    {Op("compose", "list", OnHost(ComposeList)), Op("compose", "refresh", OnHost(ComposeRefresh)),
     Op("compose", "status", OnHostProject(ComposeStatus)),
     Op("compose", "up", OnHostProject(ComposeUp)),
     Op("compose", "down", OnHostProject(ComposeDown)),
     Op("compose", "restart", OnHostProject(ComposeRestart)),
     Op("compose", "recreate", OnHostProject(ComposeRecreate)),
     Op("compose", "logs", OnHostProject(ComposeLogs)),
     Op("compose", "build", OnHostProject(ComposeBuild)),
     Op("compose", "pull", OnHostProject(ComposePull))}

DispatchScoutZfs ==
    {Op("zfs", "pools", OnHost(ZfsPools)), Op("zfs", "datasets", OnHost(ZfsDatasets)),
     Op("zfs", "snapshots", OnHost(ZfsSnapshots))}

DispatchScoutLogs ==
    {Op("logs", "syslog", OnHost(LogsSyslog)), Op("logs", "journal", OnHost(LogsJournal)),
     Op("logs", "dmesg", OnHost(LogsDmesg)), Op("logs", "auth", OnHost(LogsAuth))}

\* The other actions of scout have no subaction.
DispatchScout ==
    {Op("nodes", "", ScoutNodes),
     Op("find", "", Require({"host", "path", "pattern"}) \o ScoutFind),
     Op("ps", "", OnHost(ScoutPs)), Op("df", "", OnHost(ScoutDf)),
     Op("exec", "", Require({"host", "command"}) \o ScoutExec),
     Op("emit", "", Require({"targets", "command"}) \o ScoutEmit),
     Op("beam", "", Require({"host", "source_path", "dest_host", "dest_path"}) \o ScoutBeam)}
      \cup {Op("peek", "", Require({"host", "path"}) \o ScoutPeek(tree, local)) :
              tree \in BOOLEAN, local \in BOOLEAN}
      \cup {Op("delta", "", Require({"host", "source_path"}) \o prog) :
              prog \in {DeltaOfHosts(TRUE), DeltaOfHosts(FALSE),
                        DeltaInline(TRUE), DeltaInline(FALSE)}}

Operations ==
    DispatchFluxDocker \cup DispatchFluxContainer \cup DispatchFluxHost
      \cup DispatchFluxCompose \cup DispatchScoutZfs \cup DispatchScoutLogs \cup DispatchScout
=============================================================================
