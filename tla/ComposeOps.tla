----------------------------- MODULE ComposeOps ------------------------------
(***************************************************************************)
(* The Compose operations: one command each on the host (compose_ops.rs),  *)
(* and the lookup of the project before it (compose_driver.rs).  Module    *)
(* ComposeDiscovery models the cached list behind the lookup.  A command   *)
(* that exits with an error is reported in the answer, not as an error.    *)
(***************************************************************************)
EXTENDS OpSteps

(* On one host *)
StatusOnHost          == Run("docker compose ps")
UpOnHost              == Change("docker compose up")
DownOnHost            == Change("docker compose down")
RestartOnHost         == Change("docker compose restart")
RecreateProjectOnHost == Change("docker compose up --force-recreate")
LogsOnHost            == Run("docker compose logs")
BuildProjectOnHost    == Change("docker compose build")
PullProjectOnHost     == Change("docker compose pull")

\* remove_volumes without force is refused.
ValidateDownArgs == Validate("remove_volumes needs force")

(* The driver *)

\* On a cache miss: the running projects, a failure of which is survived, the
\* files found, and the names in them.
Discovery ==
    Attempt(Run("docker compose ls")) \o Run("find")
      \o Attempt(Run("cat compose files"))

ComposeList    == ResolveHost \o Cached(Discovery)
ComposeRefresh == <<>>   \* the cache only: ComposeDiscovery

\* The project must be in the list, and have a file.
ResolveComposeProject == Cached(Discovery) \o Validate("project with a file")

OnProject(body) == ResolveHost \o ResolveComposeProject \o One(body)
OnProjectGated(body) == ResolveHost \o ResolveComposeProject \o Confirm(TRUE) \o One(body)

ComposeStatus   == OnProject(StatusOnHost)
ComposeUp       == OnProject(UpOnHost)
ComposeDown     == ValidateDownArgs \o OnProjectGated(DownOnHost)
ComposeRestart  == OnProjectGated(RestartOnHost)
ComposeRecreate == OnProjectGated(RecreateProjectOnHost)
ComposeLogs     == OnProject(LogsOnHost)
ComposeBuild    == OnProject(BuildProjectOnHost)
ComposePull     == OnProject(PullProjectOnHost)
=============================================================================
