---------------------------- MODULE ContainerOps -----------------------------
(***************************************************************************)
(* The container operations: what each does on one host                    *)
(* (container_read.rs, container_lifecycle.rs) and over the hosts          *)
(* (container_driver.rs).                                                  *)
(***************************************************************************)
EXTENDS OpSteps

(* On one host: reading *)
ListOnHost       == Get("list_containers")
InspectOnHost    == Get("inspect_container")
TopOnHost        == Get("top_processes")
StatsOnHost      == Get("stats")        \* an empty stream is an error, too
CollectLogLines  == Get("logs")         \* the first error of the stream counts
BuildLogsOptions == Validate("time specification")

\* Every container of the host, one after the other; its failures are left out.
StatsOfAll == ListOnHost \o Attempt(StatsOnHost)

(* On one host: changing *)
LifecycleVerb(subaction) == IF subaction = "resume" THEN "unpause" ELSE subaction
LifecycleActionOnHost(subaction) == Do(LifecycleVerb(subaction))
PullImageOnHost == Do("pull_image")

\* Faulty variant of RecreateOnHost: the old container goes before the image is there.
RecreatePullsLate(pull) ==
    InspectOnHost \o Attempt(Do("stop")) \o Do("remove")
      \o (IF pull THEN PullImageOnHost ELSE <<>>) \o Do("create_container") \o Do("start")

\* Faulty variant of RecreateOnHost: an error of the last steps is dropped, too.
RecreateForgives(pull) ==
    InspectOnHost
      \o (IF pull THEN PullImageOnHost ELSE <<>>)
      \o Attempt(Do("stop")) \o Do("remove")
      \o Attempt(Do("create_container") \o Do("start"))

\* inspect, pull, stop, remove, create, start; an error of stop is dropped.
RecreateOnHost(pull) ==
    InspectOnHost
      \o (IF pull THEN PullImageOnHost ELSE <<>>)
      \o Attempt(Do("stop"))
      \o Do("remove")
      \o Do("create_container")
      \o Do("start")

\* One timeout spans the three steps: a reply of any may be lost.  What is created
\* first does nothing until it is started.
ExecInner == Get("create_exec") \o Do("start_exec") \o Get("inspect_exec")
ExecOnHost == ExecInner

(* Over the hosts *)

\* The named host, its error verbatim; or host after host until one succeeds.
FindHostOp(body) == TargetHosts \o First(Client \o body)

\* target_docker_hosts: of hosts with the same daemon only the first is kept.
DockerHosts == TargetHosts \o Discover

ContainerList   == DockerHosts \o EachEvicting(Client \o ListOnHost)
ContainerSearch == DockerHosts \o EachEvicting(Client \o ListOnHost)

ContainerStatsOne == FindHostOp(StatsOnHost)
ContainerStatsAll == DockerHosts \o EachEvicting(Client \o StatsOfAll)
ContainerInspect  == FindHostOp(InspectOnHost)
ContainerTop      == FindHostOp(TopOnHost)
ContainerLogs     == BuildLogsOptions \o FindHostOp(CollectLogLines)

\* Only stop is gated, before any host is chosen: the text names none.
ContainerLifecycle(subaction) ==
    (IF subaction = "stop" THEN Confirm(FALSE) ELSE <<>>)
      \o FindHostOp(LifecycleActionOnHost(subaction))

ContainerPull == FindHostOp(InspectOnHost) \o One(Client \o PullImageOnHost)

\* Faulty variant of ContainerRecreate: the host is looked for again after the
\* question.
RecreateSearchesAgain(pull) ==
    TargetHosts \o Probe(Client \o InspectOnHost)
      \o Confirm(TRUE) \o FindHostOp(RecreateOnHost(pull))

\* The host is found first; the gate names it.
ContainerRecreate(pull) ==
    TargetHosts \o Probe(Client \o InspectOnHost)
      \o Confirm(TRUE) \o One(Client \o RecreateOnHost(pull))

ContainerExec == Confirm(FALSE) \o FindHostOp(ExecOnHost)
=============================================================================
