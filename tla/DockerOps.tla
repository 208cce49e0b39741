------------------------------ MODULE DockerOps ------------------------------
(***************************************************************************)
(* The Docker system, image, network and volume operations: on one host    *)
(* (docker.rs) and over the hosts (docker_driver.rs).                      *)
(***************************************************************************)
EXTENDS ContainerOps

(* On one host *)
InfoOnHost     == Get("info")
DfOnHost       == Get("df")
ImagesOnHost   == Get("list_images")
NetworksOnHost == Get("list_networks")
VolumesOnHost  == Get("list_volumes")
PullOnHost     == Do("pull_image")
RmiOnHost      == Do("remove_image")

PruneTargets == {"containers", "images", "volumes", "networks", "buildcache", "all"}

PruneCall ==
    [containers |-> "prune_containers", images |-> "prune_images", volumes |-> "prune_volumes",
     networks |-> "prune_networks", buildcache |-> "prune_build"]

PruneSingle(target) == Do(PruneCall[target])

\* "all" runs every prune in this order and stops at the first error.
PruneOnHost(target) ==
    IF target # "all" THEN PruneSingle(target)
    ELSE PruneSingle("containers") \o PruneSingle("images") \o PruneSingle("volumes")
           \o PruneSingle("networks") \o PruneSingle("buildcache")

\* The text spells out what is pruned, and not where.
PruneConfirmation == Confirm(FALSE)

\* An absolute context and a dockerfile inside it, free of shell syntax.
ValidateBuildContext == Validate("context")
ValidateDockerfile   == Validate("dockerfile")
BuildArgs == ValidateBuildContext \o Validate("tag") \o ValidateDockerfile

\* `docker build`, as a command on the host.
BuildOnHost == Change("docker build")

(* Over the hosts *)
DockerInfo     == DockerHosts \o EachEvicting(Client \o InfoOnHost)
DockerDf       == DockerHosts \o EachEvicting(Client \o DfOnHost)
DockerImages   == DockerHosts \o EachEvicting(Client \o ImagesOnHost)
DockerNetworks == DockerHosts \o EachEvicting(Client \o NetworksOnHost)
DockerVolumes  == DockerHosts \o EachEvicting(Client \o VolumesOnHost)

DockerPull == ResolveHost \o One(Client \o PullOnHost)

\* The host is resolved first: an unknown host is an error, not a question.
DockerBuild == ResolveHost \o Confirm(TRUE) \o One(BuildOnHost)
DockerRmi   == ResolveHost \o Confirm(TRUE) \o One(Client \o RmiOnHost)
DockerPrune(target) ==
    ResolveHost \o PruneConfirmation \o One(Client \o PruneOnHost(target))
=============================================================================
