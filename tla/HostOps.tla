------------------------------- MODULE HostOps -------------------------------
(***************************************************************************)
(* The host operations: commands on one host (host.rs), and the driver     *)
(* over the hosts (host_driver.rs), which does not merge hosts that share  *)
(* a Docker daemon.  None of them changes a host.                          *)
(***************************************************************************)
EXTENDS DockerOps

(* On one host *)
HostInfoOnHost  == Run("uname")
UptimeOnHost    == Run("uptime")
ResourcesOnHost == Run("cat /proc/meminfo") \o Run("cat /proc/loadavg") \o Run("df")
ServicesOnHost  == Run("systemctl list-units")
NetworkOnHost   == OrElse(Run("ip addr"), Run("cat /proc/net/dev"), {})
MountsOnHost    == Run("df mounts")

\* The checks of doctor: one that fails is a line of the report.
DoctorCheckResources == Attempt(ResourcesOnHost)
DoctorCheckNetwork   == Attempt(NetworkOnHost)
DoctorCheckLogs      == Attempt(Run("journalctl -n 1"))
DoctorCheckProcesses == Attempt(Run("ps"))
DoctorCheckServices  == Attempt(ServicesOnHost)
DoctorOnHost ==
    DoctorCheckResources \o DoctorCheckServices \o DoctorCheckNetwork
      \o DoctorCheckLogs \o DoctorCheckProcesses

(* The driver *)
HostStatus ==
    TargetHosts \o Each(Client \o InfoOnHost \o ListOnHost
                          \o Attempt(Run("systemctl --failed")))
HostInfo      == TargetHosts \o Each(HostInfoOnHost)
HostUptime    == TargetHosts \o Each(UptimeOnHost)
HostResources == TargetHosts \o Each(ResourcesOnHost)
HostServices  == ResolveHost \o One(ServicesOnHost)
HostNetwork   == TargetHosts \o Each(NetworkOnHost)
HostMounts    == ResolveHost \o One(MountsOnHost)
HostPorts     == ResolveHost \o One(Client \o ListOnHost)

\* Without a client the checks that need Docker fail, and the others run.
HostDoctor ==
    ResolveHost
      \o One(Attempt(Client \o Attempt(InfoOnHost) \o Attempt(ListOnHost)) \o DoctorOnHost)
=============================================================================
