------------------------------ MODULE ScoutOps -------------------------------
(***************************************************************************)
(* The operations of the scout service (scout_service.rs and the modules   *)
(* under scout_service/).  Each runs fixed commands on the named host,     *)
(* here or over SSH; a read of a local file stands among them as a         *)
(* command, since it can fail like one.  A command that exits with an      *)
(* error is mostly an answer; where the code makes it an error (stat, scp) *)
(* it is one of the failures a step may have.                              *)
(***************************************************************************)
EXTENDS HostOps

(* Files: fs.rs *)

\* A directory is listed (here or with ls), the head of a file is read.
PeekLocal  == Run("read")
PeekRemote == Run("stat") \o Run("ls or head")
PeekTree   == Run("find")
FindFiles  == Run("find")

\* stat first: a symbolic link, or no answer of stat, is an error.
ReadFile(local) == IF local THEN Run("read") ELSE Run("stat") \o Run("cat")

ScoutPeek(tree, local) ==
    ResolveHost \o Validate("path")
      \o One(IF tree THEN PeekTree ELSE IF local THEN PeekLocal ELSE PeekRemote)
ScoutFind == ResolveHost \o Validate("path, pattern") \o One(FindFiles)

\* The hosts are resolved, the paths and the size of inline content checked,
\* then the source is read, then the target.
DeltaOfHosts(local) ==
    ResolveHost \o OtherHost \o Validate("paths")
      \o One(ReadFile(local)) \o OneOther(ReadFile(FALSE))
DeltaInline(local) == ResolveHost \o Validate("path, size") \o One(ReadFile(local))

(* Processes and disks: proc.rs, zfs.rs *)
ScoutPs == ResolveHost \o Validate("sort") \o One(Run("ps"))
ScoutDf == ResolveHost \o Validate("path") \o One(Run("df"))
ZfsPools     == ResolveHost \o One(Run("zpool list"))
ZfsDatasets  == ResolveHost \o One(Run("zfs list"))
ZfsSnapshots == ResolveHost \o One(Run("zfs list -t snapshot"))

(* Logs: logs.rs *)

\* The fallback is for a file that is not there; another error is final.
RunTailWithFallback(primary, fallback) ==
    OrElse(Run(primary), Run(fallback), {Fail})

LogsSyslog ==
    ResolveHost \o One(RunTailWithFallback("tail syslog", "tail messages"))
LogsAuth ==
    ResolveHost \o One(RunTailWithFallback("tail auth.log", "tail secure"))
LogsJournal ==
    ResolveHost \o Validate("unit, priority, time filters") \o One(Run("journalctl"))

\* A missing permission is an answer.
LogsDmesg == ResolveHost \o One(Run("dmesg"))

(* Commands: exec.rs *)

\* Faulty variant of ScoutExec: the command runs before the question.
ExecRunsFirst ==
    ResolveHost \o Validate("path, command") \o One(Change("exec")) \o Confirm(TRUE)

ScoutExec ==
    ResolveHost \o Validate("path, command") \o Confirm(TRUE) \o One(Change("exec"))

\* One question for all targets; on each the command is checked again against
\* the host's allowlist, and no failure of a host fails the operation.
ScoutEmit ==
    SeveralHosts \o Validate("targets, command") \o Confirm(TRUE)
      \o Each(Run("validate_command") \o Change("exec"))

\* scp, a command here, writes on the destination.
ScoutBeam ==
    ResolveHost \o OtherHost \o Validate("paths") \o Confirm(TRUE)
      \o Validate("ssh user, ssh host") \o OneOther(Change("scp"))

ScoutNodes == <<>>   \* the list of hosts, asked of none
=============================================================================
