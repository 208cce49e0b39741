----------------------------- MODULE HostSources -----------------------------
(***************************************************************************)
(* The hosts an operation may name, put together from their sources each   *)
(* time an operation asks for them (host_config.rs): the JSON in the       *)
(* environment, else the first file that names any; then ~/.ssh/config for *)
(* the names these leave free; then `local`.  A host is a record with its  *)
(* name, the source it comes from and its protocol; a file one with its    *)
(* path and what it says.                                                  *)
(***************************************************************************)
EXTENDS SequencesExt, Lists

Malformed == <<[name |-> "", from |-> "malformed", protocol |-> ""]>>
Absent    == <<[name |-> "", from |-> "absent", protocol |-> ""]>>
LoadError == <<[name |-> "", from |-> "error", protocol |-> ""]>>

LocalHost == [name |-> "local", from |-> "builtin", protocol |-> "local"]

Names(hosts) == {hosts[i].name : i \in DOMAIN hosts}

\* Unset and blank count as no hosts; malformed JSON is an error.
LoadFromEnvJson(json) == IF json = Absent THEN <<>> ELSE json

\* Hosts, or malformed: a source that says something of hosts.
NamesAny(text) == text \notin {Absent, <<>>}

\* Faulty variant of LoadFromFiles: of two files the later counts.
LastFileCounts(files) ==
    LET last == SelectLastInSeq(files, LAMBDA f : NamesAny(f.text))
    IN  IF last = 0 THEN <<>> ELSE files[last].text

\* The first file that names any host; one that is malformed is an error only if
\* the files before it name none.
LoadFromFiles(files) ==
    LET first == SelectInSeq(files, LAMBDA f : NamesAny(f.text))
    IN  IF first = 0 THEN <<>> ELSE files[first].text

\* SYNAPSE_CONFIG_FILE stands alone, however little is in it.
DefaultConfigPaths(override, defaults) == IF override # <<>> THEN override ELSE defaults

\* Pattern, negated and skipped entries are left out by what the constant lists;
\* of a name the first entry counts.
LoadSshConfigFile(hosts) ==
    MembersAt(hosts, {i \in DOMAIN hosts : \A j \in 1..(i - 1) : hosts[j].name # hosts[i].name})

\* Missing or malformed: no hosts, and the server goes on.
LoadFromSshConfig(ssh) == IF ssh \in {Absent, Malformed} THEN <<>> ELSE LoadSshConfigFile(ssh)

RejectUnsupportedProtocol(hosts) ==
    \E i \in DOMAIN hosts : hosts[i].protocol \in {"http", "https"}

\* The hosts whose names are not among those of the others.
Additional(hosts, others) ==
    MembersAt(hosts, {i \in DOMAIN hosts : hosts[i].name \notin Names(others)})

MergeHosts(explicit, ssh) == explicit \o Additional(ssh, explicit)

EnsureLocal(hosts) == IF "local" \in Names(hosts) THEN hosts ELSE Append(hosts, LocalHost)

LoadHosts(json, files, ssh) ==
    LET inEnv    == LoadFromEnvJson(json)
        explicit == IF inEnv = <<>> THEN LoadFromFiles(files) ELSE inEnv
    IN  IF explicit = Malformed \/ RejectUnsupportedProtocol(explicit) THEN LoadError
        ELSE EnsureLocal(MergeHosts(explicit, LoadFromSshConfig(ssh)))

\* The host of a name is the first that has it.
ResolveHost(hosts, name) == hosts[SelectInSeq(hosts, LAMBDA h : h.name = name)]
=============================================================================
