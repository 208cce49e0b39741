------------------------------- MODULE Config --------------------------------
(***************************************************************************)
(* How a setting gets its value (config.rs, config/env.rs).  main seeds    *)
(* the environment from the `.env` files, before the runtime starts; then  *)
(* Config::load takes defaults, the first config.toml, the `.env` files    *)
(* once more, and the environment.  Which directories are searched depends *)
(* on SYNAPSE_HOME, which the seeding itself may set.  Later, operations   *)
(* put the hosts together (HostSources).                                   *)
(*                                                                         *)
(* Settings do not depend on each other, so there is one here; its value   *)
(* is the source it came from: the kind of source, and of a file its       *)
(* directory.  Kinds of settings differ in what an empty value means, and  *)
(* in whether Config::load looks for them in the `.env` files.             *)
(***************************************************************************)
EXTENDS HostSources, Naturals

CONSTANT Cases   \* the pairs of an input and host sources considered

Dirs == {"cwd", "data", "home"}
Kinds == {"text", "bool", "limit"}   \* limit: SYNAPSE_MCP_MAX_CONCURRENCY
Presence == {"absent", "empty", "set"}

\* An input: the kind of the setting, where SYNAPSE_HOME is set, and what each
\* source says of the setting; of a config.toml also whether it exists.
AllInputs ==
    [kind : Kinds, homeSetIn : {"nowhere", "env", "cwd", "data"},
     env : Presence, dotenv : [Dirs -> Presence],
     toml : [Dirs -> {"missing", "absent", "set"}]]

\* Host sources: what SYNAPSE_HOSTS_CONFIG says, the file SYNAPSE_CONFIG_FILE
\* leads to, if that is set, the files looked for otherwise, and ~/.ssh/config.
\* `from` is history: it says where a host was read.
DefaultFiles == {"./synapse.config.json", "$XDG_CONFIG_HOME/synapse-mcp/config.json",
                 "~/.config/synapse-mcp/config.json", "~/.synapse-mcp.json"}
HostsFrom(source) == Seq([name : STRING, from : {source}, protocol : STRING])
TextsOf(source) == {Absent, Malformed} \cup HostsFrom(source)
FilesAt(path) == [path : {path}, text : TextsOf(path)]
WellFormed(from) ==
    /\ from.json \in TextsOf("env")
    /\ from.override \in Seq(FilesAt("override")) /\ Len(from.override) <= 1
    /\ from.defaults \in Seq(ToSet(from.defaults))
    /\ \A i \in DOMAIN from.defaults :
          \E path \in DefaultFiles : from.defaults[i] \in FilesAt(path)
    /\ \A i, j \in DOMAIN from.defaults :
          from.defaults[i].path = from.defaults[j].path => i = j
    /\ from.ssh \in TextsOf("ssh")

ASSUME CasesAssumption == \A c \in Cases : c[1] \in AllInputs /\ WellFormed(c[2])

VARIABLES
    step,      \* how far the start of the process is
    input,
    home,      \* is SYNAPSE_HOME in the environment?
    env,       \* the setting in the environment: Unset, Empty, or its source
    value,     \* the setting in the config: the source it comes from
    sources,   \* the host sources, as the operation finds them
    hosts      \* the hosts it makes of them

configVars == <<step, input, home, env, value, sources, hosts>>

Default     == <<"default">>
Environment == <<"environment">>
Dotenv(d)   == <<"dotenv", d>>
Toml(d)     == <<"toml", d>>
Unset       == <<"unset">>
Empty       == <<"empty">>

ConfigInit ==
    /\ step = "start"
    /\ \E c \in Cases : input = c[1] /\ sources = c[2]
    /\ home = (input.homeSetIn = "env")
    /\ env = CASE input.env = "absent" -> Unset
               [] input.env = "empty" -> Empty
               [] input.env = "set" -> Environment
    /\ value = Default
    /\ hosts = <<>>

ConfigSearchDirs == <<IF home THEN "home" ELSE "data", "cwd">>

\* Faulty variant of DotenvPrecedenceDirs: not reversed.
SearchOrder == ConfigSearchDirs

\* The later of two files counts.
DotenvPrecedenceDirs == Reverse(ConfigSearchDirs)

\* The first of the directories whose config.toml exists, 0 if there is none; the
\* last whose `.env` mentions the setting, or gives it a value.
FirstToml(dirs)     == SelectInSeq(dirs, LAMBDA d : input.toml[d] # "missing")
LastMentioned(dirs) == SelectLastInSeq(dirs, LAMBDA d : input.dotenv[d] # "absent")
LastNonEmpty(dirs)  == SelectLastInSeq(dirs, LAMBDA d : input.dotenv[d] = "set")

\* Variables that are set, to whatever, are left alone.
LoadDotenvEnvironment ==
    LET dirs == DotenvPrecedenceDirs
        last == LastMentioned(dirs)
    IN
    /\ step = "start"
    /\ step' = "seeded"
    /\ env' = IF env # Unset \/ last = 0 THEN env
              ELSE IF input.dotenv[dirs[last]] = "empty" THEN Empty ELSE Dotenv(dirs[last])
    /\ home' = (home \/ input.homeSetIn \in ToSet(dirs))
    /\ UNCHANGED <<input, value, sources, hosts>>

ReadToml ==
    LET dirs == ConfigSearchDirs
        first == FirstToml(dirs)
    IN
    /\ step = "seeded"
    /\ step' = "toml"
    /\ value' = IF first # 0 /\ input.toml[dirs[first]] = "set" THEN Toml(dirs[first]) ELSE value
    /\ UNCHANGED <<input, home, env, sources, hosts>>

\* Empty values say nothing; the limit is not among the keys.
ApplyDotenvFiles ==
    LET dirs == DotenvPrecedenceDirs
        last == LastNonEmpty(dirs)
    IN
    /\ step = "toml"
    /\ step' = "dotenv"
    /\ value' = IF last # 0 /\ input.kind # "limit" THEN Dotenv(dirs[last]) ELSE value
    /\ UNCHANGED <<input, home, env, sources, hosts>>

\* An empty bool is an error, any other empty value says nothing.
ApplyEnv ==
    /\ step = "dotenv"
    /\ IF env = Empty /\ input.kind = "bool" THEN step' = "failed" /\ UNCHANGED value
       ELSE /\ step' = "loaded"
            /\ value' = IF env \in {Unset, Empty} THEN value ELSE env
    /\ UNCHANGED <<input, home, env, sources, hosts>>

\* The files an operation looks into.
ConfigFiles == DefaultConfigPaths(sources.override, sources.defaults)

\* By every operation, anew; so an edit of a source is another case.
OperationLoadsHosts ==
    /\ step = "loaded" /\ hosts = <<>>
    /\ hosts' = LoadHosts(sources.json, ConfigFiles, sources.ssh)
    /\ UNCHANGED <<step, input, home, env, value, sources>>

ConfigNext ==
    \/ LoadDotenvEnvironment \/ ReadToml \/ ApplyDotenvFiles \/ ApplyEnv
    \/ OperationLoadsHosts

ConfigSpec == ConfigInit /\ [][ConfigNext]_configVars

-----------------------------------------------------------------------------
\* The sources that give the setting a value, in the order the documents name
\* them, the highest first: environment, `.env` of SYNAPSE_HOME or the data
\* directory, `.env` of the current directory, the config.toml there is, default.
Gives(source) ==
    LET dirs == ConfigSearchDirs IN
    \/ source = Environment /\ input.env = "set"
    \/ source[1] = "dotenv" /\ input.dotenv[source[2]] = "set"
    \/ /\ source[1] = "toml" /\ input.toml[source[2]] = "set"
       /\ dirs[FirstToml(dirs)] = source[2]
    \/ source = Default
Ranking ==
    LET dirs == ConfigSearchDirs
    IN  <<Environment, Dotenv(dirs[1]), Dotenv(dirs[2]), Toml(dirs[1]), Toml(dirs[2]), Default>>

\* A setting comes from the highest source that gives it a value, whatever the
\* two readings of the `.env` files make of it.  An empty value hides nothing,
\* but for the limit, which the second reading passes over.
HighestWins ==
    step = "loaded" =>
        \/ value = Ranking[SelectInSeq(Ranking, Gives)]
        \/ input.kind = "limit" /\ env = Empty

\* The explicit sources, given with the highest first: the first of them that says
\* anything of hosts wins entirely.  Under every name it has an operation finds
\* its host, and no host of another file or variable is there at all; and the
\* operation fails only on what is wrong with that source.
FirstWins(explicit) ==
    LET Wins(k) == /\ NamesAny(explicit[k].text)
                   /\ \A j \in 1..(k - 1) : ~NamesAny(explicit[j].text)
        Faulty(text) == text = Malformed \/ RejectUnsupportedProtocol(text)
    IN  /\ hosts = LoadError <=> \E k \in DOMAIN explicit : Wins(k) /\ Faulty(explicit[k].text)
        /\ hosts # LoadError => \A k \in DOMAIN explicit :
              IF Wins(k)
              THEN \A n \in Names(explicit[k].text) :
                      ResolveHost(hosts, n) = ResolveHost(explicit[k].text, n)
              ELSE \A i \in DOMAIN hosts : hosts[i].from # explicit[k].path

InEnvironment == <<[path |-> "env", text |-> sources.json]>>

\* The first explicit source that names any host wins entirely, where a file
\* named by SYNAPSE_CONFIG_FILE takes the place of all the others.  A host that
\* is discovered, or built in, only gets a name that is free, once; and `local`
\* is always there.
ExplicitHostsWin ==
    hosts # <<>> =>
        /\ FirstWins(InEnvironment \o ConfigFiles)
        /\ hosts # LoadError =>
              /\ "local" \in Names(hosts)
              /\ \A i, j \in DOMAIN hosts :
                    hosts[i].from \in {"ssh", "builtin"} /\ hosts[j].name = hosts[i].name => i = j
=============================================================================
