------------------------------ MODULE MCConfig -------------------------------
(* Instances of Config for TLC. *)
EXTENDS Config

\* One way of the host sources, every setting; and one setting, every way of the
\* host sources.
Plain == [kind |-> "text", homeSetIn |-> "nowhere", env |-> "absent",
          dotenv |-> [d \in Dirs |-> "absent"], toml |-> [d \in Dirs |-> "absent"]]
EveryInput == {i \in AllInputs : i.homeSetIn \in {"nowhere", "env"}}
HomeInDotenv ==
    {i \in AllInputs : i.kind = "text" /\ i.homeSetIn = "cwd"
                        /\ i.toml = Plain.toml /\ i.dotenv["data"] = "absent"}

Host(name, from, protocol) == [name |-> name, from |-> from, protocol |-> protocol]
Texts(from) ==
    {Absent, Malformed, <<>>, <<Host("a", from, "ssh")>>,
     <<Host("b", from, "ssh"), Host("local", from, "local")>>}
Files(path) == {[path |-> path, text |-> t] : t \in Texts(path) \cup {<<Host("a", path, "http")>>}}
Defaults == {<<f, g>> : f \in Files("./synapse.config.json"), g \in Files("~/.synapse-mcp.json")}
EveryHostInput ==
    [json : Texts("env"), override : {<<>>}, defaults : Defaults,
     ssh : {Absent, Malformed,
            <<Host("a", "ssh", "ssh"), Host("b", "ssh", "ssh"), Host("a", "ssh", "ssh")>>,
            <<Host("local", "ssh", "ssh")>>}]
NoHosts == [json |-> Absent, override |-> <<>>, defaults |-> <<>>, ssh |-> Absent]

\* SYNAPSE_CONFIG_FILE is set.
OverrideInput ==
    [json : {Absent, <<Host("a", "env", "ssh")>>}, override : {<<f>> : f \in Files("override")},
     defaults : {<<f>> : f \in Files("./synapse.config.json")},
     ssh : {<<Host("a", "ssh", "ssh")>>}]

MCCases == (EveryInput \X {NoHosts}) \cup ({Plain} \X (EveryHostInput \cup OverrideInput))
HomeInDotenvCases == HomeInDotenv \X {NoHosts}
=============================================================================
