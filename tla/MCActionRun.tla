----------------------------- MODULE MCActionRun -----------------------------
(* Instances of ActionRun for TLC: two hosts, aliases of one daemon or not.   *)
EXTENDS ActionRun

CONSTANTS h1, h2, d1, d2, r1, r2

MCHostList == <<h1, h2>>

Aliases == [h \in {h1, h2} |-> d1]
Apart == [h \in {h1, h2} |-> IF h = h1 THEN d1 ELSE d2]
MCDaemonMaps == {Aliases, Apart}

\* The container runs everywhere, or on d2 only.
MCWorlds ==
    {[d \in {d1, d2} |-> "running"],
     [d \in {d1, d2} |-> IF d = d1 THEN "absent" ELSE "running"]}

Caller(surface, mounted, scopes, allow) ==
    [surface |-> surface, mounted |-> mounted, scopes |-> scopes, allowDestructive |-> allow]

\* A reader and a writer by either surface, the override, stdio, and the command
\* line.
MCCallers ==
    {Caller(s, TRUE, sc, FALSE) : s \in {"rest", "mcp"}, sc \in {{READ_SCOPE}, {WRITE_SCOPE}}}
      \cup {Caller("rest", FALSE, {}, TRUE), Caller("mcp", FALSE, {}, FALSE),
           Caller("cli", FALSE, {}, FALSE)}

\* One request, everything its surface offers.
AnyOperation == [r \in {r1} |-> Operations \cup ReadResource \cup CliCommands]

\* Two requests about the same container, of users of MCP: one recreates it, the
\* other stops it, prunes, or recreates it, too.
RecreateNoPull == Op("container", "recreate", WithId(ContainerRecreate(FALSE)))
Prunes ==
    {o \in DispatchFluxDocker :
        \E b \in Bodies(o.prog) : \E i \in DOMAIN b : b[i].call = "prune_containers"}
Disturbs == {o \in DispatchFluxContainer : o.sub = "stop"} \cup Prunes \cup {RecreateNoPull}
Disturbed == [r \in {r1, r2} |-> IF r = r1 THEN {RecreateNoPull} ELSE Disturbs]
PairCallers == {Caller("mcp", TRUE, {WRITE_SCOPE}, FALSE)}
OneHost == <<h1>>
OnOneHost == {[h \in {h1} |-> d1]}
OneWorld == {[d \in {d1} |-> "running"]}
=============================================================================
