------------------------------- MODULE Startup -------------------------------
(***************************************************************************)
(* The life of the processes of the program (main.rs): servers over HTTP   *)
(* or stdio and one-shot commands, which start, load their configuration,  *)
(* decide who may call them (server.rs), open forwarded sockets in /tmp    *)
(* under their pid (ssh/forward.rs), and exit or crash, when the sockets   *)
(* stay.  Servers sweep the leftovers of the dead at their start           *)
(* (ssh/known_hosts.rs), one file after the other; pids are used again.    *)
(*                                                                         *)
(* All processes run in one pid namespace and as one user, on one port.    *)
(* How a setting gets its value is in Config, here any value goes.  Within *)
(* a process a socket is opened once; DockerClients has the rest.          *)
(***************************************************************************)
EXTENDS Naturals, SequencesExt

CONSTANTS
    Procs,      \* the places a process may run in
    Pids,
    Parts,      \* what names and pids look like between hyphens
    HostNames,  \* host names, as sequences of their parts
    Configs     \* the configurations considered

Table == INSTANCE Actions

AllConfigs ==
    [loopback : BOOLEAN, allowDestructive : BOOLEAN, noAuth : BOOLEAN,
     trustedGateway : BOOLEAN, token : BOOLEAN, oauth : BOOLEAN, urlValid : BOOLEAN]

NoConfig == "no config"

Nobody == "nobody"
NoFile == "no file"
NoPid == 0

ASSUME ConfigsAssumption == Configs \subseteq AllConfigs
ASSUME NamesAssumption ==
    /\ HostNames \subseteq Seq(Parts)
    /\ Pids \subseteq Parts /\ NoPid \notin Pids
    /\ Nobody \notin Procs /\ NoFile \notin Procs

VARIABLES
    mode,     \* serve, stdio or cli
    at,       \* where a process is: down, sweep, load, bind, up
    pid,      \* its pid
    dir,      \* the entries a sweep has still to look at
    dead,     \* the entry whose pid the sweep found dead and is about to remove
    config,   \* its configuration, once loaded
    policy,   \* its policy, once resolved
    open,     \* the hosts it has a forwarded socket for
    tmp,      \* the socket files: name -> the process that listens there, or Nobody
    elders,   \* history: the processes running when the sweep began
    quiet     \* history: the pids nobody has had since the sweep began

vars == <<mode, at, pid, dir, dead, config, policy, open, tmp, elders, quiet>>

\* synapse2-{host}-{pid}.sock, as its parts between hyphens.
ForwardSocketPath(h, n) == Append(h, n)
Paths == {ForwardSocketPath(h, n) : h \in HostNames, n \in Pids}
Files == {f \in Paths : tmp[f] # NoFile}

\* Faulty variant of ParseSocketPid: split at the first hyphen.
SplitsLeft(f) == IF Len(f) = 2 THEN f[2] ELSE NoPid

\* From the right, since host names contain hyphens.
ParseSocketPid(f) == Last(f)

PidIsAlive(n) == \E p \in Procs : at[p] # "down" /\ pid[p] = n

Init ==
    /\ mode = [p \in Procs |-> "cli"]
    /\ at = [p \in Procs |-> "down"]
    /\ pid = [p \in Procs |-> NoPid]
    /\ dir = [p \in Procs |-> {}]
    /\ dead = [p \in Procs |-> <<>>]
    /\ config = [p \in Procs |-> NoConfig]
    /\ policy = [p \in Procs |-> "none"]
    /\ open = [p \in Procs |-> {}]
    /\ tmp = [f \in Paths |-> NoFile]
    /\ elders = [p \in Procs |-> {}]
    /\ quiet = [p \in Procs |-> {}]

-----------------------------------------------------------------------------
(* Start *)

\* Commands do not sweep.
Run(p) ==
    /\ at[p] = "down"
    /\ \E m \in {"serve", "stdio", "cli"}, n \in Pids :
        /\ ~PidIsAlive(n)
        /\ mode' = [mode EXCEPT ![p] = m]
        /\ pid' = [pid EXCEPT ![p] = n]
        /\ IF m = "cli" THEN at' = [at EXCEPT ![p] = "load"] /\ UNCHANGED <<dir, elders>>
           ELSE /\ at' = [at EXCEPT ![p] = "sweep"]
                /\ dir' = [dir EXCEPT ![p] = Files]
                /\ elders' = [q \in Procs |->
                      IF q = p THEN {e \in Procs : at[e] # "down"} ELSE elders[q] \ {p}]
        /\ quiet' = [q \in Procs |->
              IF q = p
              THEN IF m = "cli" THEN {} ELSE {k \in Pids : k # n /\ ~PidIsAlive(k)}
              ELSE quiet[q] \ {n}]
    /\ UNCHANGED <<dead, config, policy, open, tmp>>

\* Faulty variant of SweepLooks: whether the process lives is not asked.
SweepTakesAll(p) ==
    /\ at[p] = "sweep" /\ dead[p] = <<>> /\ dir[p] # {}
    /\ \E f \in dir[p] :
        /\ dir' = [dir EXCEPT ![p] = @ \ {f}]
        /\ dead' = [dead EXCEPT ![p] = IF ParseSocketPid(f) # NoPid THEN f ELSE @]
    /\ UNCHANGED <<mode, at, pid, config, policy, open, tmp, elders, quiet>>

\* The sweep looks at an entry, in the order of the directory, and then removes
\* it: in between a process may start, under the pid just found dead.
SweepLooks(p) ==
    /\ at[p] = "sweep" /\ dead[p] = <<>> /\ dir[p] # {}
    /\ \E f \in dir[p] :
        /\ dir' = [dir EXCEPT ![p] = @ \ {f}]
        /\ dead' = [dead EXCEPT ![p] =
              IF ParseSocketPid(f) # NoPid /\ ~PidIsAlive(ParseSocketPid(f)) THEN f ELSE @]
    /\ UNCHANGED <<mode, at, pid, config, policy, open, tmp, elders, quiet>>

SweepRemoves(p) ==
    /\ at[p] = "sweep" /\ dead[p] # <<>>
    /\ tmp' = [tmp EXCEPT ![dead[p]] = NoFile]
    /\ dead' = [dead EXCEPT ![p] = <<>>]
    /\ UNCHANGED <<mode, at, pid, dir, config, policy, open, elders, quiet>>

SweepEnds(p) ==
    /\ at[p] = "sweep" /\ dead[p] = <<>> /\ dir[p] = {}
    /\ at' = [at EXCEPT ![p] = "load"]
    /\ UNCHANGED <<mode, pid, dir, dead, config, policy, open, tmp, elders, quiet>>

\* Faulty variant of EnforceDestructivePolicy: only warned about.
OnlyWarns(c) == TRUE

\* The override of the confirmation only where nobody else can reach it.
EnforceDestructivePolicy(c) == c.allowDestructive => c.loopback

\* "refused": the process must not start.
ResolveAuthPolicyKind(c) ==
    CASE ~c.urlValid -> "refused"
      [] c.urlValid /\ c.loopback -> "LoopbackDev"
      [] c.urlValid /\ ~c.loopback /\ c.noAuth ->
            IF c.trustedGateway THEN "TrustedGatewayUnscoped" ELSE "refused"
      [] OTHER ->
            IF c.oauth THEN "MountedOAuth"
            ELSE IF c.token THEN "MountedBearer"
            ELSE IF c.trustedGateway THEN "TrustedGatewayUnscoped" ELSE "refused"

\* What the process is after it, gone with an error or going on.
Leave(p) ==
    /\ at' = [at EXCEPT ![p] = "down"]
    /\ pid' = [pid EXCEPT ![p] = NoPid]
    /\ mode' = [mode EXCEPT ![p] = "cli"]
    /\ dir' = [dir EXCEPT ![p] = {}]
    /\ dead' = [dead EXCEPT ![p] = <<>>]
    /\ config' = [config EXCEPT ![p] = NoConfig]
    /\ policy' = [policy EXCEPT ![p] = "none"]
    /\ open' = [open EXCEPT ![p] = {}]
    /\ quiet' = [quiet EXCEPT ![p] = {}]
    /\ elders' = [q \in Procs |-> IF q = p THEN {} ELSE elders[q] \ {p}]

\* Only serve has a policy to resolve: stdio is a pipe to its parent, a command
\* has no callers.
LoadConfig(p) ==
    /\ at[p] = "load"
    /\ \/ /\ \E c \in Configs :
              LET kind == IF mode[p] = "serve" THEN ResolveAuthPolicyKind(c) ELSE "LoopbackDev"
              IN  /\ mode[p] = "serve" => EnforceDestructivePolicy(c)
                  /\ kind # "refused"
                  /\ config' = [config EXCEPT ![p] = c]
                  /\ policy' = [policy EXCEPT ![p] = kind]
          /\ at' = [at EXCEPT ![p] = IF mode[p] = "serve" THEN "bind" ELSE "up"]
          /\ UNCHANGED <<mode, pid, dir, dead, open, elders, quiet>>
       \/ Leave(p)   \* an error of Config::load, or a refusal
    /\ UNCHANGED tmp

\* The port is taken by another server: an error.
Bind(p) ==
    /\ at[p] = "bind"
    /\ IF \E q \in Procs : mode[q] = "serve" /\ at[q] = "up" THEN Leave(p)
       ELSE /\ at' = [at EXCEPT ![p] = "up"]
            /\ UNCHANGED <<mode, pid, dir, dead, config, policy, open, elders, quiet>>
    /\ UNCHANGED tmp

-----------------------------------------------------------------------------
(* Work and end *)

\* What is at the path, of a predecessor with the same pid, is removed.
OpenForward(p, h) ==
    /\ at[p] = "up" /\ h \notin open[p]
    /\ open' = [open EXCEPT ![p] = @ \cup {h}]
    /\ tmp' = [tmp EXCEPT ![ForwardSocketPath(h, pid[p])] = p]
    /\ UNCHANGED <<mode, at, pid, dir, dead, config, policy, elders, quiet>>

\* Destructors remove the files of an orderly exit.
Exit(p) ==
    /\ at[p] = "up"
    /\ tmp' = [f \in Paths |->
          IF \E h \in open[p] : f = ForwardSocketPath(h, pid[p]) THEN NoFile ELSE tmp[f]]
    /\ Leave(p)

Crash(p) ==
    /\ at[p] # "down"
    /\ tmp' = [f \in Paths |-> IF tmp[f] = p THEN Nobody ELSE tmp[f]]
    /\ Leave(p)

Next ==
    \E p \in Procs :
        \/ Run(p) \/ SweepLooks(p) \/ SweepRemoves(p) \/ SweepEnds(p)
        \/ LoadConfig(p) \/ Bind(p) \/ Exit(p) \/ Crash(p)
        \/ \E h \in HostNames : OpenForward(p, h)

Spec == Init /\ [][Next]_vars

-----------------------------------------------------------------------------
\* A file a running process listens on goes only by a sweep that is older than
\* the process: a process that took a pid between the look and the removal may
\* lose its socket, one that was there when the sweep began does not.
SweepSparesElders ==
    [][ \A q \in Procs : \A h \in open[q] \cap open'[q] :
          LET f == ForwardSocketPath(h, pid[q])
          IN  tmp[f] = q /\ tmp'[f] # q =>
                \E p \in Procs : at[p] = "sweep" /\ dead[p] = f /\ q \notin elders[p] ]_vars

\* Once a server has swept, there is no file left of a process that was dead when
\* it began and whose pid was not used again since.
LeftoversGo ==
    \A p \in Procs :
        at[p] \in {"load", "bind", "up"} /\ mode[p] # "cli" =>
            \A f \in Files : Last(f) \notin quiet[p]

\* Whom a process lets do what: callers by the network, or the parent of a pipe.
CallersOf(p) ==
    LET c == config[p]
    IN  CASE policy[p] \in {"LoopbackDev", "TrustedGatewayUnscoped"} ->
               {[mounted |-> FALSE, scopes |-> {}, allowDestructive |-> c.allowDestructive]}
          [] policy[p] = "MountedBearer" ->
               {[mounted |-> TRUE, scopes |-> {Table!READ_SCOPE},
                 allowDestructive |-> c.allowDestructive]}
          [] OTHER ->
               {[mounted |-> TRUE, scopes |-> s, allowDestructive |-> c.allowDestructive] :
                    s \in SUBSET {Table!READ_SCOPE, Table!WRITE_SCOPE}}

\* Whoever reaches a server from another machine is asked before anything
\* destructive, and is checked unless the operator vouched for a gateway; with no
\* more than the token nobody writes.
ExposedIsGuarded ==
    \A p \in Procs :
        at[p] = "up" /\ mode[p] = "serve" /\ ~config[p].loopback =>
            \A c \in CallersOf(p) :
                /\ ~c.allowDestructive
                /\ ~c.mounted => config[p].trustedGateway
                /\ c.mounted /\ Table!WRITE_SCOPE \in c.scopes => config[p].oauth
=============================================================================
