---------------------------- MODULE StartupProofs ----------------------------
(***************************************************************************)
(* Proofs about the start of processes, for any processes, pids, host      *)
(* names and configurations (Startup), and, below, about how one gets its  *)
(* settings and its hosts, for any input and host sources (Config).        *)
(***************************************************************************)
EXTENDS Startup, Config, ListProofs

States == {"down", "sweep", "load", "bind", "up"}

Policies ==
    {"none", "LoopbackDev", "TrustedGatewayUnscoped", "MountedBearer", "MountedOAuth"}

Types ==
    /\ mode \in [Procs -> {"serve", "stdio", "cli"}]
    /\ at \in [Procs -> States]
    /\ pid \in [Procs -> Pids \cup {NoPid}]
    /\ dir \in [Procs -> SUBSET Paths]
    /\ dead \in [Procs -> Paths \cup {<<>>}]
    /\ config \in [Procs -> Configs \cup {NoConfig}]
    /\ policy \in [Procs -> Policies]
    /\ open \in [Procs -> SUBSET HostNames]
    /\ tmp \in [Paths -> Procs \cup {Nobody, NoFile}]
    /\ elders \in [Procs -> SUBSET Procs]
    /\ quiet \in [Procs -> SUBSET Pids]

\* A pid is had by one process at a time.
PidsUnique ==
    /\ \A p \in Procs : at[p] # "down" => pid[p] \in Pids
    /\ \A p, q \in Procs : at[p] # "down" /\ at[q] # "down" /\ pid[p] = pid[q] => p = q

\* Sockets are of processes that are up, sweeps of those that sweep.
WorkInItsState ==
    \A p \in Procs : /\ open[p] # {} => at[p] = "up"
                     /\ dead[p] # <<>> => at[p] = "sweep"

\* The elders of a sweep still run, and what it is about to remove is of none.
EldersAreSafe ==
    \A p \in Procs : \A q \in elders[p] :
        /\ at[q] # "down"
        /\ dead[p] # <<>> => pid[q] # Last(dead[p])

\* Nobody has a pid nobody had since the sweep began.
QuietIsQuiet == \A p \in Procs : \A n \in quiet[p] : ~PidIsAlive(n)

\* What is left of the dead the sweep has still to look at, or is to remove.
SweepMissesNone ==
    \A p \in Procs : \A f \in Files :
        Last(f) \in quiet[p] /\ mode[p] # "cli" =>
            at[p] = "sweep" /\ (f \in dir[p] \/ f = dead[p])

\* A server goes on with a configuration only as resolved and enforced.
PolicyDecided ==
    \A p \in Procs :
        at[p] \in {"bind", "up"} /\ mode[p] = "serve" =>
            /\ config[p] \in Configs
            /\ EnforceDestructivePolicy(config[p])
            /\ policy[p] = ResolveAuthPolicyKind(config[p]) /\ policy[p] # "refused"

IInv ==
    /\ Types
    /\ PidsUnique
    /\ WorkInItsState
    /\ EldersAreSafe
    /\ QuietIsQuiet
    /\ SweepMissesNone
    /\ PolicyDecided

-----------------------------------------------------------------------------
(* Facts the steps below keep needing *)

\* The pid can be read off a socket's name.
LEMMA PathEndsInPid ==
    ASSUME NEW h \in HostNames, NEW n \in Pids
    PROVE  /\ ForwardSocketPath(h, n) \in Paths
           /\ Last(ForwardSocketPath(h, n)) = n /\ ForwardSocketPath(h, n) # <<>>
<1>1. h \in Seq(Parts) /\ n \in Parts
  BY NamesAssumption
<1>2. Last(Append(h, n)) = n /\ Append(h, n) # <<>>
  BY <1>1 DEF Last
<1> QED
  BY <1>2 DEF ForwardSocketPath, Paths

\* So every socket says whose it is.
LEMMA SocketsHavePids ==
    ASSUME NEW f \in Paths
    PROVE  Last(f) \in Pids /\ f # <<>>
<1>1. PICK h \in HostNames, n \in Pids : f = ForwardSocketPath(h, n)
  BY DEF Paths
<1> QED
  BY <1>1, PathEndsInPid

\* A process that is up is known by its pid.
LEMMA SocketOwner ==
    ASSUME IInv, NEW p \in Procs, NEW q \in Procs, NEW h \in open[p], NEW k \in HostNames,
           at[q] = "up", ForwardSocketPath(h, pid[p]) = ForwardSocketPath(k, pid[q])
    PROVE  p = q
<1>1. at[p] = "up" /\ h \in HostNames /\ pid[p] \in Pids /\ pid[q] \in Pids
  BY DEF IInv, Types, WorkInItsState, PidsUnique
<1>2. pid[p] = pid[q]
  BY <1>1, PathEndsInPid
<1> QED
  BY <1>1, <1>2 DEF IInv, PidsUnique

\* A process that leaves takes nothing from the others, whatever its files.
LEMMA LeaveStep ==
    ASSUME IInv, NEW p \in Procs, Leave(p),
           tmp' \in [Paths -> Procs \cup {Nobody, NoFile}], Files' \subseteq Files
    PROVE  IInv'
<1>1. Types
  BY DEF IInv
<1>2. /\ at'[p] = "down" /\ mode'[p] = "cli" /\ open'[p] = {} /\ dead'[p] = <<>>
      /\ elders'[p] = {} /\ quiet'[p] = {}
      /\ \A q \in Procs \ {p} :
           /\ at'[q] = at[q] /\ mode'[q] = mode[q] /\ pid'[q] = pid[q] /\ dir'[q] = dir[q]
           /\ dead'[q] = dead[q] /\ config'[q] = config[q] /\ policy'[q] = policy[q]
           /\ open'[q] = open[q] /\ quiet'[q] = quiet[q] /\ elders'[q] = elders[q] \ {p}
  BY <1>1 DEF Leave, Types
<1>3. Types'
  BY <1>1 DEF Leave, Types, States, Policies
<1>4. PidsUnique'
  BY <1>2 DEF IInv, PidsUnique
<1>5. WorkInItsState'
  BY <1>2 DEF IInv, WorkInItsState
<1>6. EldersAreSafe'
  BY <1>1, <1>2 DEF IInv, Types, EldersAreSafe
<1>7. QuietIsQuiet'
  BY <1>2 DEF IInv, QuietIsQuiet, PidIsAlive
<1>8. SweepMissesNone'
  BY <1>2 DEF IInv, SweepMissesNone
<1>9. PolicyDecided'
  BY <1>2 DEF IInv, PolicyDecided
<1> QED
  BY <1>3, <1>4, <1>5, <1>6, <1>7, <1>8, <1>9 DEF IInv

-----------------------------------------------------------------------------
(* The steps, one by one *)

\* The invariant holds at the start.
LEMMA InitInv == Init => IInv
<1> SUFFICES ASSUME Init PROVE IInv
  OBVIOUS
<1>1. Types
  BY DEF Init, Types, States, Policies
<1>2. PidsUnique /\ WorkInItsState /\ EldersAreSafe /\ QuietIsQuiet /\ SweepMissesNone
  BY DEF Init, PidsUnique, WorkInItsState, EldersAreSafe, QuietIsQuiet, SweepMissesNone
<1>3. PolicyDecided
  BY DEF Init, PolicyDecided
<1> QED
  BY <1>1, <1>2, <1>3 DEF IInv

\* A start: its pid was free, so it is none of an elder's, and no longer quiet.
LEMMA RunStep ==
    ASSUME IInv, NEW p \in Procs, Run(p)
    PROVE  IInv'
<1>1. Types
  BY DEF IInv
<1>2. PICK m \in {"serve", "stdio", "cli"}, n \in Pids :
        /\ at[p] = "down" /\ ~PidIsAlive(n)
        /\ mode' = [mode EXCEPT ![p] = m]
        /\ pid' = [pid EXCEPT ![p] = n]
        /\ IF m = "cli" THEN at' = [at EXCEPT ![p] = "load"] /\ UNCHANGED <<dir, elders>>
           ELSE /\ at' = [at EXCEPT ![p] = "sweep"]
                /\ dir' = [dir EXCEPT ![p] = Files]
                /\ elders' = [q \in Procs |->
                      IF q = p THEN {e \in Procs : at[e] # "down"} ELSE elders[q] \ {p}]
        /\ quiet' = [q \in Procs |->
              IF q = p
              THEN IF m = "cli" THEN {} ELSE {k \in Pids : k # n /\ ~PidIsAlive(k)}
              ELSE quiet[q] \ {n}]
  BY DEF Run
<1>3. UNCHANGED <<dead, config, policy, open, tmp>>
  BY DEF Run
<1>4. /\ mode'[p] = m /\ pid'[p] = n /\ dead[p] = <<>> /\ open[p] = {}
      /\ at'[p] = IF m = "cli" THEN "load" ELSE "sweep"
      /\ \A q \in Procs \ {p} : mode'[q] = mode[q] /\ pid'[q] = pid[q] /\ at'[q] = at[q]
                               /\ dir'[q] = dir[q]
  BY <1>1, <1>2 DEF Types, IInv, WorkInItsState
<1>5. \A q \in Procs : quiet'[q] = IF q # p THEN quiet[q] \ {n} ELSE
                          IF m = "cli" THEN {} ELSE {k \in Pids : k # n /\ ~PidIsAlive(k)}
  BY <1>2
<1>6. \A q \in Procs : p \notin elders[q]
  BY <1>2 DEF IInv, EldersAreSafe
<1>7. \A q \in Procs \ {p} : elders'[q] = elders[q]
  <2>1. CASE m = "cli"
    BY <1>2, <2>1
  <2>2. CASE m # "cli"
    <3>1. \A q \in Procs \ {p} : elders'[q] = elders[q] \ {p}
      BY <1>2, <2>2
    <3>2. \A q \in Procs : elders[q] \ {p} = elders[q]
      BY <1>6
    <3> QED
      BY <3>1, <3>2
  <2> QED
    BY <2>1, <2>2
<1>8. \A q \in Procs : at[q] # "down" => pid[q] # n
  BY <1>2 DEF PidIsAlive
<1>9. Types'
  <2>1. CASE m = "cli"
    BY <1>1, <1>2, <1>3, <2>1 DEF Types, States
  <2>2. CASE m # "cli"
    <3>1. Files \in SUBSET Paths
      BY DEF Files
    <3>2. elders' \in [Procs -> SUBSET Procs] /\ quiet' \in [Procs -> SUBSET Pids]
      BY <1>1, <1>2, <2>2 DEF Types
    <3>3. mode' \in [Procs -> {"serve", "stdio", "cli"}] /\ at' \in [Procs -> States]
      BY <1>1, <1>2, <2>2 DEF Types, States
    <3>4. pid' \in [Procs -> Pids \cup {NoPid}] /\ dir' \in [Procs -> SUBSET Paths]
      BY <1>1, <1>2, <2>2, <3>1 DEF Types
    <3> QED
      BY <1>1, <1>3, <3>2, <3>3, <3>4 DEF Types
  <2> QED
    BY <2>1, <2>2
<1>10. PidsUnique'
  BY <1>2, <1>4, <1>8 DEF IInv, PidsUnique
<1>11. WorkInItsState'
  BY <1>3, <1>4 DEF IInv, WorkInItsState
<1>12. EldersAreSafe'
  <2>1. ASSUME NEW q \in Procs \ {p}, NEW e \in elders'[q]
        PROVE  at'[e] # "down" /\ (dead'[q] # <<>> => pid'[e] # Last(dead'[q]))
    BY <1>1, <1>3, <1>4, <1>6, <1>7, <2>1 DEF IInv, Types, EldersAreSafe
  <2>2. ASSUME NEW e \in elders'[p] PROVE at'[e] # "down" /\ dead'[p] = <<>>
    <3>1. CASE m = "cli"
      BY <1>1, <1>2, <1>3, <1>4, <1>6, <2>2, <3>1 DEF IInv, Types, EldersAreSafe
    <3>2. CASE m # "cli"
      BY <1>2, <1>3, <1>4, <2>2, <3>2
    <3> QED
      BY <3>1, <3>2
  <2> QED
    BY <2>1, <2>2 DEF EldersAreSafe
<1>13. QuietIsQuiet'
  <2>1. ASSUME NEW q \in Procs, NEW k \in quiet'[q] PROVE ~PidIsAlive(k) /\ k # n
    BY <1>5, <2>1 DEF IInv, QuietIsQuiet
  <2> QED
    BY <1>4, <2>1 DEF QuietIsQuiet, PidIsAlive
<1>14. SweepMissesNone'
  <2>1. Files' = Files
    BY <1>3 DEF Files
  <2>2. CASE m = "cli"
    BY <1>3, <1>4, <1>5, <2>1, <2>2 DEF IInv, SweepMissesNone
  <2>3. CASE m # "cli"
    <3>1. dir'[p] = Files
      BY <1>1, <1>2, <2>3 DEF Types
    <3> QED
      BY <1>3, <1>4, <1>5, <2>1, <2>3, <3>1 DEF IInv, SweepMissesNone
  <2> QED
    BY <2>2, <2>3
<1>15. PolicyDecided'
  BY <1>3, <1>4 DEF IInv, PolicyDecided
<1> QED
  BY <1>9, <1>10, <1>11, <1>12, <1>13, <1>14, <1>15 DEF IInv

\* A look: a file is passed over only if its process lives.
LEMMA LookStep ==
    ASSUME IInv, NEW p \in Procs, SweepLooks(p)
    PROVE  IInv'
<1>1. Types
  BY DEF IInv
<1>2. PICK f \in dir[p] :
        /\ at[p] = "sweep" /\ dead[p] = <<>>
        /\ dir' = [dir EXCEPT ![p] = @ \ {f}]
        /\ dead' = [dead EXCEPT ![p] =
              IF ParseSocketPid(f) # NoPid /\ ~PidIsAlive(ParseSocketPid(f)) THEN f ELSE @]
  BY DEF SweepLooks
<1>3. UNCHANGED <<mode, at, pid, config, policy, open, tmp, elders, quiet>>
  BY DEF SweepLooks
<1>4. f \in Paths /\ Last(f) \in Pids /\ Last(f) # NoPid
  BY <1>1, <1>2, SocketsHavePids, NamesAssumption DEF Types
<1>5. /\ dir'[p] = dir[p] \ {f}
      /\ dead'[p] = IF PidIsAlive(Last(f)) THEN <<>> ELSE f
      /\ \A q \in Procs \ {p} : dir'[q] = dir[q] /\ dead'[q] = dead[q]
  BY <1>1, <1>2, <1>4 DEF Types, ParseSocketPid
<1>6. Types'
  BY <1>1, <1>2, <1>3, <1>4 DEF Types
<1>7. PidsUnique' /\ PolicyDecided'
  BY <1>3 DEF IInv, PidsUnique, PolicyDecided
<1>8. WorkInItsState'
  BY <1>2, <1>3, <1>5 DEF IInv, WorkInItsState
<1>9. EldersAreSafe'
  <2>1. \A e \in elders[p] : ~PidIsAlive(Last(f)) => pid[e] # Last(f)
    BY <1>1 DEF IInv, Types, EldersAreSafe, PidIsAlive
  <2> QED
    BY <1>3, <1>5, <2>1 DEF IInv, EldersAreSafe
<1>10. QuietIsQuiet'
  BY <1>3 DEF IInv, QuietIsQuiet, PidIsAlive
<1>11. SweepMissesNone'
  <2>1. Files' = Files
    BY <1>3 DEF Files
  <2>2. Last(f) \in quiet[p] => ~PidIsAlive(Last(f))
    BY DEF IInv, QuietIsQuiet
  <2>3. \A g \in Files : g # <<>>
    BY SocketsHavePids DEF Files
  <2> QED
    BY <1>2, <1>3, <1>5, <2>1, <2>2, <2>3 DEF IInv, SweepMissesNone
<1> QED
  BY <1>6, <1>7, <1>8, <1>9, <1>10, <1>11 DEF IInv

\* A removal: the file is none that another sweep would miss.
LEMMA RemoveStep ==
    ASSUME IInv, NEW p \in Procs, SweepRemoves(p)
    PROVE  IInv'
<1>1. Types
  BY DEF IInv
<1>2. /\ at[p] = "sweep" /\ dead[p] \in Paths
      /\ tmp' = [tmp EXCEPT ![dead[p]] = NoFile]
      /\ dead'[p] = <<>> /\ \A q \in Procs \ {p} : dead'[q] = dead[q]
      /\ UNCHANGED <<mode, at, pid, dir, config, policy, open, elders, quiet>>
  BY <1>1 DEF SweepRemoves, Types
<1>3. Types'
  BY <1>1 DEF SweepRemoves, Types
<1>4. PidsUnique' /\ PolicyDecided'
  BY <1>2 DEF IInv, PidsUnique, PolicyDecided
<1>5. WorkInItsState' /\ EldersAreSafe'
  BY <1>2 DEF IInv, WorkInItsState, EldersAreSafe
<1>6. QuietIsQuiet'
  BY <1>2 DEF IInv, QuietIsQuiet, PidIsAlive
<1>7. SweepMissesNone'
  <2>1. Files' = Files \ {dead[p]}
    BY <1>1, <1>2 DEF Types, Files
  <2> QED
    BY <1>2, <2>1 DEF IInv, SweepMissesNone
<1> QED
  BY <1>3, <1>4, <1>5, <1>6, <1>7 DEF IInv

\* The end of a sweep: nothing is left to look at or to remove.
LEMMA SweepEndStep ==
    ASSUME IInv, NEW p \in Procs, SweepEnds(p)
    PROVE  IInv'
<1>1. Types
  BY DEF IInv
<1>2. /\ at[p] = "sweep" /\ dead[p] = <<>> /\ dir[p] = {}
      /\ at'[p] = "load" /\ \A q \in Procs \ {p} : at'[q] = at[q]
      /\ UNCHANGED <<mode, pid, dir, dead, config, policy, open, tmp, elders, quiet>>
  BY <1>1 DEF SweepEnds, Types
<1>3. Types'
  BY <1>1 DEF SweepEnds, Types, States
<1>4. PidsUnique' /\ PolicyDecided' /\ WorkInItsState'
  BY <1>2 DEF IInv, PidsUnique, PolicyDecided, WorkInItsState
<1>5. EldersAreSafe'
  BY <1>1, <1>2 DEF IInv, Types, EldersAreSafe
<1>6. QuietIsQuiet'
  BY <1>2 DEF IInv, QuietIsQuiet, PidIsAlive
<1>7. SweepMissesNone'
  <2>1. Files' = Files /\ \A f \in Files : f # <<>>
    BY <1>2, SocketsHavePids DEF Files
  <2> QED
    BY <1>2, <2>1 DEF IInv, SweepMissesNone
<1> QED
  BY <1>3, <1>4, <1>5, <1>6, <1>7 DEF IInv

\* What is kept by a step of p that starts, sweeps and ends nothing.
LEMMA GoesOn ==
    ASSUME IInv, NEW p \in Procs, at'[p] # "down" /\ at'[p] # "sweep", open'[p] # {} => at'[p] = "up",
           at[p] \notin {"down", "sweep"},
           \A q \in Procs \ {p} : at'[q] = at[q] /\ open'[q] = open[q],
           UNCHANGED <<mode, pid, dir, dead, elders, quiet>>,
           \A f \in Files' : f \in Files \/ Last(f) = pid[p]
    PROVE  PidsUnique' /\ WorkInItsState' /\ EldersAreSafe' /\ QuietIsQuiet' /\ SweepMissesNone'
<1>1. PidsUnique' /\ WorkInItsState'
  BY DEF IInv, PidsUnique, WorkInItsState
<1>2. EldersAreSafe'
  BY DEF IInv, Types, EldersAreSafe
<1>3. QuietIsQuiet'
  BY DEF IInv, QuietIsQuiet, PidIsAlive
<1>4. SweepMissesNone'
  <2>1. \A q \in Procs : pid[p] \notin quiet[q]
    BY DEF IInv, QuietIsQuiet, PidIsAlive
  <2> QED
    BY <2>1 DEF IInv, SweepMissesNone
<1> QED
  BY <1>1, <1>2, <1>3, <1>4

\* The load of the configuration, where policy and config are decided together.
LEMMA LoadStep ==
    ASSUME IInv, NEW p \in Procs, LoadConfig(p)
    PROVE  IInv'
<1>1. Types /\ tmp' = tmp /\ Files' = Files /\ at[p] = "load"
  BY DEF IInv, LoadConfig, Files
<1>2. CASE Leave(p)
  BY <1>1, <1>2, LeaveStep DEF Types
<1>3. CASE ~Leave(p)
  <2> DEFINE kind(c) == IF mode[p] = "serve" THEN ResolveAuthPolicyKind(c) ELSE "LoopbackDev"
  <2>1. PICK c \in Configs :
          /\ mode[p] = "serve" => EnforceDestructivePolicy(c)
          /\ kind(c) # "refused"
          /\ config' = [config EXCEPT ![p] = c]
          /\ policy' = [policy EXCEPT ![p] = kind(c)]
    BY <1>3 DEF LoadConfig
  <2>2. /\ at' = [at EXCEPT ![p] = IF mode[p] = "serve" THEN "bind" ELSE "up"]
        /\ UNCHANGED <<mode, pid, dir, dead, open, elders, quiet>>
    BY <1>3 DEF LoadConfig
  <2>3. kind(c) \in Policies
    BY <2>1 DEF ResolveAuthPolicyKind, Policies
  <2> HIDE DEF kind
  <2>4. /\ at' \in [Procs -> States] /\ config' \in [Procs -> Configs \cup {NoConfig}]
        /\ policy' \in [Procs -> Policies]
    BY <1>1, <2>1, <2>2, <2>3 DEF Types, States
  <2>5. Types'
    BY <1>1, <2>2, <2>4 DEF Types
  <2>6. open[p] = {} /\ at'[p] \in {"bind", "up"} /\ \A q \in Procs \ {p} : at'[q] = at[q]
    BY <1>1, <2>2 DEF Types, IInv, WorkInItsState
  <2>7. PidsUnique' /\ WorkInItsState' /\ EldersAreSafe' /\ QuietIsQuiet' /\ SweepMissesNone'
    BY <1>1, <2>2, <2>6, GoesOn
  <2>8. PolicyDecided'
    <3>1. config'[p] = c /\ policy'[p] = kind(c)
      BY <1>1, <2>1 DEF Types
    <3>2. \A q \in Procs \ {p} : config'[q] = config[q] /\ policy'[q] = policy[q]
      BY <1>1, <2>1 DEF Types
    <3>3. mode[p] = "serve" => kind(c) = ResolveAuthPolicyKind(c)
      BY DEF kind
    <3> QED
      BY <2>1, <2>2, <2>6, <3>1, <3>2, <3>3 DEF IInv, PolicyDecided
  <2> QED
    BY <2>5, <2>7, <2>8 DEF IInv
<1> QED
  BY <1>2, <1>3

\* The bind, which decides nothing.
LEMMA BindStep ==
    ASSUME IInv, NEW p \in Procs, Bind(p)
    PROVE  IInv'
<1>1. Types /\ tmp' = tmp /\ Files' = Files /\ at[p] = "bind"
  BY DEF IInv, Bind, Files
<1>2. CASE Leave(p)
  BY <1>1, <1>2, LeaveStep DEF Types
<1>3. CASE ~Leave(p)
  <2>1. /\ at' = [at EXCEPT ![p] = "up"]
        /\ UNCHANGED <<mode, pid, dir, dead, config, policy, open, elders, quiet>>
    BY <1>3 DEF Bind
  <2>2. Types'
    BY <1>1, <2>1 DEF Types, States
  <2>3. at'[p] = "up" /\ \A q \in Procs \ {p} : at'[q] = at[q]
    BY <1>1, <2>1 DEF Types
  <2>4. PidsUnique' /\ WorkInItsState' /\ EldersAreSafe' /\ QuietIsQuiet' /\ SweepMissesNone'
    BY <1>1, <2>1, <2>3, GoesOn
  <2>5. PolicyDecided'
    BY <1>1, <2>1, <2>3 DEF IInv, PolicyDecided
  <2> QED
    BY <2>2, <2>4, <2>5 DEF IInv
<1> QED
  BY <1>2, <1>3

\* A socket: its name ends in the pid of a process that runs.
LEMMA OpenStep ==
    ASSUME IInv, NEW p \in Procs, NEW h \in HostNames, OpenForward(p, h)
    PROVE  IInv'
<1> DEFINE f == ForwardSocketPath(h, pid[p])
<1>1. Types
  BY DEF IInv
<1>2. /\ at[p] = "up" /\ open' = [open EXCEPT ![p] = @ \cup {h}]
      /\ tmp' = [tmp EXCEPT ![f] = p]
      /\ UNCHANGED <<mode, at, pid, dir, dead, config, policy, elders, quiet>>
  BY DEF OpenForward
<1>3. f \in Paths /\ Last(f) = pid[p]
  BY <1>2, PathEndsInPid DEF IInv, PidsUnique
<1> HIDE DEF f
<1>4. Types'
  BY <1>1, <1>2, <1>3 DEF Types
<1>5. Files' \subseteq Files \cup {f}
  BY <1>1, <1>2, <1>3 DEF Types, Files
<1>6. \A q \in Procs \ {p} : open'[q] = open[q]
  BY <1>1, <1>2 DEF Types
<1>7. PidsUnique' /\ WorkInItsState' /\ EldersAreSafe' /\ QuietIsQuiet' /\ SweepMissesNone'
  BY <1>2, <1>3, <1>5, <1>6, GoesOn
<1>8. PolicyDecided'
  BY <1>2 DEF IInv, PolicyDecided
<1> QED
  BY <1>4, <1>7, <1>8 DEF IInv

\* An end, with the files removed or not.
LEMMA EndStep ==
    ASSUME IInv, NEW p \in Procs, Exit(p) \/ Crash(p)
    PROVE  IInv'
<1>1. Types /\ Leave(p)
  BY DEF IInv, Exit, Crash
<1>2. tmp' \in [Paths -> Procs \cup {Nobody, NoFile}] /\ Files' \subseteq Files
  <2>1. CASE Exit(p)
    BY <1>1, <2>1 DEF Types, Exit, Files
  <2>2. CASE Crash(p)
    BY <1>1, <2>2, NamesAssumption DEF Types, Crash, Files
  <2> QED
    BY <2>1, <2>2
<1> QED
  BY <1>1, <1>2, LeaveStep

\* Every reachable state satisfies the inductive invariant.
LEMMA InvAlways == Spec => []IInv
<1>1. IInv /\ [Next]_vars => IInv'
  <2> SUFFICES ASSUME IInv, [Next]_vars PROVE IInv'
    OBVIOUS
  <2>1. CASE UNCHANGED vars
    BY <2>1 DEF vars, IInv, Types, PidsUnique, WorkInItsState, EldersAreSafe, QuietIsQuiet,
                SweepMissesNone, PolicyDecided, PidIsAlive, Files
  <2> QED
    BY <2>1, RunStep, LookStep, RemoveStep, SweepEndStep, LoadStep, BindStep, OpenStep, EndStep
       DEF Next
<1> QED
  BY <1>1, InitInv, PTL DEF Spec

-----------------------------------------------------------------------------
(* The theorems *)

\* Once a server has swept, there is no file left of a process that was dead when
\* it began and whose pid was not used again since.
THEOREM SweepIsComplete == Spec => []LeftoversGo
<1>1. IInv => LeftoversGo
  BY DEF IInv, SweepMissesNone, LeftoversGo
<1> QED
  BY <1>1, InvAlways, PTL

\* A server others can reach asks before anything destructive, and checks who
\* calls unless the operator vouched for a gateway.
THEOREM ExposureIsGuarded == Spec => []ExposedIsGuarded
<1>1. IInv => ExposedIsGuarded
  <2> SUFFICES ASSUME IInv, NEW p \in Procs, at[p] = "up", mode[p] = "serve",
                      ~config[p].loopback, NEW c \in CallersOf(p)
               PROVE  /\ ~c.allowDestructive
                      /\ ~c.mounted => config[p].trustedGateway
                      /\ c.mounted /\ Table!WRITE_SCOPE \in c.scopes => config[p].oauth
    BY DEF ExposedIsGuarded
  <2>1. /\ config[p] \in AllConfigs /\ EnforceDestructivePolicy(config[p])
        /\ policy[p] = ResolveAuthPolicyKind(config[p]) /\ policy[p] # "refused"
    BY ConfigsAssumption DEF IInv, PolicyDecided
  <2>2. ~config[p].allowDestructive
    BY <2>1 DEF EnforceDestructivePolicy
  <2>3. CASE policy[p] = "TrustedGatewayUnscoped"
    <3>1. config[p].trustedGateway
      BY <2>1, <2>3 DEF ResolveAuthPolicyKind
    <3> QED
      BY <2>2, <2>3, <3>1 DEF CallersOf
  <2>4. CASE policy[p] = "MountedBearer"
    <3>1. Table!WRITE_SCOPE \notin {Table!READ_SCOPE}
      BY DEF Table!WRITE_SCOPE, Table!READ_SCOPE
    <3> QED
      BY <2>2, <2>4, <3>1 DEF CallersOf
  <2>5. CASE policy[p] = "MountedOAuth"
    <3>1. config[p].oauth
      BY <2>1, <2>5 DEF ResolveAuthPolicyKind
    <3> QED
      BY <2>2, <2>5, <3>1 DEF CallersOf
  <2>6. policy[p] \in {"TrustedGatewayUnscoped", "MountedBearer", "MountedOAuth"}
    BY <2>1 DEF ResolveAuthPolicyKind
  <2> QED
    BY <2>3, <2>4, <2>5, <2>6
<1> QED
  BY <1>1, InvAlways, PTL

\* No sweep takes the socket of a process that ran when it began, in whatever
\* order it finds the files and whoever starts and ends meanwhile.
THEOREM EldersKeepSockets == Spec => SweepSparesElders
<1>1. IInv /\ [Next]_vars =>
        (\A q \in Procs : \A h \in open[q] \cap open'[q] :
            LET f == ForwardSocketPath(h, pid[q])
            IN  tmp[f] = q /\ tmp'[f] # q =>
                  \E p \in Procs : at[p] = "sweep" /\ dead[p] = f /\ q \notin elders[p])
  <2> SUFFICES ASSUME IInv, [Next]_vars, NEW q \in Procs, NEW h \in open[q] \cap open'[q],
                      tmp[ForwardSocketPath(h, pid[q])] = q,
                      tmp'[ForwardSocketPath(h, pid[q])] # q
               PROVE  \E p \in Procs : /\ at[p] = "sweep" /\ q \notin elders[p]
                                       /\ dead[p] = ForwardSocketPath(h, pid[q])
    OBVIOUS
  <2> DEFINE f == ForwardSocketPath(h, pid[q])
  <2>1. Types /\ at[q] = "up" /\ h \in HostNames
    BY DEF IInv, Types, WorkInItsState
  <2>2. f \in Paths /\ Last(f) = pid[q] /\ f # <<>>
    BY <2>1, PathEndsInPid DEF IInv, PidsUnique
  <2>3. PICK p \in Procs : \/ SweepRemoves(p) \/ Exit(p) \/ Crash(p)
                           \/ \E k \in HostNames : OpenForward(p, k)
    BY DEF Next, vars, Run, SweepLooks, SweepEnds, LoadConfig, Bind
  <2>4. CASE SweepRemoves(p)
    <3>1. dead[p] = f /\ at[p] = "sweep"
      BY <2>1, <2>2, <2>4 DEF SweepRemoves, Types
    <3>2. q \notin elders[p]
      BY <2>2, <3>1 DEF IInv, EldersAreSafe
    <3> QED
      BY <3>1, <3>2
  <2>5. CASE Exit(p) \/ Crash(p)
    <3>1. p # q
      BY <2>1, <2>5 DEF Types, Exit, Crash, Leave
    <3>2. \A k \in open[p] : ForwardSocketPath(k, pid[p]) # f
      BY <2>1, <3>1, SocketOwner
    <3> QED
      BY <2>1, <2>2, <2>5, <3>1, <3>2 DEF Types, Exit, Crash
  <2>6. ASSUME NEW k \in HostNames, OpenForward(p, k) PROVE FALSE
    <3>1. ForwardSocketPath(k, pid[p]) = f /\ p # q
      BY <2>1, <2>2, <2>6 DEF Types, OpenForward
    <3> QED
      BY <2>6, <3>1, SocketOwner DEF OpenForward
  <2> QED
    BY <2>3, <2>4, <2>5, <2>6
<1> QED
  BY <1>1, InvAlways, PTL DEF Spec, SweepSparesElders

-----------------------------------------------------------------------------
\* The first of the two directories searched.
FirstDir == IF home THEN "home" ELSE "data"

\* What the environment has after the seeding, and what the config has after each
\* step, in terms of the input.
Seeded ==
    CASE input.env = "set" -> Environment
      [] input.env = "empty" -> Empty
      [] input.env = "absent" ->
           IF input.dotenv[FirstDir] = "set" THEN Dotenv(FirstDir)
           ELSE IF input.dotenv[FirstDir] = "empty" THEN Empty
           ELSE IF input.dotenv["cwd"] = "set" THEN Dotenv("cwd")
           ELSE IF input.dotenv["cwd"] = "empty" THEN Empty
           ELSE Unset
FromToml ==
    IF input.toml[FirstDir] = "set" THEN Toml(FirstDir)
    ELSE IF input.toml[FirstDir] = "missing" /\ input.toml["cwd"] = "set"
         THEN Toml("cwd") ELSE Default
FromFiles ==
    IF input.kind # "limit" /\ input.dotenv[FirstDir] = "set" THEN Dotenv(FirstDir)
    ELSE IF input.kind # "limit" /\ input.dotenv["cwd"] = "set" THEN Dotenv("cwd")
    ELSE FromToml

\* The setting, after each step of the load.
SettingInv ==
    /\ input \in AllInputs
    /\ input.homeSetIn \in {"nowhere", "env"}
    /\ home = (input.homeSetIn = "env")
    /\ step \in {"start", "seeded", "toml", "dotenv", "loaded", "failed"}
    /\ step = "start" =>
          env = CASE input.env = "absent" -> Unset
                  [] input.env = "empty" -> Empty
                  [] input.env = "set" -> Environment
    /\ step # "start" => env = Seeded
    /\ step \in {"start", "seeded"} => value = Default
    /\ step = "toml" => value = FromToml
    /\ step = "dotenv" => value = FromFiles
    /\ step = "loaded" =>
          value = IF env \in {Unset, Empty} THEN FromFiles ELSE env

\* The directories searched, and their order for the `.env` files.
LEMMA DirsAre ==
    /\ ConfigSearchDirs = <<FirstDir, "cwd">>
    /\ DotenvPrecedenceDirs = <<"cwd", FirstDir>>
<1>1. ConfigSearchDirs = <<FirstDir, "cwd">>
  BY DEF ConfigSearchDirs, FirstDir
<1>2. Reverse(<<FirstDir, "cwd">>) = <<"cwd", FirstDir>>
  BY DEF Reverse
<1> QED
  BY <1>1, <1>2 DEF DotenvPrecedenceDirs

\* Of two directories the first whose config.toml exists.
LEMMA FirstTomlIs ==
    ASSUME NEW d
    PROVE FirstToml(<<d, "cwd">>) =
              IF input.toml[d] # "missing" THEN 1
              ELSE IF input.toml["cwd"] # "missing" THEN 2 ELSE 0
BY DEF FirstToml, SelectInSeq, Min

\* Of two `.env` files the later that mentions the setting.
LEMMA LastMentionedIs ==
    ASSUME NEW d
    PROVE LastMentioned(<<"cwd", d>>) =
              IF input.dotenv[d] # "absent" THEN 2
              ELSE IF input.dotenv["cwd"] # "absent" THEN 1 ELSE 0
BY DEF LastMentioned, SelectLastInSeq, Max

\* Of two `.env` files the later that gives it a value.
LEMMA LastNonEmptyIs ==
    ASSUME NEW d
    PROVE LastNonEmpty(<<"cwd", d>>) =
              IF input.dotenv[d] = "set" THEN 2
              ELSE IF input.dotenv["cwd"] = "set" THEN 1 ELSE 0
BY DEF LastNonEmpty, SelectLastInSeq, Max

\* A process starts with the defaults and what its environment has.
LEMMA SettingInit ==
    ASSUME \A c \in Cases : c[1].homeSetIn \in {"nowhere", "env"}, ConfigInit
    PROVE  SettingInv
<1>1. PICK c \in Cases : input = c[1] /\ sources = c[2]
  BY DEF ConfigInit
<1>2. input \in AllInputs /\ input.homeSetIn \in {"nowhere", "env"}
  BY <1>1, CasesAssumption
<1> QED
  BY <1>2 DEF SettingInv, ConfigInit

\* Every step of the load makes of the setting what the input says.
LEMMA SettingStep ==
    ASSUME SettingInv, [ConfigNext]_configVars
    PROVE  SettingInv'
<1> DEFINE D == FirstDir
<1>1. /\ D \in {"home", "data"} /\ D \in Dirs /\ "cwd" \in Dirs
      /\ input.dotenv \in [Dirs -> Presence]
      /\ input.toml \in [Dirs -> {"missing", "absent", "set"}]
      /\ input.env \in Presence
  BY DEF SettingInv, FirstDir, Dirs, AllInputs
<1>2. ASSUME home' = home, input' = input
      PROVE  Seeded' = Seeded /\ FromToml' = FromToml /\ FromFiles' = FromFiles
  BY <1>2 DEF Seeded, FromToml, FromFiles, FirstDir,
     Unset, Empty, Environment, Dotenv, Toml,
     Default
<1>3. CASE LoadDotenvEnvironment
  <2> DEFINE dirs == <<"cwd", D>>
             last == LastMentioned(dirs)
  <2>1. /\ step = "start" /\ step' = "seeded" /\ input' = input /\ value' = value
        /\ env' = IF env # Unset \/ last = 0 THEN env
                  ELSE IF input.dotenv[dirs[last]] = "empty" THEN Empty
                       ELSE Dotenv(dirs[last])
        /\ home' = (home \/ input.homeSetIn \in ToSet(dirs))
    BY <1>3, DirsAre DEF LoadDotenvEnvironment
  <2>2. ToSet(dirs) = {"cwd", D}
    BY DEF ToSet
  <2>3. home' = home
    BY <1>1, <2>1, <2>2 DEF SettingInv
  <2>4. last = IF input.dotenv[D] # "absent" THEN 2
               ELSE IF input.dotenv["cwd"] # "absent" THEN 1 ELSE 0
    BY LastMentionedIs
  <2> HIDE DEF last
  <2>5. env' = Seeded
    <3>1. dirs[1] = "cwd" /\ dirs[2] = D
      OBVIOUS
    <3>2. input.dotenv[D] \in Presence /\ input.dotenv["cwd"] \in Presence
      BY <1>1
    <3> HIDE DEF dirs
    <3>3. CASE input.env = "absent"
      <4>1. /\ env = Unset
            /\ env' = IF last = 0 THEN env
                      ELSE IF input.dotenv[dirs[last]] = "empty" THEN Empty
                           ELSE Dotenv(dirs[last])
        BY <2>1, <3>3 DEF SettingInv
      <4> QED
        BY <2>4, <3>1, <3>2, <3>3, <4>1 DEF Seeded, Presence
    <3>4. CASE input.env # "absent"
      <4>1. env # Unset /\ env = Seeded
        BY <1>1, <2>1, <3>4 DEF SettingInv, Seeded, Presence,
           Unset, Empty, Environment
      <4> QED
        BY <2>1, <4>1
    <3> QED
      BY <3>3, <3>4
  <2> QED
    BY <1>2, <2>1, <2>3, <2>5 DEF SettingInv, Default
<1>4. CASE ReadToml
  <2> DEFINE dirs == <<D, "cwd">>
             first == FirstToml(dirs)
  <2>1. /\ step = "seeded" /\ step' = "toml"
        /\ input' = input /\ home' = home /\ env' = env
        /\ value' = IF first # 0 /\ input.toml[dirs[first]] = "set"
                    THEN Toml(dirs[first]) ELSE value
    BY <1>4, DirsAre DEF ReadToml
  <2>2. first = IF input.toml[D] # "missing" THEN 1
                ELSE IF input.toml["cwd"] # "missing" THEN 2 ELSE 0
    BY FirstTomlIs
  <2> HIDE DEF first
  <2>3. value' = FromToml
    <3>1. dirs[1] = D /\ dirs[2] = "cwd"
      OBVIOUS
    <3>2. /\ input.toml[D] \in {"missing", "absent", "set"}
          /\ input.toml["cwd"] \in {"missing", "absent", "set"}
      BY <1>1
    <3> HIDE DEF dirs
    <3> QED
      BY <2>1, <2>2, <3>1, <3>2 DEF SettingInv, FromToml
  <2> QED
    BY <1>2, <2>1, <2>3 DEF SettingInv
<1>5. CASE ApplyDotenvFiles
  <2> DEFINE dirs == <<"cwd", D>>
             last == LastNonEmpty(dirs)
  <2>1. /\ step = "toml" /\ step' = "dotenv"
        /\ input' = input /\ home' = home /\ env' = env
        /\ value' = IF last # 0 /\ input.kind # "limit"
                    THEN Dotenv(dirs[last]) ELSE value
    BY <1>5, DirsAre DEF ApplyDotenvFiles
  <2>2. last = IF input.dotenv[D] = "set" THEN 2
               ELSE IF input.dotenv["cwd"] = "set" THEN 1 ELSE 0
    BY LastNonEmptyIs
  <2> HIDE DEF last
  <2>3. value' = FromFiles
    <3>1. dirs[1] = "cwd" /\ dirs[2] = D
      OBVIOUS
    <3>2. input.dotenv[D] \in Presence /\ input.dotenv["cwd"] \in Presence
      BY <1>1
    <3> HIDE DEF dirs
    <3> QED
      BY <2>1, <2>2, <3>1, <3>2 DEF SettingInv, FromFiles
  <2> QED
    BY <1>2, <2>1, <2>3 DEF SettingInv
<1>6. CASE ApplyEnv
  <2>1. Unset' = Unset /\ Empty' = Empty
    BY DEF Unset, Empty
  <2> QED
    BY <1>2, <1>6, <2>1 DEF SettingInv, ApplyEnv
<1>7. CASE OperationLoadsHosts \/ UNCHANGED configVars
  BY <1>2, <1>7 DEF SettingInv, OperationLoadsHosts, configVars
<1> QED
  BY <1>3, <1>4, <1>5, <1>6, <1>7 DEF ConfigNext

\* So it is in every state.
LEMMA SettingAlways ==
    ASSUME \A c \in Cases : c[1].homeSetIn \in {"nowhere", "env"}
    PROVE  ConfigSpec => []SettingInv
<1>1. ConfigInit => SettingInv
  BY SettingInit
<1>2. SettingInv /\ [ConfigNext]_configVars => SettingInv'
  BY SettingStep
<1> QED
  BY <1>1, <1>2, PTL DEF ConfigSpec

\* What the input makes of the setting is what the highest of its sources says.
LEMMA HighestFollows == SettingInv => HighestWins
<1> SUFFICES ASSUME SettingInv, step = "loaded", ~(input.kind = "limit" /\ env = Empty)
             PROVE  value = Ranking[SelectInSeq(Ranking, Gives)]
  BY DEF HighestWins
<1> DEFINE D == FirstDir
           ranking == <<Environment, Dotenv(D), Dotenv("cwd"),
                        Toml(D), Toml("cwd"), Default>>
<1>1. Ranking = ranking
  BY DirsAre DEF Ranking
<1>2. /\ Gives(ranking[1]) <=> input.env = "set"
      /\ Gives(ranking[2]) <=> input.dotenv[D] = "set"
      /\ Gives(ranking[3]) <=> input.dotenv["cwd"] = "set"
      /\ Gives(ranking[4]) <=> input.toml[D] = "set"
      /\ Gives(ranking[5]) <=> input.toml["cwd"] = "set" /\ input.toml[D] = "missing"
      /\ Gives(ranking[6])
  <2>1. D \in {"home", "data"}
    BY DEF FirstDir
  <2>2. FirstToml(<<D, "cwd">>) =
              IF input.toml[D] # "missing" THEN 1
              ELSE IF input.toml["cwd"] # "missing" THEN 2 ELSE 0
    BY FirstTomlIs
  <2>3. ConfigSearchDirs = <<D, "cwd">>
    BY DirsAre
  <2> HIDE DEF D
  <2>4. Gives(Environment) <=> input.env = "set"
    BY DEF Gives, Environment, Default
  <2>5. \A d : Gives(Dotenv(d)) <=> input.dotenv[d] = "set"
    BY DEF Gives, Environment, Dotenv, Default
  <2>6. \A d : Gives(Toml(d)) <=>
              input.toml[d] = "set" /\ <<D, "cwd">>[FirstToml(<<D, "cwd">>)] = d
    BY <2>3 DEF Gives, Environment, Toml, Default
  <2>7. Gives(Toml(D)) <=> input.toml[D] = "set"
    BY <2>1, <2>2, <2>6
  <2>8. Gives(Toml("cwd")) <=>
              input.toml["cwd"] = "set" /\ input.toml[D] = "missing"
    BY <2>1, <2>2, <2>6
  <2>9. Gives(Default)
    BY DEF Gives, Environment, Default
  <2> QED
    BY <2>4, <2>5, <2>7, <2>8, <2>9
<1> DEFINE chosen == SelectInSeq(Ranking, Gives)
<1>3. ASSUME NEW i \in 1..6, Gives(ranking[i]),
             \A j \in 1..6 : j < i => ~Gives(ranking[j])
      PROVE  chosen = i
  <2> DEFINE I == {j \in 1..Len(ranking) : Gives(ranking[j])}
  <2>1. Len(ranking) = 6
    OBVIOUS
  <2>2. chosen = IF I # {} THEN Min(I) ELSE 0
    BY <1>1 DEF SelectInSeq
  <2> HIDE DEF ranking
  <2>3. i \in I /\ \A j \in I : j \in Nat /\ i <= j
    BY <1>3, <2>1
  <2> HIDE DEF I
  <2>4. \A x \in I : (\A y \in I : x =< y) => x = i
    BY <2>3
  <2>5. \E x \in I : \A y \in I : x =< y
    BY <2>3
  <2>6. Min(I) \in I /\ \A y \in I : Min(I) =< y
    BY <2>5 DEF Min
  <2> QED
    BY <2>2, <2>3, <2>4, <2>6
<1>4. /\ ranking[1] = Environment
      /\ ranking[2] = Dotenv(D) /\ ranking[3] = Dotenv("cwd")
      /\ ranking[4] = Toml(D) /\ ranking[5] = Toml("cwd")
      /\ ranking[6] = Default
  OBVIOUS
<1>5. /\ value = IF env \in {Unset, Empty} THEN FromFiles ELSE env
      /\ env = Seeded /\ input.kind \in Kinds /\ input.env \in Presence
      /\ input.dotenv[D] \in Presence /\ input.dotenv["cwd"] \in Presence
      /\ input.toml[D] \in {"missing", "absent", "set"}
  BY DEF SettingInv, AllInputs, Dirs, FirstDir
<1>6. /\ Environment \notin {Unset, Empty}
      /\ Empty # Unset
      /\ \A d : Dotenv(d) \notin {Unset, Empty}
  BY DEF Environment, Unset, Empty, Dotenv
<1>7. value = ranking[chosen]
  <2> HIDE DEF ranking, chosen
  <2>1. CASE input.env = "set"
    <3>1. chosen = 1
      BY <1>2, <1>3, <2>1
    <3> QED
      BY <1>4, <1>5, <1>6, <2>1, <3>1 DEF Seeded
  <2>2. CASE input.env # "set" /\ input.dotenv[D] = "set"
    <3>1. chosen = 2
      BY <1>2, <1>3, <2>2
    <3> QED
      BY <1>4, <1>5, <1>6, <2>2, <3>1 DEF Seeded, FromFiles, Presence
  <2>3. CASE input.env # "set" /\ input.dotenv[D] # "set" /\ input.dotenv["cwd"] = "set"
    <3>1. chosen = 3
      BY <1>2, <1>3, <2>3
    <3> QED
      BY <1>4, <1>5, <1>6, <2>3, <3>1 DEF Seeded, FromFiles, Presence
  <2>4. CASE input.env # "set" /\ input.dotenv[D] # "set" /\ input.dotenv["cwd"] # "set"
    <3>1. value = FromToml
      BY <1>5, <1>6, <2>4 DEF Seeded, FromFiles, Presence
    <3>2. CASE input.toml[D] = "set"
      <4>1. chosen = 4
        BY <1>2, <1>3, <2>4, <3>2
      <4> QED
        BY <1>4, <3>1, <3>2, <4>1 DEF FromToml
    <3>3. CASE input.toml[D] = "missing" /\ input.toml["cwd"] = "set"
      <4>1. chosen = 5
        BY <1>2, <1>3, <2>4, <3>3
      <4> QED
        BY <1>4, <3>1, <3>3, <4>1 DEF FromToml
    <3>4. CASE input.toml[D] # "set" /\ ~(input.toml[D] = "missing" /\ input.toml["cwd"] = "set")
      <4>1. chosen = 6
        BY <1>2, <1>3, <2>4, <3>4
      <4> QED
        BY <1>4, <3>1, <3>4, <4>1 DEF FromToml
    <3> QED
      BY <3>2, <3>3, <3>4
  <2> QED
    BY <2>1, <2>2, <2>3, <2>4
<1> QED
  BY <1>1, <1>7

\* Unless a `.env` file sets SYNAPSE_HOME, a setting comes from the highest source
\* that gives it a value (HighestWins), whatever the kind of the setting and
\* whatever the sources say: although the `.env` files are read twice, by rules
\* that differ on empty values, and the environment is applied last.
THEOREM SettingsRanked ==
    ASSUME \A c \in Cases : c[1].homeSetIn \in {"nowhere", "env"}
    PROVE  ConfigSpec => []HighestWins
<1>1. ConfigSpec => []SettingInv
  BY SettingAlways
<1>2. SettingInv => HighestWins
  BY HighestFollows
<1> QED
  BY <1>1, <1>2, PTL

-----------------------------------------------------------------------------
\* The hosts are those that the sources of the case make.
HostsInv ==
    /\ WellFormed(sources)
    /\ hosts \in {<<>>, LoadHosts(sources.json, ConfigFiles, sources.ssh)}

\* Before the first operation there are no hosts.
LEMMA HostsInvInit ==
    ASSUME ConfigInit
    PROVE  HostsInv
BY CasesAssumption DEF HostsInv, ConfigInit

\* Whatever happens, the hosts are those of the sources.
LEMMA HostsInvStep ==
    ASSUME HostsInv, [ConfigNext]_configVars
    PROVE  HostsInv'
<1>1. sources' = sources
  BY DEF ConfigNext, configVars, LoadDotenvEnvironment, ReadToml,
     ApplyDotenvFiles, ApplyEnv, OperationLoadsHosts
<1>2. hosts' \in {hosts, LoadHosts(sources.json, ConfigFiles, sources.ssh)}
  BY DEF ConfigNext, configVars, LoadDotenvEnvironment, ReadToml,
     ApplyDotenvFiles, ApplyEnv, OperationLoadsHosts
<1> QED
  BY <1>1, <1>2 DEF HostsInv, ConfigFiles

\* What is kept of a list of hosts: hosts of that list, each once, in its order.
LEMMA KeptHosts ==
    ASSUME NEW S, NEW seq \in Seq(S), NEW positions
    PROVE  LET kept == MembersAt(seq, positions)
           IN  /\ kept \in Seq(S)
               /\ \E from \in [1..Len(kept) -> {j \in DOMAIN seq : j \in positions}] :
                     /\ \A i \in 1..Len(kept) : kept[i] = seq[from[i]]
                     /\ \A i, k \in 1..Len(kept) : i # k => from[i] # from[k]
<1> DEFINE kept == MembersAt(seq, positions)
<1>1. /\ kept \in Seq(S)
      /\ \E from \in [1..Len(kept) -> {j \in DOMAIN seq : j \in positions}] :
            /\ \A i \in 1..Len(kept) : kept[i] = seq[from[i]]
            /\ \A i, k \in 1..Len(kept) : i < k => from[i] < from[k]
  BY MembersAtOrder
<1> HIDE DEF kept
<1>2. PICK from \in [1..Len(kept) -> {j \in DOMAIN seq : j \in positions}] :
            /\ \A i \in 1..Len(kept) : kept[i] = seq[from[i]]
            /\ \A i, k \in 1..Len(kept) : i < k => from[i] < from[k]
  BY <1>1
<1>3. ASSUME NEW i \in 1..Len(kept), NEW k \in 1..Len(kept), i # k PROVE from[i] # from[k]
  <2>1. from[i] \in 1..Len(seq) /\ from[k] \in 1..Len(seq)
    BY <1>2
  <2>2. i < k \/ k < i
    BY <1>1, <1>3
  <2> QED
    BY <1>2, <2>1, <2>2
<1>4. \E f \in [1..Len(kept) -> {j \in DOMAIN seq : j \in positions}] :
            /\ \A i \in 1..Len(kept) : kept[i] = seq[f[i]]
            /\ \A i, k \in 1..Len(kept) : i # k => f[i] # f[k]
  BY <1>2, <1>3
<1> QED
  BY <1>1, <1>4 DEF kept

Discovered == [name : STRING, from : {"ssh"}, protocol : STRING]

\* Of ~/.ssh/config every name counts once.
LEMMA DiscoveredOnce ==
    ASSUME NEW ssh \in {Absent, Malformed} \cup HostsFrom("ssh")
    PROVE  LET found == LoadFromSshConfig(ssh)
           IN  /\ found \in Seq(Discovered)
               /\ \A i, k \in 1..Len(found) : i # k => found[i].name # found[k].name
<1>1. CASE ssh \in {Absent, Malformed}
  BY <1>1 DEF LoadFromSshConfig
<1>2. CASE ssh \notin {Absent, Malformed}
  <2> DEFINE firsts == {i \in DOMAIN ssh : \A j \in 1..(i - 1) : ssh[j].name # ssh[i].name}
             found == MembersAt(ssh, firsts)
  <2>1. LoadFromSshConfig(ssh) = found
    BY <1>2 DEF LoadFromSshConfig, LoadSshConfigFile
  <2>2. ssh \in Seq(Discovered)
    BY <1>2 DEF HostsFrom, Discovered
  <2> HIDE DEF firsts
  <2>3. /\ found \in Seq(Discovered)
        /\ \E from \in [1..Len(found) -> {j \in DOMAIN ssh : j \in firsts}] :
             /\ \A i \in 1..Len(found) : found[i] = ssh[from[i]]
             /\ \A i, k \in 1..Len(found) : i # k => from[i] # from[k]
    BY <2>2, KeptHosts
  <2> HIDE DEF found
  <2>4. ASSUME NEW i \in 1..Len(found), NEW k \in 1..Len(found), i # k
        PROVE  found[i].name # found[k].name
    <3>1. PICK from \in [1..Len(found) -> {j \in DOMAIN ssh : j \in firsts}] :
             /\ \A m \in 1..Len(found) : found[m] = ssh[from[m]]
             /\ \A m, n \in 1..Len(found) : m # n => from[m] # from[n]
      BY <2>3
    <3>2. /\ from[i] \in firsts /\ from[k] \in firsts /\ from[i] # from[k]
          /\ found[i] = ssh[from[i]] /\ found[k] = ssh[from[k]]
      BY <2>4, <3>1
    <3>3. \A a, b \in firsts : a < b => ssh[a].name # ssh[b].name
      BY <2>2 DEF firsts
    <3>4. from[i] \in Nat /\ from[k] \in Nat
      BY <2>2, <3>2 DEF firsts
    <3>5. from[i] < from[k] \/ from[k] < from[i]
      BY <3>2, <3>4
    <3> QED
      BY <3>2, <3>3, <3>5
  <2> QED
    BY <2>1, <2>3, <2>4
<1> QED
  BY <1>1, <1>2

\* The explicit sources, the highest first, and which of them counts.
Explicit == InEnvironment \o ConfigFiles
SourcePaths == DefaultFiles \cup {"env", "override"}
SourceFiles == UNION {FilesAt(path) : path \in SourcePaths}
WinsIn(list, k) ==
    /\ NamesAny(list[k].text)
    /\ \A j \in 1..(k - 1) : ~NamesAny(list[j].text)

\* Of a list of files, the text of the first that says anything counts.
LEMMA FilesGive ==
    ASSUME NEW files \in Seq(SourceFiles)
    PROVE  \/ /\ LoadFromFiles(files) = <<>>
              /\ \A i \in 1..Len(files) : ~NamesAny(files[i].text)
           \/ \E k \in 1..Len(files) : WinsIn(files, k) /\ LoadFromFiles(files) = files[k].text
<1> DEFINE I == {i \in 1..Len(files) : NamesAny(files[i].text)}
           first == IF I # {} THEN Min(I) ELSE 0
<1>1. LoadFromFiles(files) = IF first = 0 THEN <<>> ELSE files[first].text
  BY DEF LoadFromFiles, SelectInSeq
<1>2. CASE I = {}
  BY <1>1, <1>2
<1>3. CASE I # {}
  <2>1. I \in SUBSET Nat /\ \A i : i \in I <=> i \in 1..Len(files) /\ NamesAny(files[i].text)
    OBVIOUS
  <2> HIDE DEF I
  <2>2. \E x \in I : \A y \in I : x <= y
    BY <1>3, <2>1, LeastNat
  <2>3. Min(I) \in I /\ \A y \in I : Min(I) <= y
    BY <2>2 DEF Min
  <2>4. Min(I) \in 1..Len(files) /\ NamesAny(files[Min(I)].text)
    BY <2>1, <2>3
  <2>5. ASSUME NEW j \in 1..(Min(I) - 1) PROVE ~NamesAny(files[j].text)
    BY <2>1, <2>3, <2>4
  <2>6. WinsIn(files, Min(I))
    BY <2>4, <2>5 DEF WinsIn
  <2>7. LoadFromFiles(files) = files[Min(I)].text
    BY <1>1, <1>3, <2>4
  <2> QED
    BY <2>4, <2>6, <2>7
<1> QED
  BY <1>2, <1>3

\* The files an operation looks into have paths of their own.
LEMMA FilesTyped ==
    ASSUME WellFormed(sources)
    PROVE  /\ ConfigFiles \in Seq(SourceFiles)
           /\ \A i \in 1..Len(ConfigFiles) : ConfigFiles[i].path # "env"
           /\ \A i, j \in 1..Len(ConfigFiles) : i # j => ConfigFiles[i].path # ConfigFiles[j].path
<1>1. CASE sources.override # <<>>
  <2>1. /\ ConfigFiles = sources.override
        /\ sources.override \in Seq(FilesAt("override")) /\ Len(sources.override) <= 1
    BY <1>1 DEF ConfigFiles, DefaultConfigPaths, WellFormed
  <2>2. \A f \in FilesAt("override") : f \in SourceFiles /\ f.path = "override"
    BY DEF FilesAt, SourceFiles, SourcePaths
  <2> QED
    BY <2>1, <2>2
<1>2. CASE sources.override = <<>>
  <2>1. /\ ConfigFiles = sources.defaults
        /\ sources.defaults \in Seq(ToSet(sources.defaults))
        /\ \A i \in DOMAIN sources.defaults : \E path \in DefaultFiles : sources.defaults[i] \in FilesAt(path)
        /\ \A i, j \in DOMAIN sources.defaults :
              sources.defaults[i].path = sources.defaults[j].path => i = j
    BY <1>2 DEF ConfigFiles, DefaultConfigPaths, WellFormed
  <2>2. \A path \in DefaultFiles : \A f \in FilesAt(path) : f \in SourceFiles /\ f.path # "env"
    BY DEF FilesAt, SourceFiles, SourcePaths, DefaultFiles
  <2>3. \A i \in 1..Len(sources.defaults) :
            sources.defaults[i] \in SourceFiles /\ sources.defaults[i].path # "env"
    BY <2>1, <2>2
  <2>4. sources.defaults \in Seq(SourceFiles)
    BY <2>1, <2>3
  <2> QED
    BY <2>1, <2>3, <2>4
<1> QED
  BY <1>1, <1>2

\* The same of all the explicit sources.
LEMMA ExplicitTyped ==
    ASSUME WellFormed(sources)
    PROVE  /\ Explicit \in Seq(SourceFiles) /\ Len(Explicit) = Len(ConfigFiles) + 1
           /\ Explicit[1].text = sources.json /\ Explicit[1].path = "env"
           /\ \A i \in 1..Len(ConfigFiles) : i + 1 \in 1..Len(Explicit) /\ Explicit[i + 1] = ConfigFiles[i]
           /\ \A i, j \in 1..Len(Explicit) : i # j => Explicit[i].path # Explicit[j].path
<1> DEFINE inEnv == [path |-> "env", text |-> sources.json]
<1>1. inEnv \in SourceFiles /\ inEnv.path = "env" /\ inEnv.text = sources.json
  BY DEF WellFormed, SourceFiles, FilesAt, SourcePaths
<1>2. InEnvironment = <<inEnv>>
  BY DEF InEnvironment
<1>3. /\ ConfigFiles \in Seq(SourceFiles)
      /\ \A i \in 1..Len(ConfigFiles) : ConfigFiles[i].path # "env"
      /\ \A i, j \in 1..Len(ConfigFiles) : i # j => ConfigFiles[i].path # ConfigFiles[j].path
  BY FilesTyped
<1> HIDE DEF inEnv
<1>4. InEnvironment \in Seq(SourceFiles) /\ Len(InEnvironment) = 1 /\ InEnvironment[1] = inEnv
  BY <1>1, <1>2
<1> DEFINE n == Len(ConfigFiles)
<1>5. n \in Nat
  BY <1>3
<1>6. /\ Explicit \in Seq(SourceFiles) /\ Len(Explicit) = n + 1
      /\ \A i \in 1..(n + 1) : Explicit[i] = IF i <= 1 THEN inEnv ELSE ConfigFiles[i - 1]
  <2>1. /\ Explicit \in Seq(SourceFiles) /\ Len(Explicit) = Len(InEnvironment) + n
        /\ \A i \in 1..(Len(InEnvironment) + n) :
              Explicit[i] = IF i <= Len(InEnvironment) THEN InEnvironment[i]
                            ELSE ConfigFiles[i - Len(InEnvironment)]
    BY <1>3, <1>4, ConcatProperties DEF Explicit
  <2> HIDE DEF n
  <2>2. 1 + n = n + 1
    BY <1>5
  <2>3. \A i \in 1..(n + 1) : i <= 1 => i = 1
    BY <1>5
  <2> QED
    BY <1>4, <2>1, <2>2, <2>3
<1> HIDE DEF n
<1>7. Explicit[1] = inEnv
  BY <1>5, <1>6
<1>8. \A i \in 1..n : i + 1 \in 1..Len(Explicit) /\ Explicit[i + 1] = ConfigFiles[i]
  BY <1>5, <1>6
<1>9. ASSUME NEW i \in 1..Len(Explicit), NEW j \in 1..Len(Explicit), i # j
      PROVE  Explicit[i].path # Explicit[j].path
  <2>1. CASE i = 1
    <3>1. j - 1 \in 1..n /\ Explicit[j] = ConfigFiles[j - 1]
      BY <1>5, <1>6, <1>9, <2>1
    <3> QED
      BY <1>1, <1>3, <1>7, <2>1, <3>1 DEF n
  <2>2. CASE j = 1
    <3>1. i - 1 \in 1..n /\ Explicit[i] = ConfigFiles[i - 1]
      BY <1>5, <1>6, <1>9, <2>2
    <3> QED
      BY <1>1, <1>3, <1>7, <2>2, <3>1 DEF n
  <2>3. CASE i # 1 /\ j # 1
    <3>1. /\ i - 1 \in 1..n /\ Explicit[i] = ConfigFiles[i - 1]
          /\ j - 1 \in 1..n /\ Explicit[j] = ConfigFiles[j - 1]
          /\ i - 1 # j - 1
      BY <1>5, <1>6, <1>9, <2>3
    <3> QED
      BY <1>3, <3>1 DEF n
  <2> QED
    BY <2>1, <2>2, <2>3
<1> QED
  BY <1>1, <1>6, <1>7, <1>8, <1>9 DEF n

\* The host of a name is the first that has it.
LEMMA FirstOfName ==
    ASSUME NEW S, NEW list \in Seq(S), NEW n \in Names(list)
    PROVE  \E k \in 1..Len(list) :
              /\ ResolveHost(list, n) = list[k] /\ list[k].name = n
              /\ \A i \in 1..Len(list) : list[i].name = n => k <= i
<1> DEFINE I == {i \in 1..Len(list) : list[i].name = n}
<1>1. ResolveHost(list, n) = list[IF I # {} THEN Min(I) ELSE 0]
  BY DEF ResolveHost, SelectInSeq
<1>2. I # {} /\ I \in SUBSET Nat
  BY DEF Names
<1>3. \E x \in I : \A y \in I : x <= y
  BY <1>2, LeastNat
<1>4. \A i : i \in I <=> i \in 1..Len(list) /\ list[i].name = n
  OBVIOUS
<1> HIDE DEF I
<1>5. Min(I) \in I /\ \A y \in I : Min(I) <= y
  BY <1>3 DEF Min
<1> QED
  BY <1>1, <1>2, <1>4, <1>5

\* The hosts that are named explicitly.
Counting ==
    LET inEnv == LoadFromEnvJson(sources.json)
    IN  IF inEnv = <<>> THEN LoadFromFiles(ConfigFiles) ELSE inEnv

\* They are those of the first source that says anything, and of no other.
LEMMA OneCounts ==
    ASSUME WellFormed(sources)
    PROVE  \/ /\ Counting = <<>>
              /\ \A k \in 1..Len(Explicit) : ~NamesAny(Explicit[k].text)
           \/ \E k \in 1..Len(Explicit) : WinsIn(Explicit, k) /\ Counting = Explicit[k].text
<1> DEFINE n == Len(ConfigFiles)
<1>1. /\ Explicit \in Seq(SourceFiles) /\ Len(Explicit) = n + 1
      /\ Explicit[1].text = sources.json
      /\ \A i \in 1..n : i + 1 \in 1..Len(Explicit) /\ Explicit[i + 1] = ConfigFiles[i]
  BY ExplicitTyped
<1>2. ConfigFiles \in Seq(SourceFiles) /\ n \in Nat
  BY FilesTyped
<1>3. LoadFromEnvJson(sources.json) = <<>> <=> ~NamesAny(sources.json)
  BY DEF LoadFromEnvJson, NamesAny, Absent
<1>4. CASE NamesAny(sources.json)
  <2>1. WinsIn(Explicit, 1)
    BY <1>1, <1>4 DEF WinsIn
  <2>2. Counting = Explicit[1].text
    BY <1>1, <1>3, <1>4 DEF Counting, LoadFromEnvJson, NamesAny
  <2>3. 1 \in 1..Len(Explicit)
    BY <1>1, <1>2
  <2> QED
    BY <2>1, <2>2, <2>3
<1>5. CASE ~NamesAny(sources.json)
  <2>1. Counting = LoadFromFiles(ConfigFiles)
    BY <1>3, <1>5 DEF Counting
  <2>2. ASSUME NEW i \in 1..Len(Explicit), i # 1
        PROVE  i - 1 \in 1..n /\ Explicit[i] = ConfigFiles[i - 1]
    <3>1. i - 1 \in 1..n /\ (i - 1) + 1 = i
      BY <1>1, <1>2, <2>2
    <3> QED
      BY <1>1, <3>1
  <2>3. CASE /\ LoadFromFiles(ConfigFiles) = <<>>
             /\ \A i \in 1..n : ~NamesAny(ConfigFiles[i].text)
    <3>1. ASSUME NEW k \in 1..Len(Explicit) PROVE ~NamesAny(Explicit[k].text)
      BY <1>1, <1>5, <2>2, <2>3
    <3> QED
      BY <2>1, <2>3, <3>1
  <2>4. ASSUME NEW k \in 1..n, WinsIn(ConfigFiles, k), LoadFromFiles(ConfigFiles) = ConfigFiles[k].text
        PROVE  \E w \in 1..Len(Explicit) : WinsIn(Explicit, w) /\ Counting = Explicit[w].text
    <3>1. k + 1 \in 1..Len(Explicit) /\ Explicit[k + 1] = ConfigFiles[k]
      BY <1>1
    <3>2. ASSUME NEW j \in 1..((k + 1) - 1) PROVE ~NamesAny(Explicit[j].text)
      <4>1. j \in 1..Len(Explicit) /\ (j # 1 => j - 1 \in 1..(k - 1))
        BY <1>1, <1>2
      <4> QED
        BY <1>1, <1>5, <2>2, <2>4, <4>1 DEF WinsIn
    <3>3. WinsIn(Explicit, k + 1)
      BY <2>4, <3>1, <3>2 DEF WinsIn
    <3> QED
      BY <2>1, <2>4, <3>1, <3>3
  <2> QED
    BY <1>2, <2>3, <2>4, FilesGive
<1> QED
  BY <1>4, <1>5

\* The first is only one.
LEMMA WinnerIsOne ==
    ASSUME NEW list \in Seq(SourceFiles), NEW k \in 1..Len(list), NEW w \in 1..Len(list),
           WinsIn(list, k), WinsIn(list, w)
    PROVE  k = w
<1>1. ~(k < w) /\ ~(w < k)
  BY DEF WinsIn
<1> QED
  BY <1>1

\* Where nothing is wrong with them, the hosts are those named explicitly, then
\* those discovered under other names, each of them once, then `local` if that is
\* still free.
LEMMA HostsAre ==
    ASSUME HostsInv, hosts # <<>>, Counting # Malformed, ~RejectUnsupportedProtocol(Counting)
    PROVE  \E added \in Seq(Discovered) :
                  /\ \A i \in 1..Len(added) : added[i].name \notin Names(Counting)
                  /\ \A i, k \in 1..Len(added) : i # k => added[i].name # added[k].name
                  /\ hosts = EnsureLocal(Counting \o added)
<1> DEFINE found == LoadFromSshConfig(sources.ssh)
           others == {i \in DOMAIN found : found[i].name \notin Names(Counting)}
           added == MembersAt(found, others)
<1>1. sources.ssh \in {Absent, Malformed} \cup HostsFrom("ssh")
  BY DEF HostsInv, WellFormed, TextsOf
<1>2. hosts = EnsureLocal(MergeHosts(Counting, found))
  BY DEF HostsInv, LoadHosts, Counting
<1>3. hosts = EnsureLocal(Counting \o added)
  BY <1>2 DEF MergeHosts, Additional
<1>4. /\ found \in Seq(Discovered)
      /\ \A i, k \in 1..Len(found) : i # k => found[i].name # found[k].name
  BY <1>1, DiscoveredOnce
<1> HIDE DEF found
<1> HIDE DEF others
<1>5. /\ added \in Seq(Discovered)
      /\ \E where \in [1..Len(added) -> {j \in DOMAIN found : j \in others}] :
            /\ \A i \in 1..Len(added) : added[i] = found[where[i]]
            /\ \A i, k \in 1..Len(added) : i # k => where[i] # where[k]
  <2>1. found \in Seq(Discovered)
    BY <1>4
  <2> QED
    BY <2>1, KeptHosts
<1> HIDE DEF added
<1>6. PICK where \in [1..Len(added) -> {j \in DOMAIN found : j \in others}] :
            /\ \A i \in 1..Len(added) : added[i] = found[where[i]]
            /\ \A i, k \in 1..Len(added) : i # k => where[i] # where[k]
  BY <1>5
<1>7. \A i \in 1..Len(added) : added[i].name \notin Names(Counting)
  BY <1>6 DEF others
<1>8. ASSUME NEW i \in 1..Len(added), NEW k \in 1..Len(added), i # k
      PROVE  added[i].name # added[k].name
  <2>1. where[i] \in 1..Len(found) /\ where[k] \in 1..Len(found) /\ where[i] # where[k]
    BY <1>4, <1>6, <1>8
  <2> QED
    BY <1>4, <1>6, <2>1
<1> QED
  BY <1>3, <1>5, <1>7, <1>8

\* Hosts put together like that, from explicit ones of a source: those keep their
\* places, the others have names of their own, and `local` is among them.
LEMMA Together ==
    ASSUME NEW src, src \notin {"ssh", "builtin"},
           NEW explicit \in HostsFrom(src), NEW added \in Seq(Discovered),
           \A i \in 1..Len(added) : added[i].name \notin Names(explicit),
           \A i, k \in 1..Len(added) : i # k => added[i].name # added[k].name,
           hosts = EnsureLocal(explicit \o added)
    PROVE  /\ "local" \in Names(hosts)
           /\ \A n \in Names(explicit) : ResolveHost(hosts, n) = ResolveHost(explicit, n)
           /\ \A i \in DOMAIN hosts :
                 hosts[i].from \in {"ssh", "builtin"} \/ (explicit # <<>> /\ hosts[i].from = src)
           /\ \A i, j \in DOMAIN hosts :
                 hosts[i].from \in {"ssh", "builtin"} /\ hosts[j].name = hosts[i].name => i = j
<1> DEFINE Named == [name : STRING, from : {src}, protocol : STRING]
           Host == Named \cup Discovered \cup {LocalHost}
           l == Len(explicit)
           m == Len(explicit) + Len(added)
           merged == explicit \o added
<1>2. /\ explicit \in Seq(Host) /\ added \in Seq(Host)
      /\ \A i \in 1..Len(explicit) : explicit[i].from = src
      /\ \A i \in 1..Len(added) : added[i].from = "ssh"
      /\ l \in Nat /\ m \in Nat /\ l <= m
  <2>1. explicit \in Seq(Named)
    BY DEF HostsFrom
  <2>2. \A h \in Named : h \in Host /\ h.from = src
    OBVIOUS
  <2>3. \A h \in Discovered : h \in Host /\ h.from = "ssh"
    BY DEF Discovered
  <2> HIDE DEF Named, Host
  <2>4. /\ \A i \in 1..Len(explicit) : explicit[i] \in Named
        /\ \A i \in 1..Len(added) : added[i] \in Discovered
    BY <2>1
  <2>5. l \in Nat /\ m \in Nat /\ l <= m
    <3>1. Len(explicit) \in Nat /\ Len(added) \in Nat
      BY <2>1
    <3> QED
      BY <3>1
  <2> QED
    BY <2>1, <2>2, <2>3, <2>4, <2>5
<1>3. /\ merged \in Seq(Host) /\ Len(merged) = m
      /\ \A i \in 1..l : merged[i] = explicit[i]
      /\ \A i \in (l + 1)..m : (i - l) \in 1..Len(added) /\ merged[i] = added[i - l]
  <2>1. /\ merged \in Seq(Host) /\ Len(merged) = m
        /\ \A i \in 1..m : merged[i] = IF i <= l THEN explicit[i] ELSE added[i - l]
    BY <1>2, ConcatProperties
  <2>2. Len(explicit) \in Nat /\ Len(added) \in Nat
    BY <1>2
  <2>3. \A i \in 1..l : i \in 1..m /\ i <= l
    BY <2>2
  <2>4. \A i \in (l + 1)..m : i \in 1..m /\ ~(i <= l) /\ (i - l) \in 1..Len(added)
    BY <2>2
  <2> HIDE DEF l, m, merged
  <2> QED
    BY <2>1, <2>3, <2>4
<1>4. /\ LocalHost \in Host
      /\ LocalHost.name = "local" /\ LocalHost.from = "builtin"
  <2>1. LocalHost.name = "local" /\ LocalHost.from = "builtin"
    BY DEF LocalHost
  <2> QED
    BY <2>1
<1> HIDE DEF merged, Host
<1>5. /\ hosts \in Seq(Host)
      /\ \A i \in 1..m : i \in 1..Len(hosts) /\ hosts[i] = merged[i]
      /\ \A i \in 1..Len(hosts) : i > m =>
            /\ hosts[i] = LocalHost /\ i = m + 1
            /\ \A j \in 1..m : hosts[j].name # "local"
      /\ "local" \in Names(hosts)
  <2>1. CASE "local" \in Names(merged)
    BY <1>2, <1>3, <2>1 DEF EnsureLocal, merged
  <2>2. CASE "local" \notin Names(merged)
    <3>1. hosts = Append(merged, LocalHost)
      BY <2>2 DEF EnsureLocal, merged
    <3>2. /\ hosts \in Seq(Host) /\ Len(hosts) = m + 1
          /\ \A i \in 1..m : hosts[i] = merged[i]
          /\ hosts[m + 1] = LocalHost
      <4> HIDE DEF l, m
      <4> QED
        BY <1>2, <1>3, <1>4, <3>1, AppendProperties
    <3>3. \A j \in 1..m : merged[j].name # "local"
      BY <1>3, <2>2 DEF Names
    <3>4. "local" \in Names(hosts)
      BY <1>2, <1>4, <3>2 DEF Names
    <3>5. m \in Nat /\ Len(hosts) = m + 1
      BY <1>2, <3>2
    <3> HIDE DEF m
    <3>6. /\ \A i \in 1..Len(hosts) : i > m => i = m + 1
          /\ \A i \in 1..m : i \in 1..Len(hosts)
      BY <3>5
    <3> QED
      BY <3>2, <3>3, <3>4, <3>5, <3>6
  <2> QED
    BY <2>1, <2>2
\* The three parts of the hosts, by their positions.
<1>6. /\ \A i \in 1..l : i \in 1..Len(hosts) /\ hosts[i] = explicit[i] /\ hosts[i].from = src
      /\ \A i \in (l + 1)..m : hosts[i].from = "ssh" /\ hosts[i].name \notin Names(explicit)
      /\ \A i, k \in (l + 1)..m : i # k => hosts[i].name # hosts[k].name
      /\ \A i \in 1..Len(hosts) : i \in 1..l \/ i \in (l + 1)..m \/ i > m
  <2>1. \A i \in 1..l : i \in 1..Len(hosts) /\ hosts[i] = explicit[i] /\ hosts[i].from = src
    BY <1>2, <1>3, <1>5
  <2>2. \A i \in (l + 1)..m : i \in 1..m /\ (i - l) \in 1..Len(added) /\ hosts[i] = added[i - l]
    BY <1>2, <1>3, <1>5
  <2>3. \A i \in (l + 1)..m : hosts[i].from = "ssh" /\ hosts[i].name \notin Names(explicit)
    BY <1>2, <2>2
  <2>4. \A i, k \in (l + 1)..m : i # k => hosts[i].name # hosts[k].name
    <3> SUFFICES ASSUME NEW i \in (l + 1)..m, NEW k \in (l + 1)..m, i # k
                 PROVE  hosts[i].name # hosts[k].name
      OBVIOUS
    <3>1. i - l # k - l
      BY <1>2
    <3> QED
      BY <2>2, <3>1
  <2>5. \A i \in 1..Len(hosts) : i \in 1..l \/ i \in (l + 1)..m \/ i > m
    BY <1>2
  <2> QED
    BY <2>1, <2>3, <2>4, <2>5
<1> HIDE DEF l, m
<1>7. ASSUME NEW n \in Names(explicit)
      PROVE  ResolveHost(hosts, n) = ResolveHost(explicit, n)
  <2>1. PICK k \in 1..Len(explicit) :
          /\ ResolveHost(explicit, n) = explicit[k] /\ explicit[k].name = n
          /\ \A i \in 1..Len(explicit) : explicit[i].name = n => k <= i
    BY <1>2, <1>7, FirstOfName
  <2>2. k \in 1..l /\ k \in 1..Len(hosts) /\ hosts[k].name = n
    BY <1>6, <2>1 DEF l
  <2>3. n \in Names(hosts)
    BY <1>5, <2>2 DEF Names
  <2>4. PICK h \in 1..Len(hosts) :
          /\ ResolveHost(hosts, n) = hosts[h] /\ hosts[h].name = n
          /\ \A i \in 1..Len(hosts) : hosts[i].name = n => h <= i
    BY <1>5, <2>3, FirstOfName
  <2>5. h <= k /\ h \in 1..l
    BY <1>2, <2>2, <2>4
  <2>6. k <= h
    BY <1>6, <2>1, <2>4, <2>5 DEF l
  <2>7. h = k
    BY <2>5, <2>6
  <2> QED
    BY <1>6, <2>1, <2>2, <2>4, <2>7
<1>8. ASSUME NEW i \in 1..Len(hosts)
      PROVE  hosts[i].from \in {"ssh", "builtin"} \/ (explicit # <<>> /\ hosts[i].from = src)
  <2>1. i \in 1..l => explicit # <<>>
    BY DEF l
  <2> QED
    BY <1>4, <1>5, <1>6, <2>1
<1>9. ASSUME NEW i \in 1..Len(hosts), NEW j \in 1..Len(hosts),
             hosts[i].from \in {"ssh", "builtin"}, hosts[j].name = hosts[i].name
      PROVE  i = j
  <2>1. i \notin 1..l
    BY <1>6, <1>9
  <2>2. CASE i \in (l + 1)..m
    <3>1. ASSUME j \in 1..l PROVE FALSE
      <4>1. hosts[j] = explicit[j] /\ j \in 1..Len(explicit)
        BY <1>6, <3>1 DEF l
      <4>2. hosts[j].name \in Names(explicit)
        BY <1>2, <4>1 DEF Names
      <4> QED
        BY <1>6, <1>9, <2>2, <4>2
    <3>2. ASSUME j > m PROVE FALSE
      <4>1. i \in 1..m
        BY <1>2, <2>2
      <4> QED
        BY <1>4, <1>5, <1>9, <3>2, <4>1
    <3> QED
      BY <1>6, <1>9, <2>2, <3>1, <3>2
  <2>3. CASE i > m
    <3>1. hosts[i] = LocalHost /\ i = m + 1 /\ \A k \in 1..m : hosts[k].name # "local"
      BY <1>5, <2>3
    <3>2. j \notin 1..m
      BY <1>4, <1>9, <3>1
    <3>3. j > m
      BY <1>2, <3>2
    <3> QED
      BY <1>5, <3>1, <3>3
  <2> QED
    BY <1>6, <2>1, <2>2, <2>3
<1>10. hosts \in Seq(Host)
  BY <1>5
<1> QED
  BY <1>5, <1>7, <1>8, <1>9, <1>10

\* A source that hosts are read from is no other's.
LEMMA PathsAreSources ==
    ASSUME NEW f \in SourceFiles
    PROVE  f.path \notin {"ssh", "builtin"} /\ f.text \in TextsOf(f.path)
<1>1. PICK path \in SourcePaths : f \in FilesAt(path)
  BY DEF SourceFiles
<1>2. f.path = path /\ f.text \in TextsOf(path)
  BY <1>1 DEF FilesAt
<1>3. path \notin {"ssh", "builtin"}
  BY DEF SourcePaths, DefaultFiles
<1> QED
  BY <1>2, <1>3

\* The hosts of the sources are as the precedence has it.
LEMMA ExplicitFollows == HostsInv => ExplicitHostsWin
<1> SUFFICES ASSUME HostsInv, hosts # <<>>
             PROVE  /\ FirstWins(Explicit)
                    /\ hosts # LoadError =>
                          /\ "local" \in Names(hosts)
                          /\ \A i, j \in DOMAIN hosts :
                                hosts[i].from \in {"ssh", "builtin"} /\ hosts[j].name = hosts[i].name
                                   => i = j
  BY DEF ExplicitHostsWin, Explicit
<1> DEFINE Faulty(text) == text = Malformed \/ RejectUnsupportedProtocol(text)
<1>1. WellFormed(sources)
  BY DEF HostsInv
<1>2. /\ Explicit \in Seq(SourceFiles)
      /\ \A i, j \in 1..Len(Explicit) : i # j => Explicit[i].path # Explicit[j].path
  BY <1>1, ExplicitTyped
<1>3. \/ /\ Counting = <<>>
         /\ \A k \in 1..Len(Explicit) : ~NamesAny(Explicit[k].text)
      \/ \E k \in 1..Len(Explicit) : WinsIn(Explicit, k) /\ Counting = Explicit[k].text
  BY <1>1, OneCounts
<1>4. \A k \in 1..Len(Explicit) : WinsIn(Explicit, k) => Counting = Explicit[k].text
  <2> SUFFICES ASSUME NEW k \in 1..Len(Explicit), WinsIn(Explicit, k)
               PROVE  Counting = Explicit[k].text
    OBVIOUS
  <2>1. NamesAny(Explicit[k].text)
    BY DEF WinsIn
  <2>2. PICK w \in 1..Len(Explicit) : WinsIn(Explicit, w) /\ Counting = Explicit[w].text
    BY <1>3, <2>1
  <2>3. k = w
    BY <1>2, <2>2, WinnerIsOne
  <2> QED
    BY <2>2, <2>3
<1>5. CASE Faulty(Counting)
  <2>1. hosts = LoadError
    BY <1>5 DEF HostsInv, LoadHosts, Counting
  <2>2. Counting # <<>>
    <3>1. Malformed # <<>>
      BY DEF Malformed
    <3>2. ~RejectUnsupportedProtocol(<<>>)
      BY DEF RejectUnsupportedProtocol
    <3> QED
      BY <1>5, <3>1, <3>2
  <2>3. FirstWins(Explicit)
    BY <1>2, <1>3, <1>5, <2>1, <2>2 DEF FirstWins, WinsIn
  <2> QED
    BY <2>1, <2>3
<1>6. ASSUME ~Faulty(Counting), NEW src, src \notin {"ssh", "builtin"},
             Counting \in HostsFrom(src),
             \A k \in 1..Len(Explicit) :
                IF WinsIn(Explicit, k) THEN TRUE ELSE Counting = <<>> \/ Explicit[k].path # src,
             \A k \in 1..Len(Explicit) : Explicit[k].path \notin {"ssh", "builtin"}
      PROVE  /\ FirstWins(Explicit)
             /\ hosts # LoadError =>
                   /\ "local" \in Names(hosts)
                   /\ \A i, j \in DOMAIN hosts :
                         hosts[i].from \in {"ssh", "builtin"} /\ hosts[j].name = hosts[i].name
                            => i = j
  <2>1. PICK added \in Seq(Discovered) :
           /\ \A i \in 1..Len(added) : added[i].name \notin Names(Counting)
           /\ \A i, k \in 1..Len(added) : i # k => added[i].name # added[k].name
           /\ hosts = EnsureLocal(Counting \o added)
    BY <1>6, HostsAre
  <2> HIDE DEF Faulty
  <2>2. /\ "local" \in Names(hosts)
        /\ \A n \in Names(Counting) : ResolveHost(hosts, n) = ResolveHost(Counting, n)
        /\ \A i \in DOMAIN hosts :
              hosts[i].from \in {"ssh", "builtin"} \/ (Counting # <<>> /\ hosts[i].from = src)
        /\ \A i, j \in DOMAIN hosts :
              hosts[i].from \in {"ssh", "builtin"} /\ hosts[j].name = hosts[i].name => i = j
    BY <1>6, <2>1, Together
  <2>3. hosts # LoadError
    <3> DEFINE e == [name |-> "", from |-> "error", protocol |-> ""]
    <3>1. LoadError = <<e>> /\ e.name = ""
      BY DEF LoadError
    <3> HIDE DEF e
    <3> DEFINE S == {e}
    <3>2. e \in S /\ \A x \in S : x = e
      OBVIOUS
    <3> HIDE DEF S
    <3>3. \A i \in DOMAIN LoadError : LoadError[i] = e
      <4>1. <<e>> \in Seq(S)
        BY <3>2
      <4>2. \A i \in DOMAIN <<e>> : <<e>>[i] \in S
        BY <4>1
      <4> QED
        BY <3>1, <3>2, <4>2
    <3>4. "local" \notin Names(LoadError)
      BY <3>1, <3>3 DEF Names
    <3> QED
      BY <2>2, <3>4
  <2>4. \A k \in 1..Len(Explicit) : WinsIn(Explicit, k) =>
           /\ ~Faulty(Explicit[k].text)
           /\ \A n \in Names(Explicit[k].text) :
                 ResolveHost(hosts, n) = ResolveHost(Explicit[k].text, n)
    BY <1>4, <1>6, <2>2
  <2>5. \A k \in 1..Len(Explicit) : ~WinsIn(Explicit, k) =>
           \A i \in DOMAIN hosts : hosts[i].from # Explicit[k].path
    BY <1>6, <2>2
  <2>6. FirstWins(Explicit)
    <3>1. DOMAIN Explicit = 1..Len(Explicit)
      BY <1>2
    <3>2. \A k : WinsIn(Explicit, k) <=>
             /\ NamesAny(Explicit[k].text)
             /\ \A j \in 1..(k - 1) : ~NamesAny(Explicit[j].text)
      BY DEF WinsIn
    <3> HIDE DEF WinsIn
    <3> QED
      BY <2>3, <2>4, <2>5, <3>1, <3>2 DEF FirstWins, Faulty
  <2> QED
    BY <2>2, <2>6
<1>7. CASE ~Faulty(Counting)
  <2> HIDE DEF Faulty
  <2>1. \A k \in 1..Len(Explicit) : Explicit[k].path \notin {"ssh", "builtin"}
    BY <1>2, PathsAreSources
  <2>2. CASE Counting = <<>>
    <3>1. <<>> \in HostsFrom("env")
      BY DEF HostsFrom
    <3>2. "env" \notin {"ssh", "builtin"}
      OBVIOUS
    <3> QED
      BY <1>6, <1>7, <2>1, <2>2, <3>1, <3>2
  <2>3. ASSUME NEW w \in 1..Len(Explicit), WinsIn(Explicit, w), Counting = Explicit[w].text
        PROVE  /\ FirstWins(Explicit)
               /\ hosts # LoadError =>
                     /\ "local" \in Names(hosts)
                     /\ \A i, j \in DOMAIN hosts :
                           hosts[i].from \in {"ssh", "builtin"} /\ hosts[j].name = hosts[i].name
                              => i = j
    <3> DEFINE src == Explicit[w].path
    <3>1. src \notin {"ssh", "builtin"} /\ Counting \in TextsOf(src)
      BY <1>2, <2>3, PathsAreSources
    <3>2. Counting \in HostsFrom(src)
      BY <1>7, <2>3, <3>1 DEF TextsOf, WinsIn, NamesAny, Faulty
    <3>3. \A k \in 1..Len(Explicit) :
             IF WinsIn(Explicit, k) THEN TRUE ELSE Counting = <<>> \/ Explicit[k].path # src
      BY <1>2, <2>3
    <3> QED
      BY <1>6, <1>7, <2>1, <3>1, <3>2, <3>3
  <2> QED
    BY <1>3, <2>2, <2>3
<1> QED
  BY <1>5, <1>7

\* Whatever the host sources hold, in however many files and with however many
\* hosts: the hosts an operation finds are those of the first explicit source that
\* names any, entirely, and of no other; a discovered host only gets a free name,
\* once; `local` is always there; and an operation fails on its hosts exactly when
\* that first source is malformed or names a protocol that is not supported
\* (ExplicitHostsWin).
THEOREM HostsRanked == ConfigSpec => []ExplicitHostsWin
<1>1. ConfigInit => HostsInv
  BY HostsInvInit
<1>2. HostsInv /\ [ConfigNext]_configVars => HostsInv'
  BY HostsInvStep
<1>3. HostsInv => ExplicitHostsWin
  BY ExplicitFollows
<1> QED
  BY <1>1, <1>2, <1>3, PTL DEF ConfigSpec
=============================================================================
