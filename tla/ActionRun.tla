----------------------------- MODULE ActionRun ------------------------------
(***************************************************************************)
(* Requests that run operations of the services on hosts: from the scope   *)
(* check of the surface they arrive by (REST, MCP, command line), through  *)
(* the confirmation of destructive ones (elicitation_gate.rs), to the      *)
(* calls of daemons and the commands on the hosts, whose replies may be    *)
(* errors or get lost; under a deadline (runtime_budget.rs).  A change     *)
(* whose reply nobody waits for any more may still take effect, now or     *)
(* later.  What an operation does is data: the programs of Actions and     *)
(* Surfaces, interpreted here.                                             *)
(*                                                                         *)
(* Every daemon has one container, the one the requests are about; two     *)
(* hosts may lead to the same daemon.  Of a host's cached Docker client it *)
(* matters here only whether its transport is dead (DockerClients has the  *)
(* rest): "usable" is a live client or none.                               *)
(***************************************************************************)
EXTENDS Surfaces, Lists

CONSTANTS
    Requests,
    HostList,      \* the hosts, in the order of the repository
    Daemons,
    DaemonMaps,    \* ways the hosts lead to daemons
    Worlds,        \* states of the containers at the start
    Menu,          \* Menu[r]: the operations r may ask for
    Callers,       \* the callers considered
    NoHost, UnknownHost

Hosts == {HostList[i] : i \in DOMAIN HostList}

AllCallers ==
    [surface : {"rest", "mcp"}, mounted : BOOLEAN,
     scopes : SUBSET {READ_SCOPE, WRITE_SCOPE}, allowDestructive : BOOLEAN]
      \cup [surface : {"cli"}, mounted : {FALSE}, scopes : {{}}, allowDestructive : {FALSE}]

\* What the surfaces offer; REST has no operation of its own.
AllOperations == Operations \cup ReadResource \cup CliCommands

ASSUME MenuAssumption == \A r \in Requests : Menu[r] \subseteq AllOperations
ASSUME CallersAssumption == Callers \subseteq AllCallers
ASSUME HostsAssumption ==
    /\ HostList \in Seq(Hosts)
    /\ NoHost \notin Hosts /\ UnknownHost \notin Hosts /\ NoHost # UnknownHost
ASSUME MapsAssumption ==
    /\ DaemonMaps \subseteq [Hosts -> Daemons]
    /\ Worlds \subseteq [Daemons -> {"absent", "stopped", "running"}]

VARIABLES
    daemon,    \* the daemon each host leads to
    cont,      \* the container of each daemon
    client,    \* the cached client of each host
    op, host, caller,   \* the request: operation, host asked for, who asks
    phase,     \* 0 before it arrives, then the phase of the program
    targets,   \* the hosts it works on, in order
    owner,     \* the one host, once named or found
    other,     \* the second host named
    lane,      \* lane[r][h]: where the body of the phase is on h
    gate, asked, user,  \* the confirmation: its state, hosts named, user's reply
    issued,    \* changes sent
    done,      \* changes that took effect
    late,      \* changes that still may: nobody waits for their replies
    blurred,   \* hosts that failed with a change done there, or in doubt
    stale,     \* hosts whose transport was found dead, and in which phase
    answer

world == <<cont, client, late>>
request == <<op, host, caller>>
course == <<targets, owner, other>>
confirmation == <<gate, asked, user>>
record == <<issued, done, blurred, stale>>
vars == <<daemon, world, request, phase, course, lane, confirmation, record, answer>>

NoOp == Op("none", "", <<>>)
Idle == [at |-> 1, st |-> "idle"]
Fresh == [h \in Hosts |-> Idle]

Init ==
    /\ daemon \in DaemonMaps
    /\ cont \in Worlds
    /\ client = [h \in Hosts |-> "usable"]
    /\ op = [r \in Requests |-> NoOp]
    /\ host = [r \in Requests |-> NoHost]
    /\ caller \in [Requests -> Callers]
    /\ phase = [r \in Requests |-> 0]
    /\ targets = [r \in Requests |-> <<>>]
    /\ owner = [r \in Requests |-> NoHost]
    /\ other = [r \in Requests |-> NoHost]
    /\ lane = [r \in Requests |-> Fresh]
    /\ gate = [r \in Requests |-> "none"]
    /\ asked = [r \in Requests |-> {}]
    /\ user = [r \in Requests |-> "silent"]
    /\ issued = [r \in Requests |-> {}]
    /\ done = [r \in Requests |-> {}]
    /\ late = [r \in Requests |-> {}]
    /\ blurred = [r \in Requests |-> {}]
    /\ stale = [r \in Requests |-> {}]
    /\ answer = [r \in Requests |-> "none"]

Prog(r) == op[r].prog
Phase(r) == Prog(r)[phase[r]]
Running(r) == phase[r] > 0 /\ answer[r] = "none"
At(r, kinds) == Running(r) /\ phase[r] <= Len(Prog(r)) /\ Phase(r).do \in kinds

Advance(r) ==
    /\ phase' = [phase EXCEPT ![r] = @ + 1]
    /\ lane' = [lane EXCEPT ![r] = Fresh]
    /\ UNCHANGED answer

Answer(r, a) ==
    /\ answer' = [answer EXCEPT ![r] = a]
    /\ UNCHANGED <<phase, lane>>

-----------------------------------------------------------------------------
(* Arrival and the checks before any host is involved *)

\* Without a mounted policy (loopback, trusted gateway) nothing is checked.
EnforceRestScope(c, o) ==
    c.mounted => ScopesSatisfy(c.scopes, RequiredScopeForParsedAction(o))

\* Resources require valid credentials and no scope.
CheckScope(c, o) ==
    c.mounted /\ o.action # "resource" =>
        ScopesSatisfy(c.scopes, RequiredScopeForParsedAction(o))

Permitted(c, o) ==
    CASE c.surface = "rest" -> EnforceRestScope(c, o)
      [] c.surface = "mcp"  -> CheckScope(c, o)
      [] OTHER -> TRUE

Arrive(r) ==
    /\ phase[r] = 0 /\ answer[r] = "none"
    /\ \E o \in Menu[r] \cap Offered(caller[r].surface), h \in Hosts \cup {NoHost, UnknownHost} :
        /\ o.action = "resource" => h = NoHost
        /\ op' = [op EXCEPT ![r] = o]
        /\ host' = [host EXCEPT ![r] = h]
        /\ IF Permitted(caller[r], o) THEN Advance(r) ELSE Answer(r, "forbidden")
    /\ UNCHANGED <<daemon, world, caller, course, confirmation, record>>

\* A missing field is invalid parameters, a value that fails validation mostly
\* an error like any other.
Check(r) ==
    /\ \/ /\ At(r, {"require"})
          /\ \/ Answer(r, "invalid")
             \/ ("host" \in Phase(r).fields => host[r] # NoHost) /\ Advance(r)
       \/ /\ At(r, {"validate"})
          /\ Answer(r, "error") \/ Advance(r)
    /\ UNCHANGED <<daemon, world, request, course, confirmation, record>>

\* target_hosts: the named host, or all of them.
TargetHosts_(r) ==
    /\ At(r, {"target"})
    /\ IF host[r] = UnknownHost THEN Answer(r, "error") /\ UNCHANGED course
       ELSE /\ Advance(r)
            /\ targets' = [targets EXCEPT ![r] =
                              IF host[r] = NoHost THEN HostList ELSE <<host[r]>>]
            /\ owner' = [owner EXCEPT ![r] = host[r]]
            /\ UNCHANGED other
    /\ UNCHANGED <<daemon, world, request, confirmation, record>>

\* Faulty variant of ResolveHost_: a name is taken without looking it up.
TrustsName(r) ==
    /\ At(r, {"resolve"})
    /\ Advance(r)
    /\ owner' = [owner EXCEPT ![r] = host[r]]
    /\ UNCHANGED <<targets, other, daemon, world, request, confirmation, record>>

ResolveHost_(r) ==
    /\ At(r, {"resolve"})
    /\ IF host[r] \notin Hosts THEN Answer(r, "error") /\ UNCHANGED course
       ELSE /\ Advance(r)
            /\ owner' = [owner EXCEPT ![r] = host[r]]
            /\ UNCHANGED <<targets, other>>
    /\ UNCHANGED <<daemon, world, request, confirmation, record>>

\* The second host of delta and beam, the list of emit.
ResolveOthers(r) ==
    /\ \/ /\ At(r, {"other"}) /\ UNCHANGED <<targets, owner>>
          /\ \/ Answer(r, "error") /\ UNCHANGED other
             \/ Advance(r) /\ \E h \in Hosts : other' = [other EXCEPT ![r] = h]
       \/ /\ At(r, {"several"}) /\ UNCHANGED <<owner, other>>
          /\ \/ Answer(r, "error") /\ UNCHANGED targets
             \/ Advance(r) /\ \E n \in 1..Len(HostList) :
                    targets' = [targets EXCEPT ![r] = SubSeq(HostList, 1, n)]
    /\ UNCHANGED <<daemon, world, request, confirmation, record>>

\* What a named host makes unnecessary, and what the cache may.
Skip(r) ==
    /\ \/ At(r, {"discover", "probe"}) /\ host[r] # NoHost
       \/ At(r, {"cached"})
    /\ lane[r] = Fresh
    /\ Advance(r)
    /\ UNCHANGED <<daemon, world, request, course, confirmation, record>>

-----------------------------------------------------------------------------
(* The confirmation *)

\* The hosts the text may name: the one, the two, or the list.
Named(r) ==
    IF owner[r] = NoHost THEN {targets[r][i] : i \in DOMAIN targets[r]}
    ELSE {owner[r], other[r]} \ {NoHost}

\* NoConfirm and CliStderrWarn let the operation pass, DenyConfirm (REST) does
\* not, McpPeerElicit asks the user.
BuildConfirmer(c) ==
    IF c.surface = "cli" THEN "CliStderrWarn"
    ELSE IF c.allowDestructive THEN "NoConfirm"
    ELSE IF c.surface = "rest" THEN "DenyConfirm" ELSE "McpPeerElicit"

RequireConfirmation(r) ==
    /\ At(r, {"confirm"}) /\ gate[r] = "none"
    /\ asked' = [asked EXCEPT ![r] = IF Phase(r).named THEN Named(r) ELSE {}]
    /\ LET confirmer == BuildConfirmer(caller[r])
       IN  IF confirmer = "McpPeerElicit"
           THEN gate' = [gate EXCEPT ![r] = "asked"] /\ UNCHANGED <<phase, lane, answer>>
           ELSE IF confirmer = "DenyConfirm"
           THEN gate' = [gate EXCEPT ![r] = "denied"] /\ Answer(r, "denied")
           ELSE gate' = [gate EXCEPT ![r] = "granted"] /\ Advance(r)
    /\ UNCHANGED <<daemon, world, request, course, user, record>>

\* Faulty variant of Affirms: `understood` is not looked at.
AcceptsIncomplete(reply) == reply \in {"affirmed", "incomplete"}

\* map_elicit_outcome: accepted, with both confirm and understood.
Affirms(reply) == reply = "affirmed"

\* The user replies, be it too late: decline stands for cancel, an unsupported
\* client and a failed call, too.
UserReplies(r) ==
    /\ gate[r] \in {"asked", "expired"} /\ user[r] = "silent"
    /\ \E a \in {"affirmed", "incomplete", "declined"} : user' = [user EXCEPT ![r] = a]
    /\ UNCHANGED <<daemon, world, request, phase, course, lane, gate, asked, record, answer>>

Elicited(r) ==
    /\ Running(r) /\ gate[r] = "asked" /\ user[r] # "silent"
    /\ IF Affirms(user[r])
       THEN gate' = [gate EXCEPT ![r] = "granted"] /\ Advance(r)
       ELSE gate' = [gate EXCEPT ![r] = "denied"] /\ Answer(r, "denied")
    /\ UNCHANGED <<daemon, world, request, course, asked, user, record>>

\* After ELICIT_TIMEOUT.
ElicitTimeout(r) ==
    /\ Running(r) /\ gate[r] = "asked"
    /\ gate' = [gate EXCEPT ![r] = "expired"]
    /\ Answer(r, "denied")
    /\ UNCHANGED <<daemon, world, request, course, asked, user, record>>

-----------------------------------------------------------------------------
(* Work on the hosts *)

\* Faulty variant of Working: the hosts are asked all at once in every phase.
AsksAll(r) ==
    CASE Phase(r).do \in {"discover", "each", "probe", "first"} ->
            {targets[r][i] : i \in DOMAIN targets[r]}
      [] Phase(r).do = "oneOther" -> {other[r]}
      [] OTHER -> {owner[r]}

\* The hosts the phase works on now: all at once, one after the other until one
\* succeeds, or the one.
Working(r) ==
    CASE Phase(r).do \in {"discover", "each"} -> {targets[r][i] : i \in DOMAIN targets[r]}
      [] Phase(r).do \in {"probe", "first"} ->
            {targets[r][i] : i \in {j \in DOMAIN targets[r] :
                \A k \in 1..(j - 1) : lane[r][targets[r][k]].st = "err"}}
      [] Phase(r).do = "oneOther" -> {other[r]}
      [] OTHER -> {owner[r]}

Turn(r, h, st) == At(r, WorkPhases) /\ h \in Working(r) /\ lane[r][h].st = st

Current(r, h) == Phase(r).body[lane[r][h].at]

To(r, h, next) ==
    lane' = [lane EXCEPT ![r][h] =
        IF next > Len(Phase(r).body) THEN [at |-> 1, st |-> "ok"] ELSE [at |-> next, st |-> "idle"]]

Succeed(r, h) == To(r, h, lane[r][h].at + 1 + Current(r, h).ok)

\* An error is passed over, or ends the body.
Pass(r, h) ==
    /\ \E skip \in Current(r, h).err \ {Fail} : To(r, h, lane[r][h].at + 1 + skip)
    /\ UNCHANGED blurred
EndBody(r, h) ==
    /\ Fail \in Current(r, h).err
    /\ lane' = [lane EXCEPT ![r][h] = [at |-> 1, st |-> "err"]]
    /\ blurred' = IF \E c \in done[r] \cup late'[r] : c[1] = h
                  THEN [blurred EXCEPT ![r] = @ \cup {h}] ELSE blurred

\* The transport is dead: invalidate, where the error of the phase does that.
Evict(r, h, evict) ==
    /\ client' = [client EXCEPT ![h] = IF evict THEN "usable" ELSE "dead"]
    /\ stale' = [stale EXCEPT ![r] = @ \cup {<<h, Phase(r).do>>}]

TransportError(r, h) ==
    IF Current(r, h).via = "docker"
    THEN \/ Pass(r, h) /\ Evict(r, h, FALSE)
         \/ EndBody(r, h) /\ Evict(r, h, Phase(r).evict)
    ELSE (Pass(r, h) \/ EndBody(r, h)) /\ UNCHANGED <<client, stale>>

\* What the daemon does with a call: can it succeed, and the container after.
Accepts(call, c) ==
    CASE call \in {"inspect_container", "top_processes", "stats", "logs", "stop", "start",
                   "restart", "pause", "unpause"} -> c # "absent"
      [] call = "remove" -> c = "stopped"
      [] call = "create_container" -> c = "absent"
      [] call = "create_exec" -> c = "running"
      [] OTHER -> TRUE
After(call, c) ==
    CASE call \in {"start", "restart"} -> "running"
      [] call \in {"stop", "create_container"} -> "stopped"
      [] call = "remove" \/ (call = "prune_containers" /\ c = "stopped") -> "absent"
      [] OTHER -> c

\* Can the current step succeed?
Possible(r, h) ==
    LET s == Current(r, h)
    IN  s.via = "docker" /\ s.call # "client_for" =>
            client[h] = "usable" /\ Accepts(s.call, cont[daemon[h]])

Read(r, h) ==
    /\ Turn(r, h, "idle") /\ ~Current(r, h).writes
    /\ UNCHANGED <<daemon, cont, late, request, phase, course, confirmation, issued, done, answer>>
    /\ \/ Possible(r, h) /\ Succeed(r, h) /\ UNCHANGED <<client, stale, blurred>>
       \/ (Pass(r, h) \/ EndBody(r, h)) /\ UNCHANGED <<client, stale>>
       \/ Current(r, h).call # "client_for" /\ TransportError(r, h)

Send(r, h) ==
    /\ Turn(r, h, "idle") /\ Current(r, h).writes
    /\ lane' = [lane EXCEPT ![r][h].st = "sent"]
    /\ issued' = [issued EXCEPT ![r] = @ \cup {<<h, Current(r, h).call>>}]
    /\ UNCHANGED <<daemon, world, request, phase, course, confirmation, done, blurred, stale, answer>>

\* The change takes effect.
Apply(r, h) ==
    LET s == Current(r, h)
    IN  /\ Possible(r, h)
        /\ cont' = IF s.via = "docker" THEN [cont EXCEPT ![daemon[h]] = After(s.call, @)] ELSE cont
        /\ done' = [done EXCEPT ![r] = @ \cup {<<h, s.call>>}]

\* The changes of these hosts whose replies are outstanding.
UnderWay(r, hs) ==
    {<<h, Current(r, h).call>> : h \in {g \in hs : lane[r][g].st = "sent"}}

\* Nobody waits for their replies any more.
Lose(r, hs) == late' = [late EXCEPT ![r] = @ \cup UnderWay(r, hs)]

\* The reply: success; an error, and nothing is changed; or none (exec or emit
\* times out, the connection breaks), and the operation goes on in doubt.
Reply(r, h) ==
    /\ Turn(r, h, "sent")
    /\ \/ Apply(r, h) /\ Succeed(r, h) /\ UNCHANGED <<client, late, stale, blurred>>
       \/ UNCHANGED <<world, done, stale>> /\ (Pass(r, h) \/ EndBody(r, h))
       \/ /\ Lose(r, {h}) /\ UNCHANGED <<cont, done>>
          /\ \/ UNCHANGED <<client, stale>> /\ (Pass(r, h) \/ EndBody(r, h))
             \/ TransportError(r, h)
    /\ UNCHANGED <<daemon, request, phase, course, confirmation, issued, answer>>

\* A change nobody waits for takes effect, wherever its operation is by now.
Straggle(r) ==
    /\ \E c \in late[r] :
          LET d == daemon[c[1]]
          IN  /\ Accepts(c[2], cont[d])
              /\ cont' = [cont EXCEPT ![d] = After(c[2], @)]
              /\ done' = [done EXCEPT ![r] = @ \cup {c}]
              /\ late' = [late EXCEPT ![r] = @ \ {c}]
    /\ UNCHANGED <<daemon, client, request, phase, course, lane, confirmation, issued, blurred,
                   stale, answer>>

Over(r, h) == lane[r][h].st \in {"ok", "err"}
Winners(r) == {h \in Working(r) : lane[r][h].st = "ok"}
Settled(r) ==
    IF Phase(r).do \in {"probe", "first"}
    THEN Winners(r) # {} \/ \A i \in DOMAIN targets[r] : Over(r, targets[r][i])
    ELSE \A h \in Working(r) : Over(r, h)

GaveId(r, i) == lane[r][targets[r][i]].st = "ok"

\* A host before it gave the same id.
Repeats(r, i) ==
    /\ GaveId(r, i)
    /\ \E j \in 1..(i - 1) : GaveId(r, j) /\ daemon[targets[r][j]] = daemon[targets[r][i]]

\* Faulty variant of Dedupe: hosts whose daemon could not be asked are left out.
DedupeForgets(r) ==
    MembersAt(targets[r], {i \in DOMAIN targets[r] : GaveId(r, i) /\ ~Repeats(r, i)})

\* dedupe_hosts_by_daemon_id: a host is left out only if a host before it gave
\* the same id; one that gave none stays.
Dedupe(r) == MembersAt(targets[r], {i \in DOMAIN targets[r] : ~Repeats(r, i)})

\* The phase is over: a failure of some hosts is part of the answer, a failure
\* of the one host, or of every host asked in turn, is the answer.
Conclude(r) ==
    /\ At(r, WorkPhases) /\ Settled(r)
    /\ IF Phase(r).do \in {"discover", "each"} \/ Winners(r) # {}
       THEN /\ Advance(r)
            /\ targets' = IF Phase(r).do = "discover"
                          THEN [targets EXCEPT ![r] = Dedupe(r)] ELSE targets
            /\ owner' = IF Phase(r).do \in {"probe", "first"}
                        THEN [owner EXCEPT ![r] = CHOOSE h \in Winners(r) : TRUE] ELSE owner
            /\ UNCHANGED other
       ELSE Answer(r, "error") /\ UNCHANGED course
    /\ UNCHANGED <<daemon, world, request, confirmation, record>>

Finish(r) ==
    /\ Running(r) /\ phase[r] > Len(Prog(r))
    /\ Answer(r, "ok")
    /\ UNCHANGED <<daemon, world, request, course, confirmation, record>>

\* execute_service_action sets the deadline; the command line and the resources
\* of MCP call the services without it.
Timed(r) == Running(r) /\ caller[r].surface # "cli" /\ op[r].action # "resource"

\* with_operation_deadline drops the operation wherever it is; what it has sent
\* is on its way.
Deadline(r) ==
    /\ Timed(r)
    /\ Answer(r, "timeout")
    /\ Lose(r, Hosts)
    /\ UNCHANGED <<daemon, cont, client, request, course, confirmation, record>>

\* An HTTP client goes away, the command is interrupted: the operation is
\* dropped, too.
Abandon(r) ==
    /\ Running(r) /\ caller[r].surface # "mcp"
    /\ Answer(r, "dropped")
    /\ Lose(r, Hosts)
    /\ UNCHANGED <<daemon, cont, client, request, course, confirmation, record>>

Next ==
    \E r \in Requests :
        \/ Arrive(r) \/ Check(r) \/ TargetHosts_(r) \/ ResolveHost_(r) \/ ResolveOthers(r)
        \/ Skip(r) \/ RequireConfirmation(r) \/ UserReplies(r) \/ Elicited(r)
        \/ ElicitTimeout(r) \/ Conclude(r) \/ Finish(r) \/ Deadline(r) \/ Abandon(r)
        \/ Straggle(r)
        \/ \E h \in Hosts : Read(r, h) \/ Send(r, h) \/ Reply(r, h)

Spec == Init /\ [][Next]_vars

-----------------------------------------------------------------------------
Answers == {"none", "ok", "error", "invalid", "forbidden", "denied", "timeout", "dropped"}
CallsThatChange ==
    UNION {{b[i].call : i \in {j \in DOMAIN b : b[j].writes}} :
              b \in UNION {Bodies(o.prog) : o \in AllOperations}}
Changes == Hosts \X CallsThatChange
Lanes == [at : Nat \ {0}, st : {"idle", "sent", "ok", "err"}]

\* Types of the variables.
TypeOK ==
    /\ daemon \in DaemonMaps
    /\ cont \in [Daemons -> {"absent", "stopped", "running"}]
    /\ client \in [Hosts -> {"usable", "dead"}]
    /\ op \in [Requests -> AllOperations \cup {NoOp}]
    /\ host \in [Requests -> Hosts \cup {NoHost, UnknownHost}]
    /\ caller \in [Requests -> AllCallers]
    /\ phase \in [Requests -> Nat]
    /\ targets \in [Requests -> Seq(Hosts)]
    /\ owner \in [Requests -> Hosts \cup {NoHost}]
    /\ other \in [Requests -> Hosts \cup {NoHost}]
    /\ lane \in [Requests -> [Hosts -> Lanes]]
    /\ gate \in [Requests -> {"none", "asked", "granted", "denied", "expired"}]
    /\ asked \in [Requests -> SUBSET Hosts]
    /\ user \in [Requests -> {"silent", "affirmed", "incomplete", "declined"}]
    /\ issued \in [Requests -> SUBSET Changes]
    /\ done \in [Requests -> SUBSET Changes]
    /\ late \in [Requests -> SUBSET Changes]
    /\ blurred \in [Requests -> SUBSET Hosts]
    /\ stale \in [Requests -> SUBSET (Hosts \X WorkPhases)]
    /\ answer \in [Requests -> Answers]

\* A caller that is checked and has no write scope sends no change to any host,
\* by whichever of the operations: the scope tables of actions.rs agree with
\* what the services do.
ReadersChangeNothing ==
    \A r \in Requests :
        caller[r].mounted /\ WRITE_SCOPE \notin caller[r].scopes => issued[r] = {}

\* What the doc of ActionSpec and of the dispatch helpers call destructive.
Destructive ==
    {"stop", "remove", "start_exec", "remove_image", "docker build",
     "docker compose down", "docker compose restart", "docker compose up --force-recreate",
     "exec", "scp"} \cup {PruneCall[t] : t \in DOMAIN PruneCall}

\* A destructive change is sent only on the command line, under the override,
\* or after the user affirmed it in time: not over REST, not after an incomplete
\* answer, and not when the answer comes after the 10 seconds.
DestructiveOnlyAffirmed ==
    \A r \in Requests : \A c \in issued[r] :
        c[2] \in Destructive =>
            \/ caller[r].surface = "cli" \/ caller[r].allowDestructive
            \/ caller[r].surface = "mcp" /\ user[r] = "affirmed" /\ gate[r] = "granted"

\* The hosts changed are the ones the caller named, and the ones the question
\* named, if it named any: what was found before the question still is what is
\* acted on after it.
OnlyNamedHosts ==
    \A r \in Requests : \A c \in issued[r] :
        /\ asked[r] # {} => c[1] \in asked[r]
        /\ host[r] # NoHost /\ op[r].action # "emit" => c[1] \in {host[r], other[r]}

\* recreate removes the container only when nothing but its successor is
\* missing: its settings are known and the image is there.  A failure of the
\* inspection or of the pull leaves it as it was.
RecreateFailsEarly ==
    \A r \in Requests, h \in Hosts :
        <<h, "remove">> \in done[r] /\ (Turn(r, h, "idle") \/ Turn(r, h, "sent")) =>
            Current(r, h).call \in {"remove", "create_container", "start"}

\* While the hosts are asked after the discovery of their daemons, every daemon
\* is: through a host that leads to it, whichever hosts gave an id.
EveryDaemonAsked ==
    \A r \in Requests :
        At(r, {"each"}) /\ phase[r] > 1 /\ Prog(r)[phase[r] - 1].do = "discover" =>
            \A h \in Hosts : host[r] = NoHost =>
                \E i \in DOMAIN targets[r] : daemon[targets[r][i]] = daemon[h]

\* An operation on one container changes a second host only if the first failed
\* with a change done or in doubt: its reply got lost, or a later call failed.  That
\* holds of changes that take effect when the operation has gone on long since.
OneHostUnlessBlurred ==
    \A r \in Requests : \A c1, c2 \in done[r] \cup late[r] :
        op[r].action = "container" /\ c1[1] # c2[1] => {c1[1], c2[1]} \cap blurred[r] # {}

\* The container is gone only if someone answers for it: a recreate that
\* removed it and was not answered "ok", or a prune.
GoneOnlyIfReported ==
    \A d \in Daemons : cont[d] = "absent" =>
        \E r \in Requests, h \in Hosts : daemon[h] = d /\
            \/ <<h, "remove">> \in done[r] /\ answer[r] # "ok"
            \/ <<h, "prune_containers">> \in done[r]

\* An operation that goes from host to host leaves no dead client behind: where
\* the transport died, whatever becomes of the operation and of the others under
\* way, the next one connects anew.  A client stays dead only where it was found
\* dead by one of the phases that keep it.
DeadClientsEvicted ==
    \A h \in Hosts : client[h] = "dead" =>
        \E r \in Requests, kind \in WorkPhases \ {"first"} : <<h, kind>> \in stale[r]

-----------------------------------------------------------------------------
(* ActionRun implements OperationSpec.  An operation is permitted from the *)
(* start if it has no gate, and with the gate otherwise.                   *)
Promise == INSTANCE OperationSpec WITH
    state <- [r \in Requests |->
                IF answer[r] # "none" THEN "answered"
                ELSE IF phase[r] > 0 THEN "running" ELSE "waiting"],
    permit <- [r \in Requests |->
                phase[r] > 0 /\ (Gated(Prog(r)) => gate[r] = "granted")],
    changes <- issued

PromiseSpec == Promise!Spec
=============================================================================
