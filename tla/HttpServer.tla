----------------------------- MODULE HttpServer ------------------------------
(***************************************************************************)
(* The HTTP server (server/routes.rs, api.rs, mcp/rmcp_server.rs):         *)
(* requests for /mcp and /v1/synapse2 pass the auth layer, where one is    *)
(* mounted, then wait their turn for one of the permits of the concurrency *)
(* limit, then run an operation and answer.  Clients may go away while     *)
(* they wait or are served.  What operations do, and how they end, is in   *)
(* ActionRun; the status codes are left out.                               *)
(*                                                                         *)
(* Requests are slots: an answered one stands for the next to come.        *)
(***************************************************************************)
EXTENDS Naturals, FiniteSets, SequencesExt, Queues

CONSTANTS
    Requests,
    Limits,      \* values of SYNAPSE_MCP_MAX_CONCURRENCY
    MaxPermits   \* Semaphore::MAX_PERMITS: more than ever are in use

ASSUME RequestsAssumption == IsFiniteSet(Requests)
ASSUME LimitsAssumption ==
    /\ Limits \subseteq Nat
    /\ MaxPermits \in Nat /\ MaxPermits >= Cardinality(Requests) /\ MaxPermits > 0

Policies == {"LoopbackDev", "TrustedGatewayUnscoped", "MountedBearer", "MountedOAuth"}
Mounted(p) == p \in {"MountedBearer", "MountedOAuth"}
Routes == {"/mcp", "/v1/synapse2", "/openapi.json", "/health"}   \* /status is like /health
Credentials == {"none", "valid"}   \* invalid ones are as good as none

VARIABLES
    policy, limit,   \* the configuration
    stage,      \* of a request: idle, received, waiting, served
    route, credential,
    queue,      \* the waiters of the semaphore
    permits     \* permits left

config == <<policy, limit>>
vars == <<config, stage, route, credential, queue, permits>>

Permits(n) == IF n = 0 THEN MaxPermits ELSE n

Init ==
    /\ policy \in Policies
    /\ limit \in Limits
    /\ stage = [r \in Requests |-> "idle"]
    /\ route = [r \in Requests |-> "/health"]
    /\ credential = [r \in Requests |-> "none"]
    /\ queue = <<>>
    /\ permits = Permits(limit)

Receive(r) ==
    /\ stage[r] = "idle"
    /\ \E p \in Routes, c \in Credentials :
        /\ route' = [route EXCEPT ![r] = p]
        /\ credential' = [credential EXCEPT ![r] = c]
    /\ stage' = [stage EXCEPT ![r] = "received"]
    /\ UNCHANGED <<config, queue, permits>>

\* The layers of a route, the outermost first; /health and /status have none.
Layers(path) ==
    LET auth == IF Mounted(policy) THEN <<"auth">> ELSE <<>>
    IN  CASE path \in {"/mcp", "/v1/synapse2"} -> auth \o <<"limit">>
          [] path = "/openapi.json" -> auth
          [] OTHER -> <<>>

\* Faulty variant of Passes: the limit is the outer layer.
PassesAny(r, layers) == TRUE

\* Does the request get as far as the limit, or the handler?
Passes(r, layers) == Contains(layers, "auth") => credential[r] = "valid"

\* The slot is free again.
Done(r) == [stage EXCEPT ![r] = "idle"]
Forget(r) ==
    /\ route' = [route EXCEPT ![r] = "/health"]
    /\ credential' = [credential EXCEPT ![r] = "none"]

\* A permit that comes back goes to the first waiter.
Release(s) ==
    IF queue = <<>> THEN permits' = permits + 1 /\ stage' = s /\ UNCHANGED queue
    ELSE /\ stage' = [s EXCEPT ![Head(queue)] = "served"]
         /\ queue' = Tail(queue)
         /\ UNCHANGED permits

\* A probe, or a request that is turned away, is answered without a permit.
AnswerAtOnce(r) ==
    /\ stage[r] = "received"
    /\ ~Passes(r, Layers(route[r])) \/ ~Contains(Layers(route[r]), "limit")
    /\ stage' = Done(r) /\ Forget(r)
    /\ UNCHANGED <<config, queue, permits>>

\* acquire_owned is fair: nobody passes a waiter.
Acquire(r) ==
    /\ stage[r] = "received"
    /\ Passes(r, Layers(route[r])) /\ Contains(Layers(route[r]), "limit")
    /\ IF permits > 0
       THEN /\ permits' = permits - 1
            /\ stage' = [stage EXCEPT ![r] = "served"]
            /\ UNCHANGED queue
       ELSE /\ queue' = Append(queue, r)
            /\ stage' = [stage EXCEPT ![r] = "waiting"]
            /\ UNCHANGED permits
    /\ UNCHANGED <<config, route, credential>>

\* The operation has ended and its answer goes out.
Respond(r) ==
    /\ stage[r] = "served"
    /\ Release(Done(r)) /\ Forget(r)
    /\ UNCHANGED config

\* Faulty variant of Disconnect: the permit goes down with the request.
LosesPermit(r) ==
    /\ stage[r] \in {"waiting", "served"}
    /\ stage' = Done(r) /\ Forget(r)
    /\ queue' = Without(queue, r)
    /\ UNCHANGED <<config, permits>>

\* The client goes away: the future is dropped, with its place in the queue or its
\* permit.
Disconnect(r) ==
    /\ \/ /\ stage[r] = "waiting"
          /\ stage' = Done(r)
          /\ queue' = Without(queue, r)
          /\ UNCHANGED permits
       \/ stage[r] = "served" /\ Release(Done(r))
    /\ Forget(r)
    /\ UNCHANGED config

Next == \E r \in Requests : Receive(r) \/ AnswerAtOnce(r) \/ Acquire(r) \/ Respond(r) \/ Disconnect(r)

\* A request that has come is routed, and every operation ends by its deadline; a
\* read of a resource has none, but each of its commands has.
Fairness ==
    \A r \in Requests :
        WF_vars(AnswerAtOnce(r)) /\ WF_vars(Acquire(r)) /\ WF_vars(Respond(r))

Spec == Init /\ [][Next]_vars /\ Fairness

-----------------------------------------------------------------------------
Served == {r \in Requests : stage[r] = "served"}
Limited == {"/mcp", "/v1/synapse2"}

\* Never more requests are served than the limit allows, none waits while there is
\* a permit, and none of those that wait or are served lacks valid credentials
\* where they are asked for: whoever is turned away takes nobody's turn.
LimitHolds ==
    /\ permits + Cardinality(Served) = Permits(limit)
    /\ limit > 0 => Cardinality(Served) <= limit
    /\ {r \in Requests : stage[r] = "waiting"} = ToSet(queue)
    /\ queue # <<>> => permits = 0
    /\ \A r \in Served \cup ToSet(queue) :
          route[r] \in Limited /\ (Mounted(policy) => credential[r] = "valid")

\* However many others come and go, every request has its turn: it is answered or
\* its client is gone.  A limit of 0 keeps nobody waiting.
TurnComes == \A r \in Requests : stage[r] # "idle" ~> stage[r] = "idle"
=============================================================================
