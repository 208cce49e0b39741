---------------------------- MODULE DockerClients ----------------------------
(***************************************************************************)
(* The Docker client cache (src/src/docker_client/cache.rs) and the        *)
(* forwarded sockets its clients own (src/src/ssh/forward.rs).             *)
(*                                                                         *)
(* A remote client is built by checking a session out of the SSH pool and  *)
(* forwarding a unix socket over it.  The path of the socket depends on    *)
(* the host and the process only, so every client of a host, old or new,   *)
(* uses the same path.  A client lives as long as the cache or a call      *)
(* refers to it; the last reference gone, it unlinks the path and cancels  *)
(* the forward in a detached task.                                         *)
(*                                                                         *)
(* As in SshPool a client is named by the cell it initialises.  Of the SSH *)
(* pool only the session it has for each host is kept (see SshPool); what  *)
(* the ssh master does with a forward is modelled from how forward.rs uses *)
(* it: a session has at most one forward for the path, and a request for   *)
(* one it has already is answered without binding anything.                *)
(***************************************************************************)
EXTENDS Integers, Sequences, FiniteSets, SequencesExt, Queues

CONSTANTS
    Hosts,     \* remote hosts
    Tasks,     \* concurrent docker calls
    Cells,     \* names for the cells and clients alive at once (a bound)
    Sessions,  \* names for the SSH sessions alive at once (a bound)
    NoHost, NoCell, NoSession,
    Stale      \* a socket file nobody listens on

ASSUME ConstantsAssumption ==
    /\ NoHost \notin Hosts /\ NoCell \notin Cells /\ NoSession \notin Sessions
    /\ Stale \notin Sessions /\ Stale # NoSession

VARIABLES
    clients,   \* the DashMap: host -> cell
    hostOf,    \* the host of a cell; NoHost: not allocated
    ready,     \* the cell holds a client
    initq,     \* the cell's init semaphore: its holder, then the waiters
    via,       \* the session a client, or the task building it, refers to
    pool,      \* the session the SSH pool has for a host
    forwards,  \* sessions that forward their host's socket path
    file,      \* what the socket path of a host leads to
    pc, cell,  \* where each call is, and the cell it refers to
    tearing,   \* dropped clients whose forward is still to be cancelled
    cancels    \* sessions with a forward of a failed build to be cancelled

vars == <<clients, hostOf, ready, initq, via, pool, forwards, file, pc, cell, tearing,
          cancels>>

mapVars    == <<clients, hostOf>>
socketVars == <<forwards, file, cancels>>

Opening == {"clearing", "binding", "securing"}

PcValues == {"idle", "entered", "waiting", "checkout", "running", "dead", "half"} \cup Opening

Path(t) == hostOf[cell[t]]

Unreferenced(c) ==
    /\ \A h \in Hosts : clients[h] # c
    /\ \A t \in Tasks : cell[t] # c

Owned(s) == s \in cancels \/ \E c \in Cells : via[c] = s

SessionInUse(s) == Owned(s) \/ \E h \in Hosts : pool[h] = s

TypeOK ==
    /\ clients \in [Hosts -> Cells \cup {NoCell}]
    /\ hostOf \in [Cells -> Hosts \cup {NoHost}]
    /\ ready \in [Cells -> BOOLEAN]
    /\ initq \in [Cells -> Seq(Tasks)]
    /\ via \in [Cells -> Sessions \cup {NoSession}]
    /\ \A c \in Cells : ready[c] \/ c \in tearing => via[c] # NoSession
    /\ pool \in [Hosts -> Sessions \cup {NoSession}]
    /\ forwards \subseteq Sessions
    /\ file \in [Hosts -> Sessions \cup {NoSession, Stale}]
    /\ pc \in [Tasks -> PcValues]
    /\ cell \in [Tasks -> Cells \cup {NoCell}]
    /\ tearing \subseteq Cells
    /\ cancels \subseteq Sessions

Init ==
    /\ clients = [h \in Hosts |-> NoCell]
    /\ hostOf = [c \in Cells |-> NoHost]
    /\ ready = [c \in Cells |-> FALSE]
    /\ initq = [c \in Cells |-> <<>>]
    /\ via = [c \in Cells |-> NoSession]
    /\ pool = [h \in Hosts |-> NoSession]
    /\ forwards = {}
    /\ file = [h \in Hosts |-> NoSession]
    /\ pc = [t \in Tasks |-> "idle"]
    /\ cell = [t \in Tasks |-> NoCell]
    /\ tearing = {}
    /\ cancels = {}

Return(t) ==
    /\ pc' = [pc EXCEPT ![t] = "idle"]
    /\ cell' = [cell EXCEPT ![t] = NoCell]

Goto(t, label) == pc' = [pc EXCEPT ![t] = label]

\* The files after nobody listens for session s any more.
Orphaned(s) == [h \in Hosts |-> IF file[h] = s THEN Stale ELSE file[h]]

-----------------------------------------------------------------------------
(* client_for *)

\* The cell of the host, or a fresh one.
Lookup(t, h) ==
    /\ pc[t] = "idle"
    /\ \/ /\ clients[h] # NoCell
          /\ cell' = [cell EXCEPT ![t] = clients[h]]
          /\ UNCHANGED mapVars
       \/ /\ clients[h] = NoCell
          /\ \E c \in Cells :
               /\ hostOf[c] = NoHost
               /\ hostOf' = [hostOf EXCEPT ![c] = h]
               /\ clients' = [clients EXCEPT ![h] = c]
               /\ cell' = [cell EXCEPT ![t] = c]
    /\ Goto(t, "entered")
    /\ UNCHANGED <<ready, initq, via, pool, socketVars, tearing>>

\* get_or_try_init on a cell that holds a client returns it.
UseReady(t) ==
    /\ pc[t] \in {"entered", "waiting"}
    /\ ready[cell[t]]
    /\ Goto(t, "running")
    /\ UNCHANGED <<mapVars, ready, initq, via, pool, socketVars, cell, tearing>>

\* get_or_try_init on an empty cell: the first builds, later callers queue.
JoinInit(t) ==
    LET c == cell[t] IN
    /\ pc[t] = "entered"
    /\ ~ready[c]
    /\ initq' = [initq EXCEPT ![c] = Append(@, t)]
    /\ Goto(t, IF initq[c] = <<>> THEN "checkout" ELSE "waiting")
    /\ UNCHANGED <<mapVars, ready, via, pool, socketVars, cell, tearing>>

\* The builder before it failed, and the cell is still empty.
BuildAgain(t) ==
    LET c == cell[t] IN
    /\ pc[t] = "waiting"
    /\ ~ready[c]
    /\ initq[c] # <<>> /\ Head(initq[c]) = t
    /\ Goto(t, "checkout")
    /\ UNCHANGED <<mapVars, ready, initq, via, pool, socketVars, cell, tearing>>

-----------------------------------------------------------------------------
(* connect_remote and ForwardedSocket::open *)

\* The pool hands out the host's session, or connects a new one.
Checkout(t) ==
    LET h == Path(t) IN
    /\ pc[t] = "checkout"
    /\ \E s \in Sessions :
         /\ \/ pool[h] = s
            \/ pool[h] = NoSession /\ ~SessionInUse(s) /\ s \notin forwards
         /\ pool' = [pool EXCEPT ![h] = s]
         /\ via' = [via EXCEPT ![cell[t]] = s]
    /\ Goto(t, "clearing")
    /\ UNCHANGED <<mapVars, ready, initq, socketVars, cell, tearing>>

\* A file at the path is taken for a leftover and removed.
ClearPath(t) ==
    /\ pc[t] = "clearing"
    /\ file' = [file EXCEPT ![Path(t)] = NoSession]
    /\ Goto(t, "binding")
    /\ UNCHANGED <<mapVars, ready, initq, via, pool, forwards, cancels, cell, tearing>>

\* request_port_forward: the session binds the path if it is free, unless it
\* has that forward already.
RequestForward(t) ==
    LET s == via[cell[t]] IN
    /\ pc[t] = "binding"
    /\ \/ /\ s \notin forwards /\ file[Path(t)] = NoSession
          /\ forwards' = forwards \cup {s}
          /\ file' = [file EXCEPT ![Path(t)] = s]
       \/ s \in forwards /\ UNCHANGED socketVars
    /\ Goto(t, "securing")
    /\ UNCHANGED <<mapVars, ready, initq, via, pool, cancels, cell, tearing>>

\* secure_socket sees a file at the path, whoever bound it: the client is built
\* and all who wait on the cell are woken.
Secure(t) ==
    LET c == cell[t] IN
    /\ pc[t] = "securing"
    /\ file[Path(t)] # NoSession
    /\ ready' = [ready EXCEPT ![c] = TRUE]
    /\ initq' = [initq EXCEPT ![c] = <<>>]
    /\ Goto(t, "running")
    /\ UNCHANGED <<mapVars, via, pool, socketVars, cell, tearing>>

\* Faulty variant of BuildFails: the init permit is not passed on.
BuildFailsKeepsInit(t) ==
    LET c == cell[t] IN
    /\ pc[t] \in {"checkout", "binding", "securing"}
    /\ via' = [via EXCEPT ![c] = NoSession]
    /\ Return(t)
    /\ UNCHANGED <<mapVars, ready, initq, pool, socketVars, tearing>>

\* The checkout, the request or secure_socket (no file for 2 s, or no chmod of it)
\* fails: the init permit is passed on and the empty cell stays.  A forward already requested
\* stays too: the guard that would cancel it was not built.
BuildFails(t) ==
    LET c == cell[t] IN
    /\ pc[t] \in {"checkout", "binding", "securing"}
    /\ initq' = [initq EXCEPT ![c] = Tail(@)]
    /\ via' = [via EXCEPT ![c] = NoSession]
    /\ Return(t)
    /\ UNCHANGED <<mapVars, ready, pool, socketVars, tearing>>

\* connect_with_socket fails where secure_socket has seen the file: the guard was
\* built, and dropping it removes the file and detaches the cancellation.  Bound:
\* one such cancellation of a session at a time.
ConnectFails(t) ==
    LET c == cell[t] IN
    /\ pc[t] = "securing"
    /\ file[Path(t)] # NoSession /\ via[c] \notin cancels
    /\ initq' = [initq EXCEPT ![c] = Tail(@)]
    /\ file' = [file EXCEPT ![Path(t)] = NoSession]
    /\ cancels' = cancels \cup {via[c]}
    /\ via' = [via EXCEPT ![c] = NoSession]
    /\ Return(t)
    /\ UNCHANGED <<mapVars, ready, pool, forwards, tearing>>

-----------------------------------------------------------------------------
(* The docker call, and what it does when the transport is dead *)

\* The call ends, in success or with an error that evicts nothing.
OpReturns(t) ==
    /\ pc[t] = "running"
    /\ Return(t)
    /\ UNCHANGED <<mapVars, ready, initq, via, pool, socketVars, tearing>>

\* is_transport_dead.
OpDead(t) ==
    /\ pc[t] = "running"
    /\ Goto(t, "dead")
    /\ UNCHANGED <<mapVars, ready, initq, via, pool, socketVars, cell, tearing>>

\* Faulty variant of InvalidateClient: the client stays while others use it.
InvalidateIfUnshared(t) ==
    /\ pc[t] = "dead"
    /\ IF \E u \in Tasks \ {t} : cell[u] = cell[t]
       THEN UNCHANGED clients
       ELSE clients' = [clients EXCEPT ![Path(t)] = NoCell]
    /\ Goto(t, "half")
    /\ UNCHANGED <<hostOf, ready, initq, via, pool, socketVars, cell, tearing>>

\* Faulty variant of InvalidateClient: the client is torn down at once, as if the
\* cache were its only owner.
InvalidateTearsDown(t) ==
    LET c == cell[t] IN
    /\ pc[t] = "dead"
    /\ clients' = [clients EXCEPT ![Path(t)] = NoCell]
    /\ file' = [file EXCEPT ![Path(t)] = NoSession]
    /\ ready' = [ready EXCEPT ![c] = FALSE]
    /\ tearing' = tearing \cup {c}
    /\ Goto(t, "half")
    /\ UNCHANGED <<hostOf, initq, via, pool, forwards, cancels, cell>>

\* invalidate, first half: forget whatever client the host has by now.
InvalidateClient(t) ==
    /\ pc[t] = "dead"
    /\ clients' = [clients EXCEPT ![Path(t)] = NoCell]
    /\ Goto(t, "half")
    /\ UNCHANGED <<hostOf, ready, initq, via, pool, socketVars, cell, tearing>>

\* invalidate, second half: SshPool::invalidate; then the call returns.
InvalidateSession(t) ==
    /\ pc[t] = "half"
    /\ pool' = [pool EXCEPT ![Path(t)] = NoSession]
    /\ Return(t)
    /\ UNCHANGED <<mapVars, ready, initq, via, socketVars, tearing>>

\* Faulty variant of Cancel: any cancelled call lets go of the cell's session.
CancelDropsSession(t) ==
    LET c == cell[t] IN
    /\ pc[t] \in {"waiting", "checkout", "binding", "securing", "running"}
    /\ initq' = [initq EXCEPT ![c] = Without(@, t)]
    /\ via' = [via EXCEPT ![c] = NoSession]
    /\ Return(t)
    /\ UNCHANGED <<mapVars, ready, pool, socketVars, tearing>>

\* The future of a call is dropped at an await.
Cancel(t) ==
    LET c == cell[t] IN
    /\ pc[t] \in {"waiting", "checkout", "binding", "securing", "running"}
    /\ initq' = [initq EXCEPT ![c] = Without(@, t)]
    /\ via' = [via EXCEPT ![c] = IF pc[t] \in Opening THEN NoSession ELSE @]
    /\ Return(t)
    /\ UNCHANGED <<mapVars, ready, pool, socketVars, tearing>>

-----------------------------------------------------------------------------
(* Drops *)

\* The last reference to a client goes away: ForwardedSocket::drop removes the
\* file at its path and detaches the cancellation of its forward.
DropClient(c) ==
    /\ ready[c]
    /\ Unreferenced(c)
    /\ file' = [file EXCEPT ![hostOf[c]] = NoSession]
    /\ ready' = [ready EXCEPT ![c] = FALSE]
    /\ tearing' = tearing \cup {c}
    /\ UNCHANGED <<mapVars, initq, via, pool, forwards, cancels, pc, cell>>

\* Faulty variant of CloseForward: the forward is not cancelled.
CloseForwardForgets(c) ==
    /\ c \in tearing
    /\ via' = [via EXCEPT ![c] = NoSession]
    /\ hostOf' = [hostOf EXCEPT ![c] = NoHost]
    /\ tearing' = tearing \ {c}
    /\ UNCHANGED <<clients, ready, initq, pool, socketVars, pc, cell>>

\* The detached close_port_forward, and the release of the session.
CloseForward(c) ==
    /\ c \in tearing
    /\ forwards' = forwards \ {via[c]}
    /\ file' = Orphaned(via[c])
    /\ via' = [via EXCEPT ![c] = NoSession]
    /\ hostOf' = [hostOf EXCEPT ![c] = NoHost]
    /\ tearing' = tearing \ {c}
    /\ UNCHANGED <<clients, ready, initq, pool, cancels, pc, cell>>

\* The detached close_port_forward of a build that failed to connect.
CancelForward(s) ==
    /\ s \in cancels
    /\ forwards' = forwards \ {s}
    /\ file' = Orphaned(s)
    /\ cancels' = cancels \ {s}
    /\ UNCHANGED <<mapVars, ready, initq, via, pool, pc, cell, tearing>>

\* The last reference to an empty cell goes away.
DropCell(c) ==
    /\ hostOf[c] # NoHost
    /\ ~ready[c] /\ c \notin tearing
    /\ Unreferenced(c)
    /\ hostOf' = [hostOf EXCEPT ![c] = NoHost]
    /\ UNCHANGED <<clients, ready, initq, via, pool, socketVars, pc, cell, tearing>>

\* The last reference to a session goes away, and with it what it forwards.
DropSession(s) ==
    /\ s \in forwards
    /\ ~SessionInUse(s)
    /\ forwards' = forwards \ {s}
    /\ file' = Orphaned(s)
    /\ UNCHANGED <<mapVars, ready, initq, via, pool, cancels, pc, cell, tearing>>

\* Another user of the SSH pool invalidates the host's session.
PoolForgets(h) ==
    /\ pool[h] # NoSession
    /\ pool' = [pool EXCEPT ![h] = NoSession]
    /\ UNCHANGED <<mapVars, ready, initq, via, socketVars, pc, cell, tearing>>

-----------------------------------------------------------------------------
\* Steps a call takes by itself; every wait in them ends by a timeout: that of
\* the connect, of secure_socket, and of bollard's requests.
TaskStep(t) ==
    \/ UseReady(t) \/ JoinInit(t) \/ BuildAgain(t)
    \/ Checkout(t) \/ ClearPath(t) \/ RequestForward(t) \/ Secure(t) \/ BuildFails(t)
    \/ ConnectFails(t)
    \/ OpReturns(t) \/ OpDead(t) \/ InvalidateClient(t) \/ InvalidateSession(t)

Next ==
    \/ \E t \in Tasks : TaskStep(t) \/ Cancel(t) \/ \E h \in Hosts : Lookup(t, h)
    \/ \E c \in Cells : DropClient(c) \/ CloseForward(c) \/ DropCell(c)
    \/ \E s \in Sessions : CancelForward(s) \/ DropSession(s)
    \/ \E h \in Hosts : PoolForgets(h)

Spec == Init /\ [][Next]_vars

Fairness == \A t \in Tasks : WF_vars(TaskStep(t))

FairSpec == Spec /\ Fairness

-----------------------------------------------------------------------------
\* A call that waits for another to build the client waits for one that builds,
\* or has the init permit to do so: whose build failed, or who was dropped in any
\* of its steps, has left the queue.
WaitersAreServed ==
    \A t \in Tasks : LET c == cell[t] IN
        pc[t] = "waiting" /\ ~ready[c]
        => /\ initq[c] # <<>>
           /\ Head(initq[c]) \in {u \in Tasks : cell[u] = c /\ pc[u] \in {"waiting", "checkout"} \cup Opening}

\* When a call reports a dead transport, later calls get neither the client it
\* used nor, from the pool, the session under it.
DeadTunnelLeaves ==
    [][\A t \in Tasks : pc[t] = "half" /\ pc'[t] = "idle"
          => \A h \in Hosts : clients'[h] # cell[t] /\ pool'[h] # via[cell[t]]]_vars

\* A forward outlives its client only when building the client failed or was
\* cancelled after the forward was requested.
OnlyFailedBuildsLeak ==
    [][\A s \in forwards \cap forwards' : Owned(s) /\ ~Owned(s)'
          => \E t \in Tasks : /\ pc[t] \in {"binding", "securing"}
                              /\ via[cell[t]] = s
                              /\ pc'[t] = "idle"]_vars

-----------------------------------------------------------------------------
(* DockerClients implements ConnectionSpec.  A place is a cell, open while *)
(* its client is alive; a dropped client keeps its name until its forward  *)
(* is cancelled.                                                           *)

Promise == INSTANCE ConnectionSpec WITH
    Keys <- Hosts, Callers <- Tasks, Places <- Cells, NoKey <- NoHost, NoPlace <- NoCell,
    current <- clients,
    keyOf <- hostOf,
    open <- {c \in Cells : ready[c]},
    at <- cell,
    users <- {t \in Tasks : pc[t] \in {"running", "dead", "half"}},
    failed <- {t \in Tasks : pc[t] \in {"dead", "half"}}

\* Calls of a host share one client, which is not torn down under any of them,
\* and a client whose transport died is not found by the calls after the one
\* that reported it, though reporting takes two steps and others act in between.
ClientsAreShared == Promise!Spec

\* Every docker call returns, whatever the tunnels do.
CallReturns == \A t \in Tasks : pc[t] # "idle" ~> pc[t] = "idle"
=============================================================================
