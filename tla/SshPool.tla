------------------------------- MODULE SshPool -------------------------------
(***************************************************************************)
(* The SSH session pool (src/src/ssh/pool.rs).                             *)
(*                                                                         *)
(* A map sends each pool key to an `Arc<OnceCell<Arc<PooledSession>>>`.    *)
(* Tasks run `exec`: get or insert the cell, initialise it by connecting   *)
(* (one initialiser at a time, the others queue on the cell), take one of  *)
(* the session's exec permits, run the command, and invalidate the key     *)
(* when the command fails.  An idle-eviction task and `shutdown` remove    *)
(* cells from the map by key at the same time.                             *)
(*                                                                         *)
(* A cell is initialised at most once, so a session is named by its cell.  *)
(* A cell nothing refers to any more is dropped and its name is reused:    *)
(* Cells bounds the cells alive at the same time, not those ever created.  *)
(***************************************************************************)
EXTENDS Integers, Sequences, FiniteSets, SequencesExt, Queues

CONSTANTS
    Keys,          \* pool keys, `name:port`
    Tasks,         \* concurrent callers of exec
    Cells,         \* names for OnceCell allocations alive at once (a bound)
    NoKey, NoCell, \* absence of a key or a cell
    ExecPermits,   \* the argument of `with_permits`
    IdleTimeout,   \* IDLE_TIMEOUT in clock ticks
    EvictionTask,  \* is `spawn_eviction_task` called?
    Cancellation,  \* may a caller drop the future of exec at an await?
    Shutdown       \* may `shutdown` be called?

ASSUME ConstantsAssumption ==
    /\ IsFiniteSet(Tasks)
    /\ NoKey \notin Keys
    /\ NoCell \notin Cells
    /\ ExecPermits \in Nat
    /\ IdleTimeout \in Nat \ {0}
    /\ {EvictionTask, Cancellation, Shutdown} \subseteq BOOLEAN

VARIABLES
    sessions,  \* the DashMap: key -> cell
    keyOf,     \* the key a cell was inserted for; NoKey: not allocated
    ready,     \* the cell holds a session
    initq,     \* the cell's init semaphore: its holder, then the waiters
    permits,   \* permits the session's semaphore has left
    permitq,   \* tasks waiting for a permit, first come first served
    idle,      \* ticks since the session was touched
    pc,        \* where each task is in exec
    cell,      \* the cell (then session) a task has a reference to
    stale,     \* keys evict_idle collected and has still to remove
    doomed,    \* keys shutdown collected and has still to remove
    closers,   \* sessions with a detached close running
    closed     \* sessions on which close() was called

vars == <<sessions, keyOf, ready, initq, permits, permitq, idle, pc, cell,
          stale, doomed, closers, closed>>

mapVars   == <<sessions, keyOf>>
initVars  == <<ready, initq>>
execVars  == <<permits, permitq>>
sweepVars == <<stale, doomed>>
closeVars == <<closers, closed>>

\* `with_permits` never builds an empty semaphore.
exec_permits == IF ExecPermits = 0 THEN 1 ELSE ExecPermits

Pooled(c)  == \E k \in Keys : sessions[k] = c
Holders(c) == {t \in Tasks : cell[t] = c}
Running(c) == {t \in Holders(c) : pc[t] = "running"}
Connecting(c) == {t \in Holders(c) : pc[t] = "connecting"}

\* A caller is getting the cell its session.
Attended(c) == \E t \in Holders(c) : pc[t] \in {"entered", "waiting", "connecting", "cleanup"}

\* No Arc to the cell or its session is left but a detached closer's own.
Unreferenced(c) == ~Pooled(c) /\ Holders(c) = {}

PcValues == {"idle", "entered", "waiting", "connecting", "cleanup",
             "acquiring", "running", "failed"}

TypeOK ==
    /\ sessions \in [Keys -> Cells \cup {NoCell}]
    /\ keyOf \in [Cells -> Keys \cup {NoKey}]
    /\ ready \in [Cells -> BOOLEAN]
    /\ initq \in [Cells -> Seq(Tasks)]
    /\ permits \in [Cells -> 0..exec_permits]
    /\ permitq \in [Cells -> Seq(Tasks)]
    /\ idle \in [Cells -> 0..IdleTimeout]
    /\ pc \in [Tasks -> PcValues]
    /\ cell \in [Tasks -> Cells \cup {NoCell}]
    /\ stale \subseteq Keys
    /\ doomed \subseteq Keys
    /\ closers \subseteq Cells
    /\ closed \subseteq Cells

Init ==
    /\ sessions = [k \in Keys |-> NoCell]
    /\ keyOf = [c \in Cells |-> NoKey]
    /\ ready = [c \in Cells |-> FALSE]
    /\ initq = [c \in Cells |-> <<>>]
    /\ permits = [c \in Cells |-> exec_permits]
    /\ permitq = [c \in Cells |-> <<>>]
    /\ idle = [c \in Cells |-> 0]
    /\ pc = [t \in Tasks |-> "idle"]
    /\ cell = [t \in Tasks |-> NoCell]
    /\ stale = {}
    /\ doomed = {}
    /\ closers = {}
    /\ closed = {}

-----------------------------------------------------------------------------
(* Steps shared by several actions *)

\* The task's future is over: exec returned, or its caller dropped it.
Return(t) ==
    /\ pc' = [pc EXCEPT ![t] = "idle"]
    /\ cell' = [cell EXCEPT ![t] = NoCell]

\* checkout touches the session and hands it out; exec then asks its semaphore.
HandOut(t, c) ==
    /\ idle' = [idle EXCEPT ![c] = 0]
    /\ permitq' = [permitq EXCEPT ![c] = Append(@, t)]
    /\ pc' = [pc EXCEPT ![t] = "acquiring"]

\* `sessions.remove(&key)`, and a detached close when the cell held a session.
\* The removal is by key: it takes whatever cell the map holds by now.
RemoveKey(k) ==
    /\ sessions' = [sessions EXCEPT ![k] = NoCell]
    /\ closers' = closers \cup {c \in Cells : sessions[k] = c /\ ready[c]}

-----------------------------------------------------------------------------
(* exec and checkout *)

\* checkout takes the cell the map has for the key, or inserts a fresh one;
\* the entry lock makes the two alternatives one atomic step.
Enter(t, k) ==
    /\ pc[t] = "idle"
    /\ \/ /\ sessions[k] # NoCell
          /\ cell' = [cell EXCEPT ![t] = sessions[k]]
          /\ UNCHANGED mapVars
       \/ /\ sessions[k] = NoCell
          /\ \E c \in Cells :
               /\ keyOf[c] = NoKey
               /\ keyOf' = [keyOf EXCEPT ![c] = k]
               /\ sessions' = [sessions EXCEPT ![k] = c]
               /\ cell' = [cell EXCEPT ![t] = c]
    /\ pc' = [pc EXCEPT ![t] = "entered"]
    /\ UNCHANGED <<initVars, execVars, idle, sweepVars, closeVars>>

\* get_or_try_init on a cell that holds a session returns it.
UseReady(t) ==
    LET c == cell[t] IN
    /\ pc[t] \in {"entered", "waiting"}
    /\ ready[c]
    /\ HandOut(t, c)
    /\ UNCHANGED <<mapVars, initVars, permits, cell, sweepVars, closeVars>>

\* Faulty variant of JoinInit: no init guard, each caller connects at once.
JoinInitUnguarded(t) ==
    LET c == cell[t] IN
    /\ pc[t] = "entered"
    /\ ~ready[c]
    /\ initq' = [initq EXCEPT ![c] = Append(@, t)]
    /\ pc' = [pc EXCEPT ![t] = "connecting"]
    /\ UNCHANGED <<mapVars, ready, execVars, idle, cell, sweepVars, closeVars>>

\* get_or_try_init on an empty cell: the first caller takes the init permit
\* and starts its own connect, later callers queue behind it.
JoinInit(t) ==
    LET c == cell[t] IN
    /\ pc[t] = "entered"
    /\ ~ready[c]
    /\ initq' = [initq EXCEPT ![c] = Append(@, t)]
    /\ pc' = [pc EXCEPT ![t] = IF initq[c] = <<>> THEN "connecting" ELSE "waiting"]
    /\ UNCHANGED <<mapVars, ready, execVars, idle, cell, sweepVars, closeVars>>

\* The permit came to a waiter and the cell is still empty: it runs ITS closure.
ConnectAgain(t) ==
    LET c == cell[t] IN
    /\ pc[t] = "waiting"
    /\ ~ready[c]
    /\ initq[c] # <<>> /\ Head(initq[c]) = t
    /\ pc' = [pc EXCEPT ![t] = "connecting"]
    /\ UNCHANGED <<mapVars, initVars, execVars, idle, cell, sweepVars, closeVars>>

\* connect succeeded: the session is stored with a full semaphore and all who
\* wait on the cell are woken.
ConnectOk(t) ==
    LET c == cell[t] IN
    /\ pc[t] = "connecting"
    /\ ready' = [ready EXCEPT ![c] = TRUE]
    /\ initq' = [initq EXCEPT ![c] = <<>>]
    /\ permits' = [permits EXCEPT ![c] = exec_permits]
    /\ HandOut(t, c)
    /\ UNCHANGED <<mapVars, cell, sweepVars, closeVars>>

\* Faulty variant of ConnectFail: the init permit is not passed on.
ConnectFailKeepsInit(t) ==
    /\ pc[t] = "connecting"
    /\ pc' = [pc EXCEPT ![t] = "cleanup"]
    /\ UNCHANGED <<mapVars, initVars, execVars, idle, cell, sweepVars, closeVars>>

\* connect was refused or hit CONNECT_TIMEOUT: the init permit is passed on.
ConnectFail(t) ==
    LET c == cell[t] IN
    /\ pc[t] = "connecting"
    /\ initq' = [initq EXCEPT ![c] = Tail(@)]
    /\ pc' = [pc EXCEPT ![t] = "cleanup"]
    /\ UNCHANGED <<mapVars, ready, execVars, idle, cell, sweepVars, closeVars>>

\* Faulty variant of Cleanup: the empty cell stays in the map.
CleanupLeavesCell(t) ==
    /\ pc[t] = "cleanup"
    /\ Return(t)
    /\ UNCHANGED <<mapVars, initVars, execVars, idle, sweepVars, closeVars>>

\* Faulty variant of Cleanup: the error keeps a reference to the cell.
CleanupKeepsArc(t) ==
    LET c == cell[t] IN
    /\ pc[t] = "cleanup"
    /\ sessions' = [k \in Keys |-> IF k = keyOf[c] /\ sessions[k] = c /\ ~ready[c]
                                   THEN NoCell ELSE sessions[k]]
    /\ pc' = [pc EXCEPT ![t] = "idle"]
    /\ UNCHANGED <<keyOf, initVars, execVars, idle, cell, sweepVars, closeVars>>

\* Faulty variant of Cleanup: the key is removed, whatever it maps to by now.
CleanupByKey(t) ==
    /\ pc[t] = "cleanup"
    /\ sessions' = [sessions EXCEPT ![keyOf[cell[t]]] = NoCell]
    /\ Return(t)
    /\ UNCHANGED <<keyOf, initVars, execVars, idle, sweepVars, closeVars>>

\* After a failed connect: `remove_if` our own, still empty, cell; return Err.
Cleanup(t) ==
    LET c == cell[t] IN
    /\ pc[t] = "cleanup"
    /\ sessions' = [k \in Keys |-> IF k = keyOf[c] /\ sessions[k] = c /\ ~ready[c]
                                   THEN NoCell ELSE sessions[k]]
    /\ Return(t)
    /\ UNCHANGED <<keyOf, initVars, execVars, idle, sweepVars, closeVars>>

\* The semaphore grants permits in the order they were asked for.
Acquire(t) ==
    LET c == cell[t] IN
    /\ pc[t] = "acquiring"
    /\ permits[c] > 0
    /\ permitq[c] # <<>> /\ Head(permitq[c]) = t
    /\ permits' = [permits EXCEPT ![c] = @ - 1]
    /\ permitq' = [permitq EXCEPT ![c] = Tail(@)]
    /\ pc' = [pc EXCEPT ![t] = "running"]
    /\ UNCHANGED <<mapVars, initVars, idle, cell, sweepVars, closeVars>>

\* The command produced output: touch, return, and drop the permit.
CommandOk(t) ==
    LET c == cell[t] IN
    /\ pc[t] = "running"
    /\ idle' = [idle EXCEPT ![c] = 0]
    /\ permits' = [permits EXCEPT ![c] = @ + 1]
    /\ Return(t)
    /\ UNCHANGED <<mapVars, initVars, permitq, sweepVars, closeVars>>

\* Faulty variant of CommandFail: the permit is forgotten.
CommandFailLeaksPermit(t) ==
    /\ pc[t] = "running"
    /\ pc' = [pc EXCEPT ![t] = "failed"]
    /\ UNCHANGED <<mapVars, initVars, execVars, idle, cell, sweepVars, closeVars>>

\* The command failed or passed its deadline: the permit is dropped first.
CommandFail(t) ==
    LET c == cell[t] IN
    /\ pc[t] = "running"
    /\ permits' = [permits EXCEPT ![c] = @ + 1]
    /\ pc' = [pc EXCEPT ![t] = "failed"]
    /\ UNCHANGED <<mapVars, initVars, permitq, idle, cell, sweepVars, closeVars>>

\* Faulty variant of Invalidate: the dead session stays while others use it.
InvalidateIfUnused(t) ==
    /\ pc[t] = "failed"
    /\ IF Holders(cell[t]) = {t}
       THEN RemoveKey(keyOf[cell[t]])
       ELSE UNCHANGED <<sessions, closers>>
    /\ Return(t)
    /\ UNCHANGED <<keyOf, initVars, execVars, idle, sweepVars, closed>>

\* Passive health: forget the host's session, then return Err.
Invalidate(t) ==
    /\ pc[t] = "failed"
    /\ RemoveKey(keyOf[cell[t]])
    /\ Return(t)
    /\ UNCHANGED <<keyOf, initVars, execVars, idle, sweepVars, closed>>

\* Faulty variant of Cancel: a permit is given back whether or not one was held.
CancelReleasesAlways(t) ==
    LET c == cell[t] IN
    /\ Cancellation
    /\ pc[t] \in {"waiting", "connecting", "acquiring", "running"}
    /\ initq' = [initq EXCEPT ![c] = Without(@, t)]
    /\ permitq' = [permitq EXCEPT ![c] = Without(@, t)]
    /\ permits' = [permits EXCEPT ![c] = @ + 1]
    /\ Return(t)
    /\ UNCHANGED <<mapVars, ready, idle, sweepVars, closeVars>>

\* The caller's timeout, or its client going away, drops the future of exec at
\* an await.  No code of exec runs; guards it held give their permit back.
Cancel(t) ==
    LET c == cell[t] IN
    /\ Cancellation
    /\ pc[t] \in {"waiting", "connecting", "acquiring", "running"}
    /\ initq' = [initq EXCEPT ![c] = Without(@, t)]
    /\ permitq' = [permitq EXCEPT ![c] = Without(@, t)]
    /\ permits' = [permits EXCEPT ![c] = IF pc[t] = "running" THEN @ + 1 ELSE @]
    /\ Return(t)
    /\ UNCHANGED <<mapVars, ready, idle, sweepVars, closeVars>>

-----------------------------------------------------------------------------
(* The eviction task, shutdown, detached closes, the clock *)

\* Keys whose session has been idle for IDLE_TIMEOUT or longer.
IdleKeys == {k \in Keys : \E c \in Cells :
                sessions[k] = c /\ ready[c] /\ idle[c] >= IdleTimeout}

\* evict_idle, first half: collect the keys whose session is idle.
EvictCollect ==
    /\ EvictionTask
    /\ stale = {}
    /\ IdleKeys # {}
    /\ stale' = IdleKeys
    /\ UNCHANGED <<mapVars, initVars, execVars, idle, pc, cell, doomed, closeVars>>

\* evict_idle, second half: remove each collected key, whatever it maps to now.
EvictRemove(k) ==
    /\ k \in stale
    /\ stale' = stale \ {k}
    /\ RemoveKey(k)
    /\ UNCHANGED <<keyOf, initVars, execVars, idle, pc, cell, doomed, closed>>

\* shutdown, first half: collect every key.
ShutdownCollect ==
    /\ Shutdown
    /\ doomed = {}
    /\ doomed' = {k \in Keys : sessions[k] # NoCell}
    /\ UNCHANGED <<mapVars, initVars, execVars, idle, pc, cell, stale, closeVars>>

\* shutdown, second half: remove each key.  `Arc::try_unwrap` of a clone of
\* the session's Arc fails while `pooled` still owns the original, and here it
\* always does: close() is not reached.
ShutdownRemove(k) ==
    /\ k \in doomed
    /\ doomed' = doomed \ {k}
    /\ sessions' = [sessions EXCEPT ![k] = NoCell]
    /\ UNCHANGED <<keyOf, initVars, execVars, idle, pc, cell, stale, closeVars>>

\* Faulty variant of CloseDetached: close() through a shared reference.
CloseShared(c) ==
    /\ c \in closers
    /\ closers' = closers \ {c}
    /\ closed' = closed \cup {c}
    /\ UNCHANGED <<mapVars, initVars, execVars, idle, pc, cell, sweepVars>>

\* spawn_close: close the session when the closer's Arc is the last one.  It
\* may also run before the remover has let go of its own, and then gives up.
CloseDetached(c) ==
    /\ c \in closers
    /\ closers' = closers \ {c}
    /\ \/ Unreferenced(c) /\ closed' = closed \cup {c}
       \/ UNCHANGED closed
    /\ UNCHANGED <<mapVars, initVars, execVars, idle, pc, cell, sweepVars>>

\* The last Arc to the cell goes away and its name can be used again.
Drop(c) ==
    /\ keyOf[c] # NoKey
    /\ Unreferenced(c)
    /\ c \notin closers
    /\ keyOf' = [keyOf EXCEPT ![c] = NoKey]
    /\ ready' = [ready EXCEPT ![c] = FALSE]
    /\ permits' = [permits EXCEPT ![c] = exec_permits]
    /\ idle' = [idle EXCEPT ![c] = 0]
    /\ closed' = closed \ {c}
    /\ UNCHANGED <<sessions, initq, permitq, pc, cell, sweepVars, closers>>

\* Time passes for every session in the pool.
Tick ==
    /\ idle' = [c \in Cells |-> IF Pooled(c) /\ ready[c] /\ idle[c] < IdleTimeout
                                THEN idle[c] + 1 ELSE idle[c]]
    /\ UNCHANGED <<mapVars, initVars, execVars, pc, cell, sweepVars, closeVars>>

-----------------------------------------------------------------------------
\* Steps exec takes by itself.  Connects end by CONNECT_TIMEOUT and commands by
\* the operation deadline, so each of them is taken once it can be.
TaskStep(t) ==
    \/ UseReady(t) \/ JoinInit(t) \/ ConnectAgain(t)
    \/ ConnectOk(t) \/ ConnectFail(t) \/ Cleanup(t)
    \/ Acquire(t) \/ CommandOk(t) \/ CommandFail(t) \/ Invalidate(t)

Next ==
    \/ \E t \in Tasks : TaskStep(t) \/ Cancel(t) \/ \E k \in Keys : Enter(t, k)
    \/ EvictCollect \/ ShutdownCollect
    \/ \E k \in Keys : EvictRemove(k) \/ ShutdownRemove(k)
    \/ \E c \in Cells : CloseDetached(c) \/ Drop(c)
    \/ Tick

Spec == Init /\ [][Next]_vars

\* No fairness for the sweep, which the program never spawns; one that has begun
\* comes to its end.
Fairness ==
    /\ \A t \in Tasks : WF_vars(TaskStep(t))
    /\ \A k \in Keys : WF_vars(EvictRemove(k)) /\ WF_vars(ShutdownRemove(k))
    /\ \A c \in Cells : WF_vars(CloseDetached(c)) /\ WF_vars(Drop(c))

FairSpec == Spec /\ Fairness

-----------------------------------------------------------------------------
(* Safety *)

\* Permits are neither lost nor minted, however exec ends: those left and those
\* held by running commands always add up to the cap.
PermitsConserved ==
    \A c \in Cells : permits[c] + Cardinality(Running(c)) = exec_permits

\* One connect at a time per cell, run by the holder of the init permit.
ExclusiveConnect ==
    \A c \in Cells : \A t \in Connecting(c) :
        ~ready[c] /\ initq[c] # <<>> /\ Head(initq[c]) = t

\* close() is never called on a session a task holds or the pool can hand out.
ClosedIsUnused ==
    \A c \in closed : Unreferenced(c)

\* Nobody waits for somebody who will not come.  A caller that waits for the
\* connect of another waits for one that connects or has the init permit to do
\* so; a caller that waits for a permit waits for a command that runs, or for
\* the first in the queue, whom a permit is there for.  Whoever failed, returned
\* or was dropped before, in whatever place of the queue, has left it.
WaitersAreServed ==
    \A t \in Tasks : LET c == cell[t] IN
        /\ pc[t] = "waiting" /\ ~ready[c]
           => /\ initq[c] # <<>>
              /\ Head(initq[c]) \in {u \in Holders(c) : pc[u] \in {"waiting", "connecting"}}
        /\ pc[t] = "acquiring"
           => \/ Running(c) # {}
              \/ /\ permits[c] > 0
                 /\ permitq[c] # <<>>
                 /\ Head(permitq[c]) \in {u \in Holders(c) : pc[u] = "acquiring"}

(* Action properties *)

\* A cell taken out of the map is never put back.
DiscardedStaysOut ==
    [][\A c \in Cells : keyOf[c] # NoKey /\ ~Pooled(c)
                       => \A k \in Keys : sessions'[k] # c]_vars

\* When exec reports a failed command, its session cannot be checked out again.
FailedLeavesPool ==
    [][\A t \in Tasks : pc[t] = "failed" /\ pc'[t] = "idle"
          => \A k \in Keys : sessions'[k] # cell[t]]_vars

\* A caller whose connect failed does not take the session another caller of
\* the same key established before the failed one got to clean up.
FailureSparesSessions ==
    [][\A t \in Tasks : pc[t] = "cleanup" /\ pc'[t] # "cleanup"
          => \A k \in Keys, c \in Cells : sessions[k] = c /\ ready[c] => sessions'[k] = c]_vars

\* An empty cell in the map keeps a caller at work on it until it is removed or
\* holds a session: only a cancelled caller leaves a ghost entry behind.
OnlyCancelLeavesGhosts ==
    [][\A k \in Keys, c \in Cells :
          sessions[k] = c /\ ~ready[c] /\ Attended(c)
          => \/ sessions'[k] # c \/ ready'[c] \/ Attended(c)'
             \/ \E t \in Holders(c) : pc[t] \in {"waiting", "connecting"} /\ pc'[t] = "idle"]_vars

-----------------------------------------------------------------------------
(* SshPool implements ConnectionSpec.  A place is a cell, open from its    *)
(* connect until it is closed or dropped; whoever has passed the           *)
(* initialisation uses its session.                                        *)

Promise == INSTANCE ConnectionSpec WITH
    Callers <- Tasks, Places <- Cells, NoPlace <- NoCell,
    current <- sessions,
    open <- {c \in Cells : ready[c]} \ closed,
    at <- cell,
    users <- {t \in Tasks : pc[t] \in {"acquiring", "running", "failed"}},
    failed <- {t \in Tasks : pc[t] = "failed"}

\* Callers of a host share one session, which nobody closes under them, and a
\* session that failed is not found by those who come after it was reported;
\* whatever connects fail, callers are dropped, and sweeps go on meanwhile.
SessionsAreShared == Promise!Spec

-----------------------------------------------------------------------------
(* Liveness *)

\* Every call of exec returns, dead hosts and cancelled peers included.
ExecReturns == \A t \in Tasks : pc[t] # "idle" ~> pc[t] = "idle"

\* A cell the map lost does not stay allocated for ever.
DiscardedIsReleased ==
    \A c \in Cells : keyOf[c] # NoKey /\ ~Pooled(c) ~> keyOf[c] = NoKey
=============================================================================
