---------------------------- MODULE SshPoolProofs ----------------------------
(***************************************************************************)
(* Proofs about SshPool, for any number of hosts, callers and cells.       *)
(***************************************************************************)
EXTENDS SshPool, ListProofs, FiniteSetTheorems, SequenceTheorems, TLAPS

(***************************************************************************)
(* The strengthening of the safety invariants.                             *)
(***************************************************************************)

\* A task inside exec refers to an allocated cell, an idle one to none.
TasksReferToCells ==
    \A t \in Tasks : /\ pc[t] = "idle" <=> cell[t] = NoCell
                     /\ cell[t] # NoCell => keyOf[cell[t]] \in Keys

\* The map has a cell under the key it was inserted for.
MapKeysAgree ==
    \A k \in Keys : sessions[k] # NoCell => keyOf[sessions[k]] = k

\* Tasks past the initialisation hold a session, not an empty cell.
UsersHoldSessions ==
    \A t \in Tasks : pc[t] \in {"acquiring", "running", "failed"} => ready[cell[t]]

\* A cell that is being closed or was closed is still allocated.
ClosersAreAllocated ==
    \A c \in closers \cup closed : keyOf[c] # NoKey

\* The queue of an empty cell holds the callers that connect or wait to, each
\* once; that of a cell with a session is empty.
InitQueues ==
    \A c \in Cells :
        /\ Once(initq[c])
        /\ \A t \in Tasks : t \in ToSet(initq[c]) <=>
               cell[t] = c /\ pc[t] \in {"waiting", "connecting"} /\ ~ready[c]

\* The queue of a session's semaphore holds those who ask for a permit, once.
PermitQueues ==
    \A c \in Cells :
        /\ Once(permitq[c])
        /\ \A t \in Tasks : t \in ToSet(permitq[c]) <=> cell[t] = c /\ pc[t] = "acquiring"

IInv ==
    /\ TypeOK
    /\ TasksReferToCells
    /\ MapKeysAgree
    /\ UsersHoldSessions
    /\ ClosersAreAllocated
    /\ ExclusiveConnect
    /\ PermitsConserved
    /\ ClosedIsUnused
    /\ InitQueues
    /\ PermitQueues

-----------------------------------------------------------------------------
(* Lemmas about the operators the actions are built from *)

\* The semaphore is never built empty.
LEMMA PermitsPositive == exec_permits \in Nat /\ exec_permits > 0
BY ConstantsAssumption DEF exec_permits

\* Running(c) is a finite set of tasks.
LEMMA RunningFinite ==
    ASSUME NEW c PROVE IsFiniteSet(Running(c)) /\ Cardinality(Running(c)) \in Nat
BY ConstantsAssumption, FS_Subset, FS_CardinalityType DEF Running, Holders

\* One more, or one fewer, running task counts as one.
LEMMA RunningChanges ==
    ASSUME NEW c, NEW c2, NEW t \in Tasks
    PROVE  /\ t \notin Running(c) => Cardinality(Running(c) \cup {t}) = Cardinality(Running(c)) + 1
           /\ t \in Running(c) => Cardinality(Running(c) \ {t}) = Cardinality(Running(c)) - 1
BY RunningFinite, FS_AddElement, FS_RemoveElement

-----------------------------------------------------------------------------
(* Typing of the steps *)

\* The pool starts well typed.
LEMMA TypeInit == Init => TypeOK
BY PermitsPositive, ConstantsAssumption DEF Init, TypeOK, PcValues

\* The permits of a session with a running command are below the cap.
LEMMA RunningBelowCap ==
    ASSUME IInv, NEW t \in Tasks, pc[t] = "running"
    PROVE  /\ cell[t] \in Cells
           /\ permits[cell[t]] + 1 \in 0..exec_permits
           /\ t \in Running(cell[t])
<1>1. cell[t] \in Cells /\ t \in Running(cell[t])
  BY DEF IInv, TypeOK, TasksReferToCells, Running, Holders
<1>2. Cardinality(Running(cell[t])) > 0
  BY <1>1, RunningFinite, FS_EmptySet
<1>3. permits[cell[t]] + Cardinality(Running(cell[t])) = exec_permits
  BY <1>1 DEF IInv, PermitsConserved
<1>4. permits[cell[t]] \in 0..exec_permits
  BY <1>1 DEF IInv, TypeOK
<1> QED
  BY <1>1, <1>2, <1>3, <1>4, RunningFinite, PermitsPositive

\* Every task inside exec refers to a cell whose key is a key.
LEMMA ActiveTask ==
    ASSUME IInv, NEW t \in Tasks, pc[t] # "idle"
    PROVE  cell[t] \in Cells /\ keyOf[cell[t]] \in Keys
BY DEF IInv, TypeOK, TasksReferToCells

\* A caller that enters gets the pooled cell, or a fresh one put into the map.
LEMMA EnterCell ==
    ASSUME TypeOK, NEW t \in Tasks, NEW k \in Keys, Enter(t, k)
    PROVE  \E c \in Cells :
              /\ cell' = [cell EXCEPT ![t] = c]
              /\ \/ sessions[k] = c /\ sessions' = sessions /\ keyOf' = keyOf
                 \/ /\ sessions[k] = NoCell /\ keyOf[c] = NoKey
                    /\ keyOf' = [keyOf EXCEPT ![c] = k]
                    /\ sessions' = [sessions EXCEPT ![k] = c]
<1>1. CASE sessions[k] # NoCell
  <2>1. sessions[k] \in Cells
    BY <1>1 DEF TypeOK
  <2>2. cell' = [cell EXCEPT ![t] = sessions[k]] /\ UNCHANGED <<sessions, keyOf>>
    BY <1>1 DEF Enter, mapVars
  <2> QED
    BY <2>1, <2>2
<1>2. CASE sessions[k] = NoCell
  BY <1>2 DEF Enter
<1> QED
  BY <1>1, <1>2

\* No step of the pool breaks its typing.
LEMMA TypeStep == IInv /\ [Next]_vars => TypeOK'
<1> SUFFICES ASSUME IInv, [Next]_vars PROVE TypeOK'
  OBVIOUS
<1> USE PermitsPositive
<1>1. TypeOK
  BY DEF IInv
<1>2. ASSUME NEW t \in Tasks, NEW k \in Keys, Enter(t, k) PROVE TypeOK'
  <2>1. PICK c \in Cells :
              /\ cell' = [cell EXCEPT ![t] = c]
              /\ \/ sessions' = sessions /\ keyOf' = keyOf
                 \/ /\ keyOf' = [keyOf EXCEPT ![c] = k]
                    /\ sessions' = [sessions EXCEPT ![k] = c]
    BY <1>1, <1>2, EnterCell
  <2>2. /\ pc' = [pc EXCEPT ![t] = "entered"]
        /\ UNCHANGED <<ready, initq, permits, permitq, idle, stale, doomed, closers, closed>>
    BY <1>2 DEF Enter, initVars, execVars, sweepVars, closeVars
  <2>3. sessions \in [Keys -> Cells \cup {NoCell}] /\ keyOf \in [Cells -> Keys \cup {NoKey}]
    BY <1>1 DEF TypeOK
  <2>4. sessions' \in [Keys -> Cells \cup {NoCell}] /\ keyOf' \in [Cells -> Keys \cup {NoKey}]
    <3>1. CASE sessions' = sessions /\ keyOf' = keyOf
      BY <2>3, <3>1
    <3>2. CASE keyOf' = [keyOf EXCEPT ![c] = k] /\ sessions' = [sessions EXCEPT ![k] = c]
      BY <2>3, <3>2
    <3> QED
      BY <2>1, <3>1, <3>2
  <2>5. cell' \in [Tasks -> Cells \cup {NoCell}] /\ pc' \in [Tasks -> PcValues]
    BY <1>1, <2>1, <2>2 DEF TypeOK, PcValues
  <2> QED
    BY <1>1, <2>2, <2>3, <2>4, <2>5 DEF TypeOK
<1>3. ASSUME NEW t \in Tasks, UseReady(t) PROVE TypeOK'
  BY <1>1, <1>3, ActiveTask, ConstantsAssumption DEF TypeOK, PcValues, UseReady, HandOut, mapVars, initVars, sweepVars, closeVars
<1>4. ASSUME NEW t \in Tasks, JoinInit(t) PROVE TypeOK'
  BY <1>1, <1>4, ActiveTask DEF TypeOK, PcValues, JoinInit, mapVars, execVars, sweepVars, closeVars
<1>5. ASSUME NEW t \in Tasks, ConnectAgain(t) PROVE TypeOK'
  BY <1>1, <1>5 DEF TypeOK, PcValues, ConnectAgain, mapVars, initVars, execVars, sweepVars, closeVars
<1>6. ASSUME NEW t \in Tasks, ConnectOk(t) PROVE TypeOK'
  BY <1>1, <1>6, ActiveTask, ConstantsAssumption DEF TypeOK, PcValues, ConnectOk, HandOut, mapVars, sweepVars, closeVars
<1>7. ASSUME NEW t \in Tasks, ConnectFail(t) PROVE TypeOK'
  <2>1. cell[t] \in Cells /\ initq[cell[t]] # <<>>
    BY <1>7, ActiveTask DEF IInv, ExclusiveConnect, Connecting, Holders, ConnectFail
  <2> QED
    BY <1>1, <1>7, <2>1 DEF TypeOK, PcValues, ConnectFail, mapVars, execVars, sweepVars, closeVars
<1>8. ASSUME NEW t \in Tasks, Cleanup(t) PROVE TypeOK'
  BY <1>1, <1>8 DEF TypeOK, PcValues, Cleanup, Return, initVars, execVars, sweepVars, closeVars
<1>9. ASSUME NEW t \in Tasks, Acquire(t) PROVE TypeOK'
  BY <1>1, <1>9, ActiveTask DEF TypeOK, PcValues, Acquire, mapVars, initVars, sweepVars, closeVars
<1>10. ASSUME NEW t \in Tasks, CommandOk(t) PROVE TypeOK'
  BY <1>1, <1>10, RunningBelowCap, ConstantsAssumption DEF TypeOK, PcValues, CommandOk, Return, mapVars, initVars, sweepVars, closeVars
<1>11. ASSUME NEW t \in Tasks, CommandFail(t) PROVE TypeOK'
  BY <1>1, <1>11, RunningBelowCap DEF TypeOK, PcValues, CommandFail, mapVars, initVars, sweepVars, closeVars
<1>12. ASSUME NEW t \in Tasks, Invalidate(t) PROVE TypeOK'
  BY <1>1, <1>12 DEF TypeOK, PcValues, Invalidate, RemoveKey, Return, initVars, execVars, sweepVars
<1>13. ASSUME NEW t \in Tasks, Cancel(t) PROVE TypeOK'
  BY <1>1, <1>13, ActiveTask, WithoutType, RunningBelowCap
     DEF TypeOK, PcValues, Cancel, Return, mapVars, sweepVars, closeVars
<1>14. ASSUME EvictCollect PROVE TypeOK'
  BY <1>1, <1>14 DEF TypeOK, EvictCollect, IdleKeys, mapVars, initVars, execVars, closeVars
<1>15. ASSUME ShutdownCollect PROVE TypeOK'
  BY <1>1, <1>15 DEF TypeOK, ShutdownCollect, mapVars, initVars, execVars, closeVars
<1>16. ASSUME NEW k \in Keys, EvictRemove(k) PROVE TypeOK'
  BY <1>1, <1>16 DEF TypeOK, EvictRemove, RemoveKey, initVars, execVars
<1>17. ASSUME NEW k \in Keys, ShutdownRemove(k) PROVE TypeOK'
  BY <1>1, <1>17 DEF TypeOK, ShutdownRemove, initVars, execVars, closeVars
<1>18. ASSUME NEW c \in Cells, CloseDetached(c) PROVE TypeOK'
  BY <1>1, <1>18 DEF TypeOK, CloseDetached, mapVars, initVars, execVars, sweepVars
<1>19. ASSUME NEW c \in Cells, Drop(c) PROVE TypeOK'
  BY <1>1, <1>19, ConstantsAssumption DEF TypeOK, Drop, sweepVars
<1>20. ASSUME Tick PROVE TypeOK'
  BY <1>1, <1>20, ConstantsAssumption DEF TypeOK, Tick, mapVars, initVars, execVars, sweepVars, closeVars
<1>21. CASE UNCHANGED vars
  BY <1>1, <1>21 DEF TypeOK, vars
<1> QED
  BY <1>2, <1>3, <1>4, <1>5, <1>6, <1>7, <1>8, <1>9, <1>10, <1>11, <1>12, <1>13, <1>14,
     <1>15, <1>16, <1>17, <1>18, <1>19, <1>20, <1>21 DEF Next, TaskStep

-----------------------------------------------------------------------------
(* The other conjuncts of the invariant *)

\* A step leaves each task inside exec with a reference to an allocated cell.
LEMMA ReferStep == IInv /\ [Next]_vars => TasksReferToCells'
<1> SUFFICES ASSUME IInv, [Next]_vars PROVE TasksReferToCells'
  OBVIOUS
<1> USE ConstantsAssumption DEF TasksReferToCells, mapVars, initVars, execVars, sweepVars, closeVars
<1>1. TypeOK /\ TasksReferToCells /\ MapKeysAgree
  BY DEF IInv
<1>2. ASSUME NEW t \in Tasks, NEW k \in Keys, Enter(t, k) PROVE TasksReferToCells'
  <2>1. PICK c \in Cells :
              /\ cell' = [cell EXCEPT ![t] = c]
              /\ \/ sessions[k] = c /\ keyOf' = keyOf
                 \/ keyOf[c] = NoKey /\ keyOf' = [keyOf EXCEPT ![c] = k]
    BY <1>1, <1>2, EnterCell
  <2>2. pc' = [pc EXCEPT ![t] = "entered"]
    BY <1>2 DEF Enter
  <2>3. keyOf'[c] \in Keys /\ \A d \in Cells : keyOf[d] \in Keys => keyOf'[d] \in Keys
    <3>1. CASE sessions[k] = c /\ keyOf' = keyOf
      <4>1. keyOf[c] = k
        BY <1>1, <3>1 DEF MapKeysAgree
      <4> QED
        BY <3>1, <4>1
    <3>2. CASE keyOf[c] = NoKey /\ keyOf' = [keyOf EXCEPT ![c] = k]
      <4>1. keyOf'[c] = k /\ \A d \in Cells : d # c => keyOf'[d] = keyOf[d]
        BY <1>1, <3>2 DEF TypeOK
      <4> QED
        BY <4>1
    <3> QED
      BY <2>1, <3>1, <3>2
  <2>4. /\ pc'[t] = "entered" /\ cell'[t] = c /\ c # NoCell
        /\ \A u \in Tasks \ {t} : pc'[u] = pc[u] /\ cell'[u] = cell[u] /\ cell[u] \in Cells \cup {NoCell}
    BY <1>1, <2>1, <2>2 DEF TypeOK
  <2>5. \A u \in Tasks : /\ pc[u] = "idle" <=> cell[u] = NoCell
                         /\ cell[u] # NoCell => keyOf[cell[u]] \in Keys
    BY <1>1
  <2>6. ASSUME NEW u \in Tasks
        PROVE  /\ pc'[u] = "idle" <=> cell'[u] = NoCell
               /\ cell'[u] # NoCell => keyOf'[cell'[u]] \in Keys
    <3>1. CASE u = t
      BY <2>3, <2>4, <3>1
    <3>2. CASE u # t
      <4>1. pc'[u] = pc[u] /\ cell'[u] = cell[u] /\ cell[u] \in Cells \cup {NoCell}
        BY <2>4, <3>2
      <4>2. /\ pc[u] = "idle" <=> cell[u] = NoCell
            /\ cell[u] # NoCell => keyOf[cell[u]] \in Keys
        BY <2>5, Zenon
      <4>3. cell[u] # NoCell => cell[u] \in Cells /\ keyOf'[cell[u]] \in Keys
        BY <2>3, <4>1, <4>2
      <4> QED
        BY <4>1, <4>2, <4>3
    <3> QED
      BY <3>1, <3>2
  <2> QED
    BY <2>6
<1>3. ASSUME NEW t \in Tasks, UseReady(t) \/ JoinInit(t) \/ ConnectAgain(t) \/ ConnectOk(t)
                              \/ ConnectFail(t) \/ Acquire(t) \/ CommandFail(t)
      PROVE  TasksReferToCells'
  BY <1>1, <1>3 DEF TypeOK, UseReady, JoinInit, ConnectAgain, ConnectOk, ConnectFail,
                    Acquire, CommandFail, HandOut
<1>4. ASSUME NEW t \in Tasks, Cleanup(t) \/ CommandOk(t) \/ Invalidate(t) \/ Cancel(t)
      PROVE  TasksReferToCells'
  <2>1. /\ pc' = [pc EXCEPT ![t] = "idle"] /\ cell' = [cell EXCEPT ![t] = NoCell]
        /\ keyOf' = keyOf
    BY <1>4 DEF Cleanup, CommandOk, Invalidate, Cancel, Return
  <2> QED
    BY <1>1, <2>1 DEF TypeOK
<1>5. ASSUME NEW k \in Keys, EvictRemove(k) \/ ShutdownRemove(k) PROVE TasksReferToCells'
  BY <1>1, <1>5 DEF EvictRemove, ShutdownRemove
<1>6. ASSUME NEW c \in Cells, Drop(c) PROVE TasksReferToCells'
  BY <1>1, <1>6 DEF TypeOK, Drop, Unreferenced, Holders
<1>7. ASSUME NEW c \in Cells, CloseDetached(c) PROVE TasksReferToCells'
  BY <1>1, <1>7 DEF CloseDetached
<1>8. CASE EvictCollect \/ ShutdownCollect \/ Tick \/ UNCHANGED vars
  BY <1>1, <1>8 DEF EvictCollect, ShutdownCollect, Tick, vars
<1> QED
  BY <1>2, <1>3, <1>4, <1>5, <1>6, <1>7, <1>8 DEF Next, TaskStep

\* A step leaves every pooled cell under the key it was inserted for.
LEMMA MapStep == IInv /\ [Next]_vars => MapKeysAgree'
<1> SUFFICES ASSUME IInv, [Next]_vars PROVE MapKeysAgree'
  OBVIOUS
<1> USE ConstantsAssumption DEF MapKeysAgree, mapVars, initVars, execVars, sweepVars, closeVars
<1>1. TypeOK /\ MapKeysAgree
  BY DEF IInv
<1>2. ASSUME NEW t \in Tasks, NEW k \in Keys, Enter(t, k) PROVE MapKeysAgree'
  <2>1. PICK c \in Cells :
              \/ sessions' = sessions /\ keyOf' = keyOf
              \/ /\ keyOf[c] = NoKey /\ keyOf' = [keyOf EXCEPT ![c] = k]
                 /\ sessions' = [sessions EXCEPT ![k] = c]
    BY <1>1, <1>2, EnterCell
  <2>2. CASE sessions' = sessions /\ keyOf' = keyOf
    BY <1>1, <2>2
  <2>3. CASE /\ keyOf[c] = NoKey /\ keyOf' = [keyOf EXCEPT ![c] = k]
             /\ sessions' = [sessions EXCEPT ![k] = c]
    <3>1. \A l \in Keys : sessions[l] # c
      BY <1>1, <2>3
    <3>2. \A l \in Keys \ {k} : sessions'[l] = sessions[l]
      BY <1>1, <2>3 DEF TypeOK
    <3>3. sessions'[k] = c /\ keyOf'[c] = k /\ \A d \in Cells \ {c} : keyOf'[d] = keyOf[d]
      BY <1>1, <2>3 DEF TypeOK
    <3>4. \A l \in Keys : sessions[l] \in Cells \cup {NoCell}
      BY <1>1 DEF TypeOK
    <3> QED
      BY <1>1, <3>1, <3>2, <3>3, <3>4
  <2> QED
    BY <2>1, <2>2, <2>3
<1>3. ASSUME NEW t \in Tasks, UseReady(t) \/ JoinInit(t) \/ ConnectAgain(t) \/ ConnectOk(t)
                              \/ ConnectFail(t) \/ Acquire(t) \/ CommandOk(t) \/ CommandFail(t)
                              \/ Cancel(t)
      PROVE  MapKeysAgree'
  BY <1>1, <1>3 DEF UseReady, JoinInit, ConnectAgain, ConnectOk, ConnectFail,
                    Acquire, CommandOk, CommandFail, Cancel
<1>4. ASSUME NEW t \in Tasks, Cleanup(t) PROVE MapKeysAgree'
  BY <1>1, <1>4 DEF TypeOK, Cleanup
<1>5. ASSUME NEW t \in Tasks, Invalidate(t) PROVE MapKeysAgree'
  BY <1>1, <1>5 DEF TypeOK, Invalidate, RemoveKey
<1>6. ASSUME NEW k \in Keys, EvictRemove(k) \/ ShutdownRemove(k) PROVE MapKeysAgree'
  BY <1>1, <1>6 DEF TypeOK, EvictRemove, ShutdownRemove, RemoveKey
<1>7. ASSUME NEW c \in Cells, Drop(c) PROVE MapKeysAgree'
  BY <1>1, <1>7 DEF TypeOK, Drop, Unreferenced, Pooled
<1>8. ASSUME NEW c \in Cells, CloseDetached(c) PROVE MapKeysAgree'
  BY <1>1, <1>8 DEF CloseDetached
<1>9. CASE EvictCollect \/ ShutdownCollect \/ Tick \/ UNCHANGED vars
  BY <1>1, <1>9 DEF EvictCollect, ShutdownCollect, Tick, vars
<1> QED
  BY <1>2, <1>3, <1>4, <1>5, <1>6, <1>7, <1>8, <1>9 DEF Next, TaskStep

\* A step lets a task ask for, or hold, a permit only of a cell with a session.
LEMMA UsersStep == IInv /\ [Next]_vars => UsersHoldSessions'
<1> SUFFICES ASSUME IInv, [Next]_vars PROVE UsersHoldSessions'
  OBVIOUS
<1> USE ConstantsAssumption DEF UsersHoldSessions, mapVars, initVars, execVars, sweepVars, closeVars
<1>1. TypeOK /\ UsersHoldSessions /\ TasksReferToCells
  BY DEF IInv
<1>2. ASSUME NEW t \in Tasks, NEW k \in Keys, Enter(t, k) PROVE UsersHoldSessions'
  <2>1. pc' = [pc EXCEPT ![t] = "entered"] /\ ready' = ready
    BY <1>2 DEF Enter
  <2>2. PICK c \in Cells : cell' = [cell EXCEPT ![t] = c]
    BY <1>1, <1>2, EnterCell
  <2> QED
    BY <1>1, <2>1, <2>2 DEF TypeOK
<1>3. ASSUME NEW t \in Tasks, UseReady(t) \/ JoinInit(t) \/ ConnectAgain(t)
                              \/ ConnectFail(t) \/ Acquire(t) \/ CommandFail(t)
      PROVE  UsersHoldSessions'
  BY <1>1, <1>3 DEF TypeOK, UseReady, JoinInit, ConnectAgain, ConnectFail,
                    Acquire, CommandFail, HandOut
<1>4. ASSUME NEW t \in Tasks, ConnectOk(t) PROVE UsersHoldSessions'
  BY <1>1, <1>4 DEF TypeOK, TasksReferToCells, ConnectOk, HandOut
<1>5. ASSUME NEW t \in Tasks, Cleanup(t) \/ CommandOk(t) \/ Invalidate(t) \/ Cancel(t)
      PROVE  UsersHoldSessions'
  <2>1. /\ pc' = [pc EXCEPT ![t] = "idle"] /\ cell' = [cell EXCEPT ![t] = NoCell]
        /\ ready' = ready
    BY <1>5 DEF Cleanup, CommandOk, Invalidate, Cancel, Return
  <2> QED
    BY <1>1, <2>1 DEF TypeOK
<1>6. ASSUME NEW k \in Keys, EvictRemove(k) \/ ShutdownRemove(k) PROVE UsersHoldSessions'
  BY <1>1, <1>6 DEF EvictRemove, ShutdownRemove
<1>7. ASSUME NEW c \in Cells, Drop(c) PROVE UsersHoldSessions'
  BY <1>1, <1>7 DEF TypeOK, Drop, Unreferenced, Holders
<1>8. ASSUME NEW c \in Cells, CloseDetached(c) PROVE UsersHoldSessions'
  BY <1>1, <1>8 DEF CloseDetached
<1>9. CASE EvictCollect \/ ShutdownCollect \/ Tick \/ UNCHANGED vars
  BY <1>1, <1>9 DEF EvictCollect, ShutdownCollect, Tick, vars
<1> QED
  BY <1>2, <1>3, <1>4, <1>5, <1>6, <1>7, <1>8, <1>9 DEF Next, TaskStep

\* A step starts a detached close only for a session that is allocated.
LEMMA ClosersStep == IInv /\ [Next]_vars => ClosersAreAllocated'
<1> SUFFICES ASSUME IInv, [Next]_vars PROVE ClosersAreAllocated'
  OBVIOUS
<1> USE ConstantsAssumption DEF ClosersAreAllocated, mapVars, initVars, execVars, sweepVars, closeVars
<1>1. TypeOK /\ ClosersAreAllocated /\ MapKeysAgree
  BY DEF IInv
<1>2. ASSUME NEW t \in Tasks, NEW k \in Keys, Enter(t, k) PROVE ClosersAreAllocated'
  <2>1. PICK c \in Cells : keyOf' = keyOf \/ keyOf' = [keyOf EXCEPT ![c] = k]
    BY <1>1, <1>2, EnterCell
  <2>2. closers' = closers /\ closed' = closed
    BY <1>2 DEF Enter
  <2> QED
    BY <1>1, <2>1, <2>2 DEF TypeOK
<1>3. ASSUME NEW t \in Tasks, UseReady(t) \/ JoinInit(t) \/ ConnectAgain(t) \/ ConnectOk(t)
                              \/ ConnectFail(t) \/ Cleanup(t) \/ Acquire(t) \/ CommandOk(t)
                              \/ CommandFail(t) \/ Cancel(t)
      PROVE  ClosersAreAllocated'
  BY <1>1, <1>3 DEF UseReady, JoinInit, ConnectAgain, ConnectOk, ConnectFail, Cleanup,
                    Acquire, CommandOk, CommandFail, Cancel
<1>4. ASSUME NEW k \in Keys, RemoveKey(k), keyOf' = keyOf, closed' = closed
      PROVE  ClosersAreAllocated'
  <2>1. \A c \in Cells : sessions[k] = c => keyOf[c] # NoKey
    BY <1>1 DEF MapKeysAgree
  <2> QED
    BY <1>1, <1>4, <2>1 DEF RemoveKey
<1>5. ASSUME NEW t \in Tasks, Invalidate(t) PROVE ClosersAreAllocated'
  BY <1>4, <1>5, ActiveTask DEF Invalidate
<1>6. ASSUME NEW k \in Keys, EvictRemove(k) PROVE ClosersAreAllocated'
  BY <1>4, <1>6 DEF EvictRemove
<1>7. ASSUME NEW k \in Keys, ShutdownRemove(k) PROVE ClosersAreAllocated'
  BY <1>1, <1>7 DEF ShutdownRemove
<1>8. ASSUME NEW c \in Cells, Drop(c) PROVE ClosersAreAllocated'
  BY <1>1, <1>8 DEF TypeOK, Drop
<1>9. ASSUME NEW c \in Cells, CloseDetached(c) PROVE ClosersAreAllocated'
  BY <1>1, <1>9 DEF CloseDetached
<1>10. CASE EvictCollect \/ ShutdownCollect \/ Tick \/ UNCHANGED vars
  BY <1>1, <1>10 DEF EvictCollect, ShutdownCollect, Tick, vars
<1> QED
  BY <1>2, <1>3, <1>5, <1>6, <1>7, <1>8, <1>9, <1>10 DEF Next, TaskStep

\* What ExclusiveConnect says of one task.
LEMMA ConnectingTask ==
    ASSUME TypeOK
    PROVE  ExclusiveConnect <=>
              \A t \in Tasks : pc[t] = "connecting" /\ cell[t] \in Cells =>
                 ~ready[cell[t]] /\ initq[cell[t]] # <<>> /\ Head(initq[cell[t]]) = t
BY DEF ExclusiveConnect, Connecting, Holders

\* No step lets a second caller connect on a cell: the init permit goes from
\* head to head of its queue, whoever fails, succeeds or is cancelled.
LEMMA ExclusiveStep == IInv /\ [Next]_vars => ExclusiveConnect'
<1> SUFFICES ASSUME IInv, [Next]_vars PROVE ExclusiveConnect'
  OBVIOUS
<1> DEFINE Exclusive(t) ==
       pc[t] = "connecting" /\ cell[t] \in Cells =>
          ~ready[cell[t]] /\ initq[cell[t]] # <<>> /\ Head(initq[cell[t]]) = t
<1>1. TypeOK /\ TasksReferToCells /\ UsersHoldSessions /\ \A u \in Tasks : Exclusive(u)
  BY ConnectingTask DEF IInv
<1>2. SUFFICES \A u \in Tasks : Exclusive(u)'
  BY DEF ExclusiveConnect, Connecting, Holders
<1> USE ConstantsAssumption DEF mapVars, initVars, execVars, sweepVars, closeVars
<1>3. ASSUME NEW t \in Tasks, NEW k \in Keys, Enter(t, k) PROVE \A u \in Tasks : Exclusive(u)'
  <2>1. pc' = [pc EXCEPT ![t] = "entered"] /\ ready' = ready /\ initq' = initq
    BY <1>3 DEF Enter
  <2>2. PICK c \in Cells : cell' = [cell EXCEPT ![t] = c]
    BY <1>1, <1>3, EnterCell
  <2> QED
    BY <1>1, <2>1, <2>2 DEF TypeOK
<1>4. ASSUME NEW t \in Tasks, UseReady(t) \/ Acquire(t) \/ CommandFail(t)
      PROVE  \A u \in Tasks : Exclusive(u)'
  BY <1>1, <1>4 DEF TypeOK, UseReady, HandOut, Acquire, CommandFail
<1>5. ASSUME NEW t \in Tasks, JoinInit(t) PROVE \A u \in Tasks : Exclusive(u)'
  <2>1. /\ initq' = [initq EXCEPT ![cell[t]] = Append(@, t)] /\ ready' = ready /\ cell' = cell
        /\ pc' = [pc EXCEPT ![t] = IF initq[cell[t]] = <<>> THEN "connecting" ELSE "waiting"]
        /\ ~ready[cell[t]]
    BY <1>5 DEF JoinInit
  <2>2. ASSUME NEW q \in Seq(Tasks)
        PROVE  /\ Append(q, t) # <<>>
               /\ Head(Append(q, t)) = IF q = <<>> THEN t ELSE Head(q)
    BY <2>2, HeadTailAppend, AppendProperties
  <2> QED
    BY <1>1, <2>1, <2>2 DEF TypeOK
<1>6. ASSUME NEW t \in Tasks, ConnectAgain(t) PROVE \A u \in Tasks : Exclusive(u)'
  BY <1>1, <1>6 DEF TypeOK, ConnectAgain
<1>7. ASSUME NEW t \in Tasks, ConnectOk(t) PROVE \A u \in Tasks : Exclusive(u)'
  <2>1. /\ ready' = [ready EXCEPT ![cell[t]] = TRUE] /\ initq' = [initq EXCEPT ![cell[t]] = <<>>]
        /\ pc' = [pc EXCEPT ![t] = "acquiring"] /\ cell' = cell /\ pc[t] = "connecting"
    BY <1>7 DEF ConnectOk, HandOut
  <2>2. \A u \in Tasks : u # t /\ pc[u] = "connecting" /\ cell[u] \in Cells => cell[u] # cell[t]
    BY <1>1, <2>1 DEF TypeOK, TasksReferToCells
  <2> QED
    BY <1>1, <2>1, <2>2 DEF TypeOK
<1>8. ASSUME NEW t \in Tasks, ConnectFail(t) PROVE \A u \in Tasks : Exclusive(u)'
  <2>1. /\ initq' = [initq EXCEPT ![cell[t]] = Tail(@)] /\ ready' = ready
        /\ pc' = [pc EXCEPT ![t] = "cleanup"] /\ cell' = cell /\ pc[t] = "connecting"
    BY <1>8 DEF ConnectFail
  <2>2. \A u \in Tasks : u # t /\ pc[u] = "connecting" /\ cell[u] \in Cells => cell[u] # cell[t]
    BY <1>1, <2>1 DEF TypeOK, TasksReferToCells
  <2> QED
    BY <1>1, <2>1, <2>2 DEF TypeOK
<1>9. ASSUME NEW t \in Tasks, Cleanup(t) \/ CommandOk(t) \/ Invalidate(t)
      PROVE  \A u \in Tasks : Exclusive(u)'
  <2>1. /\ pc' = [pc EXCEPT ![t] = "idle"] /\ cell' = [cell EXCEPT ![t] = NoCell]
        /\ ready' = ready /\ initq' = initq
    BY <1>9 DEF Cleanup, CommandOk, Invalidate, Return
  <2> QED
    BY <1>1, <2>1 DEF TypeOK
<1>10. ASSUME NEW t \in Tasks, Cancel(t) PROVE \A u \in Tasks : Exclusive(u)'
  <2>1. /\ pc' = [pc EXCEPT ![t] = "idle"] /\ cell' = [cell EXCEPT ![t] = NoCell]
        /\ ready' = ready /\ initq' = [initq EXCEPT ![cell[t]] = Without(@, t)]
    BY <1>10 DEF Cancel, Return
  <2>2. ASSUME NEW u \in Tasks, u # t, pc[u] = "connecting", cell[u] \in Cells
        PROVE  ~ready[cell[u]] /\ initq'[cell[u]] # <<>> /\ Head(initq'[cell[u]]) = u
    <3>1. ~ready[cell[u]] /\ initq[cell[u]] # <<>> /\ Head(initq[cell[u]]) = u
      BY <1>1, <2>2
    <3>2. initq[cell[u]] \in Seq(Tasks)
      BY <1>1, <2>2 DEF TypeOK
    <3>3. Without(initq[cell[u]], t) # <<>> /\ Head(Without(initq[cell[u]], t)) = u
      BY <2>2, <3>1, <3>2, WithoutHead
    <3>4. initq'[cell[u]] = IF cell[u] = cell[t] THEN Without(initq[cell[u]], t) ELSE initq[cell[u]]
      BY <1>1, <2>1, <2>2 DEF TypeOK
    <3> QED
      BY <3>1, <3>3, <3>4
  <2> QED
    BY <1>1, <2>1, <2>2 DEF TypeOK
<1>11. ASSUME NEW k \in Keys, EvictRemove(k) \/ ShutdownRemove(k) PROVE \A u \in Tasks : Exclusive(u)'
  BY <1>1, <1>11 DEF EvictRemove, ShutdownRemove
<1>12. ASSUME NEW c \in Cells, Drop(c) PROVE \A u \in Tasks : Exclusive(u)'
  BY <1>1, <1>12 DEF TypeOK, Drop, Unreferenced, Holders
<1>13. ASSUME NEW c \in Cells, CloseDetached(c) PROVE \A u \in Tasks : Exclusive(u)'
  BY <1>1, <1>13 DEF CloseDetached
<1>14. CASE EvictCollect \/ ShutdownCollect \/ Tick \/ UNCHANGED vars
  BY <1>1, <1>14 DEF EvictCollect, ShutdownCollect, Tick, vars
<1> QED
  BY <1>3, <1>4, <1>5, <1>6, <1>7, <1>8, <1>9, <1>10, <1>11, <1>12, <1>13, <1>14 DEF Next, TaskStep

\* A step that takes a task into or out of `running` moves one permit.
LEMMA PermitsStep == IInv /\ [Next]_vars => PermitsConserved'
<1> SUFFICES ASSUME IInv, [Next]_vars, NEW c \in Cells
             PROVE  permits'[c] + Cardinality(Running(c)') = exec_permits
  BY DEF PermitsConserved
<1>1. /\ TypeOK /\ TasksReferToCells /\ UsersHoldSessions /\ ExclusiveConnect
      /\ permits[c] + Cardinality(Running(c)) = exec_permits
  BY DEF IInv, PermitsConserved
<1>2. permits[c] \in Nat /\ exec_permits \in Nat /\ Cardinality(Running(c)) \in Nat
  BY <1>1, PermitsPositive, RunningFinite DEF TypeOK
<1> USE DEF mapVars, initVars, execVars, sweepVars, closeVars
\* Steps that change neither who is running nor the permits.
<1>3. ASSUME Running(c)' = Running(c), permits'[c] = permits[c]
      PROVE  permits'[c] + Cardinality(Running(c)') = exec_permits
  BY <1>1, <1>3
\* Steps by which task t, which was running, stops.
<1>4. ASSUME NEW t \in Tasks, pc[t] = "running", pc' = [pc EXCEPT ![t] = pc'[t]],
             pc'[t] # "running", \A u \in Tasks \ {t} : cell'[u] = cell[u],
             permits' = [permits EXCEPT ![cell[t]] = @ + 1]
      PROVE  permits'[c] + Cardinality(Running(c)') = exec_permits
  <2>1. CASE cell[t] = c
    <3>1. t \in Running(c) /\ Running(c)' = Running(c) \ {t}
      BY <1>1, <1>4, <2>1 DEF TypeOK, Running, Holders
    <3>2. permits'[c] = permits[c] + 1
      BY <1>1, <1>4, <2>1 DEF TypeOK
    <3> QED
      BY <1>1, <1>2, <3>1, <3>2, RunningChanges
  <2>2. CASE cell[t] # c
    <3>1. Running(c)' = Running(c) /\ permits'[c] = permits[c]
      BY <1>1, <1>4, <2>2 DEF TypeOK, Running, Holders
    <3> QED
      BY <1>3, <3>1
  <2> QED
    BY <2>1, <2>2
<1>5. ASSUME NEW t \in Tasks, NEW k \in Keys, Enter(t, k)
      PROVE  permits'[c] + Cardinality(Running(c)') = exec_permits
  <2>1. pc' = [pc EXCEPT ![t] = "entered"] /\ permits' = permits /\ pc[t] = "idle"
    BY <1>5 DEF Enter
  <2>2. PICK d \in Cells : cell' = [cell EXCEPT ![t] = d]
    BY <1>1, <1>5, EnterCell
  <2>3. Running(c)' = Running(c)
    BY <1>1, <2>1, <2>2 DEF TypeOK, Running, Holders
  <2> QED
    BY <1>3, <2>1, <2>3
<1>6. ASSUME NEW t \in Tasks, UseReady(t) \/ JoinInit(t) \/ ConnectAgain(t) \/ ConnectFail(t)
      PROVE  permits'[c] + Cardinality(Running(c)') = exec_permits
  <2>1. Running(c)' = Running(c) /\ permits' = permits
    BY <1>1, <1>6 DEF TypeOK, UseReady, HandOut, JoinInit, ConnectAgain, ConnectFail, Running, Holders
  <2> QED
    BY <1>3, <2>1
<1>7. ASSUME NEW t \in Tasks, ConnectOk(t)
      PROVE  permits'[c] + Cardinality(Running(c)') = exec_permits
  <2>1. Running(c)' = Running(c)
    BY <1>1, <1>7 DEF TypeOK, ConnectOk, HandOut, Running, Holders
  <2>2. CASE cell[t] = c
    <3>1. ~ready[c]
      BY <1>1, <1>7, <2>2 DEF ConnectOk, ExclusiveConnect, Connecting, Holders
    <3>2. Running(c) = {}
      BY <1>1, <3>1 DEF UsersHoldSessions, Running, Holders
    <3>3. permits'[c] = exec_permits
      BY <1>1, <1>7, <2>2 DEF TypeOK, ConnectOk
    <3> QED
      BY <1>2, <2>1, <3>2, <3>3, FS_EmptySet
  <2>3. CASE cell[t] # c
    <3>1. permits'[c] = permits[c]
      BY <1>1, <1>7, <2>3 DEF TypeOK, ConnectOk
    <3> QED
      BY <1>3, <2>1, <3>1
  <2> QED
    BY <2>2, <2>3
<1>8. ASSUME NEW t \in Tasks, Cleanup(t) \/ Invalidate(t)
      PROVE  permits'[c] + Cardinality(Running(c)') = exec_permits
  <2>1. /\ pc' = [pc EXCEPT ![t] = "idle"] /\ cell' = [cell EXCEPT ![t] = NoCell]
        /\ permits' = permits /\ pc[t] # "running"
    BY <1>8 DEF Cleanup, Invalidate, Return
  <2>2. Running(c)' = Running(c)
    BY <1>1, <2>1 DEF TypeOK, Running, Holders
  <2> QED
    BY <1>3, <2>1, <2>2
<1>9. ASSUME NEW t \in Tasks, Acquire(t)
      PROVE  permits'[c] + Cardinality(Running(c)') = exec_permits
  <2>1. /\ pc[t] = "acquiring" /\ pc' = [pc EXCEPT ![t] = "running"] /\ cell' = cell
        /\ permits' = [permits EXCEPT ![cell[t]] = @ - 1]
    BY <1>9 DEF Acquire
  <2>2. CASE cell[t] = c
    <3>1. t \notin Running(c) /\ Running(c)' = Running(c) \cup {t}
      BY <1>1, <2>1, <2>2 DEF TypeOK, Running, Holders
    <3>2. permits'[c] = permits[c] - 1
      BY <1>1, <2>1, <2>2 DEF TypeOK
    <3> QED
      BY <1>1, <1>2, <3>1, <3>2, RunningChanges
  <2>3. CASE cell[t] # c
    <3>1. Running(c)' = Running(c) /\ permits'[c] = permits[c]
      BY <1>1, <2>1, <2>3 DEF TypeOK, Running, Holders
    <3> QED
      BY <1>3, <3>1
  <2> QED
    BY <2>2, <2>3
<1>10. ASSUME NEW t \in Tasks, CommandOk(t) \/ CommandFail(t)
       PROVE  permits'[c] + Cardinality(Running(c)') = exec_permits
  <2>1. /\ pc[t] = "running" /\ permits' = [permits EXCEPT ![cell[t]] = @ + 1]
        /\ \/ pc' = [pc EXCEPT ![t] = "idle"]
           \/ pc' = [pc EXCEPT ![t] = "failed"]
        /\ cell' = cell \/ cell' = [cell EXCEPT ![t] = NoCell]
    BY <1>10 DEF CommandOk, CommandFail, Return
  <2>2. pc' = [pc EXCEPT ![t] = pc'[t]] /\ pc'[t] # "running"
    BY <1>1, <2>1 DEF TypeOK
  <2>3. \A u \in Tasks \ {t} : cell'[u] = cell[u]
    BY <1>1, <2>1 DEF TypeOK
  <2> QED
    BY <1>4, <2>1, <2>2, <2>3
<1>11. ASSUME NEW t \in Tasks, Cancel(t)
       PROVE  permits'[c] + Cardinality(Running(c)') = exec_permits
  <2>1. /\ pc' = [pc EXCEPT ![t] = "idle"] /\ cell' = [cell EXCEPT ![t] = NoCell]
        /\ permits' = [permits EXCEPT ![cell[t]] = IF pc[t] = "running" THEN @ + 1 ELSE @]
    BY <1>11 DEF Cancel, Return
  <2>2. pc' = [pc EXCEPT ![t] = pc'[t]] /\ pc'[t] = "idle"
    BY <1>1, <2>1 DEF TypeOK
  <2>3. \A u \in Tasks \ {t} : cell'[u] = cell[u]
    BY <1>1, <2>1 DEF TypeOK
  <2>4. CASE pc[t] = "running"
    BY <1>4, <2>1, <2>2, <2>3, <2>4
  <2>5. CASE pc[t] # "running"
    <3>1. Running(c)' = Running(c) /\ permits'[c] = permits[c]
      BY <1>1, <2>1, <2>5 DEF TypeOK, Running, Holders
    <3> QED
      BY <1>3, <3>1
  <2> QED
    BY <2>4, <2>5
<1>12. ASSUME NEW k \in Keys, EvictRemove(k) \/ ShutdownRemove(k)
       PROVE  permits'[c] + Cardinality(Running(c)') = exec_permits
  BY <1>3, <1>12 DEF EvictRemove, ShutdownRemove, Running, Holders
<1>13. ASSUME NEW d \in Cells, Drop(d)
       PROVE  permits'[c] + Cardinality(Running(c)') = exec_permits
  <2>1. Running(c)' = Running(c)
    BY <1>13 DEF Drop, Running, Holders
  <2>2. CASE d = c
    <3>1. Running(c) = {}
      BY <1>13, <2>2 DEF Drop, Unreferenced, Running
    <3>2. permits'[c] = exec_permits
      BY <1>1, <1>13, <2>2 DEF TypeOK, Drop
    <3> QED
      BY <1>2, <2>1, <3>1, <3>2, FS_EmptySet
  <2>3. CASE d # c
    BY <1>1, <1>3, <1>13, <2>1, <2>3 DEF TypeOK, Drop
  <2> QED
    BY <2>2, <2>3
<1>14. ASSUME NEW d \in Cells, CloseDetached(d)
       PROVE  permits'[c] + Cardinality(Running(c)') = exec_permits
  BY <1>3, <1>14 DEF CloseDetached, Running, Holders
<1>15. CASE EvictCollect \/ ShutdownCollect \/ Tick \/ UNCHANGED vars
  BY <1>3, <1>15 DEF EvictCollect, ShutdownCollect, Tick, vars, Running, Holders
<1> QED
  BY <1>5, <1>6, <1>7, <1>8, <1>9, <1>10, <1>11, <1>12, <1>13, <1>14, <1>15 DEF Next, TaskStep

\* A closed session is out of the map and out of every task's hands; since only
\* pooled and fresh cells are handed out, it stays so.
LEMMA ClosedStep == IInv /\ [Next]_vars => ClosedIsUnused'
<1> SUFFICES ASSUME IInv, [Next]_vars, NEW d \in closed'
             PROVE  (\A k \in Keys : sessions'[k] # d) /\ (\A t \in Tasks : cell'[t] # d)
  BY DEF ClosedIsUnused, Unreferenced, Pooled, Holders
<1> USE DEF mapVars, initVars, execVars, sweepVars, closeVars
<1>1. /\ TypeOK /\ TasksReferToCells /\ ClosersAreAllocated
      /\ \A c \in closed : (\A k \in Keys : sessions[k] # c) /\ (\A t \in Tasks : cell[t] # c)
  BY DEF IInv, ClosedIsUnused, Unreferenced, Pooled, Holders
\* Steps that close nothing and give nobody a cell.
<1>2. ASSUME closed' \subseteq closed,
             \A k \in Keys : sessions'[k] \in {sessions[k], NoCell},
             \A t \in Tasks : cell'[t] \in {cell[t], NoCell}
      PROVE  (\A k \in Keys : sessions'[k] # d) /\ (\A t \in Tasks : cell'[t] # d)
  <2>1. d \in closed /\ d # NoCell
    BY <1>1, <1>2, ConstantsAssumption DEF TypeOK
  <2> QED
    BY <1>1, <1>2, <2>1
<1>3. ASSUME NEW t \in Tasks, NEW k \in Keys, Enter(t, k)
      PROVE  (\A l \in Keys : sessions'[l] # d) /\ (\A u \in Tasks : cell'[u] # d)
  <2>1. PICK c \in Cells :
              /\ cell' = [cell EXCEPT ![t] = c]
              /\ \/ sessions[k] = c /\ sessions' = sessions
                 \/ keyOf[c] = NoKey /\ sessions' = [sessions EXCEPT ![k] = c]
    BY <1>1, <1>3, EnterCell
  <2>2. d \in closed
    BY <1>3 DEF Enter
  <2>3. c # d
    BY <1>1, <2>1, <2>2 DEF ClosersAreAllocated
  <2> QED
    BY <1>1, <2>1, <2>2, <2>3 DEF TypeOK
<1>4. ASSUME NEW t \in Tasks, UseReady(t) \/ JoinInit(t) \/ ConnectAgain(t) \/ ConnectOk(t)
                              \/ ConnectFail(t) \/ Acquire(t) \/ CommandFail(t)
      PROVE  (\A k \in Keys : sessions'[k] # d) /\ (\A u \in Tasks : cell'[u] # d)
  BY <1>2, <1>4 DEF UseReady, JoinInit, ConnectAgain, ConnectOk, ConnectFail, Acquire, CommandFail
<1>5. ASSUME NEW t \in Tasks, Cleanup(t) \/ CommandOk(t) \/ Invalidate(t) \/ Cancel(t)
      PROVE  (\A k \in Keys : sessions'[k] # d) /\ (\A u \in Tasks : cell'[u] # d)
  <2>1. closed' = closed /\ cell' = [cell EXCEPT ![t] = NoCell]
    BY <1>5 DEF Cleanup, CommandOk, Invalidate, Cancel, Return
  <2>2. \A k \in Keys : sessions'[k] \in {sessions[k], NoCell}
    BY <1>1, <1>5 DEF TypeOK, Cleanup, CommandOk, Invalidate, RemoveKey, Cancel
  <2> QED
    BY <1>1, <1>2, <2>1, <2>2 DEF TypeOK
<1>6. ASSUME NEW k \in Keys, EvictRemove(k) \/ ShutdownRemove(k)
      PROVE  (\A l \in Keys : sessions'[l] # d) /\ (\A u \in Tasks : cell'[u] # d)
  <2>1. closed' = closed /\ cell' = cell /\ sessions' = [sessions EXCEPT ![k] = NoCell]
    BY <1>6 DEF EvictRemove, ShutdownRemove, RemoveKey
  <2> QED
    BY <1>1, <1>2, <2>1 DEF TypeOK
<1>7. ASSUME NEW c \in Cells, Drop(c)
      PROVE  (\A k \in Keys : sessions'[k] # d) /\ (\A u \in Tasks : cell'[u] # d)
  BY <1>2, <1>7 DEF Drop
<1>8. ASSUME NEW c \in Cells, CloseDetached(c)
      PROVE  (\A k \in Keys : sessions'[k] # d) /\ (\A u \in Tasks : cell'[u] # d)
  BY <1>1, <1>8 DEF CloseDetached, Unreferenced, Pooled, Holders
<1>9. CASE EvictCollect \/ ShutdownCollect \/ Tick \/ UNCHANGED vars
  BY <1>2, <1>9 DEF EvictCollect, ShutdownCollect, Tick, vars
<1> QED
  BY <1>3, <1>4, <1>5, <1>6, <1>7, <1>8, <1>9 DEF Next, TaskStep

\* No step leaves anybody in the queue of a cell who is not waiting there, or
\* anybody waiting there out of it.
LEMMA InitQueuesStep == IInv /\ [Next]_vars => InitQueues'
<1> SUFFICES ASSUME IInv, [Next]_vars PROVE InitQueues'
  OBVIOUS
<1> DEFINE Connects(u) == pc[u] \in {"waiting", "connecting"}
           Good(c) == /\ Once(initq[c])
                      /\ \A u \in Tasks : u \in ToSet(initq[c]) <=>
                            cell[u] = c /\ Connects(u) /\ ~ready[c]
<1>1. /\ TypeOK /\ TasksReferToCells /\ ExclusiveConnect
      /\ \A c \in Cells : Good(c) /\ initq[c] \in Seq(Tasks)
  BY DEF IInv, InitQueues, TypeOK
<1>2. SUFFICES \A c \in Cells : Good(c)'
  BY DEF InitQueues
<1>3. Once(<<>>) /\ ToSet(<<>>) = {}
  BY DEF Once, ToSet
<1> USE ConstantsAssumption DEF mapVars, initVars, execVars, sweepVars, closeVars
<1>4. ASSUME NEW t \in Tasks, ~Connects(t), ~Connects(t)',
             \A u \in Tasks \ {t} : pc'[u] = pc[u] /\ cell'[u] = cell[u],
             ready' = ready, initq' = initq
      PROVE  \A c \in Cells : Good(c)'
  BY <1>1, <1>4
<1>5. ASSUME NEW t \in Tasks, NEW k \in Keys, Enter(t, k) PROVE \A c \in Cells : Good(c)'
  <2>1. pc[t] = "idle" /\ pc' = [pc EXCEPT ![t] = "entered"] /\ ready' = ready /\ initq' = initq
    BY <1>5 DEF Enter
  <2>2. PICK c \in Cells : cell' = [cell EXCEPT ![t] = c]
    BY <1>1, <1>5, EnterCell
  <2> QED
    BY <1>1, <1>4, <2>1, <2>2 DEF TypeOK
<1>6. ASSUME NEW t \in Tasks, UseReady(t) PROVE \A c \in Cells : Good(c)'
  BY <1>1, <1>6 DEF TypeOK, UseReady, HandOut
<1>7. ASSUME NEW t \in Tasks,
             Cleanup(t) \/ Acquire(t) \/ CommandOk(t) \/ CommandFail(t) \/ Invalidate(t)
      PROVE  \A c \in Cells : Good(c)'
  <2>1. /\ ~Connects(t) /\ ~Connects(t)' /\ ready' = ready /\ initq' = initq
        /\ \A u \in Tasks \ {t} : pc'[u] = pc[u] /\ cell'[u] = cell[u]
    BY <1>1, <1>7 DEF TypeOK, Cleanup, Acquire, CommandOk, CommandFail, Invalidate, Return
  <2> QED
    BY <1>4, <2>1
<1>8. ASSUME NEW t \in Tasks, JoinInit(t) PROVE \A c \in Cells : Good(c)'
  <2>1. /\ cell[t] \in Cells /\ pc[t] = "entered" /\ ~ready[cell[t]]
        /\ initq' = [initq EXCEPT ![cell[t]] = Append(@, t)] /\ ready' = ready /\ cell' = cell
        /\ Connects(t)' /\ \A u \in Tasks \ {t} : pc'[u] = pc[u]
    BY <1>1, <1>8, ActiveTask DEF TypeOK, JoinInit
  <2>2. t \notin ToSet(initq[cell[t]])
    BY <1>1, <2>1
  <2>3. /\ Once(Append(initq[cell[t]], t))
        /\ ToSet(Append(initq[cell[t]], t)) = ToSet(initq[cell[t]]) \cup {t}
    BY <1>1, <2>1, <2>2, AppendOnce
  <2>4. ASSUME NEW c \in Cells, c = cell[t] PROVE Good(c)'
    BY <1>1, <2>1, <2>3, <2>4 DEF TypeOK
  <2>5. ASSUME NEW c \in Cells, c # cell[t] PROVE Good(c)'
    BY <1>1, <2>1, <2>5 DEF TypeOK
  <2> QED
    BY <2>4, <2>5
<1>9. ASSUME NEW t \in Tasks, ConnectAgain(t) PROVE \A c \in Cells : Good(c)'
  BY <1>1, <1>9 DEF TypeOK, ConnectAgain
<1>10. ASSUME NEW t \in Tasks, ConnectOk(t) PROVE \A c \in Cells : Good(c)'
  BY <1>1, <1>3, <1>10, ActiveTask DEF TypeOK, ConnectOk, HandOut
<1>11. ASSUME NEW t \in Tasks, ConnectFail(t) PROVE \A c \in Cells : Good(c)'
  <2>1. /\ cell[t] \in Cells /\ pc[t] = "connecting"
        /\ initq' = [initq EXCEPT ![cell[t]] = Tail(@)] /\ ready' = ready /\ cell' = cell
        /\ pc' = [pc EXCEPT ![t] = "cleanup"]
    BY <1>11, ActiveTask DEF ConnectFail
  <2>2. initq[cell[t]] # <<>> /\ Head(initq[cell[t]]) = t
    BY <1>1, <2>1, ConnectingTask
  <2>3. /\ Once(Tail(initq[cell[t]]))
        /\ ToSet(Tail(initq[cell[t]])) = ToSet(initq[cell[t]]) \ {t}
    BY <1>1, <2>1, <2>2, TailOnce
  <2>4. ASSUME NEW c \in Cells, c = cell[t] PROVE Good(c)'
    BY <1>1, <2>1, <2>3, <2>4 DEF TypeOK
  <2>5. ASSUME NEW c \in Cells, c # cell[t] PROVE Good(c)'
    BY <1>1, <2>1, <2>5 DEF TypeOK
  <2> QED
    BY <2>4, <2>5
<1>12. ASSUME NEW t \in Tasks, Cancel(t) PROVE \A c \in Cells : Good(c)'
  <2>1. /\ cell[t] \in Cells /\ pc[t] # "idle"
        /\ initq' = [initq EXCEPT ![cell[t]] = Without(@, t)] /\ ready' = ready
        /\ pc' = [pc EXCEPT ![t] = "idle"] /\ cell' = [cell EXCEPT ![t] = NoCell]
    BY <1>12, ActiveTask DEF Cancel, Return
  <2>2. /\ Once(Without(initq[cell[t]], t))
        /\ ToSet(Without(initq[cell[t]], t)) = ToSet(initq[cell[t]]) \ {t}
    BY <1>1, <2>1, WithoutOnce
  <2>3. ASSUME NEW c \in Cells, c = cell[t] PROVE Good(c)'
    BY <1>1, <2>1, <2>2, <2>3 DEF TypeOK
  <2>4. ASSUME NEW c \in Cells, c # cell[t] PROVE Good(c)'
    BY <1>1, <2>1, <2>4 DEF TypeOK
  <2> QED
    BY <2>3, <2>4
<1>13. ASSUME NEW c \in Cells, Drop(c) PROVE \A d \in Cells : Good(d)'
  BY <1>1, <1>13 DEF TypeOK, Drop, Unreferenced, Holders
<1>14. ASSUME NEW k \in Keys, EvictRemove(k) \/ ShutdownRemove(k) PROVE \A c \in Cells : Good(c)'
  BY <1>1, <1>14 DEF EvictRemove, ShutdownRemove
<1>15. ASSUME NEW c \in Cells, CloseDetached(c) PROVE \A d \in Cells : Good(d)'
  BY <1>1, <1>15 DEF CloseDetached
<1>16. CASE EvictCollect \/ ShutdownCollect \/ Tick \/ UNCHANGED vars
  BY <1>1, <1>16 DEF EvictCollect, ShutdownCollect, Tick, vars
<1> QED
  BY <1>5, <1>6, <1>7, <1>8, <1>9, <1>10, <1>11, <1>12, <1>13, <1>14, <1>15, <1>16
     DEF Next, TaskStep

\* The same for the queue of the semaphore: handed a session, a caller is in it
\* until it is granted a permit or dropped.
LEMMA PermitQueuesStep == IInv /\ [Next]_vars => PermitQueues'
<1> SUFFICES ASSUME IInv, [Next]_vars PROVE PermitQueues'
  OBVIOUS
<1> DEFINE Good(c) == /\ Once(permitq[c])
                      /\ \A u \in Tasks : u \in ToSet(permitq[c]) <=>
                            cell[u] = c /\ pc[u] = "acquiring"
<1>1. /\ TypeOK /\ TasksReferToCells
      /\ \A c \in Cells : Good(c) /\ permitq[c] \in Seq(Tasks)
  BY DEF IInv, PermitQueues, TypeOK
<1>2. SUFFICES \A c \in Cells : Good(c)'
  BY DEF PermitQueues
<1> USE ConstantsAssumption DEF mapVars, initVars, execVars, sweepVars, closeVars
<1>3. ASSUME NEW t \in Tasks, pc[t] # "acquiring", pc'[t] # "acquiring",
             \A u \in Tasks \ {t} : pc'[u] = pc[u] /\ cell'[u] = cell[u],
             permitq' = permitq
      PROVE  \A c \in Cells : Good(c)'
  BY <1>1, <1>3
<1>4. ASSUME NEW t \in Tasks, NEW k \in Keys, Enter(t, k) PROVE \A c \in Cells : Good(c)'
  <2>1. pc[t] = "idle" /\ pc' = [pc EXCEPT ![t] = "entered"] /\ permitq' = permitq
    BY <1>4 DEF Enter
  <2>2. PICK c \in Cells : cell' = [cell EXCEPT ![t] = c]
    BY <1>1, <1>4, EnterCell
  <2> QED
    BY <1>1, <1>3, <2>1, <2>2 DEF TypeOK
<1>5. ASSUME NEW t \in Tasks, UseReady(t) \/ ConnectOk(t) PROVE \A c \in Cells : Good(c)'
  <2>1. /\ cell[t] \in Cells /\ pc[t] # "acquiring" /\ cell' = cell
        /\ permitq' = [permitq EXCEPT ![cell[t]] = Append(@, t)]
        /\ pc' = [pc EXCEPT ![t] = "acquiring"]
    BY <1>5, ActiveTask DEF UseReady, ConnectOk, HandOut
  <2>2. t \notin ToSet(permitq[cell[t]])
    BY <1>1, <2>1
  <2>3. /\ Once(Append(permitq[cell[t]], t))
        /\ ToSet(Append(permitq[cell[t]], t)) = ToSet(permitq[cell[t]]) \cup {t}
    BY <1>1, <2>1, <2>2, AppendOnce
  <2>4. ASSUME NEW c \in Cells, c = cell[t] PROVE Good(c)'
    BY <1>1, <2>1, <2>3, <2>4 DEF TypeOK
  <2>5. ASSUME NEW c \in Cells, c # cell[t] PROVE Good(c)'
    BY <1>1, <2>1, <2>5 DEF TypeOK
  <2> QED
    BY <2>4, <2>5
<1>6. ASSUME NEW t \in Tasks, Acquire(t) PROVE \A c \in Cells : Good(c)'
  <2>1. /\ cell[t] \in Cells /\ permitq[cell[t]] # <<>> /\ Head(permitq[cell[t]]) = t
        /\ permitq' = [permitq EXCEPT ![cell[t]] = Tail(@)]
        /\ pc' = [pc EXCEPT ![t] = "running"] /\ cell' = cell
    BY <1>6, ActiveTask DEF Acquire
  <2>2. /\ Once(Tail(permitq[cell[t]]))
        /\ ToSet(Tail(permitq[cell[t]])) = ToSet(permitq[cell[t]]) \ {t}
    BY <1>1, <2>1, TailOnce
  <2>3. ASSUME NEW c \in Cells, c = cell[t] PROVE Good(c)'
    BY <1>1, <2>1, <2>2, <2>3 DEF TypeOK
  <2>4. ASSUME NEW c \in Cells, c # cell[t] PROVE Good(c)'
    BY <1>1, <2>1, <2>4 DEF TypeOK
  <2> QED
    BY <2>3, <2>4
<1>7. ASSUME NEW t \in Tasks, Cancel(t) PROVE \A c \in Cells : Good(c)'
  <2>1. /\ cell[t] \in Cells
        /\ permitq' = [permitq EXCEPT ![cell[t]] = Without(@, t)]
        /\ pc' = [pc EXCEPT ![t] = "idle"] /\ cell' = [cell EXCEPT ![t] = NoCell]
    BY <1>7, ActiveTask DEF Cancel, Return
  <2>2. /\ Once(Without(permitq[cell[t]], t))
        /\ ToSet(Without(permitq[cell[t]], t)) = ToSet(permitq[cell[t]]) \ {t}
    BY <1>1, <2>1, WithoutOnce
  <2>3. ASSUME NEW c \in Cells, c = cell[t] PROVE Good(c)'
    BY <1>1, <2>1, <2>2, <2>3 DEF TypeOK
  <2>4. ASSUME NEW c \in Cells, c # cell[t] PROVE Good(c)'
    BY <1>1, <2>1, <2>4 DEF TypeOK
  <2> QED
    BY <2>3, <2>4
<1>8. ASSUME NEW t \in Tasks,
             \/ JoinInit(t) \/ ConnectAgain(t) \/ ConnectFail(t) \/ Cleanup(t)
             \/ CommandOk(t) \/ CommandFail(t) \/ Invalidate(t)
      PROVE  \A c \in Cells : Good(c)'
  <2>1. /\ pc[t] # "acquiring" /\ pc'[t] # "acquiring" /\ permitq' = permitq
        /\ \A u \in Tasks \ {t} : pc'[u] = pc[u] /\ cell'[u] = cell[u]
    BY <1>1, <1>8 DEF TypeOK, JoinInit, ConnectAgain, ConnectFail, Cleanup, CommandOk,
                      CommandFail, Invalidate, Return
  <2> QED
    BY <1>3, <2>1
<1>9. ASSUME NEW k \in Keys, EvictRemove(k) \/ ShutdownRemove(k) PROVE \A c \in Cells : Good(c)'
  BY <1>1, <1>9 DEF EvictRemove, ShutdownRemove
<1>10. ASSUME NEW c \in Cells, CloseDetached(c) \/ Drop(c) PROVE \A d \in Cells : Good(d)'
  BY <1>1, <1>10 DEF CloseDetached, Drop
<1>11. CASE EvictCollect \/ ShutdownCollect \/ Tick \/ UNCHANGED vars
  BY <1>1, <1>11 DEF EvictCollect, ShutdownCollect, Tick, vars
<1> QED
  BY <1>4, <1>5, <1>6, <1>7, <1>8, <1>9, <1>10, <1>11 DEF Next, TaskStep

-----------------------------------------------------------------------------
(* The theorems *)

\* The strengthened invariant holds at the start: no cell is allocated.
LEMMA InitInv == Init => IInv
<1> SUFFICES ASSUME Init PROVE IInv
  OBVIOUS
<1>1. TypeOK
  BY TypeInit
<1>2. TasksReferToCells /\ MapKeysAgree /\ UsersHoldSessions /\ ClosersAreAllocated
  BY ConstantsAssumption
     DEF Init, TasksReferToCells, MapKeysAgree, UsersHoldSessions, ClosersAreAllocated
<1>3. ExclusiveConnect /\ ClosedIsUnused
  BY DEF Init, ExclusiveConnect, Connecting, Holders, ClosedIsUnused
<1>4. ASSUME NEW c \in Cells PROVE permits[c] + Cardinality(Running(c)) = exec_permits
  <2>1. Running(c) = {} /\ permits[c] = exec_permits
    BY DEF Init, Running, Holders
  <2> QED
    BY <2>1, FS_EmptySet, PermitsPositive
<1>5. Once(<<>>) /\ ToSet(<<>>) = {}
  BY DEF Once, ToSet
<1>6. InitQueues /\ PermitQueues
  BY <1>5 DEF Init, InitQueues, PermitQueues
<1> QED
  BY <1>1, <1>2, <1>3, <1>4, <1>6 DEF IInv, PermitsConserved

\* The strengthened invariant is inductive.
LEMMA StepInv == IInv /\ [Next]_vars => IInv'
BY TypeStep, ReferStep, MapStep, UsersStep, ClosersStep, ExclusiveStep, PermitsStep, ClosedStep,
   InitQueuesStep, PermitQueuesStep
   DEF IInv

\* The strengthened invariant holds in every reachable state.
LEMMA InvAlways == Spec => []IInv
BY InitInv, StepInv, PTL DEF Spec

\* The pool's state keeps its shape, and in particular a semaphore never has
\* more permits than it was built with.
THEOREM TypeCorrect == Spec => []TypeOK
<1>1. IInv => TypeOK
  BY DEF IInv
<1> QED
  BY <1>1, InvAlways, PTL

\* However exec ends (output, failure, deadline, cancellation), no permit of the
\* session is lost and none is minted.
THEOREM PermitsAreConserved == Spec => []PermitsConserved
<1>1. IInv => PermitsConserved
  BY DEF IInv
<1> QED
  BY <1>1, InvAlways, PTL

\* No two callers connect on the same cell at the same time, also when callers
\* fail or are cancelled while others queue.
THEOREM ConnectIsExclusive == Spec => []ExclusiveConnect
<1>1. IInv => ExclusiveConnect
  BY DEF IInv
<1> QED
  BY <1>1, InvAlways, PTL

\* The detached closer never closes a session somebody can still use.
THEOREM CloseIsSafe == Spec => []ClosedIsUnused
<1>1. IInv => ClosedIsUnused
  BY DEF IInv
<1> QED
  BY <1>1, InvAlways, PTL

\* A caller in a queue is never behind one that will not go on: the head of each
\* queue is a caller that can, or has what the others wait for.  (That they do go
\* on is what the liveness run adds, from fairness.)
THEOREM WaitersWaitForSomebody == Spec => []WaitersAreServed
<1> SUFFICES ASSUME IInv, NEW t \in Tasks
             PROVE  LET c == cell[t] IN
                    /\ pc[t] = "waiting" /\ ~ready[c]
                       => /\ initq[c] # <<>>
                          /\ Head(initq[c]) \in {u \in Holders(c) : pc[u] \in {"waiting", "connecting"}}
                    /\ pc[t] = "acquiring"
                       => \/ Running(c) # {}
                          \/ /\ permits[c] > 0
                             /\ permitq[c] # <<>>
                             /\ Head(permitq[c]) \in {u \in Holders(c) : pc[u] = "acquiring"}
  <2>1. IInv => WaitersAreServed
    BY DEF WaitersAreServed
  <2> QED
    BY <2>1, InvAlways, PTL
<1> DEFINE c == cell[t]
<1>1. ASSUME NEW q \in Seq(Tasks), Once(q), t \in ToSet(q)
      PROVE  q # <<>> /\ Head(q) \in ToSet(q) /\ Head(q) \in Tasks
  <2>1. q # <<>>
    BY <1>1 DEF ToSet
  <2> QED
    BY <1>1, <2>1, TailOnce, HeadTailProperties
<1>2. ASSUME pc[t] = "waiting", ~ready[c]
      PROVE  /\ initq[c] # <<>>
             /\ Head(initq[c]) \in {u \in Holders(c) : pc[u] \in {"waiting", "connecting"}}
  <2>1. c \in Cells /\ initq[c] \in Seq(Tasks) /\ Once(initq[c]) /\ t \in ToSet(initq[c])
    BY <1>2, ActiveTask DEF IInv, TypeOK, InitQueues
  <2>2. initq[c] # <<>> /\ Head(initq[c]) \in ToSet(initq[c]) /\ Head(initq[c]) \in Tasks
    BY <1>1, <2>1
  <2> QED
    BY <2>1, <2>2 DEF IInv, InitQueues, Holders
<1>3. ASSUME pc[t] = "acquiring", Running(c) = {}
      PROVE  /\ permits[c] > 0
             /\ permitq[c] # <<>>
             /\ Head(permitq[c]) \in {u \in Holders(c) : pc[u] = "acquiring"}
  <2>1. c \in Cells /\ permitq[c] \in Seq(Tasks) /\ Once(permitq[c]) /\ t \in ToSet(permitq[c])
    BY <1>3, ActiveTask DEF IInv, TypeOK, PermitQueues
  <2>2. permitq[c] # <<>> /\ Head(permitq[c]) \in ToSet(permitq[c]) /\ Head(permitq[c]) \in Tasks
    BY <1>1, <2>1
  <2>3. permits[c] = exec_permits
    <3>1. permits[c] + Cardinality(Running(c)) = exec_permits /\ permits[c] \in 0..exec_permits
      BY <2>1 DEF IInv, TypeOK, PermitsConserved
    <3>2. Cardinality(Running(c)) = 0
      BY <1>3, FS_EmptySet
    <3> QED
      BY <3>1, <3>2, PermitsPositive
  <2> QED
    BY <2>1, <2>2, <2>3, PermitsPositive DEF IInv, PermitQueues, Holders
<1> QED
  BY <1>2, <1>3

\* A step puts no cell into the map but a fresh one.
LEMMA MapOnlyGainsFresh ==
    ASSUME IInv, Next, NEW k \in Keys, NEW d \in Cells, sessions'[k] = d
    PROVE  sessions[k] = d \/ keyOf[d] = NoKey
<1>1. TypeOK /\ NoCell \notin Cells
  BY ConstantsAssumption DEF IInv
<1> USE DEF mapVars
<1>2. CASE \A l \in Keys : sessions'[l] \in {sessions[l], NoCell}
  BY <1>1, <1>2
<1>3. ASSUME NEW t \in Tasks, NEW l \in Keys, Enter(t, l)
      PROVE  sessions[k] = d \/ keyOf[d] = NoKey
  <2>1. PICK c \in Cells :
              \/ sessions' = sessions
              \/ keyOf[c] = NoKey /\ sessions' = [sessions EXCEPT ![l] = c]
    BY <1>1, <1>3, EnterCell
  <2> QED
    BY <1>1, <2>1 DEF TypeOK
<1>4. ASSUME NEW t \in Tasks, TaskStep(t) \/ Cancel(t)
      PROVE  \A l \in Keys : sessions'[l] \in {sessions[l], NoCell}
  BY <1>1, <1>4 DEF TypeOK, TaskStep, UseReady, JoinInit, ConnectAgain, ConnectOk, ConnectFail,
                    Cleanup, Acquire, CommandOk, CommandFail, Invalidate, RemoveKey, Cancel
<1>5. ASSUME NEW l \in Keys, EvictRemove(l) \/ ShutdownRemove(l)
      PROVE  \A m \in Keys : sessions'[m] \in {sessions[m], NoCell}
  BY <1>1, <1>5 DEF TypeOK, EvictRemove, ShutdownRemove, RemoveKey
<1>6. ASSUME NEW c \in Cells, CloseDetached(c) \/ Drop(c)
      PROVE  \A l \in Keys : sessions'[l] \in {sessions[l], NoCell}
  BY <1>6 DEF CloseDetached, Drop
<1>7. CASE EvictCollect \/ ShutdownCollect \/ Tick
  BY <1>2, <1>7 DEF EvictCollect, ShutdownCollect, Tick
<1> QED
  BY <1>2, <1>3, <1>4, <1>5, <1>6, <1>7 DEF Next

\* A cell the map lost is never handed out again: a session that was given up
\* cannot come back, whatever late failures and sweeps do.
THEOREM DiscardedNeverReturns == Spec => DiscardedStaysOut
<1> DEFINE Out == \A c \in Cells : keyOf[c] # NoKey /\ ~Pooled(c)
                       => \A k \in Keys : sessions'[k] # c
<1>1. IInv /\ Next => Out
  BY MapOnlyGainsFresh DEF Pooled
<1>2. IInv /\ [Next]_vars => [Out]_vars
  BY <1>1
<1> HIDE DEF Out
<1>3. Spec => [][Out]_vars
  BY <1>2, InvAlways, PTL DEF Spec
<1> QED
  BY <1>3 DEF DiscardedStaysOut, Out

\* A session whose command failed is out of the map when exec returns the
\* error: no later checkout gets it.
THEOREM FailedSessionLeaves == Spec => FailedLeavesPool
<1> DEFINE Leaves == \A t \in Tasks : pc[t] = "failed" /\ pc'[t] = "idle"
                        => \A k \in Keys : sessions'[k] # cell[t]
<1>1. ASSUME IInv, Next, NEW t \in Tasks, pc[t] = "failed", pc'[t] = "idle", NEW k \in Keys
      PROVE  sessions'[k] # cell[t]
  <2>1. TypeOK /\ MapKeysAgree /\ cell[t] \in Cells /\ NoCell \notin Cells
    BY <1>1, ActiveTask, ConstantsAssumption DEF IInv
  <2>2. CASE Invalidate(t)
    <3>1. sessions' = [sessions EXCEPT ![keyOf[cell[t]]] = NoCell]
      BY <2>2 DEF Invalidate, RemoveKey
    <3> QED
      BY <2>1, <3>1 DEF TypeOK, MapKeysAgree
  <2>3. ASSUME NEW u \in Tasks, TaskStep(u), ~Invalidate(t) PROVE pc'[t] = "failed"
    BY <1>1, <2>1, <2>3
       DEF TypeOK, TaskStep, UseReady, HandOut, JoinInit, ConnectAgain, ConnectOk, ConnectFail,
           Cleanup, Acquire, CommandOk, CommandFail, Invalidate, Return
  <2>4. ASSUME NEW u \in Tasks, Cancel(u) PROVE pc'[t] = "failed"
    BY <1>1, <2>1, <2>4 DEF TypeOK, Cancel, Return
  <2>5. ASSUME NEW u \in Tasks, NEW l \in Keys, Enter(u, l) PROVE pc'[t] = "failed"
    BY <1>1, <2>1, <2>5 DEF TypeOK, Enter
  <2>6. ASSUME NEW l \in Keys, EvictRemove(l) \/ ShutdownRemove(l) PROVE pc'[t] = "failed"
    BY <1>1, <2>6 DEF EvictRemove, ShutdownRemove
  <2>7. ASSUME NEW c \in Cells, CloseDetached(c) \/ Drop(c) PROVE pc'[t] = "failed"
    BY <1>1, <2>7 DEF CloseDetached, Drop
  <2>8. CASE EvictCollect \/ ShutdownCollect \/ Tick
    BY <1>1, <2>8 DEF EvictCollect, ShutdownCollect, Tick
  <2> QED
    BY <1>1, <2>2, <2>3, <2>4, <2>5, <2>6, <2>7, <2>8 DEF Next
<1>2. IInv /\ [Next]_vars => [Leaves]_vars
  BY <1>1
<1> HIDE DEF Leaves
<1>3. Spec => [][Leaves]_vars
  BY <1>2, InvAlways, PTL DEF Spec
<1> QED
  BY <1>3 DEF FailedLeavesPool, Leaves

\* A caller whose connect failed cleans up after itself only: a session another
\* caller has established in the meantime stays in the map.
THEOREM FailureIsContained == Spec => FailureSparesSessions
<1> DEFINE Spares == \A t \in Tasks : pc[t] = "cleanup" /\ pc'[t] # "cleanup"
                        => \A k \in Keys, c \in Cells :
                              sessions[k] = c /\ ready[c] => sessions'[k] = c
<1>1. ASSUME IInv, Next, NEW t \in Tasks, pc[t] = "cleanup", pc'[t] # "cleanup",
             NEW k \in Keys, NEW c \in Cells, sessions[k] = c, ready[c]
      PROVE  sessions'[k] = c
  <2>1. TypeOK
    BY <1>1 DEF IInv
  <2>2. CASE Cleanup(t)
    BY <1>1, <2>1, <2>2 DEF TypeOK, Cleanup
  <2>3. ASSUME NEW u \in Tasks, TaskStep(u), ~Cleanup(t) PROVE pc'[t] = "cleanup"
    BY <1>1, <2>1, <2>3
       DEF TypeOK, TaskStep, UseReady, HandOut, JoinInit, ConnectAgain, ConnectOk, ConnectFail,
           Cleanup, Acquire, CommandOk, CommandFail, Invalidate, Return
  <2>4. ASSUME NEW u \in Tasks, Cancel(u) PROVE pc'[t] = "cleanup"
    BY <1>1, <2>1, <2>4 DEF TypeOK, Cancel, Return
  <2>5. ASSUME NEW u \in Tasks, NEW l \in Keys, Enter(u, l) PROVE pc'[t] = "cleanup"
    BY <1>1, <2>1, <2>5 DEF TypeOK, Enter
  <2>6. ASSUME NEW l \in Keys, EvictRemove(l) \/ ShutdownRemove(l) PROVE pc'[t] = "cleanup"
    BY <1>1, <2>6 DEF EvictRemove, ShutdownRemove
  <2>7. ASSUME NEW d \in Cells, CloseDetached(d) \/ Drop(d) PROVE pc'[t] = "cleanup"
    BY <1>1, <2>7 DEF CloseDetached, Drop
  <2>8. CASE EvictCollect \/ ShutdownCollect \/ Tick
    BY <1>1, <2>8 DEF EvictCollect, ShutdownCollect, Tick
  <2> QED
    BY <1>1, <2>2, <2>3, <2>4, <2>5, <2>6, <2>7, <2>8 DEF Next
<1>2. IInv /\ [Next]_vars => [Spares]_vars
  BY <1>1
<1> HIDE DEF Spares
<1>3. Spec => [][Spares]_vars
  BY <1>2, InvAlways, PTL DEF Spec
<1> QED
  BY <1>3 DEF FailureSparesSessions, Spares

\* Who is getting a cell its session goes on to, unless it acts itself.
LEMMA AttendantsStay ==
    ASSUME IInv, Next, NEW t \in Tasks, pc[t] # "idle",
           ~TaskStep(t), ~Cancel(t)
    PROVE  pc'[t] = pc[t] /\ cell'[t] = cell[t]
<1>1. TypeOK
  BY DEF IInv
<1>2. ASSUME NEW u \in Tasks, u # t, TaskStep(u) PROVE pc'[t] = pc[t] /\ cell'[t] = cell[t]
  BY <1>1, <1>2
     DEF TypeOK, TaskStep, UseReady, HandOut, JoinInit, ConnectAgain, ConnectOk, ConnectFail,
         Cleanup, Acquire, CommandOk, CommandFail, Invalidate, Return
<1>3. ASSUME NEW u \in Tasks, u # t, Cancel(u) PROVE pc'[t] = pc[t] /\ cell'[t] = cell[t]
  BY <1>1, <1>3 DEF TypeOK, Cancel, Return
<1>4. ASSUME NEW u \in Tasks, NEW l \in Keys, Enter(u, l)
      PROVE  pc'[t] = pc[t] /\ cell'[t] = cell[t]
  BY <1>1, <1>4 DEF TypeOK, Enter
<1>5. ASSUME NEW l \in Keys, EvictRemove(l) \/ ShutdownRemove(l)
      PROVE  pc'[t] = pc[t] /\ cell'[t] = cell[t]
  BY <1>5 DEF EvictRemove, ShutdownRemove
<1>6. ASSUME NEW d \in Cells, CloseDetached(d) \/ Drop(d)
      PROVE  pc'[t] = pc[t] /\ cell'[t] = cell[t]
  BY <1>6 DEF CloseDetached, Drop
<1>7. CASE EvictCollect \/ ShutdownCollect \/ Tick
  BY <1>7 DEF EvictCollect, ShutdownCollect, Tick
<1> QED
  BY <1>2, <1>3, <1>4, <1>5, <1>6, <1>7 DEF Next

\* While somebody works on an empty cell of the map it is not forgotten there:
\* it gets its session, leaves the map, or passes to the next caller, unless
\* the one at work is cancelled.
THEOREM GhostsComeOfCancels == Spec => OnlyCancelLeavesGhosts
<1> DEFINE Tended == \A k \in Keys, c \in Cells :
                        sessions[k] = c /\ ~ready[c] /\ Attended(c)
                        => \/ sessions'[k] # c \/ ready'[c] \/ Attended(c)'
                           \/ \E t \in Holders(c) :
                                 pc[t] \in {"waiting", "connecting"} /\ pc'[t] = "idle"
<1>1. ASSUME IInv, Next, NEW k \in Keys, NEW c \in Cells,
             sessions[k] = c, ~ready[c], Attended(c)
      PROVE  \/ sessions'[k] # c \/ ready'[c] \/ Attended(c)'
             \/ \E t \in Holders(c) : pc[t] \in {"waiting", "connecting"} /\ pc'[t] = "idle"
  <2>1. PICK t \in Tasks : /\ cell[t] = c
                           /\ pc[t] \in {"entered", "waiting", "connecting", "cleanup"}
    BY <1>1 DEF Attended, Holders
  <2>2. TypeOK /\ keyOf[c] = k /\ NoCell \notin Cells
    BY <1>1, ConstantsAssumption DEF IInv, MapKeysAgree
  <2>3. CASE JoinInit(t) \/ ConnectAgain(t) \/ ConnectFail(t)
    <3>1. cell'[t] = c /\ pc'[t] \in {"waiting", "connecting", "cleanup"}
      BY <2>1, <2>2, <2>3 DEF TypeOK, JoinInit, ConnectAgain, ConnectFail
    <3> QED
      BY <3>1 DEF Attended, Holders
  <2>4. CASE ConnectOk(t)
    BY <2>1, <2>2, <2>4 DEF TypeOK, ConnectOk
  <2>5. CASE Cleanup(t)
    BY <1>1, <2>1, <2>2, <2>5 DEF TypeOK, Cleanup
  <2>6. CASE Cancel(t)
    BY <2>1, <2>2, <2>6 DEF TypeOK, Cancel, Return, Holders
  <2>7. CASE ~TaskStep(t) /\ ~Cancel(t)
    <3>1. pc'[t] = pc[t] /\ cell'[t] = cell[t]
      BY <1>1, <2>1, <2>7, AttendantsStay
    <3> QED
      BY <2>1, <3>1 DEF Attended, Holders
  <2>8. CASE UseReady(t) \/ Acquire(t) \/ CommandOk(t) \/ CommandFail(t) \/ Invalidate(t)
    BY <1>1, <2>1, <2>8 DEF UseReady, Acquire, CommandOk, CommandFail, Invalidate
  <2> QED
    BY <2>3, <2>4, <2>5, <2>6, <2>7, <2>8 DEF TaskStep
<1>2. IInv /\ [Next]_vars => [Tended]_vars
  BY <1>1
<1> HIDE DEF Tended
<1>3. Spec => [][Tended]_vars
  BY <1>2, InvAlways, PTL DEF Spec
<1> QED
  BY <1>3 DEF OnlyCancelLeavesGhosts, Tended

-----------------------------------------------------------------------------
(* The pool implements ConnectionSpec                                       *)

\* The mapped state: sessions that can be used, their users, those they failed.
OpenCells == {c \in Cells : ready[c]} \ closed
Users == {t \in Tasks : pc[t] \in {"acquiring", "running", "failed"}}
Failed == {t \in Tasks : pc[t] = "failed"}

\* The empty pool is the promise's initial state.
LEMMA PromiseInit == Init => Promise!Init
BY DEF Init, Promise!Init

\* A session a task has a reference to is not closed.
LEMMA HeldIsOpen ==
    ASSUME IInv, NEW t \in Tasks, pc[t] # "idle"
    PROVE  cell[t] \in OpenCells <=> ready[cell[t]]
<1>1. cell[t] \in Cells
  BY ActiveTask
<1>2. cell[t] \notin closed
  BY <1>1 DEF IInv, ClosedIsUnused, Unreferenced, Holders
<1> QED
  BY <1>1, <1>2 DEF OpenCells

\* Every step of the pool is a step of the promise, or changes nothing it sees.
LEMMA PromiseStep == IInv /\ [Next]_vars => [Promise!Next]_(Promise!vars)
<1> SUFFICES ASSUME IInv, [Next]_vars PROVE [Promise!Next]_(Promise!vars)
  OBVIOUS
<1> USE DEF mapVars, initVars, execVars, sweepVars, closeVars
<1>1. TypeOK /\ MapKeysAgree /\ NoCell \notin Cells
  BY ConstantsAssumption DEF IInv
<1>2. /\ Promise!vars = <<sessions, keyOf, OpenCells, cell, Users, Failed>>
      /\ (Promise!vars)' = <<sessions, keyOf, OpenCells, cell, Users, Failed>>'
  BY DEF Promise!vars, OpenCells, Users, Failed
<1>3. ASSUME NEW t \in Tasks, NEW k \in Keys, Enter(t, k) PROVE Promise!Come(t, k)
  <2>1. pc[t] = "idle" /\ pc' = [pc EXCEPT ![t] = "entered"] /\ UNCHANGED <<ready, closed>>
    BY <1>3 DEF Enter
  <2>2. Users' = Users /\ Failed' = Failed /\ OpenCells' = OpenCells
    <3>1. t \notin Users /\ t \notin Failed
      BY <2>1 DEF Users, Failed
    <3> QED
      BY <1>1, <2>1, <3>1 DEF TypeOK, OpenCells, Users, Failed
  <2>3. cell[t] = NoCell
    BY <2>1 DEF IInv, TasksReferToCells
  <2> QED
    BY <1>3, <2>2, <2>3 DEF Enter, Promise!Come, OpenCells, Users, Failed
<1>4. ASSUME NEW t \in Tasks, UseReady(t) PROVE Promise!Share(t)
  <2>1. /\ pc[t] \in {"entered", "waiting"} /\ pc' = [pc EXCEPT ![t] = "acquiring"]
        /\ ready[cell[t]] /\ UNCHANGED <<sessions, keyOf, ready, closed, cell>>
    BY <1>4 DEF UseReady, HandOut
  <2>2. Users' = Users \cup {t} /\ Failed' = Failed /\ t \notin Users
    <3>1. t \notin Users /\ t \notin Failed
      BY <2>1 DEF Users, Failed
    <3> QED
      BY <1>1, <2>1, <3>1 DEF TypeOK, Users, Failed
  <2>3. cell[t] \in OpenCells /\ OpenCells' = OpenCells
    BY <2>1, HeldIsOpen DEF OpenCells
  <2> QED
    BY <2>1, <2>2, <2>3 DEF Promise!Share, OpenCells, Users, Failed
<1>5. ASSUME NEW t \in Tasks, ConnectOk(t) PROVE Promise!Connect(t)
  <2>1. /\ pc[t] = "connecting" /\ pc' = [pc EXCEPT ![t] = "acquiring"]
        /\ ready' = [ready EXCEPT ![cell[t]] = TRUE]
        /\ UNCHANGED <<sessions, keyOf, closed, cell>>
    BY <1>5 DEF ConnectOk, HandOut
  <2>2. Users' = Users \cup {t} /\ Failed' = Failed /\ t \notin Users
    <3>1. t \notin Users /\ t \notin Failed
      BY <2>1 DEF Users, Failed
    <3> QED
      BY <1>1, <2>1, <3>1 DEF TypeOK, Users, Failed
  <2>3. cell[t] \in Cells /\ ~ready[cell[t]] /\ cell[t] \notin closed
    <3>1. cell[t] \in Cells /\ t \in Connecting(cell[t])
      BY <2>1, ActiveTask DEF Connecting, Holders
    <3> QED
      BY <3>1 DEF IInv, ExclusiveConnect, ClosedIsUnused, Unreferenced, Connecting
  <2>4. cell[t] \notin OpenCells /\ OpenCells' = OpenCells \cup {cell[t]}
    BY <1>1, <2>1, <2>3 DEF TypeOK, OpenCells
  <2>5. cell[t] # NoCell
    BY <1>1, <2>3
  <2> QED
    BY <2>1, <2>2, <2>4, <2>5 DEF Promise!Connect, OpenCells, Users, Failed
<1>6. ASSUME NEW t \in Tasks, Cleanup(t) \/ CommandOk(t) \/ Cancel(t) PROVE Promise!Leave(t)
  <2>1. /\ pc[t] \notin {"idle", "failed"} /\ pc' = [pc EXCEPT ![t] = "idle"]
        /\ cell' = [cell EXCEPT ![t] = NoCell]
        /\ UNCHANGED <<keyOf, ready, closed>>
    BY <1>6 DEF Cleanup, CommandOk, Cancel, Return
  <2>2. Users' = Users \ {t} /\ Failed' = Failed /\ t \notin Failed
    <3>1. t \notin Failed
      BY <2>1 DEF Failed
    <3> QED
      BY <1>1, <2>1, <3>1 DEF TypeOK, Users, Failed
  <2>3. cell[t] # NoCell /\ cell[t] \in Cells /\ OpenCells' = OpenCells
    BY <1>1, <2>1, ActiveTask DEF OpenCells
  <2>4. \/ sessions' = sessions
        \/ /\ t \notin Users /\ cell[t] \notin OpenCells
           /\ sessions' = [k \in Keys |-> IF sessions[k] = cell[t] THEN NoCell ELSE sessions[k]]
    <3>1. CASE CommandOk(t) \/ Cancel(t)
      BY <3>1 DEF CommandOk, Cancel
    <3>2. CASE Cleanup(t)
      <4>1. /\ pc[t] = "cleanup"
            /\ sessions' = [k \in Keys |-> IF k = keyOf[cell[t]] /\ sessions[k] = cell[t] /\ ~ready[cell[t]]
                                           THEN NoCell ELSE sessions[k]]
        BY <3>2 DEF Cleanup
      <4>2. CASE ready[cell[t]]
        BY <1>1, <4>1, <4>2 DEF TypeOK
      <4>3. CASE ~ready[cell[t]]
        <5>1. \A k \in Keys : sessions[k] = cell[t] => k = keyOf[cell[t]]
          BY <1>1, <2>3 DEF MapKeysAgree
        <5>2. t \notin Users /\ cell[t] \notin OpenCells
          BY <4>1, <4>3 DEF Users, OpenCells
        <5> QED
          BY <4>1, <4>3, <5>1, <5>2
      <4> QED
        BY <4>2, <4>3
    <3> QED
      BY <1>6, <3>1, <3>2
  <2> QED
    BY <2>1, <2>2, <2>3, <2>4 DEF Promise!Leave, OpenCells, Users, Failed
<1>7. ASSUME NEW t \in Tasks, CommandFail(t) PROVE Promise!Fail(t)
  <2>1. /\ pc[t] = "running" /\ pc' = [pc EXCEPT ![t] = "failed"]
        /\ UNCHANGED <<sessions, keyOf, ready, closed, cell>>
    BY <1>7 DEF CommandFail
  <2>2. Users' = Users /\ t \in Users /\ Failed' = Failed \cup {t} /\ OpenCells' = OpenCells
    <3>1. t \in Users
      BY <2>1 DEF Users
    <3> QED
      BY <1>1, <2>1, <3>1 DEF TypeOK, OpenCells, Users, Failed
  <2> QED
    BY <2>1, <2>2 DEF Promise!Fail, OpenCells, Users, Failed
<1>8. ASSUME NEW t \in Tasks, Invalidate(t) PROVE Promise!Report(t)
  <2>1. /\ pc[t] = "failed" /\ pc' = [pc EXCEPT ![t] = "idle"]
        /\ cell' = [cell EXCEPT ![t] = NoCell]
        /\ sessions' = [sessions EXCEPT ![keyOf[cell[t]]] = NoCell]
        /\ UNCHANGED <<keyOf, ready, closed>>
    BY <1>8 DEF Invalidate, Return, RemoveKey
  <2>2. Users' = Users \ {t} /\ Failed' = Failed \ {t} /\ t \in Failed /\ OpenCells' = OpenCells
    <3>1. t \in Failed
      BY <2>1 DEF Failed
    <3> QED
      BY <1>1, <2>1, <3>1 DEF TypeOK, OpenCells, Users, Failed
  <2>3. cell[t] \in Cells
    BY <2>1, ActiveTask
  <2>4. \A k \in Keys : sessions'[k] # cell[t]
    BY <1>1, <2>1, <2>3 DEF TypeOK, MapKeysAgree
  <2> QED
    BY <2>1, <2>2, <2>4 DEF Promise!Report, OpenCells, Users, Failed
<1>9. ASSUME NEW k \in Keys, EvictRemove(k) \/ ShutdownRemove(k) PROVE Promise!Forget(k)
  BY <1>9 DEF EvictRemove, ShutdownRemove, RemoveKey, Promise!Forget
<1>10. ASSUME NEW c \in Cells, Unreferenced(c) PROVE Promise!Deserted(c)
  BY <1>10 DEF Unreferenced, Pooled, Holders, Promise!Deserted
<1>11. ASSUME NEW c \in Cells, CloseDetached(c) PROVE Promise!Close(c) \/ UNCHANGED Promise!vars
  <2>1. UNCHANGED <<sessions, keyOf, ready, pc, cell>>
    BY <1>11 DEF CloseDetached
  <2>2. Users' = Users /\ Failed' = Failed
    BY <2>1 DEF Users, Failed
  <2>3. CASE Unreferenced(c) /\ closed' = closed \cup {c}
    <3>1. OpenCells' = OpenCells \ {c}
      BY <2>1, <2>3 DEF OpenCells
    <3> QED
      BY <1>10, <2>1, <2>2, <2>3, <3>1 DEF Promise!Close, OpenCells, Users, Failed
  <2>4. CASE closed' = closed
    BY <1>2, <2>1, <2>2, <2>4 DEF OpenCells
  <2> QED
    BY <1>11, <2>3, <2>4 DEF CloseDetached
<1>12. ASSUME NEW c \in Cells, Drop(c) PROVE Promise!Free(c)
  <2>1. /\ Unreferenced(c) /\ ready' = [ready EXCEPT ![c] = FALSE] /\ closed' = closed \ {c}
        /\ keyOf' = [keyOf EXCEPT ![c] = NoKey] /\ UNCHANGED <<sessions, pc, cell>>
    BY <1>12 DEF Drop
  <2>2. OpenCells' = OpenCells \ {c} /\ Users' = Users /\ Failed' = Failed
    BY <1>1, <2>1 DEF TypeOK, OpenCells, Users, Failed
  <2> QED
    BY <1>10, <2>1, <2>2 DEF Promise!Free, OpenCells, Users, Failed
<1>13. ASSUME NEW t \in Tasks, JoinInit(t) \/ ConnectAgain(t) \/ ConnectFail(t) \/ Acquire(t)
       PROVE  UNCHANGED Promise!vars
  <2>1. UNCHANGED <<sessions, keyOf, ready, closed, cell>>
    BY <1>13 DEF JoinInit, ConnectAgain, ConnectFail, Acquire
  <2>2. Users' = Users /\ Failed' = Failed
    BY <1>1, <1>13 DEF TypeOK, Users, Failed, JoinInit, ConnectAgain, ConnectFail, Acquire
  <2> QED
    BY <1>2, <2>1, <2>2 DEF OpenCells
<1>14. CASE EvictCollect \/ ShutdownCollect \/ Tick \/ UNCHANGED vars
  <2>1. UNCHANGED <<sessions, keyOf, ready, closed, cell, pc>>
    BY <1>14 DEF EvictCollect, ShutdownCollect, Tick, vars
  <2> QED
    BY <1>2, <2>1 DEF OpenCells, Users, Failed
<1>15. ASSUME NEW t \in Tasks, TaskStep(t) \/ Cancel(t) PROVE [Promise!Next]_(Promise!vars)
  BY <1>4, <1>5, <1>6, <1>7, <1>8, <1>13, <1>15 DEF TaskStep, Promise!Next
<1> QED
  BY <1>3, <1>9, <1>11, <1>12, <1>14, <1>15 DEF Next, Promise!Next

\* The pool keeps the promise of ConnectionSpec: callers of a host come to one
\* session, it is not closed under any of them, and after a failure is reported
\* nobody finds the session that failed.
THEOREM SharesSessions == Spec => SessionsAreShared
<1>1. IInv /\ [Next]_vars => [Promise!Next]_(Promise!vars)
  BY PromiseStep
<1> QED
  BY PromiseInit, <1>1, InvAlways, PTL DEF Spec, SessionsAreShared, Promise!Spec
=============================================================================
