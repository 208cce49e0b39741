------------------------- MODULE DockerClientsProofs --------------------------
(***************************************************************************)
(* Proofs about DockerClients, for any hosts, callers, clients, sessions.  *)
(***************************************************************************)
EXTENDS DockerClients, ListProofs

Building == {"checkout"} \cup Opening

\* A call that is under way refers to an allocated cell, an idle one to none.
CallsReferToCells ==
    \A t \in Tasks : /\ pc[t] = "idle" <=> cell[t] = NoCell
                     /\ cell[t] # NoCell => hostOf[cell[t]] \in Hosts

\* The cache has each cell under the host it was inserted for.
CacheAgrees == \A h \in Hosts : clients[h] # NoCell => hostOf[clients[h]] = h

\* Who builds is the first in the queue of an empty cell.
OneBuilder ==
    \A t \in Tasks : pc[t] \in Building =>
        ~ready[cell[t]] /\ initq[cell[t]] # <<>> /\ Head(initq[cell[t]]) = t

\* Who uses a client has one.
UsersHaveClients ==
    \A t \in Tasks : pc[t] \in {"running", "dead", "half"} => ready[cell[t]]

\* A builder has a session from the checkout on.
SessionsCheckedOut ==
    \A t \in Tasks : /\ pc[t] = "checkout" => via[cell[t]] = NoSession
                     /\ pc[t] \in Opening => via[cell[t]] # NoSession

\* A cell refers to a session only if it has a client, had one whose forward is
\* still to be cancelled, or is being built.
SessionsHaveUse ==
    \A c \in Cells : via[c] # NoSession =>
        \/ ready[c] \/ c \in tearing
        \/ \E t \in Tasks : cell[t] = c /\ pc[t] \in Opening

\* A client has a host, and so has a dropped one, to which nothing refers.
ClientsAreAllocated ==
    /\ \A c \in Cells : ready[c] => hostOf[c] \in Hosts
    /\ \A c \in tearing : hostOf[c] \in Hosts /\ ~ready[c] /\ Unreferenced(c)

\* A session that the pool has is of one host, and so are the clients over it.
SessionsOfOneHost ==
    /\ \A h, k \in Hosts : pool[h] # NoSession /\ pool[h] = pool[k] => h = k
    /\ \A c \in Cells, h \in Hosts : via[c] # NoSession /\ pool[h] = via[c] => hostOf[c] = h

\* Between the halves of invalidate the client of the call is out of the cache.
DeadClientsAreOut ==
    \A t \in Tasks, h \in Hosts : pc[t] = "half" => clients[h] # cell[t]

\* The queue of an empty cell holds the calls that build or wait to, each once;
\* that of a cell with a client is empty.
InitQueues ==
    \A c \in Cells :
        /\ Once(initq[c])
        /\ \A t \in Tasks : t \in ToSet(initq[c]) <=>
               cell[t] = c /\ pc[t] \in {"waiting"} \cup Building /\ ~ready[c]

IInv ==
    /\ TypeOK
    /\ CallsReferToCells
    /\ CacheAgrees
    /\ OneBuilder
    /\ UsersHaveClients
    /\ SessionsCheckedOut
    /\ SessionsHaveUse
    /\ ClientsAreAllocated
    /\ SessionsOfOneHost
    /\ DeadClientsAreOut
    /\ InitQueues

-----------------------------------------------------------------------------
(* Facts the steps below keep needing *)

\* A call that is under way refers to a cell, and the cell to a host.
LEMMA ActiveCall ==
    ASSUME IInv, NEW t \in Tasks, pc[t] # "idle"
    PROVE  cell[t] \in Cells /\ hostOf[cell[t]] \in Hosts /\ Path(t) \in Hosts
BY DEF IInv, TypeOK, CallsReferToCells, Path

\* Two calls do not build the same client.
LEMMA BuildersDiffer ==
    ASSUME IInv, NEW t \in Tasks, NEW u \in Tasks,
           pc[t] \in Building, pc[u] \in Building, cell[t] = cell[u]
    PROVE  t = u
BY DEF IInv, OneBuilder

\* The cell a call is given: the host's, or a fresh one nothing refers to.
LEMMA LookupCell ==
    ASSUME IInv, NEW t \in Tasks, NEW h \in Hosts, Lookup(t, h)
    PROVE  \E c \in Cells :
              /\ cell' = [cell EXCEPT ![t] = c] /\ pc' = [pc EXCEPT ![t] = "entered"]
              /\ cell[t] = NoCell
              /\ \/ clients[h] = c /\ hostOf[c] = h /\ clients' = clients /\ hostOf' = hostOf
                 \/ /\ hostOf[c] = NoHost /\ ~ready[c] /\ c \notin tearing /\ via[c] = NoSession
                    /\ Unreferenced(c)
                    /\ hostOf' = [hostOf EXCEPT ![c] = h]
                    /\ clients' = [clients EXCEPT ![h] = c]
<1> USE ConstantsAssumption
<1>0. TypeOK /\ cell[t] = NoCell /\ pc' = [pc EXCEPT ![t] = "entered"]
  BY DEF IInv, Lookup, Goto, CallsReferToCells
<1>1. CASE clients[h] # NoCell
  BY <1>0, <1>1 DEF Lookup, IInv, TypeOK, CacheAgrees, mapVars
<1>2. CASE clients[h] = NoCell
  <2>1. PICK c \in Cells : /\ hostOf[c] = NoHost
                           /\ hostOf' = [hostOf EXCEPT ![c] = h]
                           /\ clients' = [clients EXCEPT ![h] = c]
                           /\ cell' = [cell EXCEPT ![t] = c]
    BY <1>2 DEF Lookup
  <2>2. ~ready[c] /\ c \notin tearing
    BY <2>1 DEF IInv, ClientsAreAllocated
  <2>3. \A u \in Tasks : cell[u] # c
    BY <2>1 DEF IInv, CallsReferToCells
  <2>4. \A k \in Hosts : clients[k] # c
    BY <2>1 DEF IInv, CacheAgrees
  <2>5. via[c] = NoSession
    BY <2>2, <2>3 DEF IInv, SessionsHaveUse
  <2> QED
    BY <1>0, <2>1, <2>2, <2>3, <2>4, <2>5 DEF Unreferenced
<1> QED
  BY <1>1, <1>2

\* The invariant holds at the start.
LEMMA InitInv == Init => IInv
<1> SUFFICES ASSUME Init PROVE IInv
  OBVIOUS
<1> USE ConstantsAssumption
<1>1. TypeOK
  BY DEF Init, TypeOK, PcValues
<1>2. CallsReferToCells /\ CacheAgrees /\ OneBuilder /\ UsersHaveClients
  BY DEF Init, CallsReferToCells, CacheAgrees, OneBuilder, UsersHaveClients, Building, Opening
<1>3. SessionsCheckedOut /\ SessionsHaveUse
  BY DEF Init, SessionsCheckedOut, SessionsHaveUse, Opening
<1>4. ClientsAreAllocated /\ SessionsOfOneHost /\ DeadClientsAreOut
  BY DEF Init, ClientsAreAllocated, SessionsOfOneHost, DeadClientsAreOut
<1>5. Once(<<>>) /\ ToSet(<<>>) = {}
  BY DEF Once, ToSet
<1>6. InitQueues
  BY <1>5 DEF Init, InitQueues, Building, Opening
<1> QED
  BY <1>1, <1>2, <1>3, <1>4, <1>6 DEF IInv

-----------------------------------------------------------------------------
(* The conjuncts, one by one *)

\* A step leaves the variables well typed; above all a client, used or dropped,
\* keeps its session.
LEMMA TypeStep == IInv /\ [Next]_vars => TypeOK'
<1> SUFFICES ASSUME IInv, [Next]_vars PROVE TypeOK'
  OBVIOUS
<1> USE ConstantsAssumption DEF mapVars, socketVars
<1>1. TypeOK
  BY DEF IInv
<1>2. ASSUME NEW t \in Tasks, NEW h \in Hosts, Lookup(t, h) PROVE TypeOK'
  <2>1. PICK c \in Cells :
              /\ cell' = [cell EXCEPT ![t] = c] /\ pc' = [pc EXCEPT ![t] = "entered"]
              /\ \/ clients' = clients /\ hostOf' = hostOf
                 \/ hostOf' = [hostOf EXCEPT ![c] = h] /\ clients' = [clients EXCEPT ![h] = c]
    BY <1>2, LookupCell
  <2>2. UNCHANGED <<ready, initq, via, pool, socketVars, tearing>>
    BY <1>2 DEF Lookup
  <2>3. clients' \in [Hosts -> Cells \cup {NoCell}] /\ hostOf' \in [Cells -> Hosts \cup {NoHost}]
    <3>1. CASE clients' = clients /\ hostOf' = hostOf
      BY <1>1, <3>1 DEF TypeOK
    <3>2. CASE hostOf' = [hostOf EXCEPT ![c] = h] /\ clients' = [clients EXCEPT ![h] = c]
      BY <1>1, <3>2 DEF TypeOK
    <3> QED
      BY <2>1, <3>1, <3>2
  <2>4. cell' \in [Tasks -> Cells \cup {NoCell}] /\ pc' \in [Tasks -> PcValues]
    BY <1>1, <2>1 DEF TypeOK, PcValues
  <2> QED
    BY <1>1, <2>2, <2>3, <2>4 DEF TypeOK
<1>3. ASSUME NEW t \in Tasks, UseReady(t) \/ BuildAgain(t) \/ OpDead(t) PROVE TypeOK'
  BY <1>1, <1>3 DEF TypeOK, PcValues, UseReady, BuildAgain, OpDead, Goto
<1>4. ASSUME NEW t \in Tasks, JoinInit(t) PROVE TypeOK'
  <2>1. initq' \in [Cells -> Seq(Tasks)]
    BY <1>1, <1>4, ActiveCall DEF TypeOK, JoinInit
  <2> QED
    BY <1>1, <1>4, <2>1 DEF TypeOK, PcValues, JoinInit, Goto
<1>5. ASSUME NEW t \in Tasks, Checkout(t) PROVE TypeOK'
  <2>1. PICK s \in Sessions : /\ pool' = [pool EXCEPT ![Path(t)] = s]
                              /\ via' = [via EXCEPT ![cell[t]] = s]
    BY <1>5 DEF Checkout
  <2>2. /\ pool' \in [Hosts -> Sessions \cup {NoSession}]
        /\ via' \in [Cells -> Sessions \cup {NoSession}]
        /\ \A c \in Cells : via[c] # NoSession => via'[c] # NoSession
    BY <1>1, <2>1 DEF TypeOK
  <2>3. pc' \in [Tasks -> PcValues]
    BY <1>1, <1>5 DEF TypeOK, PcValues, Checkout, Goto, Opening
  <2> QED
    BY <1>1, <1>5, <2>2, <2>3 DEF TypeOK, Checkout
<1>6. ASSUME NEW t \in Tasks, ClearPath(t) \/ RequestForward(t) PROVE TypeOK'
  <2>1. cell[t] \in Cells /\ via[cell[t]] \in Sessions
    BY <1>1, <1>6, ActiveCall DEF IInv, TypeOK, SessionsCheckedOut, ClearPath, RequestForward, Opening
  <2>2. file' \in [Hosts -> Sessions \cup {NoSession, Stale}] /\ forwards' \subseteq Sessions
    BY <1>1, <1>6, <2>1 DEF TypeOK, ClearPath, RequestForward
  <2>3. pc' \in [Tasks -> PcValues]
    BY <1>1, <1>6 DEF TypeOK, PcValues, ClearPath, RequestForward, Goto, Opening
  <2> QED
    BY <1>1, <1>6, <2>2, <2>3 DEF TypeOK, ClearPath, RequestForward
<1>7. ASSUME NEW t \in Tasks, Secure(t) PROVE TypeOK'
  <2>1. cell[t] \in Cells /\ via[cell[t]] # NoSession
    BY <1>7, ActiveCall DEF IInv, SessionsCheckedOut, Secure, Opening
  <2>2. /\ ready' = [ready EXCEPT ![cell[t]] = TRUE]
        /\ initq' = [initq EXCEPT ![cell[t]] = <<>>] /\ pc' = [pc EXCEPT ![t] = "running"]
        /\ UNCHANGED <<mapVars, via, pool, socketVars, cell, tearing>>
    BY <1>7 DEF Secure, Goto
  <2>3. /\ ready' \in [Cells -> BOOLEAN] /\ initq' \in [Cells -> Seq(Tasks)]
        /\ pc' \in [Tasks -> PcValues]
    BY <1>1, <2>1, <2>2 DEF TypeOK, PcValues
  <2>4. \A c \in Cells : ready'[c] \/ c \in tearing => via[c] # NoSession
    BY <1>1, <2>1, <2>2 DEF TypeOK
  <2> QED
    BY <1>1, <2>2, <2>3, <2>4 DEF TypeOK
<1>8. ASSUME NEW t \in Tasks, BuildFails(t) \/ ConnectFails(t) PROVE TypeOK'
  <2>1. /\ cell[t] \in Cells /\ ~ready[cell[t]] /\ cell[t] \notin tearing
        /\ initq[cell[t]] # <<>> /\ initq[cell[t]] \in Seq(Tasks)
        /\ pc[t] = "securing" => via[cell[t]] \in Sessions
    BY <1>1, <1>8, ActiveCall DEF IInv, TypeOK, OneBuilder, ClientsAreAllocated, Unreferenced,
       SessionsCheckedOut, BuildFails, ConnectFails, Building, Opening
  <2>2. /\ initq' = [initq EXCEPT ![cell[t]] = Tail(@)]
        /\ via' = [via EXCEPT ![cell[t]] = NoSession] /\ Return(t)
        /\ UNCHANGED <<clients, hostOf, ready, pool, forwards, tearing>>
    BY <1>8 DEF BuildFails, ConnectFails
  <2>3. initq' \in [Cells -> Seq(Tasks)]
    <3>1. Tail(initq[cell[t]]) \in Seq(Tasks)
      BY <2>1
    <3> QED
      BY <1>1, <2>1, <2>2, <3>1 DEF TypeOK
  <2>4. /\ via' \in [Cells -> Sessions \cup {NoSession}]
        /\ \A c \in Cells : ready[c] \/ c \in tearing => via'[c] # NoSession
    BY <1>1, <2>1, <2>2 DEF TypeOK
  <2>5. file' \in [Hosts -> Sessions \cup {NoSession, Stale}] /\ cancels' \subseteq Sessions
    BY <1>1, <1>8, <2>1 DEF TypeOK, BuildFails, ConnectFails
  <2>6. pc' \in [Tasks -> PcValues] /\ cell' \in [Tasks -> Cells \cup {NoCell}]
    BY <1>1, <2>2 DEF TypeOK, PcValues, Return
  <2> QED
    BY <1>1, <2>2, <2>3, <2>4, <2>5, <2>6 DEF TypeOK
<1>9. ASSUME NEW t \in Tasks, OpReturns(t) PROVE TypeOK'
  BY <1>1, <1>9 DEF TypeOK, PcValues, OpReturns, Return
<1>10. ASSUME NEW t \in Tasks, InvalidateClient(t) PROVE TypeOK'
  BY <1>1, <1>10 DEF TypeOK, PcValues, InvalidateClient, Goto
<1>11. ASSUME NEW t \in Tasks, InvalidateSession(t) PROVE TypeOK'
  BY <1>1, <1>11 DEF TypeOK, PcValues, InvalidateSession, Return
<1>12. ASSUME NEW t \in Tasks, Cancel(t) PROVE TypeOK'
  <2>1. /\ cell[t] \in Cells
        /\ pc[t] \in Opening => ~ready[cell[t]] /\ cell[t] \notin tearing
    BY <1>12, ActiveCall DEF IInv, OneBuilder, ClientsAreAllocated, Unreferenced, Cancel, Building, Opening
  <2>2. initq' \in [Cells -> Seq(Tasks)]
    BY <1>1, <1>12, <2>1, WithoutType DEF TypeOK, Cancel
  <2>3. /\ via' \in [Cells -> Sessions \cup {NoSession}]
        /\ \A c \in Cells : ready[c] \/ c \in tearing => via'[c] # NoSession
    BY <1>1, <1>12, <2>1 DEF TypeOK, Cancel
  <2> QED
    BY <1>1, <1>12, <2>2, <2>3 DEF TypeOK, PcValues, Cancel, Return
<1>13. ASSUME NEW c \in Cells, DropClient(c) PROVE TypeOK'
  BY <1>1, <1>13 DEF TypeOK, DropClient
<1>14. ASSUME NEW c \in Cells, CloseForward(c) PROVE TypeOK'
  <2>1. /\ c \in tearing /\ ~ready[c] /\ via[c] \in Sessions
    BY <1>1, <1>14 DEF IInv, TypeOK, ClientsAreAllocated, CloseForward
  <2>2. file' \in [Hosts -> Sessions \cup {NoSession, Stale}] /\ forwards' \subseteq Sessions
    BY <1>1, <1>14 DEF TypeOK, CloseForward, Orphaned
  <2>3. /\ via' \in [Cells -> Sessions \cup {NoSession}] /\ tearing' \subseteq Cells
        /\ \A d \in Cells : ready[d] \/ d \in tearing' => via'[d] # NoSession
    BY <1>1, <1>14, <2>1 DEF TypeOK, CloseForward
  <2> QED
    BY <1>1, <1>14, <2>2, <2>3 DEF TypeOK, CloseForward
<1>15. ASSUME NEW c \in Cells, DropCell(c) PROVE TypeOK'
  BY <1>1, <1>15 DEF TypeOK, DropCell
<1>16. ASSUME NEW s \in Sessions, DropSession(s) \/ CancelForward(s) PROVE TypeOK'
  BY <1>1, <1>16 DEF TypeOK, DropSession, CancelForward, Orphaned
<1>17. ASSUME NEW h \in Hosts, PoolForgets(h) PROVE TypeOK'
  BY <1>1, <1>17 DEF TypeOK, PoolForgets
<1>18. CASE UNCHANGED vars
  BY <1>1, <1>18 DEF TypeOK, vars
<1> QED
  BY <1>2, <1>3, <1>4, <1>5, <1>6, <1>7, <1>8, <1>9, <1>10, <1>11, <1>12, <1>13, <1>14,
     <1>15, <1>16, <1>17, <1>18 DEF Next, TaskStep

\* A step leaves each call under way with an allocated cell.
LEMMA ReferStep == IInv /\ [Next]_vars => CallsReferToCells'
<1> SUFFICES ASSUME IInv, [Next]_vars PROVE CallsReferToCells'
  OBVIOUS
<1> USE ConstantsAssumption DEF CallsReferToCells, mapVars, socketVars
<1>1. TypeOK /\ CallsReferToCells
  BY DEF IInv
<1>2. ASSUME NEW t \in Tasks, NEW h \in Hosts, Lookup(t, h) PROVE CallsReferToCells'
  <2>1. PICK c \in Cells :
              /\ cell' = [cell EXCEPT ![t] = c] /\ pc' = [pc EXCEPT ![t] = "entered"]
              /\ \/ hostOf[c] = h /\ hostOf' = hostOf
                 \/ hostOf[c] = NoHost /\ hostOf' = [hostOf EXCEPT ![c] = h]
    BY <1>2, LookupCell
  <2>2. hostOf'[c] \in Hosts /\ \A d \in Cells : hostOf[d] \in Hosts => hostOf'[d] \in Hosts
    BY <1>1, <2>1 DEF TypeOK
  <2> QED
    BY <1>1, <2>1, <2>2 DEF TypeOK
<1>3. ASSUME NEW t \in Tasks,
             UseReady(t) \/ JoinInit(t) \/ BuildAgain(t) \/ Checkout(t) \/ ClearPath(t)
               \/ RequestForward(t) \/ Secure(t) \/ OpDead(t) \/ InvalidateClient(t)
      PROVE  CallsReferToCells'
  <2>1. PICK l \in PcValues \ {"idle"} : pc' = [pc EXCEPT ![t] = l]
    BY <1>3 DEF UseReady, JoinInit, BuildAgain, Checkout, ClearPath, RequestForward, Secure,
                OpDead, InvalidateClient, Goto, PcValues, Opening
  <2>2. cell' = cell /\ hostOf' = hostOf /\ pc[t] # "idle"
    BY <1>3 DEF UseReady, JoinInit, BuildAgain, Checkout, ClearPath, RequestForward, Secure,
                OpDead, InvalidateClient, Opening
  <2> QED
    BY <1>1, <2>1, <2>2 DEF TypeOK
<1>4. ASSUME NEW t \in Tasks, BuildFails(t) \/ ConnectFails(t) \/ OpReturns(t)
                                \/ InvalidateSession(t) \/ Cancel(t)
      PROVE  CallsReferToCells'
  <2>1. Return(t) /\ hostOf' = hostOf
    BY <1>4 DEF BuildFails, ConnectFails, OpReturns, InvalidateSession, Cancel
  <2> QED
    BY <1>1, <2>1 DEF TypeOK, Return
<1>5. ASSUME NEW c \in Cells, CloseForward(c) \/ DropCell(c) PROVE CallsReferToCells'
  <2>1. \A t \in Tasks : cell[t] # c
    BY <1>5 DEF CloseForward, DropCell, IInv, ClientsAreAllocated, Unreferenced
  <2> QED
    BY <1>1, <1>5, <2>1 DEF TypeOK, CloseForward, DropCell
<1>6. ASSUME NEW c \in Cells, DropClient(c) PROVE CallsReferToCells'
  BY <1>1, <1>6 DEF DropClient
<1>7. ASSUME NEW s \in Sessions, DropSession(s) \/ CancelForward(s) PROVE CallsReferToCells'
  BY <1>1, <1>7 DEF DropSession, CancelForward
<1>8. ASSUME NEW h \in Hosts, PoolForgets(h) PROVE CallsReferToCells'
  BY <1>1, <1>8 DEF PoolForgets
<1>9. CASE UNCHANGED vars
  BY <1>1, <1>9 DEF vars
<1> QED
  BY <1>2, <1>3, <1>4, <1>5, <1>6, <1>7, <1>8, <1>9 DEF Next, TaskStep

\* A step leaves every cached cell under its host.
LEMMA CacheStep == IInv /\ [Next]_vars => CacheAgrees'
<1> SUFFICES ASSUME IInv, [Next]_vars PROVE CacheAgrees'
  OBVIOUS
<1> USE ConstantsAssumption DEF CacheAgrees, mapVars, socketVars
<1>1. TypeOK /\ CacheAgrees
  BY DEF IInv
<1>2. ASSUME NEW t \in Tasks, NEW h \in Hosts, Lookup(t, h) PROVE CacheAgrees'
  <2>1. PICK c \in Cells :
              \/ clients' = clients /\ hostOf' = hostOf
              \/ /\ Unreferenced(c)
                 /\ hostOf' = [hostOf EXCEPT ![c] = h] /\ clients' = [clients EXCEPT ![h] = c]
    BY <1>2, LookupCell
  <2>2. CASE clients' = clients /\ hostOf' = hostOf
    BY <1>1, <2>2
  <2>3. CASE /\ \A k \in Hosts : clients[k] # c
             /\ hostOf' = [hostOf EXCEPT ![c] = h] /\ clients' = [clients EXCEPT ![h] = c]
    BY <1>1, <2>3 DEF TypeOK
  <2> QED
    BY <2>1, <2>2, <2>3 DEF Unreferenced
<1>3. ASSUME NEW t \in Tasks, TaskStep(t) \/ Cancel(t), ~InvalidateClient(t)
      PROVE  CacheAgrees'
  <2>1. clients' = clients /\ hostOf' = hostOf
    BY <1>3 DEF TaskStep, UseReady, JoinInit, BuildAgain, Checkout, ClearPath, RequestForward,
                Secure, BuildFails, ConnectFails, OpReturns, OpDead, InvalidateSession, Cancel
  <2> QED
    BY <1>1, <2>1
<1>4. ASSUME NEW t \in Tasks, InvalidateClient(t) PROVE CacheAgrees'
  BY <1>1, <1>4 DEF TypeOK, InvalidateClient
<1>5. ASSUME NEW c \in Cells, CloseForward(c) \/ DropCell(c) PROVE CacheAgrees'
  <2>1. \A h \in Hosts : clients[h] # c
    BY <1>5 DEF CloseForward, DropCell, IInv, ClientsAreAllocated, Unreferenced
  <2> QED
    BY <1>1, <1>5, <2>1 DEF TypeOK, CloseForward, DropCell
<1>6. ASSUME NEW c \in Cells, DropClient(c) PROVE CacheAgrees'
  BY <1>1, <1>6 DEF DropClient
<1>7. ASSUME NEW s \in Sessions, DropSession(s) \/ CancelForward(s) PROVE CacheAgrees'
  BY <1>1, <1>7 DEF DropSession, CancelForward
<1>8. ASSUME NEW h \in Hosts, PoolForgets(h) PROVE CacheAgrees'
  BY <1>1, <1>8 DEF PoolForgets
<1>9. CASE UNCHANGED vars
  BY <1>1, <1>9 DEF vars
<1> QED
  BY <1>2, <1>3, <1>4, <1>5, <1>6, <1>7, <1>8, <1>9 DEF Next

\* A step leaves at most one builder to a cell, the first of its queue.
LEMMA BuilderStep == IInv /\ [Next]_vars => OneBuilder'
<1> SUFFICES ASSUME IInv, [Next]_vars PROVE OneBuilder'
  OBVIOUS
<1> USE DEF OneBuilder, mapVars, socketVars, Building, Opening
<1>1. TypeOK /\ OneBuilder
  BY DEF IInv
<1>2. ASSUME NEW t \in Tasks, NEW h \in Hosts, Lookup(t, h) PROVE OneBuilder'
  <2>1. PICK c \in Cells : cell' = [cell EXCEPT ![t] = c] /\ pc' = [pc EXCEPT ![t] = "entered"]
    BY <1>2, LookupCell
  <2> QED
    BY <1>1, <1>2, <2>1 DEF TypeOK, Lookup
<1>3. ASSUME NEW t \in Tasks, UseReady(t) \/ BuildAgain(t) \/ Checkout(t) \/ ClearPath(t)
                                \/ RequestForward(t) \/ OpDead(t) \/ InvalidateClient(t)
      PROVE  OneBuilder'
  BY <1>1, <1>3 DEF TypeOK, UseReady, BuildAgain, Checkout, ClearPath, RequestForward, OpDead,
                    InvalidateClient, Goto
<1>4. ASSUME NEW t \in Tasks, JoinInit(t) PROVE OneBuilder'
  <2> DEFINE c == cell[t]
  <2>1. /\ c \in Cells /\ ~ready[c] /\ initq[c] \in Seq(Tasks)
        /\ initq' = [initq EXCEPT ![c] = Append(@, t)]
        /\ pc' = [pc EXCEPT ![t] = IF initq[c] = <<>> THEN "checkout" ELSE "waiting"]
        /\ ready' = ready /\ cell' = cell
    BY <1>1, <1>4, ActiveCall DEF TypeOK, JoinInit, Goto
  <2>2. /\ initq'[c] # <<>>
        /\ Head(initq'[c]) = IF initq[c] = <<>> THEN t ELSE Head(initq[c])
    <3>1. initq'[c] = Append(initq[c], t)
      BY <1>1, <2>1 DEF TypeOK
    <3> QED
      BY <2>1, <3>1, AppendProperties, HeadTailAppend
  <2>3. ASSUME NEW u \in Tasks, pc'[u] \in Building
        PROVE  ~ready'[cell'[u]] /\ initq'[cell'[u]] # <<>> /\ Head(initq'[cell'[u]]) = u
    <3>1. CASE u = t
      BY <1>1, <2>1, <2>2, <2>3, <3>1 DEF TypeOK
    <3>2. CASE u # t /\ cell[u] = c
      BY <1>1, <2>1, <2>2, <2>3, <3>2 DEF TypeOK
    <3>3. CASE u # t /\ cell[u] # c
      BY <1>1, <2>1, <2>3, <3>3 DEF TypeOK
    <3> QED
      BY <3>1, <3>2, <3>3
  <2> QED
    BY <2>3
<1>5. ASSUME NEW t \in Tasks, Secure(t) \/ BuildFails(t) \/ ConnectFails(t) PROVE OneBuilder'
  <2>1. pc[t] \in Building /\ cell[t] \in Cells
    BY <1>5, ActiveCall DEF Secure, BuildFails, ConnectFails
  <2>2. \A u \in Tasks \ {t} : pc[u] \in Building => cell[u] # cell[t]
    BY <2>1, BuildersDiffer
  <2>3. /\ \A c \in Cells \ {cell[t]} : ready'[c] = ready[c] /\ initq'[c] = initq[c]
        /\ \A u \in Tasks \ {t} : pc'[u] = pc[u] /\ cell'[u] = cell[u]
        /\ pc'[t] \in {"running", "idle"}
    BY <1>1, <1>5 DEF TypeOK, Secure, BuildFails, ConnectFails, Goto, Return
  <2>4. \A u \in Tasks \ {t} : pc[u] \in Building => cell[u] \in Cells
    BY ActiveCall
  <2> QED
    BY <1>1, <2>2, <2>3, <2>4
<1>6. ASSUME NEW t \in Tasks, OpReturns(t) \/ InvalidateSession(t) PROVE OneBuilder'
  BY <1>1, <1>6 DEF TypeOK, OpReturns, InvalidateSession, Return
<1>7. ASSUME NEW t \in Tasks, Cancel(t) PROVE OneBuilder'
  <2>1. /\ cell[t] \in Cells /\ initq' = [initq EXCEPT ![cell[t]] = Without(@, t)]
        /\ ready' = ready
        /\ pc' = [pc EXCEPT ![t] = "idle"] /\ cell' = [cell EXCEPT ![t] = NoCell]
    BY <1>7, ActiveCall DEF Cancel, Return
  <2>2. ASSUME NEW u \in Tasks, pc'[u] \in Building
        PROVE  ~ready'[cell'[u]] /\ initq'[cell'[u]] # <<>> /\ Head(initq'[cell'[u]]) = u
    <3>1. /\ u # t /\ pc[u] \in Building /\ cell'[u] = cell[u] /\ cell[u] \in Cells
          /\ ~ready[cell[u]] /\ initq[cell[u]] # <<>> /\ Head(initq[cell[u]]) = u
          /\ initq[cell[u]] \in Seq(Tasks)
      BY <1>1, <2>1, <2>2, ActiveCall DEF TypeOK
    <3>2. Without(initq[cell[u]], t) # <<>> /\ Head(Without(initq[cell[u]], t)) = u
      BY <3>1, WithoutHead
    <3>3. initq'[cell[u]] = IF cell[u] = cell[t] THEN Without(initq[cell[u]], t) ELSE initq[cell[u]]
      BY <1>1, <2>1, <3>1 DEF TypeOK
    <3> QED
      BY <2>1, <3>1, <3>2, <3>3
  <2> QED
    BY <2>2
<1>8. ASSUME NEW c \in Cells, DropClient(c) \/ CloseForward(c) \/ DropCell(c) PROVE OneBuilder'
  <2>1. /\ \A d \in Cells : ready'[d] => ready[d]
        /\ initq' = initq /\ pc' = pc /\ cell' = cell
    BY <1>1, <1>8 DEF TypeOK, DropClient, CloseForward, DropCell
  <2>2. \A u \in Tasks : pc[u] \in Building => cell[u] \in Cells
    BY ActiveCall
  <2> QED
    BY <1>1, <2>1, <2>2
<1>9. ASSUME NEW s \in Sessions, DropSession(s) \/ CancelForward(s) PROVE OneBuilder'
  BY <1>1, <1>9 DEF DropSession, CancelForward
<1>10. ASSUME NEW h \in Hosts, PoolForgets(h) PROVE OneBuilder'
  BY <1>1, <1>10 DEF PoolForgets
<1>11. CASE UNCHANGED vars
  BY <1>1, <1>11 DEF vars
<1> QED
  BY <1>2, <1>3, <1>4, <1>5, <1>6, <1>7, <1>8, <1>9, <1>10, <1>11 DEF Next, TaskStep

\* A step takes no client from a call that uses it.
LEMMA UsersStep == IInv /\ [Next]_vars => UsersHaveClients'
<1> SUFFICES ASSUME IInv, [Next]_vars PROVE UsersHaveClients'
  OBVIOUS
<1> USE DEF UsersHaveClients, mapVars, socketVars
<1>1. TypeOK /\ UsersHaveClients
  BY DEF IInv
<1>2. ASSUME NEW t \in Tasks, NEW h \in Hosts, Lookup(t, h) PROVE UsersHaveClients'
  <2>1. PICK c \in Cells : cell' = [cell EXCEPT ![t] = c] /\ pc' = [pc EXCEPT ![t] = "entered"]
    BY <1>2, LookupCell
  <2> QED
    BY <1>1, <1>2, <2>1 DEF TypeOK, Lookup
<1>3. ASSUME NEW t \in Tasks, UseReady(t) \/ JoinInit(t) \/ BuildAgain(t) \/ Checkout(t)
                                \/ ClearPath(t) \/ RequestForward(t) \/ OpDead(t)
                                \/ InvalidateClient(t)
      PROVE  UsersHaveClients'
  BY <1>1, <1>3 DEF TypeOK, UseReady, JoinInit, BuildAgain, Checkout, ClearPath, RequestForward,
                    OpDead, InvalidateClient, Goto
<1>4. ASSUME NEW t \in Tasks, Secure(t) PROVE UsersHaveClients'
  <2>1. cell[t] \in Cells
    BY <1>4, ActiveCall DEF Secure
  <2> QED
    BY <1>1, <1>4, <2>1 DEF TypeOK, Secure, Goto
<1>5. ASSUME NEW t \in Tasks, BuildFails(t) \/ ConnectFails(t) \/ OpReturns(t)
                                \/ InvalidateSession(t) \/ Cancel(t)
      PROVE  UsersHaveClients'
  <2>1. /\ pc' = [pc EXCEPT ![t] = "idle"] /\ cell' = [cell EXCEPT ![t] = NoCell]
        /\ ready' = ready
    BY <1>5 DEF BuildFails, ConnectFails, OpReturns, InvalidateSession, Cancel, Return
  <2> QED
    BY <1>1, <2>1 DEF TypeOK
<1>6. ASSUME NEW c \in Cells, DropClient(c) PROVE UsersHaveClients'
  BY <1>1, <1>6 DEF TypeOK, DropClient, Unreferenced
<1>7. ASSUME NEW c \in Cells, CloseForward(c) \/ DropCell(c) PROVE UsersHaveClients'
  BY <1>1, <1>7 DEF CloseForward, DropCell
<1>8. ASSUME NEW s \in Sessions, DropSession(s) \/ CancelForward(s) PROVE UsersHaveClients'
  BY <1>1, <1>8 DEF DropSession, CancelForward
<1>9. ASSUME NEW h \in Hosts, PoolForgets(h) PROVE UsersHaveClients'
  BY <1>1, <1>9 DEF PoolForgets
<1>10. CASE UNCHANGED vars
  BY <1>1, <1>10 DEF vars
<1> QED
  BY <1>2, <1>3, <1>4, <1>5, <1>6, <1>7, <1>8, <1>9, <1>10 DEF Next, TaskStep

\* A cell whose turn to be built comes has no session.
LEMMA UnbuiltHasNoSession ==
    ASSUME IInv, NEW t \in Tasks, pc[t] \in {"entered", "waiting"}, ~ready[cell[t]],
           initq[cell[t]] = <<>> \/ Head(initq[cell[t]]) = t
    PROVE  via[cell[t]] = NoSession
<1>1. cell[t] \in Cells /\ cell[t] \notin tearing
  BY ActiveCall DEF IInv, ClientsAreAllocated, Unreferenced
<1>2. \A u \in Tasks : cell[u] = cell[t] => pc[u] \notin Opening
  BY DEF IInv, OneBuilder, Building, Opening
<1> QED
  BY <1>1, <1>2 DEF IInv, SessionsHaveUse

\* A step gives a builder its session at the checkout, and takes it from no other.
LEMMA CheckedOutStep == IInv /\ [Next]_vars => SessionsCheckedOut'
<1> SUFFICES ASSUME IInv, [Next]_vars PROVE SessionsCheckedOut'
  OBVIOUS
<1> USE ConstantsAssumption DEF SessionsCheckedOut, mapVars, socketVars, Building, Opening
<1>1. TypeOK /\ SessionsCheckedOut
  BY DEF IInv
<1>2. ASSUME NEW t \in Tasks, NEW h \in Hosts, Lookup(t, h) PROVE SessionsCheckedOut'
  <2>1. PICK c \in Cells : cell' = [cell EXCEPT ![t] = c] /\ pc' = [pc EXCEPT ![t] = "entered"]
    BY <1>2, LookupCell
  <2> QED
    BY <1>1, <1>2, <2>1 DEF TypeOK, Lookup
<1>3. ASSUME NEW t \in Tasks, JoinInit(t) \/ BuildAgain(t) PROVE SessionsCheckedOut'
  <2>1. pc'[t] = "checkout" => via[cell[t]] = NoSession
    BY <1>1, <1>3, UnbuiltHasNoSession DEF TypeOK, JoinInit, BuildAgain, Goto
  <2> QED
    BY <1>1, <1>3, <2>1 DEF TypeOK, JoinInit, BuildAgain, Goto
<1>4. ASSUME NEW t \in Tasks, UseReady(t) \/ ClearPath(t) \/ RequestForward(t) \/ Secure(t)
                                \/ OpDead(t) \/ InvalidateClient(t)
      PROVE  SessionsCheckedOut'
  BY <1>1, <1>4 DEF TypeOK, UseReady, ClearPath, RequestForward, Secure, OpDead,
                    InvalidateClient, Goto
<1>5. ASSUME NEW t \in Tasks, Checkout(t) PROVE SessionsCheckedOut'
  <2>1. PICK s \in Sessions : via' = [via EXCEPT ![cell[t]] = s]
    BY <1>5 DEF Checkout
  <2>2. cell[t] \in Cells /\ pc[t] = "checkout"
    BY <1>5, ActiveCall DEF Checkout
  <2>3. \A u \in Tasks \ {t} : pc[u] \in Building => cell[u] # cell[t] /\ cell[u] \in Cells
    BY <2>2, BuildersDiffer, ActiveCall
  <2>4. pc' = [pc EXCEPT ![t] = "clearing"] /\ cell' = cell
    BY <1>5 DEF Checkout, Goto
  <2> QED
    BY <1>1, <2>1, <2>2, <2>3, <2>4 DEF TypeOK
<1>6. ASSUME NEW t \in Tasks,
BuildFails(t) \/ ConnectFails(t) \/ Cancel(t) PROVE SessionsCheckedOut'
  <2>1. /\ pc' = [pc EXCEPT ![t] = "idle"] /\ cell' = [cell EXCEPT ![t] = NoCell]
        /\ \A c \in Cells : via'[c] # via[c] => c = cell[t] /\ pc[t] \in Building
    BY <1>1, <1>6 DEF TypeOK, BuildFails, ConnectFails, Cancel, Return
  <2>2. \A u \in Tasks \ {t} :
            pc[u] \in Building => cell[u] \in Cells /\ via'[cell[u]] = via[cell[u]]
    BY <2>1, BuildersDiffer, ActiveCall
  <2> QED
    BY <1>1, <2>1, <2>2 DEF TypeOK
<1>7. ASSUME NEW t \in Tasks, OpReturns(t) \/ InvalidateSession(t) PROVE SessionsCheckedOut'
  BY <1>1, <1>7 DEF TypeOK, OpReturns, InvalidateSession, Return
<1>8. ASSUME NEW c \in Cells, CloseForward(c) PROVE SessionsCheckedOut'
  <2>1. \A t \in Tasks : cell[t] # c
    BY <1>8 DEF CloseForward, IInv, ClientsAreAllocated, Unreferenced
  <2> QED
    BY <1>1, <1>8, <2>1 DEF TypeOK, CloseForward
<1>9. ASSUME NEW c \in Cells, DropClient(c) \/ DropCell(c) PROVE SessionsCheckedOut'
  BY <1>1, <1>9 DEF DropClient, DropCell
<1>10. ASSUME NEW s \in Sessions, DropSession(s) \/ CancelForward(s) PROVE SessionsCheckedOut'
  BY <1>1, <1>10 DEF DropSession, CancelForward
<1>11. ASSUME NEW h \in Hosts, PoolForgets(h) PROVE SessionsCheckedOut'
  BY <1>1, <1>11 DEF PoolForgets
<1>12. CASE UNCHANGED vars
  BY <1>1, <1>12 DEF vars
<1> QED
  BY <1>2, <1>3, <1>4, <1>5, <1>6, <1>7, <1>8, <1>9, <1>10, <1>11, <1>12 DEF Next, TaskStep

\* A step leaves no session with a cell that does without.
LEMMA UseStep == IInv /\ [Next]_vars => SessionsHaveUse'
<1> SUFFICES ASSUME IInv, [Next]_vars PROVE SessionsHaveUse'
  OBVIOUS
<1> USE DEF SessionsHaveUse, mapVars, socketVars, Opening
<1>1. TypeOK /\ SessionsHaveUse
  BY DEF IInv
<1>2. ASSUME NEW t \in Tasks, via' = via, ready' = ready, tearing' = tearing,
             pc[t] \notin Opening,
             \A u \in Tasks \ {t} : pc'[u] = pc[u] /\ cell'[u] = cell[u]
      PROVE  SessionsHaveUse'
  BY <1>1, <1>2
<1>3. ASSUME NEW t \in Tasks, NEW h \in Hosts, Lookup(t, h) PROVE SessionsHaveUse'
  <2>1. PICK c \in Cells : cell' = [cell EXCEPT ![t] = c] /\ pc' = [pc EXCEPT ![t] = "entered"]
    BY <1>3, LookupCell
  <2> QED
    BY <1>1, <1>2, <1>3, <2>1 DEF TypeOK, Lookup
<1>4. ASSUME NEW t \in Tasks, UseReady(t) \/ JoinInit(t) \/ BuildAgain(t) \/ OpDead(t)
                                \/ InvalidateClient(t) \/ OpReturns(t) \/ InvalidateSession(t)
      PROVE  SessionsHaveUse'
  <2>1. pc[t] \notin Opening /\ via' = via /\ ready' = ready /\ tearing' = tearing
    BY <1>4 DEF UseReady, JoinInit, BuildAgain, OpDead, InvalidateClient, OpReturns,
                InvalidateSession
  <2>2. \A u \in Tasks \ {t} : pc'[u] = pc[u] /\ cell'[u] = cell[u]
    BY <1>1, <1>4 DEF TypeOK, UseReady, JoinInit, BuildAgain, OpDead, InvalidateClient, OpReturns,
                      InvalidateSession, Goto, Return
  <2> QED
    BY <1>2, <2>1, <2>2
<1>5. ASSUME NEW t \in Tasks, Checkout(t) \/ ClearPath(t) \/ RequestForward(t)
      PROVE  SessionsHaveUse'
  <2>1. /\ \A c \in Cells \ {cell[t]} : via'[c] = via[c]
        /\ ready' = ready /\ tearing' = tearing /\ cell' = cell
        /\ pc'[t] \in Opening /\ \A u \in Tasks \ {t} : pc'[u] = pc[u]
    BY <1>1, <1>5 DEF TypeOK, Checkout, ClearPath, RequestForward, Goto
  <2> QED
    BY <1>1, <2>1
<1>6. ASSUME NEW t \in Tasks, Secure(t) PROVE SessionsHaveUse'
  <2>1. /\ via' = via /\ tearing' = tearing /\ cell' = cell
        /\ \A c \in Cells : ready'[c] <=> ready[c] \/ c = cell[t]
        /\ \A u \in Tasks \ {t} : pc'[u] = pc[u]
    BY <1>1, <1>6 DEF TypeOK, Secure, Goto
  <2> QED
    BY <1>1, <2>1
<1>7. ASSUME NEW t \in Tasks, BuildFails(t) \/ ConnectFails(t) \/ Cancel(t) PROVE SessionsHaveUse'
  <2>1. /\ ready' = ready /\ tearing' = tearing
        /\ \A u \in Tasks \ {t} : pc'[u] = pc[u] /\ cell'[u] = cell[u]
        /\ \A c \in Cells \ {cell[t]} : via'[c] = via[c]
        /\ pc[t] \in Opening => cell[t] \in Cells /\ via'[cell[t]] = NoSession
        /\ via'[cell[t]] \in {via[cell[t]], NoSession}
    BY <1>1, <1>7, ActiveCall DEF TypeOK, BuildFails, ConnectFails, Cancel, Return
  <2> QED
    BY <1>1, <2>1
<1>8. ASSUME NEW c \in Cells, DropClient(c) PROVE SessionsHaveUse'
  BY <1>1, <1>8 DEF TypeOK, DropClient
<1>9. ASSUME NEW c \in Cells, CloseForward(c) PROVE SessionsHaveUse'
  BY <1>1, <1>9 DEF TypeOK, CloseForward
<1>10. ASSUME NEW c \in Cells, DropCell(c) PROVE SessionsHaveUse'
  BY <1>1, <1>10 DEF DropCell
<1>11. ASSUME NEW s \in Sessions, DropSession(s) \/ CancelForward(s) PROVE SessionsHaveUse'
  BY <1>1, <1>11 DEF DropSession, CancelForward
<1>12. ASSUME NEW h \in Hosts, PoolForgets(h) PROVE SessionsHaveUse'
  BY <1>1, <1>12 DEF PoolForgets
<1>13. CASE UNCHANGED vars
  BY <1>1, <1>13 DEF vars
<1> QED
  BY <1>3, <1>4, <1>5, <1>6, <1>7, <1>8, <1>9, <1>10, <1>11, <1>12, <1>13 DEF Next, TaskStep

\* A step leaves a client its host, and a dropped one nobody who refers to it.
LEMMA AllocatedStep == IInv /\ [Next]_vars => ClientsAreAllocated'
<1> SUFFICES ASSUME IInv, [Next]_vars PROVE ClientsAreAllocated'
  OBVIOUS
<1> USE ConstantsAssumption DEF ClientsAreAllocated, Unreferenced, mapVars, socketVars
<1>1. TypeOK /\ ClientsAreAllocated
  BY DEF IInv
<1>2. ASSUME NEW t \in Tasks, NEW h \in Hosts, Lookup(t, h) PROVE ClientsAreAllocated'
  <2>1. PICK c \in Cells :
              /\ cell' = [cell EXCEPT ![t] = c]
              /\ \/ clients[h] = c /\ clients' = clients /\ hostOf' = hostOf
                 \/ /\ ~ready[c] /\ c \notin tearing
                    /\ hostOf' = [hostOf EXCEPT ![c] = h]
                    /\ clients' = [clients EXCEPT ![h] = c]
    BY <1>2, LookupCell
  <2>2. ready' = ready /\ tearing' = tearing
    BY <1>2 DEF Lookup
  <2>3. c \notin tearing
    BY <1>1, <2>1
  <2>4. \A d \in Cells : hostOf[d] \in Hosts => hostOf'[d] \in Hosts
    BY <1>1, <2>1 DEF TypeOK
  <2>5. ASSUME NEW d \in tearing PROVE Unreferenced(d)'
    BY <1>1, <2>1, <2>3, <2>5 DEF TypeOK
  <2> QED
    BY <1>1, <2>2, <2>4, <2>5 DEF TypeOK
<1>3. ASSUME NEW t \in Tasks, TaskStep(t) \/ Cancel(t), ~Secure(t) PROVE ClientsAreAllocated'
  <2>1. ready' = ready /\ tearing' = tearing /\ hostOf' = hostOf
    BY <1>3 DEF TaskStep, UseReady, JoinInit, BuildAgain, Checkout, ClearPath, RequestForward,
                BuildFails, ConnectFails, OpReturns, OpDead, InvalidateClient, InvalidateSession,
                Cancel
  <2>2. \A h \in Hosts : clients'[h] \in {clients[h], NoCell}
    BY <1>1, <1>3 DEF TypeOK, TaskStep, UseReady, JoinInit, BuildAgain, Checkout, ClearPath,
        RequestForward, BuildFails, ConnectFails, OpReturns, OpDead, InvalidateClient,
        InvalidateSession, Cancel
  <2>3. \A u \in Tasks : cell'[u] \in {cell[u], NoCell}
    BY <1>1, <1>3 DEF TypeOK, TaskStep, UseReady, JoinInit, BuildAgain, Checkout, ClearPath,
        RequestForward, BuildFails, ConnectFails, OpReturns, OpDead, InvalidateClient,
        InvalidateSession, Cancel,
        Return
  <2> QED
    BY <1>1, <2>1, <2>2, <2>3 DEF TypeOK
<1>4. ASSUME NEW t \in Tasks, Secure(t) PROVE ClientsAreAllocated'
  <2>1. cell[t] \in Cells /\ hostOf[cell[t]] \in Hosts /\ cell[t] \notin tearing
    BY <1>1, <1>4, ActiveCall DEF Secure
  <2>2. /\ hostOf' = hostOf /\ tearing' = tearing /\ clients' = clients /\ cell' = cell
        /\ \A c \in Cells : ready'[c] <=> ready[c] \/ c = cell[t]
    BY <1>1, <1>4, <2>1 DEF TypeOK, Secure
  <2> QED
    BY <1>1, <2>1, <2>2 DEF TypeOK
<1>5. ASSUME NEW c \in Cells, DropClient(c) PROVE ClientsAreAllocated'
  BY <1>1, <1>5 DEF TypeOK, DropClient
<1>6. ASSUME NEW c \in Cells, CloseForward(c) PROVE ClientsAreAllocated'
  BY <1>1, <1>6 DEF TypeOK, CloseForward
<1>7. ASSUME NEW c \in Cells, DropCell(c) PROVE ClientsAreAllocated'
  BY <1>1, <1>7 DEF TypeOK, DropCell
<1>8. ASSUME NEW s \in Sessions, DropSession(s) \/ CancelForward(s) PROVE ClientsAreAllocated'
  BY <1>1, <1>8 DEF DropSession, CancelForward
<1>9. ASSUME NEW h \in Hosts, PoolForgets(h) PROVE ClientsAreAllocated'
  BY <1>1, <1>9 DEF PoolForgets
<1>10. CASE UNCHANGED vars
  BY <1>1, <1>10 DEF vars
<1> QED
  BY <1>2, <1>3, <1>4, <1>5, <1>6, <1>7, <1>8, <1>9, <1>10 DEF Next

\* A step hands out no session of another host.
LEMMA HostStep == IInv /\ [Next]_vars => SessionsOfOneHost'
<1> SUFFICES ASSUME IInv, [Next]_vars PROVE SessionsOfOneHost'
  OBVIOUS
<1> USE ConstantsAssumption DEF SessionsOfOneHost, mapVars, socketVars
<1>1. TypeOK /\ SessionsOfOneHost
  BY DEF IInv
<1>2. ASSUME hostOf' = hostOf, \A c \in Cells : via'[c] \in {via[c], NoSession},
             \A h \in Hosts : pool'[h] \in {pool[h], NoSession}
      PROVE  SessionsOfOneHost'
  BY <1>1, <1>2
<1>3. ASSUME NEW t \in Tasks, NEW h \in Hosts, Lookup(t, h) PROVE SessionsOfOneHost'
  <2>1. PICK c \in Cells :
              \/ hostOf' = hostOf
              \/ via[c] = NoSession /\ hostOf' = [hostOf EXCEPT ![c] = h]
    BY <1>3, LookupCell
  <2>2. via' = via /\ pool' = pool
    BY <1>3 DEF Lookup
  <2> QED
    BY <1>1, <2>1, <2>2 DEF TypeOK
<1>4. ASSUME NEW t \in Tasks, Checkout(t) PROVE SessionsOfOneHost'
  <2> DEFINE h == Path(t)
             c == cell[t]
  <2>1. c \in Cells /\ h \in Hosts /\ hostOf[c] = h
    BY <1>4, ActiveCall DEF Checkout, Path
  <2>2. PICK s \in Sessions : /\ \/ pool[h] = s
                                 \/ ~SessionInUse(s)
                              /\ pool' = [pool EXCEPT ![h] = s]
                              /\ via' = [via EXCEPT ![c] = s]
    BY <1>4 DEF Checkout
  <2>3. \A k \in Hosts : pool[k] = s => k = h
    BY <1>1, <2>1, <2>2 DEF SessionInUse
  <2>4. \A d \in Cells : via[d] = s => hostOf[d] = h
    BY <1>1, <2>1, <2>2 DEF SessionInUse, Owned
  <2>5. hostOf' = hostOf
    BY <1>4 DEF Checkout
  <2> HIDE DEF h, c
  <2>6. \A k \in Hosts : pool'[k] = IF k = h THEN s ELSE pool[k]
    BY <1>1, <2>1, <2>2 DEF TypeOK
  <2>7. \A d \in Cells : via'[d] = IF d = c THEN s ELSE via[d]
    BY <1>1, <2>1, <2>2 DEF TypeOK
  <2>8. \A k, l \in Hosts : pool'[k] # NoSession /\ pool'[k] = pool'[l] => k = l
    BY <1>1, <2>3, <2>6
  <2>9. \A d \in Cells, k \in Hosts : via'[d] # NoSession /\ pool'[k] = via'[d] => hostOf[d] = k
    BY <1>1, <2>1, <2>3, <2>4, <2>6, <2>7
  <2> QED
    BY <2>5, <2>8, <2>9
<1>5. ASSUME NEW t \in Tasks, TaskStep(t) \/ Cancel(t), ~Checkout(t) PROVE SessionsOfOneHost'
  <2>1. hostOf' = hostOf
    BY <1>5 DEF TaskStep, UseReady, JoinInit, BuildAgain, ClearPath, RequestForward, Secure,
                BuildFails, ConnectFails, OpReturns, OpDead, InvalidateClient, InvalidateSession,
                Cancel
  <2>2. \A c \in Cells : via'[c] \in {via[c], NoSession}
    BY <1>1, <1>5 DEF TypeOK, TaskStep, UseReady, JoinInit, BuildAgain, ClearPath, RequestForward,
        Secure, BuildFails, ConnectFails, OpReturns, OpDead, InvalidateClient, InvalidateSession,
        Cancel
  <2>3. \A h \in Hosts : pool'[h] \in {pool[h], NoSession}
    BY <1>1, <1>5 DEF TypeOK, TaskStep, UseReady, JoinInit, BuildAgain, ClearPath, RequestForward,
        Secure, BuildFails, ConnectFails, OpReturns, OpDead, InvalidateClient, InvalidateSession,
        Cancel
  <2> QED
    BY <1>2, <2>1, <2>2, <2>3
<1>6. ASSUME NEW c \in Cells, DropClient(c) PROVE SessionsOfOneHost'
  BY <1>1, <1>6 DEF DropClient
<1>7. ASSUME NEW c \in Cells, CloseForward(c) PROVE SessionsOfOneHost'
  BY <1>1, <1>7 DEF TypeOK, CloseForward
<1>8. ASSUME NEW c \in Cells, DropCell(c) PROVE SessionsOfOneHost'
  <2>1. via[c] = NoSession
    BY <1>8 DEF DropCell, IInv, SessionsHaveUse, Unreferenced
  <2> QED
    BY <1>1, <1>8, <2>1 DEF TypeOK, DropCell
<1>9. ASSUME NEW s \in Sessions, DropSession(s) \/ CancelForward(s) PROVE SessionsOfOneHost'
  BY <1>1, <1>9 DEF DropSession, CancelForward
<1>10. ASSUME NEW h \in Hosts, PoolForgets(h) PROVE SessionsOfOneHost'
  BY <1>1, <1>10 DEF TypeOK, PoolForgets
<1>11. CASE UNCHANGED vars
  BY <1>1, <1>11 DEF vars
<1> QED
  BY <1>3, <1>4, <1>5, <1>6, <1>7, <1>8, <1>9, <1>10, <1>11 DEF Next

\* A step puts no dead client back into the cache.
LEMMA DeadStep == IInv /\ [Next]_vars => DeadClientsAreOut'
<1> SUFFICES ASSUME IInv, [Next]_vars PROVE DeadClientsAreOut'
  OBVIOUS
<1> USE ConstantsAssumption DEF DeadClientsAreOut, mapVars, socketVars
<1>1. TypeOK /\ DeadClientsAreOut
  BY DEF IInv
<1>2. ASSUME \A h \in Hosts : clients'[h] = clients[h],
             \A t \in Tasks : pc'[t] = "half" => pc[t] = "half" /\ cell'[t] = cell[t]
      PROVE  DeadClientsAreOut'
  BY <1>1, <1>2
<1>3. ASSUME NEW t \in Tasks, NEW h \in Hosts, Lookup(t, h) PROVE DeadClientsAreOut'
  <2>1. PICK c \in Cells :
              /\ cell' = [cell EXCEPT ![t] = c] /\ pc' = [pc EXCEPT ![t] = "entered"]
              /\ \/ clients' = clients
                 \/ Unreferenced(c) /\ clients' = [clients EXCEPT ![h] = c]
    BY <1>3, LookupCell
  <2>2. \A u \in Tasks : pc'[u] = "half" => u # t /\ pc[u] = "half" /\ cell'[u] = cell[u]
    BY <1>1, <2>1 DEF TypeOK
  <2>3. CASE clients' = clients
    BY <1>2, <2>2, <2>3
  <2>4. CASE Unreferenced(c) /\ clients' = [clients EXCEPT ![h] = c]
    BY <1>1, <2>2, <2>4 DEF TypeOK, Unreferenced
  <2> QED
    BY <2>1, <2>3, <2>4
<1>4. ASSUME NEW t \in Tasks, InvalidateClient(t) PROVE DeadClientsAreOut'
  <2>1. cell[t] # NoCell /\ Path(t) \in Hosts
    BY <1>4, ActiveCall DEF IInv, TypeOK, InvalidateClient
  <2>2. /\ clients' = [clients EXCEPT ![Path(t)] = NoCell]
        /\ pc' = [pc EXCEPT ![t] = "half"] /\ cell' = cell
    BY <1>4 DEF InvalidateClient, Goto
  <2>3. \A h \in Hosts : clients'[h] # cell[t]
    BY <1>1, <2>1, <2>2 DEF TypeOK, IInv, CacheAgrees, Path
  <2>4. \A u \in Tasks, h \in Hosts : pc[u] = "half" => clients'[h] # cell[u]
    <3>1. \A u \in Tasks : pc[u] = "half" => cell[u] # NoCell
      BY ActiveCall
    <3> QED
      BY <1>1, <2>2, <3>1 DEF TypeOK
  <2> QED
    BY <1>1, <2>2, <2>3, <2>4 DEF TypeOK
<1>5. ASSUME NEW t \in Tasks, TaskStep(t) \/ Cancel(t), ~InvalidateClient(t)
      PROVE  DeadClientsAreOut'
  <2>1. clients' = clients
    BY <1>5 DEF TaskStep, UseReady, JoinInit, BuildAgain, Checkout, ClearPath, RequestForward,
                Secure, BuildFails, ConnectFails, OpReturns, OpDead, InvalidateSession, Cancel
  <2>2. \A u \in Tasks : pc'[u] = "half" => pc[u] = "half" /\ cell'[u] = cell[u]
    BY <1>1, <1>5 DEF TypeOK, TaskStep, UseReady, JoinInit, BuildAgain, Checkout, ClearPath,
        RequestForward, Secure, BuildFails, ConnectFails, OpReturns, OpDead, InvalidateSession,
        Cancel,
        Goto, Return
  <2> QED
    BY <1>2, <2>1, <2>2
<1>6. ASSUME NEW c \in Cells, DropClient(c) \/ CloseForward(c) \/ DropCell(c)
      PROVE  DeadClientsAreOut'
  BY <1>1, <1>6 DEF DropClient, CloseForward, DropCell
<1>7. ASSUME NEW s \in Sessions, DropSession(s) \/ CancelForward(s) PROVE DeadClientsAreOut'
  BY <1>1, <1>7 DEF DropSession, CancelForward
<1>8. ASSUME NEW h \in Hosts, PoolForgets(h) PROVE DeadClientsAreOut'
  BY <1>1, <1>8 DEF PoolForgets
<1>9. CASE UNCHANGED vars
  BY <1>1, <1>9 DEF vars
<1> QED
  BY <1>3, <1>4, <1>5, <1>6, <1>7, <1>8, <1>9 DEF Next

\* No step leaves anybody in the queue of a cell who is not waiting or building
\* there, or anybody who is out of it.
LEMMA QueuesStep == IInv /\ [Next]_vars => InitQueues'
<1> SUFFICES ASSUME IInv, [Next]_vars PROVE InitQueues'
  OBVIOUS
<1> DEFINE Builds(u) == pc[u] \in {"waiting"} \cup Building
           Good(c) == /\ Once(initq[c])
                      /\ \A u \in Tasks : u \in ToSet(initq[c]) <=>
                            cell[u] = c /\ Builds(u) /\ ~ready[c]
<1>1. /\ TypeOK /\ CallsReferToCells /\ OneBuilder
      /\ \A c \in Cells : Good(c) /\ initq[c] \in Seq(Tasks)
  BY DEF IInv, InitQueues, TypeOK
<1>2. SUFFICES \A c \in Cells : Good(c)'
  BY DEF InitQueues
<1>3. Once(<<>>) /\ ToSet(<<>>) = {}
  BY DEF Once, ToSet
<1> USE ConstantsAssumption DEF mapVars, socketVars, Building, Opening
<1>4. ASSUME NEW t \in Tasks, ~Builds(t), ~Builds(t)',
             \A u \in Tasks \ {t} : pc'[u] = pc[u] /\ cell'[u] = cell[u],
             ready' = ready, initq' = initq
      PROVE  \A c \in Cells : Good(c)'
  BY <1>1, <1>4
<1>5. ASSUME NEW t \in Tasks, NEW h \in Hosts, Lookup(t, h) PROVE \A c \in Cells : Good(c)'
  <2>1. pc[t] = "idle" /\ ready' = ready /\ initq' = initq
    BY <1>5 DEF Lookup
  <2>2. PICK c \in Cells : cell' = [cell EXCEPT ![t] = c] /\ pc' = [pc EXCEPT ![t] = "entered"]
    BY <1>5, LookupCell
  <2> QED
    BY <1>1, <1>4, <2>1, <2>2 DEF TypeOK
<1>6. ASSUME NEW t \in Tasks, UseReady(t) PROVE \A c \in Cells : Good(c)'
  BY <1>1, <1>6 DEF TypeOK, UseReady, Goto
<1>7. ASSUME NEW t \in Tasks, OpReturns(t) \/ OpDead(t) \/ InvalidateClient(t) \/ InvalidateSession(t)
      PROVE  \A c \in Cells : Good(c)'
  <2>1. /\ ~Builds(t) /\ ~Builds(t)' /\ ready' = ready /\ initq' = initq
        /\ \A u \in Tasks \ {t} : pc'[u] = pc[u] /\ cell'[u] = cell[u]
    BY <1>1, <1>7 DEF TypeOK, OpReturns, OpDead, InvalidateClient, InvalidateSession, Goto, Return
  <2> QED
    BY <1>4, <2>1
<1>8. ASSUME NEW t \in Tasks, JoinInit(t) PROVE \A c \in Cells : Good(c)'
  <2>1. /\ cell[t] \in Cells /\ pc[t] = "entered" /\ ~ready[cell[t]]
        /\ initq' = [initq EXCEPT ![cell[t]] = Append(@, t)] /\ ready' = ready /\ cell' = cell
        /\ Builds(t)' /\ \A u \in Tasks \ {t} : pc'[u] = pc[u]
    BY <1>1, <1>8, ActiveCall DEF TypeOK, JoinInit, Goto
  <2>2. t \notin ToSet(initq[cell[t]])
    BY <1>1, <2>1
  <2>3. /\ Once(Append(initq[cell[t]], t))
        /\ ToSet(Append(initq[cell[t]], t)) = ToSet(initq[cell[t]]) \cup {t}
    BY <1>1, <2>1, <2>2, AppendOnce
  <2>4. ASSUME NEW c \in Cells, c = cell[t] PROVE Good(c)'
    BY <1>1, <2>1, <2>3, <2>4 DEF TypeOK
  <2>5. ASSUME NEW c \in Cells, c # cell[t] PROVE Good(c)'
    BY <1>1, <2>1, <2>5 DEF TypeOK
  <2> QED
    BY <2>4, <2>5
<1>9. ASSUME NEW t \in Tasks, BuildAgain(t) \/ Checkout(t) \/ ClearPath(t) \/ RequestForward(t)
      PROVE  \A c \in Cells : Good(c)'
  <2>1. /\ Builds(t) /\ Builds(t)' /\ ready' = ready /\ initq' = initq /\ cell' = cell
        /\ \A u \in Tasks \ {t} : pc'[u] = pc[u]
    BY <1>1, <1>9 DEF TypeOK, BuildAgain, Checkout, ClearPath, RequestForward, Goto
  <2> QED
    BY <1>1, <2>1
<1>10. ASSUME NEW t \in Tasks, Secure(t) PROVE \A c \in Cells : Good(c)'
  <2>1. /\ cell[t] \in Cells /\ cell' = cell
        /\ ready' = [ready EXCEPT ![cell[t]] = TRUE] /\ initq' = [initq EXCEPT ![cell[t]] = <<>>]
        /\ pc' = [pc EXCEPT ![t] = "running"]
    BY <1>10, ActiveCall DEF Secure, Goto
  <2> QED
    BY <1>1, <1>3, <2>1 DEF TypeOK
<1>11. ASSUME NEW t \in Tasks, BuildFails(t) \/ ConnectFails(t) PROVE \A c \in Cells : Good(c)'
  <2>1. /\ cell[t] \in Cells /\ pc[t] \in Building
        /\ initq' = [initq EXCEPT ![cell[t]] = Tail(@)] /\ ready' = ready
        /\ pc' = [pc EXCEPT ![t] = "idle"] /\ cell' = [cell EXCEPT ![t] = NoCell]
    BY <1>11, ActiveCall DEF BuildFails, ConnectFails, Return
  <2>2. initq[cell[t]] # <<>> /\ Head(initq[cell[t]]) = t
    BY <1>1, <2>1 DEF OneBuilder
  <2>3. /\ Once(Tail(initq[cell[t]]))
        /\ ToSet(Tail(initq[cell[t]])) = ToSet(initq[cell[t]]) \ {t}
    BY <1>1, <2>1, <2>2, TailOnce
  <2>4. ASSUME NEW c \in Cells, c = cell[t] PROVE Good(c)'
    BY <1>1, <2>1, <2>3, <2>4 DEF TypeOK
  <2>5. ASSUME NEW c \in Cells, c # cell[t] PROVE Good(c)'
    BY <1>1, <2>1, <2>5 DEF TypeOK
  <2> QED
    BY <2>4, <2>5
<1>12. ASSUME NEW t \in Tasks, Cancel(t) PROVE \A c \in Cells : Good(c)'
  <2>1. /\ cell[t] \in Cells
        /\ initq' = [initq EXCEPT ![cell[t]] = Without(@, t)] /\ ready' = ready
        /\ pc' = [pc EXCEPT ![t] = "idle"] /\ cell' = [cell EXCEPT ![t] = NoCell]
    BY <1>12, ActiveCall DEF Cancel, Return
  <2>2. /\ Once(Without(initq[cell[t]], t))
        /\ ToSet(Without(initq[cell[t]], t)) = ToSet(initq[cell[t]]) \ {t}
    BY <1>1, <2>1, WithoutOnce
  <2>3. ASSUME NEW c \in Cells, c = cell[t] PROVE Good(c)'
    BY <1>1, <2>1, <2>2, <2>3 DEF TypeOK
  <2>4. ASSUME NEW c \in Cells, c # cell[t] PROVE Good(c)'
    BY <1>1, <2>1, <2>4 DEF TypeOK
  <2> QED
    BY <2>3, <2>4
<1>13. ASSUME NEW c \in Cells, DropClient(c) PROVE \A d \in Cells : Good(d)'
  BY <1>1, <1>13 DEF TypeOK, DropClient, Unreferenced
<1>14. ASSUME NEW c \in Cells, CloseForward(c) \/ DropCell(c) PROVE \A d \in Cells : Good(d)'
  BY <1>1, <1>14 DEF CloseForward, DropCell
<1>15. ASSUME NEW s \in Sessions, DropSession(s) \/ CancelForward(s) PROVE \A c \in Cells : Good(c)'
  BY <1>1, <1>15 DEF DropSession, CancelForward
<1>16. ASSUME NEW h \in Hosts, PoolForgets(h) PROVE \A c \in Cells : Good(c)'
  BY <1>1, <1>16 DEF PoolForgets
<1>17. CASE UNCHANGED vars
  BY <1>1, <1>17 DEF vars
<1> QED
  BY <1>5, <1>6, <1>7, <1>8, <1>9, <1>10, <1>11, <1>12, <1>13, <1>14, <1>15, <1>16, <1>17
     DEF Next, TaskStep

-----------------------------------------------------------------------------
(* The theorems *)

\* Every reachable state satisfies the inductive invariant.
LEMMA InvAlways == Spec => []IInv
<1>1. IInv /\ [Next]_vars => IInv'
  BY TypeStep, ReferStep, CacheStep, BuilderStep, UsersStep, CheckedOutStep, UseStep,
     AllocatedStep, HostStep, DeadStep, QueuesStep DEF IInv
<1> QED
  BY <1>1, InitInv, PTL DEF Spec

\* The variables have their types; in particular a client, in the cache or
\* dropped and not yet torn down, keeps the session it runs over.
THEOREM TypeCorrect == Spec => []TypeOK
<1>1. IInv => TypeOK
  BY DEF IInv
<1> QED
  BY <1>1, InvAlways, PTL

\* A call never waits for a client nobody builds or is about to, whoever of those
\* before it failed or was dropped.
THEOREM WaitersWaitForSomebody == Spec => []WaitersAreServed
<1> SUFFICES ASSUME IInv, NEW t \in Tasks, pc[t] = "waiting", ~ready[cell[t]]
             PROVE  /\ initq[cell[t]] # <<>>
                    /\ Head(initq[cell[t]]) \in
                         {u \in Tasks : cell[u] = cell[t] /\ pc[u] \in {"waiting", "checkout"} \cup Opening}
  <2>1. IInv => WaitersAreServed
    BY DEF WaitersAreServed
  <2> QED
    BY <2>1, InvAlways, PTL
<1> DEFINE q == initq[cell[t]]
<1>1. cell[t] \in Cells /\ q \in Seq(Tasks) /\ Once(q) /\ t \in ToSet(q)
  BY ActiveCall DEF IInv, TypeOK, InitQueues
<1>2. q # <<>>
  BY <1>1 DEF ToSet
<1>3. Head(q) \in ToSet(q) /\ Head(q) \in Tasks
  BY <1>1, <1>2, TailOnce, HeadTailProperties
<1> QED
  BY <1>1, <1>2, <1>3 DEF IInv, InitQueues, Building

\* When a call reports a dead transport, later calls get neither the client it
\* used nor the session under it, whatever others did between the two halves of
\* invalidate.
THEOREM DeadTunnelIsForgotten == Spec => DeadTunnelLeaves
<1>1. IInv /\ [Next]_vars =>
        (\A t \in Tasks : pc[t] = "half" /\ pc'[t] = "idle"
            => \A h \in Hosts : clients'[h] # cell[t] /\ pool'[h] # via[cell[t]])
  <2> SUFFICES ASSUME IInv, [Next]_vars,
                      NEW t \in Tasks, pc[t] = "half", pc'[t] = "idle", NEW h \in Hosts
               PROVE  clients'[h] # cell[t] /\ pool'[h] # via[cell[t]]
    OBVIOUS
  <2> USE DEF mapVars, socketVars
  <2>1. TypeOK
    BY DEF IInv
  <2>2. InvalidateSession(t)
    <3>1. ASSUME NEW u \in Tasks, NEW k \in Hosts, Lookup(u, k) PROVE FALSE
      BY <2>1, <3>1 DEF TypeOK, Lookup, Goto
    <3>2. ASSUME NEW u \in Tasks, TaskStep(u) \/ Cancel(u), ~InvalidateSession(t) PROVE FALSE
      <4>1. CASE u = t
        BY <2>1, <3>2, <4>1 DEF TaskStep, UseReady, JoinInit, BuildAgain, Checkout, ClearPath,
           RequestForward, Secure, BuildFails, ConnectFails, OpReturns, OpDead, InvalidateClient,
           Cancel
      <4>2. CASE u # t
        BY <2>1, <3>2, <4>2 DEF TypeOK, TaskStep, UseReady, JoinInit, BuildAgain, Checkout,
           ClearPath, RequestForward, Secure, BuildFails, ConnectFails, OpReturns, OpDead,
           InvalidateClient,
           InvalidateSession, Cancel, Goto, Return
      <4> QED
        BY <4>1, <4>2
    <3>3. ASSUME NEW c \in Cells, DropClient(c) \/ CloseForward(c) \/ DropCell(c) PROVE FALSE
      BY <3>3 DEF DropClient, CloseForward, DropCell
    <3>4. ASSUME NEW s \in Sessions, DropSession(s) \/ CancelForward(s) PROVE FALSE
      BY <3>4 DEF DropSession, CancelForward
    <3>5. ASSUME NEW k \in Hosts, PoolForgets(k) PROVE FALSE
      BY <3>5 DEF PoolForgets
    <3>6. CASE UNCHANGED vars
      BY <3>6 DEF vars
    <3> QED
      BY <3>1, <3>2, <3>3, <3>4, <3>5, <3>6 DEF Next
  <2>3. cell[t] \in Cells /\ Path(t) \in Hosts
    BY ActiveCall
  <2>4. via[cell[t]] # NoSession
    BY <2>1, <2>3 DEF TypeOK, IInv, UsersHaveClients
  <2>5. clients'[h] # cell[t]
    BY <2>2 DEF IInv, DeadClientsAreOut, InvalidateSession
  <2>6. pool'[h] # via[cell[t]]
    <3>1. pool'[h] = IF h = Path(t) THEN NoSession ELSE pool[h]
      BY <2>1, <2>2, <2>3 DEF TypeOK, InvalidateSession
    <3>2. pool[h] = via[cell[t]] => h = Path(t)
      BY <2>3, <2>4 DEF IInv, SessionsOfOneHost, Path
    <3> QED
      BY <2>4, <3>1, <3>2
  <2> QED
    BY <2>5, <2>6
<1> QED
  BY <1>1, InvAlways, PTL DEF Spec, DeadTunnelLeaves

\* No drop leaves a forward behind, and no step of a call that goes on: one whose
\* client is gone is of a build that failed or was cancelled after asking for it.
THEOREM LeaksOnlyFailedBuilds == Spec => OnlyFailedBuildsLeak
<1>1. IInv /\ [Next]_vars =>
        (\A s \in forwards \cap forwards' : Owned(s) /\ ~Owned(s)'
            => \E t \in Tasks : /\ pc[t] \in {"binding", "securing"}
                                /\ via[cell[t]] = s
                                /\ pc'[t] = "idle")
  <2> SUFFICES ASSUME IInv, [Next]_vars,
                      NEW s \in forwards \cap forwards', Owned(s), ~Owned(s)'
               PROVE  \E t \in Tasks : /\ pc[t] \in {"binding", "securing"}
                                       /\ via[cell[t]] = s
                                       /\ pc'[t] = "idle"
    OBVIOUS
  <2> USE ConstantsAssumption DEF mapVars, socketVars
  <2>1. TypeOK /\ s \in Sessions
    BY DEF IInv, TypeOK
  <2>2. ASSUME NEW r \in Sessions, CancelForward(r) PROVE FALSE
    <3>1. r # s /\ via' = via /\ cancels' = cancels \ {r}
      BY <2>2 DEF CancelForward
    <3> QED
      BY <3>1 DEF Owned
  <2>3. CASE ~\E r \in Sessions : CancelForward(r)
    <3>1. cancels \subseteq cancels'
      BY <2>3 DEF Next, TaskStep, Lookup, UseReady, JoinInit, BuildAgain, Checkout, ClearPath,
         RequestForward, Secure, BuildFails, ConnectFails, OpReturns, OpDead, InvalidateClient,
         InvalidateSession, Cancel, DropClient, CloseForward, DropCell, DropSession, PoolForgets,
         vars
    <3>2. PICK c \in Cells : via[c] = s /\ via'[c] # s
      BY <3>1 DEF Owned
    <3>3. ASSUME NEW t \in Tasks, BuildFails(t) \/ Cancel(t)
          PROVE  pc[t] \in {"binding", "securing"} /\ via[cell[t]] = s /\ pc'[t] = "idle"
      <4>1. cell[t] = c
        BY <2>1, <3>2, <3>3 DEF TypeOK, BuildFails, Cancel
      <4>2. pc[t] # "checkout"
        BY <2>1, <3>2, <4>1 DEF IInv, SessionsCheckedOut
      <4>3. pc[t] \in {"binding", "securing"}
        BY <2>1, <3>2, <3>3, <4>1, <4>2 DEF TypeOK, BuildFails, Cancel, Opening
      <4> QED
        BY <2>1, <3>2, <3>3, <4>1, <4>3 DEF TypeOK, BuildFails, Cancel, Return
    <3>4. ASSUME NEW t \in Tasks, TaskStep(t), ~BuildFails(t) PROVE FALSE
      <4>1. CASE Checkout(t)
        <5>1. cell[t] = c
          BY <2>1, <3>2, <4>1 DEF TypeOK, Checkout
        <5> QED
          BY <2>1, <3>2, <4>1, <5>1 DEF IInv, SessionsCheckedOut, Checkout
      <4>2. CASE ConnectFails(t)
        <5>1. cell[t] = c
          BY <2>1, <3>2, <4>2 DEF TypeOK, ConnectFails
        <5> QED
          BY <3>2, <4>2, <5>1 DEF ConnectFails, Owned
      <4>3. CASE ~Checkout(t) /\ ~ConnectFails(t)
        BY <3>2, <3>4, <4>3 DEF TaskStep, UseReady, JoinInit, BuildAgain, ClearPath,
           RequestForward, Secure, OpReturns, OpDead, InvalidateClient, InvalidateSession
      <4> QED
        BY <4>1, <4>2, <4>3
    <3>5. ASSUME NEW t \in Tasks, NEW h \in Hosts, Lookup(t, h) PROVE FALSE
      BY <3>2, <3>5 DEF Lookup
    <3>6. ASSUME NEW d \in Cells, DropClient(d) \/ DropCell(d) PROVE FALSE
      BY <3>2, <3>6 DEF DropClient, DropCell
    <3>7. ASSUME NEW d \in Cells, CloseForward(d) PROVE FALSE
      <4>1. d = c
        BY <2>1, <3>2, <3>7 DEF TypeOK, CloseForward
      <4> QED
        BY <3>2, <3>7, <4>1 DEF CloseForward
    <3>8. ASSUME NEW r \in Sessions, DropSession(r) PROVE FALSE
      BY <3>2, <3>8 DEF DropSession
    <3>9. ASSUME NEW h \in Hosts, PoolForgets(h) PROVE FALSE
      BY <3>2, <3>9 DEF PoolForgets
    <3>10. CASE UNCHANGED vars
      BY <3>2, <3>10 DEF vars
    <3> QED
      BY <2>3, <3>3, <3>4, <3>5, <3>6, <3>7, <3>8, <3>9, <3>10 DEF Next
  <2> QED
    BY <2>2, <2>3
<1> QED
  BY <1>1, InvAlways, PTL DEF Spec, OnlyFailedBuildsLeak

-----------------------------------------------------------------------------
(* The cache implements ConnectionSpec                                      *)

\* The mapped state: live clients, their users, and those they failed.
Live == {c \in Cells : ready[c]}
Users == {t \in Tasks : pc[t] \in {"running", "dead", "half"}}
Failed == {t \in Tasks : pc[t] \in {"dead", "half"}}

\* The empty cache is the promise's initial state.
LEMMA PromiseInit == Init => Promise!Init
BY DEF Init, Promise!Init

\* Every step of the cache is a step of the promise, or changes nothing it sees.
LEMMA PromiseStep == IInv /\ [Next]_vars => [Promise!Next]_(Promise!vars)
<1> SUFFICES ASSUME IInv, [Next]_vars PROVE [Promise!Next]_(Promise!vars)
  OBVIOUS
<1> USE DEF mapVars, socketVars
<1>1. TypeOK /\ CacheAgrees /\ NoCell \notin Cells
  BY ConstantsAssumption DEF IInv
<1>2. /\ Promise!vars = <<clients, hostOf, Live, cell, Users, Failed>>
      /\ (Promise!vars)' = <<clients, hostOf, Live, cell, Users, Failed>>'
  BY DEF Promise!vars, Live, Users, Failed
<1>3. ASSUME NEW t \in Tasks, NEW h \in Hosts, Lookup(t, h) PROVE Promise!Come(t, h)
  <2>1. pc[t] = "idle" /\ pc' = [pc EXCEPT ![t] = "entered"] /\ ready' = ready
    BY <1>3 DEF Lookup, Goto
  <2>2. Users' = Users /\ Failed' = Failed /\ Live' = Live
    BY <1>1, <2>1 DEF TypeOK, Live, Users, Failed
  <2>3. cell[t] = NoCell
    BY <2>1 DEF IInv, CallsReferToCells
  <2> QED
    BY <1>3, <2>2, <2>3 DEF Lookup, Promise!Come, Live, Users, Failed
<1>4. ASSUME NEW t \in Tasks, UseReady(t) PROVE Promise!Share(t)
  <2>1. /\ pc[t] \in {"entered", "waiting"} /\ pc' = [pc EXCEPT ![t] = "running"]
        /\ ready[cell[t]] /\ UNCHANGED <<clients, hostOf, ready, cell>>
    BY <1>4 DEF UseReady, Goto
  <2>2. Users' = Users \cup {t} /\ t \notin Users /\ Failed' = Failed
    BY <1>1, <2>1 DEF TypeOK, Users, Failed
  <2>3. cell[t] \in Live /\ Live' = Live
    BY <2>1, ActiveCall DEF Live
  <2> QED
    BY <2>1, <2>2, <2>3 DEF Promise!Share, Live, Users, Failed
<1>5. ASSUME NEW t \in Tasks, Secure(t) PROVE Promise!Connect(t)
  <2>1. /\ pc[t] = "securing" /\ pc' = [pc EXCEPT ![t] = "running"]
        /\ ready' = [ready EXCEPT ![cell[t]] = TRUE]
        /\ UNCHANGED <<clients, hostOf, cell>>
    BY <1>5 DEF Secure, Goto
  <2>2. Users' = Users \cup {t} /\ t \notin Users /\ Failed' = Failed
    BY <1>1, <2>1 DEF TypeOK, Users, Failed
  <2>3. cell[t] \in Cells /\ ~ready[cell[t]]
    BY <2>1, ActiveCall DEF IInv, OneBuilder, Building, Opening
  <2>4. cell[t] \notin Live /\ Live' = Live \cup {cell[t]} /\ cell[t] # NoCell
    BY <1>1, <2>1, <2>3 DEF TypeOK, Live
  <2> QED
    BY <2>1, <2>2, <2>4 DEF Promise!Connect, Live, Users, Failed
<1>6. ASSUME NEW t \in Tasks,
BuildFails(t) \/ ConnectFails(t) \/ OpReturns(t) \/ Cancel(t) PROVE Promise!Leave(t)
  <2>1. /\ pc[t] \notin {"idle", "dead", "half"} /\ pc' = [pc EXCEPT ![t] = "idle"]
        /\ cell' = [cell EXCEPT ![t] = NoCell]
        /\ UNCHANGED <<clients, hostOf, ready>>
    BY <1>6 DEF BuildFails, ConnectFails, OpReturns, Cancel, Return
  <2>2. Users' = Users \ {t} /\ Failed' = Failed /\ t \notin Failed
    BY <1>1, <2>1 DEF TypeOK, Users, Failed
  <2>3. cell[t] # NoCell /\ Live' = Live
    BY <1>1, <2>1, ActiveCall DEF Live
  <2> QED
    BY <2>1, <2>2, <2>3 DEF Promise!Leave, Live, Users, Failed
<1>7. ASSUME NEW t \in Tasks, OpDead(t) PROVE Promise!Fail(t)
  <2>1. /\ pc[t] = "running" /\ pc' = [pc EXCEPT ![t] = "dead"]
        /\ UNCHANGED <<clients, hostOf, ready, cell>>
    BY <1>7 DEF OpDead, Goto
  <2>2. Users' = Users /\ t \in Users /\ Failed' = Failed \cup {t} /\ Live' = Live
    BY <1>1, <2>1 DEF TypeOK, Live, Users, Failed
  <2> QED
    BY <2>1, <2>2 DEF Promise!Fail, Live, Users, Failed
<1>8. ASSUME NEW t \in Tasks, InvalidateClient(t) PROVE Promise!Forget(Path(t)) /\ Path(t) \in Hosts
  <2>1. /\ pc[t] = "dead" /\ pc' = [pc EXCEPT ![t] = "half"]
        /\ clients' = [clients EXCEPT ![Path(t)] = NoCell]
        /\ UNCHANGED <<hostOf, ready, cell>>
    BY <1>8 DEF InvalidateClient, Goto
  <2>2. Users' = Users /\ Failed' = Failed /\ Live' = Live
    BY <1>1, <2>1 DEF TypeOK, Live, Users, Failed
  <2>3. Path(t) \in Hosts
    BY <2>1, ActiveCall
  <2> QED
    BY <2>1, <2>2, <2>3 DEF Promise!Forget, Live, Users, Failed
<1>9. ASSUME NEW t \in Tasks, InvalidateSession(t) PROVE Promise!Report(t)
  <2>1. /\ pc[t] = "half" /\ pc' = [pc EXCEPT ![t] = "idle"]
        /\ cell' = [cell EXCEPT ![t] = NoCell]
        /\ UNCHANGED <<clients, hostOf, ready>>
    BY <1>9 DEF InvalidateSession, Return
  <2>2. Users' = Users \ {t} /\ Failed' = Failed \ {t} /\ t \in Failed /\ Live' = Live
    BY <1>1, <2>1 DEF TypeOK, Live, Users, Failed
  <2>3. \A h \in Hosts : clients'[h] # cell[t]
    BY <2>1 DEF IInv, DeadClientsAreOut
  <2> QED
    BY <2>1, <2>2, <2>3 DEF Promise!Report, Live, Users, Failed
<1>10. ASSUME NEW c \in Cells, Unreferenced(c) PROVE Promise!Deserted(c)
  BY <1>10 DEF Unreferenced, Promise!Deserted
<1>11. ASSUME NEW c \in Cells, DropClient(c) PROVE Promise!Close(c)
  <2>1. /\ Unreferenced(c) /\ ready' = [ready EXCEPT ![c] = FALSE]
        /\ UNCHANGED <<clients, hostOf, pc, cell>>
    BY <1>11 DEF DropClient
  <2>2. Live' = Live \ {c} /\ Users' = Users /\ Failed' = Failed
    BY <1>1, <2>1 DEF TypeOK, Live, Users, Failed
  <2> QED
    BY <1>10, <2>1, <2>2 DEF Promise!Close, Live, Users, Failed
<1>12. ASSUME NEW c \in Cells, CloseForward(c) \/ DropCell(c) PROVE Promise!Free(c)
  <2>1. /\ hostOf' = [hostOf EXCEPT ![c] = NoHost]
        /\ UNCHANGED <<clients, ready, pc, cell>>
    BY <1>12 DEF CloseForward, DropCell
  <2>2. Unreferenced(c) /\ ~ready[c]
    BY <1>12 DEF CloseForward, DropCell, IInv, ClientsAreAllocated
  <2>3. Live' = Live \ {c} /\ Users' = Users /\ Failed' = Failed
    BY <2>1, <2>2 DEF Live, Users, Failed
  <2> QED
    BY <1>10, <2>1, <2>2, <2>3 DEF Promise!Free, Live, Users, Failed
<1>13. ASSUME NEW t \in Tasks, JoinInit(t) \/ BuildAgain(t) \/ Checkout(t) \/ ClearPath(t)
                               \/ RequestForward(t)
       PROVE  UNCHANGED Promise!vars
  <2>1. UNCHANGED <<clients, hostOf, ready, cell>>
    BY <1>13 DEF JoinInit, BuildAgain, Checkout, ClearPath, RequestForward
  <2>2. Users' = Users /\ Failed' = Failed
    BY <1>1, <1>13 DEF TypeOK, Users, Failed, Goto, JoinInit, BuildAgain, Checkout, ClearPath,
                       RequestForward
  <2> QED
    BY <1>2, <2>1, <2>2 DEF Live
<1>14. ASSUME \/ \E s \in Sessions : DropSession(s) \/ CancelForward(s)
              \/ \E h \in Hosts : PoolForgets(h)
              \/ UNCHANGED vars
       PROVE  UNCHANGED Promise!vars
  <2>1. UNCHANGED <<clients, hostOf, ready, cell, pc>>
    BY <1>14 DEF DropSession, CancelForward, PoolForgets, vars
  <2> QED
    BY <1>2, <2>1 DEF Live, Users, Failed
<1>15. ASSUME NEW t \in Tasks, TaskStep(t) \/ Cancel(t) PROVE [Promise!Next]_(Promise!vars)
  BY <1>4, <1>5, <1>6, <1>7, <1>8, <1>9, <1>13, <1>15 DEF TaskStep, Promise!Next
<1> QED
  BY <1>3, <1>11, <1>12, <1>14, <1>15 DEF Next, Promise!Next

\* The cache keeps the promise of ConnectionSpec: calls of a host come to one
\* client, its tunnel is not torn down under any of them, and after a dead
\* transport is reported nobody finds the client that died.
THEOREM SharesClients == Spec => ClientsAreShared
<1>1. IInv /\ [Next]_vars => [Promise!Next]_(Promise!vars)
  BY PromiseStep
<1> QED
  BY PromiseInit, <1>1, InvAlways, PTL DEF Spec, ClientsAreShared, Promise!Spec
=============================================================================
