----------------------- MODULE ComposeDiscoveryProofs ------------------------
(***************************************************************************)
(* Proofs about ComposeDiscovery, for any number of hosts and callers, any *)
(* TTL and whatever the clock does.                                        *)
(***************************************************************************)
EXTENDS ComposeDiscovery, TLAPS

\* A caller in list has a host; an idle one has none.
CallersHaveHosts ==
    \A t \in Tasks : pc[t] # "idle" => host[t] \in Hosts

\* Nothing is required that the host does not have by now.
FloorsAreReal ==
    /\ \A h \in Hosts : floor[h].version <= projects[h]
    /\ \A t \in Tasks : pc[t] # "idle" => need[t].version <= projects[host[t]]

\* Each source a caller has asked by now, it asked when the host had what was
\* required when the caller began, and after the host's last quiet refresh: that
\* one came before the caller began to discover.
FoundIsFresh ==
    \A t \in Tasks :
        /\ pc[t] \in {"find", "naming", "storing"} =>
              /\ found[t].active >= need[t].version
              /\ floor[host[t]].quiet => found[t].active >= floor[host[t]].version
        /\ pc[t] \in {"naming", "storing"} =>
              /\ found[t].scanned >= need[t].version
              /\ floor[host[t]].quiet => found[t].scanned >= floor[host[t]].version

\* What is cached was asked for after the last quiet refresh.
StoreIsFresh ==
    \A h \in Hosts : store[h] # NoEntry /\ floor[h].quiet
                     => /\ store[h].active >= floor[h].version
                        /\ store[h].scanned >= floor[h].version

\* A caller that has asked one source, or both, asked them of the host as it was
\* then, and one after the other.
FoundInOrder ==
    \A t \in Tasks :
        /\ pc[t] = "find" => found[t].active <= projects[host[t]]
        /\ pc[t] \in {"naming", "storing"} =>
              found[t].active <= found[t].scanned /\ found[t].scanned <= projects[host[t]]

IInv ==
    /\ TypeOK
    /\ CallersHaveHosts
    /\ FloorsAreReal
    /\ FoundIsFresh
    /\ StoreIsFresh
    /\ QuietRefreshIsSeen
    /\ FoundInOrder
    /\ CachedIsWhole

-----------------------------------------------------------------------------
\* The strengthened invariant holds with an empty cache and nobody listing.
LEMMA InitInv == Init => IInv
<1> SUFFICES ASSUME Init PROVE IInv
  OBVIOUS
<1>1. 0 \in Versions /\ 0 \in 0..(TTL + 1)
  BY ConstantsAssumption DEF Versions
<1>2. Nothing \in Listing /\ NoFloor \in Floors
  BY <1>1 DEF Nothing, Listing, NoFloor, Floors
<1>3. TypeOK
  BY <1>1, <1>2 DEF Init, TypeOK
<1>4. QuietRefreshIsSeen
  BY DEF Init, QuietRefreshIsSeen, Nothing, NoFloor
<1> QED
  BY <1>3, <1>4 DEF Init, IInv, CallersHaveHosts, FloorsAreReal, FoundIsFresh, StoreIsFresh,
     FoundInOrder, CachedIsWhole, NoFloor

\* What the type invariant says of one host and of one caller.
LEMMA Typing ==
    ASSUME TypeOK
    PROVE  /\ \A h \in Hosts : /\ projects[h] \in Nat
                               /\ floor[h].version \in Nat
                               /\ store[h] # NoEntry => /\ store[h].active \in Nat
                                                        /\ store[h].scanned \in Nat
           /\ \A t \in Tasks : /\ need[t].version \in Nat
                               /\ found[t].active \in Nat /\ found[t].scanned \in Nat
                               /\ result[t].active \in Nat /\ result[t].scanned \in Nat
<1>1. \A l \in Listing : l.active \in Nat /\ l.scanned \in Nat
  BY ConstantsAssumption DEF Listing, Versions
<1>2. \A f \in Floors : f.version \in Nat
  BY ConstantsAssumption DEF Floors, Versions
<1>3. \A h \in Hosts : store[h] # NoEntry => store[h] \in Listing
  BY DEF TypeOK
<1>4. \A h \in Hosts : projects[h] \in Nat
  BY ConstantsAssumption DEF TypeOK, Versions
<1> QED
  BY <1>1, <1>2, <1>3, <1>4 DEF TypeOK

\* Listing, refreshing, changes and the clock keep the state's shape.
LEMMA TypeStep == IInv /\ [Next]_vars => TypeOK'
<1> SUFFICES ASSUME IInv, [Next]_vars PROVE TypeOK'
  OBVIOUS
<1>1. TypeOK /\ CallersHaveHosts
  BY DEF IInv
<1>2. /\ 0 \in 0..(TTL + 1) /\ 0 \in Versions
      /\ \A a \in 0..(TTL + 1) : ~(a > TTL) => a + 1 \in 0..(TTL + 1)
      /\ \A v \in Versions : v < MaxVersion => v + 1 \in Versions
  BY ConstantsAssumption DEF Versions
<1>3. Nothing \in Listing /\ NoFloor \in Floors
  BY <1>2 DEF Nothing, Listing, NoFloor, Floors
<1>4. ASSUME NEW t \in Tasks, NEW h \in Hosts, Hit(t, h) \/ Miss(t, h) PROVE TypeOK'
  BY <1>1, <1>3, <1>4 DEF TypeOK, Hit, Miss, Return, Discovering
<1>5. ASSUME NEW t \in Tasks, ListStep(t) \/ Cancel(t) PROVE TypeOK'
  <2>1. host[t] \in Hosts
    BY <1>1, <1>5 DEF CallersHaveHosts, ListStep, Cancel, RemoveExpired, ListActive,
         FindFiles, FindFails, ReadNames, Store
  <2>2. CASE RemoveExpired(t)
    BY <1>1, <1>2, <2>1, <2>2 DEF TypeOK, RemoveExpired, Forget, Discovering
  <2>3. CASE ListActive(t)
    <3>1. PICK p \in BOOLEAN :
             found' = [found EXCEPT ![t].active = projects[host[t]], ![t].partial = p]
      BY <2>3 DEF ListActive
    <3>2. [found[t] EXCEPT !.active = projects[host[t]], !.partial = p] \in Listing
      BY <1>1, <2>1 DEF TypeOK, Listing
    <3>3. found' = [found EXCEPT ![t] = [found[t] EXCEPT !.active = projects[host[t]], !.partial = p]]
      BY <3>1
    <3> QED
      BY <1>1, <2>3, <3>2, <3>3 DEF TypeOK, ListActive, Discovering
  <2>4. CASE FindFiles(t)
    BY <1>1, <2>1, <2>4 DEF TypeOK, FindFiles, Listing, Discovering
  <2>5. CASE FindFails(t) \/ Cancel(t)
    BY <1>1, <1>3, <2>5 DEF TypeOK, FindFails, Cancel, Return, Discovering
  <2>6. CASE ReadNames(t)
    BY <1>1, <2>6 DEF TypeOK, ReadNames, Discovering
  <2>7. CASE Store(t)
    BY <1>1, <1>2, <1>3, <2>1, <2>7 DEF TypeOK, Store, Insert, Return, Discovering
  <2> QED
    BY <1>5, <2>2, <2>3, <2>4, <2>5, <2>6, <2>7 DEF ListStep
<1>6. ASSUME NEW h \in Hosts, refresh(h) PROVE TypeOK'
  <2>1. [version |-> projects[h], quiet |-> Quiet(h)] \in Floors
    BY <1>1 DEF TypeOK, Floors, Quiet
  <2> QED
    BY <1>1, <1>2, <1>6, <2>1 DEF TypeOK, refresh, Forget, SetFloor
<1>7. ASSUME NEW h \in Hosts, Change(h) PROVE TypeOK'
  BY <1>1, <1>2, <1>7 DEF TypeOK, Change
<1>8. CASE Tick \/ ClockSet
  BY <1>1, <1>2, <1>8 DEF TypeOK, Tick, ClockSet, is_expired
<1>9. CASE UNCHANGED vars
  BY <1>1, <1>9 DEF TypeOK, vars
<1> QED
  BY <1>4, <1>5, <1>6, <1>7, <1>8, <1>9 DEF Next

\* The strengthened invariant is inductive.
LEMMA StepInv == IInv /\ [Next]_vars => IInv'
<1> SUFFICES ASSUME IInv, [Next]_vars PROVE IInv'
  OBVIOUS
<1>1. TypeOK'
  BY TypeStep
<1>2. /\ TypeOK /\ CallersHaveHosts /\ FloorsAreReal /\ FoundIsFresh /\ StoreIsFresh
      /\ QuietRefreshIsSeen /\ FoundInOrder /\ CachedIsWhole
  BY DEF IInv
<1> DEFINE Rest == /\ CallersHaveHosts /\ FloorsAreReal /\ FoundIsFresh
                   /\ StoreIsFresh /\ QuietRefreshIsSeen /\ FoundInOrder /\ CachedIsWhole
<1> USE DEF CallersHaveHosts, FloorsAreReal, FoundIsFresh, StoreIsFresh, QuietRefreshIsSeen,
            FoundInOrder, CachedIsWhole
<1>3. ASSUME NEW t \in Tasks, NEW h \in Hosts, Hit(t, h) PROVE Rest'
  BY <1>2, <1>3, Typing DEF TypeOK, Hit, Return
<1>4. ASSUME NEW t \in Tasks, NEW h \in Hosts, Miss(t, h) PROVE Rest'
  BY <1>2, <1>4, Typing DEF TypeOK, Miss
<1>5. ASSUME NEW t \in Tasks, ListStep(t) \/ Cancel(t) PROVE Rest'
  <2>1. host[t] \in Hosts
    BY <1>2, <1>5 DEF ListStep, Cancel, RemoveExpired, ListActive, FindFiles, FindFails,
         ReadNames, Store
  <2>2. CASE RemoveExpired(t)
    BY <1>2, <2>1, <2>2, Typing DEF TypeOK, RemoveExpired, Forget
  <2>3. CASE ListActive(t)
    <3>1. found'[t].active = projects[host[t]] /\ \A u \in Tasks \ {t} : found'[u] = found[u]
      BY <1>2, <2>3 DEF TypeOK, ListActive, Listing
    <3> QED
      BY <1>2, <2>1, <2>3, <3>1, Typing DEF TypeOK, ListActive
  <2>4. CASE FindFiles(t)
    <3>1. found'[t].scanned = projects[host[t]] /\ found'[t].active = found[t].active
      BY <1>2, <2>4 DEF TypeOK, FindFiles, Listing
    <3> QED
      BY <1>2, <2>1, <2>4, <3>1, Typing DEF TypeOK, FindFiles
  <2>5. CASE FindFails(t) \/ Cancel(t)
    <3>1. /\ pc' = [pc EXCEPT ![t] = "idle"] /\ host' = [host EXCEPT ![t] = NoHost]
          /\ found' = [found EXCEPT ![t] = Nothing] /\ result' = [result EXCEPT ![t] = Nothing]
          /\ need' = [need EXCEPT ![t] = NoFloor] /\ UNCHANGED <<projects, store, floor>>
      BY <2>5 DEF FindFails, Cancel, Return
    <3>2. result'[t].active = 0 /\ result'[t].scanned = 0 /\ need'[t].version = 0
      BY <1>2, <3>1 DEF TypeOK, Nothing, NoFloor
    <3>3. QuietRefreshIsSeen'
      BY <1>2, <3>1, <3>2 DEF TypeOK
    <3> QED
      BY <1>2, <3>1, <3>3 DEF TypeOK
  <2>6. CASE ReadNames(t)
    BY <1>2, <2>6, Typing DEF TypeOK, ReadNames
  <2>7. CASE Store(t)
    BY <1>2, <2>1, <2>7, Typing DEF TypeOK, Store, Insert, Return
  <2> QED
    BY <1>5, <2>2, <2>3, <2>4, <2>5, <2>6, <2>7 DEF ListStep
<1>6. ASSUME NEW h \in Hosts, refresh(h) PROVE Rest'
  <2>1. /\ floor'[h].version = projects[h] /\ floor'[h].quiet = Quiet(h)
        /\ \A g \in Hosts \ {h} : floor'[g] = floor[g]
    BY <1>2, <1>6 DEF TypeOK, refresh, SetFloor
  <2>2. FoundIsFresh'
    BY <1>2, <1>6, <2>1, Typing DEF TypeOK, refresh, Quiet, Discovering
  <2>3. StoreIsFresh'
    BY <1>2, <1>6, <2>1, Typing DEF TypeOK, refresh, Forget
  <2>4. /\ CallersHaveHosts' /\ FloorsAreReal' /\ QuietRefreshIsSeen'
        /\ FoundInOrder' /\ CachedIsWhole'
    BY <1>2, <1>6, <2>1, Typing DEF TypeOK, refresh, Forget
  <2> QED
    BY <2>2, <2>3, <2>4
<1>7. ASSUME NEW h \in Hosts, Change(h) PROVE Rest'
  BY <1>2, <1>7, Typing DEF TypeOK, Change
<1>8. ASSUME Tick \/ ClockSet PROVE Rest'
  BY <1>2, <1>8, Typing DEF Tick, ClockSet
<1>9. ASSUME UNCHANGED vars PROVE Rest'
  BY <1>2, <1>9 DEF vars
<1>10. Rest'
  BY <1>3, <1>4, <1>5, <1>6, <1>7, <1>8, <1>9 DEF Next
<1> QED
  BY <1>1, <1>10 DEF IInv

\* The strengthened invariant holds in every reachable state.
LEMMA InvAlways == Spec => []IInv
BY InitInv, StepInv, PTL DEF Spec

\* The state of discovery and cache keeps its shape.
THEOREM TypeCorrect == Spec => []TypeOK
<1>1. IInv => TypeOK
  BY DEF IInv
<1> QED
  BY <1>1, InvAlways, PTL

\* Every listing in the cache has what both sources said of its host, one after the
\* other: a discovery that failed or was dropped half way leaves nothing there.
THEOREM WholeListingsAreCached == Spec => []CachedIsWhole
<1>1. IInv => CachedIsWhole
  BY DEF IInv
<1> QED
  BY <1>1, InvAlways, PTL

\* Whatever lists, refreshes, changes and clock corrections come in between, a
\* list that begins after a refresh shows what the host had at the refresh, or
\* lacks it for a failure since, provided no list was discovering that host when
\* the refresh came.
THEOREM RefreshedListIsFresh == Spec => []QuietRefreshIsSeen
<1>1. IInv => QuietRefreshIsSeen
  BY DEF IInv
<1> QED
  BY <1>1, InvAlways, PTL
=============================================================================
