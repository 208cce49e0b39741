--------------------------- MODULE ComposeDiscovery --------------------------
(***************************************************************************)
(* Discovery of compose projects (src/src/compose.rs) and the TTL cache in *)
(* front of it (src/src/cache.rs).                                         *)
(*                                                                         *)
(* A host's projects are abstracted to a version that any change of them   *)
(* increases; a discovery is abstracted to the versions its two sources    *)
(* were asked at, and whether the first of them failed, which it survives. *)
(* `list` is several steps: the lookup, the removal of an entry that       *)
(* is missing or expired, `docker compose ls`, `find`, the reading of the  *)
(* files found, and the insertion.  Nothing keeps two lists of one host    *)
(* from discovering at the same time, or a refresh from coming in between. *)
(*                                                                         *)
(* The cache's limit of 10 000 entries is left out: it has one entry per   *)
(* host.  Time is kept as the age each entry seems to have.                *)
(***************************************************************************)
EXTENDS Naturals, FiniteSets

CONSTANTS
    Hosts,
    Tasks,         \* concurrent callers of list
    NoHost, NoEntry,
    TTL,           \* in clock ticks
    MaxVersion,    \* bound on the changes of a host's projects
    ClockJumps     \* may the wall clock be set?

ASSUME ConstantsAssumption ==
    /\ NoHost \notin Hosts
    /\ {TTL, MaxVersion} \subseteq Nat
    /\ ClockJumps \in BOOLEAN

VARIABLES
    projects,   \* the version of each host's projects
    store,      \* the cache: what a discovery of the host found
    age,        \* how old the entry of a host seems by the wall clock
    pc, host,   \* where each caller is in list, and for which host
    found,      \* what its discovery has found so far
    result,     \* what its last list returned, if it is over
    (* history *)
    floor,      \* the version at the last refresh of a host, and whether no
                \* list was discovering the host just then
    need        \* the floor when the caller's list began

vars == <<projects, store, age, pc, host, found, result, floor, need>>

Versions == 0..MaxVersion
\* The versions at which `docker compose ls` and `find` were run; partial: the
\* ls failed, and the listing has what `find` found only.
Listing  == [active : Versions, partial : BOOLEAN, scanned : Versions]
Nothing  == [active |-> 0, partial |-> FALSE, scanned |-> 0]

Floors   == [version : Versions, quiet : BOOLEAN]
NoFloor  == [version |-> 0, quiet |-> TRUE]

Discovering == {"ls", "find", "naming", "storing"}

TypeOK ==
    /\ projects \in [Hosts -> Versions]
    /\ store \in [Hosts -> Listing \cup {NoEntry}]
    /\ age \in [Hosts -> 0..(TTL + 1)]
    /\ pc \in [Tasks -> {"idle", "removing"} \cup Discovering]
    /\ host \in [Tasks -> Hosts \cup {NoHost}]
    /\ found \in [Tasks -> Listing]
    /\ result \in [Tasks -> Listing]
    /\ floor \in [Hosts -> Floors]
    /\ need \in [Tasks -> Floors]

Init ==
    /\ projects = [h \in Hosts |-> 0]
    /\ store = [h \in Hosts |-> NoEntry]
    /\ age = [h \in Hosts |-> 0]
    /\ pc = [t \in Tasks |-> "idle"]
    /\ host = [t \in Tasks |-> NoHost]
    /\ found = [t \in Tasks |-> Nothing]
    /\ result = [t \in Tasks |-> Nothing]
    /\ floor = [h \in Hosts |-> NoFloor]
    /\ need = [t \in Tasks |-> NoFloor]

-----------------------------------------------------------------------------
(* The cache *)

\* `elapsed > ttl`; an entry from the future is expired too (see ClockSet).
is_expired(h) == age[h] > TTL

Forget(h) ==
    /\ store' = [store EXCEPT ![h] = NoEntry]
    /\ age' = [age EXCEPT ![h] = 0]

Insert(h, listing) ==
    /\ store' = [store EXCEPT ![h] = listing]
    /\ age' = [age EXCEPT ![h] = 0]

-----------------------------------------------------------------------------
(* list *)

\* list returns `listing`.  What a call found lives no longer than the call.
Return(t, listing) ==
    /\ pc' = [pc EXCEPT ![t] = "idle"]
    /\ host' = [host EXCEPT ![t] = NoHost]
    /\ found' = [found EXCEPT ![t] = Nothing]
    /\ result' = [result EXCEPT ![t] = listing]

\* A fresh entry answers at once.
Hit(t, h) ==
    /\ pc[t] = "idle"
    /\ store[h] # NoEntry
    /\ ~is_expired(h)
    /\ Return(t, store[h])
    /\ need' = [need EXCEPT ![t] = floor[h]]
    /\ UNCHANGED <<projects, store, age, floor>>

\* No entry, or an expired one: the lookup lets go of the lock.
Miss(t, h) ==
    /\ pc[t] = "idle"
    /\ store[h] = NoEntry \/ is_expired(h)
    /\ pc' = [pc EXCEPT ![t] = "removing"]
    /\ host' = [host EXCEPT ![t] = h]
    /\ need' = [need EXCEPT ![t] = floor[h]]
    /\ result' = [result EXCEPT ![t] = Nothing]
    /\ UNCHANGED <<projects, store, age, found, floor>>

\* get removes by key what it took for an expired entry, then list discovers.
RemoveExpired(t) ==
    /\ pc[t] = "removing"
    /\ Forget(host[t])
    /\ pc' = [pc EXCEPT ![t] = "ls"]
    /\ UNCHANGED <<projects, host, found, result, floor, need>>

\* `docker compose ls`; its failure is survived.
ListActive(t) ==
    /\ pc[t] = "ls"
    /\ \E failed \in BOOLEAN :
          found' = [found EXCEPT ![t].active = projects[host[t]], ![t].partial = failed]
    /\ pc' = [pc EXCEPT ![t] = "find"]
    /\ UNCHANGED <<projects, store, age, host, result, floor, need>>

\* `find` over the search paths.
FindFiles(t) ==
    /\ pc[t] = "find"
    /\ found' = [found EXCEPT ![t].scanned = projects[host[t]]]
    /\ pc' = [pc EXCEPT ![t] = "naming"]
    /\ UNCHANGED <<projects, store, age, host, result, floor, need>>

\* Faulty variant of FindFails: the discovery starts over.
FindFailsRetries(t) ==
    /\ pc[t] = "find"
    /\ pc' = [pc EXCEPT ![t] = "ls"]
    /\ UNCHANGED <<projects, store, age, host, found, result, floor, need>>

\* Faulty variant of FindFails: what `docker compose ls` found is cached all the same.
FindFailsCaches(t) ==
    /\ pc[t] = "find"
    /\ Insert(host[t], found[t])
    /\ Return(t, Nothing)
    /\ need' = [need EXCEPT ![t] = NoFloor]
    /\ UNCHANGED <<projects, floor>>

\* `find` could not be run: list returns the error, and nothing is cached.
FindFails(t) ==
    /\ pc[t] = "find"
    /\ Return(t, Nothing)
    /\ need' = [need EXCEPT ![t] = NoFloor]
    /\ UNCHANGED <<projects, store, age, floor>>

\* The files found are read for their names; a failure falls back to the path.
ReadNames(t) ==
    /\ pc[t] = "naming"
    /\ pc' = [pc EXCEPT ![t] = "storing"]
    /\ UNCHANGED <<projects, store, age, host, found, result, floor, need>>

\* The merged list is cached and returned.
Store(t) ==
    /\ pc[t] = "storing"
    /\ Insert(host[t], found[t])
    /\ Return(t, found[t])
    /\ UNCHANGED <<projects, floor, need>>

\* The caller drops the future of list at an await.
Cancel(t) ==
    /\ pc[t] \in {"ls", "find", "naming"}
    /\ Return(t, Nothing)
    /\ need' = [need EXCEPT ![t] = NoFloor]
    /\ UNCHANGED <<projects, store, age, floor>>

-----------------------------------------------------------------------------
(* refresh, the host, the clock *)

Quiet(h) == \A t \in Tasks : host[t] = h => pc[t] \notin Discovering

SetFloor(h) ==
    floor' = [floor EXCEPT ![h] = [version |-> projects[h], quiet |-> Quiet(h)]]

\* Faulty variant of refresh: only an expired entry is invalidated.
refreshExpired(h) ==
    /\ IF is_expired(h) THEN Forget(h) ELSE UNCHANGED <<store, age>>
    /\ SetFloor(h)
    /\ UNCHANGED <<projects, pc, host, found, result, need>>

\* refresh(Some(host)); refresh(None) is used by no caller.
refresh(h) ==
    /\ Forget(h)
    /\ SetFloor(h)
    /\ UNCHANGED <<projects, pc, host, found, result, need>>

\* The projects of a host change: by `up` and `down`, or without synapse2.
Change(h) ==
    /\ projects[h] < MaxVersion
    /\ projects' = [projects EXCEPT ![h] = @ + 1]
    /\ UNCHANGED <<store, age, pc, host, found, result, floor, need>>

Tick ==
    /\ age' = [h \in Hosts |-> IF store[h] = NoEntry \/ is_expired(h) THEN age[h]
                               ELSE age[h] + 1]
    /\ UNCHANGED <<projects, store, pc, host, found, result, floor, need>>

\* The wall clock is set: entries seem younger or older than they are; one
\* from the future counts as expired.
ClockSet ==
    /\ ClockJumps
    /\ age' \in [Hosts -> 0..(TTL + 1)]
    /\ \A h \in Hosts : store[h] = NoEntry => age'[h] = 0
    /\ UNCHANGED <<projects, store, pc, host, found, result, floor, need>>

-----------------------------------------------------------------------------
\* Steps list takes by itself; each command ends by the operation deadline.
ListStep(t) ==
    \/ RemoveExpired(t) \/ ListActive(t) \/ FindFiles(t) \/ FindFails(t)
    \/ ReadNames(t) \/ Store(t)

Next ==
    \/ \E t \in Tasks : ListStep(t) \/ Cancel(t) \/ \E h \in Hosts : Hit(t, h) \/ Miss(t, h)
    \/ \E h \in Hosts : refresh(h) \/ Change(h)
    \/ Tick \/ ClockSet

Spec == Init /\ [][Next]_vars

FairSpec == Spec /\ \A t \in Tasks : WF_vars(ListStep(t))

-----------------------------------------------------------------------------
\* A list that begins after a refresh shows what the host had at the refresh,
\* provided no list of that host was discovering when the refresh came.  What
\* it lacks because `docker compose ls` failed, it lacks because an ls failed
\* since: the refresh also ends a partial list.
QuietRefreshIsSeen ==
    \A t \in Tasks : pc[t] = "idle" /\ need[t].quiet =>
        /\ result[t].scanned >= need[t].version
        /\ result[t].active >= need[t].version

\* Every listing in the cache is whole: its `find` came after its ls, and both were
\* of the host it is cached for.  A discovery that failed or was dropped half way
\* leaves nothing there, whoever else lists or refreshes.
CachedIsWhole ==
    \A h \in Hosts : store[h] # NoEntry =>
        store[h].active <= store[h].scanned /\ store[h].scanned <= projects[h]

\* Every list returns.
ListReturns == \A t \in Tasks : pc[t] # "idle" ~> pc[t] = "idle"
=============================================================================
