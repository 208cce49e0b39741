---------------------------- MODULE ConnectionSpec ----------------------------
(***************************************************************************)
(* What the program promises about the connections it shares: callers of   *)
(* the same key, say a host, come to the same place, where one of them     *)
(* connects and the others take what it has made; a connection is not      *)
(* closed under anyone who came for it; and one that was reported dead is  *)
(* not found by whoever comes later.  SshPool implements it with sessions, *)
(* DockerClients with docker clients.                                      *)
(*                                                                         *)
(* A place holds one connection in its life.  Its name can be taken again  *)
(* when nobody can get at it any more.                                     *)
(***************************************************************************)
CONSTANTS Keys, Callers, Places, NoKey, NoPlace

VARIABLES
    current,   \* the place of a key that callers come to
    keyOf,     \* the key of a place; NoKey: its name is free
    open,      \* places that hold a connection
    at,        \* the place each caller came to
    users,     \* callers who were handed the connection of their place
    failed     \* users whose connection failed them

vars == <<current, keyOf, open, at, users, failed>>

\* Nobody is at the place or can come to it.
Deserted(p) == (\A k \in Keys : current[k] # p) /\ (\A t \in Callers : at[t] # p)

Init ==
    /\ current = [k \in Keys |-> NoPlace]
    /\ keyOf = [p \in Places |-> NoKey]
    /\ open = {}
    /\ at = [t \in Callers |-> NoPlace]
    /\ users = {}
    /\ failed = {}

\* To the place of the key, or, if it has none, to a new one.
Come(t, k) ==
    /\ at[t] = NoPlace
    /\ \/ /\ current[k] # NoPlace
          /\ at' = [at EXCEPT ![t] = current[k]]
          /\ UNCHANGED <<current, keyOf>>
       \/ /\ current[k] = NoPlace
          /\ \E p \in Places :
               /\ keyOf[p] = NoKey
               /\ keyOf' = [keyOf EXCEPT ![p] = k]
               /\ current' = [current EXCEPT ![k] = p]
               /\ at' = [at EXCEPT ![t] = p]
    /\ UNCHANGED <<open, users, failed>>

\* Only where there is no connection, and never had been one.
Connect(t) ==
    /\ at[t] # NoPlace /\ t \notin users
    /\ at[t] \notin open
    /\ open' = open \cup {at[t]}
    /\ users' = users \cup {t}
    /\ UNCHANGED <<current, keyOf, at, failed>>

Share(t) ==
    /\ at[t] \in open /\ t \notin users
    /\ users' = users \cup {t}
    /\ UNCHANGED <<current, keyOf, open, at, failed>>

\* Done, dropped, or never connected; who leaves without a connection may clear
\* its place away, but not a connection somebody else has made.
Leave(t) ==
    /\ at[t] # NoPlace /\ t \notin failed
    /\ at' = [at EXCEPT ![t] = NoPlace]
    /\ users' = users \ {t}
    /\ \/ UNCHANGED current
       \/ /\ t \notin users /\ at[t] \notin open
          /\ current' = [k \in Keys |-> IF current[k] = at[t] THEN NoPlace ELSE current[k]]
    /\ UNCHANGED <<keyOf, open, failed>>

Fail(t) ==
    /\ t \in users
    /\ failed' = failed \cup {t}
    /\ UNCHANGED <<current, keyOf, open, at, users>>

\* Who leaves a dead connection has made sure that nobody else comes to it.
Report(t) ==
    /\ t \in failed
    /\ current' \in {current, [current EXCEPT ![keyOf[at[t]]] = NoPlace]}
    /\ \A k \in Keys : current'[k] # at[t]
    /\ at' = [at EXCEPT ![t] = NoPlace]
    /\ users' = users \ {t}
    /\ failed' = failed \ {t}
    /\ UNCHANGED <<keyOf, open>>

\* For whatever reason: the next caller connects anew.
Forget(k) ==
    /\ current' = [current EXCEPT ![k] = NoPlace]
    /\ UNCHANGED <<keyOf, open, at, users, failed>>

Close(p) ==
    /\ Deserted(p)
    /\ open' = open \ {p}
    /\ UNCHANGED <<current, keyOf, at, users, failed>>

Free(p) ==
    /\ Deserted(p)
    /\ open' = open \ {p}
    /\ keyOf' = [keyOf EXCEPT ![p] = NoKey]
    /\ UNCHANGED <<current, at, users, failed>>

Next ==
    \/ \E t \in Callers :
          \/ \E k \in Keys : Come(t, k)
          \/ Connect(t) \/ Share(t) \/ Leave(t) \/ Fail(t) \/ Report(t)
    \/ \E k \in Keys : Forget(k)
    \/ \E p \in Places : Close(p) \/ Free(p)

Spec == Init /\ [][Next]_vars
=============================================================================
