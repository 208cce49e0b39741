---------------------------- MODULE OperationSpec ----------------------------
(***************************************************************************)
(* What the server promises about a request that may change hosts: it      *)
(* changes nothing before it is permitted to, and sends no further change  *)
(* once its answer is given.  Module ActionRun implements it.              *)
(***************************************************************************)
EXTENDS FiniteSets

CONSTANTS Requests, Changes

VARIABLES
    state,    \* state[r]: waiting, running, answered
    permit,   \* permit[r]: changes are allowed
    changes   \* changes[r]: the changes sent on behalf of r

vars == <<state, permit, changes>>

TypeOK ==
    /\ state \in [Requests -> {"waiting", "running", "answered"}]
    /\ permit \in [Requests -> BOOLEAN]
    /\ changes \in [Requests -> SUBSET Changes]

Init ==
    /\ state = [r \in Requests |-> "waiting"]
    /\ permit = [r \in Requests |-> FALSE]
    /\ changes = [r \in Requests |-> {}]

\* An operation that needs no confirmation is permitted from the start.
Admit(r, permitted) ==
    /\ state[r] = "waiting"
    /\ state' = [state EXCEPT ![r] = "running"]
    /\ permit' = [permit EXCEPT ![r] = permitted]
    /\ UNCHANGED changes

Refuse(r) ==
    /\ state[r] = "waiting"
    /\ state' = [state EXCEPT ![r] = "answered"]
    /\ UNCHANGED <<permit, changes>>

Permit(r) ==
    /\ state[r] = "running" /\ ~permit[r]
    /\ permit' = [permit EXCEPT ![r] = TRUE]
    /\ UNCHANGED <<state, changes>>

Change(r, c) ==
    /\ state[r] = "running" /\ permit[r]
    /\ changes' = [changes EXCEPT ![r] = @ \cup {c}]
    /\ UNCHANGED <<state, permit>>

Answer(r) ==
    /\ state[r] = "running"
    /\ state' = [state EXCEPT ![r] = "answered"]
    /\ UNCHANGED <<permit, changes>>

Next ==
    \E r \in Requests :
        \/ \E p \in BOOLEAN : Admit(r, p)
        \/ Refuse(r)
        \/ Permit(r)
        \/ \E c \in Changes : Change(r, c)
        \/ Answer(r)

Spec == Init /\ [][Next]_vars
=============================================================================
