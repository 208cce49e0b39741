----------------------------- MODULE FanoutSpec ------------------------------
(***************************************************************************)
(* What a multi-host fanout promises (the documentation of                 *)
(* src/src/fanout.rs, lines 66-93 and 158-163): every host is asked, its   *)
(* reply is kept under its name, and the outcome lists the replies in the  *)
(* order of the hosts, whatever order they came in.                        *)
(***************************************************************************)
EXTENDS Naturals, Sequences

CONSTANTS
    Hosts,   \* the sequence of host names asked; a name may occur twice
    Values,  \* what an operation may return as Ok
    Errors,  \* what an operation may return as Err
    None     \* no reply yet

VARIABLES
    answer,  \* the reply of each host asked, by its position
    outcome  \* what the caller was given; Pending before that

specVars == <<answer, outcome>>

n == Len(Hosts)
Replies == Values \cup Errors

\* The pairs of a list whose second component is in S, in the list's order.
WithSecondIn(s, S) ==
    LET InS(p) == p[2] \in S
    IN  SelectSeq(s, InS)

\* The (host, reply) pairs of `a` whose reply is in S, in the order of the hosts.
Listed(a, S) == WithSecondIn([i \in 1..n |-> <<Hosts[i], a[i]>>], S)

Pending                == [variant |-> "Pending", ok |-> <<>>, errors |-> <<>>]
AllOk(ok)              == [variant |-> "AllOk", ok |-> ok, errors |-> <<>>]
PartialSuccess(ok, er) == [variant |-> "PartialSuccess", ok |-> ok, errors |-> er]
AllFailed(er)          == [variant |-> "AllFailed", ok |-> <<>>, errors |-> er]

\* The table of the three variants; asking nobody succeeds.
OutcomeOf(a) ==
    LET ok == Listed(a, Values)
        er == Listed(a, Errors)
    IN  IF n = 0 THEN AllOk(<<>>)
        ELSE IF er = <<>> THEN AllOk(ok)
        ELSE IF ok = <<>> THEN AllFailed(er)
        ELSE PartialSuccess(ok, er)

Init ==
    /\ answer = [i \in 1..n |-> None]
    /\ outcome = Pending

Reply(i) ==
    /\ answer[i] = None
    /\ \E r \in Replies : answer' = [answer EXCEPT ![i] = r]
    /\ UNCHANGED outcome

Return ==
    /\ outcome = Pending
    /\ \A i \in 1..n : answer[i] # None
    /\ outcome' = OutcomeOf(answer)
    /\ UNCHANGED answer

Next == (\E i \in 1..n : Reply(i)) \/ Return

Spec == Init /\ [][Next]_specVars
=============================================================================
