------------------------------- MODULE Fanout --------------------------------
(***************************************************************************)
(* `fanout` (src/src/fanout.rs): one future per host, all polled by the    *)
(* caller's task, each taking a permit before it calls the operation; the  *)
(* results are collected as they complete, sorted by host position and     *)
(* split into the outcome.  The operations have no timeout of fanout's     *)
(* own: a host may never answer.                                           *)
(***************************************************************************)
EXTENDS Integers, Sequences, FiniteSets

CONSTANTS
    Hosts,           \* the names of the hosts asked, in order
    Values, Errors,  \* what the operation may return as Ok, as Err
    None,            \* no reply
    MaxCap           \* the cap on concurrent operations, 8 in the code

n == Len(Hosts)
Replies == Values \cup Errors

ASSUME FanoutAssumption ==
    /\ n \in Nat
    /\ MaxCap \in Nat \ {0}
    /\ None \notin Replies

VARIABLES
    hung,     \* positions of the hosts whose operation never ends
    stage,    \* of each future: queued for a permit, running its op, done
    permits,  \* permits the local semaphore has left
    raw,      \* the HostResults, in completion order
    outcome   \* the FanoutOutcome returned

vars == <<hung, stage, permits, raw, outcome>>

\* `n.min(8)`.
cap == IF n < MaxCap THEN n ELSE MaxCap

HostResult == [index : 1..n, host : {Hosts[i] : i \in 1..n}, result : Replies]

RunningOps == {i \in 1..n : stage[i] = "running"}

(***************************************************************************)
(* The promise of FanoutSpec: a host's answer is the result collected for  *)
(* its position.                                                           *)
(***************************************************************************)
answer ==
    [i \in 1..n |-> IF \E j \in DOMAIN raw : raw[j].index = i
                    THEN raw[CHOOSE j \in DOMAIN raw : raw[j].index = i].result
                    ELSE None]

Promise == INSTANCE FanoutSpec WITH answer <- answer, outcome <- outcome

Pending                == [variant |-> "Pending", ok |-> <<>>, errors |-> <<>>]
AllOk(ok)              == [variant |-> "AllOk", ok |-> ok, errors |-> <<>>]
PartialSuccess(ok, er) == [variant |-> "PartialSuccess", ok |-> ok, errors |-> er]
AllFailed(er)          == [variant |-> "AllFailed", ok |-> <<>>, errors |-> er]

\* Faulty variant of SortedByIndex: completion order is kept.
Unsorted(s) == s

\* `sort_unstable_by_key(index)`; the keys are distinct.
SortedByIndex(s) ==
    [i \in DOMAIN s |->
        s[CHOOSE j \in DOMAIN s :
            Cardinality({l \in DOMAIN s : s[l].index < s[j].index}) = i - 1]]

\* The (host, reply) pairs of the results whose reply is in S.
Partition(s, S) ==
    Promise!WithSecondIn([i \in DOMAIN s |-> <<s[i].host, s[i].result>>], S)

\* The match on (ok.is_empty(), errors.is_empty()).
Classify(ok, er) ==
    CASE ok # <<>> /\ er = <<>> -> AllOk(ok)
      [] ok # <<>> /\ er # <<>> -> PartialSuccess(ok, er)
      [] ok = <<>> /\ er # <<>> -> AllFailed(er)
      [] OTHER                  -> AllOk(<<>>)

-----------------------------------------------------------------------------
Init ==
    /\ hung \in SUBSET (1..n)
    /\ stage = [i \in 1..n |-> "queued"]
    /\ permits = cap
    /\ raw = <<>>
    /\ outcome = Pending

\* Faulty variant of Start: a window slides over the hosts in order, and stops
\* at the first that does not answer.
StartInOrder(i) ==
    /\ stage[i] = "queued"
    /\ permits > 0
    /\ \A j \in 1..(i - cap) : stage[j] = "done"
    /\ permits' = permits - 1
    /\ stage' = [stage EXCEPT ![i] = "running"]
    /\ UNCHANGED <<hung, raw, outcome>>

\* Future i gets a permit, and only then calls the operation.
Start(i) ==
    /\ stage[i] = "queued"
    /\ permits > 0
    /\ permits' = permits - 1
    /\ stage' = [stage EXCEPT ![i] = "running"]
    /\ UNCHANGED <<hung, raw, outcome>>

\* Faulty variant of Finish: the first failure keeps its permit.
FinishLeaksOnError(i) ==
    /\ stage[i] = "running"
    /\ i \notin hung
    /\ stage' = [stage EXCEPT ![i] = "done"]
    /\ \E r \in Replies :
          /\ permits' = IF r \in Errors THEN permits ELSE permits + 1
          /\ raw' = Append(raw, [index |-> i, host |-> Hosts[i], result |-> r])
    /\ UNCHANGED <<hung, outcome>>

\* The operation completes: the permit drops, `futures.next()` yields the result.
Finish(i) ==
    /\ stage[i] = "running"
    /\ i \notin hung
    /\ stage' = [stage EXCEPT ![i] = "done"]
    /\ permits' = permits + 1
    /\ \E r \in Replies :
          raw' = Append(raw, [index |-> i, host |-> Hosts[i], result |-> r])
    /\ UNCHANGED <<hung, outcome>>

\* No future is left: sort, split, classify, return.  Nobody to ask is AllOk.
Aggregate ==
    /\ outcome = Pending
    /\ \A i \in 1..n : stage[i] = "done"
    /\ LET sorted == SortedByIndex(raw)
       IN  outcome' = IF n = 0 THEN AllOk(<<>>)
                      ELSE Classify(Partition(sorted, Values), Partition(sorted, Errors))
    /\ UNCHANGED <<hung, stage, permits, raw>>

Next == Aggregate \/ \E i \in 1..n : Start(i) \/ Finish(i)

Spec == Init /\ [][Next]_vars

\* The caller's task is polled, and every operation that ends is noticed.
Fairness ==
    /\ WF_vars(Aggregate)
    /\ \A i \in 1..n : WF_vars(Start(i)) /\ WF_vars(Finish(i))

FairSpec == Spec /\ Fairness

-----------------------------------------------------------------------------
TypeOK ==
    /\ hung \subseteq 1..n
    /\ stage \in [1..n -> {"queued", "running", "done"}]
    /\ permits \in 0..cap
    /\ raw \in Seq(HostResult)
    /\ outcome.variant \in {"Pending", "AllOk", "PartialSuccess", "AllFailed"}

\* The permits left and the operations in progress add up to the cap: an
\* operation that fails gives its permit back like one that succeeds.
CapConserved == permits + Cardinality(RunningOps) = cap

\* Fanout does what FanoutSpec says: no reply is lost, doubled, or put under
\* another host, and the outcome lists them in the order of the hosts.
KeepsPromise == Promise!Spec

(* Liveness *)

\* As long as fewer hosts hang than the cap allows at once, every other host is
\* asked and answers: hung operations do not starve the rest.
OthersAnswer ==
    Cardinality(hung) < cap => \A i \in 1..n : i \notin hung => <>(stage[i] = "done")

\* When no operation hangs the caller gets its outcome.
CallerReturns == hung = {} => <>(outcome # Pending)
=============================================================================
