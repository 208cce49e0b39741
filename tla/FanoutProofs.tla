---------------------------- MODULE FanoutProofs -----------------------------
(***************************************************************************)
(* Proofs about Fanout, for any list of hosts, any replies and any cap:    *)
(* the cap on concurrent operations, and the promise of FanoutSpec.        *)
(***************************************************************************)
EXTENDS Fanout, Functions, FiniteSetTheorems, SequenceTheorems, TLAPS

\* Each result was collected from a finished future and carries its host.
RawFaithful ==
    \A j \in DOMAIN raw : /\ stage[raw[j].index] = "done"
                          /\ raw[j].host = Hosts[raw[j].index]

\* No position has two results.
RawUnique ==
    \A j, k \in DOMAIN raw : raw[j].index = raw[k].index => j = k

\* Every finished future has a result.
RawComplete ==
    \A i \in 1..n : stage[i] = "done" => \E j \in DOMAIN raw : raw[j].index = i

IInv == TypeOK /\ CapConserved /\ RawFaithful /\ RawUnique /\ RawComplete

-----------------------------------------------------------------------------
\* The number of hosts and the cap are numbers.
LEMMA CapNat == n \in Nat /\ cap \in Nat
BY FanoutAssumption DEF cap

\* The operations in progress are finitely many.
LEMMA RunningFinite == IsFiniteSet(RunningOps) /\ Cardinality(RunningOps) \in Nat
<1>1. IsFiniteSet(1..n)
  BY CapNat, FS_Interval
<1> QED
  BY <1>1, FS_Subset, FS_CardinalityType DEF RunningOps

\* The strengthened invariant holds before any operation starts.
LEMMA InitInv == Init => IInv
<1> SUFFICES ASSUME Init PROVE IInv
  OBVIOUS
<1>1. RunningOps = {} /\ permits = cap
  BY DEF Init, RunningOps
<1>2. CapConserved
  BY <1>1, CapNat, FS_EmptySet DEF CapConserved
<1>3. raw \in Seq(HostResult) /\ DOMAIN raw = {}
  BY DEF Init
<1>4. RawFaithful /\ RawUnique /\ RawComplete
  BY <1>3 DEF Init, RawFaithful, RawUnique, RawComplete
<1>5. TypeOK
  BY <1>1, <1>3, CapNat DEF Init, TypeOK, Pending
<1> QED
  BY <1>2, <1>4, <1>5 DEF IInv

\* What Finish adds to the results.
LEMMA FinishAppends ==
    ASSUME TypeOK, NEW i \in 1..n, Finish(i)
    PROVE  \E r \in Replies :
              /\ raw' \in Seq(HostResult)
              /\ Len(raw') = Len(raw) + 1
              /\ DOMAIN raw = 1..Len(raw) /\ DOMAIN raw' = 1..(Len(raw) + 1)
              /\ \A j \in 1..Len(raw) : raw'[j] = raw[j]
              /\ raw'[Len(raw) + 1] = [index |-> i, host |-> Hosts[i], result |-> r]
<1>1. PICK r \in Replies : raw' = Append(raw, [index |-> i, host |-> Hosts[i], result |-> r])
  BY DEF Finish
<1> DEFINE e == [index |-> i, host |-> Hosts[i], result |-> r]
<1>2. e \in HostResult /\ raw \in Seq(HostResult)
  BY DEF HostResult, TypeOK
<1> HIDE DEF e
<1>3. /\ raw' \in Seq(HostResult) /\ Len(raw') = Len(raw) + 1
      /\ \A j \in 1..Len(raw) : raw'[j] = raw[j]
      /\ raw'[Len(raw) + 1] = e
  BY <1>1, <1>2, AppendProperties DEF e
<1>4. DOMAIN raw = 1..Len(raw) /\ DOMAIN raw' = 1..(Len(raw) + 1)
  BY <1>2, <1>3
<1> QED
  BY <1>3, <1>4 DEF e

\* Starting, finishing and aggregating keep the strengthened invariant.
LEMMA StepInv == IInv /\ [Next]_vars => IInv'
<1> SUFFICES ASSUME IInv, [Next]_vars PROVE IInv'
  OBVIOUS
<1>1. /\ TypeOK /\ CapConserved /\ RawFaithful /\ RawUnique /\ RawComplete
      /\ permits \in Nat
  BY CapNat DEF IInv, TypeOK
<1>2. ASSUME NEW i \in 1..n, Start(i) PROVE IInv'
  <2>1. i \notin RunningOps /\ RunningOps' = RunningOps \cup {i}
    BY <1>1, <1>2 DEF TypeOK, Start, RunningOps
  <2>2. Cardinality(RunningOps') = Cardinality(RunningOps) + 1
    BY <2>1, RunningFinite, FS_AddElement
  <2>3. CapConserved'
    BY <1>1, <1>2, <2>2, CapNat, RunningFinite DEF CapConserved, Start
  <2>4. TypeOK'
    BY <1>1, <1>2, CapNat DEF TypeOK, Start
  <2>5. RawFaithful' /\ RawUnique' /\ RawComplete'
    BY <1>1, <1>2 DEF TypeOK, HostResult, Start, RawFaithful, RawUnique, RawComplete
  <2> QED
    BY <2>3, <2>4, <2>5 DEF IInv
<1>3. ASSUME NEW i \in 1..n, Finish(i) PROVE IInv'
  <2>1. i \in RunningOps /\ RunningOps' = RunningOps \ {i}
    BY <1>1, <1>3 DEF TypeOK, Finish, RunningOps
  <2>2. Cardinality(RunningOps') = Cardinality(RunningOps) - 1 /\ Cardinality(RunningOps) > 0
    BY <2>1, RunningFinite, FS_RemoveElement, FS_EmptySet
  <2>3. CapConserved' /\ permits' \in 0..cap
    BY <1>1, <1>3, <2>2, CapNat, RunningFinite DEF CapConserved, Finish
  <2>4. PICK r \in Replies :
              /\ raw' \in Seq(HostResult)
              /\ DOMAIN raw = 1..Len(raw) /\ DOMAIN raw' = 1..(Len(raw) + 1)
              /\ \A j \in 1..Len(raw) : raw'[j] = raw[j]
              /\ raw'[Len(raw) + 1] = [index |-> i, host |-> Hosts[i], result |-> r]
    BY <1>1, <1>3, FinishAppends
  <2>5. Len(raw) \in Nat
    BY <1>1 DEF TypeOK
  <2>6. /\ stage' = [stage EXCEPT ![i] = "done"] /\ stage[i] = "running"
        /\ UNCHANGED <<hung, outcome>>
    BY <1>3 DEF Finish
  <2>7. TypeOK'
    BY <1>1, <2>3, <2>4, <2>6, CapNat DEF TypeOK
  <2>8. ASSUME NEW j \in 1..Len(raw) PROVE raw[j].index \in 1..n /\ raw[j].index # i
    <3>1. raw[j] \in HostResult
      BY <1>1, <2>8 DEF TypeOK
    <3>2. stage[raw[j].index] = "done"
      BY <1>1, <2>4, <2>8 DEF RawFaithful
    <3> QED
      BY <2>6, <3>1, <3>2 DEF HostResult
  <2>9. RawFaithful'
    <3> SUFFICES ASSUME NEW j \in 1..(Len(raw) + 1)
                 PROVE  stage'[raw'[j].index] = "done" /\ raw'[j].host = Hosts[raw'[j].index]
      BY <2>4 DEF RawFaithful
    <3>1. CASE j = Len(raw) + 1
      BY <1>1, <2>4, <2>6, <3>1 DEF TypeOK
    <3>2. CASE j \in 1..Len(raw)
      BY <1>1, <2>4, <2>6, <2>8, <3>2 DEF TypeOK, RawFaithful
    <3> QED
      BY <2>5, <3>1, <3>2
  <2>10. RawUnique'
    BY <1>1, <2>4, <2>5, <2>8 DEF RawUnique
  <2>11. RawComplete'
    BY <1>1, <2>4, <2>5, <2>6 DEF TypeOK, RawComplete
  <2> QED
    BY <2>3, <2>7, <2>9, <2>10, <2>11 DEF IInv
<1>4. CASE Aggregate
  <2>1. UNCHANGED <<stage, permits, raw>> /\ TypeOK'
    BY <1>1, <1>4 DEF Aggregate, TypeOK, Classify, AllOk, PartialSuccess, AllFailed
  <2>2. CapConserved' /\ RawFaithful' /\ RawUnique' /\ RawComplete'
    BY <1>1, <2>1 DEF CapConserved, RunningOps, RawFaithful, RawUnique, RawComplete
  <2> QED
    BY <2>1, <2>2 DEF IInv
<1>5. CASE UNCHANGED vars
  BY <1>1, <1>5 DEF vars, IInv, TypeOK, CapConserved, RunningOps, RawFaithful, RawUnique, RawComplete
<1> QED
  BY <1>2, <1>3, <1>4, <1>5 DEF Next

\* The strengthened invariant holds in every reachable state.
LEMMA InvAlways == Spec => []IInv
BY InitInv, StepInv, PTL DEF Spec

\* The fanout's state keeps its shape.
THEOREM TypeCorrect == Spec => []TypeOK
<1>1. IInv => TypeOK
  BY DEF IInv
<1> QED
  BY <1>1, InvAlways, PTL

\* Never more than `min(n, 8)` operations are in progress, and every permit an
\* operation held comes back when it ends, in success or failure.
THEOREM CapHolds == Spec => []CapConserved
<1>1. IInv => CapConserved
  BY DEF IInv
<1> QED
  BY <1>1, InvAlways, PTL

-----------------------------------------------------------------------------
(***************************************************************************)
(* The refinement.  Start stutters, Finish(i) is Reply(i), Aggregate is    *)
(* Return.                                                                 *)
(***************************************************************************)

\* The answer of position i is the one result collected for it.
LEMMA AnswerOf ==
    ASSUME IInv, NEW i \in 1..n, NEW j \in DOMAIN raw, raw[j].index = i
    PROVE  answer[i] = raw[j].result
BY DEF IInv, RawUnique, answer

\* With every future done there is one result per position.
LEMMA AllCollected ==
    ASSUME IInv, \A i \in 1..n : stage[i] = "done"
    PROVE  Len(raw) = n
<1>1. DOMAIN raw = 1..Len(raw) /\ Len(raw) \in Nat
  BY DEF IInv, TypeOK
<1> DEFINE f == [j \in 1..Len(raw) |-> raw[j].index]
<1>2. f \in [1..Len(raw) -> 1..n]
  <2>1. ASSUME NEW j \in 1..Len(raw) PROVE raw[j].index \in 1..n
    <3>1. raw[j] \in HostResult
      BY <1>1, <2>1 DEF IInv, TypeOK
    <3> QED
      BY <3>1 DEF HostResult
  <2> QED
    BY <2>1
<1>3. \A j, k \in 1..Len(raw) : f[j] = f[k] => j = k
  BY <1>1 DEF IInv, RawUnique
<1>4. \A i \in 1..n : \E j \in 1..Len(raw) : f[j] = i
  BY <1>1 DEF IInv, RawComplete
<1>5. f \in Bijection(1..Len(raw), 1..n)
  BY <1>2, <1>3, <1>4 DEF Bijection, Injection, Surjection, IsInjective
<1>6. \A m \in Nat : IsFiniteSet(1..m) /\ Cardinality(1..m) = m
  BY FS_Interval
<1>7. Cardinality(1..n) = Cardinality(1..Len(raw))
  BY <1>1, <1>5, <1>6, FS_Bijection DEF ExistsBijection
<1> QED
  BY <1>1, <1>6, <1>7, CapNat

\* The sort puts the result of position i at position i.
LEMMA SortPlaces ==
    ASSUME IInv, \A i \in 1..n : stage[i] = "done", NEW i \in 1..n
    PROVE  /\ DOMAIN SortedByIndex(raw) = 1..n
           /\ SortedByIndex(raw)[i].host = Hosts[i]
           /\ SortedByIndex(raw)[i].result = answer[i]
<1>1. DOMAIN raw = 1..n /\ raw \in Seq(HostResult) /\ Len(raw) = n
  BY AllCollected DEF IInv, TypeOK
<1>2. ASSUME NEW j \in 1..n PROVE raw[j].index \in 1..n
  <2>1. raw[j] \in HostResult
    BY <1>1, <1>2, ElementOfSeq
  <2> QED
    BY <2>1 DEF HostResult
<1> DEFINE Below(j) == {l \in DOMAIN raw : raw[l].index < raw[j].index}
<1>3. ASSUME NEW j \in 1..n PROVE Cardinality(Below(j)) = raw[j].index - 1
  <2> DEFINE m == raw[j].index - 1
             f == [l \in Below(j) |-> raw[l].index]
  <2>1. m \in Nat /\ m <= n /\ n \in Nat
    BY <1>2, <1>3, CapNat
  <2>2. f \in [Below(j) -> 1..m]
    BY <1>1, <1>2, <1>3, CapNat
  <2>3. \A k, l \in Below(j) : f[k] = f[l] => k = l
    BY DEF IInv, RawUnique
  <2>4. \A x \in 1..m : \E l \in Below(j) : f[l] = x
    <3> SUFFICES ASSUME NEW x \in 1..m PROVE \E l \in Below(j) : raw[l].index = x
      OBVIOUS
    <3>1. x \in 1..n /\ x < raw[j].index
      BY <1>2, <1>3, <2>1
    <3>2. PICK l \in DOMAIN raw : raw[l].index = x
      BY <3>1 DEF IInv, RawComplete
    <3> QED
      BY <3>1, <3>2
  <2>5. f \in Bijection(Below(j), 1..m)
    BY <2>2, <2>3, <2>4 DEF Bijection, Injection, Surjection, IsInjective
  <2>6. IsFiniteSet(Below(j))
    BY <1>1, CapNat, FS_Interval, FS_Subset
  <2>7. Cardinality(1..m) = Cardinality(Below(j))
    BY <2>5, <2>6, FS_Bijection DEF ExistsBijection
  <2> QED
    BY <2>1, <2>7, FS_Interval
<1> DEFINE At == CHOOSE j \in DOMAIN raw : Cardinality(Below(j)) = i - 1
<1>4. \E j \in DOMAIN raw : Cardinality(Below(j)) = i - 1
  <2>1. PICK j \in DOMAIN raw : raw[j].index = i
    BY DEF IInv, RawComplete
  <2> QED
    BY <1>1, <1>3, <2>1
<1>5. At \in 1..n /\ Cardinality(Below(At)) = i - 1
  BY <1>1, <1>4
<1>6. SortedByIndex(raw)[i] = raw[At] /\ DOMAIN SortedByIndex(raw) = 1..n
  BY <1>1 DEF SortedByIndex
<1> HIDE DEF At, Below
<1>7. raw[At].index = i
  BY <1>2, <1>3, <1>5, CapNat
<1>8. raw[At].host = Hosts[i]
  BY <1>1, <1>5, <1>7 DEF IInv, RawFaithful
<1>9. raw[At].result = answer[i]
  BY <1>1, <1>5, <1>7, AnswerOf
<1> QED
  BY <1>6, <1>8, <1>9

\* The initial state promises nothing yet.
LEMMA PromiseInit == Init => Promise!Init
<1> SUFFICES ASSUME Init PROVE Promise!Init
  OBVIOUS
<1>1. DOMAIN raw = {}
  BY DEF Init
<1>2. answer = [i \in 1..n |-> None]
  BY <1>1 DEF answer
<1> QED
  BY <1>2 DEF Init, Promise!Init, Promise!n, n, Pending, Promise!Pending

\* Before a future finishes its position has no answer, afterwards the one it
\* returned; no other answer changes.
LEMMA FinishIsReply ==
    ASSUME IInv, NEW i \in 1..n, Finish(i)
    PROVE  Promise!Reply(i)
<1>1. PICK r \in Replies :
              /\ DOMAIN raw = 1..Len(raw) /\ DOMAIN raw' = 1..(Len(raw) + 1)
              /\ \A j \in 1..Len(raw) : raw'[j] = raw[j]
              /\ raw'[Len(raw) + 1] = [index |-> i, host |-> Hosts[i], result |-> r]
  BY FinishAppends DEF IInv
<1>2. IInv' /\ Len(raw) \in Nat
  BY StepInv DEF Next, IInv, TypeOK
<1>3. \A j \in DOMAIN raw : raw[j].index # i
  BY DEF IInv, RawFaithful, Finish
<1>4. answer[i] = None
  BY <1>3 DEF answer
<1>5. answer'[i] = r
  <2>1. Len(raw) + 1 \in DOMAIN raw' /\ raw'[Len(raw) + 1].index = i
    BY <1>1, <1>2
  <2>2. RawUnique'
    BY <1>2 DEF IInv
  <2>3. (CHOOSE j \in DOMAIN raw' : raw'[j].index = i) = Len(raw) + 1
    BY <2>1, <2>2 DEF RawUnique
  <2>4. \E j \in DOMAIN raw' : raw'[j].index = i
    BY <2>1
  <2>5. answer'[i] = raw'[Len(raw) + 1].result
    BY <2>3, <2>4 DEF answer
  <2> QED
    BY <1>1, <2>5
<1>6. ASSUME NEW k \in 1..n, k # i PROVE answer'[k] = answer[k]
  <2>1. CASE \E j \in DOMAIN raw : raw[j].index = k
    <3>1. PICK j \in DOMAIN raw : raw[j].index = k
      BY <2>1
    <3>2. j \in DOMAIN raw' /\ raw'[j] = raw[j] /\ raw'[j].index = k
      BY <1>1, <1>2, <3>1
    <3>3. answer[k] = raw[j].result
      BY <3>1, AnswerOf
    <3>4. RawUnique'
      BY <1>2 DEF IInv
    <3>5. (CHOOSE l \in DOMAIN raw' : raw'[l].index = k) = j
      BY <3>2, <3>4 DEF RawUnique
    <3> QED
      BY <3>2, <3>3, <3>5 DEF answer
  <2>2. CASE ~ \E j \in DOMAIN raw : raw[j].index = k
    <3>1. ~ \E j \in DOMAIN raw' : raw'[j].index = k
      BY <1>1, <1>2, <1>6, <2>2
    <3> QED
      BY <2>2, <3>1 DEF answer
  <2> QED
    BY <2>1, <2>2
<1>7. answer' = [answer EXCEPT ![i] = r]
  <2>1. /\ answer = [k \in 1..n |-> answer[k]]
        /\ answer' = [k \in 1..n |-> answer'[k]]
    BY DEF answer
  <2> QED
    BY <1>5, <1>6, <2>1
<1>8. outcome' = outcome /\ r \in Promise!Replies
  BY DEF Finish, Replies, Promise!Replies
<1> QED
  BY <1>4, <1>7, <1>8 DEF Promise!Reply

\* What is returned once every future is done is the outcome of the answers.
LEMMA AggregateIsReturn == ASSUME IInv, Aggregate PROVE Promise!Return
<1> DEFINE s == SortedByIndex(raw)
<1>1. \A i \in 1..n : stage[i] = "done"
  BY DEF Aggregate
<1>2. \A i \in 1..n : answer[i] # None
  <2> SUFFICES ASSUME NEW i \in 1..n PROVE answer[i] # None
    OBVIOUS
  <2>1. PICK j \in DOMAIN raw : raw[j].index = i
    BY <1>1 DEF IInv, RawComplete
  <2>2. raw[j] \in HostResult
    BY <2>1, ElementOfSeq DEF IInv, TypeOK
  <2> QED
    BY <2>1, <2>2, AnswerOf, FanoutAssumption DEF HostResult
<1>3. answer' = answer
  BY DEF Aggregate, answer
<1>4. CASE n = 0
  BY <1>2, <1>3, <1>4
     DEF Aggregate, Promise!Return, Promise!n, n, Promise!OutcomeOf, AllOk, Promise!AllOk,
         Pending, Promise!Pending
<1>5. CASE n # 0
  <2>1. DOMAIN s = 1..n
    BY <1>1, <1>5, CapNat, SortPlaces
  <2>2. [i \in DOMAIN s |-> <<s[i].host, s[i].result>>] = [i \in 1..n |-> <<Hosts[i], answer[i]>>]
    BY <1>1, <2>1, SortPlaces
  <2>3. /\ Partition(s, Values) = Promise!Listed(answer, Values)
        /\ Partition(s, Errors) = Promise!Listed(answer, Errors)
    BY <2>2 DEF Partition, Promise!Listed, Promise!n, n
  <2>4. Classify(Partition(s, Values), Partition(s, Errors)) = Promise!OutcomeOf(answer)
    BY <1>5, <2>3
       DEF Classify, Promise!OutcomeOf, Promise!n, n, AllOk, PartialSuccess, AllFailed,
           Promise!AllOk, Promise!PartialSuccess, Promise!AllFailed
  <2>5. outcome' = Promise!OutcomeOf(answer) /\ outcome = Pending
    BY <1>5, <2>4 DEF Aggregate
  <2> QED
    BY <1>2, <1>3, <2>5 DEF Promise!Return, Promise!n, n, Pending, Promise!Pending
<1> QED
  BY <1>4, <1>5

\* Every step of the fanout is a step of the promise, or changes nothing of it.
LEMMA PromiseStep == IInv /\ [Next]_vars => [Promise!Next]_(Promise!specVars)
<1> SUFFICES ASSUME IInv, [Next]_vars PROVE [Promise!Next]_(Promise!specVars)
  OBVIOUS
<1>1. ASSUME NEW i \in 1..n, Start(i) PROVE UNCHANGED Promise!specVars
  BY <1>1 DEF Start, Promise!specVars, answer
<1>2. ASSUME NEW i \in 1..n, Finish(i) PROVE Promise!Next
  BY <1>2, FinishIsReply DEF Promise!Next, Promise!n, n
<1>3. CASE Aggregate
  BY <1>3, AggregateIsReturn DEF Promise!Next
<1>4. CASE UNCHANGED vars
  BY <1>4 DEF vars, Promise!specVars, answer
<1> QED
  BY <1>1, <1>2, <1>3, <1>4 DEF Next

\* The fanout implements its promise: replies are neither lost nor doubled nor
\* mixed up, and the outcome is that of the hosts' replies in the hosts' order,
\* for every list of hosts, every interleaving and every cap.
THEOREM Refinement == Spec => KeepsPromise
<1>1. Spec => Promise!Init /\ [][Promise!Next]_(Promise!specVars)
  BY PromiseInit, PromiseStep, InvAlways, PTL DEF Spec
<1> QED
  BY <1>1 DEF KeepsPromise, Promise!Spec
=============================================================================
