--------------------------- MODULE HttpServerProofs ---------------------------
(***************************************************************************)
(* Proofs about HttpServer, for any number of requests and any limits.     *)
(***************************************************************************)
EXTENDS HttpServer, ListProofs, FiniteSetTheorems

\* Types of the variables.
TypeOK ==
    /\ policy \in Policies
    /\ limit \in Limits
    /\ stage \in [Requests -> {"idle", "received", "waiting", "served"}]
    /\ route \in [Requests -> Routes]
    /\ credential \in [Requests -> Credentials]
    /\ queue \in Seq(Requests)
    /\ permits \in Nat

\* With LimitHolds: the queue has nobody twice, so who leaves it is gone from it.
IInv == TypeOK /\ Once(queue) /\ LimitHolds

\* Only the API and MCP are limited, and they are behind the auth layer if any is.
LEMMA LimitedRoutes ==
    ASSUME NEW r \in Requests
    PROVE  /\ Contains(Layers(route[r]), "limit") <=> route[r] \in Limited
           /\ Passes(r, Layers(route[r])) /\ route[r] \in Limited /\ Mounted(policy)
                => credential[r] = "valid"
<1>1. CASE route[r] \in Limited
  <2> DEFINE S == {"auth", "limit"}
             auth == IF Mounted(policy) THEN <<"auth">> ELSE <<>>
  <2>1. /\ auth \in Seq(S) /\ <<"limit">> \in Seq(S) /\ Len(<<"limit">>) = 1
        /\ Len(auth) = IF Mounted(policy) THEN 1 ELSE 0
        /\ Mounted(policy) => auth[1] = "auth"
    <3>1. CASE Mounted(policy)
      BY <3>1
    <3>2. CASE ~Mounted(policy)
      BY <3>2
    <3> QED
      BY <3>1, <3>2
  <2> DEFINE l == <<"limit">>
  <2>2. l[1] = "limit" /\ Layers(route[r]) = auth \o l
    BY <1>1 DEF Layers, Limited
  <2> HIDE DEF auth, l
  <2>3. /\ auth \o l \in Seq(S) /\ Len(auth \o l) = Len(auth) + 1
        /\ (auth \o l)[Len(auth) + 1] = "limit"
        /\ Mounted(policy) => (auth \o l)[1] = "auth"
    <3>1. auth \in Seq(S) /\ l \in Seq(S) /\ Len(l) = 1
      BY <2>1 DEF l
    <3>2. /\ auth \o l \in Seq(S) /\ Len(auth \o l) = Len(auth) + Len(l)
          /\ \A i \in 1..(Len(auth) + Len(l)) :
                (auth \o l)[i] = IF i <= Len(auth) THEN auth[i] ELSE l[i - Len(auth)]
      BY <3>1, ConcatProperties
    <3> QED
      BY <2>1, <2>2, <3>1, <3>2
  <2>4. Contains(Layers(route[r]), "limit")
    BY <2>1, <2>2, <2>3 DEF Contains
  <2>5. Mounted(policy) => Contains(Layers(route[r]), "auth")
    BY <2>1, <2>2, <2>3 DEF Contains
  <2> QED
    BY <1>1, <2>4, <2>5 DEF Passes
<1>2. CASE route[r] \notin Limited
  <2>1. Layers(route[r]) \in {<<"auth">>, <<>>}
    BY <1>2 DEF Layers, Limited
  <2> QED
    BY <1>2, <2>1 DEF Contains
<1> QED
  BY <1>1, <1>2

\* There is at least one permit, whatever the limit.
LEMMA PermitsPositive == ASSUME NEW n \in Limits PROVE Permits(n) \in Nat \ {0}
BY LimitsAssumption DEF Permits

\* A request more, or one fewer, that is served counts as one.
LEMMA ServedChanges ==
    ASSUME NEW r \in Requests
    PROVE  /\ IsFiniteSet(Served) /\ Cardinality(Served) \in Nat
           /\ r \notin Served => Cardinality(Served \cup {r}) = Cardinality(Served) + 1
           /\ r \in Served => Cardinality(Served \ {r}) = Cardinality(Served) - 1
<1>1. IsFiniteSet(Served) /\ Cardinality(Served) \in Nat
  BY RequestsAssumption, FS_Subset, FS_CardinalityType DEF Served
<1> QED
  BY <1>1, FS_AddElement, FS_RemoveElement

\* The invariant holds at the start.
LEMMA InitInv == Init => IInv
<1> SUFFICES ASSUME Init PROVE IInv
  OBVIOUS
<1>1. Served = {} /\ {r \in Requests : stage[r] = "waiting"} = {}
  BY DEF Init, Served
<1>2. queue = <<>> /\ ToSet(queue) = {} /\ Once(queue) /\ queue \in Seq(Requests)
  BY DEF Init, ToSet, Once
<1>3. Cardinality(Served) = 0
  BY <1>1, FS_EmptySet
<1>4. permits = Permits(limit) /\ permits \in Nat
  BY PermitsPositive DEF Init
<1>5. TypeOK
  BY <1>2, <1>4 DEF Init, TypeOK, Routes, Credentials
<1>6. LimitHolds
  <2>1. limit > 0 => Cardinality(Served) <= limit
    BY <1>3, LimitsAssumption DEF Init
  <2> QED
    BY <1>1, <1>2, <1>3, <1>4, <2>1 DEF LimitHolds
<1> QED
  BY <1>2, <1>5, <1>6 DEF IInv

\* What a request that gives up its permit leaves behind.
LEMMA ReleaseStep ==
    ASSUME IInv, NEW r \in Requests, stage[r] = "served",
           Release(Done(r)), Forget(r), UNCHANGED config
    PROVE  IInv'
<1> USE DEF IInv
<1>0. /\ stage \in [Requests -> {"idle", "received", "waiting", "served"}]
      /\ queue \in Seq(Requests) /\ permits \in Nat /\ limit \in Limits /\ limit \in Nat
      /\ r \in Served
  BY LimitsAssumption DEF TypeOK, Served
<1>1. Permits(limit') = Permits(limit) /\ policy' = policy /\ limit' = limit
  BY DEF config
<1>2. route' = [route EXCEPT ![r] = "/health"] /\ credential' = [credential EXCEPT ![r] = "none"]
  BY DEF Forget
<1>3. CASE queue = <<>>
  <2>1. /\ permits' = permits + 1 /\ queue' = queue
        /\ stage' = [stage EXCEPT ![r] = "idle"]
    BY <1>3 DEF Release, Done
  <2>2. Served' = Served \ {r} /\ {q \in Requests : stage'[q] = "waiting"} = {q \in Requests : stage[q] = "waiting"}
    BY <1>0, <2>1 DEF Served
  <2>3. Cardinality(Served') = Cardinality(Served) - 1
    BY <1>0, <2>2, ServedChanges
  <2>4. TypeOK'
    BY <1>0, <1>1, <1>2, <2>1 DEF TypeOK, Routes, Credentials
  <2>5. /\ permits' + Cardinality(Served') = Permits(limit')
        /\ limit' > 0 => Cardinality(Served') <= limit'
    <3>1. Cardinality(Served) \in Nat /\ permits + Cardinality(Served) = Permits(limit)
      BY ServedChanges DEF LimitHolds
    <3>2. limit > 0 => Cardinality(Served) <= limit
      BY DEF LimitHolds
    <3> QED
      BY <1>0, <1>1, <2>1, <2>3, <3>1, <3>2
  <2>6. \A q \in Served' \cup ToSet(queue') :
            route'[q] \in Limited /\ (Mounted(policy') => credential'[q] = "valid")
    <3>1. r \notin ToSet(queue)
      BY <1>0 DEF LimitHolds, Served
    <3> QED
      BY <1>1, <1>2, <2>1, <2>2, <3>1 DEF LimitHolds, TypeOK, Served
  <2> QED
    BY <1>3, <2>1, <2>2, <2>4, <2>5, <2>6 DEF LimitHolds, Once
<1>4. CASE queue # <<>>
  <2> DEFINE u == Head(queue)
  <2>0. /\ u \in Requests /\ stage[u] = "waiting" /\ u # r /\ permits = 0
        /\ Tail(queue) \in Seq(Requests) /\ Once(Tail(queue))
        /\ ToSet(Tail(queue)) = ToSet(queue) \ {u} /\ u \in ToSet(queue)
    BY <1>0, <1>4, TailOnce, HeadTailProperties DEF LimitHolds, Served
  <2>1. /\ permits' = permits /\ queue' = Tail(queue)
        /\ stage' = [stage EXCEPT ![r] = "idle", ![u] = "served"]
    BY <1>4, <2>0 DEF Release, Done
  <2> HIDE DEF u
  <2>2. /\ Served' = (Served \ {r}) \cup {u} /\ u \notin Served
        /\ {q \in Requests : stage'[q] = "waiting"} = {q \in Requests : stage[q] = "waiting"} \ {u}
    BY <1>0, <2>0, <2>1 DEF Served
  <2>3. Cardinality(Served') = Cardinality(Served)
    <3>1. IsFiniteSet(Served \ {r}) /\ Cardinality(Served \ {r}) = Cardinality(Served) - 1
      BY <1>0, ServedChanges, FS_RemoveElement
    <3>2. Cardinality((Served \ {r}) \cup {u}) = Cardinality(Served \ {r}) + 1
      BY <3>1, <2>2, FS_AddElement
    <3> QED
      BY <2>2, <3>1, <3>2, <1>0, ServedChanges
  <2>4. TypeOK'
    BY <1>0, <1>1, <1>2, <2>0, <2>1 DEF TypeOK, Routes, Credentials
  <2>5. /\ permits' + Cardinality(Served') = Permits(limit')
        /\ limit' > 0 => Cardinality(Served') <= limit'
    BY <1>0, <1>1, <2>1, <2>3 DEF LimitHolds
  <2>6. \A q \in Served' \cup ToSet(queue') :
            route'[q] \in Limited /\ (Mounted(policy') => credential'[q] = "valid")
    <3>1. r \notin ToSet(queue)
      BY <1>0 DEF LimitHolds, Served
    <3>2. Served' \cup ToSet(queue') \subseteq (Served \cup ToSet(queue)) \ {r}
      BY <2>0, <2>1, <2>2, <3>1
    <3>3. Served \subseteq Requests /\ ToSet(queue) \subseteq Requests
      BY DEF Served, LimitHolds
    <3>4. \A q \in Served' \cup ToSet(queue') : route'[q] = route[q] /\ credential'[q] = credential[q]
      BY <1>2, <3>2, <3>3 DEF TypeOK
    <3> QED
      BY <1>1, <3>2, <3>4 DEF LimitHolds
  <2>7. {q \in Requests : stage'[q] = "waiting"} = ToSet(queue')
    BY <2>0, <2>1, <2>2 DEF LimitHolds
  <2>8. queue' # <<>> => permits' = 0
    BY <2>0, <2>1
  <2> QED
    BY <2>0, <2>1, <2>4, <2>5, <2>6, <2>7, <2>8 DEF LimitHolds, Once
<1> QED
  BY <1>3, <1>4

\* Every step keeps it.
LEMMA StepInv == IInv /\ [Next]_vars => IInv'
<1> SUFFICES ASSUME IInv, [Next]_vars PROVE IInv'
  OBVIOUS
<1>0. /\ stage \in [Requests -> {"idle", "received", "waiting", "served"}]
      /\ queue \in Seq(Requests) /\ permits \in Nat /\ limit \in Limits /\ limit \in Nat
      /\ Once(queue) /\ TypeOK /\ LimitHolds
  BY LimitsAssumption DEF TypeOK, IInv
<1>1. ASSUME NEW r \in Requests, Receive(r) PROVE IInv'
  <2>1. Served' = Served /\ {q \in Requests : stage'[q] = "waiting"} = {q \in Requests : stage[q] = "waiting"}
    BY <1>0, <1>1 DEF Receive, Served
  <2>2. TypeOK' /\ queue' = queue /\ permits' = permits /\ limit' = limit /\ policy' = policy
    BY <1>0, <1>1 DEF Receive, TypeOK, config
  <2>3. \A q \in Served \cup ToSet(queue) : route'[q] = route[q] /\ credential'[q] = credential[q]
    BY <1>0, <1>1 DEF Receive, LimitHolds, Served, TypeOK
  <2>4. LimitHolds'
    BY <1>0, <2>1, <2>2, <2>3 DEF LimitHolds
  <2> QED
    BY <1>0, <2>2, <2>4 DEF IInv, Once
<1>2. ASSUME NEW r \in Requests, AnswerAtOnce(r) PROVE IInv'
  <2>1. Served' = Served /\ {q \in Requests : stage'[q] = "waiting"} = {q \in Requests : stage[q] = "waiting"}
    BY <1>0, <1>2 DEF AnswerAtOnce, Served, Done
  <2>2. TypeOK' /\ queue' = queue /\ permits' = permits /\ limit' = limit /\ policy' = policy
    BY <1>0, <1>2 DEF AnswerAtOnce, TypeOK, config, Done, Forget, Routes, Credentials
  <2>3. \A q \in Served \cup ToSet(queue) : route'[q] = route[q] /\ credential'[q] = credential[q]
    BY <1>0, <1>2 DEF AnswerAtOnce, LimitHolds, Served, TypeOK, Forget
  <2>4. LimitHolds'
    BY <1>0, <2>1, <2>2, <2>3 DEF LimitHolds
  <2> QED
    BY <1>0, <2>2, <2>4 DEF IInv, Once
<1>3. ASSUME NEW r \in Requests, Acquire(r) PROVE IInv'
  <2>0. /\ stage[r] = "received" /\ r \notin Served /\ r \notin ToSet(queue)
        /\ route[r] \in Limited /\ (Mounted(policy) => credential[r] = "valid")
        /\ limit' = limit /\ policy' = policy /\ route' = route /\ credential' = credential
    BY <1>0, <1>3, LimitedRoutes DEF Acquire, Served, LimitHolds, config
  <2>1. CASE permits > 0
    <3>1. permits' = permits - 1 /\ stage' = [stage EXCEPT ![r] = "served"] /\ queue' = queue
      BY <1>3, <2>1 DEF Acquire
    <3>2. Served' = Served \cup {r} /\ {q \in Requests : stage'[q] = "waiting"} = {q \in Requests : stage[q] = "waiting"}
      BY <1>0, <2>0, <3>1 DEF Served
    <3>3. Cardinality(Served') = Cardinality(Served) + 1
      BY <2>0, <3>2, ServedChanges
    <3>4. TypeOK' /\ permits' \in Nat
      BY <1>0, <2>0, <2>1, <3>1 DEF TypeOK
    <3>5. permits' + Cardinality(Served') = Permits(limit')
      <4>1. Cardinality(Served) \in Nat /\ permits + Cardinality(Served) = Permits(limit)
        BY <1>0, ServedChanges DEF LimitHolds
      <4> QED
        BY <1>0, <2>0, <2>1, <3>1, <3>3, <4>1
    <3>6. limit' > 0 => Cardinality(Served') <= limit'
      <4>1. Cardinality(Served) \in Nat
        BY ServedChanges
      <4>2. limit > 0 => Permits(limit') = limit
        BY <1>0, <2>0 DEF Permits
      <4> QED
        BY <1>0, <2>0, <3>3, <3>4, <3>5, <4>1, <4>2
    <3>7. LimitHolds'
      BY <1>0, <2>0, <2>1, <3>1, <3>2, <3>5, <3>6 DEF LimitHolds
    <3> QED
      BY <1>0, <3>1, <3>4, <3>7 DEF IInv, Once
  <2>2. CASE ~(permits > 0)
    <3>1. permits' = permits /\ stage' = [stage EXCEPT ![r] = "waiting"] /\ queue' = Append(queue, r)
      BY <1>3, <2>2 DEF Acquire
    <3>2. /\ Append(queue, r) \in Seq(Requests) /\ Once(Append(queue, r))
          /\ ToSet(Append(queue, r)) = ToSet(queue) \cup {r}
      BY <1>0, <2>0, AppendOnce
    <3>3. Served' = Served /\ {q \in Requests : stage'[q] = "waiting"} = {q \in Requests : stage[q] = "waiting"} \cup {r}
      BY <1>0, <2>0, <3>1 DEF Served
    <3>4. TypeOK'
      BY <1>0, <2>0, <3>1, <3>2 DEF TypeOK
    <3>5. LimitHolds'
      BY <1>0, <2>0, <2>2, <3>1, <3>2, <3>3 DEF LimitHolds
    <3> QED
      BY <3>1, <3>2, <3>4, <3>5 DEF IInv, Once
  <2> QED
    BY <2>1, <2>2
<1>4. ASSUME NEW r \in Requests, Respond(r) PROVE IInv'
  BY <1>4, ReleaseStep DEF Respond
<1>5. ASSUME NEW r \in Requests, Disconnect(r) PROVE IInv'
  <2>1. CASE stage[r] = "served"
    BY <1>5, <2>1, ReleaseStep DEF Disconnect
  <2>2. CASE stage[r] # "served"
    <3>1. /\ stage[r] = "waiting" /\ permits' = permits /\ queue' = Without(queue, r)
          /\ stage' = [stage EXCEPT ![r] = "idle"] /\ limit' = limit /\ policy' = policy
          /\ route' = [route EXCEPT ![r] = "/health"]
          /\ credential' = [credential EXCEPT ![r] = "none"]
      BY <1>5, <2>2 DEF Disconnect, Done, Forget, config
    <3>2. /\ Without(queue, r) \in Seq(Requests) /\ Once(Without(queue, r))
          /\ ToSet(Without(queue, r)) = ToSet(queue) \ {r}
      BY <1>0, WithoutType, WithoutOnce
    <3>3. /\ Served' = Served /\ r \notin Served /\ r \in ToSet(queue)
          /\ {q \in Requests : stage'[q] = "waiting"} = {q \in Requests : stage[q] = "waiting"} \ {r}
      BY <1>0, <3>1 DEF Served, LimitHolds
    <3>4. TypeOK'
      BY <1>0, <3>1, <3>2 DEF TypeOK, Routes, Credentials
    <3>5. queue # <<>> /\ permits = 0
      BY <1>0, <3>3 DEF LimitHolds, ToSet
    <3>6. \A q \in Served' \cup ToSet(queue') :
              route'[q] \in Limited /\ (Mounted(policy') => credential'[q] = "valid")
      BY <1>0, <3>1, <3>2, <3>3 DEF LimitHolds, TypeOK, Served
    <3>7. LimitHolds'
      BY <1>0, <3>1, <3>2, <3>3, <3>5, <3>6 DEF LimitHolds
    <3> QED
      BY <3>1, <3>2, <3>4, <3>7 DEF IInv, Once
  <2> QED
    BY <2>1, <2>2
<1>6. CASE UNCHANGED vars
  BY <1>0, <1>6 DEF vars, config, IInv, TypeOK, LimitHolds, Served, Once
<1> QED
  BY <1>1, <1>2, <1>3, <1>4, <1>5, <1>6 DEF Next

\* Whatever requests come and go, with whatever limit: no more are served than it
\* allows, nobody waits beside a free permit, and nobody who is turned away holds a
\* permit or a place in the queue.
THEOREM LimitIsKept == Spec => []LimitHolds
<1>1. Spec => []IInv
  BY InitInv, StepInv, PTL DEF Spec
<1>2. IInv => LimitHolds
  BY DEF IInv
<1> QED
  BY <1>1, <1>2, PTL
=============================================================================
