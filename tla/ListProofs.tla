----------------------------- MODULE ListProofs ------------------------------
(***************************************************************************)
(* What leaving a queue leaves (Queues): a queue, of the others, in their  *)
(* order; and what is kept of a list (Lists).                              *)
(***************************************************************************)
EXTENDS Queues, Lists, SequenceTheorems, WellFoundedInduction, TLAPS

\* Leaving a queue leaves a queue.
LEMMA WithoutType ==
    ASSUME NEW S, NEW q \in Seq(S), NEW t
    PROVE  Without(q, t) \in Seq(S)
<1>1. CASE \E i \in DOMAIN q : q[i] = t
  <2> DEFINE i == CHOOSE i \in DOMAIN q : q[i] = t
  <2>1. i \in 1..Len(q)
    BY <1>1
  <2> HIDE DEF i
  <2>2. \A j \in 1..Len(q) : q[j] \in S
    OBVIOUS
  <2>3. SubSeq(q, 1, i - 1) \in Seq(S)
    BY <2>1, <2>2, SubSeqProperties
  <2>4. SubSeq(q, i + 1, Len(q)) \in Seq(S)
    BY <2>1, <2>2, SubSeqProperties
  <2>5. Without(q, t) = SubSeq(q, 1, i - 1) \o SubSeq(q, i + 1, Len(q))
    BY <1>1 DEF Without, RemoveAt, i
  <2> QED
    BY <2>3, <2>4, <2>5
<1>2. CASE ~ \E i \in DOMAIN q : q[i] = t
  BY <1>2 DEF Without
<1> QED
  BY <1>1, <1>2

\* The head of a queue stays when somebody else leaves.
LEMMA WithoutHead ==
    ASSUME NEW S, NEW q \in Seq(S), NEW t, q # <<>>, Head(q) # t
    PROVE  Without(q, t) # <<>> /\ Head(Without(q, t)) = Head(q)
<1>1. CASE \E i \in DOMAIN q : q[i] = t
  <2> DEFINE i == CHOOSE i \in DOMAIN q : q[i] = t
             l == SubSeq(q, 1, i - 1)
             r == SubSeq(q, i + 1, Len(q))
  <2>1. i \in 1..Len(q) /\ q[i] = t
    BY <1>1
  <2>2. i > 1
    BY <2>1
  <2> HIDE DEF i
  <2>3. \A j \in 1..Len(q) : q[j] \in S
    OBVIOUS
  <2>4. l \in Seq(S) /\ Len(l) = i - 1 /\ l[1] = q[1]
    BY <2>1, <2>2, <2>3, SubSeqProperties
  <2>5. r \in Seq(S)
    BY <2>1, <2>3, SubSeqProperties
  <2>6. Without(q, t) = l \o r
    BY <1>1 DEF Without, RemoveAt, i
  <2> HIDE DEF l, r
  <2>7. l \o r \in Seq(S) /\ Len(l \o r) > 0 /\ (l \o r)[1] = q[1]
    BY <2>1, <2>2, <2>4, <2>5
  <2> QED
    BY <2>6, <2>7
<1>2. CASE ~ \E i \in DOMAIN q : q[i] = t
  BY <1>2 DEF Without
<1> QED
  BY <1>1, <1>2

-----------------------------------------------------------------------------
\* Nobody is queued twice.
Once(q) == \A i, j \in DOMAIN q : q[i] = q[j] => i = j

\* Who leaves a queue is no longer in it, and everybody else still is, once.
LEMMA WithoutOnce ==
    ASSUME NEW S, NEW q \in Seq(S), Once(q), NEW t
    PROVE  Once(Without(q, t)) /\ ToSet(Without(q, t)) = ToSet(q) \ {t}
<1>1. CASE \E i \in DOMAIN q : q[i] = t
  <2> DEFINE i == CHOOSE i \in DOMAIN q : q[i] = t
             l == SubSeq(q, 1, i - 1)
             r == SubSeq(q, i + 1, Len(q))
             w == l \o r
  <2>1. i \in 1..Len(q) /\ q[i] = t
    BY <1>1
  <2> HIDE DEF i
  <2>2. \A j \in 1..Len(q) : q[j] \in S
    OBVIOUS
  <2>3. /\ l \in Seq(S) /\ Len(l) = i - 1
        /\ \A j \in 1..(i - 1) : l[j] = q[j]
    BY <2>1, <2>2, SubSeqProperties
  <2>4. /\ r \in Seq(S) /\ Len(r) = Len(q) - i
        /\ \A j \in 1..(Len(q) - i) : r[j] = q[i + j]
    BY <2>1, <2>2, SubSeqProperties
  <2>5. Without(q, t) = w
    BY <1>1 DEF Without, RemoveAt, i
  <2> HIDE DEF l, r
  <2>6. /\ w \in Seq(S) /\ Len(w) = Len(q) - 1
        /\ \A j \in 1..(Len(q) - 1) : w[j] = IF j < i THEN q[j] ELSE q[j + 1]
    <3>1. /\ w \in Seq(S) /\ Len(w) = Len(l) + Len(r)
          /\ \A j \in 1..(Len(l) + Len(r)) :
                w[j] = IF j <= Len(l) THEN l[j] ELSE r[j - Len(l)]
      BY <2>3, <2>4, ConcatProperties
    <3> HIDE DEF w
    <3>2. Len(w) = Len(q) - 1
      BY <2>1, <2>3, <2>4, <3>1
    <3>3. ASSUME NEW j \in 1..(Len(q) - 1), j < i PROVE w[j] = q[j]
      BY <2>1, <2>3, <2>4, <3>1, <3>3
    <3>4. ASSUME NEW j \in 1..(Len(q) - 1), ~(j < i) PROVE w[j] = q[j + 1]
      <4>1. j - (i - 1) \in 1..(Len(q) - i) /\ ~(j <= i - 1)
        BY <2>1, <3>4
      <4>2. w[j] = r[j - Len(l)]
        <5>1. j \in 1..(Len(l) + Len(r)) /\ ~(j <= Len(l))
          BY <2>1, <2>3, <2>4, <4>1
        <5> QED
          BY <3>1, <5>1
      <4>3. r[j - (i - 1)] = q[i + (j - (i - 1))]
        BY <2>4, <4>1
      <4> QED
        BY <2>1, <2>3, <4>2, <4>3
    <3> QED
      BY <3>1, <3>2, <3>3, <3>4
  <2> HIDE DEF w
  <2>7. Once(w)
    <3> SUFFICES ASSUME NEW j \in 1..(Len(q) - 1), NEW k \in 1..(Len(q) - 1), w[j] = w[k]
                 PROVE  j = k
      BY <2>6 DEF Once
    <3> DEFINE f(n) == IF n < i THEN n ELSE n + 1
    <3>1. f(j) \in 1..Len(q) /\ f(k) \in 1..Len(q) /\ q[f(j)] = q[f(k)]
      BY <2>1, <2>6
    <3>2. f(j) = f(k)
      BY <3>1 DEF Once
    <3> QED
      BY <2>1, <3>2
  <2>8. ToSet(w) = ToSet(q) \ {t}
    <3>1. ASSUME NEW x \in ToSet(w) PROVE x \in ToSet(q) \ {t}
      BY <2>1, <2>6 DEF Once, ToSet
    <3>2. ASSUME NEW x \in ToSet(q) \ {t} PROVE x \in ToSet(w)
      <4>1. PICK j \in 1..Len(q) : q[j] = x
        BY <3>2 DEF ToSet
      <4>2. CASE j < i
        BY <2>1, <2>6, <4>1, <4>2 DEF ToSet
      <4>3. CASE j > i
        <5>1. j - 1 \in 1..(Len(q) - 1) /\ w[j - 1] = q[j]
          BY <2>1, <2>6, <4>1, <4>3
        <5> QED
          BY <2>6, <4>1, <5>1 DEF ToSet
      <4> QED
        BY <2>1, <3>2, <4>1, <4>2, <4>3
    <3> QED
      BY <3>1, <3>2
  <2> QED
    BY <2>5, <2>7, <2>8
<1>2. CASE ~ \E i \in DOMAIN q : q[i] = t
  BY <1>2 DEF Without, ToSet
<1> QED
  BY <1>1, <1>2

\* Who joins a queue is in it once, if they were not in it before.
LEMMA AppendOnce ==
    ASSUME NEW S, NEW q \in Seq(S), Once(q), NEW t \in S, t \notin ToSet(q)
    PROVE  /\ Append(q, t) \in Seq(S) /\ Once(Append(q, t))
           /\ ToSet(Append(q, t)) = ToSet(q) \cup {t}
           /\ Append(q, t) # <<>>
<1> DEFINE a == Append(q, t)
<1>1. /\ a \in Seq(S) /\ Len(a) = Len(q) + 1 /\ a # <<>>
      /\ \A i \in 1..Len(q) : a[i] = q[i]
      /\ a[Len(q) + 1] = t
  BY AppendProperties
<1> HIDE DEF a
<1>2. Once(a)
  BY <1>1 DEF Once, ToSet
<1>3. ToSet(a) = ToSet(q) \cup {t}
  BY <1>1 DEF ToSet
<1> QED
  BY <1>1, <1>2, <1>3 DEF a

\* The first leaves the rest.
LEMMA TailOnce ==
    ASSUME NEW S, NEW q \in Seq(S), Once(q), q # <<>>
    PROVE  /\ Tail(q) \in Seq(S) /\ Once(Tail(q))
           /\ ToSet(Tail(q)) = ToSet(q) \ {Head(q)}
           /\ Head(q) \in ToSet(q)
<1> DEFINE a == Tail(q)
<1>1. /\ a \in Seq(S) /\ Len(a) = Len(q) - 1 /\ Len(q) \in Nat /\ Len(q) > 0
      /\ \A i \in 1..Len(a) : a[i] = q[i + 1]
      /\ Head(q) = q[1]
  BY HeadTailProperties, EmptySeq
<1> HIDE DEF a
<1>2. Once(a)
  BY <1>1 DEF Once
<1>3. ASSUME NEW x \in ToSet(a) PROVE x \in ToSet(q) \ {Head(q)}
  BY <1>1 DEF Once, ToSet
<1>4. ASSUME NEW x \in ToSet(q) \ {Head(q)} PROVE x \in ToSet(a)
  <2>1. PICK j \in 1..Len(q) : q[j] = x
    BY DEF ToSet
  <2>2. j - 1 \in 1..Len(a) /\ a[j - 1] = x
    BY <1>1, <1>4, <2>1
  <2> QED
    BY <1>1, <2>2 DEF ToSet
<1>5. Head(q) \in ToSet(q)
  BY <1>1 DEF ToSet
<1>6. ToSet(a) = ToSet(q) \ {Head(q)}
  <2>1. Head(q) \notin ToSet(a)
    BY <1>3
  <2> QED
    BY <1>3, <1>4, <2>1
<1> QED
  BY <1>1, <1>2, <1>5, <1>6 DEF a

-----------------------------------------------------------------------------
(* The members of a list that are kept                                      *)

\* A nonempty set of natural numbers has a least one.
LEMMA LeastNat ==
    ASSUME NEW T \in SUBSET Nat, T # {}
    PROVE  \E x \in T : \A y \in T : x <= y
<1>1. \E x \in T : \A y \in T : ~(<<y, x>> \in OpToRel(<, Nat))
  BY NatLessThanWellFounded, WFMin
<1>2. PICK x \in T : \A y \in T : ~(<<y, x>> \in OpToRel(<, Nat))
  BY <1>1
<1>3. \A y \in T : ~(y < x)
  BY <1>2 DEF OpToRel
<1>4. ASSUME NEW y \in T PROVE x <= y
  <2>1. x \in Nat /\ y \in Nat /\ ~(y < x)
    BY <1>2, <1>3
  <2> QED
    BY <2>1
<1> QED
  BY <1>2, <1>4

\* One more position.
Upto(seq, positions, f, n) ==
    IF n = 0 THEN <<>>
    ELSE IF n \in positions THEN Append(f[n - 1], seq[n]) ELSE f[n - 1]

\* The function f goes over the sequence as MembersAt does.
GoesOver(f, seq, positions) == f = [n \in 0..Len(seq) |-> Upto(seq, positions, f, n)]

\* There is such a function.
LEMMA UptoExists ==
    ASSUME NEW S, NEW seq \in Seq(S), NEW positions
    PROVE  \E f \in [0..Len(seq) -> Seq(S)] : GoesOver(f, seq, positions)
<1> DEFINE Good(m) == \E f \in [0..m -> Seq(S)] : \A n \in 0..m : f[n] = Upto(seq, positions, f, n)
           T == {m \in 0..Len(seq) : ~Good(m)}
<1>0. Len(seq) \in Nat
  OBVIOUS
<1>1. CASE T = {}
  <2>1. Good(Len(seq))
    <3>1. Len(seq) \in 0..Len(seq)
      BY <1>0
    <3> HIDE DEF Good
    <3> QED
      BY <1>1, <3>1
  <2>2. PICK f \in [0..Len(seq) -> Seq(S)] : \A n \in 0..Len(seq) : f[n] = Upto(seq, positions, f, n)
    BY <2>1
  <2>3. f = [n \in 0..Len(seq) |-> f[n]]
    BY <2>2
  <2>4. [n \in 0..Len(seq) |-> f[n]] = [n \in 0..Len(seq) |-> Upto(seq, positions, f, n)]
    BY <2>2
  <2>5. GoesOver(f, seq, positions)
    BY <2>3, <2>4, Zenon DEF GoesOver
  <2> QED
    BY <2>2, <2>5
<1>2. CASE T # {}
  <2>1. PICK m \in T : \A k \in T : m <= k
    <3>1. T \in SUBSET Nat
      OBVIOUS
    <3> HIDE DEF T
    <3> QED
      BY <1>2, <3>1, LeastNat
  <2>2. m \in 0..Len(seq) /\ ~Good(m) /\ \A k \in 0..Len(seq) : k < m => Good(k)
    BY <1>0, <2>1
  <2>3. m # 0
    <3> DEFINE f == [n \in 0..0 |-> <<>>]
    <3>1. f \in [0..0 -> Seq(S)]
      OBVIOUS
    <3>2. \A n \in 0..0 : f[n] = Upto(seq, positions, f, n)
      BY DEF Upto
    <3>3. Good(0)
      <4> HIDE DEF f
      <4> QED
        BY <3>1, <3>2
    <3> QED
      BY <2>2, <3>3
  <2>4. Good(m - 1)
    <3>1. m - 1 \in 0..Len(seq) /\ m - 1 < m
      BY <1>0, <2>2, <2>3
    <3> HIDE DEF Good
    <3> QED
      BY <2>2, <3>1
  <2>5. PICK f \in [0..(m - 1) -> Seq(S)] : \A n \in 0..(m - 1) : f[n] = Upto(seq, positions, f, n)
    BY <2>4
  <2> DEFINE g == [n \in 0..m |-> IF n = m THEN Upto(seq, positions, f, m) ELSE f[n]]
  <2>6. f[m - 1] \in Seq(S) /\ seq[m] \in S
    BY <1>0, <2>2, <2>3, <2>5
  <2>7. Upto(seq, positions, f, m) \in Seq(S)
    BY <2>3, <2>6 DEF Upto
  <2>8. g \in [0..m -> Seq(S)]
    BY <1>0, <2>2, <2>3, <2>5, <2>7
  <2>9. ASSUME NEW n \in 0..m PROVE g[n] = Upto(seq, positions, g, n)
    <3>1. CASE n = 0
      <4>1. g[n] = f[n] /\ f[n] = Upto(seq, positions, f, n)
        BY <1>0, <2>2, <2>3, <2>5, <3>1
      <4> QED
        BY <3>1, <4>1 DEF Upto
    <3>2. CASE n # 0
      <4>1. g[n - 1] = f[n - 1]
        BY <1>0, <2>2, <2>3, <3>2
      <4>2. g[n] = Upto(seq, positions, f, n)
        BY <1>0, <2>2, <2>3, <2>5, <3>2
      <4> HIDE DEF g
      <4> QED
        BY <3>2, <4>1, <4>2 DEF Upto
    <3> QED
      BY <3>1, <3>2
  <2>10. Good(m)
    <3> HIDE DEF g
    <3> QED
      BY <2>8, <2>9
  <2> QED
    BY <2>2, <2>10
<1> QED
  BY <1>1, <1>2

\* The members kept are those at the given positions, each once, in their order:
\* `from` says where each of them was.
LEMMA MembersAtOrder ==
    ASSUME NEW S, NEW seq \in Seq(S), NEW positions
    PROVE  LET kept == MembersAt(seq, positions)
           IN  /\ kept \in Seq(S)
               /\ \E from \in [1..Len(kept) -> {j \in DOMAIN seq : j \in positions}] :
                     /\ \A i \in 1..Len(kept) : kept[i] = seq[from[i]]
                     /\ \A i, k \in 1..Len(kept) : i < k => from[i] < from[k]
                     /\ \A j \in DOMAIN seq : j \in positions => \E i \in 1..Len(kept) : from[i] = j
<1> DEFINE upTo[n \in 0..Len(seq)] ==
            IF n = 0 THEN <<>>
            ELSE IF n \in positions THEN Append(upTo[n - 1], seq[n]) ELSE upTo[n - 1]
<1>1. MembersAt(seq, positions) = upTo[Len(seq)]
  BY DEF MembersAt
<1>2. upTo = CHOOSE f : GoesOver(f, seq, positions)
  BY DEF Upto, GoesOver
<1> HIDE DEF upTo
<1>3. upTo = [n \in 0..Len(seq) |-> Upto(seq, positions, upTo, n)]
  <2>1. \E f : GoesOver(f, seq, positions)
    BY UptoExists
  <2>2. GoesOver(upTo, seq, positions)
    BY <1>2, <2>1
  <2> QED
    BY <2>2 DEF GoesOver
<1>4. Len(seq) \in Nat /\ DOMAIN seq = 1..Len(seq)
  OBVIOUS
<1> DEFINE Keeps(n, from) ==
              /\ \A i \in 1..Len(upTo[n]) : upTo[n][i] = seq[from[i]]
              /\ \A i, k \in 1..Len(upTo[n]) : i < k => from[i] < from[k]
              /\ \A j \in 1..n : j \in positions => \E i \in 1..Len(upTo[n]) : from[i] = j
           Good(n) ==
              /\ upTo[n] \in Seq(S)
              /\ \E from \in [1..Len(upTo[n]) -> {j \in 1..n : j \in positions}] : Keeps(n, from)
           T == {n \in 0..Len(seq) : ~Good(n)}
<1>5. Good(0)
  <2>1. upTo[0] = <<>> /\ Len(<<>>) = 0
    BY <1>3, <1>4 DEF Upto
  <2> DEFINE none == [i \in 1..0 |-> 0]
  <2>2. none \in [1..Len(upTo[0]) -> {j \in 1..0 : j \in positions}]
    <3>1. 1..Len(upTo[0]) = 1..0 /\ \A i \in 1..0 : FALSE
      BY <2>1
    <3> QED
      BY <3>1
  <2>3. Keeps(0, none)
    BY <2>1
  <2> HIDE DEF none, Keeps
  <2>4. upTo[0] \in Seq(S)
    BY <2>1
  <2> QED
    BY <2>2, <2>3, <2>4
<1>6. ASSUME NEW n \in 1..Len(seq), Good(n - 1) PROVE Good(n)
  <2>1. upTo[n] = IF n \in positions THEN Append(upTo[n - 1], seq[n]) ELSE upTo[n - 1]
    <3>1. n \in 0..Len(seq) /\ n # 0
      BY <1>4
    <3>2. \A k \in 0..Len(seq) : upTo[k] = Upto(seq, positions, upTo, k)
      BY <1>3
    <3>3. upTo[n] = Upto(seq, positions, upTo, n)
      BY <3>1, <3>2
    <3> QED
      BY <3>1, <3>3 DEF Upto
  <2> DEFINE u == upTo[n - 1]
             v == upTo[n]
  <2>2. PICK from \in [1..Len(u) -> {j \in 1..(n - 1) : j \in positions}] :
           /\ \A i \in 1..Len(u) : u[i] = seq[from[i]]
           /\ \A i, k \in 1..Len(u) : i < k => from[i] < from[k]
           /\ \A j \in 1..(n - 1) : j \in positions => \E i \in 1..Len(u) : from[i] = j
    BY <1>6
  <2>3. \A j : j \in 1..n <=> j \in 1..(n - 1) \/ j = n
    BY <1>4
  <2>4. u \in Seq(S) /\ v = IF n \in positions THEN Append(u, seq[n]) ELSE u
    BY <1>6, <2>1
  <2>5. \A i \in 1..Len(u) : from[i] \in 1..(n - 1) /\ from[i] \in positions /\ from[i] < n
    BY <2>2
  <2> HIDE DEF u, v
  <2>6. CASE n \in positions
    <3> DEFINE to == [i \in 1..Len(v) |-> IF i = Len(v) THEN n ELSE from[i]]
    <3>1. v = Append(u, seq[n]) /\ seq[n] \in S
      BY <1>4, <2>4, <2>6
    <3>2. /\ v \in Seq(S) /\ Len(u) \in Nat /\ Len(v) = Len(u) + 1 /\ v[Len(u) + 1] = seq[n]
          /\ \A i \in 1..Len(u) : v[i] = u[i]
      BY <2>4, <3>1
    <3>3. \A i \in 1..Len(v) : i = Len(v) \/ (i \in 1..Len(u) /\ i # Len(v))
      BY <2>4, <3>2
    <3>4. /\ Len(v) \in 1..Len(v) /\ to[Len(v)] = n
          /\ \A i \in 1..Len(u) : i \in 1..Len(v) /\ i < Len(v) /\ to[i] = from[i]
      BY <3>2
    <3>5. to \in [1..Len(v) -> {j \in 1..n : j \in positions}]
      BY <2>3, <2>5, <2>6, <3>3
    <3> HIDE DEF to
    <3>6. \A i \in 1..Len(v) : v[i] = seq[to[i]]
      BY <2>2, <3>2, <3>3, <3>4
    <3>7. ASSUME NEW i \in 1..Len(v), NEW k \in 1..Len(v), i < k PROVE to[i] < to[k]
      <4>1. i \in 1..Len(u)
        BY <3>2, <3>7
      <4>2. CASE k = Len(v)
        BY <2>5, <3>4, <4>1, <4>2
      <4>3. CASE k \in 1..Len(u)
        BY <2>2, <3>4, <3>7, <4>1, <4>3
      <4> QED
        BY <3>3, <4>2, <4>3
    <3>8. ASSUME NEW j \in 1..n, j \in positions PROVE \E i \in 1..Len(v) : to[i] = j
      <4>1. CASE j = n
        BY <3>4, <4>1
      <4>2. CASE j \in 1..(n - 1)
        <5>1. PICK i \in 1..Len(u) : from[i] = j
          BY <2>2, <3>8, <4>2
        <5> QED
          BY <3>4, <5>1
      <4> QED
        BY <2>3, <4>1, <4>2
    <3> QED
      BY <3>2, <3>5, <3>6, <3>7, <3>8 DEF v
  <2>7. CASE n \notin positions
    <3>1. v = u
      BY <2>4, <2>7
    <3>2. from \in [1..Len(v) -> {j \in 1..n : j \in positions}]
      BY <2>2, <2>3, <2>5, <3>1
    <3>3. \A j \in 1..n : j \in positions => \E i \in 1..Len(v) : from[i] = j
      BY <2>2, <2>3, <2>7, <3>1
    <3> QED
      BY <2>2, <2>4, <3>1, <3>2, <3>3 DEF v
  <2> QED
    BY <2>6, <2>7
<1> HIDE DEF Good
<1>7. T = {}
  <2> SUFFICES ASSUME T # {} PROVE FALSE
    OBVIOUS
  <2>1. PICK m \in T : \A k \in T : m <= k
    <3>1. T \in SUBSET Nat
      OBVIOUS
    <3> HIDE DEF T
    <3> QED
      BY <3>1, LeastNat
  <2>2. m \in 0..Len(seq) /\ ~Good(m) /\ m # 0
    BY <1>5, <2>1
  <2>3. m \in 1..Len(seq) /\ m - 1 \in 0..Len(seq) /\ m - 1 < m
    BY <1>4, <2>2
  <2>4. Good(m - 1)
    BY <1>4, <2>1, <2>3
  <2> QED
    BY <1>6, <2>2, <2>3, <2>4
<1>8. Good(Len(seq))
  <2>1. Len(seq) \in 0..Len(seq)
    BY <1>4
  <2> QED
    BY <1>7, <2>1
<1>9. PICK from \in [1..Len(upTo[Len(seq)]) -> {j \in 1..Len(seq) : j \in positions}] :
         Keeps(Len(seq), from)
  BY <1>8 DEF Good
<1>10. upTo[Len(seq)] \in Seq(S)
  BY <1>8 DEF Good
<1>11. from \in [1..Len(upTo[Len(seq)]) -> {j \in DOMAIN seq : j \in positions}]
  BY <1>4, <1>9
<1>12. \A j \in DOMAIN seq : j \in positions => \E i \in 1..Len(upTo[Len(seq)]) : from[i] = j
  BY <1>4, <1>9
<1> QED
  BY <1>1, <1>9, <1>10, <1>11, <1>12

\* So every member of the list kept was in the list at one of the positions, and
\* what was there is kept.
LEMMA MembersAtFacts ==
    ASSUME NEW S, NEW seq \in Seq(S), NEW positions
    PROVE  /\ MembersAt(seq, positions) \in Seq(S)
           /\ \A i \in DOMAIN MembersAt(seq, positions) :
                \E j \in DOMAIN seq : j \in positions /\ MembersAt(seq, positions)[i] = seq[j]
           /\ \A j \in DOMAIN seq : j \in positions =>
                \E i \in DOMAIN MembersAt(seq, positions) : MembersAt(seq, positions)[i] = seq[j]
<1> DEFINE kept == MembersAt(seq, positions)
<1>1. kept \in Seq(S)
  BY MembersAtOrder
<1>2. PICK from \in [1..Len(kept) -> {j \in DOMAIN seq : j \in positions}] :
         /\ \A i \in 1..Len(kept) : kept[i] = seq[from[i]]
         /\ \A j \in DOMAIN seq : j \in positions => \E i \in 1..Len(kept) : from[i] = j
  BY MembersAtOrder
<1>3. DOMAIN kept = 1..Len(kept)
  BY <1>1
<1> HIDE DEF kept
<1>4. ASSUME NEW i \in DOMAIN kept
      PROVE  \E j \in DOMAIN seq : j \in positions /\ kept[i] = seq[j]
  BY <1>2, <1>3
<1>5. ASSUME NEW j \in DOMAIN seq, j \in positions
      PROVE  \E i \in DOMAIN kept : kept[i] = seq[j]
  <2>1. PICK i \in 1..Len(kept) : from[i] = j
    BY <1>2, <1>5
  <2> QED
    BY <1>2, <1>3, <2>1
<1> QED
  BY <1>1, <1>4, <1>5 DEF kept
=============================================================================
