--------------------------- MODULE ActionRunProofs ----------------------------
(***************************************************************************)
(* Proofs about ActionRun, for any requests, hosts, daemons, callers and   *)
(* menus: every operation of every surface at once.  What an operation may *)
(* do is read off the shape of its program; the shapes are closed under    *)
(* the ways programs are put together, so that each of them is seen to     *)
(* have its shape from how it is written down.                             *)
(***************************************************************************)
EXTENDS ActionRun, ListProofs, SequenceTheorems, WellFoundedInduction, TLAPS

(* Shapes.  Steps that read call Reads, steps that change call one of W;   *)
(* programs are of the kinds K of phases.                                  *)

Reads ==
    {"client_for", "daemon_id", "list_containers", "inspect_container", "top_processes", "stats",
     "logs", "create_exec", "inspect_exec", "info", "df", "list_images", "list_networks",
     "list_volumes", "cached list", "docker compose ps", "docker compose logs",
     "docker compose ls", "find", "cat compose files", "uname", "uptime", "cat /proc/meminfo",
     "cat /proc/loadavg", "systemctl list-units", "ip addr", "cat /proc/net/dev", "df mounts",
     "journalctl -n 1", "ps", "systemctl --failed", "read", "stat", "ls or head", "cat",
     "zpool list", "zfs list", "zfs list -t snapshot", "tail syslog", "tail messages",
     "tail auth.log", "tail secure", "journalctl", "dmesg", "validate_command"}

\* Changes that are not called destructive.
Mild ==
    {"start", "restart", "pause", "unpause", "pull_image", "create_container", "docker compose up",
     "docker compose build", "docker compose pull"}

\* But for the two that replace a container.
Replacing == {"remove", "create_container"}
Plain == Mild \ Replacing
Most == (Mild \cup Destructive) \ Replacing

Fields ==
    {"host", "image", "context", "tag", "force", "prune_target", "container_id", "query",
     "command", "project", "path", "pattern", "targets", "source_path", "dest_host", "dest_path"}

Subjects ==
    {"context", "tag", "dockerfile", "prune_target", "time specification",
     "remove_volumes needs force", "project with a file", "path", "path, pattern", "paths",
     "path, size", "sort", "unit, priority, time filters", "path, command", "targets, command",
     "ssh user, ssh host", "flags"}

StepsThat(W) ==
    {s \in [via : {"docker", "command"}, call : Reads \cup W, writes : BOOLEAN, ok : Nat,
            err : SUBSET (Nat \cup {Fail})] :
        IF s.writes THEN s.call \in W ELSE s.call \in Reads}

BodiesThat(W) == Seq(StepsThat(W)) \ {<<>>}

\* Bodies that pass over no error.
Firm(b) == \A j \in DOMAIN b : b[j].err = {Fail}
FirmBodies(W) == {b \in BodiesThat(W) : Firm(b)}

\* Who goes from host to host passes over no error, and forgets the client of a
\* host whose transport is dead.
DropsClient(p) == p.do = "first" => p.evict /\ Firm(p.body)

PhasesThat(W) ==
    [do : {"require"}, fields : SUBSET Fields] \cup [do : {"validate"}, what : Subjects]
      \cup [do : {"target", "resolve", "several", "other"}]
      \cup {p \in [do : WorkPhases, body : BodiesThat(W), evict : BOOLEAN] : DropsClient(p)}

Phases(K, W) == {p \in PhasesThat(W) : p.do \in K}

Known == PhasesThat(Mild \cup Destructive) \cup [do : {"confirm"}, named : BOOLEAN]

Programs(K, W) == Seq(Phases(K, W))

Checks == {"require", "validate"}
Asking ==
    Checks \cup {"target", "resolve", "other", "probe", "first", "one", "oneOther", "cached", "each"}

\* Programs that ask no question and change nothing; those that list.
Reading == Programs(Asking, {})
Then(B, L) == {b \o w : b \in B, w \in L}
Listing == Then(Then(Programs(Checks, {}), {DockerHosts}), Programs({"each"}, {}))

\* A program that changes hosts does so in its last phase ...
Final(K, W) == {<<p>> : p \in Phases(K, W)}
Unasked == Then(Reading, Final({"first", "one"}, Plain))

\* ... and, if it asks, has changed nothing before.
Acting(B, named, C, L) == {((b \o Confirm(named)) \o c) \o w : b \in B, c \in C, w \in L}

Silent == Programs({"validate"}, {})
Resolving == {p \in Reading : \E i \in DOMAIN p : p[i].do = "resolve"}
Picking == Programs({"require", "validate", "several"}, {})

Blind == Acting(Reading, FALSE, Reading, Final({"first", "one"}, Most))
OfOne == Acting(Reading, TRUE, Silent, Final({"one"}, Most))
OfTwo == Acting(Resolving, TRUE, Silent, Final({"oneOther"}, Most))
OfSeveral == Acting(Picking, TRUE, Silent, Final({"each"}, Most))
Replacement == {One(x \o Do("remove") \o Do("create_container") \o Do("start")) : x \in BodiesThat(Most)}
Recreating == Acting(Reading, TRUE, Silent, Replacement)

\* What a program looks like says which scope is required for it.
WellMade(o) ==
    /\ o = Op(o.action, o.sub, o.prog)
    /\ \/ o.prog \in Reading \cup Listing
       \/ /\ RequiredScopeForParsedAction(o) = WRITE_SCOPE /\ o.action # "resource"
          /\ \/ o.prog \in Unasked \cup Blind \cup OfOne \cup Recreating
             \/ o.action = "beam" /\ o.prog \in OfTwo
             \/ o.action = "emit" /\ o.prog \in OfSeveral

-----------------------------------------------------------------------------
(* How bodies keep their shape *)

\* A single step has the shape of its call.
LEMMA StepShape ==
    ASSUME NEW W
    PROVE  /\ \A c \in Reads : Get(c) \in BodiesThat(W) /\ Run(c) \in BodiesThat(W)
           /\ \A c \in W : Do(c) \in BodiesThat(W) /\ Change(c) \in BodiesThat(W)
<1>1. ASSUME NEW via \in {"docker", "command"}, NEW writes \in BOOLEAN,
             NEW call \in IF writes THEN W ELSE Reads
      PROVE  Step(via, call, writes) \in BodiesThat(W)
  <2> DEFINE s == [via |-> via, call |-> call, writes |-> writes, ok |-> 0, err |-> {Fail}]
  <2>1. s \in StepsThat(W)
    BY <1>1 DEF StepsThat
  <2> HIDE DEF s
  <2>2. <<s>> \in Seq(StepsThat(W)) /\ <<s>> # <<>>
    BY <2>1
  <2> QED
    BY <2>2 DEF Step, BodiesThat, s
<1>2. ASSUME NEW c \in Reads PROVE Get(c) \in BodiesThat(W) /\ Run(c) \in BodiesThat(W)
  BY <1>1 DEF Get, Run
<1>3. ASSUME NEW c \in W PROVE Do(c) \in BodiesThat(W) /\ Change(c) \in BodiesThat(W)
  BY <1>1 DEF Do, Change
<1> QED
  BY <1>2, <1>3

\* Bodies are put one after the other.
LEMMA BodyConcat ==
    ASSUME NEW W, NEW a \in BodiesThat(W), NEW b \in BodiesThat(W)
    PROVE  a \o b \in BodiesThat(W)
<1>1. a \o b \in Seq(StepsThat(W)) /\ a \o b # <<>>
  BY ConcatProperties, ConcatEqualIffEmpty DEF BodiesThat
<1> QED
  BY <1>1 DEF BodiesThat

\* Steps that do nothing but call are firm, alone and one after the other.
LEMMA FirmRules ==
    ASSUME NEW W
    PROVE  /\ \A c \in Reads : Get(c) \in FirmBodies(W)
           /\ \A c \in W : Do(c) \in FirmBodies(W)
           /\ \A a, b \in FirmBodies(W) : a \o b \in FirmBodies(W)
           /\ Client \in FirmBodies(W)
<1>1. ASSUME NEW via, NEW call, NEW writes PROVE Firm(Step(via, call, writes))
  BY DEF Firm, Step
<1>2. \A c \in Reads : Get(c) \in FirmBodies(W)
  BY <1>1, StepShape DEF FirmBodies, Get
<1>3. \A c \in W : Do(c) \in FirmBodies(W)
  BY <1>1, StepShape DEF FirmBodies, Do
<1>4. ASSUME NEW a \in FirmBodies(W), NEW b \in FirmBodies(W) PROVE a \o b \in FirmBodies(W)
  <2>1. a \in BodiesThat(W) /\ b \in BodiesThat(W) /\ Firm(a) /\ Firm(b)
    BY DEF FirmBodies
  <2>2. a \in Seq(StepsThat(W)) /\ b \in Seq(StepsThat(W))
    BY <2>1 DEF BodiesThat
  <2>3. /\ Len(a) \in Nat /\ DOMAIN a = 1..Len(a) /\ Len(b) \in Nat /\ DOMAIN b = 1..Len(b)
        /\ DOMAIN (a \o b) = 1..(Len(a) + Len(b))
        /\ \A i \in 1..(Len(a) + Len(b)) :
              (a \o b)[i] = IF i <= Len(a) THEN a[i] ELSE b[i - Len(a)]
    BY <2>2
  <2>4. ASSUME NEW i \in DOMAIN (a \o b) PROVE (a \o b)[i].err = {Fail}
    <3>1. CASE i <= Len(a)
      BY <2>1, <2>3, <3>1 DEF Firm
    <3>2. CASE ~(i <= Len(a))
      <4>1. i - Len(a) \in DOMAIN b
        BY <2>3, <3>2
      <4>2. b[i - Len(a)].err = {Fail}
        BY <2>1, <4>1 DEF Firm
      <4> QED
        BY <2>3, <3>2, <4>2
    <3> QED
      BY <3>1, <3>2
  <2> QED
    BY <2>1, <2>4, BodyConcat DEF FirmBodies, Firm
<1>5. Client \in FirmBodies(W)
  BY <1>2 DEF Client, Reads
<1> QED
  BY <1>2, <1>3, <1>4, <1>5

\* A body goes before the three steps that replace a container.
LEMMA BodyAssociative ==
    ASSUME NEW V, NEW a \in BodiesThat(V), NEW b \in BodiesThat(V)
    PROVE  a \o (b \o Do("remove") \o Do("create_container") \o Do("start"))
             = (a \o b) \o Do("remove") \o Do("create_container") \o Do("start")
<1> DEFINE W == V \cup {"remove", "create_container", "start"}
           S == StepsThat(W)
           r == Do("remove")
           c == Do("create_container")
           s == Do("start")
<1>1. r \in Seq(S) /\ c \in Seq(S) /\ s \in Seq(S)
  BY StepShape DEF BodiesThat
<1>2. StepsThat(V) \subseteq S
  BY DEF StepsThat
<1>3. a \in Seq(S) /\ b \in Seq(S)
  BY <1>2, SeqMonotonic DEF BodiesThat
<1> DEFINE Q == Seq(S)
           Regroups(x, y, z) == x \o (y \o z) = (x \o y) \o z
           br == b \o r
           brc == br \o c
<1>4. a \in Q /\ b \in Q /\ r \in Q /\ c \in Q /\ s \in Q
  BY <1>1, <1>3
<1>5. \A x, y \in Q : x \o y \in Q
  BY ConcatProperties
<1>6. \A x, y, z \in Q : Regroups(x, y, z)
  BY ConcatAssociative
<1> HIDE DEF S, r, c, s, Q, Regroups
<1>7. br \in Q
  BY <1>4, <1>5, Zenon DEF br
<1> HIDE DEF br
<1>8. brc \in Q
  BY <1>4, <1>5, <1>7, Zenon DEF brc
<1> HIDE DEF brc
<1>9. Regroups(a, brc, s) /\ Regroups(a, br, c) /\ Regroups(a, b, r)
  BY <1>4, <1>6, <1>7, <1>8, Zenon
<1>10. a \o (brc \o s) = (a \o brc) \o s
  BY <1>9, Zenon DEF Regroups
<1>11. a \o brc = (a \o br) \o c
  BY <1>9, Zenon DEF Regroups, brc
<1>12. a \o br = (a \o b) \o r
  BY <1>9, Zenon DEF Regroups, br
<1>13. a \o (brc \o s) = (((a \o b) \o r) \o c) \o s
  BY <1>10, <1>11, <1>12, Zenon
<1> QED
  BY <1>13, Zenon DEF br, brc, r, c, s

\* An attempt is a body of the same kind.
LEMMA AttemptShape ==
    ASSUME NEW W, NEW b \in BodiesThat(W)
    PROVE  Attempt(b) \in BodiesThat(W)
<1> DEFINE step(i) == [b[i] EXCEPT !.err = {IF e = Fail THEN Len(b) - i ELSE e : e \in @}]
<1>1. b \in Seq(StepsThat(W)) /\ b # <<>> /\ Len(b) \in Nat /\ DOMAIN b = 1..Len(b)
  BY DEF BodiesThat
<1>2. ASSUME NEW i \in 1..Len(b) PROVE step(i) \in StepsThat(W)
  <2>1. b[i] \in StepsThat(W)
    BY <1>1
  <2>2. /\ b[i].err \in SUBSET (Nat \cup {Fail})
        /\ Len(b) - i \in Nat
    <3>1. Len(b) - i \in Nat
      BY <1>1
    <3>2. b[i].err \in SUBSET (Nat \cup {Fail})
      BY <2>1 DEF StepsThat
    <3> QED
      BY <3>1, <3>2
  <2>3. {IF e = Fail THEN Len(b) - i ELSE e : e \in b[i].err} \in SUBSET (Nat \cup {Fail})
    BY <2>2
  <2> QED
    BY <2>1, <2>3 DEF StepsThat
<1> HIDE DEF step
<1>3. Attempt(b) = [i \in 1..Len(b) |-> step(i)]
  BY <1>1 DEF Attempt, step
<1>4. [i \in 1..Len(b) |-> step(i)] \in Seq(StepsThat(W))
  BY <1>1, <1>2
<1>5. Attempt(b) # <<>>
  BY <1>1, <1>3
<1> QED
  BY <1>3, <1>4, <1>5 DEF BodiesThat

\* So is a command that only reads with its fallback.
LEMMA OrElseShape ==
    ASSUME NEW W, NEW c \in Reads, NEW b \in BodiesThat(W), NEW errs \in SUBSET {Fail}
    PROVE  OrElse(Run(c), b, errs) \in BodiesThat(W)
<1> DEFINE s == [Run(c)[1] EXCEPT !.ok = Len(b), !.err = {0} \cup errs]
<1>1. Len(b) \in Nat /\ b \in Seq(StepsThat(W)) /\ b # <<>>
  BY DEF BodiesThat
<1>2. s \in StepsThat(W)
  <2> DEFINE r == [via |-> "command", call |-> c, writes |-> FALSE, ok |-> 0, err |-> {Fail}]
  <2>1. Run(c)[1] = r
    BY DEF Run, Step
  <2>2. r \in StepsThat(W) /\ {0} \cup errs \in SUBSET (Nat \cup {Fail})
    BY DEF StepsThat
  <2> HIDE DEF r
  <2>3. [r EXCEPT !.ok = Len(b), !.err = {0} \cup errs] \in StepsThat(W)
    BY <1>1, <2>2 DEF StepsThat
  <2> QED
    BY <2>1, <2>3
<1> HIDE DEF s
<1>3. <<s>> \in BodiesThat(W)
  <2>1. <<s>> \in Seq(StepsThat(W)) /\ <<s>> # <<>>
    BY <1>2
  <2> QED
    BY <2>1 DEF BodiesThat
<1> QED
  BY <1>3, BodyConcat DEF OrElse, s

\* The rules above, for use by the provers.
LEMMA BodyRules ==
    ASSUME NEW W
    PROVE  /\ \A c \in Reads : Get(c) \in BodiesThat(W) /\ Run(c) \in BodiesThat(W)
           /\ \A c \in W : Do(c) \in BodiesThat(W) /\ Change(c) \in BodiesThat(W)
           /\ \A a, b \in BodiesThat(W) : a \o b \in BodiesThat(W)
           /\ \A b \in BodiesThat(W) : Attempt(b) \in BodiesThat(W)
           /\ \A c \in Reads, b \in BodiesThat(W) :
                OrElse(Run(c), b, {}) \in BodiesThat(W) /\ OrElse(Run(c), b, {Fail}) \in BodiesThat(W)
           /\ Client \in BodiesThat(W)
<1>1. \A c \in Reads : Get(c) \in BodiesThat(W) /\ Run(c) \in BodiesThat(W)
  BY StepShape
<1>2. \A c \in W : Do(c) \in BodiesThat(W) /\ Change(c) \in BodiesThat(W)
  BY StepShape
<1>3. \A a, b \in BodiesThat(W) : a \o b \in BodiesThat(W)
  BY BodyConcat
<1>4. \A b \in BodiesThat(W) : Attempt(b) \in BodiesThat(W)
  BY AttemptShape
<1>5. \A c \in Reads, b \in BodiesThat(W) :
        OrElse(Run(c), b, {}) \in BodiesThat(W) /\ OrElse(Run(c), b, {Fail}) \in BodiesThat(W)
  BY OrElseShape
<1>6. Client \in BodiesThat(W)
  <2>1. "client_for" \in Reads
    BY DEF Reads
  <2> QED
    BY <1>1, <2>1 DEF Client
<1> QED
  BY <1>1, <1>2, <1>3, <1>4, <1>5, <1>6

-----------------------------------------------------------------------------
(* How programs keep theirs *)

\* A phase alone is a program, and programs follow each other.
LEMMA PhaseRules ==
    ASSUME NEW K, NEW W
    PROVE  /\ \A fields \in SUBSET Fields : "require" \in K => Require(fields) \in Programs(K, W)
           /\ \A what \in Subjects : "validate" \in K => Validate(what) \in Programs(K, W)
           /\ "target" \in K => TargetHosts \in Programs(K, W)
           /\ "resolve" \in K => ResolveHost \in Programs(K, W)
           /\ "several" \in K => SeveralHosts \in Programs(K, W)
           /\ "other" \in K => OtherHost \in Programs(K, W)
           /\ <<>> \in Programs(K, W)
           /\ \A p, q \in Programs(K, W) : p \o q \in Programs(K, W)
<1>1. ASSUME NEW x \in Phases(K, W) PROVE <<x>> \in Programs(K, W)
  BY DEF Programs
<1>2. ASSUME "require" \in K, NEW fields \in SUBSET Fields PROVE Require(fields) \in Programs(K, W)
  <2>1. [do |-> "require", fields |-> fields] \in Phases(K, W)
    BY <1>2 DEF Phases, PhasesThat
  <2> QED
    BY <1>1, <2>1 DEF Require
<1>3. ASSUME "validate" \in K, NEW what \in Subjects PROVE Validate(what) \in Programs(K, W)
  <2>1. [do |-> "validate", what |-> what] \in Phases(K, W)
    BY <1>3 DEF Phases, PhasesThat
  <2> QED
    BY <1>1, <2>1 DEF Validate
<1>4. /\ "target" \in K => TargetHosts \in Programs(K, W)
      /\ "resolve" \in K => ResolveHost \in Programs(K, W)
      /\ "several" \in K => SeveralHosts \in Programs(K, W)
      /\ "other" \in K => OtherHost \in Programs(K, W)
  <2>1. \A d \in {"target", "resolve", "several", "other"} : d \in K => [do |-> d] \in Phases(K, W)
    BY DEF Phases, PhasesThat
  <2> QED
    BY <1>1, <2>1 DEF TargetHosts, ResolveHost, SeveralHosts, OtherHost
<1>5. <<>> \in Programs(K, W) /\ \A p, q \in Programs(K, W) : p \o q \in Programs(K, W)
  BY DEF Programs
<1> QED
  BY <1>2, <1>3, <1>4, <1>5

\* So are the phases that work on hosts; each may end a program, too.
LEMMA WorkRules ==
    ASSUME NEW K, NEW W, NEW b \in BodiesThat(W)
    PROVE  /\ "probe" \in K => Probe(b) \in Programs(K, W) /\ Probe(b) \in Final(K, W)
           /\ "first" \in K /\ Firm(b) => First(b) \in Programs(K, W) /\ First(b) \in Final(K, W)
           /\ "one" \in K => One(b) \in Programs(K, W) /\ One(b) \in Final(K, W)
           /\ "oneOther" \in K => OneOther(b) \in Programs(K, W) /\ OneOther(b) \in Final(K, W)
           /\ "cached" \in K => Cached(b) \in Programs(K, W)
           /\ "each" \in K => /\ Each(b) \in Programs(K, W) /\ Each(b) \in Final(K, W)
                              /\ EachEvicting(b) \in Programs(K, W)
<1>1. ASSUME NEW d \in WorkPhases, d \in K, NEW e \in BOOLEAN, d = "first" => e /\ Firm(b)
      PROVE  LET p == <<[do |-> d, body |-> b, evict |-> e]>>
             IN  p \in Programs(K, W) /\ p \in Final(K, W)
  <2> DEFINE x == [do |-> d, body |-> b, evict |-> e]
  <2>1. x \in Phases(K, W)
    BY <1>1 DEF Phases, PhasesThat, DropsClient
  <2> HIDE DEF x
  <2>2. <<x>> \in Programs(K, W) /\ <<x>> \in Final(K, W)
    BY <2>1 DEF Programs, Final
  <2> QED
    BY <2>2 DEF x
<1> QED
  BY <1>1 DEF Probe, First, One, OneOther, Cached, Each, EachEvicting, WorkPhases

\* What a program may do, one that may do more may do, too.
LEMMA ShapeMonotone ==
    ASSUME NEW V, NEW W, V \subseteq W, NEW K, NEW L, K \subseteq L
    PROVE  /\ BodiesThat(V) \subseteq BodiesThat(W)
           /\ Phases(K, V) \subseteq Phases(L, W)
           /\ Programs(K, V) \subseteq Programs(L, W)
<1>1. StepsThat(V) \subseteq StepsThat(W)
  BY DEF StepsThat
<1>2. BodiesThat(V) \subseteq BodiesThat(W)
  BY <1>1, SeqMonotonic DEF BodiesThat
<1>3. PhasesThat(V) \subseteq PhasesThat(W)
  BY <1>2 DEF PhasesThat
<1>4. Phases(K, V) \subseteq Phases(L, W)
  BY <1>3 DEF Phases
<1> QED
  BY <1>2, <1>4, SeqMonotonic DEF Programs

-----------------------------------------------------------------------------
(* How programs with a question keep theirs *)

\* All of these are sequences of known phases.
LEMMA KnownShapes ==
    /\ \A named \in BOOLEAN : Confirm(named) \in Seq(Known)
    /\ \A K : \A W \in SUBSET (Mild \cup Destructive) :
          Programs(K, W) \subseteq Seq(Known) /\ Final(K, W) \subseteq Seq(Known)
<1>1. ASSUME NEW named \in BOOLEAN PROVE Confirm(named) \in Seq(Known)
  <2>1. [do |-> "confirm", named |-> named] \in Known
    BY DEF Known
  <2> QED
    BY <2>1 DEF Confirm
<1>2. ASSUME NEW K, NEW W \in SUBSET (Mild \cup Destructive)
      PROVE  Programs(K, W) \subseteq Seq(Known) /\ Final(K, W) \subseteq Seq(Known)
  <2>1. Phases(K, W) \subseteq Phases(K, Mild \cup Destructive)
    BY ShapeMonotone
  <2>2. Phases(K, W) \subseteq Known
    BY <2>1 DEF Phases, Known
  <2>3. Programs(K, W) \subseteq Seq(Known)
    BY <2>2, SeqMonotonic DEF Programs
  <2>4. \A p \in Known : <<p>> \in Seq(Known)
    OBVIOUS
  <2>5. Final(K, W) \subseteq Seq(Known)
    BY <2>2, <2>4 DEF Final
  <2> QED
    BY <2>3, <2>5
<1> QED
  BY <1>1, <1>2

\* Sequences of known phases are put together in any order.
LEMMA KnownConcat ==
    \A a, b, c \in Seq(Known) : a \o b \in Seq(Known) /\ a \o (b \o c) = (a \o b) \o c
BY ConcatProperties, ConcatAssociative

\* In a form the provers do not unfold before they have found x, y and z.
Joins(x, y, z) ==
    /\ x \o y \in Seq(Known) /\ y \o z \in Seq(Known)
    /\ x \o (y \o z) = (x \o y) \o z

LEMMA KnownJoins == \A x, y, z \in Seq(Known) : Joins(x, y, z)
BY KnownConcat, Zenon DEF Joins

\* What the members of Then are.
LEMMA ThenMembers ==
    ASSUME NEW B, NEW L, NEW p
    PROVE  p \in Then(B, L) <=> \E b \in B, w \in L : p = b \o w
BY DEF Then

\* More may come before what has come before.
LEMMA ThenRules ==
    ASSUME NEW B \in SUBSET Seq(Known), NEW L \in SUBSET Seq(Known)
    PROVE  /\ Then(B, L) \subseteq Seq(Known)
           /\ \A b \in B, w \in L : b \o w \in Then(B, L)
           /\ \A q \in Seq(Known), p \in Then(B, L) :
                (\A b \in B : q \o b \in B) => q \o p \in Then(B, L)
<1>1. \A b \in B, w \in L : b \o w \in Then(B, L)
  BY DEF Then
<1>2. ASSUME NEW p \in Then(B, L) PROVE p \in Seq(Known)
  <2>1. PICK b \in B, w \in L : p = b \o w
    BY ThenMembers
  <2>2. b \in Seq(Known) /\ w \in Seq(Known)
    OBVIOUS
  <2> QED
    BY <2>1, <2>2, KnownConcat
<1>3. ASSUME NEW q \in Seq(Known), NEW p \in Then(B, L), \A b \in B : q \o b \in B
      PROVE  q \o p \in Then(B, L)
  <2>1. PICK b \in B, w \in L : p = b \o w
    BY ThenMembers
  <2>2. b \in Seq(Known) /\ w \in Seq(Known)
    OBVIOUS
  <2>3. q \o p = (q \o b) \o w
    BY <2>1, <2>2, KnownConcat
  <2> QED
    BY <1>1, <1>3, <2>3
<1> QED
  BY <1>1, <1>2, <1>3

\* A program that asks is put together from what comes before the question,
\* between it and the last phase, and the last phase; more may come before it.
LEMMA ActingRules ==
    ASSUME NEW B \in SUBSET Seq(Known), NEW C \in SUBSET Seq(Known), NEW L \in SUBSET Seq(Known),
           NEW named \in BOOLEAN
    PROVE  /\ \A b \in B, c \in C, w \in L :
                ((b \o Confirm(named)) \o c) \o w \in Acting(B, named, C, L)
           /\ <<>> \in C => \A b \in B, w \in L :
                (b \o Confirm(named)) \o w \in Acting(B, named, C, L)
           /\ <<>> \in B => \A c \in C, w \in L :
                Confirm(named) \o (c \o w) \in Acting(B, named, C, L)
           /\ \A q \in Seq(Known), p \in Acting(B, named, C, L) :
                (\A b \in B : q \o b \in B) => q \o p \in Acting(B, named, C, L)
<1> DEFINE g == Confirm(named)
<1>1. g \in Seq(Known)
  BY KnownShapes
<1> HIDE DEF g
<1>2. ASSUME NEW b \in B, NEW c \in C, NEW w \in L
      PROVE  ((b \o g) \o c) \o w \in Acting(B, named, C, L)
  BY DEF Acting, g
<1>3. ASSUME <<>> \in C, NEW b \in B, NEW w \in L
      PROVE  (b \o g) \o w \in Acting(B, named, C, L)
  <2>1. b \o g \in Seq(Known)
    BY <1>1, ConcatProperties
  <2>2. (b \o g) \o <<>> = b \o g
    BY <2>1, ConcatEmptySeq
  <2> QED
    BY <1>2, <1>3, <2>2
<1>4. ASSUME <<>> \in B, NEW c \in C, NEW w \in L
      PROVE  g \o (c \o w) \in Acting(B, named, C, L)
  <2>1. c \in Seq(Known) /\ w \in Seq(Known)
    OBVIOUS
  <2>2. <<>> \o g = g
    BY <1>1, ConcatEmptySeq
  <2>3. g \o (c \o w) = (g \o c) \o w
    BY <1>1, <2>1, ConcatAssociative
  <2> QED
    BY <1>2, <1>4, <2>2, <2>3
<1>5. ASSUME NEW q \in Seq(Known), NEW p \in Acting(B, named, C, L), \A b \in B : q \o b \in B
      PROVE  q \o p \in Acting(B, named, C, L)
  <2>1. PICK b \in B, c \in C, w \in L : p = ((b \o g) \o c) \o w
    BY DEF Acting, g
  <2>2. b \in Seq(Known) /\ c \in Seq(Known) /\ w \in Seq(Known)
    OBVIOUS
  <2> DEFINE u == b \o g
             v == u \o c
  <2> HIDE DEF u, v
  <2>3. u \in Seq(Known) /\ q \o u = (q \o b) \o g
    <3>1. Joins(q, b, g)
      BY <1>1, <2>2, KnownJoins, Zenon
    <3> QED
      BY <3>1, Zenon DEF Joins, u
  <2>4. v \in Seq(Known) /\ q \o v = (q \o u) \o c
    <3>1. Joins(q, u, c)
      BY <2>2, <2>3, KnownJoins, Zenon
    <3> QED
      BY <3>1, Zenon DEF Joins, v
  <2>5. q \o (v \o w) = (q \o v) \o w
    <3>1. Joins(q, v, w)
      BY <2>2, <2>4, KnownJoins, Zenon
    <3> QED
      BY <3>1, Zenon DEF Joins
  <2>6. q \o p = (((q \o b) \o g) \o c) \o w
    BY <2>1, <2>3, <2>4, <2>5 DEF u, v
  <2> QED
    BY <1>2, <1>5, <2>6
<1> QED
  BY <1>2, <1>3, <1>4, <1>5 DEF g

\* The kinds of programs are known sequences, and checks may come before each.
LEMMA FamilyRules ==
    /\ Reading \cup Resolving \cup Picking \cup Silent \cup Programs(Checks, {}) \subseteq Seq(Known)
    /\ <<>> \in Reading /\ <<>> \in Silent /\ <<>> \in Programs(Checks, {})
    /\ \A q \in Programs(Checks, {}) :
          /\ \A p \in Reading : q \o p \in Reading
          /\ \A p \in Resolving : q \o p \in Resolving
          /\ \A p \in Picking : q \o p \in Picking
    /\ ResolveHost \in Resolving
    /\ \A p \in Resolving, q \in Reading : p \o q \in Resolving
<1>1. Reading \cup Resolving \cup Picking \cup Silent \cup Programs(Checks, {}) \subseteq Seq(Known)
  BY KnownShapes DEF Reading, Resolving, Picking, Silent
<1>2. <<>> \in Reading /\ <<>> \in Silent /\ <<>> \in Programs(Checks, {})
  BY PhaseRules DEF Reading, Silent
<1>3. Programs(Checks, {}) \subseteq Reading /\ Programs(Checks, {}) \subseteq Picking
  <2>1. Checks \subseteq Asking /\ Checks \subseteq {"require", "validate", "several"}
    BY DEF Checks, Asking
  <2> QED
    BY <2>1, ShapeMonotone DEF Reading, Picking
<1>4. /\ \A p, q \in Reading : p \o q \in Reading
      /\ \A p, q \in Picking : p \o q \in Picking
  BY PhaseRules DEF Reading, Picking
<1>5. ASSUME NEW p \in Resolving, NEW q \in Reading
      PROVE  p \o q \in Resolving /\ q \o p \in Resolving
  <2>1. p \in Reading /\ p \o q \in Reading /\ q \o p \in Reading
    BY <1>4 DEF Resolving
  <2>2. p \in Seq(Known) /\ q \in Seq(Known)
    BY <1>1, <2>1
  <2>3. PICK i \in DOMAIN p : p[i].do = "resolve"
    BY DEF Resolving
  <2>4. i \in DOMAIN (p \o q) /\ (p \o q)[i] = p[i]
    BY <2>2, <2>3, ConcatProperties
  <2>5. Len(q) + i \in DOMAIN (q \o p) /\ (q \o p)[Len(q) + i] = p[i]
    BY <2>2, <2>3, ConcatProperties
  <2> QED
    BY <2>1, <2>3, <2>4, <2>5 DEF Resolving
<1>6. ResolveHost \in Resolving
  <2>1. ResolveHost \in Reading
    BY PhaseRules DEF Reading, Asking
  <2>2. 1 \in DOMAIN ResolveHost /\ ResolveHost[1].do = "resolve"
    BY DEF ResolveHost
  <2> QED
    BY <2>1, <2>2 DEF Resolving
<1> QED
  BY <1>1, <1>2, <1>3, <1>4, <1>5, <1>6

\* The last phases are known, too.
LEMMA LastShapes ==
    /\ \A b \in BodiesThat(Most), x \in BodiesThat(Mild \cup Destructive) :
          b \o x \in BodiesThat(Mild \cup Destructive)
    /\ Replacement \subseteq Final({"one"}, Mild \cup Destructive)
    /\ Replacement \subseteq Seq(Known)
    /\ \A K : Final(K, {}) \cup Final(K, Plain) \cup Final(K, Most) \subseteq Seq(Known)
<1>1. /\ Plain \subseteq Mild \cup Destructive /\ Most \subseteq Mild \cup Destructive
      /\ {} \subseteq Mild \cup Destructive
  BY DEF Most, Plain
<1>2. \A b \in BodiesThat(Most), x \in BodiesThat(Mild \cup Destructive) :
          b \o x \in BodiesThat(Mild \cup Destructive)
  BY <1>1, ShapeMonotone, BodyConcat
<1>3. /\ Do("remove") \in BodiesThat(Mild \cup Destructive)
      /\ Do("create_container") \in BodiesThat(Mild \cup Destructive)
      /\ Do("start") \in BodiesThat(Mild \cup Destructive)
  <2>1. /\ "remove" \in Mild \cup Destructive /\ "start" \in Mild \cup Destructive
        /\ "create_container" \in Mild \cup Destructive
    BY DEF Mild, Destructive
  <2> QED
    BY <2>1, StepShape
<1>4. ASSUME NEW x \in BodiesThat(Most)
      PROVE  x \o Do("remove") \o Do("create_container") \o Do("start") \in BodiesThat(Mild \cup Destructive)
  BY <1>2, <1>3, BodyConcat
<1>5. ASSUME NEW x \in BodiesThat(Most)
      PROVE  One(x \o Do("remove") \o Do("create_container") \o Do("start")) \in Final({"one"}, Mild \cup Destructive)
  <2> DEFINE b == x \o Do("remove") \o Do("create_container") \o Do("start")
  <2>1. b \in BodiesThat(Mild \cup Destructive)
    BY <1>4
  <2> HIDE DEF b
  <2>2. One(b) \in Final({"one"}, Mild \cup Destructive)
    BY <2>1, WorkRules
  <2> QED
    BY <2>2 DEF b
<1>6. Replacement \subseteq Final({"one"}, Mild \cup Destructive)
  BY <1>5 DEF Replacement
<1> QED
  BY <1>1, <1>2, <1>6, KnownShapes

\* So are the phases of a program that lists.
LEMMA ListingShapes ==
    Programs({"each"}, {}) \subseteq Seq(Known) /\ DockerHosts \in Seq(Known)
<1>1. {} \in SUBSET (Mild \cup Destructive)
  OBVIOUS
<1>2. \A K : Programs(K, {}) \subseteq Seq(Known)
  BY <1>1, KnownShapes
<1>3. TargetHosts \in Seq(Known)
  <2>1. TargetHosts \in Programs({"target"}, {})
    BY PhaseRules
  <2> QED
    BY <1>2, <2>1
<1>4. Discover \in Seq(Known)
  <2>1. Client \o Get("daemon_id") \in BodiesThat({})
    BY BodyRules DEF Reads
  <2>2. [do |-> "discover", body |-> Client \o Get("daemon_id"), evict |-> FALSE] \in Phases({"discover"}, {})
    BY <2>1 DEF Phases, PhasesThat, WorkPhases, DropsClient
  <2>3. Discover \in Programs({"discover"}, {})
    BY <2>2 DEF Discover, Programs
  <2> QED
    BY <1>2, <2>3
<1> QED
  BY <1>2, <1>3, <1>4, KnownConcat DEF DockerHosts

\* An operation that is well made is so with checks before it.
LEMMA CheckedRules ==
    ASSUME NEW q \in Programs(Checks, {}), NEW o, WellMade(o)
    PROVE  WellMade(Op(o.action, o.sub, q \o o.prog))
<1> DEFINE o1 == Op(o.action, o.sub, q \o o.prog)
<1>0. o1.action = o.action /\ o1.sub = o.sub /\ o1.prog = q \o o.prog /\ o1 = Op(o1.action, o1.sub, o1.prog)
  BY DEF Op
<1> HIDE DEF o1
<1>1. q \in Seq(Known)
  BY FamilyRules
<1>2. o.prog \in Reading => q \o o.prog \in Reading
  BY FamilyRules
<1>3. o.prog \in Listing => q \o o.prog \in Listing
  <2>1. Programs({"each"}, {}) \subseteq Seq(Known) /\ DockerHosts \in Seq(Known)
    BY ListingShapes
  <2>2. Then(Programs(Checks, {}), {DockerHosts}) \subseteq Seq(Known)
    BY <2>1, FamilyRules, ThenRules
  <2>3. \A p \in Programs(Checks, {}) : q \o p \in Programs(Checks, {})
    BY PhaseRules
  <2>4. \A p \in Then(Programs(Checks, {}), {DockerHosts}) :
            q \o p \in Then(Programs(Checks, {}), {DockerHosts})
    BY <1>1, <2>1, <2>3, FamilyRules, ThenRules
  <2> QED
    BY <1>1, <2>1, <2>2, <2>4, ThenRules DEF Listing
<1>4. o.prog \in Unasked => q \o o.prog \in Unasked
  BY <1>1, ThenRules, FamilyRules, LastShapes DEF Unasked
<1>5. o.prog \in Blind => q \o o.prog \in Blind
  BY <1>1, ActingRules, FamilyRules, LastShapes DEF Blind
<1>6. o.prog \in OfOne => q \o o.prog \in OfOne
  BY <1>1, ActingRules, FamilyRules, LastShapes DEF OfOne
<1>7. o.prog \in OfTwo => q \o o.prog \in OfTwo
  BY <1>1, ActingRules, FamilyRules, LastShapes DEF OfTwo
<1>8. o.prog \in OfSeveral => q \o o.prog \in OfSeveral
  BY <1>1, ActingRules, FamilyRules, LastShapes DEF OfSeveral
<1>9. o.prog \in Recreating => q \o o.prog \in Recreating
  BY <1>1, ActingRules, FamilyRules, LastShapes DEF Recreating
<1>10. RequiredScopeForParsedAction(o1) = RequiredScopeForParsedAction(o)
  BY <1>0 DEF RequiredScopeForParsedAction
<1>11. WellMade(o1)
  BY <1>0, <1>2, <1>3, <1>4, <1>5, <1>6, <1>7, <1>8, <1>9, <1>10 DEF WellMade
<1> QED
  BY <1>11 DEF o1

-----------------------------------------------------------------------------
(* The table of actions *)

\* Programs that read.
LEMMA ReadingRules ==
    /\ \A p, q \in Reading : p \o q \in Reading
    /\ \A what \in Subjects : Validate(what) \in Reading /\ Validate(what) \in Silent
    /\ TargetHosts \in Reading /\ ResolveHost \in Reading /\ OtherHost \in Reading
    /\ \A b \in FirmBodies({}) : FindHostOp(b) \in Reading
    /\ \A b \in BodiesThat({}) :
          /\ Probe(b) \in Reading /\ One(b) \in Reading /\ OneOther(b) \in Reading
          /\ Cached(b) \in Reading /\ Each(b) \in Reading
          /\ DockerHosts \o EachEvicting(b) \in Listing
<1>1. \A p, q \in Reading : p \o q \in Reading
  BY PhaseRules DEF Reading
<1>2. /\ \A what \in Subjects : Validate(what) \in Reading /\ Validate(what) \in Silent
      /\ TargetHosts \in Reading /\ ResolveHost \in Reading /\ OtherHost \in Reading
  <2>1. /\ "validate" \in Asking /\ "target" \in Asking /\ "resolve" \in Asking
        /\ "other" \in Asking /\ "validate" \in {"validate"}
    BY DEF Asking, Checks
  <2> QED
    BY <2>1, PhaseRules DEF Reading, Silent
<1>3. ASSUME NEW b \in BodiesThat({})
      PROVE  /\ Probe(b) \in Reading /\ One(b) \in Reading /\ OneOther(b) \in Reading
             /\ Cached(b) \in Reading /\ Each(b) \in Reading
             /\ Firm(b) => First(b) \in Reading
             /\ EachEvicting(b) \in Programs({"each"}, {})
  <2>1. /\ "probe" \in Asking /\ "one" \in Asking /\ "oneOther" \in Asking
        /\ "cached" \in Asking /\ "each" \in Asking /\ "first" \in Asking
        /\ "each" \in {"each"}
    BY DEF Asking
  <2> QED
    BY <2>1, WorkRules DEF Reading
<1>4. ASSUME NEW b \in FirmBodies({}) PROVE FindHostOp(b) \in Reading
  <2>1. Client \o b \in BodiesThat({}) /\ Firm(Client \o b)
    BY FirmRules DEF FirmBodies
  <2> QED
    BY <1>1, <1>2, <1>3, <2>1 DEF FindHostOp
<1>5. ASSUME NEW b \in BodiesThat({}) PROVE DockerHosts \o EachEvicting(b) \in Listing
  <2>1. Then(Programs(Checks, {}), {DockerHosts}) \subseteq Seq(Known)
    BY FamilyRules, ListingShapes, ThenRules
  <2>2. DockerHosts \in Then(Programs(Checks, {}), {DockerHosts})
    <3>1. <<>> \in Programs(Checks, {})
      BY FamilyRules
    <3>2. <<>> \o DockerHosts = DockerHosts
      BY ListingShapes, ConcatEmptySeq
    <3> QED
      BY <3>1, <3>2, ThenMembers
  <2> QED
    BY <1>3, <2>1, <2>2, ListingShapes, ThenRules DEF Listing
<1> QED
  BY <1>1, <1>2, <1>3, <1>4, <1>5

\* Programs that change hosts.
LEMMA WritingRules ==
    /\ \A b \in FirmBodies(Plain) : FindHostOp(b) \in Unasked
    /\ \A b \in FirmBodies(Most) : Confirm(FALSE) \o FindHostOp(b) \in Blind
    /\ \A b \in BodiesThat(Plain), p \in Reading : p \o One(b) \in Unasked
    /\ \A b \in BodiesThat(Most), p \in Reading :
          /\ (p \o Confirm(FALSE)) \o One(b) \in Blind
          /\ (p \o Confirm(TRUE)) \o One(b) \in OfOne
    /\ \A b \in BodiesThat(Most), p \in Resolving, q \in Silent :
          ((p \o Confirm(TRUE)) \o q) \o OneOther(b) \in OfTwo
    /\ \A b \in BodiesThat(Most), p \in Picking : (p \o Confirm(TRUE)) \o Each(b) \in OfSeveral
    /\ \A p \in Reading, w \in Replacement : (p \o Confirm(TRUE)) \o w \in Recreating
<1>1. ASSUME NEW W, NEW b \in BodiesThat(W)
      PROVE  /\ One(b) \in Final({"first", "one"}, W)
             /\ One(b) \in Final({"one"}, W) /\ OneOther(b) \in Final({"oneOther"}, W)
             /\ Each(b) \in Final({"each"}, W)
  BY WorkRules
<1>7. ASSUME NEW W, NEW b \in FirmBodies(W)
      PROVE  /\ FindHostOp(b) = TargetHosts \o First(Client \o b)
             /\ First(Client \o b) \in Final({"first", "one"}, W)
  <2>1. Client \o b \in BodiesThat(W) /\ Firm(Client \o b)
    BY FirmRules DEF FirmBodies
  <2> QED
    BY <2>1, WorkRules DEF FindHostOp
<1>8. ASSUME NEW b \in FirmBodies(Plain) PROVE FindHostOp(b) \in Unasked
  BY <1>7, ThenMembers, ReadingRules DEF Unasked
<1>9. ASSUME NEW b \in FirmBodies(Most) PROVE Confirm(FALSE) \o FindHostOp(b) \in Blind
  <2>1. /\ Reading \in SUBSET Seq(Known) /\ <<>> \in Reading
        /\ Final({"first", "one"}, Most) \in SUBSET Seq(Known)
    BY FamilyRules, LastShapes
  <2> QED
    BY <1>7, <2>1, ReadingRules, ActingRules DEF Blind
<1>2. ASSUME NEW b \in BodiesThat(Plain), NEW p \in Reading
      PROVE  p \o One(b) \in Unasked
  BY <1>1, ThenMembers, ReadingRules DEF Unasked
<1>3. ASSUME NEW b \in BodiesThat(Most), NEW p \in Reading
      PROVE  /\ (p \o Confirm(FALSE)) \o One(b) \in Blind
             /\ (p \o Confirm(TRUE)) \o One(b) \in OfOne
  <2>1. /\ Reading \in SUBSET Seq(Known) /\ <<>> \in Reading
        /\ Silent \in SUBSET Seq(Known) /\ <<>> \in Silent
        /\ Final({"first", "one"}, Most) \in SUBSET Seq(Known) /\ Final({"one"}, Most) \in SUBSET Seq(Known)
    BY FamilyRules, LastShapes
  <2>3. (p \o Confirm(FALSE)) \o One(b) \in Blind
    BY <1>1, <2>1, ActingRules DEF Blind
  <2>4. (p \o Confirm(TRUE)) \o One(b) \in OfOne
    BY <1>1, <2>1, ActingRules DEF OfOne
  <2> QED
    BY <2>3, <2>4
<1>4. ASSUME NEW b \in BodiesThat(Most), NEW p \in Resolving, NEW q \in Silent
      PROVE  ((p \o Confirm(TRUE)) \o q) \o OneOther(b) \in OfTwo
  BY <1>1, FamilyRules, LastShapes, ActingRules DEF OfTwo
<1>5. ASSUME NEW b \in BodiesThat(Most), NEW p \in Picking
      PROVE  (p \o Confirm(TRUE)) \o Each(b) \in OfSeveral
  BY <1>1, FamilyRules, LastShapes, ActingRules DEF OfSeveral
<1>6. ASSUME NEW p \in Reading, NEW w \in Replacement
      PROVE  (p \o Confirm(TRUE)) \o w \in Recreating
  BY FamilyRules, LastShapes, ActingRules DEF Recreating
<1> QED
  BY <1>2, <1>3, <1>4, <1>5, <1>6, <1>8, <1>9

\* The programs of DockerOps and ContainerOps that read.
LEMMA DockerReads ==
    /\ ContainerList \in Listing /\ ContainerSearch \in Listing /\ ContainerStatsAll \in Listing
    /\ DockerInfo \in Listing /\ DockerDf \in Listing /\ DockerImages \in Listing
    /\ DockerNetworks \in Listing /\ DockerVolumes \in Listing
    /\ ContainerStatsOne \in Reading /\ ContainerInspect \in Reading /\ ContainerTop \in Reading
    /\ ContainerLogs \in Reading
<1>1. ASSUME NEW c \in Reads
      PROVE  DockerHosts \o EachEvicting(Client \o Get(c)) \in Listing /\ FindHostOp(Get(c)) \in Reading
  BY BodyRules, FirmRules, ReadingRules
<1>2. /\ "list_containers" \in Reads /\ "inspect_container" \in Reads /\ "top_processes" \in Reads
      /\ "stats" \in Reads /\ "logs" \in Reads /\ "info" \in Reads /\ "df" \in Reads
      /\ "list_images" \in Reads /\ "list_networks" \in Reads /\ "list_volumes" \in Reads
      /\ "time specification" \in Subjects
  BY DEF Reads, Subjects
<1>3. /\ ContainerList \in Listing /\ ContainerSearch \in Listing
      /\ DockerInfo \in Listing /\ DockerDf \in Listing /\ DockerImages \in Listing
      /\ DockerNetworks \in Listing /\ DockerVolumes \in Listing
  BY <1>1, <1>2 DEF ContainerList, ContainerSearch, DockerInfo, DockerDf, DockerImages, DockerNetworks,
       DockerVolumes, ListOnHost, InfoOnHost, DfOnHost, ImagesOnHost, NetworksOnHost, VolumesOnHost
<1>4. ContainerStatsAll \in Listing
  <2>1. Client \o StatsOfAll \in BodiesThat({})
    BY <1>2, BodyRules DEF StatsOfAll, ListOnHost, StatsOnHost
  <2> QED
    BY <2>1, ReadingRules DEF ContainerStatsAll
<1>5. ContainerStatsOne \in Reading /\ ContainerInspect \in Reading /\ ContainerTop \in Reading
  BY <1>1, <1>2 DEF ContainerStatsOne, ContainerInspect, ContainerTop, StatsOnHost, InspectOnHost, TopOnHost
<1>6. ContainerLogs \in Reading
  BY <1>1, <1>2, ReadingRules DEF ContainerLogs, BuildLogsOptions, CollectLogLines
<1> QED
  BY <1>3, <1>4, <1>5, <1>6

\* Those that change hosts.
LEMMA DockerWrites ==
    /\ \A sub \in {"start", "restart", "pause", "resume"} : ContainerLifecycle(sub) \in Unasked
    /\ ContainerLifecycle("stop") \in Blind /\ ContainerExec \in Blind
    /\ ContainerPull \in Unasked /\ DockerPull \in Unasked
    /\ \A pull \in BOOLEAN : ContainerRecreate(pull) \in Recreating
    /\ DockerBuild \in OfOne /\ DockerRmi \in OfOne
    /\ \A t \in PruneTargets : DockerPrune(t) \in Blind
<1> USE DEF InspectOnHost, PullImageOnHost
<1>1. /\ "inspect_container" \in Reads /\ "create_exec" \in Reads /\ "inspect_exec" \in Reads
      /\ "start" \in Plain /\ "restart" \in Plain /\ "pause" \in Plain /\ "unpause" \in Plain
      /\ "pull_image" \in Plain /\ "pull_image" \in Most
      /\ "stop" \in Most /\ "start_exec" \in Most /\ "remove_image" \in Most /\ "docker build" \in Most
      /\ \A t \in DOMAIN PruneCall : PruneCall[t] \in Most
  <2>1. \A t \in DOMAIN PruneCall : PruneCall[t] \in Most
    <3>1. \A t \in DOMAIN PruneCall : PruneCall[t] \notin Replacing
      BY DEF PruneCall, Replacing
    <3> QED
      BY <3>1 DEF Most, Destructive
  <2> QED
    BY <2>1 DEF Reads, Mild, Plain, Most, Destructive, Replacing
<1>2. ASSUME NEW sub \in {"start", "restart", "pause", "resume"} PROVE ContainerLifecycle(sub) \in Unasked
  <2>1. LifecycleActionOnHost(sub) \in FirmBodies(Plain)
    BY <1>1, FirmRules DEF LifecycleActionOnHost, LifecycleVerb
  <2>2. FindHostOp(LifecycleActionOnHost(sub)) \in Unasked
    BY <2>1, WritingRules, FamilyRules
  <2>3. FindHostOp(LifecycleActionOnHost(sub)) \in Seq(Known)
    BY <2>2, ThenRules, FamilyRules, LastShapes DEF Unasked
  <2> QED
    BY <2>2, <2>3, ConcatEmptySeq DEF ContainerLifecycle
<1>3. ContainerLifecycle("stop") \in Blind
  <2>1. LifecycleActionOnHost("stop") \in FirmBodies(Most)
    BY <1>1, FirmRules DEF LifecycleActionOnHost, LifecycleVerb
  <2> QED
    BY <2>1, WritingRules, FamilyRules DEF ContainerLifecycle
<1>4. ContainerExec \in Blind
  <2>1. ExecOnHost \in FirmBodies(Most)
    BY <1>1, FirmRules DEF ExecOnHost, ExecInner
  <2> QED
    BY <2>1, WritingRules, FamilyRules DEF ContainerExec
<1>5. ContainerPull \in Unasked /\ DockerPull \in Unasked
  <2>1. FindHostOp(InspectOnHost) \in Reading /\ ResolveHost \in Reading
    BY <1>1, FirmRules, ReadingRules
  <2>2. Client \o PullImageOnHost \in BodiesThat(Plain) /\ Client \o PullOnHost \in BodiesThat(Plain)
    BY <1>1, BodyRules DEF PullOnHost
  <2> QED
    BY <2>1, <2>2, WritingRules DEF ContainerPull, DockerPull
<1>6. ASSUME NEW pull \in BOOLEAN PROVE ContainerRecreate(pull) \in Recreating
  <2>1. TargetHosts \o Probe(Client \o InspectOnHost) \in Reading
    BY <1>1, BodyRules, ReadingRules
  <2> DEFINE I == IF pull THEN InspectOnHost \o PullImageOnHost ELSE InspectOnHost
             a == Attempt(Do("stop"))
             x == I \o a
  <2>2. InspectOnHost \in BodiesThat(Most) /\ I \in BodiesThat(Most) /\ a \in BodiesThat(Most)
    BY <1>1, BodyRules
  <2>3. RecreateOnHost(pull) = x \o Do("remove") \o Do("create_container") \o Do("start")
    <3>1. CASE pull
      BY <3>1 DEF RecreateOnHost
    <3>2. CASE ~pull
      <4>1. InspectOnHost \o <<>> = InspectOnHost
        BY <2>2, ConcatEmptySeq DEF BodiesThat
      <4> QED
        BY <3>2, <4>1 DEF RecreateOnHost
    <3> QED
      BY <3>1, <3>2
  <2>4. x \in BodiesThat(Most) /\ Client \in BodiesThat(Most) /\ Client \o x \in BodiesThat(Most)
    BY <2>2, BodyRules
  <2> HIDE DEF x
  <2>5. Client \o (x \o Do("remove") \o Do("create_container") \o Do("start"))
          = (Client \o x) \o Do("remove") \o Do("create_container") \o Do("start")
    BY <2>4, BodyAssociative
  <2>6. One(Client \o RecreateOnHost(pull)) \in Replacement
    BY <2>3, <2>4, <2>5 DEF Replacement
  <2> QED
    BY <2>1, <2>6, WritingRules DEF ContainerRecreate
<1>7. DockerBuild \in OfOne /\ DockerRmi \in OfOne
  <2>1. BuildOnHost \in BodiesThat(Most) /\ Client \o RmiOnHost \in BodiesThat(Most)
    BY <1>1, BodyRules DEF BuildOnHost, RmiOnHost
  <2> QED
    BY <2>1, WritingRules, ReadingRules DEF DockerBuild, DockerRmi
<1>8. ASSUME NEW t \in PruneTargets PROVE DockerPrune(t) \in Blind
  <2>1. \A u \in DOMAIN PruneCall : PruneSingle(u) \in BodiesThat(Most)
    BY <1>1, BodyRules DEF PruneSingle
  <2>2. PruneOnHost(t) \in BodiesThat(Most)
    BY <2>1, BodyRules DEF PruneOnHost, PruneTargets, PruneCall
  <2>3. Client \o PruneOnHost(t) \in BodiesThat(Most)
    BY <2>2, BodyRules
  <2> QED
    BY <2>3, WritingRules, ReadingRules DEF DockerPrune, PruneConfirmation
<1> QED
  BY <1>2, <1>3, <1>4, <1>5, <1>6, <1>7, <1>8

\* The programs of ComposeOps.
LEMMA ComposePrograms ==
    /\ ComposeList \in Reading /\ ComposeRefresh \in Reading /\ ComposeStatus \in Reading
    /\ ComposeLogs \in Reading
    /\ ComposeUp \in Unasked /\ ComposeBuild \in Unasked /\ ComposePull \in Unasked
    /\ ComposeDown \in OfOne /\ ComposeRestart \in OfOne /\ ComposeRecreate \in OfOne
    /\ Discovery \in BodiesThat({})
<1>1. /\ "docker compose ls" \in Reads /\ "find" \in Reads /\ "cat compose files" \in Reads
      /\ "docker compose ps" \in Reads /\ "docker compose logs" \in Reads
      /\ "docker compose up" \in Plain /\ "docker compose build" \in Plain
      /\ "docker compose pull" \in Plain /\ "docker compose down" \in Most
      /\ "docker compose restart" \in Most /\ "docker compose up --force-recreate" \in Most
      /\ "remove_volumes needs force" \in Subjects /\ "project with a file" \in Subjects
  BY DEF Reads, Mild, Plain, Most, Destructive, Replacing, Subjects
<1>2. Discovery \in BodiesThat({})
  BY <1>1, BodyRules DEF Discovery
<1>3. ResolveHost \o ResolveComposeProject \in Reading
  BY <1>1, <1>2, ReadingRules DEF ResolveComposeProject
<1>4. ComposeList \in Reading /\ ComposeRefresh \in Reading
  BY <1>2, ReadingRules, FamilyRules DEF ComposeList, ComposeRefresh
<1>5. ComposeStatus \in Reading /\ ComposeLogs \in Reading
  <2>1. StatusOnHost \in BodiesThat({}) /\ LogsOnHost \in BodiesThat({})
    BY <1>1, BodyRules DEF StatusOnHost, LogsOnHost
  <2> QED
    BY <1>3, <2>1, ReadingRules DEF ComposeStatus, ComposeLogs, OnProject
<1>6. ComposeUp \in Unasked /\ ComposeBuild \in Unasked /\ ComposePull \in Unasked
  <2>1. /\ UpOnHost \in BodiesThat(Plain) /\ BuildProjectOnHost \in BodiesThat(Plain)
        /\ PullProjectOnHost \in BodiesThat(Plain)
    BY <1>1, BodyRules DEF UpOnHost, BuildProjectOnHost, PullProjectOnHost
  <2> QED
    BY <1>3, <2>1, WritingRules DEF ComposeUp, ComposeBuild, ComposePull, OnProject
<1>7. ASSUME NEW b \in BodiesThat(Most) PROVE OnProjectGated(b) \in OfOne
  BY <1>3, WritingRules DEF OnProjectGated
<1>8. /\ DownOnHost \in BodiesThat(Most) /\ RestartOnHost \in BodiesThat(Most)
      /\ RecreateProjectOnHost \in BodiesThat(Most)
  BY <1>1, BodyRules DEF DownOnHost, RestartOnHost, RecreateProjectOnHost
<1>9. ComposeDown \in OfOne
  <2>1. Validate("remove_volumes needs force") \in Programs(Checks, {})
    BY <1>1, PhaseRules DEF Checks
  <2>2. \A q \in Programs(Checks, {}), p \in OfOne : q \o p \in OfOne
    BY ActingRules, FamilyRules, LastShapes DEF OfOne
  <2> QED
    BY <1>7, <1>8, <2>1, <2>2 DEF ComposeDown, ValidateDownArgs
<1> QED
  BY <1>2, <1>4, <1>5, <1>6, <1>7, <1>8, <1>9 DEF ComposeRestart, ComposeRecreate

\* The programs of HostOps.
LEMMA HostPrograms ==
    /\ HostStatus \in Reading /\ HostInfo \in Reading /\ HostUptime \in Reading
    /\ HostResources \in Reading /\ HostServices \in Reading /\ HostNetwork \in Reading
    /\ HostMounts \in Reading /\ HostPorts \in Reading /\ HostDoctor \in Reading
<1>1. \A c \in {"list_containers", "info", "uname", "uptime", "cat /proc/meminfo", "cat /proc/loadavg",
                "df", "systemctl list-units", "systemctl --failed", "ip addr", "cat /proc/net/dev",
                "df mounts", "journalctl -n 1", "ps"} : c \in Reads
  BY DEF Reads
<1>2. /\ InfoOnHost \in BodiesThat({}) /\ ListOnHost \in BodiesThat({})
      /\ HostInfoOnHost \in BodiesThat({}) /\ UptimeOnHost \in BodiesThat({})
      /\ ServicesOnHost \in BodiesThat({}) /\ MountsOnHost \in BodiesThat({})
      /\ Run("systemctl --failed") \in BodiesThat({})
      /\ Run("journalctl -n 1") \in BodiesThat({}) /\ Run("ps") \in BodiesThat({})
      /\ Client \in BodiesThat({})
  BY <1>1, BodyRules DEF InfoOnHost, ListOnHost, HostInfoOnHost, UptimeOnHost, ServicesOnHost, MountsOnHost
<1>3. ResourcesOnHost \in BodiesThat({})
  BY <1>1, BodyRules DEF ResourcesOnHost
<1>4. NetworkOnHost \in BodiesThat({})
  BY <1>1, BodyRules DEF NetworkOnHost
<1>5. DoctorOnHost \in BodiesThat({})
  BY <1>2, <1>3, <1>4, BodyRules DEF DoctorOnHost, DoctorCheckResources, DoctorCheckNetwork,
       DoctorCheckLogs, DoctorCheckProcesses, DoctorCheckServices
<1>6. /\ Client \o InfoOnHost \o ListOnHost \o Attempt(Run("systemctl --failed")) \in BodiesThat({})
      /\ Client \o ListOnHost \in BodiesThat({})
      /\ Attempt(Client \o Attempt(InfoOnHost) \o Attempt(ListOnHost)) \o DoctorOnHost \in BodiesThat({})
  BY <1>2, <1>5, BodyRules
<1>7. \A b \in BodiesThat({}) : TargetHosts \o Each(b) \in Reading /\ ResolveHost \o One(b) \in Reading
  BY ReadingRules
<1> QED
  BY <1>2, <1>3, <1>4, <1>6, <1>7 DEF HostStatus, HostInfo, HostUptime, HostResources, HostServices,
       HostNetwork, HostMounts, HostPorts, HostDoctor

\* The programs of ScoutOps.
LEMMA ScoutPrograms ==
    /\ ScoutNodes \in Reading /\ ScoutFind \in Reading /\ ScoutPs \in Reading /\ ScoutDf \in Reading
    /\ \A tree, local \in BOOLEAN : ScoutPeek(tree, local) \in Reading
    /\ \A local \in BOOLEAN : DeltaOfHosts(local) \in Reading /\ DeltaInline(local) \in Reading
    /\ ZfsPools \in Reading /\ ZfsDatasets \in Reading /\ ZfsSnapshots \in Reading
    /\ LogsSyslog \in Reading /\ LogsJournal \in Reading /\ LogsDmesg \in Reading /\ LogsAuth \in Reading
    /\ ScoutExec \in OfOne /\ ScoutEmit \in OfSeveral /\ ScoutBeam \in OfTwo
<1>1. /\ \A c \in {"read", "stat", "ls or head", "find", "cat", "ps", "df", "zpool list", "zfs list",
                   "zfs list -t snapshot", "tail syslog", "tail messages", "tail auth.log", "tail secure",
                   "journalctl", "dmesg", "validate_command"} : c \in Reads
      /\ \A w \in {"path", "path, pattern", "paths", "path, size", "sort", "unit, priority, time filters",
                   "path, command", "targets, command", "ssh user, ssh host"} : w \in Subjects
      /\ "exec" \in Most /\ "scp" \in Most
  BY DEF Reads, Subjects, Most, Destructive, Replacing
<1>2. \A b \in BodiesThat({}), w \in Subjects :
          /\ ResolveHost \o One(b) \in Reading
          /\ ResolveHost \o Validate(w) \in Reading /\ ResolveHost \o Validate(w) \o One(b) \in Reading
  BY ReadingRules
<1>3. \A c \in Reads : Run(c) \in BodiesThat({})
  BY BodyRules
<1>4. ASSUME NEW local \in BOOLEAN PROVE ReadFile(local) \in BodiesThat({})
  BY <1>1, BodyRules DEF ReadFile
<1>5. /\ ScoutNodes \in Reading /\ ScoutFind \in Reading /\ ScoutPs \in Reading /\ ScoutDf \in Reading
  BY <1>1, <1>2, <1>3, FamilyRules DEF ScoutNodes, ScoutFind, FindFiles, ScoutPs, ScoutDf
<1>6. ASSUME NEW tree \in BOOLEAN, NEW local \in BOOLEAN PROVE ScoutPeek(tree, local) \in Reading
  <2>1. PeekTree \in BodiesThat({}) /\ PeekLocal \in BodiesThat({}) /\ PeekRemote \in BodiesThat({})
    BY <1>1, BodyRules DEF PeekTree, PeekLocal, PeekRemote
  <2> QED
    BY <1>1, <1>2, <2>1 DEF ScoutPeek
<1>7. ASSUME NEW local \in BOOLEAN PROVE DeltaOfHosts(local) \in Reading /\ DeltaInline(local) \in Reading
  BY <1>1, <1>2, <1>4, ReadingRules DEF DeltaOfHosts, DeltaInline
<1>8. ZfsPools \in Reading /\ ZfsDatasets \in Reading /\ ZfsSnapshots \in Reading
  BY <1>1, <1>2, <1>3 DEF ZfsPools, ZfsDatasets, ZfsSnapshots
<1>9. LogsSyslog \in Reading /\ LogsAuth \in Reading
  <2>1. \A c, d \in Reads : RunTailWithFallback(c, d) \in BodiesThat({})
    BY <1>3, BodyRules DEF RunTailWithFallback
  <2> QED
    BY <1>1, <1>2, <2>1 DEF LogsSyslog, LogsAuth
<1>10. LogsJournal \in Reading /\ LogsDmesg \in Reading
  BY <1>1, <1>2, <1>3 DEF LogsJournal, LogsDmesg
<1>11. ScoutExec \in OfOne
  <2>1. Change("exec") \in BodiesThat(Most)
    BY <1>1, BodyRules
  <2>2. ResolveHost \o Validate("path, command") \in Reading
    BY <1>1, ReadingRules
  <2> QED
    BY <2>1, <2>2, WritingRules DEF ScoutExec
<1>12. ScoutEmit \in OfSeveral
  <2>1. Run("validate_command") \o Change("exec") \in BodiesThat(Most)
    BY <1>1, BodyRules
  <2>2. SeveralHosts \o Validate("targets, command") \in Picking
    BY <1>1, PhaseRules DEF Picking
  <2> QED
    BY <2>1, <2>2, WritingRules DEF ScoutEmit
<1>13. ScoutBeam \in OfTwo
  <2>1. Change("scp") \in BodiesThat(Most)
    BY <1>1, BodyRules
  <2>2. ResolveHost \o OtherHost \o Validate("paths") \in Resolving
    BY <1>1, FamilyRules, ReadingRules
  <2>3. Validate("ssh user, ssh host") \in Silent
    BY <1>1, ReadingRules
  <2> QED
    BY <2>1, <2>2, <2>3, WritingRules DEF ScoutBeam
<1> QED
  BY <1>5, <1>6, <1>7, <1>8, <1>9, <1>10, <1>11, <1>12, <1>13

\* A program of checks may come before the program of an operation.
LEMMA MadeRules ==
    /\ \A a, sub : \A p \in Reading \cup Listing : WellMade(Op(a, sub, p))
    /\ \A a, sub, p : \A q \in Programs(Checks, {}) :
          WellMade(Op(a, sub, p)) => WellMade(Op(a, sub, q \o p))
    /\ \A q, r \in Programs(Checks, {}) : q \o r \in Programs(Checks, {})
    /\ \A fields \in SUBSET Fields : Require(fields) \in Programs(Checks, {})
    /\ \A what \in Subjects : Validate(what) \in Programs(Checks, {})
<1>1. ASSUME NEW a, NEW sub, NEW p \in Reading \cup Listing PROVE WellMade(Op(a, sub, p))
  BY DEF WellMade, Op
<1>2. ASSUME NEW a, NEW sub, NEW p, NEW q \in Programs(Checks, {}), WellMade(Op(a, sub, p))
      PROVE  WellMade(Op(a, sub, q \o p))
  <2>1. Op(a, sub, p).action = a /\ Op(a, sub, p).sub = sub /\ Op(a, sub, p).prog = p
    BY DEF Op
  <2> QED
    BY <1>2, <2>1, CheckedRules
<1>3. "require" \in Checks /\ "validate" \in Checks
  BY DEF Checks
<1> QED
  BY <1>1, <1>2, <1>3, PhaseRules

\* Every operation of docker, by whichever order of checks.
LEMMA DockerTable ==
    \A o \in DispatchFluxDocker \cup RunDocker : WellMade(o)
<1>1. /\ WellMade(Op("docker", "pull", DockerPull)) /\ WellMade(Op("docker", "build", DockerBuild))
      /\ WellMade(Op("docker", "rmi", DockerRmi))
      /\ \A t \in PruneTargets : WellMade(Op("docker", "prune", DockerPrune(t)))
  BY DockerWrites DEF WellMade, Op, RequiredScopeForParsedAction, ScopeForFluxDocker
<1>2. /\ {"image", "host"} \in SUBSET Fields /\ {"context", "tag"} \in SUBSET Fields
      /\ {"host"} \in SUBSET Fields /\ {"image", "force", "host"} \in SUBSET Fields
      /\ {"prune_target"} \in SUBSET Fields /\ {"force", "host"} \in SUBSET Fields
      /\ {"host", "image"} \in SUBSET Fields /\ {"host", "context", "tag"} \in SUBSET Fields
      /\ {"host", "image", "force"} \in SUBSET Fields /\ {"host", "prune_target"} \in SUBSET Fields
      /\ {"force"} \in SUBSET Fields
      /\ "context" \in Subjects /\ "tag" \in Subjects /\ "dockerfile" \in Subjects
      /\ "prune_target" \in Subjects
  BY DEF Fields, Subjects
<1>3. BuildArgs \in Programs(Checks, {})
  BY <1>2, MadeRules DEF BuildArgs, ValidateBuildContext, ValidateDockerfile
<1>4. /\ WellMade(Op("docker", "info", DockerInfo)) /\ WellMade(Op("docker", "df", DockerDf))
      /\ WellMade(Op("docker", "images", DockerImages)) /\ WellMade(Op("docker", "networks", DockerNetworks))
      /\ WellMade(Op("docker", "volumes", DockerVolumes))
  BY MadeRules, DockerReads
<1>5. /\ WellMade(Op("docker", "pull", Require({"image", "host"}) \o DockerPull))
      /\ WellMade(Op("docker", "build", Require({"context", "tag"}) \o BuildArgs \o Require({"host"}) \o DockerBuild))
      /\ WellMade(Op("docker", "rmi", Require({"image", "force", "host"}) \o DockerRmi))
      /\ \A t \in PruneTargets : WellMade(Op("docker", "prune",
            Require({"prune_target"}) \o Validate("prune_target") \o Require({"force", "host"}) \o DockerPrune(t)))
  BY <1>1, <1>2, <1>3, MadeRules
<1>6. /\ WellMade(Op("docker", "pull", Require({"host", "image"}) \o DockerPull))
      /\ WellMade(Op("docker", "build", Require({"host", "context", "tag"}) \o BuildArgs \o DockerBuild))
      /\ WellMade(Op("docker", "rmi", Require({"host", "image", "force"}) \o DockerRmi))
      /\ \A t \in PruneTargets : WellMade(Op("docker", "prune",
            Require({"host", "prune_target"}) \o Validate("prune_target") \o Require({"force"}) \o DockerPrune(t)))
  BY <1>1, <1>2, <1>3, MadeRules
<1>7. \A o \in DispatchFluxDocker : WellMade(o)
  BY <1>4, <1>5 DEF DispatchFluxDocker
<1>8. \A o \in RunDocker : WellMade(o)
  BY <1>6, <1>7 DEF RunDocker
<1> QED
  BY <1>7, <1>8

\* Every operation of container.
LEMMA ContainerTable ==
    \A o \in DispatchFluxContainer : WellMade(o)
<1>1. /\ {"container_id"} \in SUBSET Fields /\ {"query"} \in SUBSET Fields /\ {"command"} \in SUBSET Fields
  BY DEF Fields
<1>2. \A a, sub, p : WellMade(Op(a, sub, p)) => WellMade(Op(a, sub, WithId(p)))
  BY <1>1, MadeRules DEF WithId
<1>3. /\ WellMade(Op("container", "list", ContainerList))
      /\ WellMade(Op("container", "search", Require({"query"}) \o ContainerSearch))
      /\ WellMade(Op("container", "stats", ContainerStatsOne)) /\ WellMade(Op("container", "stats", ContainerStatsAll))
      /\ WellMade(Op("container", "inspect", WithId(ContainerInspect)))
      /\ WellMade(Op("container", "top", WithId(ContainerTop)))
      /\ WellMade(Op("container", "logs", WithId(ContainerLogs)))
  BY <1>1, <1>2, DockerReads, MadeRules
<1>4. /\ WellMade(Op("container", "pull", ContainerPull)) /\ WellMade(Op("container", "exec", ContainerExec))
      /\ \A pull \in BOOLEAN : WellMade(Op("container", "recreate", ContainerRecreate(pull)))
      /\ \A sub \in {"start", "stop", "restart", "pause", "resume"} :
            WellMade(Op("container", sub, ContainerLifecycle(sub)))
  BY DockerWrites DEF WellMade, Op, RequiredScopeForParsedAction, ScopeForFluxContainer
<1>5. /\ WellMade(Op("container", "pull", WithId(ContainerPull)))
      /\ WellMade(Op("container", "exec", Require({"command"}) \o WithId(ContainerExec)))
      /\ WellMade(Op("container", "recreate", WithId(ContainerRecreate(TRUE))))
      /\ WellMade(Op("container", "recreate", WithId(ContainerRecreate(FALSE))))
      /\ \A sub \in {"start", "stop", "restart", "pause", "resume"} :
            WellMade(Op("container", sub, WithId(ContainerLifecycle(sub))))
  BY <1>1, <1>2, <1>4, MadeRules
<1> QED
  BY <1>3, <1>5 DEF DispatchFluxContainer

\* Every operation of host and of compose.
LEMMA HostTable ==
    \A o \in DispatchFluxHost \cup DispatchFluxCompose : WellMade(o)
<1>1. {"host"} \in SUBSET Fields /\ {"project"} \in SUBSET Fields
  BY DEF Fields
<1>2. \A a, sub, p : WellMade(Op(a, sub, p)) =>
          WellMade(Op(a, sub, OnHost(p))) /\ WellMade(Op(a, sub, OnHostProject(p)))
  BY <1>1, MadeRules DEF OnHost, OnHostProject
<1>3. ASSUME NEW o \in DispatchFluxHost PROVE WellMade(o)
  BY <1>2, HostPrograms, MadeRules DEF DispatchFluxHost
<1>4. \A p \in {ComposeUp, ComposeBuild, ComposePull, ComposeDown, ComposeRestart, ComposeRecreate},
         sub \in {"up", "down", "restart", "recreate", "build", "pull"} :
            WellMade(Op("compose", sub, p))
  BY ComposePrograms DEF WellMade, Op, RequiredScopeForParsedAction, ScopeForFluxCompose
<1>5. ASSUME NEW o \in DispatchFluxCompose PROVE WellMade(o)
  BY <1>2, <1>4, ComposePrograms, MadeRules DEF DispatchFluxCompose
<1> QED
  BY <1>3, <1>5

\* Every operation of scout.
LEMMA ScoutTable ==
    \A o \in RunScout : WellMade(o)
<1>1. /\ {"host"} \in SUBSET Fields /\ {"host", "path", "pattern"} \in SUBSET Fields
      /\ {"host", "command"} \in SUBSET Fields /\ {"targets", "command"} \in SUBSET Fields
      /\ {"host", "source_path", "dest_host", "dest_path"} \in SUBSET Fields
      /\ {"host", "path"} \in SUBSET Fields /\ {"host", "source_path"} \in SUBSET Fields
  BY DEF Fields
<1>2. \A a, sub, p : WellMade(Op(a, sub, p)) => WellMade(Op(a, sub, OnHost(p)))
  BY <1>1, MadeRules DEF OnHost
<1>3. \A o \in DispatchScoutZfs \cup DispatchScoutLogs : WellMade(o)
  BY <1>2, ScoutPrograms, MadeRules DEF DispatchScoutZfs, DispatchScoutLogs
<1>4. /\ WellMade(Op("exec", "", ScoutExec)) /\ WellMade(Op("emit", "", ScoutEmit))
      /\ WellMade(Op("beam", "", ScoutBeam))
  BY ScoutPrograms DEF WellMade, Op, RequiredScopeForParsedAction, RequiredScopeForAction
<1>5. /\ WellMade(Op("exec", "", Require({"host", "command"}) \o ScoutExec))
      /\ WellMade(Op("emit", "", Require({"targets", "command"}) \o ScoutEmit))
      /\ WellMade(Op("beam", "", Require({"host", "source_path", "dest_host", "dest_path"}) \o ScoutBeam))
  BY <1>1, <1>4, MadeRules
<1>6. /\ WellMade(Op("nodes", "", ScoutNodes))
      /\ WellMade(Op("find", "", Require({"host", "path", "pattern"}) \o ScoutFind))
      /\ WellMade(Op("ps", "", OnHost(ScoutPs))) /\ WellMade(Op("df", "", OnHost(ScoutDf)))
  BY <1>1, <1>2, ScoutPrograms, MadeRules
<1>7. \A tree, local \in BOOLEAN : WellMade(Op("peek", "", Require({"host", "path"}) \o ScoutPeek(tree, local)))
  BY <1>1, ScoutPrograms, MadeRules
<1>8. \A p \in {DeltaOfHosts(TRUE), DeltaOfHosts(FALSE), DeltaInline(TRUE), DeltaInline(FALSE)} :
          WellMade(Op("delta", "", Require({"host", "source_path"}) \o p))
  BY <1>1, ScoutPrograms, MadeRules
<1> DEFINE PeekOp(tree, local) == Op("peek", "", Require({"host", "path"}) \o ScoutPeek(tree, local))
           Peeks == {PeekOp(tree, local) : tree \in BOOLEAN, local \in BOOLEAN}
           Deltas == {Op("delta", "", Require({"host", "source_path"}) \o prog) :
                        prog \in {DeltaOfHosts(TRUE), DeltaOfHosts(FALSE), DeltaInline(TRUE), DeltaInline(FALSE)}}
           Rest == {Op("nodes", "", ScoutNodes),
                    Op("find", "", Require({"host", "path", "pattern"}) \o ScoutFind),
                    Op("ps", "", OnHost(ScoutPs)), Op("df", "", OnHost(ScoutDf)),
                    Op("exec", "", Require({"host", "command"}) \o ScoutExec),
                    Op("emit", "", Require({"targets", "command"}) \o ScoutEmit),
                    Op("beam", "", Require({"host", "source_path", "dest_host", "dest_path"}) \o ScoutBeam)}
<1>9. \A o \in Peeks : WellMade(o)
  <2>1. \A tree, local \in BOOLEAN : WellMade(PeekOp(tree, local))
    BY <1>7
  <2> HIDE DEF PeekOp
  <2> QED
    BY <2>1
<1>10. \A o \in Deltas : WellMade(o)
  BY <1>8
<1>11. \A o \in Rest : WellMade(o)
  BY <1>5, <1>6
<1>12. DispatchScout = Rest \cup Peeks \cup Deltas
  BY DEF DispatchScout
<1> HIDE DEF Rest, Peeks, Deltas
<1>13. \A o \in DispatchScout : WellMade(o)
  BY <1>9, <1>10, <1>11, <1>12
<1> QED
  BY <1>3, <1>13 DEF RunScout

\* Every operation that a surface offers is well made.
LEMMA OffersAreWellMade ==
    /\ \A o \in AllOperations : WellMade(o)
    /\ \A c \in AllCallers : Offered(c.surface) \subseteq AllOperations
<1>1. \A o \in Operations : WellMade(o)
  BY DockerTable, ContainerTable, HostTable, ScoutTable DEF Operations, RunScout
<1>2. \A o \in RestActions : WellMade(o)
  BY <1>1 DEF RestActions
<1>3. \A o \in ReadResource : WellMade(o)
  <2>1. OrElse(Run("cached list"), Discovery, {}) \in BodiesThat({})
    <3>1. "cached list" \in Reads
      BY DEF Reads
    <3> QED
      BY <3>1, ComposePrograms, BodyRules
  <2>2. ReadComposeProjectsResource \in Reading
    BY <2>1, ReadingRules DEF ReadComposeProjectsResource
  <2> QED
    BY <2>2, FamilyRules, MadeRules DEF ReadResource
<1>4. ASSUME NEW o, WellMade(o)
      PROVE  WellMade(Op(o.action, o.sub, Flags \o o.prog))
  <2>1. "flags" \in Subjects
    BY DEF Subjects
  <2> QED
    BY <1>4, <2>1, MadeRules, CheckedRules DEF Flags
<1>5. \A o \in CliCommands : WellMade(o)
  BY <1>4, DockerTable, ContainerTable, HostTable, ScoutTable
  DEF CliCommands, ParseFlux, ParseScout, RunContainer, RunHost, RunCompose
<1>6. /\ Offered("rest") = RestActions /\ Offered("mcp") = Operations \cup ReadResource
      /\ Offered("cli") = CliCommands
  BY DEF Offered
<1>7. \A c \in AllCallers : c.surface \in {"rest", "mcp", "cli"}
  BY DEF AllCallers
<1>8. RestActions \subseteq Operations
  BY DEF RestActions
<1> QED
  BY <1>1, <1>2, <1>3, <1>5, <1>6, <1>7, <1>8 DEF AllOperations

-----------------------------------------------------------------------------
(* What the proofs use of a program *)

Changing(x) == x.do \in WorkPhases /\ \E j \in DOMAIN x.body : x.body[j].writes

\* Only the last phase changes hosts, and only by actions that require it.
ChangesLast(o) ==
    \A i \in DOMAIN o.prog : Changing(o.prog[i]) =>
        /\ i = Len(o.prog)
        /\ RequiredScopeForParsedAction(o) = WRITE_SCOPE /\ o.action # "resource"
        /\ o.action \notin {"beam", "emit"} => o.prog[i].do \in {"first", "one"}

\* The question, if there is one, comes before; without it nothing is destroyed.
AsksBefore(p) ==
    \A i \in DOMAIN p : Changing(p[i]) =>
        \/ \E k \in 1..(i - 1) : p[k].do = "confirm"
        \/ /\ ~Gated(p)
           /\ \A j \in DOMAIN p[i].body : p[i].body[j].call \notin Destructive

\* After a question that names hosts no other hosts are chosen.
ActsOnNamed(p) ==
    \A k, i \in DOMAIN p : p[k].do = "confirm" /\ p[k].named /\ k < i =>
        \/ p[i].do \in {"validate", "one"}
        \/ p[i].do = "oneOther" /\ \E j \in 1..(k - 1) : p[j].do = "resolve"
        \/ p[i].do = "each" /\ \A j \in 1..(k - 1) : p[j].do \in {"require", "validate", "several"}

\* The daemons are discovered right after the hosts are chosen.
DiscoversTargets(p) ==
    \A i \in DOMAIN p : p[i].do = "discover" => i > 1 /\ p[i - 1].do = "target"

\* A container is removed only by the last steps but two on the one host, which
\* put its successor in place, and none is created otherwise.
Replaces(x) ==
    \A j \in DOMAIN x.body :
        /\ x.body[j].call = "remove" =>
              /\ x.do = "one" /\ DOMAIN x.body = 1..(j + 2)
              /\ x.body[j + 1].call = "create_container" /\ x.body[j + 2].call = "start"
              /\ \A k \in {j, j + 1} : x.body[k].ok = 0 /\ x.body[k].err = {Fail}
        /\ x.body[j].call = "create_container" =>
              x.body[j].via = "docker" /\ j > 1 /\ x.body[j - 1].call = "remove"

ReplacesRemoved(p) == \A i \in DOMAIN p : p[i].do \in WorkPhases => Replaces(p[i])

Facts(o) ==
    /\ o.prog \in Seq(Known)
    /\ ChangesLast(o) /\ AsksBefore(o.prog) /\ ActsOnNamed(o.prog)
    /\ \A i \in DOMAIN o.prog : o.prog[i].do = "several" => o.action = "emit"
    /\ DiscoversTargets(o.prog) /\ ReplacesRemoved(o.prog)

\* A phase that may change nothing does not, and removes nothing.
LEMMA PhaseFacts ==
    ASSUME NEW K, NEW W, NEW x \in Phases(K, W)
    PROVE  /\ x.do \in K /\ x.do # "confirm"
           /\ x.do \in WorkPhases => x.body \in BodiesThat(W)
           /\ W = {} => ~Changing(x)
           /\ x.do \in WorkPhases => \A j \in DOMAIN x.body :
                /\ x.body[j].writes => x.body[j].call \in W
                /\ ~x.body[j].writes => x.body[j].call \in Reads
<1>1. x.do \in K /\ x \in PhasesThat(W)
  BY DEF Phases
<1>2. x.do # "confirm" /\ (x.do \in WorkPhases => x.body \in BodiesThat(W))
  BY <1>1 DEF PhasesThat, WorkPhases
<1>3. ASSUME x.do \in WorkPhases, NEW j \in DOMAIN x.body
      PROVE  /\ x.body[j].writes => x.body[j].call \in W
             /\ ~x.body[j].writes => x.body[j].call \in Reads
  <2>1. x.body[j] \in StepsThat(W)
    BY <1>2, <1>3 DEF BodiesThat
  <2> QED
    BY <2>1 DEF StepsThat
<1>4. W = {} => ~Changing(x)
  BY <1>3 DEF Changing
<1> QED
  BY <1>1, <1>2, <1>3, <1>4

Quiet(x) ==
    /\ ~Changing(x) /\ x.do \notin {"confirm", "discover"}
    /\ x.do \in WorkPhases => Replaces(x)

\* In short, for the phases that change nothing.
LEMMA QuietFacts ==
    \A K : \A x \in Phases(K, {}) : x.do \in K /\ ("discover" \notin K => Quiet(x))
<1> SUFFICES ASSUME NEW K, NEW x \in Phases(K, {})
             PROVE  x.do \in K /\ ("discover" \notin K => Quiet(x))
  OBVIOUS
<1>1. /\ x.do \in K /\ x.do # "confirm" /\ ~Changing(x)
      /\ x.do \in WorkPhases => \A j \in DOMAIN x.body : x.body[j].writes \/ x.body[j].call \in Reads
  BY PhaseFacts
<1>2. "remove" \notin Reads /\ "create_container" \notin Reads
  BY DEF Reads
<1>3. x.do \in WorkPhases => Replaces(x)
  BY <1>1, <1>2 DEF Changing, Replaces
<1> QED
  BY <1>1, <1>3 DEF Quiet

\* What the members of Acting are.
Parted(p, B, named, C, L) ==
    \E b \in B, c \in C, w \in L : p = ((b \o Confirm(named)) \o c) \o w

LEMMA ActingMembers ==
    ASSUME NEW B, NEW named, NEW C, NEW L, NEW p \in Acting(B, named, C, L)
    PROVE  Parted(p, B, named, C, L)
BY DEF Acting, Parted

\* p is b, a question, c and x.
HasParts(p, b, named, c, x) ==
    /\ Len(p) = Len(b) + Len(c) + 2
    /\ \A i \in 1..Len(b) : p[i] = b[i]
    /\ p[Len(b) + 1] = [do |-> "confirm", named |-> named]
    /\ \A i \in 1..Len(c) : p[Len(b) + 1 + i] = c[i]
    /\ p[Len(p)] = x

Fit(B, named, C, L) ==
    /\ B \subseteq Seq(Known) /\ C \subseteq Seq(Known) /\ L \subseteq {<<x>> : x \in Known}
    /\ Confirm(named) \in Seq(Known)

\* p is put together of such parts, and of known phases.
OfParts(p, B, named, C, L) ==
    /\ p \in Seq(Known)
    /\ \E b \in B, c \in C, x \in Known : <<x>> \in L /\ HasParts(p, b, named, c, x)

\* A program that asks, part by part.
LEMMA ActingParts ==
    ASSUME NEW B, NEW C, NEW named, NEW L, Fit(B, named, C, L), NEW p \in Acting(B, named, C, L)
    PROVE  OfParts(p, B, named, C, L)
<1>1. PICK b \in B, c \in C, w \in L : p = ((b \o Confirm(named)) \o c) \o w
  <2>1. Parted(p, B, named, C, L)
    BY ActingMembers
  <2> QED
    BY <2>1, Zenon DEF Parted
<1> DEFINE g == Confirm(named)
<1>0. /\ B \subseteq Seq(Known) /\ C \subseteq Seq(Known) /\ L \subseteq {<<x>> : x \in Known}
      /\ g \in Seq(Known)
  BY DEF Fit
<1>2. b \in Seq(Known) /\ c \in Seq(Known) /\ w \in Seq(Known) /\ g \in Seq(Known)
  <2>1. w \in Seq(Known)
    <3>1. \A y \in Known : <<y>> \in Seq(Known)
      OBVIOUS
    <3> QED
      BY <1>0, <3>1
  <2> QED
    BY <1>0, <2>1
<1>3. PICK x \in Known : w = <<x>>
  BY <1>0
<1>4. /\ b \o g \in Seq(Known) /\ Len(b \o g) = Len(b) + 1
      /\ \A i \in 1..Len(b) : (b \o g)[i] = b[i]
      /\ (b \o g)[Len(b) + 1] = [do |-> "confirm", named |-> named]
  <2>1. Len(g) = 1 /\ g[1] = [do |-> "confirm", named |-> named]
    BY DEF Confirm
  <2> HIDE DEF g
  <2>2. /\ b \o g \in Seq(Known) /\ Len(b \o g) = Len(b) + Len(g) /\ Len(b) \in Nat
        /\ \A i \in 1..(Len(b) + Len(g)) : (b \o g)[i] = IF i <= Len(b) THEN b[i] ELSE g[i - Len(b)]
    BY <1>2, ConcatProperties
  <2>3. (b \o g)[Len(b) + 1] = g[1]
    BY <2>1, <2>2
  <2> QED
    BY <2>1, <2>2, <2>3
<1> DEFINE u == b \o g
           v == u \o c
<1> HIDE DEF g, u, v
<1>5. /\ v \in Seq(Known) /\ Len(v) = Len(u) + Len(c)
      /\ \A i \in 1..Len(u) : v[i] = u[i]
      /\ \A i \in 1..Len(c) : v[Len(u) + i] = c[i]
  <2>1. u \in Seq(Known)
    BY <1>4 DEF u
  <2>2. /\ u \o c \in Seq(Known) /\ Len(u \o c) = Len(u) + Len(c) /\ Len(u) \in Nat /\ Len(c) \in Nat
        /\ \A i \in 1..(Len(u) + Len(c)) : (u \o c)[i] = IF i <= Len(u) THEN u[i] ELSE c[i - Len(u)]
    BY <1>2, <2>1, ConcatProperties
  <2>3. ASSUME NEW i \in 1..Len(c) PROVE (u \o c)[Len(u) + i] = c[i]
    BY <2>2
  <2> QED
    BY <2>2, <2>3 DEF v
<1>6. /\ p \in Seq(Known) /\ Len(p) = Len(v) + 1 /\ p[Len(p)] = x
      /\ \A i \in 1..Len(v) : p[i] = v[i]
  <2>1. p = v \o w
    BY <1>1 DEF g, u, v
  <2>2. /\ v \o w \in Seq(Known) /\ Len(v \o w) = Len(v) + Len(w) /\ Len(v) \in Nat
        /\ \A i \in 1..(Len(v) + Len(w)) : (v \o w)[i] = IF i <= Len(v) THEN v[i] ELSE w[i - Len(v)]
    <3>1. v \in Seq(Known) /\ w \in Seq(Known)
      BY <1>2, <1>5
    <3> QED
      BY <3>1, ConcatProperties
  <2>3. Len(w) = 1 /\ w[1] = x
    BY <1>3
  <2> QED
    BY <2>1, <2>2, <2>3
<1>7. Len(u) = Len(b) + 1 /\ Len(b) \in Nat /\ Len(c) \in Nat
  BY <1>2, <1>4 DEF u
<1>8. /\ \A i \in 1..Len(b) : p[i] = b[i]
      /\ p[Len(b) + 1] = [do |-> "confirm", named |-> named]
  <2>1. /\ \A i \in 1..Len(b) : u[i] = b[i]
        /\ u[Len(b) + 1] = [do |-> "confirm", named |-> named]
    BY <1>4 DEF u
  <2>2. \A i \in 1..Len(u) : p[i] = u[i]
    BY <1>5, <1>6, <1>7
  <2> QED
    BY <1>7, <2>1, <2>2
<1>9. \A i \in 1..Len(c) : p[Len(b) + 1 + i] = c[i]
  BY <1>5, <1>6, <1>7
<1>10. Len(p) = Len(b) + Len(c) + 2
  BY <1>5, <1>6, <1>7
<1>11. <<x>> \in L
  BY <1>3
<1>12. HasParts(p, b, named, c, x)
  BY <1>6, <1>8, <1>9, <1>10 DEF HasParts
<1> QED
  BY <1>6, <1>11, <1>12 DEF OfParts

\* The facts about programs that ask, of every kind of them.
LEMMA ActingFacts ==
    ASSUME NEW B \in SUBSET (Reading \cup Picking), NEW C \in SUBSET Reading, NEW named \in BOOLEAN,
           NEW K \in SUBSET {"first", "one", "oneOther", "each"},
           NEW W \in SUBSET (Mild \cup Destructive), NEW L \in SUBSET Final(K, W),
           NEW o, o.prog \in Acting(B, named, C, L),
           RequiredScopeForParsedAction(o) = WRITE_SCOPE, o.action # "resource",
           o.action \notin {"beam", "emit"} => K \subseteq {"first", "one"},
           o.action = "emit" \/ B \subseteq Reading,
           named # FALSE =>
                /\ C \subseteq Silent
                /\ \/ K = {"one"}
                   \/ K = {"oneOther"} /\ B \subseteq Resolving
                   \/ K = {"each"} /\ B \subseteq Picking,
           \A x \in Phases(K, W) : <<x>> \in L => Replaces(x)
    PROVE  Facts(o)
<1> DEFINE p == o.prog
<1>1. B \in SUBSET Seq(Known) /\ C \in SUBSET Seq(Known)
  BY FamilyRules
<1>2. p \in Seq(Known) /\ \E b \in B, c \in C, x \in Known : <<x>> \in L /\ HasParts(p, b, named, c, x)
  <2>1. L \in SUBSET {<<x>> : x \in Known}
    <3>1. Phases(K, W) \subseteq Phases(K, Mild \cup Destructive)
      BY ShapeMonotone
    <3>2. Phases(K, W) \subseteq Known
      BY <3>1 DEF Phases, Known
    <3> HIDE DEF Phases, Known
    <3> QED
      BY <3>2 DEF Final
  <2>2. Fit(B, named, C, L) /\ p \in Acting(B, named, C, L)
    BY <1>1, <2>1, KnownShapes DEF Fit
  <2> HIDE DEF p
  <2>3. OfParts(p, B, named, C, L)
    BY <2>2, ActingParts
  <2> QED
    BY <2>3, Zenon DEF OfParts
<1> HIDE DEF p
<1>3. PICK b \in B, c \in C, x \in Phases(K, W) : <<x>> \in L /\ HasParts(p, b, named, c, x)
  <2>1. PICK b \in B, c \in C, x \in Known : <<x>> \in L /\ HasParts(p, b, named, c, x)
    BY <1>2
  <2>2. x \in Phases(K, W)
    BY <2>1 DEF Final
  <2> QED
    BY <2>1, <2>2
<1>0. /\ Len(p) = Len(b) + Len(c) + 2
      /\ \A i \in 1..Len(b) : p[i] = b[i]
      /\ p[Len(b) + 1] = [do |-> "confirm", named |-> named]
      /\ \A i \in 1..Len(c) : p[Len(b) + 1 + i] = c[i]
      /\ p[Len(p)] = x
  BY <1>3 DEF HasParts
<1> DEFINE q == Len(b) + 1
<1>4. /\ Len(b) \in Nat /\ Len(c) \in Nat /\ b \in Seq(Known) /\ c \in Seq(Known)
      /\ DOMAIN p = 1..Len(p) /\ Len(p) = q + Len(c) + 1 /\ q \in DOMAIN p
  BY <1>0, <1>1, <1>2
<1>5. /\ \A i \in 1..Len(b) : b[i] \in Phases(Asking \cup {"several"}, {})
      /\ B \subseteq Reading => \A i \in 1..Len(b) : b[i] \in Phases(Asking, {})
      /\ B \subseteq Picking => \A i \in 1..Len(b) : b[i] \in Phases({"require", "validate", "several"}, {})
      /\ B \subseteq Resolving => \E i \in 1..Len(b) : b[i].do = "resolve"
  <2>1. \A y \in Phases(Asking, {}) \cup Phases({"require", "validate", "several"}, {}) :
            y \in Phases(Asking \cup {"several"}, {})
    BY DEF Phases, Asking, Checks
  <2>2. B \subseteq Reading => \A i \in 1..Len(b) : b[i] \in Phases(Asking, {})
    BY DEF Reading, Programs
  <2>3. B \subseteq Picking => \A i \in 1..Len(b) : b[i] \in Phases({"require", "validate", "several"}, {})
    BY DEF Picking, Programs
  <2>4. b \in Reading \/ b \in Picking
    OBVIOUS
  <2>5. \A i \in 1..Len(b) : b[i] \in Phases(Asking \cup {"several"}, {})
    <3>1. CASE b \in Reading
      <4>1. \A i \in 1..Len(b) : b[i] \in Phases(Asking, {})
        BY <3>1 DEF Reading, Programs
      <4> QED
        BY <2>1, <4>1
    <3>2. CASE b \in Picking
      <4>1. \A i \in 1..Len(b) : b[i] \in Phases({"require", "validate", "several"}, {})
        BY <3>2 DEF Picking, Programs
      <4> QED
        BY <2>1, <4>1
    <3> QED
      BY <2>4, <3>1, <3>2
  <2>6. B \subseteq Resolving => \E i \in 1..Len(b) : b[i].do = "resolve"
    BY <1>4 DEF Resolving
  <2> QED
    BY <2>2, <2>3, <2>5, <2>6
<1>6. /\ \A i \in 1..Len(c) : c[i] \in Phases(Asking, {})
      /\ C \subseteq Silent => \A i \in 1..Len(c) : c[i] \in Phases({"validate"}, {})
  BY DEF Reading, Silent, Programs
<1>16. /\ \A i \in 1..Len(b) : Quiet(b[i]) /\ (b[i].do = "several" => o.action = "emit")
       /\ \A i \in 1..Len(c) : Quiet(c[i]) /\ c[i].do # "several"
       /\ C \subseteq Silent => \A i \in 1..Len(c) : c[i].do = "validate"
       /\ B \subseteq Picking => \A i \in 1..Len(b) : b[i].do \in {"require", "validate", "several"}
  <2>1. "discover" \notin Asking \cup {"several"} /\ "several" \notin Asking /\ "discover" \notin Asking
    BY DEF Asking, Checks
  <2>2. ASSUME NEW i \in 1..Len(b) PROVE Quiet(b[i]) /\ (b[i].do = "several" => o.action = "emit")
    <3>1. b[i] \in Phases(Asking \cup {"several"}, {})
      BY <1>5
    <3>2. Quiet(b[i])
      BY <2>1, <3>1, QuietFacts
    <3>3. o.action = "emit" \/ b[i] \in Phases(Asking, {})
      BY <1>5
    <3> QED
      BY <2>1, <3>2, <3>3, QuietFacts
  <2>3. ASSUME NEW i \in 1..Len(c) PROVE Quiet(c[i]) /\ c[i].do # "several"
    <3>1. c[i] \in Phases(Asking, {})
      BY <1>6
    <3> QED
      BY <2>1, <3>1, QuietFacts
  <2>4. ASSUME C \subseteq Silent, NEW i \in 1..Len(c) PROVE c[i].do = "validate"
    <3>1. c[i] \in Phases({"validate"}, {})
      BY <1>6, <2>4
    <3> QED
      BY <3>1, QuietFacts
  <2>5. ASSUME B \subseteq Picking, NEW i \in 1..Len(b) PROVE b[i].do \in {"require", "validate", "several"}
    <3>1. b[i] \in Phases({"require", "validate", "several"}, {})
      BY <1>5, <2>5
    <3> QED
      BY <3>1, QuietFacts
  <2> QED
    BY <2>2, <2>3, <2>4, <2>5
\* Where a phase of the program comes from.
<1>7. ASSUME NEW i \in DOMAIN p
      PROVE  \/ i < q /\ p[i] = b[i] /\ i \in 1..Len(b)
             \/ i = q
             \/ q < i /\ i < Len(p) /\ (i - q) \in 1..Len(c) /\ p[i] = c[i - q]
             \/ i = Len(p) /\ q < i
  <2>1. CASE q < i /\ i < Len(p)
    <3>1. (i - q) \in 1..Len(c) /\ i = q + (i - q)
      BY <1>4, <2>1
    <3> QED
      BY <1>0, <2>1, <3>1
  <2>2. CASE i < q
    BY <1>0, <1>4, <2>2
  <2> QED
    BY <1>4, <2>1, <2>2
<1>8. p[q] = [do |-> "confirm", named |-> named] /\ p[Len(p)] = x
  BY <1>0
<1>9. /\ x.do \in K /\ x.do \in WorkPhases /\ {} \in SUBSET (Mild \cup Destructive)
      /\ "confirm" \notin WorkPhases
  BY PhaseFacts DEF WorkPhases
<1>17. /\ \A i \in DOMAIN p : i < q => p[i] = b[i] /\ i \in 1..Len(b)
       /\ \A i \in DOMAIN p : q < i /\ i < Len(p) => p[i] = c[i - q] /\ (i - q) \in 1..Len(c)
       /\ \A i \in DOMAIN p : i < q \/ i = q \/ (q < i /\ i < Len(p)) \/ i = Len(p)
  BY <1>4, <1>7
<1> HIDE DEF q
<1>10. ASSUME NEW i \in DOMAIN p, i # Len(p) PROVE ~Changing(p[i])
  <2>1. CASE i < q
    BY <1>7, <1>16, <2>1, <1>17 DEF Quiet
  <2>2. CASE i = q
    BY <1>8, <1>9, <2>2 DEF Changing
  <2>3. CASE q < i /\ i < Len(p)
    BY <1>7, <1>16, <2>3, <1>17 DEF Quiet
  <2> QED
    BY <1>10, <1>17, <2>1, <2>2, <2>3
<1>11. ChangesLast(o)
  BY <1>8, <1>9, <1>10 DEF ChangesLast, p
<1>12. AsksBefore(p)
  <2> SUFFICES ASSUME NEW i \in DOMAIN p, Changing(p[i])
               PROVE  \E k \in 1..(i - 1) : p[k].do = "confirm"
    BY DEF AsksBefore
  <2>1. i = Len(p)
    BY <1>10
  <2>2. q \in 1..(i - 1)
    BY <1>4, <2>1
  <2> QED
    BY <1>8, <2>2
<1>13. ActsOnNamed(p)
  <2> SUFFICES ASSUME NEW k \in DOMAIN p, NEW i \in DOMAIN p, p[k].do = "confirm", p[k].named, k < i
               PROVE  \/ p[i].do \in {"validate", "one"}
                      \/ p[i].do = "oneOther" /\ \E j \in 1..(k - 1) : p[j].do = "resolve"
                      \/ p[i].do = "each" /\ \A j \in 1..(k - 1) : p[j].do \in {"require", "validate", "several"}
    BY DEF ActsOnNamed
  <2>1. k = q /\ named # FALSE
    <3>1. k # Len(p)
      BY <1>4
    <3>2. ~(k < q)
      BY <1>16, <1>17 DEF Quiet
    <3>3. ~(q < k /\ k < Len(p))
      BY <1>16, <1>17 DEF Quiet
    <3>4. k = q
      BY <1>17, <3>1, <3>2, <3>3
    <3>5. p[k] = [do |-> "confirm", named |-> named]
      BY <1>8, <3>4
    <3>6. named # FALSE
      BY <3>5
    <3> QED
      BY <3>4, <3>6
  <2>2. CASE i < Len(p)
    <3>1. p[i] = c[i - q] /\ (i - q) \in 1..Len(c)
      BY <1>17, <2>1, <2>2
    <3>2. p[i].do = "validate"
      BY <1>16, <2>1, <3>1
    <3> QED
      BY <3>2
  <2>3. CASE i = Len(p)
    <3>1. p[i].do \in K
      BY <1>8, <1>9, <2>3
    <3>2. CASE K = {"one"}
      BY <3>1, <3>2
    <3>3. CASE K = {"oneOther"} /\ B \subseteq Resolving
      <4>1. PICK j \in 1..Len(b) : b[j].do = "resolve"
        BY <1>5, <3>3
      <4>2. j \in 1..(k - 1) /\ p[j] = b[j]
        BY <1>0, <1>4, <2>1 DEF q
      <4> QED
        BY <3>1, <3>3, <4>1, <4>2
    <3>4. CASE K = {"each"} /\ B \subseteq Picking
      <4>1. ASSUME NEW j \in 1..(k - 1) PROVE p[j].do \in {"require", "validate", "several"}
        <5>1. j \in 1..Len(b) /\ p[j] = b[j]
          BY <1>0, <1>4, <2>1 DEF q
        <5> QED
          BY <1>16, <3>4, <5>1
      <4> QED
        BY <3>1, <3>4, <4>1
    <3> QED
      BY <2>1, <3>2, <3>3, <3>4
  <2> QED
    BY <1>4, <2>2, <2>3
<1>14. ASSUME NEW i \in DOMAIN p
       PROVE  p[i].do # "discover" /\ (p[i].do = "several" => o.action = "emit")
  <2>1. /\ "discover" \notin Asking \cup {"several"} /\ "several" \notin Asking
        /\ "discover" \notin K /\ "several" \notin K
    BY DEF Asking, Checks
  <2>2. CASE i < q
    BY <1>16, <1>17, <2>2 DEF Quiet
  <2>3. CASE i = q
    BY <1>8, <2>3
  <2>4. CASE q < i /\ i < Len(p)
    BY <1>16, <1>17, <2>4 DEF Quiet
  <2>5. CASE i = Len(p)
    BY <1>8, <1>9, <2>1, <2>5
  <2> QED
    BY <1>17, <2>2, <2>3, <2>4, <2>5
<1>15. ReplacesRemoved(p)
  <2> SUFFICES ASSUME NEW i \in DOMAIN p, p[i].do \in WorkPhases PROVE Replaces(p[i])
    BY DEF ReplacesRemoved
  <2>2. CASE i < q
    BY <1>16, <1>17, <2>2 DEF Quiet
  <2>3. CASE i = q
    BY <1>8, <1>9, <2>3
  <2>4. CASE q < i /\ i < Len(p)
    BY <1>16, <1>17, <2>4 DEF Quiet
  <2>5. CASE i = Len(p)
    <3>1. p[i] = x /\ <<x>> \in L
      BY <1>0, <1>3, <2>5
    <3> QED
      BY <3>1
  <2> QED
    BY <1>17, <2>2, <2>3, <2>4, <2>5
<1> QED
  BY <1>2, <1>11, <1>12, <1>13, <1>14, <1>15 DEF Facts, DiscoversTargets, p

\* The same, in the form in which it is used.
Acts(o, B, named, C, K, W, L) ==
    /\ B \subseteq Reading \cup Picking /\ C \subseteq Reading /\ named \in BOOLEAN
    /\ K \subseteq {"first", "one", "oneOther", "each"} /\ W \subseteq Mild \cup Destructive
    /\ L \subseteq Final(K, W) /\ o.prog \in Acting(B, named, C, L)
    /\ RequiredScopeForParsedAction(o) = WRITE_SCOPE /\ o.action # "resource"
    /\ o.action \notin {"beam", "emit"} => K \subseteq {"first", "one"}
    /\ o.action = "emit" \/ B \subseteq Reading
    /\ named # FALSE =>
          /\ C \subseteq Silent
          /\ \/ K = {"one"}
             \/ K = {"oneOther"} /\ B \subseteq Resolving
             \/ K = {"each"} /\ B \subseteq Picking
    /\ \A x \in Phases(K, W) : <<x>> \in L => Replaces(x)

\* An operation that acts as described has the facts.
LEMMA ActsFacts ==
    ASSUME NEW o, NEW B, NEW named, NEW C, NEW K, NEW W, NEW L, Acts(o, B, named, C, K, W, L)
    PROVE  Facts(o)
<1>1. /\ B \in SUBSET (Reading \cup Picking) /\ C \in SUBSET Reading /\ named \in BOOLEAN
      /\ K \in SUBSET {"first", "one", "oneOther", "each"}
      /\ W \in SUBSET (Mild \cup Destructive)
      /\ L \in SUBSET Final(K, W)
  BY DEF Acts
<1>2. /\ o.prog \in Acting(B, named, C, L)
      /\ RequiredScopeForParsedAction(o) = WRITE_SCOPE /\ o.action # "resource"
      /\ o.action \notin {"beam", "emit"} => K \subseteq {"first", "one"}
      /\ o.action = "emit" \/ B \subseteq Reading
  BY DEF Acts
<1>3. named # FALSE =>
          /\ C \subseteq Silent
          /\ \/ K = {"one"}
             \/ K = {"oneOther"} /\ B \subseteq Resolving
             \/ K = {"each"} /\ B \subseteq Picking
  BY DEF Acts
<1>4. \A x \in Phases(K, W) : <<x>> \in L => Replaces(x)
  BY DEF Acts
<1> QED
  BY <1>1, <1>2, <1>3, <1>4, ActingFacts

\* About programs of which no phase changes anything or asks.
LEMMA QuietPrograms ==
    ASSUME NEW o, o.prog \in Seq(Known),
           \A i \in DOMAIN o.prog :
              /\ ~Changing(o.prog[i]) /\ o.prog[i].do \notin {"confirm", "several"}
              /\ o.prog[i].do = "discover" => i > 1 /\ o.prog[i - 1].do = "target"
              /\ o.prog[i].do \in WorkPhases => Replaces(o.prog[i])
    PROVE  Facts(o)
BY DEF Facts, ChangesLast, AsksBefore, ActsOnNamed, DiscoversTargets, ReplacesRemoved

\* About programs that read.
LEMMA ReadingFacts ==
    ASSUME NEW o, o.prog \in Reading
    PROVE  Facts(o)
<1>1. "discover" \notin Asking /\ "several" \notin Asking
  BY DEF Asking, Checks
<1>2. o.prog \in Seq(Known)
  BY FamilyRules
<1>3. ASSUME NEW i \in DOMAIN o.prog
      PROVE  o.prog[i].do \in Asking /\ Quiet(o.prog[i])
  <2>1. o.prog[i] \in Phases(Asking, {})
    BY DEF Reading, Programs
  <2> QED
    BY <1>1, <2>1, QuietFacts
<1> QED
  BY <1>1, <1>2, <1>3, QuietPrograms DEF Quiet

\* About programs that list.
LEMMA ListingFacts ==
    ASSUME NEW o, o.prog \in Listing
    PROVE  Facts(o)
<1> DEFINE p == o.prog
<1>1. PICK cd \in Then(Programs(Checks, {}), {DockerHosts}), w \in Programs({"each"}, {}) : p = cd \o w
  <2> DEFINE B == Then(Programs(Checks, {}), {DockerHosts})
             L == Programs({"each"}, {})
  <2>1. p \in Then(B, L)
    BY DEF Listing
  <2> HIDE DEF B, L, p
  <2>2. \E b \in B, w \in L : p = b \o w
    BY <2>1, ThenMembers
  <2> QED
    BY <2>2 DEF B, L
<1>2. PICK c \in Programs(Checks, {}) : cd = c \o DockerHosts
  BY ThenMembers
<1>3. /\ c \in Seq(Known) /\ w \in Seq(Known) /\ DockerHosts \in Seq(Known)
      /\ Len(c) \in Nat /\ Len(w) \in Nat
  BY FamilyRules, ListingShapes
<1>4. Len(DockerHosts) = 2 /\ DockerHosts[1].do = "target" /\ DockerHosts[2] = Discover[1]
  <2> DEFINE x == [do |-> "target"]
             y == [do |-> "discover", body |-> Client \o Get("daemon_id"), evict |-> FALSE]
  <2>1. DockerHosts = <<x>> \o <<y>> /\ Discover[1] = y /\ x.do = "target"
    BY DEF DockerHosts, TargetHosts, Discover
  <2> HIDE DEF x, y
  <2>2. /\ <<x>> \in Seq({x, y}) /\ <<y>> \in Seq({x, y}) /\ Len(<<x>>) = 1 /\ Len(<<y>>) = 1
        /\ <<x>>[1] = x /\ <<y>>[1] = y
    OBVIOUS
  <2> DEFINE u == <<x>>
             v == <<y>>
  <2> HIDE DEF u, v
  <2>3. /\ Len(u \o v) = 2
        /\ \A i \in 1..2 : (u \o v)[i] = IF i <= 1 THEN u[i] ELSE v[i - 1]
    BY <2>2, ConcatProperties DEF u, v
  <2> QED
    BY <2>1, <2>2, <2>3 DEF u, v
<1>5. /\ cd \in Seq(Known) /\ Len(cd) = Len(c) + 2
      /\ \A i \in 1..Len(c) : cd[i] = c[i]
      /\ cd[Len(c) + 1].do = "target" /\ cd[Len(c) + 2] = Discover[1]
  <2> DEFINE d == DockerHosts
  <2> HIDE DEF d
  <2>1. /\ c \o d \in Seq(Known) /\ Len(c \o d) = Len(c) + Len(d)
        /\ \A i \in 1..(Len(c) + Len(d)) : (c \o d)[i] = IF i <= Len(c) THEN c[i] ELSE d[i - Len(c)]
    BY <1>3, ConcatProperties DEF d
  <2>2. Len(d) = 2 /\ d[1].do = "target" /\ d[2] = Discover[1] /\ cd = c \o d
    BY <1>2, <1>4 DEF d
  <2> QED
    BY <1>3, <2>1, <2>2
<1>6. /\ p \in Seq(Known) /\ Len(p) = Len(c) + 2 + Len(w)
      /\ \A i \in 1..(Len(c) + 2) : p[i] = cd[i]
      /\ \A i \in 1..Len(w) : p[Len(c) + 2 + i] = w[i]
  <2>1. /\ cd \o w \in Seq(Known) /\ Len(cd \o w) = Len(cd) + Len(w)
        /\ \A i \in 1..(Len(cd) + Len(w)) : (cd \o w)[i] = IF i <= Len(cd) THEN cd[i] ELSE w[i - Len(cd)]
    <3>1. cd \in Seq(Known)
      BY <1>5
    <3> QED
      BY <1>3, <3>1, ConcatProperties
  <2> QED
    BY <1>1, <1>3, <1>5, <2>1
<1> HIDE DEF p
<1>7. /\ \A i \in 1..Len(c) : Quiet(c[i]) /\ c[i].do # "several"
      /\ \A i \in 1..Len(w) : Quiet(w[i]) /\ w[i].do # "several"
  <2>1. /\ \A i \in 1..Len(c) : c[i] \in Phases(Checks, {})
        /\ \A i \in 1..Len(w) : w[i] \in Phases({"each"}, {})
    BY DEF Programs
  <2>2. "discover" \notin Checks /\ "several" \notin Checks
    BY DEF Checks
  <2> QED
    BY <2>1, <2>2, QuietFacts
<1>8. /\ ~Changing(Discover[1]) /\ Discover[1].do = "discover"
      /\ Replaces(Discover[1])
  <2> DEFINE b == Client \o Get("daemon_id")
             x == [do |-> "discover", body |-> b, evict |-> FALSE]
  <2>1. b \in BodiesThat({})
    BY BodyRules DEF Reads
  <2>2. Discover[1] = x
    BY DEF Discover
  <2> HIDE DEF b
  <2>3. x \in Phases({"discover"}, {})
    BY <2>1 DEF Phases, PhasesThat, WorkPhases, DropsClient
  <2> HIDE DEF x
  <2>4. /\ x.do = "discover" /\ ~Changing(x)
        /\ x.do \in WorkPhases => \A j \in DOMAIN x.body : x.body[j].writes \/ x.body[j].call \in Reads
    BY <2>3, PhaseFacts
  <2>5. "discover" \in WorkPhases /\ "remove" \notin Reads /\ "create_container" \notin Reads
    BY DEF WorkPhases, Reads
  <2>6. Replaces(x)
    BY <2>4, <2>5 DEF Changing, Replaces
  <2> QED
    BY <2>2, <2>4, <2>6
<1>9. ASSUME NEW i \in DOMAIN p
      PROVE  /\ ~Changing(p[i]) /\ p[i].do \notin {"confirm", "several"}
             /\ p[i].do = "discover" => i > 1 /\ p[i - 1].do = "target"
             /\ p[i].do \in WorkPhases => Replaces(p[i])
  <2>1. CASE i \in 1..Len(c)
    <3>1. p[i] = c[i]
      BY <1>3, <1>5, <1>6, <2>1
    <3> QED
      BY <1>7, <2>1, <3>1 DEF Quiet
  <2>2. CASE i = Len(c) + 1
    <3>1. p[i].do = "target"
      BY <1>3, <1>5, <1>6, <2>2
    <3> QED
      BY <3>1 DEF Changing, WorkPhases
  <2>3. CASE i = Len(c) + 2
    <3>1. p[i] = Discover[1] /\ p[i - 1].do = "target" /\ i > 1
      BY <1>3, <1>5, <1>6, <2>3
    <3> QED
      BY <1>8, <3>1
  <2>4. CASE i > Len(c) + 2
    <3>1. i - (Len(c) + 2) \in 1..Len(w) /\ p[i] = w[i - (Len(c) + 2)]
      BY <1>3, <1>6, <2>4
    <3> QED
      BY <1>7, <3>1 DEF Quiet
  <2> QED
    BY <1>3, <1>6, <2>1, <2>2, <2>3, <2>4
<1> QED
  BY <1>6, <1>9, QuietPrograms DEF p

\* About programs that change hosts without a question.
LEMMA UnaskedFacts ==
    ASSUME NEW o, o.prog \in Unasked, RequiredScopeForParsedAction(o) = WRITE_SCOPE,
           o.action # "resource"
    PROVE  Facts(o)
<1> DEFINE p == o.prog
<1>1. PICK b \in Reading, w \in Final({"first", "one"}, Plain) : p = b \o w
  BY ThenMembers DEF Unasked
<1>2. PICK x \in Phases({"first", "one"}, Plain) : w = <<x>>
  BY DEF Final
<1>3. b \in Seq(Known) /\ w \in Seq(Known) /\ Len(b) \in Nat
  BY FamilyRules, LastShapes
<1>4. /\ p \in Seq(Known) /\ Len(p) = Len(b) + 1 /\ p[Len(p)] = x
      /\ \A i \in 1..Len(b) : p[i] = b[i]
  <2>1. /\ b \o w \in Seq(Known) /\ Len(b \o w) = Len(b) + Len(w)
        /\ \A i \in 1..(Len(b) + Len(w)) : (b \o w)[i] = IF i <= Len(b) THEN b[i] ELSE w[i - Len(b)]
    BY <1>3, ConcatProperties
  <2>2. Len(w) = 1 /\ w[1] = x
    BY <1>2
  <2> QED
    BY <1>1, <1>3, <2>1, <2>2
<1> HIDE DEF p
<1>5. \A i \in 1..Len(b) : Quiet(b[i]) /\ b[i].do # "several"
  <2>1. \A i \in 1..Len(b) : b[i] \in Phases(Asking, {})
    BY DEF Reading, Programs
  <2>2. "discover" \notin Asking /\ "several" \notin Asking
    BY DEF Asking, Checks
  <2> QED
    BY <2>1, <2>2, QuietFacts
<1>6. /\ x.do \in {"first", "one"} /\ x.do \in WorkPhases
      /\ \A j \in DOMAIN x.body : x.body[j].call \in Plain \cup Reads
  BY PhaseFacts DEF WorkPhases
<1>7. \A y \in Plain \cup Reads : y \notin Destructive /\ y # "remove" /\ y # "create_container"
  <2>1. /\ \A t \in DOMAIN PruneCall : PruneCall[t] \in {"prune_containers", "prune_images",
              "prune_volumes", "prune_networks", "prune_build"}
    BY DEF PruneCall
  <2>2. \A y \in Destructive : y \notin Plain
    BY <2>1 DEF Plain, Mild, Destructive
  <2>3. \A y \in Destructive : y \notin Reads
    <3>0. /\ "prune_containers" \notin Reads /\ "prune_images" \notin Reads
          /\ "prune_volumes" \notin Reads /\ "prune_networks" \notin Reads
          /\ "prune_build" \notin Reads
      BY DEF Reads
    <3>1. \A t \in DOMAIN PruneCall : PruneCall[t] \notin Reads
      BY <2>1, <3>0
    <3>2. /\ "stop" \notin Reads /\ "remove" \notin Reads /\ "start_exec" \notin Reads
          /\ "remove_image" \notin Reads /\ "docker build" \notin Reads
      BY DEF Reads
    <3>3. /\ "docker compose down" \notin Reads /\ "docker compose restart" \notin Reads
          /\ "docker compose up --force-recreate" \notin Reads
          /\ "exec" \notin Reads /\ "scp" \notin Reads
      BY DEF Reads
    <3> QED
      BY <3>1, <3>2, <3>3 DEF Destructive
  <2>4. "remove" \in Destructive /\ "create_container" \notin Plain \cup Reads
    BY DEF Destructive, Plain, Replacing, Reads
  <2> QED
    BY <2>2, <2>3, <2>4
<1>8. ASSUME NEW i \in DOMAIN p
      PROVE  \/ i \in 1..Len(b) /\ p[i] = b[i]
             \/ i = Len(p) /\ p[i] = x
  BY <1>3, <1>4
<1>9. ~Gated(p)
  BY <1>5, <1>6, <1>8 DEF Gated, Quiet
<1>10. ChangesLast(o)
  BY <1>5, <1>6, <1>8 DEF ChangesLast, Quiet, p
<1>11. AsksBefore(p)
  BY <1>5, <1>6, <1>7, <1>8, <1>9 DEF AsksBefore, Quiet
<1>12. ActsOnNamed(p)
  BY <1>9 DEF ActsOnNamed, Gated
<1>13. DiscoversTargets(p) /\ \A i \in DOMAIN p : p[i].do # "several"
  BY <1>5, <1>6, <1>8 DEF DiscoversTargets, Quiet
<1>14. ReplacesRemoved(p)
  <2>1. Replaces(x)
    BY <1>6, <1>7 DEF Replaces
  <2> QED
    BY <1>5, <1>8, <2>1 DEF ReplacesRemoved, Quiet
<1> QED
  BY <1>4, <1>10, <1>11, <1>12, <1>13, <1>14 DEF Facts, p

\* Where nothing is removed nothing need follow.
LEMMA MostReplaceNothing ==
    ASSUME NEW K, K \subseteq WorkPhases, NEW x \in Phases(K, Most)
    PROVE  Replaces(x)
<1>1. \A c \in Replacing : c \notin Most /\ c \notin Reads
  BY DEF Most, Reads, Replacing
<1>2. x.do \in WorkPhases
  BY PhaseFacts
<1>3. \A j \in DOMAIN x.body : x.body[j].call \notin Replacing
  BY <1>1, <1>2, PhaseFacts
<1> QED
  BY <1>3 DEF Replaces, Replacing

\* Sequences one after the other.
LEMMA ConcatFacts ==
    ASSUME NEW S, NEW a \in Seq(S), NEW e \in Seq(S)
    PROVE  /\ a \o e \in Seq(S) /\ Len(a) \in Nat /\ Len(a \o e) = Len(a) + Len(e)
           /\ \A i \in 1..(Len(a) + Len(e)) :
                  (a \o e)[i] = IF i <= Len(a) THEN a[i] ELSE e[i - Len(a)]
BY ConcatProperties

\* A sequence and one element more.
LEMMA OneMore ==
    ASSUME NEW S, NEW a \in Seq(S), NEW e \in Seq(S), Len(e) = 1
    PROVE  /\ a \o e \in Seq(S) /\ Len(a) \in Nat /\ Len(a \o e) = Len(a) + 1
           /\ \A i \in 1..Len(a) : (a \o e)[i] = a[i]
           /\ (a \o e)[Len(a) + 1] = e[1]
<1> DEFINE u == a \o e
<1>1. /\ u \in Seq(S) /\ Len(u) = Len(a) + Len(e) /\ Len(a) \in Nat
      /\ \A i \in 1..(Len(a) + Len(e)) : u[i] = IF i <= Len(a) THEN a[i] ELSE e[i - Len(a)]
  BY ConcatFacts
<1> HIDE DEF u
<1>2. u \in Seq(S) /\ Len(u) = Len(a) + 1 /\ u[Len(a) + 1] = e[1] /\ \A i \in 1..Len(a) : u[i] = a[i]
  BY <1>1
<1> QED
  BY <1>1, <1>2 DEF u

\* About programs that replace a container.
LEMMA ReplacementFacts ==
    /\ Replacement \subseteq Final({"one"}, Mild \cup Destructive)
    /\ \A x \in Phases({"one"}, Mild \cup Destructive) : <<x>> \in Replacement => Replaces(x)
<1> DEFINE W == Mild \cup Destructive
           S == StepsThat(W)
           r == Do("remove")
           c == Do("create_container")
           s == Do("start")
           After3(b) == ((b \o r) \o c) \o s
           Phase1(b) == [do |-> "one", body |-> After3(b), evict |-> FALSE]
           Single(y, call) == y.call = call /\ y.via = "docker" /\ y.ok = 0 /\ y.err = {Fail}
<1>1. /\ r \in BodiesThat(W) /\ c \in BodiesThat(W) /\ s \in BodiesThat(W)
      /\ Len(r) = 1 /\ Len(c) = 1 /\ Len(s) = 1
      /\ Single(r[1], "remove") /\ Single(c[1], "create_container") /\ Single(s[1], "start")
  <2>1. "remove" \in W /\ "create_container" \in W /\ "start" \in W
    BY DEF Mild, Destructive
  <2> HIDE DEF W
  <2>2. r \in BodiesThat(W) /\ c \in BodiesThat(W) /\ s \in BodiesThat(W)
    BY <2>1, StepShape
  <2> QED
    BY <2>2 DEF Do, Step
<1>2. BodiesThat(Most) \subseteq BodiesThat(W) /\ BodiesThat(W) \subseteq Seq(S)
  <2>1. BodiesThat(Most) \subseteq BodiesThat(W)
    BY ShapeMonotone DEF Most
  <2> QED
    BY <2>1 DEF BodiesThat
<1>4. ASSUME NEW w \in Replacement
      PROVE  \E b \in BodiesThat(Most) : w = <<Phase1(b)>>
  BY DEF Replacement, One
<1> HIDE DEF r, c, s, W, S
<1>3. ASSUME NEW b \in BodiesThat(Most)
      PROVE  After3(b) \in BodiesThat(W) /\ Replaces(Phase1(b))
  <2> DEFINE u == b \o r
             v == u \o c
             t == v \o s
             n == Len(b)
  <2>1. b \in BodiesThat(W) /\ u \in BodiesThat(W) /\ v \in BodiesThat(W) /\ t \in BodiesThat(W)
    <3>1. b \in BodiesThat(W)
      BY <1>2
    <3> QED
      BY <1>1, <3>1, BodyConcat
  <2>2. /\ b \in Seq(S) /\ u \in Seq(S) /\ v \in Seq(S) /\ t \in Seq(S)
        /\ r \in Seq(S) /\ c \in Seq(S) /\ s \in Seq(S) /\ n \in Nat
    BY <1>1, <1>2, <2>1
  <2>3. /\ Len(u) = n + 1 /\ u[n + 1] = r[1]
        /\ \A i \in 1..n : u[i] = b[i]
    BY <1>1, <2>2, OneMore
  <2>4. /\ Len(v) = n + 2 /\ v[n + 2] = c[1]
        /\ \A i \in 1..(n + 1) : v[i] = u[i]
    <3>1. /\ Len(u \o c) = Len(u) + 1 /\ (u \o c)[Len(u) + 1] = c[1]
          /\ \A i \in 1..Len(u) : (u \o c)[i] = u[i]
      BY <1>1, <2>2, OneMore
    <3> QED
      BY <2>2, <2>3, <3>1
  <2>5. /\ Len(t) = n + 3 /\ t[n + 3] = s[1]
        /\ \A i \in 1..(n + 2) : t[i] = v[i]
    <3>1. /\ Len(v \o s) = Len(v) + 1 /\ (v \o s)[Len(v) + 1] = s[1]
          /\ \A i \in 1..Len(v) : (v \o s)[i] = v[i]
      BY <1>1, <2>2, OneMore
    <3> QED
      BY <2>2, <2>4, <3>1
  <2> HIDE DEF u, v
  <2>6. \A i \in 1..n : b[i].call \notin Replacing
    <3>1. \A y \in Replacing : y \notin Most /\ y \notin Reads
      BY DEF Most, Reads, Replacing
    <3>2. \A i \in 1..n : b[i] \in StepsThat(Most)
      BY DEF BodiesThat
    <3>3. \A y \in StepsThat(Most) : y.call \in Most \cup Reads
      BY DEF StepsThat
    <3> QED
      BY <3>1, <3>2, <3>3
  <2>7. t \in BodiesThat(W) /\ After3(b) = t /\ DOMAIN t = 1..(n + 3)
    BY <2>1, <2>2, <2>5 DEF u, v
  <2> HIDE DEF t, n
  <2>8. \A i \in 1..n : t[i].call \notin Replacing
    <3> SUFFICES ASSUME NEW i \in 1..n PROVE t[i].call \notin Replacing
      OBVIOUS
    <3>1. i \in 1..(n + 1) /\ i \in 1..(n + 2)
      BY <2>2
    <3> QED
      BY <2>3, <2>4, <2>5, <2>6, <3>1
  <2>9. t[n + 1] = r[1] /\ t[n + 2] = c[1] /\ t[n + 3] = s[1]
    <3>1. n + 1 \in 1..(n + 1) /\ n + 1 \in 1..(n + 2) /\ n + 2 \in 1..(n + 2)
      BY <2>2
    <3> QED
      BY <2>3, <2>4, <2>5, <3>1
  <2> DEFINE x == [do |-> "one", body |-> t, evict |-> FALSE]
  <2>10. x.do = "one" /\ x.body = t
    OBVIOUS
  <2> HIDE DEF x
  <2>11. ASSUME NEW j \in 1..(n + 3)
         PROVE  /\ t[j].call = "remove" => j = n + 1
                /\ t[j].call = "create_container" => j = n + 2
    <3>1. j \in 1..n \/ j = n + 1 \/ j = n + 2 \/ j = n + 3
      BY <2>2
    <3>2. "remove" \in Replacing /\ "create_container" \in Replacing
      BY DEF Replacing
    <3>3. CASE j \in 1..n
      BY <2>8, <3>2, <3>3
    <3>4. CASE j = n + 1
      BY <1>1, <2>9, <3>4
    <3>5. CASE j = n + 2
      BY <1>1, <2>9, <3>5
    <3>6. CASE j = n + 3
      BY <1>1, <2>9, <3>6
    <3> QED
      BY <3>1, <3>3, <3>4, <3>5, <3>6
  <2>12. Replaces(x)
    <3>1. /\ (n + 1) + 1 = n + 2 /\ (n + 1) + 2 = n + 3 /\ (n + 2) - 1 = n + 1 /\ n + 2 > 1
      BY <2>2
    <3>2. ASSUME NEW j \in DOMAIN x.body, x.body[j].call = "remove"
          PROVE  /\ DOMAIN x.body = 1..(j + 2)
                 /\ x.body[j + 1].call = "create_container" /\ x.body[j + 2].call = "start"
                 /\ \A k \in {j, j + 1} : x.body[k].ok = 0 /\ x.body[k].err = {Fail}
      <4>1. j = n + 1
        BY <2>7, <2>10, <2>11, <3>2
      <4> QED
        BY <1>1, <2>7, <2>9, <2>10, <3>1, <4>1
    <3>3. ASSUME NEW j \in DOMAIN x.body, x.body[j].call = "create_container"
          PROVE  x.body[j].via = "docker" /\ j > 1 /\ x.body[j - 1].call = "remove"
      <4>1. j = n + 2
        BY <2>7, <2>10, <2>11, <3>3
      <4> QED
        BY <1>1, <2>9, <2>10, <3>1, <4>1
    <3> QED
      BY <2>10, <3>2, <3>3 DEF Replaces
  <2> QED
    BY <2>7, <2>12 DEF x
<1> HIDE DEF After3
<1>5. ASSUME NEW w \in Replacement PROVE w \in Final({"one"}, W)
  <2>1. PICK b \in BodiesThat(Most) : w = <<Phase1(b)>>
    BY <1>4
  <2>2. After3(b) \in BodiesThat(W)
    BY <1>3
  <2>3. Phase1(b) \in Phases({"one"}, W)
    BY <2>2 DEF Phases, PhasesThat, WorkPhases, DropsClient
  <2> QED
    BY <2>1, <2>3 DEF Final
<1> HIDE DEF Phase1
<1>6. ASSUME NEW x, <<x>> \in Replacement PROVE Replaces(x)
  <2>1. PICK b \in BodiesThat(Most) : <<x>> = <<Phase1(b)>>
    BY <1>4, <1>6
  <2>2. x = Phase1(b)
    BY <2>1
  <2> QED
    BY <1>3, <2>2
<1> QED
  BY <1>5, <1>6 DEF W

\* What every program is that is put together as those of the services are.
LEMMA WellMadeFacts ==
    ASSUME NEW o, WellMade(o)
    PROVE  Facts(o)
<1>1. CASE o.prog \in Reading
  BY <1>1, ReadingFacts
<1>2. CASE o.prog \in Listing
  BY <1>2, ListingFacts
<1>3. CASE /\ RequiredScopeForParsedAction(o) = WRITE_SCOPE /\ o.action # "resource"
           /\ \/ o.prog \in Unasked \cup Blind \cup OfOne \cup Recreating
              \/ o.action = "beam" /\ o.prog \in OfTwo
              \/ o.action = "emit" /\ o.prog \in OfSeveral
  <2>1. /\ Most \subseteq Mild \cup Destructive /\ Resolving \subseteq Reading
        /\ Silent \subseteq Reading
    <3>1. {"validate"} \subseteq Asking
      BY DEF Asking, Checks
    <3>2. Programs({"validate"}, {}) \subseteq Programs(Asking, {})
      BY <3>1, ShapeMonotone
    <3>3. Most \subseteq Mild \cup Destructive
      BY DEF Most
    <3>4. Resolving \subseteq Reading
      BY DEF Resolving
    <3> QED
      BY <3>2, <3>3, <3>4 DEF Silent, Reading
  <2>2. {"first", "one", "oneOther", "each"} \subseteq WorkPhases
    BY DEF WorkPhases
  <2>3. \A K \in SUBSET {"first", "one", "oneOther", "each"} : \A x \in Phases(K, Most) : Replaces(x)
    BY <2>2, MostReplaceNothing
  <2>4. CASE o.prog \in Unasked
    BY <1>3, <2>4, UnaskedFacts
  <2>5. CASE o.prog \in Blind
    <3> DEFINE K == {"first", "one"}
               L == Final(K, Most)
    <3>1. o.prog \in Acting(Reading, FALSE, Reading, L)
      BY <2>5 DEF Blind
    <3>2. /\ K \in SUBSET {"first", "one", "oneOther", "each"} /\ L \in SUBSET Final(K, Most)
          /\ Reading \in SUBSET (Reading \cup Picking) /\ FALSE \in BOOLEAN
      OBVIOUS
    <3>3. \A x \in Phases(K, Most) : Replaces(x)
      BY <2>3, <3>2
    <3>4. Acts(o, Reading, FALSE, Reading, K, Most, L)
      BY <1>3, <2>1, <3>1, <3>2, <3>3 DEF Acts
    <3> QED
      BY <3>4, ActsFacts
  <2>6. CASE o.prog \in OfOne
    <3> DEFINE K == {"one"}
               L == Final(K, Most)
    <3>1. o.prog \in Acting(Reading, TRUE, Silent, L)
      BY <2>6 DEF OfOne
    <3>2. /\ K \in SUBSET {"first", "one", "oneOther", "each"} /\ L \in SUBSET Final(K, Most)
          /\ Reading \in SUBSET (Reading \cup Picking) /\ TRUE \in BOOLEAN
          /\ K \subseteq {"first", "one"}
      OBVIOUS
    <3>3. \A x \in Phases(K, Most) : Replaces(x)
      BY <2>3, <3>2
    <3>4. Acts(o, Reading, TRUE, Silent, K, Most, L)
      BY <1>3, <2>1, <3>1, <3>2, <3>3 DEF Acts
    <3> QED
      BY <3>4, ActsFacts
  <2>7. CASE o.prog \in Recreating
    <3> DEFINE K == {"one"}
    <3>1. o.prog \in Acting(Reading, TRUE, Silent, Replacement)
      BY <2>7 DEF Recreating
    <3>2. /\ K \in SUBSET {"first", "one", "oneOther", "each"}
          /\ Replacement \in SUBSET Final(K, Mild \cup Destructive)
          /\ Reading \in SUBSET (Reading \cup Picking) /\ TRUE \in BOOLEAN
          /\ K \subseteq {"first", "one"}
      BY ReplacementFacts
    <3>4. Acts(o, Reading, TRUE, Silent, K, Mild \cup Destructive, Replacement)
      BY <1>3, <2>1, <3>1, <3>2, ReplacementFacts DEF Acts
    <3> QED
      BY <3>4, ActsFacts
  <2>8. CASE o.action = "beam" /\ o.prog \in OfTwo
    <3> DEFINE K == {"oneOther"}
               L == Final(K, Most)
    <3>1. o.prog \in Acting(Resolving, TRUE, Silent, L)
      BY <2>8 DEF OfTwo
    <3>2. /\ K \in SUBSET {"first", "one", "oneOther", "each"} /\ L \in SUBSET Final(K, Most)
          /\ Resolving \in SUBSET (Reading \cup Picking) /\ TRUE \in BOOLEAN
      BY <2>1
    <3>3. \A x \in Phases(K, Most) : Replaces(x)
      BY <2>3, <3>2
    <3>4. Acts(o, Resolving, TRUE, Silent, K, Most, L)
      BY <1>3, <2>1, <2>8, <3>1, <3>2, <3>3 DEF Acts
    <3> QED
      BY <3>4, ActsFacts
  <2>9. CASE o.action = "emit" /\ o.prog \in OfSeveral
    <3> DEFINE K == {"each"}
               L == Final(K, Most)
    <3>1. o.prog \in Acting(Picking, TRUE, Silent, L)
      BY <2>9 DEF OfSeveral
    <3>2. /\ K \in SUBSET {"first", "one", "oneOther", "each"} /\ L \in SUBSET Final(K, Most)
          /\ Picking \in SUBSET (Reading \cup Picking) /\ TRUE \in BOOLEAN
      OBVIOUS
    <3>3. \A x \in Phases(K, Most) : Replaces(x)
      BY <2>3, <3>2
    <3>4. Acts(o, Picking, TRUE, Silent, K, Most, L)
      BY <1>3, <2>1, <2>9, <3>1, <3>2, <3>3 DEF Acts
    <3> QED
      BY <3>4, ActsFacts
  <2> QED
    BY <1>3, <2>4, <2>5, <2>6, <2>7, <2>8, <2>9
<1> QED
  BY <1>1, <1>2, <1>3 DEF WellMade

\* What the proofs use of an operation, whichever it is.
LEMMA OperationFacts == \A o \in AllOperations : Facts(o)
BY OffersAreWellMade, WellMadeFacts

-----------------------------------------------------------------------------
(* The inductive invariant, request by request *)

\* Who has arrived asks for an operation of the table and may; before that
\* nothing has happened.
Arrived(r) ==
    IF phase[r] > 0 THEN op[r] \in AllOperations /\ Permitted(caller[r], op[r])
    ELSE /\ issued[r] = {} /\ asked[r] = {} /\ gate[r] = "none"
         /\ targets[r] = <<>> /\ owner[r] = NoHost

\* A host works on a step of the body, and a change is sent by a step that changes.
InStep(r) ==
    \A h \in Hosts :
        /\ lane[r][h].st = "sent" =>
              /\ phase[r] \in DOMAIN Prog(r) /\ Phase(r).do \in WorkPhases
              /\ lane[r][h].at \in DOMAIN Phase(r).body /\ Current(r, h).writes
              /\ <<h, Current(r, h).call>> \in issued[r]
        /\ lane[r][h].st = "idle" /\ phase[r] \in DOMAIN Prog(r) /\ Phase(r).do \in WorkPhases =>
              lane[r][h].at \in DOMAIN Phase(r).body

\* No question is passed that was not affirmed, or need not be.
Confirmed(r) ==
    /\ gate[r] # "granted" =>
          \A k \in DOMAIN Prog(r) : Prog(r)[k].do = "confirm" => phase[r] <= k
    /\ gate[r] = "asked" => caller[r].surface = "mcp"
    /\ gate[r] = "granted" =>
          \/ caller[r].surface = "cli" \/ caller[r].allowDestructive
          \/ caller[r].surface = "mcp" /\ user[r] = "affirmed"

\* Changes are sent by the last phase, of operations that require the scope to.
SentLast(r) ==
    /\ done[r] \subseteq issued[r] /\ late[r] \subseteq issued[r]
    /\ \A c \in issued[r] :
          /\ RequiredScopeForParsedAction(op[r]) = WRITE_SCOPE /\ op[r].action # "resource"
          /\ c[2] \in Destructive => gate[r] = "granted"
          /\ Prog(r) # <<>> /\ Len(Prog(r)) <= phase[r] /\ Changing(Prog(r)[Len(Prog(r))])

Course(r) == Arrived(r) /\ InStep(r) /\ Confirmed(r) /\ SentLast(r)

IInv == TypeOK /\ \A r \in Requests : Course(r)

\* What the phases of a program look like.
LEMMA ProgramFacts ==
    ASSUME NEW o \in AllOperations
    PROVE  /\ Len(o.prog) \in Nat /\ DOMAIN o.prog = 1..Len(o.prog)
           /\ \A i \in DOMAIN o.prog : o.prog[i].do \in WorkPhases =>
                /\ o.prog[i].body \in BodiesThat(Mild \cup Destructive)
                /\ o.prog[i].evict \in BOOLEAN /\ o.prog[i].do # "confirm"
                /\ DropsClient(o.prog[i])
<1>1. o.prog \in Seq(Known)
  <2>1. Facts(o)
    BY OperationFacts
  <2> QED
    BY <2>1 DEF Facts
<1> DEFINE p == o.prog
<1>2. ASSUME NEW x \in Known, x.do \in WorkPhases
      PROVE  /\ x.body \in BodiesThat(Mild \cup Destructive) /\ x.evict \in BOOLEAN /\ x.do # "confirm"
             /\ DropsClient(x)
  <2>1. x.do \notin {"require", "validate", "target", "resolve", "several", "other", "confirm"}
    BY <1>2 DEF WorkPhases
  <2>2. x \in [do : WorkPhases, body : BodiesThat(Mild \cup Destructive), evict : BOOLEAN] /\ DropsClient(x)
    BY <2>1 DEF Known, PhasesThat
  <2> QED
    BY <2>1, <2>2
<1>3. p \in Seq(Known)
  BY <1>1
<1> HIDE DEF p
<1>4. Len(p) \in Nat /\ DOMAIN p = 1..Len(p) /\ \A i \in DOMAIN p : p[i] \in Known
  BY <1>3
<1> QED
  BY <1>2, <1>4 DEF p

\* What a body looks like.
LEMMA BodyFacts ==
    ASSUME NEW W, NEW b \in BodiesThat(W)
    PROVE  /\ Len(b) \in Nat /\ DOMAIN b = 1..Len(b) /\ 1 \in DOMAIN b
           /\ \A j \in DOMAIN b :
                /\ b[j].writes \in BOOLEAN /\ b[j].ok \in Nat
                /\ b[j].err \subseteq Nat \cup {Fail}
<1>1. /\ Len(b) \in Nat /\ DOMAIN b = 1..Len(b) /\ 1 \in DOMAIN b
      /\ \A j \in DOMAIN b : b[j] \in StepsThat(W)
  BY DEF BodiesThat
<1>2. \A s \in StepsThat(W) : s.writes \in BOOLEAN /\ s.ok \in Nat /\ s.err \subseteq Nat \cup {Fail}
  BY DEF StepsThat
<1> QED
  BY <1>1, <1>2

\* Where a request is that works on hosts.
LEMMA AtWork ==
    ASSUME IInv, NEW r \in Requests, phase[r] > 0, phase[r] \in DOMAIN Prog(r),
           Phase(r).do \in WorkPhases
    PROVE  /\ op[r] \in AllOperations
           /\ Phase(r).body \in BodiesThat(Mild \cup Destructive) /\ Phase(r).evict \in BOOLEAN
           /\ Len(Phase(r).body) \in Nat /\ DOMAIN Phase(r).body = 1..Len(Phase(r).body)
           /\ 1 \in DOMAIN Phase(r).body
           /\ \A j \in DOMAIN Phase(r).body :
                /\ Phase(r).body[j].writes \in BOOLEAN /\ Phase(r).body[j].ok \in Nat
                /\ Phase(r).body[j].err \subseteq Nat \cup {Fail}
<1>1. op[r] \in AllOperations
  BY DEF IInv, Course, Arrived
<1>2. Phase(r).body \in BodiesThat(Mild \cup Destructive) /\ Phase(r).evict \in BOOLEAN
  BY <1>1, ProgramFacts DEF Phase, Prog
<1> QED
  BY <1>1, <1>2, BodyFacts

\* The same for a request whose phase is At.
LEMMA AtFacts ==
    ASSUME IInv, NEW r \in Requests, NEW K, At(r, K)
    PROVE  /\ op[r] \in AllOperations /\ phase[r] \in Nat /\ phase[r] > 0 /\ answer[r] = "none"
           /\ phase[r] \in DOMAIN Prog(r) /\ Phase(r).do \in K
           /\ Len(Prog(r)) \in Nat /\ DOMAIN Prog(r) = 1..Len(Prog(r))
<1>1. phase[r] \in Nat /\ phase[r] > 0 /\ answer[r] = "none" /\ phase[r] <= Len(Prog(r))
      /\ Phase(r).do \in K
  BY DEF IInv, TypeOK, At, Running
<1>2. op[r] \in AllOperations
  BY <1>1 DEF IInv, Course, Arrived
<1>3. Len(Prog(r)) \in Nat /\ DOMAIN Prog(r) = 1..Len(Prog(r))
  BY <1>2, ProgramFacts DEF Prog
<1> QED
  BY <1>1, <1>2, <1>3

\* Where a host is that has the turn.
LEMMA TurnFacts ==
    ASSUME IInv, NEW r \in Requests, NEW h \in Hosts, NEW st \in {"idle", "sent"}, Turn(r, h, st)
    PROVE  /\ lane[r][h].at \in DOMAIN Phase(r).body /\ lane[r][h].at \in Nat \ {0}
           /\ Current(r, h).writes \in BOOLEAN /\ Current(r, h).ok \in Nat
           /\ Current(r, h).err \subseteq Nat \cup {Fail}
<1>1. At(r, WorkPhases) /\ lane[r][h].st = st
  BY DEF Turn
<1>2. /\ phase[r] > 0 /\ phase[r] \in DOMAIN Prog(r) /\ Phase(r).do \in WorkPhases
  BY <1>1, AtFacts
<1>3. lane[r][h].at \in DOMAIN Phase(r).body
  BY <1>1, <1>2 DEF IInv, Course, InStep
<1>4. DOMAIN Phase(r).body = 1..Len(Phase(r).body) /\ Len(Phase(r).body) \in Nat
  BY <1>2, AtWork
<1> QED
  BY <1>2, <1>3, <1>4, AtWork DEF Current

\* The lane of h moves on in the body, or is over.
Lands(r, h) ==
    \E x \in Lanes :
        /\ lane' = [lane EXCEPT ![r] = [lane[r] EXCEPT ![h] = x]]
        /\ \/ x.st = "ok"
           \/ x.st = "idle" /\ x.at \in DOMAIN Phase(r).body /\ lane[r][h].at < x.at

\* It is over with an error.
Breaks(r, h) ==
    \E x \in Lanes :
        /\ lane' = [lane EXCEPT ![r] = [lane[r] EXCEPT ![h] = x]]
        /\ x.st = "err"

\* The ends of a step, in terms of the lanes.
LEMMA StepEnds ==
    ASSUME IInv, NEW r \in Requests, NEW h \in Hosts, NEW st \in {"idle", "sent"}, Turn(r, h, st)
    PROVE  /\ Succeed(r, h) => Lands(r, h)
           /\ Pass(r, h) => Lands(r, h) /\ blurred' = blurred
           /\ EndBody(r, h) => Breaks(r, h)
<1> DEFINE n == lane[r][h].at
           b == Phase(r).body
<1>1. /\ n \in DOMAIN b /\ n \in Nat \ {0} /\ Current(r, h).ok \in Nat
      /\ Current(r, h).err \subseteq Nat \cup {Fail}
  BY TurnFacts
<1>2. Len(b) \in Nat /\ DOMAIN b = 1..Len(b)
  <2>1. At(r, WorkPhases)
    BY DEF Turn
  <2>2. phase[r] > 0 /\ phase[r] \in DOMAIN Prog(r) /\ Phase(r).do \in WorkPhases
    BY <2>1, AtFacts
  <2> QED
    BY <2>2, AtWork
<1>3. ASSUME NEW m \in Nat, n < m, To(r, h, m) PROVE Lands(r, h)
  <2> DEFINE x == IF m > Len(b) THEN [at |-> 1, st |-> "ok"] ELSE [at |-> m, st |-> "idle"]
  <2>1. lane' = [lane EXCEPT ![r] = [lane[r] EXCEPT ![h] = x]]
    BY <1>3 DEF To
  <2>2. /\ x \in Lanes
        /\ \/ x.st = "ok"
           \/ x.st = "idle" /\ x.at \in DOMAIN b /\ n < x.at
    <3>1. CASE m > Len(b)
      BY <3>1 DEF Lanes
    <3>2. CASE ~(m > Len(b))
      <4>1. m \in Nat \ {0} /\ m \in DOMAIN b
        BY <1>1, <1>2, <1>3, <3>2
      <4> QED
        BY <1>3, <3>2, <4>1 DEF Lanes
    <3> QED
      BY <3>1, <3>2
  <2> HIDE DEF x
  <2> QED
    BY <2>1, <2>2 DEF Lands
<1>4. Succeed(r, h) => Lands(r, h)
  <2>1. n + 1 + Current(r, h).ok \in Nat /\ n < n + 1 + Current(r, h).ok
    BY <1>1
  <2> QED
    BY <1>3, <2>1 DEF Succeed
<1>5. ASSUME Pass(r, h) PROVE Lands(r, h) /\ blurred' = blurred
  <2>1. PICK skip \in Current(r, h).err \ {Fail} : To(r, h, n + 1 + skip)
    BY <1>5 DEF Pass
  <2>2. n + 1 + skip \in Nat /\ n < n + 1 + skip
    BY <1>1
  <2> QED
    BY <1>3, <1>5, <2>1, <2>2 DEF Pass
<1>6. ASSUME EndBody(r, h) PROVE Breaks(r, h)
  <2>1. [at |-> 1, st |-> "err"] \in Lanes
    BY DEF Lanes
  <2> QED
    BY <1>6, <2>1 DEF EndBody, Breaks
<1> QED
  BY <1>4, <1>5, <1>6

\* Nothing happens to request q.
Same(q) ==
    /\ op'[q] = op[q] /\ host'[q] = host[q] /\ caller'[q] = caller[q] /\ phase'[q] = phase[q]
    /\ targets'[q] = targets[q] /\ owner'[q] = owner[q] /\ other'[q] = other[q]
    /\ lane'[q] = lane[q] /\ gate'[q] = gate[q] /\ asked'[q] = asked[q] /\ user'[q] = user[q]
    /\ issued'[q] = issued[q] /\ done'[q] = done[q] /\ late'[q] = late[q]
    /\ blurred'[q] = blurred[q] /\ answer'[q] = answer[q]

Others(r) == daemon' = daemon /\ caller' = caller /\ \A q \in Requests : q # r => Same(q)

\* What holds of a request holds on where nothing happens to it.
LEMMA SameKeeps ==
    ASSUME NEW q \in Requests, Same(q)
    PROVE  Course(q) => Course(q)'
<1>1. Arrived(q) => Arrived(q)'
  BY DEF Same, Arrived
<1>2. InStep(q) => InStep(q)'
  BY DEF Same, InStep, Prog, Phase, Current
<1>3. Confirmed(q) => Confirmed(q)'
  BY DEF Same, Confirmed, Prog
<1>4. SentLast(q) => SentLast(q)'
  BY DEF Same, SentLast, Prog
<1> QED
  BY <1>1, <1>2, <1>3, <1>4 DEF Course

\* The next phase, or the answer.
LEMMA AdvanceTypes ==
    ASSUME TypeOK, NEW r \in Requests, Advance(r)
    PROVE  /\ phase' \in [Requests -> Nat] /\ lane' \in [Requests -> [Hosts -> Lanes]]
           /\ answer' = answer /\ phase'[r] = phase[r] + 1 /\ lane'[r] = Fresh
           /\ \A q \in Requests : q # r => phase'[q] = phase[q] /\ lane'[q] = lane[q]
<1>1. Fresh \in [Hosts -> Lanes]
  BY DEF Fresh, Idle, Lanes
<1> QED
  BY <1>1 DEF TypeOK, Advance

\* The answer leaves everything where it is.
LEMMA AnswerTypes ==
    ASSUME TypeOK, NEW r \in Requests, NEW a \in Answers, Answer(r, a)
    PROVE  /\ phase' = phase /\ lane' = lane /\ answer' \in [Requests -> Answers]
           /\ answer'[r] = a
           /\ \A q \in Requests : q # r => answer'[q] = answer[q]
BY DEF TypeOK, Answer

\* A phase that is no question is passed.
LEMMA Advanced ==
    ASSUME IInv, NEW r \in Requests, NEW K, At(r, K), "confirm" \notin K, Advance(r),
           op'[r] = op[r], caller'[r] = caller[r], gate'[r] = gate[r], user'[r] = user[r],
           issued'[r] = issued[r], done'[r] = done[r], late'[r] = late[r]
    PROVE  Course(r)'
<1>1. /\ phase[r] \in Nat /\ phase[r] > 0 /\ phase'[r] = phase[r] + 1 /\ lane'[r] = Fresh
      /\ Prog(r)' = Prog(r) /\ Phase(r).do # "confirm"
  BY AdvanceTypes, AtFacts DEF IInv, Prog
<1>2. op[r] \in AllOperations /\ DOMAIN Prog(r) = 1..Len(Prog(r)) /\ Len(Prog(r)) \in Nat
  BY AtFacts
<1>3. Arrived(r)'
  BY <1>1 DEF IInv, Course, Arrived
<1>4. InStep(r)'
  <2>1. \A h \in Hosts : lane'[r][h] = Idle
    BY <1>1 DEF Fresh
  <2>2. ASSUME phase'[r] \in DOMAIN Prog(r), Prog(r)[phase'[r]].do \in WorkPhases
        PROVE  1 \in DOMAIN Prog(r)[phase'[r]].body
    BY <1>2, <2>2, ProgramFacts, BodyFacts DEF Prog
  <2> QED
    BY <1>1, <2>1, <2>2 DEF InStep, Idle, Phase
<1>5. Confirmed(r)'
  <2>1. \A k \in DOMAIN Prog(r) : Prog(r)[k].do = "confirm" => k # phase[r]
    BY <1>1 DEF Phase
  <2>2. ASSUME gate'[r] # "granted", NEW k \in DOMAIN Prog(r), Prog(r)[k].do = "confirm"
        PROVE  phase'[r] <= k
    <3>1. phase[r] <= k /\ k # phase[r] /\ k \in Nat
      BY <1>2, <2>1, <2>2 DEF IInv, Course, Confirmed
    <3> QED
      BY <1>1, <3>1
  <2> QED
    BY <1>1, <2>2 DEF IInv, Course, Confirmed
<1>6. SentLast(r)'
  BY <1>1, <1>2 DEF IInv, Course, SentLast
<1> QED
  BY <1>3, <1>4, <1>5, <1>6 DEF Course

\* Where the request stays in its phase, everything about it remains, even when
\* changes it sent get lost, or take effect.
LEMMA Stayed ==
    ASSUME IInv, NEW r \in Requests, phase'[r] = phase[r], lane'[r] = lane[r],
           op'[r] = op[r], caller'[r] = caller[r], gate'[r] = gate[r], user'[r] = user[r],
           issued'[r] = issued[r], done'[r] \subseteq issued[r], late'[r] \subseteq issued[r],
           phase[r] > 0 \/ (asked'[r] = asked[r] /\ targets'[r] = targets[r] /\ owner'[r] = owner[r])
    PROVE  Course(r)'
<1>1. Arrived(r)'
  BY DEF IInv, Course, Arrived
<1>2. InStep(r)'
  BY DEF IInv, Course, InStep, Prog, Phase, Current
<1>3. Confirmed(r)'
  BY DEF IInv, Course, Confirmed, Prog
<1>4. SentLast(r)'
  BY DEF IInv, Course, SentLast, Prog
<1> QED
  BY <1>1, <1>2, <1>3, <1>4 DEF Course

LEMMA Remained ==
    ASSUME IInv, NEW r \in Requests, phase'[r] = phase[r], lane'[r] = lane[r],
           op'[r] = op[r], caller'[r] = caller[r], gate'[r] = gate[r], user'[r] = user[r],
           issued'[r] = issued[r], done'[r] = done[r], late'[r] = late[r],
           phase[r] > 0 \/ (asked'[r] = asked[r] /\ targets'[r] = targets[r] /\ owner'[r] = owner[r])
    PROVE  Course(r)'
<1>1. done'[r] \subseteq issued[r] /\ late'[r] \subseteq issued[r]
  BY DEF IInv, Course, SentLast
<1> QED
  BY <1>1, Stayed

\* The checks before any host is involved.
LEMMA CheckKeeps ==
    ASSUME IInv, NEW r \in Requests, Check(r)
    PROVE  TypeOK' /\ Others(r) /\ Course(r)'
<1>0. /\ At(r, {"require"}) \/ At(r, {"validate"})
      /\ Advance(r) \/ \E a \in Answers : Answer(r, a)
      /\ UNCHANGED <<daemon, world, request, course, confirmation, record>>
  BY DEF Check, Answers
<1>1. TypeOK' /\ Others(r)
  BY <1>0, AdvanceTypes, AnswerTypes
     DEF IInv, TypeOK, Others, Same, world, request, course, confirmation, record
<1>2. Course(r)'
  <2>1. CASE Advance(r)
    BY <1>0, <2>1, Advanced DEF request, confirmation, record, world
  <2>2. CASE \E a \in Answers : Answer(r, a)
    BY <1>0, <2>2, Remained, AnswerTypes DEF IInv, request, confirmation, record, course, world
  <2> QED
    BY <1>0, <2>1, <2>2
<1> QED
  BY <1>1, <1>2

\* The hosts are chosen.
LEMMA TargetKeeps ==
    ASSUME IInv, NEW r \in Requests, TargetHosts_(r)
    PROVE  TypeOK' /\ Others(r) /\ Course(r)'
<1>1. host[r] \in Hosts \cup {NoHost, UnknownHost}
  BY DEF IInv, TypeOK
<1>2. HostList \in Seq(Hosts) /\ (host[r] \in Hosts => <<host[r]>> \in Seq(Hosts))
  BY HostsAssumption
<1>3. CASE host[r] = UnknownHost
  <2>1. /\ Answer(r, "error") /\ "error" \in Answers
        /\ UNCHANGED <<daemon, world, request, course, confirmation, record>>
    BY <1>3 DEF TargetHosts_, Answers
  <2>2. TypeOK' /\ Others(r)
    BY <2>1, AnswerTypes
       DEF IInv, TypeOK, Others, Same, world, request, course, confirmation, record
  <2> QED
    BY <2>1, <2>2, Remained, AnswerTypes DEF IInv, request, confirmation, record, course, world
<1>4. CASE host[r] # UnknownHost
  <2>1. /\ At(r, {"target"}) /\ Advance(r)
        /\ targets' = [targets EXCEPT ![r] = IF host[r] = NoHost THEN HostList ELSE <<host[r]>>]
        /\ owner' = [owner EXCEPT ![r] = host[r]] /\ other' = other
        /\ UNCHANGED <<daemon, world, request, confirmation, record>>
    BY <1>4 DEF TargetHosts_
  <2>2. TypeOK' /\ Others(r)
    BY <1>1, <1>2, <1>4, <2>1, AdvanceTypes
       DEF IInv, TypeOK, Others, Same, world, request, confirmation, record
  <2> QED
    BY <2>1, <2>2, Advanced DEF request, confirmation, record, world
<1> QED
  BY <1>3, <1>4

\* The one host is looked up.
LEMMA ResolveKeeps ==
    ASSUME IInv, NEW r \in Requests, ResolveHost_(r)
    PROVE  TypeOK' /\ Others(r) /\ Course(r)'
<1>1. CASE host[r] \notin Hosts
  <2>1. /\ Answer(r, "error") /\ "error" \in Answers
        /\ UNCHANGED <<daemon, world, request, course, confirmation, record>>
    BY <1>1 DEF ResolveHost_, Answers
  <2>2. TypeOK' /\ Others(r)
    BY <2>1, AnswerTypes
       DEF IInv, TypeOK, Others, Same, world, request, course, confirmation, record
  <2> QED
    BY <2>1, <2>2, Remained, AnswerTypes DEF IInv, request, confirmation, record, course, world
<1>2. CASE host[r] \in Hosts
  <2>1. /\ At(r, {"resolve"}) /\ Advance(r)
        /\ owner' = [owner EXCEPT ![r] = host[r]] /\ targets' = targets /\ other' = other
        /\ UNCHANGED <<daemon, world, request, confirmation, record>>
    BY <1>2 DEF ResolveHost_
  <2>2. TypeOK' /\ Others(r)
    BY <1>2, <2>1, AdvanceTypes
       DEF IInv, TypeOK, Others, Same, world, request, confirmation, record
  <2> QED
    BY <2>1, <2>2, Advanced DEF request, confirmation, record, world
<1> QED
  BY <1>1, <1>2

\* The second host, or the list.
LEMMA OthersKeep ==
    ASSUME IInv, NEW r \in Requests, ResolveOthers(r)
    PROVE  TypeOK' /\ Others(r) /\ Course(r)'
<1>1. \A n \in 1..Len(HostList) : SubSeq(HostList, 1, n) \in Seq(Hosts)
  BY HostsAssumption
<1>2. CASE Answer(r, "error") /\ UNCHANGED course
  <2>1. /\ Answer(r, "error") /\ "error" \in Answers
        /\ UNCHANGED <<daemon, world, request, course, confirmation, record>>
    BY <1>2 DEF ResolveOthers, Answers
  <2>2. TypeOK' /\ Others(r)
    BY <2>1, AnswerTypes
       DEF IInv, TypeOK, Others, Same, world, request, course, confirmation, record
  <2> QED
    BY <2>1, <2>2, Remained, AnswerTypes DEF IInv, request, confirmation, record, course, world
<1>3. CASE ~(Answer(r, "error") /\ UNCHANGED course)
  <2>1. /\ At(r, {"other"}) \/ At(r, {"several"})
        /\ Advance(r) /\ owner' = owner
        /\ \/ targets' = targets /\ \E h \in Hosts : other' = [other EXCEPT ![r] = h]
           \/ /\ other' = other
              /\ \E n \in 1..Len(HostList) : targets' = [targets EXCEPT ![r] = SubSeq(HostList, 1, n)]
        /\ UNCHANGED <<daemon, world, request, confirmation, record>>
    BY <1>3 DEF ResolveOthers, course
  <2> DEFINE Picked(l, h) ==
               /\ l \in [Requests -> Seq(Hosts)] /\ h \in [Requests -> Hosts \cup {NoHost}]
               /\ \A q \in Requests \ {r} : l[q] = targets[q] /\ h[q] = other[q]
  <2>2. targets \in [Requests -> Seq(Hosts)] /\ other \in [Requests -> Hosts \cup {NoHost}]
    BY DEF IInv, TypeOK
  <2>3. ASSUME NEW h \in Hosts PROVE Picked(targets, [other EXCEPT ![r] = h])
    BY <2>2
  <2>4. ASSUME NEW l \in Seq(Hosts) PROVE Picked([targets EXCEPT ![r] = l], other)
    BY <2>2
  <2> HIDE DEF Picked
  <2>5. Picked(targets', other')
    BY <1>1, <2>1, <2>3, <2>4
  <2>6. /\ phase' \in [Requests -> Nat] /\ lane' \in [Requests -> [Hosts -> Lanes]]
        /\ answer' = answer
        /\ \A q \in Requests \ {r} : phase'[q] = phase[q] /\ lane'[q] = lane[q]
    BY <2>1, AdvanceTypes DEF IInv
  <2>7. TypeOK'
    BY <2>1, <2>5, <2>6 DEF IInv, TypeOK, Picked, world, request, confirmation, record
  <2>8. Others(r)
    BY <2>1, <2>5, <2>6 DEF Others, Same, Picked, world, request, confirmation, record
  <2> QED
    BY <2>1, <2>7, <2>8, Advanced DEF request, confirmation, record, world
<1> QED
  BY <1>2, <1>3

\* A phase is skipped.
LEMMA SkipKeeps ==
    ASSUME IInv, NEW r \in Requests, Skip(r)
    PROVE  TypeOK' /\ Others(r) /\ Course(r)'
<1>1. /\ At(r, {"discover", "probe"}) \/ At(r, {"cached"})
      /\ Advance(r)
      /\ UNCHANGED <<daemon, world, request, course, confirmation, record>>
  BY DEF Skip
<1>2. TypeOK' /\ Others(r)
  BY <1>1, AdvanceTypes
     DEF IInv, TypeOK, Others, Same, world, request, course, confirmation, record
<1> QED
  BY <1>1, <1>2, Advanced DEF request, confirmation, record, world

\* The changes under way were sent.
LEMMA LoseTypes ==
    ASSUME IInv, NEW r \in Requests, NEW hs \in SUBSET Hosts, Lose(r, hs)
    PROVE  /\ UnderWay(r, hs) \subseteq issued[r] /\ late'[r] = late[r] \cup UnderWay(r, hs)
           /\ late' \in [Requests -> SUBSET Changes] /\ late'[r] \subseteq issued[r]
           /\ \A q \in Requests : q # r => late'[q] = late[q]
<1>1. UnderWay(r, hs) \subseteq issued[r]
  BY DEF IInv, Course, InStep, UnderWay
<1>2. late' = [late EXCEPT ![r] = @ \cup UnderWay(r, hs)]
  BY DEF Lose
<1>3. late[r] \subseteq issued[r] /\ issued[r] \in SUBSET Changes
  BY DEF IInv, TypeOK, Course, SentLast
<1> HIDE DEF UnderWay
<1> QED
  BY <1>1, <1>2, <1>3 DEF IInv, TypeOK

\* The end, on time or before.
LEMMA EndKeeps ==
    ASSUME IInv, NEW r \in Requests, Finish(r) \/ Deadline(r) \/ Abandon(r)
    PROVE  TypeOK' /\ Others(r) /\ Course(r)'
<1>1. /\ \E a \in Answers : Answer(r, a)
      /\ UNCHANGED <<daemon, cont, client, request, course, confirmation, record>>
  BY DEF Finish, Deadline, Abandon, Answers, world
<1>2. /\ late' \in [Requests -> SUBSET Changes] /\ late'[r] \subseteq issued[r]
      /\ \A q \in Requests : q # r => late'[q] = late[q]
  <2>1. CASE Finish(r)
    BY <2>1 DEF Finish, world, IInv, TypeOK, Course, SentLast
  <2>2. CASE Deadline(r) \/ Abandon(r)
    BY <2>2, LoseTypes DEF Deadline, Abandon
  <2> QED
    BY <2>1, <2>2
<1>3. TypeOK' /\ Others(r)
  BY <1>1, <1>2, AnswerTypes
     DEF IInv, TypeOK, Others, Same, request, course, confirmation, record
<1>4. done[r] \subseteq issued[r]
  BY DEF IInv, Course, SentLast
<1> QED
  BY <1>1, <1>2, <1>3, <1>4, Stayed, AnswerTypes DEF IInv, request, confirmation, record, course

\* A phase that works on hosts is over.
LEMMA ConcludeKeeps ==
    ASSUME IInv, NEW r \in Requests, Conclude(r)
    PROVE  TypeOK' /\ Others(r) /\ Course(r)'
<1>1. targets[r] \in Seq(Hosts)
  BY DEF IInv, TypeOK
<1>2. CASE Answer(r, "error") /\ UNCHANGED course
  <2>1. /\ Answer(r, "error") /\ "error" \in Answers
        /\ UNCHANGED <<daemon, world, request, course, confirmation, record>>
    BY <1>2 DEF Conclude, Answers
  <2>2. TypeOK' /\ Others(r)
    BY <2>1, AnswerTypes
       DEF IInv, TypeOK, Others, Same, world, request, course, confirmation, record
  <2> QED
    BY <2>1, <2>2, Remained, AnswerTypes DEF IInv, request, confirmation, record, course, world
<1>3. CASE ~(Answer(r, "error") /\ UNCHANGED course)
  <2>1. /\ At(r, WorkPhases) /\ Advance(r)
        /\ Phase(r).do \in {"discover", "each"} \/ Winners(r) # {}
        /\ targets' = IF Phase(r).do = "discover"
                      THEN [targets EXCEPT ![r] = Dedupe(r)] ELSE targets
        /\ owner' = IF Phase(r).do \in {"probe", "first"}
                    THEN [owner EXCEPT ![r] = CHOOSE h \in Winners(r) : TRUE] ELSE owner
        /\ other' = other
        /\ UNCHANGED <<daemon, world, request, confirmation, record>>
    BY <1>3 DEF Conclude
  <2>2. Dedupe(r) \in Seq(Hosts)
    BY <1>1, MembersAtFacts DEF Dedupe
  <2>3. Phase(r).do \in {"probe", "first"} => (CHOOSE h \in Winners(r) : TRUE) \in Hosts
    <3>1. Phase(r).do \in {"probe", "first"} => Winners(r) # {} /\ Winners(r) \subseteq Hosts
      BY <1>1, <2>1 DEF Winners, Working
    <3>2. Winners(r) # {} => (CHOOSE h \in Winners(r) : TRUE) \in Winners(r)
      OBVIOUS
    <3> QED
      BY <3>1, <3>2
  <2> HIDE DEF Dedupe, Winners
  <2> DEFINE w == CHOOSE h \in Winners(r) : TRUE
             d == Dedupe(r)
  <2>4. /\ targets' = IF Phase(r).do = "discover" THEN [targets EXCEPT ![r] = d] ELSE targets
        /\ owner' = IF Phase(r).do \in {"probe", "first"} THEN [owner EXCEPT ![r] = w] ELSE owner
        /\ d \in Seq(Hosts) /\ (Phase(r).do \in {"probe", "first"} => w \in Hosts)
    BY <2>1, <2>2, <2>3
  <2> HIDE DEF w, d
  <2>5. /\ targets' \in [Requests -> Seq(Hosts)] /\ owner' \in [Requests -> Hosts \cup {NoHost}]
        /\ \A q \in Requests : q # r => targets'[q] = targets[q] /\ owner'[q] = owner[q]
    BY <2>4 DEF IInv, TypeOK
  <2>6. TypeOK' /\ Others(r)
    BY <2>1, <2>5, AdvanceTypes
       DEF IInv, TypeOK, Others, Same, world, request, confirmation, record
  <2>7. "confirm" \notin WorkPhases
    BY DEF WorkPhases
  <2> QED
    BY <2>1, <2>6, <2>7, Advanced DEF request, confirmation, record, world
<1> QED
  BY <1>2, <1>3

\* A request arrives.
LEMMA ArriveKeeps ==
    ASSUME IInv, NEW r \in Requests, Arrive(r)
    PROVE  TypeOK' /\ Others(r) /\ Course(r)'
<1>1. PICK o \in Menu[r] \cap Offered(caller[r].surface), h \in Hosts \cup {NoHost, UnknownHost} :
        /\ op' = [op EXCEPT ![r] = o] /\ host' = [host EXCEPT ![r] = h]
        /\ IF Permitted(caller[r], o) THEN Advance(r) ELSE Answer(r, "forbidden")
  BY DEF Arrive
<1>2. /\ phase[r] = 0 /\ answer[r] = "none"
      /\ UNCHANGED <<daemon, world, caller, course, confirmation, record>>
  BY DEF Arrive
<1>3. o \in AllOperations
  <2>1. caller[r] \in AllCallers
    BY DEF IInv, TypeOK
  <2>2. \A c \in AllCallers : Offered(c.surface) \subseteq AllOperations
    BY OffersAreWellMade
  <2> QED
    BY <1>1, <2>1, <2>2
<1>4. /\ Len(o.prog) \in Nat /\ DOMAIN o.prog = 1..Len(o.prog)
      /\ \A i \in DOMAIN o.prog : o.prog[i].do \in WorkPhases => 1 \in DOMAIN o.prog[i].body
  BY <1>3, ProgramFacts, BodyFacts
<1>5. /\ issued[r] = {} /\ asked[r] = {} /\ gate[r] = "none" /\ targets[r] = <<>>
      /\ owner[r] = NoHost /\ done[r] = {} /\ late[r] = {} /\ \A h1 \in Hosts : lane[r][h1].st # "sent"
  <2>1. issued[r] = {} /\ asked[r] = {} /\ gate[r] = "none" /\ targets[r] = <<>> /\ owner[r] = NoHost
    BY <1>2 DEF IInv, Course, Arrived
  <2>2. done[r] = {} /\ late[r] = {}
    BY <2>1 DEF IInv, Course, SentLast
  <2>3. \A h1 \in Hosts : lane[r][h1].st # "sent"
    BY <2>1 DEF IInv, Course, InStep
  <2> QED
    BY <2>1, <2>2, <2>3
<1>6. /\ op' \in [Requests -> AllOperations \cup {NoOp}] /\ op'[r] = o
      /\ host' \in [Requests -> Hosts \cup {NoHost, UnknownHost}]
      /\ \A q \in Requests : q # r => op'[q] = op[q] /\ host'[q] = host[q]
  BY <1>1, <1>3 DEF IInv, TypeOK
<1>7. CASE Permitted(caller[r], o)
  <2>1. Advance(r)
    BY <1>1, <1>7
  <2>2. TypeOK' /\ Others(r)
    BY <1>2, <1>6, <2>1, AdvanceTypes
       DEF IInv, TypeOK, Others, Same, world, course, confirmation, record
  <2>3. phase'[r] = 1 /\ lane'[r] = Fresh /\ Prog(r)' = o.prog
    BY <1>2, <1>6, <2>1, AdvanceTypes DEF IInv, Prog
  <2>4. Arrived(r)'
    BY <1>2, <1>3, <1>6, <1>7, <2>3 DEF Arrived
  <2>5. InStep(r)'
    <3>1. \A g \in Hosts : lane'[r][g] = Idle
      BY <2>3 DEF Fresh
    <3> QED
      BY <1>4, <2>3, <3>1 DEF InStep, Idle, Phase
  <2>6. Confirmed(r)'
    BY <1>2, <1>4, <1>5, <2>3 DEF Confirmed, confirmation
  <2>7. SentLast(r)'
    BY <1>2, <1>5 DEF SentLast, record, world
  <2> QED
    BY <2>2, <2>4, <2>5, <2>6, <2>7 DEF Course
<1>8. CASE ~Permitted(caller[r], o)
  <2>1. Answer(r, "forbidden") /\ "forbidden" \in Answers
    BY <1>1, <1>8 DEF Answers
  <2>2. TypeOK' /\ Others(r)
    BY <1>2, <1>6, <2>1, AnswerTypes
       DEF IInv, TypeOK, Others, Same, world, course, confirmation, record
  <2>3. phase'[r] = 0 /\ lane'[r] = lane[r] /\ Prog(r)' = o.prog
    BY <1>2, <1>6, <2>1, AnswerTypes DEF IInv, Prog
  <2>4. Arrived(r)'
    BY <1>2, <1>5, <2>3 DEF Arrived, course, confirmation, record
  <2>5. InStep(r)'
    BY <1>4, <1>5, <2>3 DEF InStep
  <2>6. Confirmed(r)'
    BY <1>2, <1>4, <1>5, <2>3 DEF Confirmed, confirmation
  <2>7. SentLast(r)'
    BY <1>2, <1>5 DEF SentLast, record, world
  <2> QED
    BY <2>2, <2>4, <2>5, <2>6, <2>7 DEF Course
<1> QED
  BY <1>7, <1>8

\* At a question nothing has been sent yet.
LEMMA NothingSentAtQuestion ==
    ASSUME IInv, NEW r \in Requests, phase[r] \in DOMAIN Prog(r), Prog(r) \in Seq(Known),
           Phase(r).do \notin WorkPhases
    PROVE  issued[r] = {} /\ done[r] = {}
<1>1. Len(Prog(r)) \in Nat /\ DOMAIN Prog(r) = 1..Len(Prog(r))
  OBVIOUS
<1>2. ASSUME NEW c \in issued[r] PROVE FALSE
  <2>1. Len(Prog(r)) <= phase[r] /\ Changing(Prog(r)[Len(Prog(r))])
    BY DEF IInv, Course, SentLast
  <2>2. phase[r] = Len(Prog(r))
    BY <1>1, <2>1
  <2> QED
    BY <2>1, <2>2 DEF Changing, Phase
<1> QED
  BY <1>2 DEF IInv, Course, SentLast

\* A question is passed.
LEMMA Granted ==
    ASSUME IInv, NEW r \in Requests, Running(r), Advance(r),
           op'[r] = op[r], caller'[r] = caller[r], user'[r] = user[r],
           issued'[r] = issued[r], done'[r] = done[r], late'[r] = late[r], gate'[r] = "granted",
           \/ caller[r].surface = "cli" \/ caller[r].allowDestructive
           \/ caller[r].surface = "mcp" /\ user[r] = "affirmed"
    PROVE  Course(r)'
<1>1. /\ phase[r] \in Nat /\ phase[r] > 0 /\ phase'[r] = phase[r] + 1 /\ lane'[r] = Fresh
      /\ Prog(r)' = Prog(r)
  BY AdvanceTypes DEF IInv, TypeOK, Running, Prog
<1>2. op[r] \in AllOperations
  BY <1>1 DEF IInv, Course, Arrived
<1>3. Arrived(r)'
  BY <1>1 DEF IInv, Course, Arrived
<1>4. InStep(r)'
  <2>1. \A h \in Hosts : lane'[r][h] = Idle
    BY <1>1 DEF Fresh
  <2>2. ASSUME phase'[r] \in DOMAIN Prog(r), Prog(r)[phase'[r]].do \in WorkPhases
        PROVE  1 \in DOMAIN Prog(r)[phase'[r]].body
    BY <1>2, <2>2, ProgramFacts, BodyFacts DEF Prog
  <2> QED
    BY <1>1, <2>1, <2>2 DEF InStep, Idle, Phase
<1>5. Confirmed(r)'
  BY DEF Confirmed
<1>6. SentLast(r)'
  <2>1. Len(Prog(r)) \in Nat
    BY <1>2, ProgramFacts DEF Prog
  <2> QED
    BY <1>1, <2>1 DEF IInv, Course, SentLast
<1> QED
  BY <1>3, <1>4, <1>5, <1>6 DEF Course

\* It is not, or not yet.
LEMMA NotGranted ==
    ASSUME IInv, NEW r \in Requests, phase'[r] = phase[r], lane'[r] = lane[r], phase[r] > 0,
           op'[r] = op[r], caller'[r] = caller[r],
           issued'[r] = issued[r], done'[r] = done[r], late'[r] = late[r],
           gate[r] # "granted", gate'[r] # "granted",
           gate'[r] = "asked" => caller[r].surface = "mcp"
    PROVE  Course(r)'
<1>1. Arrived(r)'
  BY DEF IInv, Course, Arrived
<1>2. InStep(r)'
  BY DEF IInv, Course, InStep, Prog, Phase, Current
<1>3. Confirmed(r)'
  BY DEF IInv, Course, Confirmed, Prog
<1>4. SentLast(r)'
  BY DEF IInv, Course, SentLast, Prog
<1> QED
  BY <1>1, <1>2, <1>3, <1>4 DEF Course

\* The question.
LEMMA QuestionKeeps ==
    ASSUME IInv, NEW r \in Requests, RequireConfirmation(r)
    PROVE  TypeOK' /\ Others(r) /\ Course(r)'
<1> DEFINE n == IF Phase(r).named THEN Named(r) ELSE {}
<1>1. /\ At(r, {"confirm"}) /\ gate[r] = "none" /\ asked' = [asked EXCEPT ![r] = n]
      /\ UNCHANGED <<daemon, world, request, course, user, record>>
  BY DEF RequireConfirmation
<1>2. n \subseteq Hosts
  <2>1. Named(r) \subseteq Hosts
    BY DEF IInv, TypeOK, Named
  <2> QED
    BY <2>1
<1> HIDE DEF n
<1>3. Running(r) /\ phase[r] > 0
  BY <1>1 DEF At, Running
<1>4. /\ asked' \in [Requests -> SUBSET Hosts]
      /\ \A q \in Requests : q # r => asked'[q] = asked[q]
  BY <1>1, <1>2 DEF IInv, TypeOK
<1>5. CASE BuildConfirmer(caller[r]) = "McpPeerElicit"
  <2>1. gate' = [gate EXCEPT ![r] = "asked"] /\ UNCHANGED <<phase, lane, answer>>
    BY <1>5 DEF RequireConfirmation
  <2>2. caller[r].surface = "mcp"
    <3>1. caller[r] \in AllCallers
      BY DEF IInv, TypeOK
    <3> QED
      BY <1>5, <3>1 DEF BuildConfirmer, AllCallers
  <2>3. TypeOK' /\ Others(r)
    BY <1>1, <1>4, <2>1
       DEF IInv, TypeOK, Others, Same, world, request, course, record
  <2> QED
    BY <1>1, <1>3, <2>1, <2>2, <2>3, NotGranted DEF IInv, TypeOK, request, record, world
<1>6. CASE BuildConfirmer(caller[r]) = "DenyConfirm"
  <2>1. gate' = [gate EXCEPT ![r] = "denied"] /\ Answer(r, "denied") /\ "denied" \in Answers
    BY <1>6 DEF RequireConfirmation, Answers
  <2>2. TypeOK' /\ Others(r)
    BY <1>1, <1>4, <2>1, AnswerTypes
       DEF IInv, TypeOK, Others, Same, world, request, course, record
  <2> QED
    BY <1>1, <1>3, <2>1, <2>2, NotGranted, AnswerTypes DEF IInv, TypeOK, request, record, world
<1>7. CASE BuildConfirmer(caller[r]) \notin {"McpPeerElicit", "DenyConfirm"}
  <2>1. gate' = [gate EXCEPT ![r] = "granted"] /\ Advance(r)
    BY <1>7 DEF RequireConfirmation
  <2>2. caller[r].surface = "cli" \/ caller[r].allowDestructive
    BY <1>7 DEF BuildConfirmer
  <2>3. TypeOK' /\ Others(r)
    BY <1>1, <1>4, <2>1, AdvanceTypes
       DEF IInv, TypeOK, Others, Same, world, request, course, record
  <2>4. gate'[r] = "granted"
    BY <2>1 DEF IInv, TypeOK
  <2> QED
    BY <1>1, <1>3, <2>1, <2>2, <2>3, <2>4, Granted DEF request, record, world
<1> QED
  BY <1>5, <1>6, <1>7

\* The reply of the user, and what becomes of it.
LEMMA ReplyOfUserKeeps ==
    ASSUME IInv, NEW r \in Requests, UserReplies(r) \/ Elicited(r) \/ ElicitTimeout(r)
    PROVE  TypeOK' /\ Others(r) /\ Course(r)'
<1>0. gate[r] # "none" => phase[r] > 0
  BY DEF IInv, TypeOK, Course, Arrived
<1>1. CASE UserReplies(r)
  <2>1. /\ gate[r] \in {"asked", "expired"}
        /\ \E a \in {"affirmed", "incomplete", "declined"} : user' = [user EXCEPT ![r] = a]
        /\ UNCHANGED <<daemon, world, request, phase, course, lane, gate, asked, record, answer>>
    BY <1>1 DEF UserReplies
  <2>2. TypeOK' /\ Others(r)
    BY <2>1 DEF IInv, TypeOK, Others, Same, world, request, course, record
  <2>3. gate[r] = "asked" => caller[r].surface = "mcp"
    BY DEF IInv, Course, Confirmed
  <2> QED
    BY <1>0, <2>1, <2>2, <2>3, NotGranted DEF request, record, world
<1>2. CASE Elicited(r) /\ Affirms(user[r])
  <2>1. /\ Running(r) /\ gate[r] = "asked" /\ user[r] = "affirmed"
        /\ gate' = [gate EXCEPT ![r] = "granted"] /\ Advance(r)
        /\ UNCHANGED <<daemon, world, request, course, asked, user, record>>
    BY <1>2 DEF Elicited, Affirms
  <2>2. TypeOK' /\ Others(r)
    BY <2>1, AdvanceTypes DEF IInv, TypeOK, Others, Same, world, request, course, record
  <2>3. caller[r].surface = "mcp" /\ gate'[r] = "granted"
    BY <2>1 DEF IInv, TypeOK, Course, Confirmed
  <2> QED
    BY <2>1, <2>2, <2>3, Granted DEF request, record, world
<1>3. CASE ElicitTimeout(r) \/ (Elicited(r) /\ ~Affirms(user[r]))
  <2>1. /\ Running(r) /\ gate[r] = "asked"
        /\ \E g \in {"denied", "expired"} : gate' = [gate EXCEPT ![r] = g]
        /\ Answer(r, "denied") /\ "denied" \in Answers
        /\ UNCHANGED <<daemon, world, request, course, asked, user, record>>
    BY <1>3 DEF Elicited, ElicitTimeout, Answers
  <2>2. TypeOK' /\ Others(r)
    BY <2>1, AnswerTypes DEF IInv, TypeOK, Others, Same, world, request, course, record
  <2> QED
    BY <1>0, <2>1, <2>2, NotGranted, AnswerTypes DEF IInv, TypeOK, request, record, world
<1> QED
  BY <1>1, <1>2, <1>3

\* A change that a body sends is one of the table.
LEMMA SentIsChange ==
    ASSUME IInv, NEW r \in Requests, NEW h \in Hosts, phase[r] > 0, phase[r] \in DOMAIN Prog(r),
           Phase(r).do \in WorkPhases, lane[r][h].at \in DOMAIN Phase(r).body, Current(r, h).writes
    PROVE  <<h, Current(r, h).call>> \in Changes
<1>1. op[r] \in AllOperations
  BY AtWork
<1> DEFINE b == Phase(r).body
           j == lane[r][h].at
<1>2. b \in Bodies(op[r].prog)
  BY DEF Bodies, Phase, Prog
<1>3. j \in DOMAIN b /\ b[j].writes
  BY DEF Current
<1> HIDE DEF b, j
<1>4. b[j].call \in {b[i].call : i \in {k \in DOMAIN b : b[k].writes}}
  BY <1>3
<1>5. b \in UNION {Bodies(o.prog) : o \in AllOperations}
  BY <1>1, <1>2
<1>6. b[j].call \in CallsThatChange
  BY <1>4, <1>5 DEF CallsThatChange
<1> QED
  BY <1>6 DEF Changes, Current, b, j

\* A change is sent.
LEMMA SendKeeps ==
    ASSUME IInv, NEW r \in Requests, NEW h \in Hosts, Send(r, h)
    PROVE  TypeOK' /\ Others(r) /\ Course(r)'
<1> DEFINE c == <<h, Current(r, h).call>>
<1>1. /\ Turn(r, h, "idle") /\ Current(r, h).writes
      /\ lane' = [lane EXCEPT ![r][h].st = "sent"]
      /\ issued' = [issued EXCEPT ![r] = @ \cup {c}]
      /\ UNCHANGED <<daemon, world, request, phase, course, confirmation, done, blurred, stale, answer>>
  BY DEF Send
<1>2. /\ At(r, WorkPhases) /\ lane[r][h].st = "idle" /\ phase[r] \in Nat /\ phase[r] > 0
      /\ phase[r] \in DOMAIN Prog(r) /\ Phase(r).do \in WorkPhases
      /\ Len(Prog(r)) \in Nat /\ DOMAIN Prog(r) = 1..Len(Prog(r)) /\ op[r] \in AllOperations
  BY <1>1, AtFacts DEF Turn
<1>3. lane[r][h].at \in DOMAIN Phase(r).body /\ lane[r][h].at \in Nat \ {0}
  BY <1>1, TurnFacts
<1>4. c \in Changes
  BY <1>1, <1>2, <1>3, SentIsChange
<1>5. Changing(Phase(r))
  BY <1>1, <1>2, <1>3 DEF Changing, Current
<1>6. Facts(op[r])
  BY <1>2, OperationFacts
<1>7. /\ phase[r] = Len(Prog(r)) /\ RequiredScopeForParsedAction(op[r]) = WRITE_SCOPE
      /\ op[r].action # "resource"
  BY <1>2, <1>5, <1>6 DEF Facts, ChangesLast, Phase, Prog
<1>8. c[2] \in Destructive => gate[r] = "granted"
  <2>1. \/ \E k \in 1..(phase[r] - 1) : Prog(r)[k].do = "confirm"
        \/ \A j \in DOMAIN Phase(r).body : Phase(r).body[j].call \notin Destructive
    BY <1>2, <1>5, <1>6 DEF Facts, AsksBefore, Phase, Prog
  <2>2. CASE \E k \in 1..(phase[r] - 1) : Prog(r)[k].do = "confirm"
    <3>1. PICK k \in 1..(phase[r] - 1) : Prog(r)[k].do = "confirm"
      BY <2>2
    <3>2. k \in DOMAIN Prog(r) /\ ~(phase[r] <= k)
      BY <1>2, <3>1
    <3> QED
      BY <3>1, <3>2 DEF IInv, Course, Confirmed
  <2>3. CASE \A j \in DOMAIN Phase(r).body : Phase(r).body[j].call \notin Destructive
    BY <1>3, <2>3 DEF Current
  <2> QED
    BY <2>1, <2>2, <2>3
<1>9. c = <<h, Current(r, h).call>>
  OBVIOUS
<1> HIDE DEF c
<1>10. /\ issued' \in [Requests -> SUBSET Changes] /\ issued'[r] = issued[r] \cup {c}
       /\ \A q \in Requests : q # r => issued'[q] = issued[q]
  BY <1>1, <1>4 DEF IInv, TypeOK
<1>11. /\ lane' \in [Requests -> [Hosts -> Lanes]]
       /\ \A q \in Requests : q # r => lane'[q] = lane[q]
       /\ \A g \in Hosts : g # h => lane'[r][g] = lane[r][g]
       /\ lane'[r][h].at = lane[r][h].at /\ lane'[r][h].st = "sent"
  <2>1. lane \in [Requests -> [Hosts -> Lanes]] /\ lane[r][h] \in Lanes
    BY DEF IInv, TypeOK
  <2>2. [lane[r][h] EXCEPT !.st = "sent"] \in Lanes
    BY <2>1 DEF Lanes
  <2> DEFINE x == [lane[r][h] EXCEPT !.st = "sent"]
  <2>3. lane' = [lane EXCEPT ![r] = [lane[r] EXCEPT ![h] = x]] /\ x.at = lane[r][h].at /\ x.st = "sent"
    BY <1>1, <2>1 DEF Lanes
  <2> HIDE DEF x
  <2> QED
    BY <2>1, <2>2, <2>3 DEF x
<1>12. TypeOK' /\ Others(r)
  BY <1>1, <1>10, <1>11
     DEF IInv, TypeOK, Others, Same, world, request, course, confirmation
<1>13. Arrived(r)'
  BY <1>1, <1>2 DEF IInv, Course, Arrived, request
<1>14. phase' = phase /\ Prog(r)' = Prog(r) /\ Phase(r)' = Phase(r)
  BY <1>1 DEF request, Prog, Phase
<1>15. InStep(r)'
  <2> SUFFICES ASSUME NEW g \in Hosts
               PROVE  /\ lane'[r][g].st = "sent" =>
                            /\ phase[r] \in DOMAIN Prog(r) /\ Phase(r).do \in WorkPhases
                            /\ lane'[r][g].at \in DOMAIN Phase(r).body
                            /\ Phase(r).body[lane'[r][g].at].writes
                            /\ <<g, Phase(r).body[lane'[r][g].at].call>> \in issued'[r]
                      /\ lane'[r][g].st = "idle" => lane'[r][g].at \in DOMAIN Phase(r).body
    BY <1>14 DEF InStep, Current
  <2>1. CASE g = h
    BY <1>1, <1>2, <1>3, <1>9, <1>10, <1>11, <2>1 DEF Current
  <2>2. CASE g # h
    BY <1>2, <1>10, <1>11, <2>2 DEF IInv, Course, InStep, Current
  <2> QED
    BY <2>1, <2>2
<1>16. Confirmed(r)'
  BY <1>1, <1>14 DEF IInv, Course, Confirmed, request, confirmation
<1>17. SentLast(r)'
  <2>1. Prog(r) # <<>> /\ Len(Prog(r)) <= phase[r] /\ Changing(Prog(r)[Len(Prog(r))])
    BY <1>2, <1>5, <1>7 DEF Phase
  <2> QED
    BY <1>1, <1>7, <1>8, <1>10, <1>14, <2>1 DEF IInv, Course, SentLast, request, confirmation, world
<1> QED
  BY <1>12, <1>13, <1>15, <1>16, <1>17 DEF Course

\* A host moves on in its body, or is over.
LEMMA LaneTypes ==
    ASSUME TypeOK, NEW r \in Requests, NEW h \in Hosts, Lands(r, h) \/ Breaks(r, h)
    PROVE  /\ lane' \in [Requests -> [Hosts -> Lanes]]
           /\ \A q \in Requests : q # r => lane'[q] = lane[q]
           /\ \A g \in Hosts : g # h => lane'[r][g] = lane[r][g]
           /\ \/ Lands(r, h) /\ lane'[r][h].st = "ok"
              \/ /\ Lands(r, h) /\ lane'[r][h].st = "idle"
                 /\ lane'[r][h].at \in DOMAIN Phase(r).body /\ lane[r][h].at < lane'[r][h].at
              \/ Breaks(r, h) /\ lane'[r][h].st = "err"
<1>1. lane \in [Requests -> [Hosts -> Lanes]]
  BY DEF TypeOK
<1>2. ASSUME NEW x \in Lanes, lane' = [lane EXCEPT ![r] = [lane[r] EXCEPT ![h] = x]]
      PROVE  /\ lane' \in [Requests -> [Hosts -> Lanes]]
             /\ \A q \in Requests : q # r => lane'[q] = lane[q]
             /\ \A g \in Hosts : g # h => lane'[r][g] = lane[r][g]
             /\ lane'[r][h] = x
  BY <1>1, <1>2
<1>3. CASE Lands(r, h)
  <2>1. PICK x \in Lanes :
          /\ lane' = [lane EXCEPT ![r] = [lane[r] EXCEPT ![h] = x]]
          /\ \/ x.st = "ok"
             \/ x.st = "idle" /\ x.at \in DOMAIN Phase(r).body /\ lane[r][h].at < x.at
    BY <1>3 DEF Lands
  <2> QED
    BY <1>2, <1>3, <2>1
<1>4. CASE Breaks(r, h)
  <2>1. PICK x \in Lanes :
          lane' = [lane EXCEPT ![r] = [lane[r] EXCEPT ![h] = x]] /\ x.st = "err"
    BY <1>4 DEF Breaks
  <2> QED
    BY <1>2, <1>4, <2>1
<1> QED
  BY <1>3, <1>4

\* After a step nothing sent is forgotten, and the request goes on as it was.
LEMMA Worked ==
    ASSUME IInv, NEW r \in Requests, NEW h \in Hosts, Lands(r, h) \/ Breaks(r, h),
           phase'[r] = phase[r], phase[r] > 0, op'[r] = op[r], caller'[r] = caller[r],
           gate'[r] = gate[r], user'[r] = user[r], issued'[r] = issued[r],
           done'[r] \subseteq issued[r], late'[r] \subseteq issued[r]
    PROVE  Course(r)'
<1>1. Prog(r)' = Prog(r) /\ Phase(r)' = Phase(r)
  BY DEF Prog, Phase
<1>2. Arrived(r)'
  BY DEF IInv, Course, Arrived
<1>3. InStep(r)'
  <2> SUFFICES ASSUME NEW g \in Hosts
               PROVE  /\ lane'[r][g].st = "sent" =>
                            /\ phase[r] \in DOMAIN Prog(r) /\ Phase(r).do \in WorkPhases
                            /\ lane'[r][g].at \in DOMAIN Phase(r).body
                            /\ Phase(r).body[lane'[r][g].at].writes
                            /\ <<g, Phase(r).body[lane'[r][g].at].call>> \in issued[r]
                      /\ /\ lane'[r][g].st = "idle" /\ phase[r] \in DOMAIN Prog(r)
                         /\ Phase(r).do \in WorkPhases
                         => lane'[r][g].at \in DOMAIN Phase(r).body
    BY <1>1 DEF InStep, Current
  <2>1. CASE g = h
    BY <2>1, LaneTypes DEF IInv
  <2>2. CASE g # h
    <3>1. lane'[r][g] = lane[r][g]
      BY <2>2, LaneTypes DEF IInv
    <3> QED
      BY <3>1 DEF IInv, Course, InStep, Current
  <2> QED
    BY <2>1, <2>2
<1>4. Confirmed(r)'
  BY <1>1 DEF IInv, Course, Confirmed
<1>5. SentLast(r)'
  BY <1>1 DEF IInv, Course, SentLast
<1> QED
  BY <1>2, <1>3, <1>4, <1>5 DEF Course

\* What an error does besides.
LEMMA ErrorTypes ==
    ASSUME IInv, NEW r \in Requests, NEW h \in Hosts, Phase(r).do \in WorkPhases
    PROVE  /\ \A e \in BOOLEAN : Evict(r, h, e) =>
                /\ client' \in [Hosts -> {"usable", "dead"}]
                /\ stale' \in [Requests -> SUBSET (Hosts \X WorkPhases)]
           /\ Pass(r, h) \/ EndBody(r, h) =>
                /\ blurred' \in [Requests -> SUBSET Hosts] /\ blurred[r] \subseteq blurred'[r]
                /\ \A q \in Requests : q # r => blurred'[q] = blurred[q]
           /\ EndBody(r, h) => ((\E c \in done[r] \cup late'[r] : c[1] = h) => h \in blurred'[r])
<1>1. ASSUME NEW e \in BOOLEAN, Evict(r, h, e)
      PROVE  /\ client' \in [Hosts -> {"usable", "dead"}]
             /\ stale' \in [Requests -> SUBSET (Hosts \X WorkPhases)]
  <2>1. client' \in [Hosts -> {"usable", "dead"}]
    BY <1>1 DEF IInv, TypeOK, Evict
  <2> DEFINE x == <<h, Phase(r).do>>
  <2>2. stale' = [stale EXCEPT ![r] = @ \cup {x}] /\ x \in Hosts \X WorkPhases
    BY <1>1 DEF Evict
  <2> HIDE DEF x
  <2>3. stale' \in [Requests -> SUBSET (Hosts \X WorkPhases)]
    BY <2>2 DEF IInv, TypeOK
  <2> QED
    BY <2>1, <2>3
<1>2. Pass(r, h) =>
        /\ blurred' \in [Requests -> SUBSET Hosts] /\ blurred[r] \subseteq blurred'[r]
        /\ \A q \in Requests : q # r => blurred'[q] = blurred[q]
  BY DEF IInv, TypeOK, Pass
<1>3. EndBody(r, h) =>
        /\ blurred' \in [Requests -> SUBSET Hosts] /\ blurred[r] \subseteq blurred'[r]
        /\ \A q \in Requests : q # r => blurred'[q] = blurred[q]
        /\ (\E c \in done[r] \cup late'[r] : c[1] = h) => h \in blurred'[r]
  BY DEF IInv, TypeOK, EndBody
<1> QED
  BY <1>1, <1>2, <1>3

\* A dead transport is an error.
LEMMA TransportFacts ==
    ASSUME IInv, NEW r \in Requests, NEW h \in Hosts, At(r, WorkPhases), TransportError(r, h)
    PROVE  /\ Pass(r, h) \/ EndBody(r, h)
           /\ client' \in [Hosts -> {"usable", "dead"}]
           /\ stale' \in [Requests -> SUBSET (Hosts \X WorkPhases)]
<1>1. Phase(r).do \in WorkPhases /\ phase[r] > 0 /\ phase[r] \in DOMAIN Prog(r)
  BY AtFacts
<1>2. Phase(r).evict \in BOOLEAN
  BY <1>1, AtWork
<1>3. CASE Current(r, h).via = "docker"
  <2>1. \/ Pass(r, h) /\ Evict(r, h, FALSE)
        \/ EndBody(r, h) /\ Evict(r, h, Phase(r).evict)
    BY <1>3 DEF TransportError
  <2> QED
    BY <1>1, <1>2, <2>1, ErrorTypes
<1>4. CASE Current(r, h).via # "docker"
  BY <1>4 DEF TransportError, IInv, TypeOK
<1> QED
  BY <1>3, <1>4

\* A change takes effect.
LEMMA ApplyTypes ==
    ASSUME IInv, NEW r \in Requests, NEW h \in Hosts, lane[r][h].st = "sent", Apply(r, h)
    PROVE  /\ cont' \in [Daemons -> {"absent", "stopped", "running"}]
           /\ done' \in [Requests -> SUBSET Changes]
           /\ done'[r] = done[r] \cup {<<h, Current(r, h).call>>} /\ done'[r] \subseteq issued[r]
           /\ \A q \in Requests : q # r => done'[q] = done[q]
<1> DEFINE c == <<h, Current(r, h).call>>
<1>1. daemon[h] \in Daemons
  BY MapsAssumption DEF IInv, TypeOK
<1>2. cont' \in [Daemons -> {"absent", "stopped", "running"}]
  <2>1. \A s \in {"absent", "stopped", "running"} : After(Current(r, h).call, s) \in {"absent", "stopped", "running"}
    BY DEF After
  <2> HIDE DEF After, Current
  <2> QED
    BY <1>1, <2>1 DEF IInv, TypeOK, Apply
<1>3. c \in issued[r] /\ done[r] \subseteq issued[r]
  BY DEF IInv, Course, InStep, SentLast
<1>4. issued[r] \subseteq Changes
  BY DEF IInv, TypeOK
<1>5. done' = [done EXCEPT ![r] = @ \cup {c}]
  BY DEF Apply
<1> HIDE DEF c
<1>6. /\ done' \in [Requests -> SUBSET Changes] /\ done'[r] = done[r] \cup {c}
      /\ done'[r] \subseteq issued[r]
      /\ \A q \in Requests : q # r => done'[q] = done[q]
  BY <1>3, <1>4, <1>5 DEF IInv, TypeOK
<1> QED
  BY <1>2, <1>6 DEF c

\* What a step does to the changes: the change a host waits for takes effect, or
\* its reply is lost, or nothing happens to the changes.
Keeps(r) == done'[r] = done[r] /\ late'[r] = late[r]
Takes(r, h) ==
    /\ lane[r][h].st = "sent" /\ Apply(r, h) /\ late'[r] = late[r]
    /\ done'[r] = done[r] \cup {<<h, Current(r, h).call>>}
Loses(r, h) ==
    /\ lane[r][h].st = "sent" /\ done'[r] = done[r]
    /\ late'[r] = late[r] \cup {<<h, Current(r, h).call>>}

LEMMA ChangeFacts ==
    ASSUME IInv, NEW r \in Requests, NEW h \in Hosts, Read(r, h) \/ Reply(r, h)
    PROVE  /\ cont' \in [Daemons -> {"absent", "stopped", "running"}]
           /\ done' \in [Requests -> SUBSET Changes] /\ done'[r] \subseteq issued[r]
           /\ late' \in [Requests -> SUBSET Changes] /\ late'[r] \subseteq issued[r]
           /\ \A q \in Requests : q # r => done'[q] = done[q] /\ late'[q] = late[q]
           /\ (Keeps(r) /\ cont' = cont) \/ Takes(r, h) \/ (Loses(r, h) /\ cont' = cont)
<1>1. CASE cont' = cont /\ late' = late /\ done' = done
  BY <1>1 DEF IInv, TypeOK, Course, SentLast, Keeps
<1>2. CASE lane[r][h].st = "sent" /\ Apply(r, h) /\ late' = late
  <2>1. late \in [Requests -> SUBSET Changes] /\ late[r] \subseteq issued[r]
    BY DEF IInv, TypeOK, Course, SentLast
  <2> QED
    BY <1>2, <2>1, ApplyTypes DEF Takes
<1>3. CASE lane[r][h].st = "sent" /\ Lose(r, {h}) /\ cont' = cont /\ done' = done
  <2>1. UnderWay(r, {h}) = {<<h, Current(r, h).call>>}
    BY <1>3 DEF UnderWay
  <2>2. /\ late'[r] = late[r] \cup UnderWay(r, {h})
        /\ late' \in [Requests -> SUBSET Changes] /\ late'[r] \subseteq issued[r]
        /\ \A q \in Requests : q # r => late'[q] = late[q]
    BY <1>3, LoseTypes
  <2>3. /\ cont' \in [Daemons -> {"absent", "stopped", "running"}]
        /\ done' \in [Requests -> SUBSET Changes] /\ done'[r] \subseteq issued[r]
        /\ \A q \in Requests : q # r => done'[q] = done[q]
    BY <1>3 DEF IInv, TypeOK, Course, SentLast
  <2>4. Loses(r, h)
    BY <1>3, <2>1, <2>2 DEF Loses
  <2> QED
    BY <1>3, <2>2, <2>3, <2>4
<1>4. \/ cont' = cont /\ late' = late /\ done' = done
      \/ lane[r][h].st = "sent" /\ Apply(r, h) /\ late' = late
      \/ lane[r][h].st = "sent" /\ Lose(r, {h}) /\ cont' = cont /\ done' = done
  BY DEF Read, Reply, Turn, world
<1> QED
  BY <1>1, <1>2, <1>3, <1>4

\* What a step that reads, or a reply to one that changes, does.
LEMMA StepFacts ==
    ASSUME IInv, NEW r \in Requests, NEW h \in Hosts, Read(r, h) \/ Reply(r, h)
    PROVE  /\ At(r, WorkPhases) /\ (Lands(r, h) \/ Breaks(r, h))
           /\ UNCHANGED <<daemon, request, phase, course, confirmation, issued, answer>>
           /\ client' \in [Hosts -> {"usable", "dead"}]
           /\ stale' \in [Requests -> SUBSET (Hosts \X WorkPhases)]
           /\ blurred' \in [Requests -> SUBSET Hosts] /\ blurred[r] \subseteq blurred'[r]
           /\ \A q \in Requests : q # r => blurred'[q] = blurred[q]
           /\ ~Lands(r, h) => ((\E c \in done'[r] \cup late'[r] : c[1] = h) => h \in blurred'[r])
<1>1. At(r, WorkPhases) /\ \E st \in {"idle", "sent"} : Turn(r, h, st)
  BY DEF Read, Reply, Turn
<1>2. Phase(r).do \in WorkPhases
  BY <1>1, AtFacts
<1>3. /\ Succeed(r, h) => Lands(r, h)
      /\ Pass(r, h) => Lands(r, h) /\ blurred' = blurred
      /\ EndBody(r, h) => Breaks(r, h)
  BY <1>1, StepEnds
<1>4. \/ Succeed(r, h) /\ UNCHANGED <<client, stale, blurred>>
      \/ done' = done /\ (Pass(r, h) \/ EndBody(r, h)) /\ UNCHANGED <<client, stale>>
      \/ done' = done /\ TransportError(r, h)
  BY DEF Read, Reply, world
<1>5. \/ Succeed(r, h) /\ UNCHANGED <<client, stale, blurred>>
      \/ /\ done' = done /\ (Pass(r, h) \/ EndBody(r, h))
         /\ client' \in [Hosts -> {"usable", "dead"}]
         /\ stale' \in [Requests -> SUBSET (Hosts \X WorkPhases)]
  BY <1>1, <1>4, TransportFacts DEF IInv, TypeOK
<1>6. /\ client' \in [Hosts -> {"usable", "dead"}]
      /\ stale' \in [Requests -> SUBSET (Hosts \X WorkPhases)]
      /\ blurred' \in [Requests -> SUBSET Hosts] /\ blurred[r] \subseteq blurred'[r]
      /\ \A q \in Requests : q # r => blurred'[q] = blurred[q]
  <2>1. CASE Succeed(r, h) /\ UNCHANGED <<client, stale, blurred>>
    BY <2>1 DEF IInv, TypeOK
  <2>2. CASE ~(Succeed(r, h) /\ UNCHANGED <<client, stale, blurred>>)
    BY <1>2, <1>5, <2>2, ErrorTypes
  <2> QED
    BY <2>1, <2>2
<1>7. /\ Lands(r, h) \/ Breaks(r, h)
      /\ ~Lands(r, h) => ((\E c \in done'[r] \cup late'[r] : c[1] = h) => h \in blurred'[r])
  BY <1>2, <1>3, <1>5, ErrorTypes
<1>9. UNCHANGED <<daemon, request, phase, course, confirmation, issued, answer>>
  BY DEF Read, Reply
<1> QED
  BY <1>1, <1>6, <1>7, <1>9

\* Such a step keeps the invariant.
LEMMA StepKeeps ==
    ASSUME IInv, NEW r \in Requests, NEW h \in Hosts, Read(r, h) \/ Reply(r, h)
    PROVE  TypeOK' /\ Others(r) /\ Course(r)'
<1>1. /\ At(r, WorkPhases) /\ (Lands(r, h) \/ Breaks(r, h))
      /\ UNCHANGED <<daemon, request, phase, course, confirmation, issued, answer>>
      /\ client' \in [Hosts -> {"usable", "dead"}]
      /\ stale' \in [Requests -> SUBSET (Hosts \X WorkPhases)]
      /\ blurred' \in [Requests -> SUBSET Hosts]
      /\ \A q \in Requests : q # r => blurred'[q] = blurred[q]
  BY StepFacts
<1>2. /\ cont' \in [Daemons -> {"absent", "stopped", "running"}]
      /\ done' \in [Requests -> SUBSET Changes] /\ done'[r] \subseteq issued[r]
      /\ late' \in [Requests -> SUBSET Changes] /\ late'[r] \subseteq issued[r]
      /\ \A q \in Requests : q # r => done'[q] = done[q] /\ late'[q] = late[q]
  BY ChangeFacts
<1>3. /\ lane' \in [Requests -> [Hosts -> Lanes]]
      /\ \A q \in Requests : q # r => lane'[q] = lane[q]
  BY <1>1, LaneTypes DEF IInv
<1>4. TypeOK' /\ Others(r)
  BY <1>1, <1>2, <1>3 DEF IInv, TypeOK, Others, Same, request, course, confirmation
<1>5. phase[r] > 0
  BY <1>1 DEF At, Running
<1>6. Course(r)'
  BY <1>1, <1>2, <1>5, Worked DEF request, confirmation
<1> QED
  BY <1>4, <1>6

\* What a change does that takes effect when nobody waits for it.
LEMMA StraggleFacts ==
    ASSUME IInv, NEW r \in Requests, Straggle(r)
    PROVE  /\ UNCHANGED <<daemon, client, request, phase, course, lane, confirmation, issued,
                          blurred, stale, answer>>
           /\ cont' \in [Daemons -> {"absent", "stopped", "running"}]
           /\ done' \in [Requests -> SUBSET Changes] /\ late' \in [Requests -> SUBSET Changes]
           /\ done'[r] \cup late'[r] = done[r] \cup late[r]
           /\ \A q \in Requests : q # r => done'[q] = done[q] /\ late'[q] = late[q]
           /\ \E c \in late[r] :
                /\ c \in Changes /\ daemon[c[1]] \in Daemons /\ done'[r] = done[r] \cup {c}
                /\ cont' = [cont EXCEPT ![daemon[c[1]]] = After(c[2], @)]
                /\ Accepts(c[2], cont[daemon[c[1]]])
<1>1. PICK c \in late[r] :
        /\ Accepts(c[2], cont[daemon[c[1]]])
        /\ cont' = [cont EXCEPT ![daemon[c[1]]] = After(c[2], @)]
        /\ done' = [done EXCEPT ![r] = @ \cup {c}]
        /\ late' = [late EXCEPT ![r] = @ \ {c}]
  BY DEF Straggle
<1>2. c \in Changes /\ c[1] \in Hosts
  BY DEF IInv, TypeOK, Changes
<1>3. daemon[c[1]] \in Daemons
  BY <1>2, MapsAssumption DEF IInv, TypeOK
<1>4. cont' \in [Daemons -> {"absent", "stopped", "running"}]
  <2>1. \A s \in {"absent", "stopped", "running"} : After(c[2], s) \in {"absent", "stopped", "running"}
    BY DEF After
  <2> HIDE DEF After
  <2> QED
    BY <1>1, <1>3, <2>1 DEF IInv, TypeOK
<1>5. /\ done' \in [Requests -> SUBSET Changes] /\ late' \in [Requests -> SUBSET Changes]
      /\ done'[r] \cup late'[r] = done[r] \cup late[r] /\ done'[r] = done[r] \cup {c}
      /\ \A q \in Requests : q # r => done'[q] = done[q] /\ late'[q] = late[q]
  BY <1>1, <1>2 DEF IInv, TypeOK
<1>6. UNCHANGED <<daemon, client, request, phase, course, lane, confirmation, issued,
                  blurred, stale, answer>>
  BY DEF Straggle
<1> QED
  BY <1>1, <1>2, <1>3, <1>4, <1>5, <1>6

LEMMA StraggleKeeps ==
    ASSUME IInv, NEW r \in Requests, Straggle(r)
    PROVE  TypeOK' /\ Others(r) /\ Course(r)'
<1>1. /\ UNCHANGED <<daemon, client, request, phase, course, lane, confirmation, issued,
                     blurred, stale, answer>>
      /\ cont' \in [Daemons -> {"absent", "stopped", "running"}]
      /\ done' \in [Requests -> SUBSET Changes] /\ late' \in [Requests -> SUBSET Changes]
      /\ done'[r] \cup late'[r] = done[r] \cup late[r]
      /\ \A q \in Requests : q # r => done'[q] = done[q] /\ late'[q] = late[q]
  BY StraggleFacts
<1>2. TypeOK' /\ Others(r)
  BY <1>1 DEF IInv, TypeOK, Others, Same, request, course, confirmation
<1>3. done'[r] \subseteq issued[r] /\ late'[r] \subseteq issued[r]
  BY <1>1 DEF IInv, Course, SentLast
<1>4. Course(r)'
  BY <1>1, <1>3, Stayed DEF request, course, confirmation
<1> QED
  BY <1>2, <1>4

\* The invariant holds at the start.
LEMMA InitInv == Init => IInv
<1> SUFFICES ASSUME Init PROVE IInv
  OBVIOUS
<1>1. TypeOK
  <2>1. Fresh \in [Hosts -> Lanes]
    BY DEF Fresh, Idle, Lanes
  <2>2. caller \in [Requests -> AllCallers] /\ cont \in [Daemons -> {"absent", "stopped", "running"}]
    BY CallersAssumption, MapsAssumption DEF Init
  <2>3. <<>> \in Seq(Hosts)
    OBVIOUS
  <2> QED
    BY <2>1, <2>2, <2>3 DEF Init, TypeOK, Answers
<1>2. ASSUME NEW r \in Requests PROVE Course(r)
  <2>0. Prog(r) = <<>> /\ DOMAIN Prog(r) = {}
    <3>1. op[r] = NoOp /\ NoOp.prog = <<>>
      BY DEF Init, NoOp, Op
    <3>2. DOMAIN <<>> = {}
      OBVIOUS
    <3> QED
      BY <3>1, <3>2 DEF Prog
  <2>1. Arrived(r)
    BY DEF Init, Arrived
  <2>2. InStep(r)
    <3>1. \A h \in Hosts : lane[r][h].st = "idle" /\ phase[r] = 0
      BY DEF Init, Fresh, Idle
    <3> QED
      BY <2>0, <3>1 DEF InStep
  <2>3. Confirmed(r)
    BY <2>0 DEF Init, Confirmed
  <2>4. SentLast(r)
    BY DEF Init, SentLast
  <2> QED
    BY <2>1, <2>2, <2>3, <2>4 DEF Course
<1> QED
  BY <1>1, <1>2 DEF IInv

\* Every step keeps it.
LEMMA NextInv == IInv /\ [Next]_vars => IInv'
<1> SUFFICES ASSUME IInv, [Next]_vars PROVE IInv'
  OBVIOUS
<1>1. CASE UNCHANGED vars
  <2>1. TypeOK'
    BY <1>1 DEF IInv, TypeOK, vars, world, request, course, confirmation, record
  <2>2. ASSUME NEW q \in Requests PROVE Course(q)'
    <3>1. Same(q)
      BY <1>1 DEF Same, vars, world, request, course, confirmation, record
    <3> QED
      BY <3>1, SameKeeps DEF IInv
  <2> QED
    BY <2>1, <2>2 DEF IInv
<1>2. CASE Next
  <2>1. PICK r \in Requests :
          \/ Arrive(r) \/ Check(r) \/ TargetHosts_(r) \/ ResolveHost_(r) \/ ResolveOthers(r)
          \/ Skip(r) \/ RequireConfirmation(r) \/ UserReplies(r) \/ Elicited(r)
          \/ ElicitTimeout(r) \/ Conclude(r) \/ Finish(r) \/ Deadline(r) \/ Abandon(r)
          \/ Straggle(r)
          \/ \E h \in Hosts : Read(r, h) \/ Send(r, h) \/ Reply(r, h)
    BY <1>2 DEF Next
  <2>2. TypeOK' /\ Others(r) /\ Course(r)'
    <3>1. CASE Arrive(r)
      BY <3>1, ArriveKeeps
    <3>2. CASE Check(r)
      BY <3>2, CheckKeeps
    <3>3. CASE TargetHosts_(r)
      BY <3>3, TargetKeeps
    <3>4. CASE ResolveHost_(r)
      BY <3>4, ResolveKeeps
    <3>5. CASE ResolveOthers(r)
      BY <3>5, OthersKeep
    <3>6. CASE Skip(r)
      BY <3>6, SkipKeeps
    <3>7. CASE RequireConfirmation(r)
      BY <3>7, QuestionKeeps
    <3>8. CASE UserReplies(r) \/ Elicited(r) \/ ElicitTimeout(r)
      BY <3>8, ReplyOfUserKeeps
    <3>9. CASE Conclude(r)
      BY <3>9, ConcludeKeeps
    <3>10. CASE Finish(r) \/ Deadline(r) \/ Abandon(r)
      BY <3>10, EndKeeps
    <3>11. CASE \E h \in Hosts : Read(r, h) \/ Reply(r, h)
      BY <3>11, StepKeeps
    <3>12. CASE \E h \in Hosts : Send(r, h)
      BY <3>12, SendKeeps
    <3>13. CASE Straggle(r)
      BY <3>13, StraggleKeeps
    <3> QED
      BY <2>1, <3>1, <3>2, <3>3, <3>4, <3>5, <3>6, <3>7, <3>8, <3>9, <3>10, <3>11, <3>12, <3>13
  <2>3. ASSUME NEW q \in Requests, q # r PROVE Course(q)'
    BY <2>2, <2>3, SameKeeps DEF IInv, Others
  <2> QED
    BY <2>2, <2>3 DEF IInv
<1> QED
  BY <1>1, <1>2

\* The variables have their types in every run.
THEOREM TypeCorrect == Spec => []TypeOK
<1>1. IInv => TypeOK
  BY DEF IInv
<1> QED
  BY <1>1, InitInv, NextInv, PTL DEF Spec

\* A caller without the scope to write changes nothing, by any operation of any
\* surface: only the last phase of an operation that requires the scope sends a
\* change, and such an operation is not started for who lacks it.
THEOREM ScopesHold == Spec => []ReadersChangeNothing
<1>1. IInv => ReadersChangeNothing
  <2> SUFFICES ASSUME IInv, NEW r \in Requests, caller[r].mounted, WRITE_SCOPE \notin caller[r].scopes,
                      NEW c \in issued[r]
               PROVE  FALSE
    BY DEF ReadersChangeNothing
  <2>1. /\ RequiredScopeForParsedAction(op[r]) = WRITE_SCOPE /\ op[r].action # "resource"
    BY DEF IInv, Course, SentLast
  <2>2. Permitted(caller[r], op[r]) /\ caller[r] \in AllCallers
    BY DEF IInv, TypeOK, Course, Arrived
  <2>3. caller[r].surface \in {"rest", "mcp"}
    BY <2>2 DEF AllCallers
  <2>4. ScopesSatisfy(caller[r].scopes, WRITE_SCOPE)
    BY <2>1, <2>2, <2>3 DEF Permitted, EnforceRestScope, CheckScope
  <2> QED
    BY <2>4 DEF ScopesSatisfy, READ_SCOPE, WRITE_SCOPE
<1> QED
  BY <1>1, InitInv, NextInv, PTL DEF Spec

\* A destructive change is sent on the command line, under the override, or after
\* the user has affirmed it: a destructive last phase comes after the question,
\* and the question is passed in these ways only.
THEOREM DestructionIsAffirmed == Spec => []DestructiveOnlyAffirmed
<1>1. IInv => DestructiveOnlyAffirmed
  BY DEF IInv, Course, SentLast, Confirmed, DestructiveOnlyAffirmed
<1> QED
  BY <1>1, InitInv, NextInv, PTL DEF Spec

-----------------------------------------------------------------------------
(* ActionRun implements OperationSpec *)

StateOf == [r \in Requests |->
              IF answer[r] # "none" THEN "answered"
              ELSE IF phase[r] > 0 THEN "running" ELSE "waiting"]
PermitOf == [r \in Requests |-> phase[r] > 0 /\ (Gated(Prog(r)) => gate[r] = "granted")]

\* A request that starts is waiting, and has changed nothing.
LEMMA PromiseInit == Init => Promise!Init
<1> SUFFICES ASSUME Init PROVE Promise!Init
  OBVIOUS
<1>1. \A r \in Requests : answer[r] = "none" /\ phase[r] = 0
  BY DEF Init
<1>2. StateOf = [r \in Requests |-> "waiting"]
  BY <1>1 DEF StateOf
<1>3. PermitOf = [r \in Requests |-> FALSE]
  <2>1. \A r \in Requests : ~(phase[r] > 0)
    BY <1>1
  <2>2. \A r \in Requests : PermitOf[r] = FALSE
    BY <2>1, Zenon DEF PermitOf
  <2>3. PermitOf = [r \in Requests |-> PermitOf[r]]
    BY DEF PermitOf
  <2> HIDE DEF PermitOf
  <2> QED
    BY <2>2, <2>3, Zenon
<1>4. issued = [r \in Requests |-> {}]
  BY DEF Init
<1> QED
  BY <1>2, <1>3, <1>4 DEF Promise!Init, StateOf, PermitOf

\* What the step of one request changes of the state and the permission.
LEMMA OneMoves ==
    ASSUME NEW r \in Requests, Others(r)
    PROVE  /\ StateOf' = [StateOf EXCEPT ![r] = StateOf'[r]]
           /\ PermitOf' = [PermitOf EXCEPT ![r] = PermitOf'[r]]
<1>1. \A q \in Requests : q # r => /\ answer'[q] = answer[q] /\ phase'[q] = phase[q]
                                   /\ op'[q] = op[q] /\ gate'[q] = gate[q]
  BY DEF Others, Same
<1>2. \A q \in Requests : q # r => StateOf'[q] = StateOf[q]
  BY <1>1 DEF StateOf
<1>3. \A q \in Requests : q # r => PermitOf'[q] = PermitOf[q]
  BY <1>1 DEF PermitOf, Prog
<1>4. /\ StateOf = [q \in Requests |-> StateOf[q]] /\ StateOf' = [q \in Requests |-> StateOf'[q]]
      /\ PermitOf = [q \in Requests |-> PermitOf[q]] /\ PermitOf' = [q \in Requests |-> PermitOf'[q]]
  BY DEF StateOf, PermitOf
<1> HIDE DEF StateOf, PermitOf
<1>5. StateOf' = [StateOf EXCEPT ![r] = StateOf'[r]]
  BY <1>2, <1>4
<1>6. PermitOf' = [PermitOf EXCEPT ![r] = PermitOf'[r]]
  BY <1>3, <1>4
<1> QED
  BY <1>5, <1>6

\* A step of a request under way that sends nothing: it answers, is permitted, or
\* is no step of OperationSpec.
LEMMA PromiseMove ==
    ASSUME NEW r \in Requests, Others(r), op'[r] = op[r], issued' = issued,
           phase[r] > 0, phase'[r] > 0,
           \/ /\ answer'[r] = answer[r]
              /\ \/ gate[r] = "granted" <=> gate'[r] = "granted"
                 \/ answer[r] = "none" /\ gate[r] # "granted" /\ gate'[r] = "granted"
           \/ /\ answer[r] = "none" /\ answer'[r] # "none"
              /\ gate[r] = "granted" <=> gate'[r] = "granted"
    PROVE  [Promise!Next]_(Promise!vars)
<1> DEFINE s == StateOf
           p == PermitOf
<1>1. s' = [s EXCEPT ![r] = s'[r]] /\ p' = [p EXCEPT ![r] = p'[r]]
  BY OneMoves
<1>2. /\ s[r] = IF answer[r] # "none" THEN "answered" ELSE "running"
      /\ s'[r] = IF answer'[r] # "none" THEN "answered" ELSE "running"
  BY DEF StateOf
<1>3. /\ p[r] = (Gated(Prog(r)) => gate[r] = "granted")
      /\ p'[r] = (Gated(Prog(r)) => gate'[r] = "granted")
  BY DEF PermitOf, Prog
<1>4. s = [q \in Requests |-> s[q]] /\ p = [q \in Requests |-> p[q]]
  BY DEF StateOf, PermitOf
<1>9. /\ Promise!vars' = Promise!vars <=> s' = s /\ p' = p /\ issued' = issued
      /\ Promise!Answer(r) <=> /\ s[r] = "running" /\ s' = [s EXCEPT ![r] = "answered"]
                               /\ p' = p /\ issued' = issued
      /\ Promise!Permit(r) <=> /\ s[r] = "running" /\ ~p[r] /\ p' = [p EXCEPT ![r] = TRUE]
                               /\ s' = s /\ issued' = issued
  BY DEF Promise!vars, Promise!Answer, Promise!Permit, StateOf, PermitOf
<1> HIDE DEF s, p
<1>5. s'[r] = s[r] => s' = s
  BY <1>1, <1>4
<1>6. p'[r] = p[r] => p' = p
  BY <1>1, <1>4
<1>7. CASE gate[r] = "granted" <=> gate'[r] = "granted"
  <2>1. p' = p
    BY <1>3, <1>6, <1>7
  <2>2. CASE answer'[r] = answer[r]
    BY <1>2, <1>5, <1>9, <2>1, <2>2
  <2>3. CASE answer[r] = "none" /\ answer'[r] # "none"
    <3>1. Promise!Answer(r)
      BY <1>1, <1>2, <1>9, <2>1, <2>3
    <3> QED
      BY <3>1 DEF Promise!Next
  <2> QED
    BY <2>2, <2>3
<1>8. CASE answer'[r] = answer[r] /\ answer[r] = "none" /\ gate[r] # "granted" /\ gate'[r] = "granted"
  <2>1. s' = s /\ s[r] = "running" /\ p'[r] = TRUE
    BY <1>2, <1>3, <1>5, <1>8
  <2>2. CASE p[r]
    <3>1. p[r] = TRUE
      BY <1>3, <2>2
    <3> QED
      BY <1>6, <1>9, <2>1, <3>1
  <2>3. CASE ~p[r]
    <3>1. Promise!Permit(r)
      BY <1>1, <1>9, <2>1, <2>3
    <3> QED
      BY <3>1 DEF Promise!Next
  <2> QED
    BY <2>2, <2>3
<1> QED
  BY <1>7, <1>8

\* The step of OperationSpec that each step of a request is.
LEMMA PromiseStep == IInv /\ [Next]_vars => [Promise!Next]_(Promise!vars)
<1> SUFFICES ASSUME IInv, [Next]_vars PROVE [Promise!Next]_(Promise!vars)
  OBVIOUS
<1>0. ASSUME NEW r \in Requests, NEW a \in Answers \ {"none"}, Answer(r, a), answer[r] = "none", IInv
      PROVE  answer'[r] # "none" /\ phase' = phase
  <2>1. a \in Answers /\ a # "none"
    BY <1>0
  <2> QED
    BY <1>0, <2>1, AnswerTypes DEF IInv
<1>20. ASSUME NEW r \in Requests, Advance(r), phase[r] > 0
       PROVE  answer' = answer /\ phase'[r] > 0
  <2>1. phase[r] \in Nat /\ phase'[r] = phase[r] + 1 /\ answer' = answer
    BY <1>20, AdvanceTypes DEF IInv, TypeOK
  <2> QED
    BY <2>1
<1>1. ASSUME NEW r \in Requests, Arrive(r) PROVE Promise!Next
  <2>1. /\ phase[r] = 0 /\ answer[r] = "none" /\ Others(r) /\ issued' = issued
    BY <1>1, ArriveKeeps DEF Arrive, record
  <2>2. \/ Advance(r)
        \/ Answer(r, "forbidden")
    BY <1>1 DEF Arrive
  <2>3. /\ StateOf' = [StateOf EXCEPT ![r] = StateOf'[r]]
        /\ PermitOf' = [PermitOf EXCEPT ![r] = PermitOf'[r]]
    BY <2>1, OneMoves
  <2>4. StateOf[r] = "waiting"
    BY <2>1 DEF StateOf
  <2>5. PermitOf = [q \in Requests |-> PermitOf[q]]
    BY DEF PermitOf
  <2>6. \A b \in BOOLEAN : Promise!Admit(r, b) <=> /\ StateOf[r] = "waiting"
                                      /\ StateOf' = [StateOf EXCEPT ![r] = "running"]
                                      /\ PermitOf' = [PermitOf EXCEPT ![r] = b]
                                      /\ issued' = issued
    BY DEF Promise!Admit, StateOf, PermitOf
  <2>7. Promise!Refuse(r) <=> /\ StateOf[r] = "waiting"
                              /\ StateOf' = [StateOf EXCEPT ![r] = "answered"]
                              /\ PermitOf' = PermitOf /\ issued' = issued
    BY DEF Promise!Refuse, StateOf, PermitOf
  <2>8. CASE Advance(r)
    <3>1. phase'[r] = 1 /\ answer'[r] = "none"
      BY <2>1, <2>8, AdvanceTypes DEF IInv
    <3>2. StateOf'[r] = "running"
      BY <3>1 DEF StateOf
    <3>3. PermitOf'[r] \in BOOLEAN
      BY Zenon DEF PermitOf
    <3> HIDE DEF StateOf, PermitOf
    <3>4. PICK b \in BOOLEAN : PermitOf'[r] = b
      BY <3>3
    <3>5. Promise!Admit(r, b) <=> /\ StateOf[r] = "waiting"
                                  /\ StateOf' = [StateOf EXCEPT ![r] = "running"]
                                  /\ PermitOf' = [PermitOf EXCEPT ![r] = b]
                                  /\ issued' = issued
      BY <2>6
    <3>6. Promise!Admit(r, b)
      BY <2>1, <2>3, <2>4, <3>2, <3>4, <3>5
    <3> QED
      BY <3>6 DEF Promise!Next
  <2>9. CASE Answer(r, "forbidden")
    <3>1. phase'[r] = 0 /\ answer'[r] = "forbidden"
      BY <2>1, <2>9, AnswerTypes DEF IInv, Answers
    <3>2. StateOf'[r] = "answered"
      BY <3>1 DEF StateOf
    <3>3. PermitOf'[r] = FALSE /\ PermitOf[r] = FALSE
      <4>1. ~(phase[r] > 0) /\ ~(phase'[r] > 0)
        BY <2>1, <3>1
      <4> QED
        BY <4>1, Zenon DEF PermitOf
    <3> HIDE DEF StateOf, PermitOf
    <3>4. PermitOf' = PermitOf
      BY <2>3, <2>5, <3>3
    <3>5. Promise!Refuse(r)
      BY <2>1, <2>3, <2>4, <2>7, <3>2, <3>4
    <3> QED
      BY <3>5 DEF Promise!Next
  <2> QED
    BY <2>2, <2>8, <2>9
\* The steps of a request under way that leave the confirmation alone.
<1>2. ASSUME NEW r \in Requests, phase[r] > 0, answer[r] = "none", Others(r),
             op' = op, gate' = gate, issued' = issued,
             Advance(r) \/ \E a \in Answers \ {"none"} : Answer(r, a)
      PROVE  [Promise!Next]_(Promise!vars)
  <2>1. CASE Advance(r)
    BY <1>2, <1>20, <2>1, PromiseMove
  <2>2. CASE \E a \in Answers \ {"none"} : Answer(r, a)
    BY <1>0, <1>2, <2>2, PromiseMove
  <2> QED
    BY <1>2, <2>1, <2>2
<1>3. ASSUME NEW r \in Requests, Check(r) PROVE [Promise!Next]_(Promise!vars)
  <2>1. /\ Running(r) /\ op' = op /\ gate' = gate /\ issued' = issued
        /\ Advance(r) \/ \E a \in Answers \ {"none"} : Answer(r, a)
    BY <1>3 DEF Check, At, Answers, request, confirmation, record
  <2> QED
    BY <1>2, <1>3, <2>1, CheckKeeps DEF Running
<1>4. ASSUME NEW r \in Requests, TargetHosts_(r) PROVE [Promise!Next]_(Promise!vars)
  <2>1. /\ Running(r) /\ op' = op /\ gate' = gate /\ issued' = issued
        /\ Advance(r) \/ \E a \in Answers \ {"none"} : Answer(r, a)
    BY <1>4 DEF TargetHosts_, At, Answers, request, confirmation, record
  <2> QED
    BY <1>2, <1>4, <2>1, TargetKeeps DEF Running
<1>5. ASSUME NEW r \in Requests, ResolveHost_(r) PROVE [Promise!Next]_(Promise!vars)
  <2>1. /\ Running(r) /\ op' = op /\ gate' = gate /\ issued' = issued
        /\ Advance(r) \/ \E a \in Answers \ {"none"} : Answer(r, a)
    BY <1>5 DEF ResolveHost_, At, Answers, request, confirmation, record
  <2> QED
    BY <1>2, <1>5, <2>1, ResolveKeeps DEF Running
<1>6. ASSUME NEW r \in Requests, ResolveOthers(r) PROVE [Promise!Next]_(Promise!vars)
  <2>1. /\ Running(r) /\ op' = op /\ gate' = gate /\ issued' = issued
        /\ Advance(r) \/ \E a \in Answers \ {"none"} : Answer(r, a)
    BY <1>6 DEF ResolveOthers, At, Answers, request, confirmation, record
  <2> QED
    BY <1>2, <1>6, <2>1, OthersKeep DEF Running
<1>7. ASSUME NEW r \in Requests, Skip(r) PROVE [Promise!Next]_(Promise!vars)
  <2>1. Running(r) /\ op' = op /\ gate' = gate /\ issued' = issued /\ Advance(r)
    BY <1>7 DEF Skip, At, request, confirmation, record
  <2> QED
    BY <1>2, <1>7, <2>1, SkipKeeps DEF Running
<1>8. ASSUME NEW r \in Requests, Conclude(r) PROVE [Promise!Next]_(Promise!vars)
  <2>1. /\ Running(r) /\ op' = op /\ gate' = gate /\ issued' = issued
        /\ Advance(r) \/ \E a \in Answers \ {"none"} : Answer(r, a)
    BY <1>8 DEF Conclude, At, Answers, request, confirmation, record
  <2> QED
    BY <1>2, <1>8, <2>1, ConcludeKeeps DEF Running
<1>9. ASSUME NEW r \in Requests, Finish(r) \/ Deadline(r) \/ Abandon(r)
      PROVE  [Promise!Next]_(Promise!vars)
  <2>1. /\ Running(r) /\ op' = op /\ gate' = gate /\ issued' = issued
        /\ \E a \in Answers \ {"none"} : Answer(r, a)
    BY <1>9 DEF Finish, Deadline, Abandon, Timed, Answers, request, confirmation, record
  <2> QED
    BY <1>2, <1>9, <2>1, EndKeeps DEF Running
\* The confirmation.
<1>10. ASSUME NEW r \in Requests, RequireConfirmation(r) PROVE [Promise!Next]_(Promise!vars)
  <2>1. /\ phase[r] > 0 /\ answer[r] = "none" /\ op' = op /\ issued' = issued /\ gate[r] = "none"
        /\ \/ gate' = [gate EXCEPT ![r] = "asked"] /\ UNCHANGED <<phase, lane, answer>>
           \/ gate' = [gate EXCEPT ![r] = "denied"] /\ Answer(r, "denied")
           \/ gate' = [gate EXCEPT ![r] = "granted"] /\ Advance(r)
    BY <1>10 DEF RequireConfirmation, At, Running, request, record
  <2>2. gate \in [Requests -> {"none", "asked", "granted", "denied", "expired"}] /\ Others(r)
    BY <1>10, QuestionKeeps DEF IInv, TypeOK
  <2>3. CASE gate' = [gate EXCEPT ![r] = "asked"] /\ UNCHANGED <<phase, lane, answer>>
    BY <2>1, <2>2, <2>3, PromiseMove
  <2>4. CASE gate' = [gate EXCEPT ![r] = "denied"] /\ Answer(r, "denied")
    <3>1. "denied" \in Answers \ {"none"}
      BY DEF Answers
    <3> QED
      BY <1>0, <2>1, <2>2, <2>4, <3>1, PromiseMove
  <2>5. CASE gate' = [gate EXCEPT ![r] = "granted"] /\ Advance(r)
    BY <1>20, <2>1, <2>2, <2>5, PromiseMove
  <2> QED
    BY <2>1, <2>3, <2>4, <2>5
<1>11. ASSUME NEW r \in Requests, UserReplies(r) \/ Elicited(r) \/ ElicitTimeout(r)
       PROVE  [Promise!Next]_(Promise!vars)
  <2>1. Others(r) /\ (gate[r] # "none" => phase[r] > 0)
    BY <1>11, ReplyOfUserKeeps DEF IInv, TypeOK, Course, Arrived
  <2>2. CASE UserReplies(r)
    <3>1. /\ phase[r] > 0 /\ op' = op /\ issued' = issued /\ gate' = gate /\ answer' = answer
          /\ phase' = phase
      BY <2>1, <2>2 DEF UserReplies, request, record
    <3> QED
      BY <2>1, <3>1, PromiseMove
  <2>3. CASE Elicited(r) \/ ElicitTimeout(r)
    <3>1. /\ phase[r] > 0 /\ answer[r] = "none" /\ op' = op /\ issued' = issued /\ gate[r] = "asked"
          /\ \/ gate' = [gate EXCEPT ![r] = "denied"] /\ Answer(r, "denied")
             \/ gate' = [gate EXCEPT ![r] = "expired"] /\ Answer(r, "denied")
             \/ gate' = [gate EXCEPT ![r] = "granted"] /\ Advance(r)
      BY <2>3 DEF Elicited, ElicitTimeout, Running, request, record
    <3>2. /\ gate \in [Requests -> {"none", "asked", "granted", "denied", "expired"}]
          /\ "denied" \in Answers \ {"none"}
      BY DEF IInv, TypeOK, Answers
    <3>3. CASE Answer(r, "denied") /\ gate'[r] # "granted"
      BY <1>0, <2>1, <3>1, <3>2, <3>3, PromiseMove
    <3>4. CASE gate' = [gate EXCEPT ![r] = "granted"] /\ Advance(r)
      BY <1>20, <2>1, <3>1, <3>2, <3>4, PromiseMove
    <3> QED
      BY <3>1, <3>2, <3>3, <3>4
  <2> QED
    BY <1>11, <2>2, <2>3
\* Work on the hosts.
<1>12. ASSUME NEW r \in Requests, Straggle(r) \/ \E h \in Hosts : Read(r, h) \/ Reply(r, h)
       PROVE  [Promise!Next]_(Promise!vars)
  <2>1. /\ op' = op /\ issued' = issued /\ gate' = gate /\ answer' = answer /\ phase' = phase
    BY <1>12 DEF Read, Reply, Straggle, request, confirmation
  <2>2. Others(r)
    BY <1>12, StepKeeps, StraggleKeeps
  <2>3. phase[r] > 0
    <3>1. CASE \E h \in Hosts : Read(r, h) \/ Reply(r, h)
      BY <3>1 DEF Read, Reply, Turn, At, Running
    <3>2. CASE Straggle(r)
      BY <3>2 DEF Straggle, IInv, Course, SentLast, Arrived
    <3> QED
      BY <1>12, <3>1, <3>2
  <2> QED
    BY <2>1, <2>2, <2>3, PromiseMove
<1>13. ASSUME NEW r \in Requests, NEW h \in Hosts, Send(r, h) PROVE Promise!Next
  <2> DEFINE c == <<h, Current(r, h).call>>
  <2>1. /\ At(r, WorkPhases) /\ issued' = [issued EXCEPT ![r] = @ \cup {c}]
        /\ op' = op /\ gate' = gate /\ answer' = answer /\ phase' = phase
        /\ Turn(r, h, "idle") /\ Current(r, h).writes
    BY <1>13 DEF Send, Turn, request, confirmation
  <2>2. /\ phase[r] \in Nat /\ phase[r] > 0 /\ answer[r] = "none" /\ phase[r] \in DOMAIN Prog(r)
        /\ op[r] \in AllOperations /\ Phase(r).do \in WorkPhases
        /\ Len(Prog(r)) \in Nat /\ DOMAIN Prog(r) = 1..Len(Prog(r))
    BY <2>1, AtFacts
  <2>3. lane[r][h].at \in DOMAIN Phase(r).body
    BY <2>1, TurnFacts
  <2>4. c \in Changes
    BY <2>1, <2>2, <2>3, SentIsChange
  <2>5. Changing(Phase(r)) /\ Facts(op[r])
    BY <2>1, <2>2, <2>3, OperationFacts DEF Changing, Current
  <2>6. Gated(Prog(r)) => gate[r] = "granted"
    <3>1. \/ \E k \in 1..(phase[r] - 1) : Prog(r)[k].do = "confirm"
          \/ ~Gated(Prog(r))
      BY <2>2, <2>5 DEF Facts, AsksBefore, Phase, Prog
    <3>2. ASSUME NEW k \in 1..(phase[r] - 1), Prog(r)[k].do = "confirm" PROVE gate[r] = "granted"
      <4>1. k \in DOMAIN Prog(r) /\ ~(phase[r] <= k)
        BY <2>2
      <4> QED
        BY <3>2, <4>1 DEF IInv, Course, Confirmed
    <3> QED
      BY <3>1, <3>2
  <2>7. StateOf[r] = "running" /\ PermitOf[r] /\ StateOf' = StateOf /\ PermitOf' = PermitOf
    BY <2>1, <2>2, <2>6 DEF StateOf, PermitOf, Prog
  <2> HIDE DEF c
  <2>8. Promise!Change(r, c)
    BY <2>1, <2>7 DEF Promise!Change, StateOf, PermitOf
  <2> QED
    BY <2>4, <2>8 DEF Promise!Next
<1>14. CASE UNCHANGED vars
  BY <1>14 DEF vars, world, request, course, confirmation, record, Promise!vars, Prog
<1> QED
  BY <1>1, <1>3, <1>4, <1>5, <1>6, <1>7, <1>8, <1>9, <1>10, <1>11, <1>12, <1>13, <1>14 DEF Next

\* Every run of ActionRun is one of OperationSpec: a request changes nothing
\* before it is permitted to, and sends no change once it is answered, whatever
\* is late, lost or dropped.
THEOREM KeepsPromise == Spec => PromiseSpec
<1>1. Spec => Promise!Init /\ [][Promise!Next]_(Promise!vars)
  BY InitInv, NextInv, PromiseInit, PromiseStep, PTL DEF Spec
<1> QED
  BY <1>1 DEF PromiseSpec, Promise!Spec

-----------------------------------------------------------------------------
(* The hosts that are worked on *)

\* A step of request r.
Moves(r) ==
    \/ Arrive(r) \/ Check(r) \/ TargetHosts_(r) \/ ResolveHost_(r) \/ ResolveOthers(r)
    \/ Skip(r) \/ RequireConfirmation(r) \/ UserReplies(r) \/ Elicited(r)
    \/ ElicitTimeout(r) \/ Conclude(r) \/ Finish(r) \/ Deadline(r) \/ Abandon(r)
    \/ Straggle(r)
    \/ \E h \in Hosts : Read(r, h) \/ Send(r, h) \/ Reply(r, h)

\* A step is one of the request, or nothing happens to it.
LEMMA OneMovesOn ==
    ASSUME IInv, [Next]_vars, NEW q \in Requests
    PROVE  daemon' = daemon /\ (Moves(q) \/ Same(q))
<1>1. CASE UNCHANGED vars
  BY <1>1 DEF Same, vars, world, request, course, confirmation, record
<1>2. CASE Next
  <2>1. PICK r \in Requests : Moves(r)
    BY <1>2 DEF Next, Moves
  <2>2. Others(r)
    <3>1. CASE Arrive(r)
      BY <3>1, ArriveKeeps
    <3>2. CASE Check(r) \/ TargetHosts_(r) \/ ResolveHost_(r) \/ ResolveOthers(r) \/ Skip(r)
      BY <3>2, CheckKeeps, TargetKeeps, ResolveKeeps, OthersKeep, SkipKeeps
    <3>3. CASE RequireConfirmation(r) \/ UserReplies(r) \/ Elicited(r) \/ ElicitTimeout(r)
      BY <3>3, QuestionKeeps, ReplyOfUserKeeps
    <3>4. CASE Conclude(r) \/ Finish(r) \/ Deadline(r) \/ Abandon(r)
      BY <3>4, ConcludeKeeps, EndKeeps
    <3>5. CASE Straggle(r) \/ \E h \in Hosts : Read(r, h) \/ Send(r, h) \/ Reply(r, h)
      BY <3>5, StepKeeps, SendKeeps, StraggleKeeps
    <3> QED
      BY <2>1, <3>1, <3>2, <3>3, <3>4, <3>5 DEF Moves
  <2> QED
    BY <2>1, <2>2 DEF Others
<1> QED
  BY <1>1, <1>2

\* The hosts chosen are the one asked for, if one was.
Chosen(r) ==
    /\ \A k \in DOMAIN Prog(r) : k < phase[r] /\ Prog(r)[k].do = "resolve" =>
          host[r] \in Hosts /\ owner[r] \in Hosts
    /\ owner[r] # NoHost =>
          \E k \in DOMAIN Prog(r) :
              k < phase[r] /\ Prog(r)[k].do \in {"target", "resolve", "probe", "first"}
    /\ host[r] # NoHost /\ op[r].action # "emit" =>
          /\ owner[r] \in {NoHost, host[r]}
          /\ \A i \in DOMAIN targets[r] : targets[r][i] = host[r]

\* The hosts a question named are still the ones that are worked on.
AskedFor(r) ==
    asked[r] # {} =>
        /\ asked[r] = Named(r)
        /\ \E k \in DOMAIN Prog(r) :
              k <= phase[r] /\ Prog(r)[k].do = "confirm" /\ Prog(r)[k].named

\* The changes went to these hosts.
SentToNamed(r) ==
    \A c \in issued[r] :
        /\ asked[r] # {} => c[1] \in asked[r]
        /\ host[r] # NoHost /\ op[r].action # "emit" => c[1] \in {host[r], other[r]}

\* Every daemon is reached by a host that is kept.
Covered(r) ==
    phase[r] - 1 \in DOMAIN Prog(r) /\ host[r] = NoHost =>
        /\ Prog(r)[phase[r] - 1].do = "target" => targets[r] = HostList
        /\ Prog(r)[phase[r] - 1].do = "discover" =>
              \A h \in Hosts : \E i \in DOMAIN targets[r] : daemon[targets[r][i]] = daemon[h]

\* Who is asked, is asked a question of the program.
AtQuestion(r) == gate[r] = "asked" => phase[r] \in DOMAIN Prog(r) /\ Phase(r).do = "confirm"

Selection(r) == Chosen(r) /\ AskedFor(r) /\ SentToNamed(r) /\ Covered(r) /\ AtQuestion(r)

\* Where nothing happens to a request, its hosts stay as they are.
LEMMA SameSelection ==
    ASSUME NEW q \in Requests, Same(q), daemon' = daemon
    PROVE  Selection(q) => Selection(q)'
<1>1. Chosen(q) => Chosen(q)'
  BY DEF Same, Chosen, Prog
<1>2. AskedFor(q) => AskedFor(q)'
  BY DEF Same, AskedFor, Prog, Named
<1>3. SentToNamed(q) => SentToNamed(q)'
  BY DEF Same, SentToNamed
<1>4. Covered(q) => Covered(q)'
  BY DEF Same, Covered, Prog
<1>5. AtQuestion(q) => AtQuestion(q)'
  BY DEF Same, AtQuestion, Prog, Phase
<1> QED
  BY <1>1, <1>2, <1>3, <1>4, <1>5 DEF Selection

\* They do while a phase goes on.
LEMMA SelectionRemains ==
    ASSUME NEW r \in Requests, Selection(r), phase'[r] = phase[r], daemon' = daemon,
           op'[r] = op[r], host'[r] = host[r], targets'[r] = targets[r], owner'[r] = owner[r],
           other'[r] = other[r], asked'[r] = asked[r], issued'[r] = issued[r],
           gate'[r] = "asked" => gate[r] = "asked"
    PROVE  Selection(r)'
<1>1. Chosen(r)'
  BY DEF Selection, Chosen, Prog
<1>2. AskedFor(r)'
  BY DEF Selection, AskedFor, Prog, Named
<1>3. SentToNamed(r)'
  BY DEF Selection, SentToNamed
<1>4. Covered(r)'
  BY DEF Selection, Covered, Prog
<1>5. AtQuestion(r)'
  BY DEF Selection, AtQuestion, Prog, Phase
<1> QED
  BY <1>1, <1>2, <1>3, <1>4, <1>5 DEF Selection

\* And when it is over without choosing any.
LEMMA SelectionPasses ==
    ASSUME IInv, NEW r \in Requests, Selection(r), phase[r] \in DOMAIN Prog(r), phase[r] > 0,
           phase'[r] = phase[r] + 1, daemon' = daemon,
           Phase(r).do \notin {"target", "resolve"}, Phase(r).do = "discover" => host[r] # NoHost,
           op'[r] = op[r], host'[r] = host[r], targets'[r] = targets[r], owner'[r] = owner[r],
           other'[r] = other[r], asked'[r] = asked[r], issued'[r] = issued[r],
           (gate'[r] = gate[r] /\ Phase(r).do # "confirm") \/ gate'[r] = "granted"
    PROVE  Selection(r)'
<1>0. phase[r] \in Nat /\ op[r] \in AllOperations /\ Prog(r)' = Prog(r) /\ Named(r)' = Named(r)
  BY DEF IInv, TypeOK, Course, Arrived, Prog, Named
<1>1. DOMAIN Prog(r) = 1..Len(Prog(r)) /\ Len(Prog(r)) \in Nat
  BY <1>0, ProgramFacts DEF Prog
<1>2. \A k \in DOMAIN Prog(r) : /\ k < phase'[r] => k < phase[r] \/ k = phase[r]
                                /\ k < phase[r] => k < phase'[r]
                                /\ k <= phase[r] => k <= phase'[r]
  BY <1>0, <1>1
<1>3. Chosen(r)'
  BY <1>0, <1>2 DEF Selection, Chosen, Phase
<1>4. AskedFor(r)'
  BY <1>0, <1>2 DEF Selection, AskedFor
<1>5. SentToNamed(r)'
  BY DEF Selection, SentToNamed
<1>6. Covered(r)'
  BY <1>0 DEF Covered, Phase
<1>7. AtQuestion(r)'
  BY DEF Selection, AtQuestion
<1> QED
  BY <1>3, <1>4, <1>5, <1>6, <1>7 DEF Selection

\* Hosts are not chosen any more once a question has named them.
LEMMA ChosenBefore ==
    ASSUME IInv, NEW r \in Requests, AskedFor(r), phase[r] \in DOMAIN Prog(r), phase[r] > 0,
           Phase(r).do \in {"target", "resolve", "several", "other", "discover", "probe", "first"}
    PROVE  asked[r] = {}
<1> SUFFICES ASSUME asked[r] # {} PROVE FALSE
  OBVIOUS
<1>1. PICK k \in DOMAIN Prog(r) : k <= phase[r] /\ Prog(r)[k].do = "confirm" /\ Prog(r)[k].named
  BY DEF AskedFor
<1>2. op[r] \in AllOperations /\ phase[r] \in Nat
  BY DEF IInv, TypeOK, Course, Arrived
<1>3. DOMAIN Prog(r) = 1..Len(Prog(r)) /\ Len(Prog(r)) \in Nat
  BY <1>2, ProgramFacts DEF Prog
<1>4. k # phase[r]
  BY <1>1 DEF Phase
<1>5. k < phase[r]
  BY <1>1, <1>2, <1>3, <1>4
<1>6. ActsOnNamed(Prog(r))
  <2>1. Facts(op[r])
    BY <1>2, OperationFacts
  <2> QED
    BY <2>1 DEF Facts, Prog
<1>7. Phase(r).do \in {"validate", "one", "oneOther", "each"}
  BY <1>1, <1>5, <1>6 DEF ActsOnNamed, Phase
<1> QED
  BY <1>7

\* A phase that chooses hosts is over.
LEMMA SelectionChanges ==
    ASSUME IInv, NEW r \in Requests, Selection(r), phase[r] \in DOMAIN Prog(r), phase[r] > 0,
           Phase(r).do \in {"target", "resolve", "several", "other", "discover", "probe", "first"},
           phase'[r] = phase[r] + 1, daemon' = daemon,
           op'[r] = op[r], host'[r] = host[r], asked'[r] = asked[r], issued'[r] = issued[r],
           gate'[r] = gate[r],
           other'[r] = other[r] \/ issued[r] = {},
           (Phase(r).do = "resolve" \/ owner[r] \in Hosts) /\ host[r] \in Hosts =>
               owner'[r] \in Hosts,
           Phase(r).do = "resolve" => host[r] \in Hosts,
           owner'[r] = owner[r] \/ Phase(r).do \in {"target", "resolve", "probe", "first"},
           host[r] # NoHost /\ op[r].action # "emit" =>
               /\ owner'[r] \in {NoHost, host[r]}
               /\ \A i \in DOMAIN targets'[r] : targets'[r][i] = host[r],
           host[r] = NoHost =>
               /\ Phase(r).do = "target" => targets'[r] = HostList
               /\ Phase(r).do = "discover" =>
                     \A h \in Hosts : \E i \in DOMAIN targets'[r] : daemon[targets'[r][i]] = daemon[h]
    PROVE  Selection(r)'
<1>0. phase[r] \in Nat /\ op[r] \in AllOperations /\ Prog(r)' = Prog(r)
  BY DEF IInv, TypeOK, Course, Arrived, Prog
<1>1. DOMAIN Prog(r) = 1..Len(Prog(r)) /\ Len(Prog(r)) \in Nat
  BY <1>0, ProgramFacts DEF Prog
<1>2. \A k \in DOMAIN Prog(r) : /\ k < phase'[r] => k < phase[r] \/ k = phase[r]
                                /\ k < phase[r] => k < phase'[r]
  BY <1>0, <1>1
<1>3. Chosen(r)'
  <2>1. ASSUME NEW k \in DOMAIN Prog(r), k < phase'[r], Prog(r)[k].do = "resolve"
        PROVE  host[r] \in Hosts /\ owner'[r] \in Hosts
    <3>1. CASE k < phase[r]
      <4>1. host[r] \in Hosts /\ owner[r] \in Hosts
        BY <2>1, <3>1 DEF Selection, Chosen
      <4> QED
        BY <4>1
    <3>2. CASE k = phase[r]
      BY <2>1, <3>2 DEF Phase
    <3> QED
      BY <1>2, <2>1, <3>1, <3>2
  <2>2. ASSUME owner'[r] # NoHost
        PROVE  \E k \in DOMAIN Prog(r) :
                  k < phase'[r] /\ Prog(r)[k].do \in {"target", "resolve", "probe", "first"}
    <3>1. CASE owner'[r] = owner[r]
      BY <1>2, <2>2, <3>1 DEF Selection, Chosen
    <3>2. CASE Phase(r).do \in {"target", "resolve", "probe", "first"}
      <4>1. phase[r] < phase'[r]
        BY <1>0
      <4> QED
        BY <3>2, <4>1 DEF Phase
    <3> QED
      BY <3>1, <3>2
  <2> QED
    BY <1>0, <2>1, <2>2 DEF Chosen
<1>4. asked[r] = {}
  BY ChosenBefore DEF Selection
<1>5. AskedFor(r)'
  BY <1>4 DEF AskedFor
<1>6. SentToNamed(r)'
  BY <1>4 DEF Selection, SentToNamed
<1>7. Covered(r)'
  BY <1>0 DEF Covered, Phase
<1>8. AtQuestion(r)'
  BY DEF Selection, AtQuestion
<1> QED
  BY <1>3, <1>5, <1>6, <1>7, <1>8 DEF Selection

\* Deduplication keeps a host of every daemon that had one.
LEMMA DedupeCovers ==
    ASSUME NEW r \in Requests, targets[r] \in Seq(Hosts), NEW n \in DOMAIN targets[r]
    PROVE  \E i \in DOMAIN Dedupe(r) : daemon[Dedupe(r)[i]] = daemon[targets[r][n]]
<1> DEFINE keep == {i \in DOMAIN targets[r] : ~Repeats(r, i)}
<1>1. \A j \in DOMAIN targets[r] : j \in keep =>
          \E i \in DOMAIN Dedupe(r) : Dedupe(r)[i] = targets[r][j]
  <2> DEFINE seq == targets[r]
  <2>1. Dedupe(r) = MembersAt(seq, keep) /\ seq \in Seq(Hosts)
    BY DEF Dedupe
  <2> HIDE DEF keep, seq
  <2>2. \A j \in DOMAIN seq : j \in keep =>
            \E i \in DOMAIN MembersAt(seq, keep) : MembersAt(seq, keep)[i] = seq[j]
    BY <2>1, MembersAtFacts
  <2> QED
    BY <2>1, <2>2 DEF seq
<1>2. CASE ~Repeats(r, n)
  BY <1>1, <1>2
<1>3. CASE Repeats(r, n)
  <2> DEFINE same == {j \in 1..(n - 1) : GaveId(r, j) /\ daemon[targets[r][j]] = daemon[targets[r][n]]}
  <2>1. same # {} /\ same \subseteq Nat
    BY <1>3 DEF Repeats
  <2>2. PICK j \in same : \A k \in same : j <= k
    BY <2>1, LeastNat
  <2>3. n \in Nat /\ j \in DOMAIN targets[r] /\ j \in Nat
    BY <2>2
  <2>4. ~Repeats(r, j)
    <3> SUFFICES ASSUME Repeats(r, j) PROVE FALSE
      OBVIOUS
    <3>1. PICK k \in 1..(j - 1) : GaveId(r, k) /\ daemon[targets[r][k]] = daemon[targets[r][j]]
      BY DEF Repeats
    <3>2. k \in same /\ ~(j <= k)
      BY <2>2, <2>3, <3>1
    <3> QED
      BY <2>2, <3>2
  <2>5. PICK i \in DOMAIN Dedupe(r) : Dedupe(r)[i] = targets[r][j]
    BY <1>1, <2>3, <2>4
  <2> QED
    BY <2>2, <2>5
<1> QED
  BY <1>2, <1>3

\* The hosts are chosen by the first phases.
LEMMA TargetSelects ==
    ASSUME IInv, NEW r \in Requests, Selection(r), TargetHosts_(r)
    PROVE  Selection(r)'
<1>1. /\ phase[r] > 0 /\ phase[r] \in DOMAIN Prog(r) /\ Phase(r).do = "target" /\ phase[r] \in Nat
      /\ Prog(r) \in Seq(Known)
  <2>1. At(r, {"target"})
    BY DEF TargetHosts_
  <2>2. Facts(op[r])
    BY <2>1, AtFacts, OperationFacts
  <2> QED
    BY <2>1, <2>2, AtFacts DEF Facts, Prog
<1>2. issued[r] = {}
  BY <1>1, NothingSentAtQuestion DEF WorkPhases
<1>3. UNCHANGED <<daemon, request, confirmation, record>>
  BY DEF TargetHosts_
<1>4. CASE host[r] = UnknownHost
  <2>1. Answer(r, "error") /\ UNCHANGED course
    BY <1>4 DEF TargetHosts_
  <2>2. phase'[r] = phase[r]
    BY <2>1 DEF Answer
  <2> QED
    BY <1>3, <2>1, <2>2, SelectionRemains DEF request, course, confirmation, record
<1>5. CASE host[r] # UnknownHost
  <2>1. /\ Advance(r) /\ other' = other
        /\ targets' = [targets EXCEPT ![r] = IF host[r] = NoHost THEN HostList ELSE <<host[r]>>]
        /\ owner' = [owner EXCEPT ![r] = host[r]]
    BY <1>5 DEF TargetHosts_
  <2>2. /\ targets'[r] = IF host[r] = NoHost THEN HostList ELSE <<host[r]>>
        /\ owner'[r] = host[r] /\ phase'[r] = phase[r] + 1
    BY <2>1, AdvanceTypes DEF IInv, TypeOK
  <2>3. host[r] # NoHost => \A i \in DOMAIN targets'[r] : targets'[r][i] = host[r]
    BY <2>2
  <2> QED
    BY <1>1, <1>2, <1>3, <2>1, <2>2, <2>3, SelectionChanges
       DEF request, confirmation, record
<1> QED
  BY <1>4, <1>5

\* The same of the one host, where it is looked up.
LEMMA ResolveSelects ==
    ASSUME IInv, NEW r \in Requests, Selection(r), ResolveHost_(r)
    PROVE  Selection(r)'
<1>1. /\ phase[r] > 0 /\ phase[r] \in DOMAIN Prog(r) /\ Phase(r).do = "resolve"
      /\ UNCHANGED <<daemon, request, confirmation, record>>
  BY AtFacts DEF ResolveHost_
<1>2. CASE host[r] \notin Hosts
  <2>1. Answer(r, "error") /\ UNCHANGED course
    BY <1>2 DEF ResolveHost_
  <2>2. phase'[r] = phase[r]
    BY <2>1 DEF Answer
  <2> QED
    BY <1>1, <2>1, <2>2, SelectionRemains DEF request, course, confirmation, record
<1>3. CASE host[r] \in Hosts
  <2>1. /\ Advance(r) /\ other' = other /\ targets' = targets
        /\ owner' = [owner EXCEPT ![r] = host[r]]
    BY <1>3 DEF ResolveHost_
  <2>2. owner'[r] = host[r] /\ phase'[r] = phase[r] + 1
    BY <2>1, AdvanceTypes DEF IInv, TypeOK
  <2>3. host[r] # NoHost /\ op[r].action # "emit" =>
          \A i \in DOMAIN targets'[r] : targets'[r][i] = host[r]
    BY <2>1 DEF Selection, Chosen
  <2> QED
    BY <1>1, <1>3, <2>1, <2>2, <2>3, HostsAssumption, SelectionChanges
       DEF request, confirmation, record
<1> QED
  BY <1>2, <1>3

\* The second host, or the list.
LEMMA OthersSelect ==
    ASSUME IInv, NEW r \in Requests, Selection(r), ResolveOthers(r)
    PROVE  Selection(r)'
<1>1. /\ phase[r] > 0 /\ phase[r] \in DOMAIN Prog(r) /\ op[r] \in AllOperations
      /\ Phase(r).do \in {"other", "several"} /\ Prog(r) \in Seq(Known)
      /\ Phase(r).do = "several" => op[r].action = "emit"
      /\ UNCHANGED <<daemon, request, confirmation, record>>
  <2>1. At(r, {"other"}) \/ At(r, {"several"})
    BY DEF ResolveOthers
  <2>2. phase[r] > 0 /\ phase[r] \in DOMAIN Prog(r) /\ op[r] \in AllOperations
        /\ Phase(r).do \in {"other", "several"}
    BY <2>1, AtFacts
  <2>3. Facts(op[r])
    BY <2>2, OperationFacts
  <2> QED
    BY <2>2, <2>3 DEF ResolveOthers, Facts, Phase, Prog
<1>2. issued[r] = {}
  BY <1>1, NothingSentAtQuestion DEF WorkPhases
<1>3. CASE Answer(r, "error") /\ UNCHANGED course
  <2>1. phase'[r] = phase[r]
    BY <1>3 DEF Answer
  <2> QED
    BY <1>1, <1>3, <2>1, SelectionRemains DEF request, course, confirmation, record
<1>4. CASE ~(Answer(r, "error") /\ UNCHANGED course)
  <2>1. /\ Advance(r) /\ owner' = owner
        /\ Phase(r).do = "other" => targets' = targets
    BY <1>1, <1>4 DEF ResolveOthers, course, At
  <2>2. phase'[r] = phase[r] + 1
    BY <2>1, AdvanceTypes DEF IInv
  <2>3. host[r] # NoHost /\ op[r].action # "emit" =>
          /\ owner'[r] \in {NoHost, host[r]}
          /\ \A i \in DOMAIN targets'[r] : targets'[r][i] = host[r]
    BY <1>1, <2>1 DEF Selection, Chosen
  <2> QED
    BY <1>1, <1>2, <2>1, <2>2, <2>3, SelectionChanges DEF request, confirmation, record
<1> QED
  BY <1>3, <1>4

\* A phase that works on hosts is over.
LEMMA ConcludeSelects ==
    ASSUME IInv, NEW r \in Requests, Selection(r), Conclude(r)
    PROVE  Selection(r)'
<1>1. /\ phase[r] > 0 /\ phase[r] \in DOMAIN Prog(r) /\ op[r] \in AllOperations
      /\ Phase(r).do \in WorkPhases /\ targets[r] \in Seq(Hosts) /\ phase[r] \in Nat
      /\ DOMAIN Prog(r) = 1..Len(Prog(r)) /\ Len(Prog(r)) \in Nat
      /\ UNCHANGED <<daemon, request, confirmation, record>>
  BY AtFacts DEF Conclude, IInv, TypeOK
<1>2. CASE Answer(r, "error") /\ UNCHANGED course
  <2>1. phase'[r] = phase[r]
    BY <1>2 DEF Answer
  <2> QED
    BY <1>1, <1>2, <2>1, SelectionRemains DEF request, course, confirmation, record
<1>3. CASE ~(Answer(r, "error") /\ UNCHANGED course)
  <2> DEFINE w == CHOOSE h \in Winners(r) : TRUE
             d == Dedupe(r)
  <2>1. /\ Advance(r) /\ other' = other
        /\ Phase(r).do \in {"discover", "each"} \/ Winners(r) # {}
        /\ targets' = IF Phase(r).do = "discover" THEN [targets EXCEPT ![r] = d] ELSE targets
        /\ owner' = IF Phase(r).do \in {"probe", "first"} THEN [owner EXCEPT ![r] = w] ELSE owner
    BY <1>3 DEF Conclude
  <2>2. phase'[r] = phase[r] + 1
    BY <2>1, AdvanceTypes DEF IInv
  <2>3. ASSUME Phase(r).do \in {"probe", "first"}
        PROVE  w \in Hosts /\ \E i \in DOMAIN targets[r] : w = targets[r][i]
    <3>1. \A h \in Winners(r) : h \in Hosts /\ \E i \in DOMAIN targets[r] : h = targets[r][i]
      BY <1>1, <2>3 DEF Winners, Working
    <3>2. w \in Winners(r)
      BY <2>1, <2>3
    <3> QED
      BY <3>1, <3>2
  <2>4. \A i \in DOMAIN d : \E j \in DOMAIN targets[r] : d[i] = targets[r][j]
    <3> DEFINE seq == targets[r]
               keep == {i \in DOMAIN targets[r] : ~Repeats(r, i)}
    <3>1. d = MembersAt(seq, keep) /\ seq \in Seq(Hosts)
      BY <1>1 DEF Dedupe
    <3> HIDE DEF d, seq, keep
    <3>2. \A i \in DOMAIN MembersAt(seq, keep) :
              \E j \in DOMAIN seq : MembersAt(seq, keep)[i] = seq[j]
      BY <3>1, MembersAtFacts
    <3> QED
      BY <3>1, <3>2 DEF seq
  <2>5. \A n \in DOMAIN targets[r] : \E i \in DOMAIN d : daemon[d[i]] = daemon[targets[r][n]]
    BY <1>1, DedupeCovers
  <2> HIDE DEF w, d
  <2>6. /\ targets'[r] = IF Phase(r).do = "discover" THEN d ELSE targets[r]
        /\ owner'[r] = IF Phase(r).do \in {"probe", "first"} THEN w ELSE owner[r]
    BY <2>1 DEF IInv, TypeOK
  <2>7. CASE Phase(r).do \in {"discover", "probe", "first"}
    <3>1. host[r] # NoHost /\ op[r].action # "emit" =>
            /\ owner'[r] \in {NoHost, host[r]}
            /\ \A i \in DOMAIN targets'[r] : targets'[r][i] = host[r]
      BY <2>3, <2>4, <2>6 DEF Selection, Chosen
    <3>2. owner[r] \in Hosts => owner'[r] \in Hosts
      BY <2>3, <2>6
    <3>3. ASSUME host[r] = NoHost, Phase(r).do = "discover"
          PROVE  \A h \in Hosts : \E i \in DOMAIN targets'[r] : daemon[targets'[r][i]] = daemon[h]
      <4>1. phase[r] - 1 \in DOMAIN Prog(r) /\ Prog(r)[phase[r] - 1].do = "target"
        <5>1. Facts(op[r])
          BY <1>1, OperationFacts
        <5>2. phase[r] > 1 /\ Prog(r)[phase[r] - 1].do = "target"
          BY <1>1, <3>3, <5>1 DEF Facts, DiscoversTargets, Phase, Prog
        <5> QED
          BY <1>1, <5>2
      <4>2. targets[r] = HostList
        BY <3>3, <4>1 DEF Selection, Covered
      <4> QED
        BY <2>5, <2>6, <3>3, <4>2 DEF Hosts
    <3>4. Phase(r).do \notin {"target", "resolve"}
      BY <2>7
    <3>5. /\ Phase(r).do \in {"target", "resolve", "several", "other", "discover", "probe", "first"}
          /\ owner'[r] = owner[r] \/ Phase(r).do \in {"target", "resolve", "probe", "first"}
      BY <2>6, <2>7
    <3> QED
      BY <1>1, <2>1, <2>2, <3>1, <3>2, <3>3, <3>4, <3>5, SelectionChanges
         DEF request, confirmation, record
  <2>8. CASE Phase(r).do \notin {"discover", "probe", "first"}
    <3>1. Phase(r).do \notin {"target", "resolve", "confirm"}
      BY <1>1 DEF WorkPhases
    <3> QED
      BY <1>1, <2>1, <2>2, <2>6, <2>8, <3>1, SelectionPasses DEF request, confirmation, record
  <2> QED
    BY <2>7, <2>8
<1> QED
  BY <1>2, <1>3

\* The steps that choose no hosts.
LEMMA OtherStepsSelect ==
    ASSUME IInv, NEW r \in Requests, Selection(r),
           \/ Check(r) \/ Skip(r) \/ UserReplies(r) \/ Elicited(r) \/ ElicitTimeout(r)
           \/ Finish(r) \/ Deadline(r) \/ Abandon(r)
           \/ Straggle(r) \/ \E h \in Hosts : Read(r, h) \/ Reply(r, h)
    PROVE  Selection(r)'
<1>1. CASE Check(r) \/ Skip(r)
  <2>1. UNCHANGED <<daemon, request, course, confirmation, record>>
    BY <1>1 DEF Check, Skip
  <2>2. /\ phase[r] > 0 /\ phase[r] \in DOMAIN Prog(r) /\ Phase(r).do \notin {"target", "resolve", "confirm"}
        /\ Phase(r).do = "discover" => host[r] # NoHost
    <3>1. \/ At(r, {"require"}) \/ At(r, {"validate"}) \/ At(r, {"cached"})
          \/ At(r, {"discover", "probe"}) /\ host[r] # NoHost
      BY <1>1 DEF Check, Skip
    <3> QED
      BY <3>1, AtFacts
  <2>3. Advance(r) \/ phase' = phase
    BY <1>1 DEF Check, Skip, Answer
  <2>4. CASE Advance(r)
    <3>1. phase'[r] = phase[r] + 1
      BY <2>4, AdvanceTypes DEF IInv
    <3> QED
      BY <2>1, <2>2, <3>1, SelectionPasses DEF request, course, confirmation, record
  <2>5. CASE phase' = phase
    BY <2>1, <2>5, SelectionRemains DEF request, course, confirmation, record
  <2> QED
    BY <2>3, <2>4, <2>5
<1>2. CASE Finish(r) \/ Deadline(r) \/ Abandon(r)
  BY <1>2, SelectionRemains
     DEF Finish, Deadline, Abandon, Answer, request, course, confirmation, record
<1>3. CASE UserReplies(r)
  BY <1>3, SelectionRemains DEF UserReplies, request, course, record
<1>4. CASE Straggle(r) \/ \E h \in Hosts : Read(r, h) \/ Reply(r, h)
  <2>1. UNCHANGED <<daemon, request, phase, course, confirmation, issued>>
    BY <1>4 DEF Read, Reply, Straggle
  <2> QED
    BY <2>1, SelectionRemains DEF request, course, confirmation
<1>5. CASE Elicited(r) \/ ElicitTimeout(r)
  <2>1. /\ gate[r] = "asked" /\ Running(r)
        /\ UNCHANGED <<daemon, world, request, course, asked, user, record>>
        /\ Advance(r) \/ phase' = phase
    BY <1>5 DEF Elicited, ElicitTimeout, Answer
  <2>2. CASE phase' = phase
    <3>1. gate'[r] = "asked" => gate[r] = "asked"
      BY <2>1
    <3> QED
      BY <2>1, <2>2, <3>1, SelectionRemains DEF request, course, record
  <2>3. CASE Advance(r)
    <3>1. phase'[r] = phase[r] + 1 /\ phase'[r] # phase[r]
      BY <2>3, AdvanceTypes DEF IInv, TypeOK
    <3>2. phase[r] \in DOMAIN Prog(r) /\ Phase(r).do = "confirm"
      BY <2>1 DEF Selection, AtQuestion
    <3>3. gate'[r] = "granted"
      BY <1>5, <3>1 DEF Elicited, ElicitTimeout, Answer, IInv, TypeOK
    <3> QED
      BY <2>1, <3>1, <3>2, <3>3, SelectionPasses DEF Running, request, course, record
  <2> QED
    BY <2>1, <2>2, <2>3
<1> QED
  BY <1>1, <1>2, <1>3, <1>4, <1>5

\* At its arrival a request has no hosts.
LEMMA ArriveSelects ==
    ASSUME IInv, NEW r \in Requests, Selection(r), Arrive(r)
    PROVE  Selection(r)'
<1>1. /\ phase[r] = 0
      /\ Advance(r) \/ Answer(r, "forbidden")
      /\ UNCHANGED <<daemon, world, caller, course, confirmation, record>>
  BY DEF Arrive
<1>2. /\ targets[r] = <<>> /\ owner[r] = NoHost /\ asked[r] = {} /\ issued[r] = {} /\ gate[r] = "none"
  BY <1>1 DEF IInv, Course, Arrived
<1>3. phase'[r] \in {0, 1}
  BY <1>1, AdvanceTypes DEF IInv, Answer
<1>4. \A k \in DOMAIN Prog(r)' : ~(k < phase'[r]) /\ k # 0
  <2>1. Len(Prog(r)') \in Nat /\ DOMAIN Prog(r)' = 1..Len(Prog(r)')
    <3>1. TypeOK'
      BY ArriveKeeps
    <3>2. CASE op'[r] = NoOp
      <4>1. NoOp.prog = <<>>
        BY DEF NoOp, Op
      <4>2. Prog(r)' = <<>>
        BY <3>2, <4>1 DEF Prog
      <4> QED
        BY <4>2
    <3>3. CASE op'[r] \in AllOperations
      BY <3>3, ProgramFacts DEF Prog
    <3> QED
      BY <3>1, <3>2, <3>3 DEF TypeOK
  <2> QED
    BY <1>3, <2>1
<1>5. ~(phase'[r] - 1 \in DOMAIN Prog(r)')
  <2>1. \A k \in DOMAIN Prog(r)' : k - 1 # -1 /\ k # phase'[r] - 1
    BY <1>3, <1>4
  <2> QED
    BY <2>1
<1>6. Chosen(r)'
  <2>1. targets'[r] = <<>> /\ owner'[r] = NoHost
    BY <1>1, <1>2 DEF course
  <2>2. \A i \in DOMAIN targets'[r] : FALSE
    BY <2>1
  <2> QED
    BY <1>4, <2>1, <2>2 DEF Chosen
<1>7. AskedFor(r)' /\ SentToNamed(r)' /\ AtQuestion(r)'
  BY <1>1, <1>2 DEF AskedFor, SentToNamed, AtQuestion, confirmation, record
<1>8. Covered(r)'
  BY <1>5 DEF Covered
<1> QED
  BY <1>6, <1>7, <1>8 DEF Selection

\* A question names the hosts that are there to work on.
LEMMA QuestionSelects ==
    ASSUME IInv, NEW r \in Requests, Selection(r), RequireConfirmation(r)
    PROVE  Selection(r)'
<1>1. /\ phase[r] > 0 /\ phase[r] \in DOMAIN Prog(r) /\ Phase(r).do = "confirm" /\ phase[r] \in Nat
      /\ op[r] \in AllOperations /\ Len(Prog(r)) \in Nat /\ DOMAIN Prog(r) = 1..Len(Prog(r))
  BY AtFacts DEF RequireConfirmation
<1>2. issued[r] = {}
  <2>1. Facts(op[r])
    BY <1>1, OperationFacts
  <2> QED
    BY <1>1, <2>1, NothingSentAtQuestion DEF WorkPhases, Facts, Prog
<1>3. /\ UNCHANGED <<daemon, world, request, course, user, record>>
      /\ asked' = [asked EXCEPT ![r] = IF Phase(r).named THEN Named(r) ELSE {}]
      /\ \/ gate' = [gate EXCEPT ![r] = "granted"] /\ Advance(r)
         \/ phase' = phase
  BY DEF RequireConfirmation, Answer
<1>4. /\ asked'[r] = IF Phase(r).named THEN Named(r) ELSE {}
      /\ Prog(r)' = Prog(r) /\ Named(r)' = Named(r)
      /\ \/ gate'[r] = "granted" /\ phase'[r] = phase[r] + 1
         \/ phase'[r] = phase[r]
  BY <1>3, AdvanceTypes DEF IInv, TypeOK, request, course, Prog, Named
<1>5. \A k \in DOMAIN Prog(r) : /\ k < phase'[r] => k < phase[r] \/ k = phase[r]
                                /\ k < phase[r] => k < phase'[r]
  BY <1>1, <1>4
<1>6. phase[r] <= phase'[r]
  BY <1>1, <1>4
<1>7. Chosen(r)'
  <2>1. op'[r] = op[r] /\ host' = host /\ owner' = owner /\ targets' = targets
    BY <1>3 DEF request, course
  <2>2. \A k \in DOMAIN Prog(r) : k < phase'[r] /\ Prog(r)[k].do = "resolve" => k < phase[r]
    BY <1>1, <1>5 DEF Phase
  <2> QED
    BY <1>4, <1>5, <2>1, <2>2 DEF Selection, Chosen
<1>8. AskedFor(r)'
  <2>1. asked'[r] # {} => Phase(r).named
    BY <1>4
  <2> QED
    BY <1>1, <1>4, <1>6, <2>1 DEF AskedFor, Phase
<1>9. SentToNamed(r)'
  BY <1>2, <1>3 DEF SentToNamed, record
<1>10. Covered(r)'
  <2>1. CASE phase'[r] = phase[r]
    BY <1>3, <1>4, <2>1 DEF Selection, Covered, request, course
  <2>2. CASE phase'[r] = phase[r] + 1
    <3>1. phase'[r] - 1 = phase[r]
      BY <1>1, <2>2
    <3> QED
      BY <1>1, <1>4, <3>1 DEF Covered, Phase
  <2> QED
    BY <1>4, <2>1, <2>2
<1>11. AtQuestion(r)'
  BY <1>1, <1>4 DEF AtQuestion, Phase
<1> QED
  BY <1>7, <1>8, <1>9, <1>10, <1>11 DEF Selection

\* A host that works is one that was chosen and asked for.
LEMMA WorkingFacts ==
    ASSUME IInv, NEW r \in Requests, Selection(r), NEW h \in Hosts, At(r, WorkPhases), h \in Working(r)
    PROVE  /\ asked[r] # {} => h \in asked[r]
           /\ host[r] # NoHost /\ op[r].action # "emit" => h \in {host[r], other[r]}
<1>1. /\ phase[r] > 0 /\ phase[r] \in DOMAIN Prog(r) /\ Phase(r).do \in WorkPhases /\ phase[r] \in Nat
      /\ op[r] \in AllOperations /\ Len(Prog(r)) \in Nat /\ DOMAIN Prog(r) = 1..Len(Prog(r))
  BY AtFacts
<1>2. /\ Phase(r).do \in {"discover", "each", "probe", "first"} =>
            \E i \in DOMAIN targets[r] : h = targets[r][i]
      /\ Phase(r).do = "oneOther" => h = other[r]
      /\ Phase(r).do \in {"one", "cached"} => h = owner[r]
      /\ Phase(r).do \in {"discover", "each", "probe", "first", "oneOther", "one", "cached"}
  BY <1>1 DEF Working, WorkPhases
<1>3. h # NoHost
  BY HostsAssumption
<1>4. ASSUME host[r] # NoHost, op[r].action # "emit" PROVE h \in {host[r], other[r]}
  BY <1>2, <1>3, <1>4 DEF Selection, Chosen
<1>5. ASSUME asked[r] # {} PROVE h \in asked[r]
  <2>1. PICK k \in DOMAIN Prog(r) : k <= phase[r] /\ Prog(r)[k].do = "confirm" /\ Prog(r)[k].named
    BY <1>5 DEF Selection, AskedFor
  <2>2. k < phase[r]
    <3>1. k # phase[r]
      BY <1>1, <2>1 DEF Phase, WorkPhases
    <3> QED
      BY <1>1, <2>1, <3>1
  <2>3. ActsOnNamed(Prog(r))
    <3>1. Facts(op[r])
      BY <1>1, OperationFacts
    <3> QED
      BY <3>1 DEF Facts, Prog
  <2>4. \/ Phase(r).do = "one"
        \/ Phase(r).do = "oneOther" /\ \E j \in 1..(k - 1) : Prog(r)[j].do = "resolve"
        \/ /\ Phase(r).do = "each"
           /\ \A j \in 1..(k - 1) : Prog(r)[j].do \in {"require", "validate", "several"}
    <3>1. Phase(r).do # "validate"
      BY <1>1 DEF WorkPhases
    <3> QED
      BY <1>1, <2>1, <2>2, <2>3, <3>1 DEF ActsOnNamed, Phase
  <2>5. asked[r] = Named(r)
    BY <1>5 DEF Selection, AskedFor
  <2>6. CASE Phase(r).do = "one"
    BY <1>2, <1>3, <2>5, <2>6 DEF Named
  <2>7. CASE Phase(r).do = "oneOther" /\ \E j \in 1..(k - 1) : Prog(r)[j].do = "resolve"
    <3>1. PICK j \in 1..(k - 1) : Prog(r)[j].do = "resolve"
      BY <2>7
    <3>2. j \in DOMAIN Prog(r) /\ j < phase[r]
      BY <1>1, <2>1, <2>2, <3>1
    <3>3. owner[r] \in Hosts
      BY <3>1, <3>2 DEF Selection, Chosen
    <3>4. owner[r] # NoHost
      BY <3>3, HostsAssumption
    <3> QED
      BY <1>2, <1>3, <2>5, <2>7, <3>4 DEF Named
  <2>8. CASE /\ Phase(r).do = "each"
             /\ \A j \in 1..(k - 1) : Prog(r)[j].do \in {"require", "validate", "several"}
    <3>1. ASSUME owner[r] # NoHost PROVE FALSE
      <4>1. PICK j \in DOMAIN Prog(r) :
              j < phase[r] /\ Prog(r)[j].do \in {"target", "resolve", "probe", "first"}
        BY <3>1 DEF Selection, Chosen
      <4>2. CASE j < k
        <5>1. j \in 1..(k - 1)
          BY <1>1, <2>1, <4>2
        <5> QED
          BY <2>8, <4>1, <5>1
      <4>3. CASE j = k
        BY <2>1, <4>1, <4>3
      <4>4. CASE k < j
        BY <2>1, <2>3, <4>1, <4>4 DEF ActsOnNamed
      <4> QED
        BY <1>1, <2>1, <4>2, <4>3, <4>4
    <3> QED
      BY <1>2, <2>5, <2>8, <3>1 DEF Named
  <2> QED
    BY <2>4, <2>6, <2>7, <2>8
<1> QED
  BY <1>4, <1>5

\* Changes are sent to such hosts.
LEMMA SendSelects ==
    ASSUME IInv, NEW r \in Requests, Selection(r), NEW h \in Hosts, Send(r, h)
    PROVE  Selection(r)'
<1> DEFINE c == <<h, Current(r, h).call>>
<1>1. /\ At(r, WorkPhases) /\ h \in Working(r)
      /\ issued' = [issued EXCEPT ![r] = @ \cup {c}]
      /\ UNCHANGED <<daemon, world, request, phase, course, confirmation, done, blurred, stale, answer>>
  BY DEF Send, Turn
<1>2. c[1] = h
  OBVIOUS
<1> HIDE DEF c
<1>3. issued'[r] = issued[r] \cup {c}
  BY <1>1 DEF IInv, TypeOK
<1>4. SentToNamed(r)'
  <2>1. /\ asked[r] # {} => h \in asked[r]
        /\ host[r] # NoHost /\ op[r].action # "emit" => h \in {host[r], other[r]}
    BY <1>1, WorkingFacts
  <2> QED
    BY <1>1, <1>2, <1>3, <2>1 DEF Selection, SentToNamed, request, course, confirmation
<1>5. Chosen(r)' /\ AskedFor(r)' /\ Covered(r)' /\ AtQuestion(r)'
  <2>1. op' = op /\ host' = host /\ phase' = phase /\ targets' = targets /\ owner' = owner
        /\ other' = other /\ asked' = asked /\ gate' = gate /\ daemon' = daemon
    BY <1>1 DEF request, course, confirmation
  <2>2. Chosen(r)'
    BY <2>1 DEF Selection, Chosen, Prog
  <2>3. AskedFor(r)'
    BY <2>1 DEF Selection, AskedFor, Prog, Named
  <2>4. Covered(r)'
    BY <2>1 DEF Selection, Covered, Prog
  <2>5. AtQuestion(r)'
    BY <2>1 DEF Selection, AtQuestion, Prog, Phase
  <2> QED
    BY <2>2, <2>3, <2>4, <2>5
<1> QED
  BY <1>4, <1>5 DEF Selection

SelectionInv == \A r \in Requests : Selection(r)

\* The hosts at the start.
LEMMA SelectionInit == Init => SelectionInv
<1> SUFFICES ASSUME Init, NEW r \in Requests PROVE Selection(r)
  BY DEF SelectionInv
<1>1. DOMAIN Prog(r) = {} /\ DOMAIN targets[r] = {}
  <2>1. op[r] = NoOp /\ NoOp.prog = <<>> /\ targets[r] = <<>>
    BY DEF Init, NoOp, Op
  <2>2. DOMAIN <<>> = {}
    OBVIOUS
  <2> QED
    BY <2>1, <2>2 DEF Prog
<1>2. Chosen(r)
  BY <1>1 DEF Init, Chosen
<1>3. AskedFor(r) /\ SentToNamed(r) /\ Covered(r) /\ AtQuestion(r)
  BY <1>1 DEF Init, AskedFor, SentToNamed, Covered, AtQuestion
<1> QED
  BY <1>2, <1>3 DEF Selection

\* And after every step.
LEMMA SelectionNext == IInv /\ SelectionInv /\ [Next]_vars => SelectionInv'
<1> SUFFICES ASSUME IInv, [Next]_vars, NEW r \in Requests, Selection(r) PROVE Selection(r)'
  BY DEF SelectionInv
<1>1. CASE Same(r)
  BY <1>1, OneMovesOn, SameSelection
<1>2. CASE Arrive(r) \/ RequireConfirmation(r)
  BY <1>2, ArriveSelects, QuestionSelects
<1>3. CASE TargetHosts_(r) \/ ResolveHost_(r) \/ ResolveOthers(r)
  BY <1>3, TargetSelects, ResolveSelects, OthersSelect
<1>4. CASE Conclude(r)
  BY <1>4, ConcludeSelects
<1>5. CASE \E h \in Hosts : Send(r, h)
  BY <1>5, SendSelects
<1>6. CASE \/ Check(r) \/ Skip(r) \/ UserReplies(r) \/ Elicited(r) \/ ElicitTimeout(r)
           \/ Finish(r) \/ Deadline(r) \/ Abandon(r)
           \/ Straggle(r) \/ \E h \in Hosts : Read(r, h) \/ Reply(r, h)
  BY <1>6, OtherStepsSelect
<1> QED
  BY <1>1, <1>2, <1>3, <1>4, <1>5, <1>6, OneMovesOn DEF Moves

\* A change reaches only the hosts that the request, and the question if it named
\* any, named: once a question has named hosts no phase chooses others, and the
\* host a request names is the only one it chooses.
THEOREM NamedHostsOnly == Spec => []OnlyNamedHosts
<1>1. SelectionInv => OnlyNamedHosts
  BY DEF SelectionInv, Selection, SentToNamed, OnlyNamedHosts
<1> QED
  BY <1>1, InitInv, NextInv, SelectionInit, SelectionNext, PTL DEF Spec

\* After the discovery of the daemons every daemon is still asked: the host that
\* gave an id first is never left out, nor is one that gave none.
THEOREM DaemonsAreCovered == Spec => []EveryDaemonAsked
<1>1. IInv /\ SelectionInv => EveryDaemonAsked
  <2> SUFFICES ASSUME IInv, NEW r \in Requests, Selection(r), At(r, {"each"}), phase[r] > 1,
                      Prog(r)[phase[r] - 1].do = "discover", NEW h \in Hosts, host[r] = NoHost
               PROVE  \E i \in DOMAIN targets[r] : daemon[targets[r][i]] = daemon[h]
    BY DEF SelectionInv, EveryDaemonAsked
  <2>1. phase[r] \in DOMAIN Prog(r) /\ DOMAIN Prog(r) = 1..Len(Prog(r)) /\ Len(Prog(r)) \in Nat
    BY AtFacts
  <2>2. phase[r] - 1 \in DOMAIN Prog(r)
    BY <2>1
  <2> QED
    BY <2>2 DEF Selection, Covered
<1> QED
  BY <1>1, InitInv, NextInv, SelectionInit, SelectionNext, PTL DEF Spec

-----------------------------------------------------------------------------
(* What the changes have done, host by host *)

\* The changes that took effect, and those that still may.
Touched(r) == done[r] \cup late[r]

\* A host that removed the container, or may have, is past the step that did.
Removed(r) ==
    \A h \in Hosts :
        /\ <<h, "remove">> \in Touched(r) /\ phase[r] = Len(Prog(r)) /\ lane[r][h].st \in {"idle", "sent"}
        => \E j \in DOMAIN Phase(r).body :
              Phase(r).body[j].call = "remove" /\ j <= lane[r][h].at

\* In the last phase of an operation on one container: a change is sent to the one
\* host, or to one before which all have failed.
InTurn(r) ==
    op[r].action = "container" /\ phase[r] = Len(Prog(r)) =>
        \A c \in issued[r] :
            /\ Phase(r).do = "one" => c[1] = owner[r]
            /\ Phase(r).do = "first" =>
                  \E i \in DOMAIN targets[r] :
                      /\ targets[r][i] = c[1]
                      /\ \A k \in 1..(i - 1) : lane[r][targets[r][k]].st = "err"

\* And a host that failed with a change done or in doubt is blurred.
Blurs(r) ==
    op[r].action = "container" /\ phase[r] = Len(Prog(r)) =>
        \A c \in Touched(r) : lane[r][c[1]].st = "err" => c[1] \in blurred[r]

\* OneHostUnlessBlurred, of one request.
OneHost(r) ==
    \A c1, c2 \in Touched(r) :
        op[r].action = "container" /\ c1[1] # c2[1] => {c1[1], c2[1]} \cap blurred[r] # {}

Effects(r) == Removed(r) /\ InTurn(r) /\ Blurs(r) /\ OneHost(r)

\* Where nothing happens to a request, its effects are as they were.
LEMMA SameEffects ==
    ASSUME NEW q \in Requests, Same(q)
    PROVE  Effects(q) => Effects(q)'
<1>0. Touched(q)' = Touched(q)
  BY DEF Same, Touched
<1>1. Removed(q) => Removed(q)'
  BY <1>0 DEF Same, Removed, Prog, Phase
<1>2. InTurn(q) => InTurn(q)'
  BY DEF Same, InTurn, Prog, Phase
<1>3. Blurs(q) => Blurs(q)'
  BY <1>0 DEF Same, Blurs, Prog
<1>4. OneHost(q) => OneHost(q)'
  BY <1>0 DEF Same, OneHost
<1> QED
  BY <1>1, <1>2, <1>3, <1>4 DEF Effects

\* So they are while it waits, and with the answer.
LEMMA EffectsRemain ==
    ASSUME NEW r \in Requests, Effects(r), phase'[r] = phase[r], lane'[r] = lane[r],
           op'[r] = op[r], targets'[r] = targets[r], owner'[r] = owner[r],
           issued'[r] = issued[r], Touched(r)' = Touched(r), blurred'[r] = blurred[r]
    PROVE  Effects(r)'
<1>1. Removed(r)'
  BY DEF Effects, Removed, Prog, Phase
<1>2. InTurn(r)'
  BY DEF Effects, InTurn, Prog, Phase
<1>3. Blurs(r)'
  BY DEF Effects, Blurs, Prog
<1>4. OneHost(r)'
  BY DEF Effects, OneHost
<1> QED
  BY <1>1, <1>2, <1>3, <1>4 DEF Effects

\* Before its last phase a request has no effects.
LEMMA EffectsPass ==
    ASSUME IInv, NEW r \in Requests, Effects(r), phase'[r] = phase[r] + 1, op'[r] = op[r],
           issued'[r] = issued[r], Touched(r)' = Touched(r), blurred'[r] = blurred[r]
    PROVE  Effects(r)'
<1>1. Prog(r)' = Prog(r) /\ phase[r] \in Nat
  BY DEF Prog, IInv, TypeOK
<1>2. Touched(r) \subseteq issued[r]
  BY DEF IInv, Course, SentLast, Touched
<1>3. CASE issued[r] = {}
  BY <1>2, <1>3 DEF Effects, Removed, InTurn, Blurs, OneHost
<1>4. CASE issued[r] # {}
  <2>1. Len(Prog(r)) <= phase[r] /\ op[r] \in AllOperations
    <3>1. Len(Prog(r)) <= phase[r] /\ phase[r] > 0
      BY <1>4 DEF IInv, Course, SentLast, Arrived
    <3> QED
      BY <3>1 DEF IInv, Course, Arrived
  <2>2. Len(Prog(r)) \in Nat
    BY <2>1, ProgramFacts DEF Prog
  <2>3. phase'[r] # Len(Prog(r))
    BY <1>1, <2>1, <2>2
  <2> QED
    BY <1>1, <2>3 DEF Effects, Removed, InTurn, Blurs, OneHost
<1> QED
  BY <1>3, <1>4

\* Where a request is that has a change under way, or sends one.
LEMMA LastPhase ==
    ASSUME IInv, NEW r \in Requests, phase[r] > 0, phase[r] \in DOMAIN Prog(r),
           Changing(Phase(r))
    PROVE  /\ phase[r] = Len(Prog(r))
           /\ op[r].action = "container" => Phase(r).do \in {"first", "one"}
<1>1. op[r] \in AllOperations
  BY DEF IInv, Course, Arrived
<1>2. Facts(op[r])
  BY <1>1, OperationFacts
<1> QED
  BY <1>2 DEF Facts, ChangesLast, Phase, Prog

\* The same of a host whose change is under way.
LEMMA SentWhere ==
    ASSUME IInv, NEW r \in Requests, NEW h \in Hosts, lane[r][h].st = "sent"
    PROVE  /\ phase[r] = Len(Prog(r)) /\ phase[r] \in DOMAIN Prog(r) /\ phase[r] > 0
           /\ Phase(r).do \in WorkPhases /\ lane[r][h].at \in DOMAIN Phase(r).body
           /\ op[r].action = "container" => Phase(r).do \in {"first", "one"}
           /\ <<h, Current(r, h).call>> \in issued[r]
<1>1. /\ phase[r] \in DOMAIN Prog(r) /\ Phase(r).do \in WorkPhases
      /\ lane[r][h].at \in DOMAIN Phase(r).body /\ Current(r, h).writes
      /\ <<h, Current(r, h).call>> \in issued[r]
  BY DEF IInv, Course, InStep
<1>2. phase[r] > 0
  BY <1>1 DEF IInv, TypeOK, Course, Arrived
<1>3. Changing(Phase(r))
  BY <1>1 DEF Changing, Current
<1> QED
  BY <1>1, <1>2, <1>3, LastPhase

\* Who else was sent a change has failed.
LEMMA OneSent ==
    ASSUME IInv, NEW r \in Requests, InTurn(r), op[r].action = "container",
           NEW h \in Hosts, lane[r][h].st = "sent", NEW c \in issued[r], c[1] # h
    PROVE  c[1] \in Hosts /\ lane[r][c[1]].st = "err"
<1> DEFINE d == <<h, Current(r, h).call>>
<1>1. d \in issued[r] /\ d[1] = h
  BY SentWhere
<1> HIDE DEF d
<1>2. phase[r] = Len(Prog(r)) /\ Phase(r).do \in {"first", "one"}
  BY SentWhere
<1>3. c[1] \in Hosts
  BY DEF IInv, TypeOK, Changes
<1>4. Phase(r).do = "first"
  BY <1>1, <1>2 DEF InTurn
<1>5. PICK i \in DOMAIN targets[r] :
        targets[r][i] = h /\ \A k \in 1..(i - 1) : lane[r][targets[r][k]].st = "err"
  BY <1>1, <1>2, <1>4 DEF InTurn
<1>6. PICK j \in DOMAIN targets[r] :
        targets[r][j] = c[1] /\ \A k \in 1..(j - 1) : lane[r][targets[r][k]].st = "err"
  BY <1>2, <1>4 DEF InTurn
<1>7. DOMAIN targets[r] \subseteq Nat \ {0}
  BY DEF IInv, TypeOK
<1>8. CASE i <= j
  <2>1. i \in 1..(j - 1)
    BY <1>5, <1>6, <1>7, <1>8
  <2> QED
    BY <1>5, <1>6, <2>1
<1>9. CASE j < i
  <2>1. j \in 1..(i - 1)
    BY <1>7, <1>9
  <2> QED
    BY <1>3, <1>5, <1>6, <2>1
<1> QED
  BY <1>7, <1>8, <1>9

\* Also counting those under way, the changes are of one host, or blurred.
LEMMA OneWithSent ==
    ASSUME IInv, NEW r \in Requests, Effects(r), op[r].action = "container",
           NEW x \in Touched(r) \cup UnderWay(r, Hosts),
           NEW y \in Touched(r) \cup UnderWay(r, Hosts), x[1] # y[1]
    PROVE  {x[1], y[1]} \cap blurred[r] # {}
<1>1. ASSUME NEW c \in UnderWay(r, Hosts)
      PROVE  c \in issued[r] /\ c[1] \in Hosts /\ lane[r][c[1]].st = "sent"
  <2>1. PICK h \in Hosts : lane[r][h].st = "sent" /\ c = <<h, Current(r, h).call>>
    BY DEF UnderWay
  <2> QED
    BY <2>1, SentWhere
<1>2. Touched(r) \subseteq issued[r]
  BY DEF IInv, Course, SentLast, Touched
<1>3. ASSUME NEW c \in UnderWay(r, Hosts), NEW z \in Touched(r) \cup UnderWay(r, Hosts), z[1] # c[1]
      PROVE  z[1] \in blurred[r]
  <2>1. c[1] \in Hosts /\ lane[r][c[1]].st = "sent" /\ z \in issued[r]
    BY <1>1, <1>2
  <2>2. lane[r][z[1]].st = "err"
    BY <1>3, <2>1, OneSent DEF Effects
  <2>3. z \in Touched(r)
    <3>1. z \notin UnderWay(r, Hosts)
      BY <1>1, <2>2
    <3> QED
      BY <3>1
  <2>4. phase[r] = Len(Prog(r))
    BY <2>1, SentWhere
  <2> QED
    BY <2>2, <2>3, <2>4 DEF Effects, Blurs
<1>4. CASE x \in UnderWay(r, Hosts) \/ y \in UnderWay(r, Hosts)
  <2> HIDE DEF UnderWay
  <2> QED
    BY <1>3, <1>4
<1>5. CASE x \in Touched(r) /\ y \in Touched(r)
  BY <1>5 DEF Effects, OneHost
<1> QED
  BY <1>4, <1>5

\* A change is sent.
LEMMA SendEffects ==
    ASSUME IInv, NEW r \in Requests, Effects(r), NEW h \in Hosts, Send(r, h)
    PROVE  Effects(r)'
<1> DEFINE c == <<h, Current(r, h).call>>
<1>1. /\ Turn(r, h, "idle") /\ Current(r, h).writes
      /\ lane' = [lane EXCEPT ![r][h].st = "sent"]
      /\ issued' = [issued EXCEPT ![r] = @ \cup {c}] /\ c[1] = h
      /\ UNCHANGED <<daemon, world, request, phase, course, confirmation, done, blurred, stale, answer>>
  BY DEF Send
<1> HIDE DEF c
<1>2. /\ At(r, WorkPhases) /\ lane[r][h].st = "idle" /\ h \in Working(r)
      /\ phase[r] > 0 /\ phase[r] \in DOMAIN Prog(r) /\ Phase(r).do \in WorkPhases
      /\ answer[r] = "none"
  BY <1>1, AtFacts DEF Turn
<1>3. Changing(Phase(r))
  BY <1>1, <1>2, TurnFacts DEF Changing, Current
<1>4. /\ phase[r] = Len(Prog(r))
      /\ op[r].action = "container" => Phase(r).do \in {"first", "one"}
  BY <1>2, <1>3, LastPhase
<1>5. /\ issued'[r] = issued[r] \cup {c}
      /\ \A g \in Hosts : g # h => lane'[r][g] = lane[r][g]
      /\ lane'[r][h].at = lane[r][h].at /\ lane'[r][h].st = "sent"
  <2>1. lane \in [Requests -> [Hosts -> Lanes]] /\ lane[r][h] \in Lanes
    BY DEF IInv, TypeOK
  <2> QED
    BY <1>1, <2>1 DEF IInv, TypeOK, Lanes
<1>6. op' = op /\ phase' = phase /\ owner' = owner /\ targets' = targets /\ Prog(r)' = Prog(r)
      /\ Phase(r)' = Phase(r) /\ Touched(r)' = Touched(r) /\ blurred' = blurred
  BY <1>1 DEF world, request, course, Prog, Phase, Touched
<1>7. \A i \in DOMAIN targets[r] : targets[r][i] \in Hosts /\ i \in Nat \ {0}
  BY DEF IInv, TypeOK
<1>8. Removed(r)'
  <2> SUFFICES ASSUME NEW g \in Hosts, <<g, "remove">> \in Touched(r), lane'[r][g].st \in {"idle", "sent"}
               PROVE  \E j \in DOMAIN Phase(r).body :
                          Phase(r).body[j].call = "remove" /\ j <= lane'[r][g].at
    BY <1>6 DEF Removed
  <2>1. lane[r][g].st \in {"idle", "sent"} /\ lane'[r][g].at = lane[r][g].at
    BY <1>2, <1>5
  <2> QED
    BY <1>4, <2>1 DEF Effects, Removed
<1>9. InTurn(r)'
  <2> SUFFICES ASSUME op[r].action = "container", NEW x \in issued'[r]
               PROVE  /\ Phase(r).do = "one" => x[1] = owner[r]
                      /\ Phase(r).do = "first" =>
                            \E i \in DOMAIN targets[r] :
                                /\ targets[r][i] = x[1]
                                /\ \A k \in 1..(i - 1) : lane'[r][targets[r][k]].st = "err"
    BY <1>6 DEF InTurn
  <2>1. CASE Phase(r).do = "one"
    <3>1. Working(r) = {owner[r]}
      BY <2>1 DEF Working
    <3>2. \A y \in issued[r] : y[1] = owner[r]
      BY <1>4, <2>1 DEF Effects, InTurn
    <3> QED
      BY <1>1, <1>2, <1>5, <2>1, <3>1, <3>2
  <2>2. CASE Phase(r).do = "first"
    <3>1. \E i \in DOMAIN targets[r] :
            targets[r][i] = x[1] /\ \A k \in 1..(i - 1) : lane[r][targets[r][k]].st = "err"
      <4>1. CASE x = c
        <5>1. Working(r) = {targets[r][i] : i \in {j \in DOMAIN targets[r] :
                              \A k \in 1..(j - 1) : lane[r][targets[r][k]].st = "err"}}
          BY <2>2 DEF Working
        <5> QED
          BY <1>1, <1>2, <4>1, <5>1
      <4>2. CASE x \in issued[r]
        BY <1>4, <2>2, <4>2 DEF Effects, InTurn
      <4> QED
        BY <1>5, <4>1, <4>2
    <3>2. PICK i \in DOMAIN targets[r] :
            targets[r][i] = x[1] /\ \A k \in 1..(i - 1) : lane[r][targets[r][k]].st = "err"
      BY <3>1
    <3>3. \A k \in 1..(i - 1) : lane'[r][targets[r][k]] = lane[r][targets[r][k]]
      <4> SUFFICES ASSUME NEW k \in 1..(i - 1) PROVE lane'[r][targets[r][k]] = lane[r][targets[r][k]]
        OBVIOUS
      <4>1. k \in DOMAIN targets[r]
        BY DEF IInv, TypeOK
      <4>2. targets[r][k] \in Hosts /\ targets[r][k] # h
        BY <1>2, <1>7, <3>2, <4>1
      <4> QED
        BY <1>5, <4>2
    <3> QED
      BY <2>2, <3>2, <3>3
  <2> QED
    BY <1>4, <2>1, <2>2
<1>10. Blurs(r)'
  <2> SUFFICES ASSUME op[r].action = "container", NEW x \in Touched(r), lane'[r][x[1]].st = "err"
               PROVE  x[1] \in blurred[r]
    BY <1>6 DEF Blurs
  <2>1. x[1] \in Hosts
    BY DEF IInv, TypeOK, Changes, Touched
  <2>2. lane[r][x[1]].st = "err"
    BY <1>5, <2>1
  <2> QED
    BY <1>2, <1>4, <2>2 DEF Effects, Blurs
<1>11. OneHost(r)'
  BY <1>6 DEF Effects, OneHost
<1> QED
  BY <1>8, <1>9, <1>10, <1>11 DEF Effects

\* A host makes a step: what it has done and where it is.
LEMMA HostEffects ==
    ASSUME IInv, NEW r \in Requests, Effects(r), NEW h \in Hosts,
           lane[r][h].st \in {"idle", "sent"}, phase[r] \in DOMAIN Prog(r), phase[r] > 0,
           UNCHANGED <<request, phase, course, issued>>,
           \A g \in Hosts : g # h => lane'[r][g] = lane[r][g],
           lane'[r][h].st \in {"ok", "idle", "err"},
           lane'[r][h].st = "idle" => lane'[r][h].at > lane[r][h].at,
           lane'[r][h].at \in Nat, lane[r][h].at \in Nat,
           Touched(r)' \subseteq issued[r], blurred[r] \subseteq blurred'[r],
           \/ Touched(r)' = Touched(r)
           \/ lane[r][h].st = "sent" /\ Touched(r)' = Touched(r) \cup {<<h, Current(r, h).call>>},
           lane'[r][h].st = "err" => ((\E c \in Touched(r)' : c[1] = h) => h \in blurred'[r])
    PROVE  Effects(r)'
<1> DEFINE c == <<h, Current(r, h).call>>
<1>1. /\ op' = op /\ phase' = phase /\ owner' = owner /\ targets' = targets /\ Prog(r)' = Prog(r)
      /\ Phase(r)' = Phase(r) /\ issued' = issued
  BY DEF request, course, Prog, Phase
<1>2. /\ c[1] = h /\ \A x \in Touched(r)' : x \in Touched(r) \/ (x = c /\ lane[r][h].st = "sent")
      /\ Touched(r) \subseteq Touched(r)' /\ Touched(r) \subseteq issued[r]
  BY DEF IInv, Course, SentLast, Touched
<1>3. \A x \in Touched(r)' : x[1] \in Hosts
  BY DEF IInv, TypeOK, Changes
<1>4. Removed(r)'
  <2> SUFFICES ASSUME NEW g \in Hosts, <<g, "remove">> \in Touched(r)', phase[r] = Len(Prog(r)),
                      lane'[r][g].st \in {"idle", "sent"}
               PROVE  \E j \in DOMAIN Phase(r).body :
                          Phase(r).body[j].call = "remove" /\ j <= lane'[r][g].at
    BY <1>1 DEF Removed
  <2>1. CASE g # h
    BY <1>2, <2>1 DEF Effects, Removed
  <2>2. CASE g = h
    <3>1. lane'[r][h].at > lane[r][h].at /\ lane[r][h].at \in Nat /\ lane'[r][h].at \in Nat
      BY <2>2
    <3>2. CASE <<h, "remove">> \in Touched(r)
      <4>1. PICK j \in DOMAIN Phase(r).body :
              Phase(r).body[j].call = "remove" /\ j <= lane[r][h].at
        BY <3>2 DEF Effects, Removed
      <4>2. j \in Nat
        <5>1. op[r] \in AllOperations
          BY DEF IInv, Course, Arrived
        <5>2. Changing(Phase(r))
          BY <1>2, <3>2 DEF IInv, Course, SentLast, Phase
        <5> QED
          BY <5>1, <5>2, AtWork DEF Changing
      <4> QED
        BY <2>2, <3>1, <4>1, <4>2
    <3>3. CASE <<h, "remove">> = c /\ lane[r][h].st = "sent"
      <4>1. Current(r, h).call = "remove" /\ lane[r][h].at \in DOMAIN Phase(r).body
        BY <3>3, SentWhere DEF c
      <4> QED
        BY <2>2, <3>1, <4>1 DEF Current
    <3> QED
      BY <1>2, <2>2, <3>2, <3>3
  <2> QED
    BY <2>1, <2>2
<1>5. InTurn(r)'
  <2> SUFFICES ASSUME op[r].action = "container", phase[r] = Len(Prog(r)), NEW x \in issued[r],
                      Phase(r).do = "first"
               PROVE  \E i \in DOMAIN targets[r] :
                          /\ targets[r][i] = x[1]
                          /\ \A k \in 1..(i - 1) : lane'[r][targets[r][k]].st = "err"
    BY <1>1 DEF Effects, InTurn
  <2>1. PICK i \in DOMAIN targets[r] :
          targets[r][i] = x[1] /\ \A k \in 1..(i - 1) : lane[r][targets[r][k]].st = "err"
    BY DEF Effects, InTurn
  <2>2. \A k \in 1..(i - 1) : lane'[r][targets[r][k]].st = "err"
    <3> SUFFICES ASSUME NEW k \in 1..(i - 1) PROVE lane'[r][targets[r][k]].st = "err"
      OBVIOUS
    <3>1. targets[r][k] \in Hosts
      BY DEF IInv, TypeOK
    <3>2. targets[r][k] # h
      BY <2>1
    <3> QED
      BY <2>1, <3>1, <3>2
  <2> QED
    BY <2>1, <2>2
<1>6. lane[r][h].st = "sent" => c \in UnderWay(r, Hosts)
  BY DEF UnderWay
<1> HIDE DEF c
<1>7. Blurs(r)'
  <2> SUFFICES ASSUME op[r].action = "container", phase[r] = Len(Prog(r)),
                      NEW x \in Touched(r)', lane'[r][x[1]].st = "err"
               PROVE  x[1] \in blurred'[r]
    BY <1>1 DEF Blurs
  <2>1. CASE x[1] = h
    BY <2>1
  <2>2. CASE x[1] # h
    <3>1. x \in Touched(r) /\ lane[r][x[1]].st = "err"
      BY <1>2, <1>3, <2>2
    <3>2. x[1] \in blurred[r]
      BY <3>1 DEF Effects, Blurs
    <3> QED
      BY <3>2
  <2> QED
    BY <2>1, <2>2
<1>8. OneHost(r)'
  <2> SUFFICES ASSUME op[r].action = "container", NEW x \in Touched(r)', NEW y \in Touched(r)',
                      x[1] # y[1]
               PROVE  {x[1], y[1]} \cap blurred'[r] # {}
    BY <1>1 DEF OneHost
  <2>1. x \in Touched(r) \cup UnderWay(r, Hosts) /\ y \in Touched(r) \cup UnderWay(r, Hosts)
    BY <1>2, <1>6
  <2>2. {x[1], y[1]} \cap blurred[r] # {}
    BY <2>1, OneWithSent
  <2> QED
    BY <2>2
<1> QED
  BY <1>4, <1>5, <1>7, <1>8 DEF Effects

\* A host reads, or replies to a change.
LEMMA StepEffects ==
    ASSUME IInv, NEW r \in Requests, Effects(r), NEW h \in Hosts, Read(r, h) \/ Reply(r, h)
    PROVE  Effects(r)'
<1>1. /\ At(r, WorkPhases) /\ (Lands(r, h) \/ Breaks(r, h))
      /\ UNCHANGED <<daemon, request, phase, course, confirmation, issued, answer>>
      /\ blurred[r] \subseteq blurred'[r]
      /\ ~Lands(r, h) => ((\E c \in Touched(r)' : c[1] = h) => h \in blurred'[r])
  BY StepFacts DEF Touched
<1>2. lane[r][h].st \in {"idle", "sent"}
  BY DEF Read, Reply, Turn
<1>3. phase[r] > 0 /\ phase[r] \in DOMAIN Prog(r)
  BY <1>1, AtFacts
<1>4. /\ lane' \in [Requests -> [Hosts -> Lanes]]
      /\ \A g \in Hosts : g # h => lane'[r][g] = lane[r][g]
      /\ \/ Lands(r, h) /\ lane'[r][h].st = "ok"
         \/ Lands(r, h) /\ lane'[r][h].st = "idle" /\ lane[r][h].at < lane'[r][h].at
         \/ Breaks(r, h) /\ lane'[r][h].st = "err"
  BY <1>1, LaneTypes DEF IInv
<1>5. lane[r][h] \in Lanes /\ lane'[r][h] \in Lanes
  BY <1>4 DEF IInv, TypeOK
<1>6. lane'[r][h].at \in Nat /\ lane[r][h].at \in Nat
  BY <1>5 DEF Lanes
<1>7. lane'[r][h].st = "err" => ~Lands(r, h)
  <2>1. ASSUME NEW x \in Lanes, lane' = [lane EXCEPT ![r] = [lane[r] EXCEPT ![h] = x]]
        PROVE  lane'[r][h] = x
    BY <2>1 DEF IInv, TypeOK
  <2> QED
    BY <2>1 DEF Lands
<1>8. /\ lane'[r][h].st \in {"ok", "idle", "err"}
      /\ lane'[r][h].st = "idle" => lane'[r][h].at > lane[r][h].at
  BY <1>4, <1>6
<1>9. lane'[r][h].st = "err" => ((\E c \in Touched(r)' : c[1] = h) => h \in blurred'[r])
  BY <1>1, <1>7
<1>10. /\ Touched(r)' \subseteq issued[r]
       /\ \/ Touched(r)' = Touched(r)
          \/ lane[r][h].st = "sent" /\ Touched(r)' = Touched(r) \cup {<<h, Current(r, h).call>>}
  <2> DEFINE c == <<h, Current(r, h).call>>
  <2>1. /\ done'[r] \subseteq issued[r] /\ late'[r] \subseteq issued[r]
        /\ \/ done'[r] = done[r] /\ late'[r] = late[r]
           \/ lane[r][h].st = "sent" /\ late'[r] = late[r] /\ done'[r] = done[r] \cup {c}
           \/ lane[r][h].st = "sent" /\ done'[r] = done[r] /\ late'[r] = late[r] \cup {c}
    BY ChangeFacts DEF Keeps, Takes, Loses
  <2> HIDE DEF c
  <2>2. /\ Touched(r)' \subseteq issued[r]
        /\ \/ Touched(r)' = Touched(r)
           \/ lane[r][h].st = "sent" /\ Touched(r)' = Touched(r) \cup {c}
    BY <2>1 DEF Touched
  <2> QED
    BY <2>2 DEF c
<1> QED
  BY <1>1, <1>2, <1>3, <1>4, <1>6, <1>8, <1>9, <1>10, HostEffects

\* A change takes effect that nobody waits for: it was in doubt already.
LEMMA StraggleEffects ==
    ASSUME IInv, NEW r \in Requests, Effects(r), Straggle(r)
    PROVE  Effects(r)'
<1>1. Touched(r)' = Touched(r)
  BY StraggleFacts DEF Touched
<1>2. UNCHANGED <<request, phase, course, lane, issued, blurred>>
  BY DEF Straggle
<1> QED
  BY <1>1, <1>2, EffectsRemain DEF request, course

\* The changes under way are given up.
LEMMA LoseEffects ==
    ASSUME IInv, NEW r \in Requests, Effects(r), Deadline(r) \/ Abandon(r)
    PROVE  Effects(r)'
<1>1. /\ UNCHANGED <<request, phase, course, lane, record>> /\ Lose(r, Hosts)
  BY DEF Deadline, Abandon, Answer
<1>2. /\ op' = op /\ phase' = phase /\ owner' = owner /\ targets' = targets /\ lane' = lane
      /\ issued' = issued /\ done' = done /\ blurred' = blurred
      /\ Prog(r)' = Prog(r) /\ Phase(r)' = Phase(r)
  BY <1>1 DEF request, course, record, Prog, Phase
<1>3. \A x \in Touched(r)' : x \in Touched(r) \/ x \in UnderWay(r, Hosts)
  <2>1. late'[r] = late[r] \cup UnderWay(r, Hosts)
    BY <1>1, LoseTypes
  <2> QED
    BY <1>2, <2>1 DEF Touched
<1>4. ASSUME NEW g \in Hosts, NEW x \in UnderWay(r, Hosts), x[1] = g
      PROVE  /\ lane[r][g].st = "sent" /\ x = <<g, Current(r, g).call>>
             /\ lane[r][g].at \in DOMAIN Phase(r).body
  <2>1. PICK h \in Hosts : lane[r][h].st = "sent" /\ x = <<h, Current(r, h).call>>
    BY DEF UnderWay
  <2> QED
    BY <1>4, <2>1, SentWhere
<1>5. Removed(r)'
  <2> SUFFICES ASSUME NEW g \in Hosts, <<g, "remove">> \in Touched(r)', phase[r] = Len(Prog(r)),
                      lane[r][g].st \in {"idle", "sent"}
               PROVE  \E j \in DOMAIN Phase(r).body :
                          Phase(r).body[j].call = "remove" /\ j <= lane[r][g].at
    BY <1>2 DEF Removed
  <2>1. CASE <<g, "remove">> \in Touched(r)
    BY <2>1 DEF Effects, Removed
  <2>2. CASE <<g, "remove">> \in UnderWay(r, Hosts)
    <3>1. /\ Current(r, g).call = "remove" /\ lane[r][g].at \in DOMAIN Phase(r).body
          /\ lane[r][g].st = "sent"
      BY <1>4, <2>2
    <3>2. lane[r][g].at \in Nat
      <4>1. lane[r][g] \in Lanes
        BY DEF IInv, TypeOK
      <4> QED
        BY <4>1 DEF Lanes
    <3> QED
      BY <3>1, <3>2 DEF Current
  <2> QED
    BY <1>3, <2>1, <2>2
<1>6. InTurn(r)'
  BY <1>2 DEF Effects, InTurn
<1>7. Blurs(r)'
  <2> SUFFICES ASSUME op[r].action = "container", phase[r] = Len(Prog(r)),
                      NEW x \in Touched(r)', lane[r][x[1]].st = "err"
               PROVE  x[1] \in blurred[r]
    BY <1>2 DEF Blurs
  <2>1. CASE x \in Touched(r)
    BY <2>1 DEF Effects, Blurs
  <2>2. CASE x \in UnderWay(r, Hosts)
    <3>1. x[1] \in Hosts
      BY <2>2 DEF UnderWay
    <3> QED
      BY <1>4, <2>2, <3>1
  <2> QED
    BY <1>3, <2>1, <2>2
<1>8. OneHost(r)'
  <2> SUFFICES ASSUME op[r].action = "container", NEW x \in Touched(r)', NEW y \in Touched(r)',
                      x[1] # y[1]
               PROVE  {x[1], y[1]} \cap blurred[r] # {}
    BY <1>2 DEF OneHost
  <2>1. x \in Touched(r) \cup UnderWay(r, Hosts) /\ y \in Touched(r) \cup UnderWay(r, Hosts)
    BY <1>3
  <2> QED
    BY <2>1, OneWithSent
<1> QED
  BY <1>5, <1>6, <1>7, <1>8 DEF Effects

\* The steps that touch no host.
LEMMA OtherStepsEffects ==
    ASSUME IInv, NEW r \in Requests, Effects(r),
           \/ Arrive(r) \/ Check(r) \/ TargetHosts_(r) \/ ResolveHost_(r) \/ ResolveOthers(r)
           \/ Skip(r) \/ RequireConfirmation(r) \/ UserReplies(r) \/ Elicited(r)
           \/ ElicitTimeout(r) \/ Conclude(r) \/ Finish(r)
    PROVE  Effects(r)'
<1>1. UNCHANGED <<world, record>>
  BY DEF Arrive, Check, TargetHosts_, ResolveHost_, ResolveOthers, Skip, RequireConfirmation,
         UserReplies, Elicited, ElicitTimeout, Conclude, Finish
<1>2. issued'[r] = issued[r] /\ Touched(r)' = Touched(r) /\ blurred'[r] = blurred[r]
  BY <1>1 DEF world, record, Touched
<1>3. CASE Arrive(r)
  <2>1. issued[r] = {} /\ Touched(r) = {}
    BY <1>3 DEF Arrive, IInv, Course, Arrived, SentLast, Touched
  <2> QED
    BY <1>2, <2>1 DEF Effects, Removed, InTurn, Blurs, OneHost
<1>4. CASE ~Arrive(r)
  <2>1. op' = op
    BY <1>4 DEF Check, TargetHosts_, ResolveHost_, ResolveOthers, Skip, RequireConfirmation,
         UserReplies, Elicited, ElicitTimeout, Conclude, Finish, request
  <2>2. \/ Advance(r)
        \/ UNCHANGED <<phase, lane, course>>
    <3>1. CASE Check(r) \/ Skip(r) \/ Finish(r)
      BY <3>1 DEF Check, Skip, Finish, Answer
    <3>2. CASE TargetHosts_(r) \/ ResolveHost_(r)
      BY <3>2 DEF TargetHosts_, ResolveHost_, Answer
    <3>3. CASE ResolveOthers(r)
      BY <3>3 DEF ResolveOthers, Answer, course
    <3>4. CASE RequireConfirmation(r) \/ UserReplies(r)
      BY <3>4 DEF RequireConfirmation, UserReplies, Answer
    <3>5. CASE Elicited(r) \/ ElicitTimeout(r)
      BY <3>5 DEF Elicited, ElicitTimeout, Answer
    <3>6. CASE Conclude(r)
      BY <3>6 DEF Conclude, Answer
    <3> QED
      BY <1>4, <3>1, <3>2, <3>3, <3>4, <3>5, <3>6
  <2>3. CASE Advance(r)
    <3>1. phase'[r] = phase[r] + 1
      BY <2>3, AdvanceTypes DEF IInv
    <3> QED
      BY <1>2, <2>1, <3>1, EffectsPass
  <2>4. CASE UNCHANGED <<phase, lane, course>>
    BY <1>2, <2>1, <2>4, EffectsRemain DEF course
  <2> QED
    BY <2>2, <2>3, <2>4
<1> QED
  BY <1>3, <1>4

EffectsInv == \A r \in Requests : Effects(r)

\* At the start nothing has been done.
LEMMA EffectsInit == Init => EffectsInv
<1> SUFFICES ASSUME Init, NEW r \in Requests PROVE Effects(r)
  BY DEF EffectsInv
<1>1. issued[r] = {} /\ Touched(r) = {}
  BY DEF Init, Touched
<1> QED
  BY <1>1 DEF Effects, Removed, InTurn, Blurs, OneHost

\* And what is done stays in turn.
LEMMA EffectsNext == IInv /\ EffectsInv /\ [Next]_vars => EffectsInv'
<1> SUFFICES ASSUME IInv, [Next]_vars, NEW r \in Requests, Effects(r) PROVE Effects(r)'
  BY DEF EffectsInv
<1>1. CASE Same(r)
  BY <1>1, SameEffects
<1>2. CASE \/ Arrive(r) \/ Check(r) \/ TargetHosts_(r) \/ ResolveHost_(r) \/ ResolveOthers(r)
           \/ Skip(r) \/ RequireConfirmation(r) \/ UserReplies(r) \/ Elicited(r)
           \/ ElicitTimeout(r) \/ Conclude(r) \/ Finish(r)
  BY <1>2, OtherStepsEffects
<1>3. CASE \E h \in Hosts : Send(r, h)
  BY <1>3, SendEffects
<1>4. CASE \E h \in Hosts : Read(r, h) \/ Reply(r, h)
  BY <1>4, StepEffects
<1>5. CASE Straggle(r)
  BY <1>5, StraggleEffects
<1>6. CASE Deadline(r) \/ Abandon(r)
  BY <1>6, LoseEffects
<1> QED
  BY <1>1, <1>2, <1>3, <1>4, <1>5, <1>6, OneMovesOn DEF Moves

\* The operations on one container go from host to host only after a failure: a
\* second host is changed only where the first failed with a change done or in
\* doubt, for whoever was sent a change before has failed, and failed so.  When the
\* change takes effect, at once, later or never, makes no difference.
THEOREM OneHostIsChanged == Spec => []OneHostUnlessBlurred
<1>1. EffectsInv => OneHostUnlessBlurred
  BY DEF EffectsInv, Effects, OneHost, OneHostUnlessBlurred, Touched
<1> QED
  BY <1>1, InitInv, NextInv, EffectsInit, EffectsNext, PTL DEF Spec

\* Once a recreate has removed the container all that is left to do on the host is
\* to put its successor in place: what may fail before, the inspection and the
\* pull, is over.
THEOREM RecreateFailsBeforeRemoval == Spec => []RecreateFailsEarly
<1>1. IInv /\ EffectsInv => RecreateFailsEarly
  <2> SUFFICES ASSUME IInv, NEW r \in Requests, Effects(r), NEW h \in Hosts,
                      <<h, "remove">> \in done[r],
                      NEW st \in {"idle", "sent"}, Turn(r, h, st)
               PROVE  Current(r, h).call \in {"remove", "create_container", "start"}
    BY DEF EffectsInv, RecreateFailsEarly
  <2>1. /\ At(r, WorkPhases) /\ lane[r][h].st \in {"idle", "sent"}
    BY DEF Turn
  <2>2. /\ phase[r] \in Nat /\ phase[r] > 0 /\ phase[r] \in DOMAIN Prog(r)
        /\ Phase(r).do \in WorkPhases /\ op[r] \in AllOperations
        /\ DOMAIN Prog(r) = 1..Len(Prog(r)) /\ Len(Prog(r)) \in Nat
    BY <2>1, AtFacts
  <2>3. Len(Prog(r)) <= phase[r]
    BY DEF IInv, Course, SentLast
  <2>4. phase[r] = Len(Prog(r))
    BY <2>2, <2>3
  <2>5. PICK j \in DOMAIN Phase(r).body :
          Phase(r).body[j].call = "remove" /\ j <= lane[r][h].at
    BY <2>1, <2>4 DEF Effects, Removed, Touched
  <2>6. lane[r][h].at \in DOMAIN Phase(r).body
    BY TurnFacts
  <2>7. ReplacesRemoved(Prog(r))
    <3>1. Facts(op[r])
      BY <2>2, OperationFacts
    <3> QED
      BY <3>1 DEF Facts, Prog
  <2> DEFINE at == lane[r][h].at
             b == Phase(r).body
  <2>8. Replaces(Phase(r))
    BY <2>2, <2>7 DEF ReplacesRemoved, Phase
  <2>9. /\ b[j].call = "remove" /\ b[j + 1].call = "create_container" /\ b[j + 2].call = "start"
        /\ at \in 1..(j + 2) /\ j \in 1..(j + 2) /\ j <= at
    BY <2>5, <2>6, <2>8 DEF Replaces
  <2>10. at = j \/ at = j + 1 \/ at = j + 2
    <3> HIDE DEF at
    <3> QED
      BY <2>9
  <2> QED
    BY <2>9, <2>10 DEF Current
<1> QED
  BY <1>1, InitInv, NextInv, EffectsInit, EffectsNext, PTL DEF Spec

-----------------------------------------------------------------------------
(* What becomes of a container that was removed *)

\* The host removed the container, and its successor is not in place.
Gone(r, h) == <<h, "remove">> \in done[r] /\ <<h, "create_container">> \notin done[r]

\* The same, or it still may: the removal is in doubt.
Lacks(r, h) == <<h, "remove">> \in Touched(r) /\ <<h, "create_container">> \notin done[r]

\* In the last phase such a host has failed, or is about to put it in place, or the
\* request was answered before that.
Lacking(r) ==
    phase[r] = Len(Prog(r)) => \A h \in Hosts : Lacks(r, h) =>
        /\ Phase(r).do = "one"
        /\ \/ lane[r][h].st = "err"
           \/ lane[r][h].st \in {"idle", "sent"} /\ Current(r, h).call = "create_container"
           \/ answer[r] # "none"

\* Who sent the successor is waiting for it, or has at most one step to do.
Placed(r) ==
    phase[r] = Len(Prog(r)) => \A h \in Hosts :
        <<h, "create_container">> \in issued[r] /\ lane[r][h].st \in {"idle", "sent"} =>
            \/ lane[r][h].at = Len(Phase(r).body)
            \/ lane[r][h].st = "sent" /\ Current(r, h).call = "create_container"

\* Where the removal is in doubt no successor was or will be sent.
Doubted(r) ==
    \A h \in Hosts : <<h, "remove">> \in late[r] =>
        /\ <<h, "create_container">> \notin issued[r]
        /\ lane[r][h].st = "err" \/ answer[r] # "none"

\* A phase that works on the one host changes no other.
Alone(r) ==
    phase[r] = Len(Prog(r)) /\ Phase(r).do = "one" => \A c \in issued[r] : c[1] = owner[r]

\* After the last phase nothing is lacking, and only then the answer is "ok".
Through(r) ==
    /\ phase[r] > Len(Prog(r)) => \A h \in Hosts : ~Lacks(r, h)
    /\ answer[r] = "ok" => phase[r] > Len(Prog(r))

Succession(r) == Lacking(r) /\ Placed(r) /\ Doubted(r) /\ Alone(r) /\ Through(r)

\* Where nothing happens to a request, so it stays.
LEMMA SameSuccession ==
    ASSUME NEW q \in Requests, Same(q)
    PROVE  Succession(q) => Succession(q)'
<1>1. \A h \in Hosts : Lacks(q, h)' = Lacks(q, h)
  BY DEF Same, Lacks, Touched
<1>2. Lacking(q) => Lacking(q)'
  BY <1>1 DEF Same, Lacking, Prog, Phase, Current
<1>3. Placed(q) => Placed(q)'
  BY DEF Same, Placed, Prog, Phase, Current
<1>4. Doubted(q) => Doubted(q)'
  BY DEF Same, Doubted
<1>5. Alone(q) => Alone(q)'
  BY DEF Same, Alone, Prog, Phase
<1>6. Through(q) => Through(q)'
  BY <1>1 DEF Same, Through, Prog
<1> QED
  BY <1>2, <1>3, <1>4, <1>5, <1>6 DEF Succession

\* So it does while the request waits, and with the answer, and when a change in
\* doubt takes effect.
LEMMA SuccessionRemains ==
    ASSUME NEW r \in Requests, Succession(r), phase'[r] = phase[r], lane'[r] = lane[r],
           op'[r] = op[r], owner'[r] = owner[r], issued'[r] = issued[r],
           Touched(r)' = Touched(r), done[r] \subseteq done'[r], late'[r] \subseteq late[r],
           answer[r] # "none" => answer'[r] # "none",
           answer'[r] = "ok" => answer[r] = "ok" \/ phase[r] > Len(Prog(r))
    PROVE  Succession(r)'
<1>1. /\ \A h \in Hosts : Lacks(r, h)' => Lacks(r, h)
      /\ Prog(r)' = Prog(r) /\ Phase(r)' = Phase(r)
  BY DEF Lacks, Prog, Phase
<1>2. Lacking(r)'
  BY <1>1 DEF Succession, Lacking, Current
<1>3. Placed(r)' /\ Alone(r)'
  BY <1>1 DEF Succession, Placed, Alone, Current
<1>4. Doubted(r)'
  BY DEF Succession, Doubted
<1>5. Through(r)'
  BY <1>1 DEF Succession, Through
<1> QED
  BY <1>2, <1>3, <1>4, <1>5 DEF Succession

\* A phase is left with nothing lacking.
LEMMA SuccessionPasses ==
    ASSUME IInv, NEW r \in Requests, Succession(r), phase'[r] = phase[r] + 1, op'[r] = op[r],
           issued'[r] = issued[r], done'[r] = done[r], late'[r] = late[r], answer'[r] # "ok",
           phase[r] = Len(Prog(r)) => \A h \in Hosts : ~Lacks(r, h)
    PROVE  Succession(r)'
<1>1. /\ Prog(r)' = Prog(r) /\ phase[r] \in Nat
      /\ \A h \in Hosts : Lacks(r, h)' = Lacks(r, h)
  BY DEF Prog, Lacks, Touched, IInv, TypeOK
<1>2. done[r] \subseteq issued[r] /\ late[r] \subseteq issued[r]
  BY DEF IInv, Course, SentLast
<1>3. CASE issued[r] = {}
  BY <1>2, <1>3 DEF Succession, Lacking, Placed, Doubted, Alone, Through, Lacks, Touched
<1>4. CASE issued[r] # {}
  <2>1. Len(Prog(r)) <= phase[r] /\ op[r] \in AllOperations
    <3>1. Len(Prog(r)) <= phase[r] /\ phase[r] > 0
      BY <1>4 DEF IInv, Course, SentLast, Arrived
    <3> QED
      BY <3>1 DEF IInv, Course, Arrived
  <2>2. Len(Prog(r)) \in Nat
    BY <2>1, ProgramFacts DEF Prog
  <2>3. phase'[r] # Len(Prog(r))
    BY <1>1, <2>1, <2>2
  <2>4. \A h \in Hosts : ~Lacks(r, h)
    <3>1. phase[r] = Len(Prog(r)) \/ phase[r] > Len(Prog(r))
      BY <1>1, <2>1, <2>2
    <3> QED
      BY <3>1 DEF Succession, Through
  <2>5. \A h \in Hosts : <<h, "remove">> \notin late[r]
    BY <1>2, <2>4 DEF Succession, Doubted, Lacks, Touched
  <2>6. Doubted(r)'
    BY <2>5 DEF Doubted
  <2> QED
    BY <1>1, <2>3, <2>4, <2>6 DEF Succession, Lacking, Placed, Alone, Through
<1> QED
  BY <1>3, <1>4

\* The steps of a body that replace a container change the host.
LEMMA ReplacingWrites ==
    ASSUME IInv, NEW r \in Requests, phase[r] > 0, phase[r] \in DOMAIN Prog(r),
           Phase(r).do \in WorkPhases, NEW j \in DOMAIN Phase(r).body,
           Phase(r).body[j].call \in {"remove", "create_container"}
    PROVE  Phase(r).body[j].writes
<1> DEFINE b == Phase(r).body
<1>1. b \in Seq(StepsThat(Mild \cup Destructive))
  BY AtWork DEF BodiesThat
<1>2. b[j] \in StepsThat(Mild \cup Destructive)
  <2> HIDE DEF b
  <2> QED
    BY <1>1 DEF b
<1>3. \A s \in StepsThat(Mild \cup Destructive) : s.writes \/ s.call \in Reads
  BY DEF StepsThat
<1>4. b[j].writes \/ b[j].call \in Reads
  BY <1>2, <1>3
<1>5. "remove" \notin Reads /\ "create_container" \notin Reads
  BY DEF Reads
<1> QED
  BY <1>4, <1>5

\* Where a host is that removes a container or puts its successor in place.
LEMMA ReplacingSent ==
    ASSUME IInv, NEW r \in Requests, NEW h \in Hosts, lane[r][h].st = "sent"
    PROVE  /\ Len(Phase(r).body) \in Nat /\ DOMAIN Phase(r).body = 1..Len(Phase(r).body)
           /\ lane[r][h].at \in Nat \ {0}
           /\ Current(r, h).call = "remove" =>
                /\ lane[r][h].at + 1 < Len(Phase(r).body)
                /\ Phase(r).body[lane[r][h].at + 1].call = "create_container"
           /\ Current(r, h).call = "create_container" =>
                Current(r, h).via = "docker" /\ lane[r][h].at + 1 = Len(Phase(r).body)
           /\ Current(r, h).call \in {"remove", "create_container"} =>
                Phase(r).do = "one" /\ Current(r, h).ok = 0 /\ Current(r, h).err = {Fail}
<1> DEFINE b == Phase(r).body
           n == lane[r][h].at
<1>1. /\ phase[r] \in DOMAIN Prog(r) /\ phase[r] > 0 /\ Phase(r).do \in WorkPhases /\ n \in DOMAIN b
  BY SentWhere
<1>2. Len(b) \in Nat /\ DOMAIN b = 1..Len(b) /\ op[r] \in AllOperations
  BY <1>1, AtWork
<1>3. Replaces(Phase(r))
  <2>1. Facts(op[r])
    BY <1>2, OperationFacts
  <2> QED
    BY <1>1, <2>1 DEF Facts, Prog, ReplacesRemoved, Phase
<1>4. n \in Nat \ {0}
  BY <1>1, <1>2
<1>5. ASSUME NEW m \in Nat, DOMAIN b = 1..m PROVE Len(b) = m
  <2>1. Len(b) \in 1..m /\ m \in 1..m
    <3>1. Len(b) > 0 /\ m > 0
      BY <1>1, <1>2, <1>5
    <3> QED
      BY <1>2, <1>5, <3>1
  <2> QED
    BY <1>2, <1>5, <2>1
<1>6. CASE b[n].call = "remove"
  <2>1. /\ Phase(r).do = "one" /\ DOMAIN b = 1..(n + 2) /\ b[n + 1].call = "create_container"
        /\ b[n].ok = 0 /\ b[n].err = {Fail}
    BY <1>1, <1>3, <1>6 DEF Replaces
  <2>2. Len(b) = n + 2
    BY <1>4, <1>5, <2>1
  <2> QED
    BY <1>2, <1>4, <1>6, <2>1, <2>2 DEF Current
<1>7. CASE b[n].call = "create_container"
  <2>1. b[n].via = "docker" /\ n > 1 /\ b[n - 1].call = "remove"
    BY <1>1, <1>3, <1>7 DEF Replaces
  <2>2. n - 1 \in DOMAIN b
    BY <1>1, <1>2, <2>1
  <2>3. /\ Phase(r).do = "one" /\ DOMAIN b = 1..((n - 1) + 2)
        /\ \A k \in {n - 1, (n - 1) + 1} : b[k].ok = 0 /\ b[k].err = {Fail}
    BY <1>3, <2>1, <2>2 DEF Replaces
  <2>4. (n - 1) + 2 = n + 1 /\ (n - 1) + 1 = n
    BY <1>4
  <2>5. Len(b) = n + 1
    BY <1>4, <1>5, <2>3, <2>4
  <2> QED
    BY <1>2, <1>4, <1>7, <2>1, <2>3, <2>4, <2>5 DEF Current
<1>8. CASE b[n].call \notin {"remove", "create_container"}
  BY <1>2, <1>4, <1>8 DEF Current
<1> QED
  BY <1>6, <1>7, <1>8

\* A step that must not fail is followed by the next one, after it took effect.
LEMMA NoWayAround ==
    ASSUME IInv, NEW r \in Requests, NEW h \in Hosts, Reply(r, h),
           Current(r, h).ok = 0, Current(r, h).err = {Fail}
    PROVE  \/ lane'[r][h].st = "err"
           \/ /\ <<h, Current(r, h).call>> \in done'[r] /\ late' = late
              /\ lane'[r][h] = IF lane[r][h].at + 1 > Len(Phase(r).body)
                               THEN [at |-> 1, st |-> "ok"]
                               ELSE [at |-> lane[r][h].at + 1, st |-> "idle"]
<1>1. lane \in [Requests -> [Hosts -> Lanes]] /\ lane[r][h] \in Lanes /\ lane[r][h].st = "sent"
  BY DEF IInv, TypeOK, Reply, Turn
<1>2. lane[r][h].at \in Nat
  BY <1>1 DEF Lanes
<1>3. ~Pass(r, h)
  BY DEF Pass
<1>4. CASE EndBody(r, h)
  <2>1. lane' = [lane EXCEPT ![r][h] = [at |-> 1, st |-> "err"]]
    BY <1>4 DEF EndBody
  <2> QED
    BY <1>1, <2>1
<1>5. CASE Apply(r, h) /\ Succeed(r, h) /\ late' = late
  <2> DEFINE x == IF lane[r][h].at + 1 > Len(Phase(r).body)
                  THEN [at |-> 1, st |-> "ok"] ELSE [at |-> lane[r][h].at + 1, st |-> "idle"]
  <2>1. (lane[r][h].at + 1) + Current(r, h).ok = lane[r][h].at + 1
    BY <1>2
  <2>2. lane' = [lane EXCEPT ![r][h] = x]
    BY <1>5, <2>1 DEF Succeed, To
  <2> HIDE DEF x
  <2>3. lane'[r][h] = x
    BY <1>1, <2>2
  <2>4. <<h, Current(r, h).call>> \in done'[r]
    BY <1>1, <1>5, ApplyTypes
  <2> QED
    BY <1>5, <2>3, <2>4 DEF x
<1> QED
  BY <1>3, <1>4, <1>5 DEF Reply, TransportError

\* A host reads, or replies to a change.
LEMMA StepSucceeds ==
    ASSUME IInv, NEW r \in Requests, Succession(r), NEW h \in Hosts, Read(r, h) \/ Reply(r, h)
    PROVE  Succession(r)'
<1> DEFINE n == lane[r][h].at
           call == Current(r, h).call
<1>1. /\ At(r, WorkPhases) /\ (Lands(r, h) \/ Breaks(r, h))
      /\ UNCHANGED <<daemon, request, phase, course, confirmation, issued, answer>>
  BY StepFacts
<1>2. /\ phase[r] \in Nat /\ phase[r] > 0 /\ phase[r] \in DOMAIN Prog(r) /\ Phase(r).do \in WorkPhases
      /\ Len(Prog(r)) \in Nat /\ DOMAIN Prog(r) = 1..Len(Prog(r)) /\ answer[r] = "none"
  BY <1>1, AtFacts
<1>3. /\ op' = op /\ phase' = phase /\ owner' = owner /\ Prog(r)' = Prog(r) /\ Phase(r)' = Phase(r)
      /\ issued' = issued /\ answer' = answer
  BY <1>1 DEF request, course, Prog, Phase
<1>4. /\ lane' \in [Requests -> [Hosts -> Lanes]] /\ lane[r][h] \in Lanes
      /\ \A g \in Hosts : g # h => lane'[r][g] = lane[r][g]
      /\ \/ lane'[r][h].st = "ok"
         \/ /\ lane'[r][h].st = "idle" /\ lane'[r][h].at \in DOMAIN Phase(r).body
            /\ n < lane'[r][h].at
         \/ lane'[r][h].st = "err"
  BY <1>1, LaneTypes DEF IInv, TypeOK
<1>5. n \in DOMAIN Phase(r).body /\ n \in Nat \ {0}
  <2>1. \E st \in {"idle", "sent"} : Turn(r, h, st)
    BY DEF Read, Reply
  <2> QED
    BY <2>1, TurnFacts
<1>6. Len(Phase(r).body) \in Nat /\ DOMAIN Phase(r).body = 1..Len(Phase(r).body)
  BY <1>2, AtWork
<1>7. lane[r][h].st \in {"idle", "sent"}
  BY DEF Read, Reply, Turn
\* At most the change of this host is new.
<1>8. /\ done[r] \subseteq done'[r] /\ late[r] \subseteq late'[r]
      /\ \A x \in Touched(r)' : x \in Touched(r) \/ (x = <<h, call>> /\ lane[r][h].st = "sent")
      /\ \A x \in late'[r] : x \in late[r] \/ (x = <<h, call>> /\ lane[r][h].st = "sent")
  <2> DEFINE c == <<h, call>>
  <2>1. \/ done'[r] = done[r] /\ late'[r] = late[r]
        \/ lane[r][h].st = "sent" /\ late'[r] = late[r] /\ done'[r] = done[r] \cup {c}
        \/ lane[r][h].st = "sent" /\ done'[r] = done[r] /\ late'[r] = late[r] \cup {c}
    BY ChangeFacts DEF Keeps, Takes, Loses
  <2> HIDE DEF c
  <2>2. /\ done[r] \subseteq done'[r] /\ late[r] \subseteq late'[r]
        /\ \A x \in Touched(r)' : x \in Touched(r) \/ (x = c /\ lane[r][h].st = "sent")
        /\ \A x \in late'[r] : x \in late[r] \/ (x = c /\ lane[r][h].st = "sent")
    BY <2>1 DEF Touched
  <2> QED
    BY <2>2 DEF c
\* While the old container is replaced the host goes step by step.
<1>9. ASSUME call \in {"remove", "create_container"}
      PROVE  /\ Phase(r).do = "one" /\ lane[r][h].st = "sent"
             /\ \/ lane'[r][h].st = "err"
                \/ /\ <<h, call>> \in done'[r] /\ late' = late
                   /\ lane'[r][h].st = "idle" /\ lane'[r][h].at = n + 1
  <2>1. Reply(r, h)
    <3>1. Current(r, h).writes
      BY <1>2, <1>5, <1>9, ReplacingWrites DEF Current
    <3> QED
      BY <3>1 DEF Read
  <2>2. lane[r][h].st = "sent"
    BY <2>1 DEF Reply, Turn
  <2>3. /\ Phase(r).do = "one" /\ Current(r, h).ok = 0 /\ Current(r, h).err = {Fail}
        /\ n + 1 <= Len(Phase(r).body)
    BY <1>6, <1>9, <2>2, ReplacingSent
  <2>4. \/ lane'[r][h].st = "err"
        \/ /\ <<h, call>> \in done'[r] /\ late' = late
           /\ lane'[r][h] = IF n + 1 > Len(Phase(r).body)
                            THEN [at |-> 1, st |-> "ok"] ELSE [at |-> n + 1, st |-> "idle"]
    BY <2>1, <2>3, NoWayAround
  <2>5. ~(n + 1 > Len(Phase(r).body))
    BY <1>5, <1>6, <2>3
  <2>6. \/ lane'[r][h].st = "err"
        \/ <<h, call>> \in done'[r] /\ late' = late /\ lane'[r][h] = [at |-> n + 1, st |-> "idle"]
    BY <2>4, <2>5
  <2> QED
    BY <2>2, <2>3, <2>6
<1>10. ASSUME NEW g \in Hosts, g # h, Lacks(r, g)' PROVE Lacks(r, g)
  BY <1>8, <1>10 DEF Lacks
<1>11. Lacking(r)'
  <2> SUFFICES ASSUME phase[r] = Len(Prog(r)), NEW g \in Hosts, Lacks(r, g)'
               PROVE  /\ Phase(r).do = "one"
                      /\ \/ lane'[r][g].st = "err"
                         \/ /\ lane'[r][g].st \in {"idle", "sent"}
                            /\ Phase(r).body[lane'[r][g].at].call = "create_container"
    BY <1>3 DEF Lacking, Current
  <2>1. CASE g # h
    BY <1>2, <1>4, <1>10, <2>1 DEF Succession, Lacking, Current
  <2>2. CASE g = h
    <3>1. <<h, "create_container">> \notin done'[r] /\ <<h, "remove">> \in Touched(r)'
      BY <2>2 DEF Lacks
    <3>2. call \in {"remove", "create_container"}
      <4>1. CASE Lacks(r, h)
        BY <1>2, <1>7, <4>1 DEF Succession, Lacking
      <4>2. CASE ~Lacks(r, h)
        <5>1. <<h, "remove">> \notin Touched(r)
          BY <1>8, <3>1, <4>2 DEF Lacks
        <5> QED
          BY <1>8, <3>1, <5>1
      <4> QED
        BY <4>1, <4>2
    <3>3. /\ Phase(r).do = "one" /\ lane[r][h].st = "sent"
          /\ \/ lane'[r][h].st = "err"
             \/ /\ <<h, call>> \in done'[r]
                /\ lane'[r][h].st = "idle" /\ lane'[r][h].at = n + 1
      BY <1>9, <3>2
    <3>4. CASE lane'[r][h].st # "err"
      <4>1. call = "remove"
        BY <3>1, <3>2, <3>3, <3>4
      <4>2. Phase(r).body[n + 1].call = "create_container"
        BY <3>3, <4>1, ReplacingSent
      <4> QED
        BY <2>2, <3>3, <3>4, <4>2
    <3> QED
      BY <2>2, <3>3, <3>4
  <2> QED
    BY <2>1, <2>2
<1>12. Placed(r)'
  <2> SUFFICES ASSUME phase[r] = Len(Prog(r)), NEW g \in Hosts,
                      <<g, "create_container">> \in issued[r], lane'[r][g].st \in {"idle", "sent"}
               PROVE  \/ lane'[r][g].at = Len(Phase(r).body)
                      \/ /\ lane'[r][g].st = "sent"
                         /\ Phase(r).body[lane'[r][g].at].call = "create_container"
    BY <1>3 DEF Placed, Current
  <2>1. CASE g # h
    BY <1>4, <2>1 DEF Succession, Placed, Current
  <2>2. CASE g = h
    <3>1. \/ n = Len(Phase(r).body)
          \/ lane[r][h].st = "sent" /\ call = "create_container"
      BY <1>7, <2>2 DEF Succession, Placed
    <3>2. lane'[r][h].at \in 1..Len(Phase(r).body) /\ n < lane'[r][h].at
      BY <1>4, <1>6, <2>2
    <3>3. CASE n = Len(Phase(r).body)
      BY <1>6, <3>2, <3>3
    <3>4. CASE lane[r][h].st = "sent" /\ call = "create_container"
      <4>1. lane'[r][h].at = n + 1
        BY <1>9, <2>2, <3>4
      <4> QED
        BY <2>2, <3>4, <4>1, ReplacingSent
    <3> QED
      BY <3>1, <3>3, <3>4
  <2> QED
    BY <2>1, <2>2
<1>13. Doubted(r)'
  <2> SUFFICES ASSUME NEW g \in Hosts, <<g, "remove">> \in late'[r]
               PROVE  <<g, "create_container">> \notin issued[r] /\ lane'[r][g].st = "err"
    BY <1>3 DEF Doubted
  <2>1. CASE <<g, "remove">> \in late[r]
    <3>1. <<g, "create_container">> \notin issued[r] /\ lane[r][g].st = "err"
      BY <1>2, <2>1 DEF Succession, Doubted
    <3>2. g # h
      BY <1>7, <3>1
    <3> QED
      BY <1>4, <3>1, <3>2
  <2>2. CASE <<g, "remove">> \notin late[r]
    <3>1. g = h /\ call = "remove" /\ lane[r][h].st = "sent"
      BY <1>8, <2>2
    <3>2. lane'[r][h].st = "err"
      <4>1. late' # late
        BY <2>2
      <4> QED
        BY <1>9, <3>1, <4>1
    <3>3. phase[r] = Len(Prog(r)) /\ n + 1 < Len(Phase(r).body)
      BY <3>1, SentWhere, ReplacingSent
    <3>4. n # Len(Phase(r).body)
      BY <1>5, <1>6, <3>3
    <3>5. <<h, "create_container">> \notin issued[r]
      BY <3>1, <3>3, <3>4 DEF Succession, Placed
    <3> QED
      BY <3>1, <3>2, <3>5
  <2> QED
    BY <2>1, <2>2
<1>14. Alone(r)'
  BY <1>3 DEF Succession, Alone
<1>15. Through(r)'
  <2>1. ~(phase[r] > Len(Prog(r)))
    BY <1>2
  <2> QED
    BY <1>2, <1>3, <2>1 DEF Through
<1> QED
  BY <1>11, <1>12, <1>13, <1>14, <1>15 DEF Succession

\* A change is sent.
LEMMA SendSucceeds ==
    ASSUME IInv, NEW r \in Requests, Succession(r), NEW h \in Hosts, Send(r, h)
    PROVE  Succession(r)'
<1> DEFINE c == <<h, Current(r, h).call>>
<1>1. /\ Turn(r, h, "idle")
      /\ lane' = [lane EXCEPT ![r][h].st = "sent"]
      /\ issued' = [issued EXCEPT ![r] = @ \cup {c}] /\ c[1] = h
      /\ UNCHANGED <<daemon, world, request, phase, course, confirmation, done, blurred, stale, answer>>
  BY DEF Send
<1>2. /\ lane[r][h].st = "idle" /\ h \in Working(r) /\ answer[r] = "none"
  BY <1>1 DEF Turn, At, Running
<1>3. \A g \in Hosts : <<g, "create_container">> = c => g = h /\ Current(r, h).call = "create_container"
  OBVIOUS
<1> HIDE DEF c
<1>4. /\ issued'[r] = issued[r] \cup {c}
      /\ \A g \in Hosts : /\ lane'[r][g].at = lane[r][g].at
                          /\ lane'[r][g].st = lane[r][g].st \/ (g = h /\ lane'[r][g].st = "sent")
      /\ lane'[r][h].st = "sent"
  <2>1. lane \in [Requests -> [Hosts -> Lanes]] /\ lane[r][h] \in Lanes
    BY DEF IInv, TypeOK
  <2> QED
    BY <1>1, <2>1 DEF IInv, TypeOK, Lanes
<1>5. /\ op' = op /\ phase' = phase /\ owner' = owner /\ Prog(r)' = Prog(r) /\ Phase(r)' = Phase(r)
      /\ answer' = answer /\ late' = late /\ \A g \in Hosts : Lacks(r, g)' = Lacks(r, g)
  BY <1>1 DEF world, request, course, Prog, Phase, Lacks, Touched
<1>6. Lacking(r)'
  BY <1>2, <1>4, <1>5 DEF Succession, Lacking, Current
<1>7. Placed(r)'
  <2> SUFFICES ASSUME phase[r] = Len(Prog(r)), NEW g \in Hosts,
                      <<g, "create_container">> \in issued'[r], lane'[r][g].st \in {"idle", "sent"}
               PROVE  \/ lane'[r][g].at = Len(Phase(r).body)
                      \/ /\ lane'[r][g].st = "sent"
                         /\ Phase(r).body[lane'[r][g].at].call = "create_container"
    BY <1>5 DEF Placed, Current
  <2>1. CASE <<g, "create_container">> = c
    BY <1>3, <1>4, <2>1 DEF Current
  <2>2. CASE <<g, "create_container">> \in issued[r]
    <3>1. lane[r][g].st \in {"idle", "sent"}
      BY <1>2, <1>4
    <3>2. \/ lane[r][g].at = Len(Phase(r).body)
          \/ lane[r][g].st = "sent" /\ Current(r, g).call = "create_container"
      BY <2>2, <3>1 DEF Succession, Placed
    <3> QED
      BY <1>4, <3>2 DEF Current
  <2> QED
    BY <1>4, <2>1, <2>2
<1>8. Doubted(r)'
  <2> SUFFICES ASSUME NEW g \in Hosts, <<g, "remove">> \in late[r]
               PROVE  <<g, "create_container">> \notin issued'[r] /\ lane'[r][g].st = "err"
    BY <1>5 DEF Doubted
  <2>1. <<g, "create_container">> \notin issued[r] /\ lane[r][g].st = "err"
    BY <1>2 DEF Succession, Doubted
  <2>2. g # h
    BY <1>2, <2>1
  <2> QED
    BY <1>3, <1>4, <2>1, <2>2
<1>9. Alone(r)'
  <2> SUFFICES ASSUME phase[r] = Len(Prog(r)), Phase(r).do = "one", NEW x \in issued[r] \cup {c}
               PROVE  x[1] = owner[r]
    BY <1>4, <1>5 DEF Alone
  <2>1. h = owner[r]
    BY <1>2 DEF Working
  <2> QED
    BY <1>1, <2>1 DEF Succession, Alone
<1>10. Through(r)'
  BY <1>5 DEF Succession, Through
<1> QED
  BY <1>6, <1>7, <1>8, <1>9, <1>10 DEF Succession

\* A change takes effect that nobody waits for.
LEMMA StraggleSucceeds ==
    ASSUME IInv, NEW r \in Requests, Succession(r), Straggle(r)
    PROVE  Succession(r)'
<1>1. /\ UNCHANGED <<request, phase, course, lane, issued, answer>>
      /\ Touched(r)' = Touched(r) /\ done[r] \subseteq done'[r]
  BY StraggleFacts DEF Touched
<1>2. late'[r] \subseteq late[r]
  BY DEF Straggle, IInv, TypeOK
<1> QED
  BY <1>1, <1>2, SuccessionRemains DEF request, course

\* The changes under way are given up.
LEMMA LoseSucceeds ==
    ASSUME IInv, NEW r \in Requests, Succession(r), Deadline(r) \/ Abandon(r)
    PROVE  Succession(r)'
<1>1. /\ UNCHANGED <<request, phase, course, lane, record>> /\ Lose(r, Hosts)
      /\ \E a \in {"timeout", "dropped"} : Answer(r, a)
  BY DEF Deadline, Abandon, Answer
<1>2. /\ op' = op /\ phase' = phase /\ owner' = owner /\ lane' = lane
      /\ issued' = issued /\ done' = done /\ Prog(r)' = Prog(r) /\ Phase(r)' = Phase(r)
  BY <1>1 DEF request, course, record, Prog, Phase
<1>3. answer'[r] \in {"timeout", "dropped"}
  BY <1>1 DEF Answer, IInv, TypeOK
<1>4. late'[r] = late[r] \cup UnderWay(r, Hosts)
  BY <1>1, LoseTypes
<1>5. ASSUME NEW g \in Hosts, <<g, "remove">> \in UnderWay(r, Hosts)
      PROVE  /\ Phase(r).do = "one" /\ phase[r] = Len(Prog(r)) /\ phase[r] \in Nat
             /\ <<g, "create_container">> \notin issued[r]
  <2>1. Current(r, g).call = "remove" /\ lane[r][g].st = "sent"
    BY <1>5 DEF UnderWay
  <2>2. Phase(r).do = "one" /\ phase[r] = Len(Prog(r)) /\ phase[r] \in Nat
    BY <2>1, SentWhere, ReplacingSent DEF IInv, TypeOK
  <2>3. lane[r][g].at # Len(Phase(r).body)
    <3>1. /\ Len(Phase(r).body) \in Nat /\ lane[r][g].at \in Nat
          /\ lane[r][g].at + 1 < Len(Phase(r).body)
      BY <2>1, ReplacingSent
    <3> QED
      BY <3>1
  <2> QED
    BY <2>1, <2>2, <2>3 DEF Succession, Placed
<1> HIDE DEF UnderWay
<1>6. \A g \in Hosts : Lacks(r, g)' => Lacks(r, g) \/ <<g, "remove">> \in UnderWay(r, Hosts)
  BY <1>2, <1>4 DEF Lacks, Touched
<1>7. Lacking(r)'
  BY <1>2, <1>3, <1>5, <1>6 DEF Succession, Lacking
<1>8. Placed(r)' /\ Alone(r)'
  BY <1>2 DEF Succession, Placed, Alone, Current
<1>9. Doubted(r)'
  BY <1>2, <1>3, <1>4, <1>5 DEF Succession, Doubted
<1>10. Through(r)'
  <2>1. ASSUME NEW g \in Hosts, phase[r] > Len(Prog(r)) PROVE <<g, "remove">> \notin UnderWay(r, Hosts)
    <3> SUFFICES ASSUME <<g, "remove">> \in UnderWay(r, Hosts) PROVE FALSE
      OBVIOUS
    <3>1. phase[r] = Len(Prog(r)) /\ phase[r] \in Nat
      BY <1>5
    <3> QED
      BY <2>1, <3>1
  <2> QED
    BY <1>2, <1>3, <1>6, <2>1 DEF Succession, Through
<1> QED
  BY <1>7, <1>8, <1>9, <1>10 DEF Succession

\* The phase that replaced a container is over: with the successor in place, or an
\* error is the answer.
LEMMA ConcludeSucceeds ==
    ASSUME IInv, NEW r \in Requests, Succession(r), Conclude(r), Advance(r),
           phase[r] = Len(Prog(r)), NEW h \in Hosts
    PROVE  ~Lacks(r, h)
<1> SUFFICES ASSUME Lacks(r, h) PROVE FALSE
  OBVIOUS
<1>1. /\ Phase(r).do = "one" /\ lane[r][h].st # "ok"
  <2>1. answer[r] = "none"
    BY DEF Conclude, At, Running
  <2> QED
    BY <2>1 DEF Succession, Lacking
<1>2. Working(r) = {owner[r]} /\ h = owner[r]
  <2>1. <<h, "remove">> \in issued[r]
    BY DEF Lacks, Touched, IInv, Course, SentLast
  <2>2. \A c \in issued[r] : c[1] = owner[r]
    BY <1>1 DEF Succession, Alone
  <2> QED
    BY <1>1, <2>1, <2>2 DEF Working
<1>3. Winners(r) = {}
  BY <1>1, <1>2 DEF Winners
<1>4. Answer(r, "error")
  BY <1>1, <1>3 DEF Conclude
<1>5. phase' = phase /\ phase'[r] = phase[r] + 1 /\ phase[r] \in Nat
  BY <1>4, AdvanceTypes DEF Answer, IInv, TypeOK
<1> QED
  BY <1>5

\* The steps that touch no host.
LEMMA OtherStepsSucceed ==
    ASSUME IInv, NEW r \in Requests, Succession(r),
           \/ Arrive(r) \/ Check(r) \/ TargetHosts_(r) \/ ResolveHost_(r) \/ ResolveOthers(r)
           \/ Skip(r) \/ RequireConfirmation(r) \/ UserReplies(r) \/ Elicited(r)
           \/ ElicitTimeout(r) \/ Conclude(r) \/ Finish(r)
    PROVE  Succession(r)'
<1>1. UNCHANGED <<world, record>>
  BY DEF Arrive, Check, TargetHosts_, ResolveHost_, ResolveOthers, Skip, RequireConfirmation,
         UserReplies, Elicited, ElicitTimeout, Conclude, Finish
<1>2. /\ issued'[r] = issued[r] /\ done'[r] = done[r] /\ late'[r] = late[r]
      /\ Touched(r)' = Touched(r)
  BY <1>1 DEF world, record, Touched
<1>3. CASE Arrive(r)
  <2>1. issued[r] = {} /\ done[r] = {} /\ late[r] = {} /\ answer[r] = "none"
    BY <1>3 DEF Arrive, IInv, Course, Arrived, SentLast
  <2>2. answer'[r] # "ok"
    <3>1. Advance(r) \/ Answer(r, "forbidden")
      BY <1>3 DEF Arrive
    <3> QED
      BY <2>1, <3>1, AdvanceTypes, AnswerTypes DEF IInv, Answers
  <2> QED
    BY <1>2, <2>1, <2>2
       DEF Succession, Lacking, Placed, Doubted, Alone, Through, Lacks, Touched
<1>4. CASE Finish(r)
  <2>1. /\ phase' = phase /\ lane' = lane /\ op' = op /\ owner' = owner /\ phase[r] > Len(Prog(r))
        /\ answer[r] = "none"
    BY <1>4 DEF Finish, Answer, Running, request, course
  <2> QED
    BY <1>2, <2>1, SuccessionRemains
<1>5. CASE ~Arrive(r) /\ ~Finish(r)
  <2>1. op' = op
    BY <1>5 DEF Check, TargetHosts_, ResolveHost_, ResolveOthers, Skip, RequireConfirmation,
         UserReplies, Elicited, ElicitTimeout, Conclude, request
  <2> DEFINE Stays == /\ UNCHANGED <<phase, lane, course>>
                      /\ answer' = answer \/ \E a \in Answers \ {"none", "ok"} : Answer(r, a)
             Goes == Advance(r) /\ answer[r] = "none"
  <2>2. \/ Goes /\ \E d : d # "one" /\ At(r, {d})
        \/ Goes /\ gate[r] # "granted"
        \/ Goes /\ Conclude(r)
        \/ Stays
    <3>1. CASE Check(r)
      <4>1. \E d \in {"require", "validate"} : At(r, {d})
        BY <3>1 DEF Check
      <4> QED
        BY <3>1, <4>1 DEF Check, Answers, Answer, At, Running
    <3>2. CASE TargetHosts_(r)
      BY <3>2 DEF TargetHosts_, Answers, Answer, At, Running
    <3>3. CASE ResolveHost_(r)
      BY <3>3 DEF ResolveHost_, Answers, Answer, At, Running
    <3>4. CASE ResolveOthers(r)
      <4>1. \E d \in {"other", "several"} : At(r, {d})
        BY <3>4 DEF ResolveOthers
      <4>2. answer[r] = "none"
        BY <4>1 DEF At, Running
      <4>3. Advance(r) \/ (Answer(r, "error") /\ UNCHANGED course)
        BY <3>4 DEF ResolveOthers, course
      <4> QED
        BY <4>1, <4>2, <4>3 DEF Answers, Answer
    <3>5. CASE Skip(r)
      <4>1. Advance(r) /\ \E d \in {"discover", "probe", "cached"} : At(r, {d})
        BY <3>5 DEF Skip, At
      <4> QED
        BY <4>1 DEF At, Running
    <3>6. CASE RequireConfirmation(r) \/ UserReplies(r)
      BY <3>6 DEF RequireConfirmation, UserReplies, Answers, Answer, At, Running
    <3>7. CASE Elicited(r) \/ ElicitTimeout(r)
      BY <3>7 DEF Elicited, ElicitTimeout, Answers, Answer, Running
    <3>8. CASE Conclude(r)
      <4>1. answer[r] = "none"
        BY <3>8 DEF Conclude, At, Running
      <4> QED
        BY <3>8, <4>1 DEF Conclude, Answers, Answer
    <3> QED
      BY <1>5, <3>1, <3>2, <3>3, <3>4, <3>5, <3>6, <3>7, <3>8
  <2>3. CASE Stays
    <3>1. /\ answer'[r] = answer[r] \/ answer'[r] # "ok"
          /\ answer[r] # "none" => answer'[r] # "none"
      BY <2>3, AnswerTypes DEF IInv
    <3> QED
      BY <1>2, <2>1, <2>3, <3>1, SuccessionRemains DEF course
  <2>4. ASSUME Goes, phase[r] = Len(Prog(r)) => \A h \in Hosts : ~Lacks(r, h)
        PROVE  Succession(r)'
    <3>1. phase'[r] = phase[r] + 1 /\ answer'[r] = "none"
      BY <2>4, AdvanceTypes DEF IInv
    <3> QED
      BY <1>2, <2>1, <2>4, <3>1, SuccessionPasses
  <2>5. CASE Goes /\ \E d : d # "one" /\ At(r, {d})
    <3>1. Phase(r).do # "one"
      BY <2>5 DEF At
    <3> QED
      BY <2>4, <2>5, <3>1 DEF Succession, Lacking
  <2>6. CASE Goes /\ gate[r] # "granted"
    <3>1. \A h \in Hosts : ~Lacks(r, h)
      <4> SUFFICES ASSUME NEW h \in Hosts, Lacks(r, h) PROVE FALSE
        OBVIOUS
      <4> DEFINE c == <<h, "remove">>
      <4>1. c \in issued[r] /\ c[2] \in Destructive
        BY DEF Lacks, Touched, IInv, Course, SentLast, Destructive
      <4> HIDE DEF c
      <4> QED
        BY <2>6, <4>1 DEF IInv, Course, SentLast
    <3> QED
      BY <2>4, <2>6, <3>1
  <2>7. CASE Goes /\ Conclude(r)
    BY <2>4, <2>7, ConcludeSucceeds
  <2> QED
    BY <2>2, <2>3, <2>5, <2>6, <2>7
<1> QED
  BY <1>3, <1>4, <1>5

SuccessionInv == \A r \in Requests : Succession(r)

\* At the start nothing was removed.
LEMMA SuccessionInit == Init => SuccessionInv
<1> SUFFICES ASSUME Init, NEW r \in Requests PROVE Succession(r)
  BY DEF SuccessionInv
<1>1. issued[r] = {} /\ done[r] = {} /\ late[r] = {} /\ answer[r] = "none"
  BY DEF Init
<1> QED
  BY <1>1 DEF Succession, Lacking, Placed, Doubted, Alone, Through, Lacks, Touched

\* And what was removed is replaced or lacking.
LEMMA SuccessionNext == IInv /\ SuccessionInv /\ [Next]_vars => SuccessionInv'
<1> SUFFICES ASSUME IInv, [Next]_vars, NEW r \in Requests, Succession(r) PROVE Succession(r)'
  BY DEF SuccessionInv
<1>1. CASE Same(r)
  BY <1>1, SameSuccession
<1>2. CASE \/ Arrive(r) \/ Check(r) \/ TargetHosts_(r) \/ ResolveHost_(r) \/ ResolveOthers(r)
           \/ Skip(r) \/ RequireConfirmation(r) \/ UserReplies(r) \/ Elicited(r)
           \/ ElicitTimeout(r) \/ Conclude(r) \/ Finish(r)
  BY <1>2, OtherStepsSucceed
<1>3. CASE \E h \in Hosts : Send(r, h)
  BY <1>3, SendSucceeds
<1>4. CASE \E h \in Hosts : Read(r, h) \/ Reply(r, h)
  BY <1>4, StepSucceeds
<1>5. CASE Straggle(r)
  BY <1>5, StraggleSucceeds
<1>6. CASE Deadline(r) \/ Abandon(r)
  BY <1>6, LoseSucceeds
<1> QED
  BY <1>1, <1>2, <1>3, <1>4, <1>5, <1>6, OneMovesOn DEF Moves

\* GoneOnlyIfReported, with the answer left out.
Accounted ==
    \A d \in Daemons : cont[d] = "absent" =>
        \E r \in Requests, h \in Hosts :
            daemon[h] = d /\ (<<h, "prune_containers">> \in done[r] \/ Gone(r, h))

\* A change that takes effect, on a daemon or on the host alone, is accounted for.
LEMMA ChangeAccounts ==
    ASSUME IInv, Accounted, NEW q \in Requests, NEW g \in Hosts, NEW call,
           daemon' = daemon, done'[q] = done[q] \cup {<<g, call>>},
           \A r \in Requests : r # q => done'[r] = done[r],
           call = "remove" => <<g, "create_container">> \notin done[q],
           \/ cont' = [cont EXCEPT ![daemon[g]] = After(call, @)]
           \/ cont' = cont /\ call # "create_container"
    PROVE  Accounted'
<1>1. daemon[g] \in Daemons /\ cont \in [Daemons -> {"absent", "stopped", "running"}]
  BY MapsAssumption DEF IInv, TypeOK
\* Whoever accounted for a daemon still does, but for one whose container is new.
<1>2. ASSUME NEW d \in Daemons, cont[d] = "absent", call # "create_container" \/ d # daemon[g]
      PROVE  \E r \in Requests, h \in Hosts :
                daemon[h] = d /\ (<<h, "prune_containers">> \in done'[r] \/ Gone(r, h)')
  <2>1. PICK r \in Requests, h \in Hosts :
          daemon[h] = d /\ (<<h, "prune_containers">> \in done[r] \/ Gone(r, h))
    BY <1>2 DEF Accounted
  <2>2. done[r] \subseteq done'[r]
    OBVIOUS
  <2>3. <<h, "create_container">> \in done'[r] => <<h, "create_container">> \in done[r]
    <3>1. <<h, "create_container">> # <<g, call>>
      BY <1>2, <2>1
    <3> QED
      BY <3>1
  <2> QED
    BY <2>1, <2>2, <2>3 DEF Gone
<1> SUFFICES ASSUME NEW d \in Daemons, cont'[d] = "absent"
             PROVE  \E r \in Requests, h \in Hosts :
                       daemon[h] = d /\ (<<h, "prune_containers">> \in done'[r] \/ Gone(r, h)')
  BY DEF Accounted
<1>3. CASE cont' = [cont EXCEPT ![daemon[g]] = After(call, @)] /\ d = daemon[g]
  <2>1. After(call, cont[d]) = "absent"
    BY <1>1, <1>3
  <2>2. call \in {"remove", "prune_containers"} \/ (cont[d] = "absent" /\ call # "create_container")
    BY <2>1 DEF After
  <2>3. CASE call = "remove"
    BY <1>3, <2>3 DEF Gone
  <2>4. CASE call = "prune_containers"
    BY <1>3, <2>4
  <2>5. CASE cont[d] = "absent" /\ call # "create_container"
    BY <1>2, <2>5
  <2> QED
    BY <2>2, <2>3, <2>4, <2>5
<1>4. CASE ~(cont' = [cont EXCEPT ![daemon[g]] = After(call, @)] /\ d = daemon[g])
  <2>1. cont'[d] = cont[d]
    BY <1>1, <1>4
  <2> QED
    BY <1>2, <1>4, <2>1
<1> QED
  BY <1>3, <1>4

\* A change that somebody waits for is, and one that nobody does.
LEMMA TakesAccounts ==
    ASSUME IInv, SuccessionInv, Accounted, NEW q \in Requests, NEW g \in Hosts, Takes(q, g),
           daemon' = daemon, \A r \in Requests : r # q => done'[r] = done[r]
    PROVE  Accounted'
<1> DEFINE call == Current(q, g).call
<1>1. /\ lane[q][g].st = "sent" /\ done'[q] = done[q] \cup {<<g, call>>}
      /\ cont' = IF Current(q, g).via = "docker"
                 THEN [cont EXCEPT ![daemon[g]] = After(call, @)] ELSE cont
  BY DEF Takes, Apply
<1>2. call = "create_container" => Current(q, g).via = "docker"
  BY <1>1, ReplacingSent
<1>3. call = "remove" => <<g, "create_container">> \notin done[q]
  <2> SUFFICES ASSUME call = "remove" PROVE <<g, "create_container">> \notin issued[q]
    BY DEF IInv, Course, SentLast
  <2>1. /\ Len(Phase(q).body) \in Nat /\ lane[q][g].at \in Nat
        /\ lane[q][g].at + 1 < Len(Phase(q).body)
    BY <1>1, ReplacingSent
  <2>2. lane[q][g].at # Len(Phase(q).body)
    BY <2>1, SMT
  <2>3. phase[q] = Len(Prog(q))
    BY <1>1, SentWhere, Zenon
  <2> QED
    BY <1>1, <2>2, <2>3 DEF SuccessionInv, Succession, Placed
<1> HIDE DEF call
<1>4. \/ cont' = [cont EXCEPT ![daemon[g]] = After(call, @)]
      \/ cont' = cont /\ call # "create_container"
  BY <1>1, <1>2
<1> QED
  BY <1>1, <1>3, <1>4, ChangeAccounts

LEMMA StraggleAccounts ==
    ASSUME IInv, SuccessionInv, Accounted, NEW q \in Requests, Straggle(q)
    PROVE  Accounted'
<1>1. PICK c \in late[q] :
        /\ c \in Changes /\ done'[q] = done[q] \cup {c}
        /\ cont' = [cont EXCEPT ![daemon[c[1]]] = After(c[2], @)]
  BY StraggleFacts
<1>2. daemon' = daemon /\ \A r \in Requests : r # q => done'[r] = done[r]
  BY StraggleFacts
<1>3. PICK g \in Hosts, call \in CallsThatChange : c = <<g, call>>
  BY <1>1 DEF Changes
<1>4. call = "remove" => <<g, "create_container">> \notin done[q]
  BY <1>3 DEF SuccessionInv, Succession, Doubted, IInv, Course, SentLast
<1>5. done'[q] = done[q] \cup {<<g, call>>} /\ cont' = [cont EXCEPT ![daemon[g]] = After(call, @)]
  BY <1>1, <1>3
<1> QED
  BY <1>2, <1>4, <1>5, ChangeAccounts

\* What is gone stays accounted for.
LEMMA AccountedNext == IInv /\ SuccessionInv /\ Accounted /\ [Next]_vars => Accounted'
<1> SUFFICES ASSUME IInv, SuccessionInv, Accounted, [Next]_vars PROVE Accounted'
  OBVIOUS
<1>1. ASSUME cont' = cont, \A q \in Requests : done'[q] = done[q], daemon' = daemon PROVE Accounted'
  BY <1>1 DEF Accounted, Gone
<1>2. CASE UNCHANGED vars
  BY <1>1, <1>2 DEF vars, world, record
<1>3. CASE Next
  <2>1. PICK r \in Requests : Moves(r)
    BY <1>3 DEF Next, Moves
  <2>2. daemon' = daemon
    BY <2>1, OneMovesOn
  <2>3. CASE \E h \in Hosts : Read(r, h) \/ Reply(r, h)
    <3>1. PICK h \in Hosts : Read(r, h) \/ Reply(r, h)
      BY <2>3
    <3>2. /\ \A q \in Requests : q # r => done'[q] = done[q]
          /\ (Keeps(r) /\ cont' = cont) \/ Takes(r, h) \/ (Loses(r, h) /\ cont' = cont)
      BY <3>1, ChangeFacts
    <3>3. CASE Takes(r, h)
      BY <2>2, <3>2, <3>3, TakesAccounts
    <3>4. CASE (Keeps(r) \/ Loses(r, h)) /\ cont' = cont
      <4>1. \A q \in Requests : done'[q] = done[q]
        BY <3>2, <3>4 DEF Keeps, Loses
      <4> QED
        BY <1>1, <2>2, <3>4, <4>1
    <3> QED
      BY <3>2, <3>3, <3>4
  <2>4. CASE Straggle(r)
    BY <2>4, StraggleAccounts
  <2>5. CASE ~Straggle(r) /\ ~\E h \in Hosts : Read(r, h) \/ Reply(r, h)
    <3>1. cont' = cont /\ done' = done
      BY <2>1, <2>5 DEF Moves, Arrive, Check, TargetHosts_, ResolveHost_, ResolveOthers, Skip,
           RequireConfirmation, UserReplies, Elicited, ElicitTimeout, Conclude, Finish,
           Deadline, Abandon, Send, world, record
    <3> QED
      BY <1>1, <2>2, <3>1
  <2> QED
    BY <2>3, <2>4, <2>5
<1> QED
  BY <1>2, <1>3

\* Of a container that was there at the start: it is gone only if a prune took it,
\* or a recreate removed it that was not answered "ok".  Once a host removed the
\* container the next steps on it are to put the successor in place, neither of
\* them can be passed over, and only that host's success ends the phase well; and
\* where the removal is in doubt, the host has failed or the request is answered.
THEOREM GoneIsReported ==
    (\A d \in Daemons : cont[d] # "absent") /\ Spec => []GoneOnlyIfReported
<1>1. (\A d \in Daemons : cont[d] # "absent") => Accounted
  BY DEF Accounted
<1>2. SuccessionInv /\ Accounted => GoneOnlyIfReported
  <2> SUFFICES ASSUME SuccessionInv, Accounted, NEW d \in Daemons, cont[d] = "absent"
               PROVE  \E r \in Requests, h \in Hosts : daemon[h] = d /\
                          \/ <<h, "remove">> \in done[r] /\ answer[r] # "ok"
                          \/ <<h, "prune_containers">> \in done[r]
    BY DEF GoneOnlyIfReported
  <2>1. PICK r \in Requests, h \in Hosts :
          daemon[h] = d /\ (<<h, "prune_containers">> \in done[r] \/ Gone(r, h))
    BY DEF Accounted
  <2>2. Gone(r, h) => answer[r] # "ok"
    BY DEF SuccessionInv, Succession, Through, Gone, Lacks, Touched
  <2> QED
    BY <2>1, <2>2 DEF Gone
<1> QED
  BY <1>1, <1>2, InitInv, NextInv, SuccessionInit, SuccessionNext, AccountedNext, PTL DEF Spec

-----------------------------------------------------------------------------
(* Dead clients *)

\* A transport that dies while hosts are asked one after the other leaves no client.
LEMMA ErrorEvicts ==
    ASSUME IInv, NEW r \in Requests, NEW h \in Hosts, NEW st \in {"idle", "sent"}, Turn(r, h, st),
           TransportError(r, h)
    PROVE  \/ client' = client /\ stale' = stale
           \/ Evict(r, h, TRUE)
           \/ Evict(r, h, FALSE) /\ Phase(r).do # "first"
<1>1. At(r, WorkPhases)
  BY DEF Turn
<1>2. phase[r] > 0 /\ phase[r] \in DOMAIN Prog(r) /\ Phase(r).do \in WorkPhases /\ op[r] \in AllOperations
  BY <1>1, AtFacts
<1>3. DropsClient(Phase(r)) /\ Phase(r).evict \in BOOLEAN
  BY <1>2, ProgramFacts DEF Phase, Prog
<1>4. lane[r][h].at \in DOMAIN Phase(r).body
  BY TurnFacts
<1>5. Phase(r).do = "first" => Phase(r).evict /\ ~Pass(r, h)
  BY <1>3, <1>4 DEF DropsClient, Firm, Pass, Current
<1>6. \/ client' = client /\ stale' = stale
      \/ Pass(r, h) /\ Evict(r, h, FALSE)
      \/ Evict(r, h, Phase(r).evict)
  BY DEF TransportError
<1>7. CASE Pass(r, h) /\ Evict(r, h, FALSE)
  BY <1>5, <1>7
<1>8. CASE Evict(r, h, Phase(r).evict)
  <2>1. Phase(r).evict = TRUE \/ (Phase(r).evict = FALSE /\ Phase(r).do # "first")
    BY <1>3, <1>5
  <2> QED
    BY <1>8, <2>1
<1> QED
  BY <1>6, <1>7, <1>8

\* What a dead client is blamed on stays on record.
LEMMA EvictBlames ==
    ASSUME IInv, DeadClientsEvicted, NEW r \in Requests, NEW h \in Hosts, NEW e \in BOOLEAN,
           Phase(r).do \in WorkPhases, Evict(r, h, e), e \/ Phase(r).do # "first"
    PROVE  DeadClientsEvicted'
<1> DEFINE x == <<h, Phase(r).do>>
           blamed(g) == \E q \in Requests, kind \in WorkPhases \ {"first"} : <<g, kind>> \in stale'[q]
<1>1. /\ stale \in [Requests -> SUBSET (Hosts \X WorkPhases)]
      /\ client \in [Hosts -> {"usable", "dead"}]
  BY DEF IInv, TypeOK
<1>2. /\ stale' = [stale EXCEPT ![r] = @ \cup {x}]
      /\ client' = [client EXCEPT ![h] = IF e THEN "usable" ELSE "dead"]
  BY DEF Evict
<1>3. x \in stale'[r] /\ \A q \in Requests : stale[q] \subseteq stale'[q]
  <2> HIDE DEF x
  <2> QED
    BY <1>1, <1>2
<1> SUFFICES ASSUME NEW g \in Hosts, client'[g] = "dead" PROVE blamed(g)
  BY DEF DeadClientsEvicted
<1>4. CASE g = h
  <2>1. ~e
    BY <1>1, <1>2, <1>4
  <2> QED
    BY <1>3, <1>4, <2>1
<1>5. CASE g # h
  <2>1. client[g] = "dead"
    BY <1>1, <1>2, <1>5
  <2>2. PICK q \in Requests, kind \in WorkPhases \ {"first"} : <<g, kind>> \in stale[q]
    BY <2>1 DEF DeadClientsEvicted
  <2> QED
    BY <1>3, <2>2
<1> QED
  BY <1>4, <1>5

\* An operation that goes from host to host leaves no dead client behind, at no time
\* and whatever the others do: every error of its calls ends the attempt at the
\* host, and with it the client goes.
THEOREM DeadClientsAreForgotten == Spec => []DeadClientsEvicted
<1>1. Init => DeadClientsEvicted
  BY DEF Init, DeadClientsEvicted
<1>2. ASSUME IInv, DeadClientsEvicted, [Next]_vars PROVE DeadClientsEvicted'
  <2>1. ASSUME client' = client, stale' = stale PROVE DeadClientsEvicted'
    BY <1>2, <2>1 DEF DeadClientsEvicted
  <2>2. CASE UNCHANGED vars
    BY <2>1, <2>2 DEF vars, world, record
  <2>3. CASE Next
    <3>1. PICK r \in Requests : Moves(r)
      BY <2>3 DEF Next, Moves
    <3>2. CASE ~\E h \in Hosts : Read(r, h) \/ Send(r, h) \/ Reply(r, h)
      <4>1. client' = client /\ stale' = stale
        BY <3>1, <3>2 DEF Moves, Arrive, Check, TargetHosts_, ResolveHost_, ResolveOthers, Skip,
             RequireConfirmation, UserReplies, Elicited, ElicitTimeout, Conclude, Finish,
             Deadline, Abandon, Straggle, world, record
      <4> QED
        BY <2>1, <4>1
    <3>3. CASE \E h \in Hosts : Read(r, h) \/ Send(r, h) \/ Reply(r, h)
      <4>1. PICK h \in Hosts : Read(r, h) \/ Send(r, h) \/ Reply(r, h)
        BY <3>3
      <4>2. \/ client' = client /\ stale' = stale
            \/ TransportError(r, h) /\ \E st \in {"idle", "sent"} : Turn(r, h, st)
        BY <4>1 DEF Read, Send, Reply, world
      <4>3. CASE TransportError(r, h) /\ \E st \in {"idle", "sent"} : Turn(r, h, st)
        <5>1. Phase(r).do \in WorkPhases
          BY <1>2, <4>3, AtFacts DEF Turn
        <5>2. \/ client' = client /\ stale' = stale
              \/ Evict(r, h, TRUE)
              \/ Evict(r, h, FALSE) /\ Phase(r).do # "first"
          BY <1>2, <4>3, ErrorEvicts
        <5> QED
          BY <1>2, <2>1, <5>1, <5>2, EvictBlames
      <4> QED
        BY <2>1, <4>2, <4>3
    <3> QED
      BY <3>2, <3>3
  <2> QED
    BY <1>2, <2>2, <2>3
<1> QED
  BY <1>1, <1>2, InitInv, NextInv, PTL DEF Spec
=============================================================================
