------------------------------- MODULE OpSteps -------------------------------
(***************************************************************************)
(* The vocabulary in which the operations of the services are written down *)
(* (ContainerOps, DockerOps, ComposeOps, HostOps, ScoutOps).  An operation *)
(* is a sequence of phases, a phase that works on hosts has a body, and a  *)
(* body is a sequence of steps: one call each to a Docker daemon, or one   *)
(* command each, run here or over SSH.  Module ActionRun executes them.    *)
(***************************************************************************)
EXTENDS Sequences, FiniteSets, Integers

(* Steps: what is called, whether it changes the host, and how many of the  *)
(* following steps are passed over when it succeeds, or may be when it      *)
(* fails.                                                                   *)
Fail == -1   \* an error ends the body

Step(via, call, writes) ==
    <<[via |-> via, call |-> call, writes |-> writes, ok |-> 0, err |-> {Fail}]>>

Get(call)    == Step("docker", call, FALSE)   \* a daemon is asked
Do(call)     == Step("docker", call, TRUE)    \* a daemon changes something
Run(call)    == Step("command", call, FALSE)  \* a command that only reads
Change(call) == Step("command", call, TRUE)   \* a command that changes the host

Client == Get("client_for")

\* `let _ = ...`, `if let Ok`: an error ends the attempt and not the body.
Attempt(body) ==
    [i \in DOMAIN body |->
        [body[i] EXCEPT !.err = {IF e = Fail THEN Len(body) - i ELSE e : e \in @}]]

\* The fallback runs only if the step fails; an error of the step that is one
\* of `errs` is final.
OrElse(step, fallback, errs) ==
    <<[step[1] EXCEPT !.ok = Len(fallback), !.err = {0} \cup errs]>> \o fallback

(* Phases. *)
Require(fields)  == <<[do |-> "require", fields |-> fields]>>  \* missing: refused
Validate(what)   == <<[do |-> "validate", what |-> what]>>     \* may be refused
TargetHosts      == <<[do |-> "target"]>>    \* the named host, or every host
ResolveHost      == <<[do |-> "resolve"]>>   \* the named host
Discover         == <<[do |-> "discover", body |-> Client \o Get("daemon_id"), evict |-> FALSE]>>
SeveralHosts     == <<[do |-> "several"]>>   \* a list of named hosts, which may be refused
OtherHost        == <<[do |-> "other"]>>     \* a second named host
Probe(body)      == <<[do |-> "probe", body |-> body, evict |-> FALSE]>>
\* Faulty variant of First: a dead transport is kept.
FirstKeeps(body) == <<[do |-> "first", body |-> body, evict |-> FALSE]>>
First(body)      == <<[do |-> "first", body |-> body, evict |-> TRUE]>>
One(body)        == <<[do |-> "one", body |-> body, evict |-> FALSE]>>
OneOther(body)   == <<[do |-> "oneOther", body |-> body, evict |-> FALSE]>>
Cached(body)     == <<[do |-> "cached", body |-> body, evict |-> FALSE]>>
Each(body)       == <<[do |-> "each", body |-> body, evict |-> FALSE]>>
EachEvicting(body) == <<[do |-> "each", body |-> body, evict |-> TRUE]>>

\* The confirmation; whether its text names the host to be changed.
Confirm(named) == <<[do |-> "confirm", named |-> named]>>

WorkPhases == {"discover", "probe", "first", "one", "oneOther", "cached", "each"}

Gated(prog) == \E i \in DOMAIN prog : prog[i].do = "confirm"

Bodies(prog) == {prog[i].body : i \in {j \in DOMAIN prog : prog[j].do \in WorkPhases}}

\* Does the operation change anything, whatever its confirmation says?
Writes(prog) == \E b \in Bodies(prog) : \E i \in DOMAIN b : b[i].writes
=============================================================================
