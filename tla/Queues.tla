-------------------------------- MODULE Queues --------------------------------
(***************************************************************************)
(* The waiters of a semaphore of tokio (OnceCell has one, too), the first  *)
(* to be served first.  A waiter queues once.                              *)
(***************************************************************************)
EXTENDS SequencesExt

\* A waiter whose future is dropped gives up its place.
Without(q, t) ==
    IF \E i \in DOMAIN q : q[i] = t
    THEN RemoveAt(q, CHOOSE i \in DOMAIN q : q[i] = t)
    ELSE q
=============================================================================
