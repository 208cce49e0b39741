--------------------------- MODULE MCDockerClients ---------------------------
(***************************************************************************)
(* Model-checking instance of DockerClients, and a statement of its        *)
(* documentation that the code does not keep.                              *)
(***************************************************************************)
EXTENDS DockerClients, TLC

\* Interchangeable names; used for safety runs only.
SafetySymmetry == Permutations(Tasks) \cup Permutations(Cells) \cup Permutations(Sessions)

\* docker_client/cache.rs:81 and ssh/forward.rs:31-33: dropping a client tears
\* down its own forward and socket, not those of the client that replaced it.
DropSparesOthers ==
    [][\A c \in Cells : ready[c] /\ ~ready'[c]
          => LET h == hostOf[c] IN
             file[h] \in Sessions \ {via[c]} => file'[h] = file[h]]_vars
=============================================================================
