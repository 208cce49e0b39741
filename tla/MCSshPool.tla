------------------------------ MODULE MCSshPool ------------------------------
(* Instances of SshPool for TLC. *)
EXTENDS SshPool, TLC

\* Callers and cell names are interchangeable; used for safety runs only.
SafetySymmetry == Permutations(Tasks) \cup Permutations(Cells)
=============================================================================
