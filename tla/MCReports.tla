------------------------------ MODULE MCReports ------------------------------
(* Instances of the relay with status and doctor beside it for TLC. *)
EXTENDS Reports, TLC

\* Processes and bodies are interchangeable.
Symmetry == Permutations(Procs) \cup Permutations(Bodies)
=============================================================================
