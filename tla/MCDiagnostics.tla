---------------------------- MODULE MCDiagnostics ---------------------------
(* Instances of Session with doctor beside it for TLC. *)
EXTENDS Diagnostics, TLC

\* Processes are interchangeable.
Symmetry == Permutations(Procs)
=============================================================================
