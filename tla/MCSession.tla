------------------------------ MODULE MCSession -----------------------------
(* Instances of Session for TLC. *)
EXTENDS Session, TLC

\* Processes are interchangeable.
Symmetry == Permutations(Procs)
=============================================================================
