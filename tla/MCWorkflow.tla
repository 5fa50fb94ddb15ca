----------------------------- MODULE MCWorkflow -----------------------------
(* Instances of Workflow for TLC. *)
EXTENDS Workflow, TLC

\* Processes and bodies are interchangeable.
Symmetry == Permutations(Procs) \cup Permutations(Bodies)
=============================================================================
