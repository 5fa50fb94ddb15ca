------------------------------- MODULE MCHome -------------------------------
(* Instances of Home for TLC. *)
EXTENDS Home, TLC
CONSTANTS p1, p2, top, sub

\* A repository inside a directory that may be a project, too.
MCAbove == (top :> {top}) @@ (sub :> {top, sub})
MCGitRoot == (top :> None) @@ (sub :> sub)
MCAllowed == [layout |-> {"panes", "windows"}, pm |-> {"codex"}, tester |-> {"codex"}]
MCDefault == [layout |-> "panes", pm |-> "codex"]

\* One key is set and unset, the other one written by hand.
MCCommands ==
    Inits \cup Shows \cup {[cmd |-> "set", key |-> "layout", value |-> "windows"],
                         [cmd |-> "unset", key |-> "layout"]}

\* A layer of the time of the tester, and one that does not load.
MCHandWritten ==
    {[layout |-> "panes", pm |-> "codex", tester |-> "codex"], [pm |-> Bare]}
Symmetry == Permutations(Procs)
=============================================================================
