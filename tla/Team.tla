-------------------------------- MODULE Team --------------------------------
(***************************************************************************)
(* What the session service promises of a project's tmux session, without  *)
(* locks, processes, commands or layouts: the team of roles as everybody   *)
(* but its builder meets it.  A team appears whole, in one step, or a      *)
(* creation that broke off leaves part of it; from then on a team of this  *)
(* installation only loses panes, until it is gone.                        *)
(*                                                                         *)
(* The name can also be taken by a session made elsewhere.  Only of such a *)
(* session is less promised: a creation that was under way works on it.    *)
(***************************************************************************)
EXTENDS Naturals, TLAPS

VARIABLES
    up,         \* there is a session to be met
    foreign,    \* it was not made by this installation
    panes,      \* how many panes of each role it has
    damaged     \* it lost a pane, or its creation broke off

team == <<up, foreign, panes, damaged>>

Roles == {"pm", "developer", "reviewer"}
Whole == [r \in Roles |-> 1]

Down == ~up /\ ~foreign /\ ~damaged /\ panes = [r \in Roles |-> 0]

Init == Down

\* A session appears: built, left behind by a creation that broke off, or taken by
\* a rival.
Built      == ~foreign' /\ ~damaged' /\ panes' = Whole
LeftBehind == ~foreign' /\ damaged' /\ panes' \in [Roles -> 0..1]
Taken      == foreign' /\ ~damaged' /\ panes' = Whole

\* A session that is there loses a pane.
Loses == damaged' /\ \E r \in Roles : panes[r] > 0 /\ panes' = [panes EXCEPT ![r] = @ - 1]

\* A creation that finds the name taken under it adds its panes to that session,
\* and may break off there.
Grafted ==
    /\ foreign
    /\ UNCHANGED damaged
    /\ \E r \in Roles : panes' = [panes EXCEPT ![r] = IF r = "pm" \/ @ = 0 THEN 1 ELSE 2]
Abandoned == foreign /\ damaged' /\ UNCHANGED panes

Next ==
    \/ ~up /\ up' /\ (Built \/ LeftBehind \/ Taken)
    \/ up /\ Down'
    \/ up /\ up' /\ UNCHANGED foreign /\ (Loses \/ Grafted \/ Abandoned)

Spec == Init /\ [][Next]_team

-----------------------------------------------------------------------------
\* A team of this installation has one pane of each role, and never two.
OnePaneEach ==
    up /\ ~foreign =>
        /\ panes \in [Roles -> 0..1]
        /\ ~damaged => panes = Whole

(* The promise keeps itself: a team appears with one pane of each role, or *)
(* damaged, and what it loses damages it.                                  *)
THEOREM OnePaneEachTheorem == Spec => []OnePaneEach
<1>1. Init => OnePaneEach
  BY DEF Init, Down, OnePaneEach
<1>2. ASSUME OnePaneEach, [Next]_team PROVE OnePaneEach'
  <2> SUFFICES ASSUME up', ~foreign'
               PROVE  panes' \in [Roles -> 0..1] /\ (~damaged' => panes' = Whole)
    BY DEF OnePaneEach
  <2>1. CASE Built \/ LeftBehind \/ Taken
    BY <2>1 DEF Built, LeftBehind, Taken, Whole
  <2>2. CASE up /\ UNCHANGED foreign /\ Loses
    <3>1. panes \in [Roles -> 0..1]
      BY <1>2, <2>2 DEF OnePaneEach
    <3>2. PICK r \in Roles : panes[r] > 0 /\ panes' = [panes EXCEPT ![r] = @ - 1]
      BY <2>2 DEF Loses
    <3>3. panes' \in [Roles -> 0..1]
      BY <3>1, <3>2
    <3> QED BY <2>2, <3>3 DEF Loses
  <2>3. CASE UNCHANGED team
    BY <1>2, <2>3 DEF team, OnePaneEach
  <2> QED BY <1>2, <2>1, <2>2, <2>3 DEF Next, Down, Grafted, Abandoned
<1> QED BY <1>1, <1>2, PTL DEF Spec
=============================================================================
