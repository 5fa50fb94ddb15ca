----------------------------- MODULE Diagnostics ----------------------------
(***************************************************************************)
(* doctor beside the session service: it compares state.json with what     *)
(* tmux shows, and reads the one, the other and then the configuration     *)
(* without the project lock, while the processes of Session go on.  It     *)
(* changes nothing, so one doctor at a time stands for all of them.        *)
(***************************************************************************)
EXTENDS Session

CONSTANT
    Followed    \* bound: the stored states from which doctor's comparison is followed

VARIABLES
    doctor,     \* what doctor does next, or its verdict
    stored,     \* the status it read in state.json
    shown,      \* what it saw of the session
    calm        \* history: since it began nobody was at work and nothing happened outside

doctorVars == <<doctor, stored, shown, calm>>
allVars == <<vars, doctorVars>>

Levels == {"PASS", "WARN", "FAIL"}

\* A snapshot: no session, the layout of a complete one, or something else.
Snapshots == {"absent", "partial"} \cup Layouts

\* Mutant: no session, no snapshot.
SnapshotNone(s) ==
    IF s = None THEN None
    ELSE IF Complete(s) /\ s.layout \in Layouts THEN s.layout ELSE "partial"

Snapshot(s) ==
    IF s = None THEN "absent"
    ELSE IF Complete(s) /\ s.layout \in Layouts THEN s.layout ELSE "partial"

Actual(snapshot, l) ==
    IF snapshot = "absent" THEN "stopped"
    ELSE IF snapshot = l THEN "running" ELSE "degraded"

\* Mutant: without a stored state there is always something to reconcile.
LevelUnstored(state, actual) == IF state = actual THEN "PASS" ELSE "WARN"

Level(state, actual) ==
    IF state = actual \/ (state = None /\ actual = "stopped") THEN "PASS" ELSE "WARN"

DoctorInit ==
    /\ Init
    /\ doctor = "away" /\ stored = None /\ shown = None /\ calm = FALSE

Quiet == lock = None /\ ~stale

\* state.json is read,
ReadState ==
    /\ doctor \in {"away"} \cup Levels
    /\ recorded \in Followed
    /\ doctor' = "inspect"
    /\ stored' = recorded
    /\ calm' = Quiet
    /\ UNCHANGED <<shown, vars>>

\* ... tmux is asked,
Inspect ==
    /\ doctor = "inspect"
    /\ doctor' = "compare"
    /\ shown' = Snapshot(sess)
    /\ UNCHANGED <<stored, calm, vars>>

Concludes(level) ==
    /\ doctor' = level
    /\ stored' = None /\ shown' = None /\ calm' = FALSE
    /\ UNCHANGED vars

\* ... the configuration is read, and the two are compared.
Compare == doctor = "compare" /\ Concludes(Level(stored, Actual(shown, config)))

\* tmux or a file fails.
Fails == doctor \in {"inspect", "compare"} /\ Concludes("FAIL")

\* The others go on.
Watched(step) == step /\ calm' = (calm /\ Quiet') /\ UNCHANGED <<doctor, stored, shown>>

DoctorNext == ReadState \/ Inspect \/ Compare \/ Fails \/ Watched(Next)

DoctorSpec == DoctorInit /\ [][DoctorNext]_allVars

-----------------------------------------------------------------------------
(* What doctor holds has its type; it compares only what it has seen.      *)
DoctorTypeOK ==
    /\ doctor \in {"away", "inspect", "compare"} \cup Levels
    /\ stored \in Lifecycles \cup {None}
    /\ IF doctor = "compare" THEN shown \in Snapshots ELSE shown = None
    /\ calm \in BOOLEAN

(* doctor asks for a reconciliation only when there is a reason: if nobody *)
(* was at work on the session and nothing happened outside while it read,  *)
(* state.json and tmux agree.                                              *)
WarnsWithReason ==
    [][doctor = "compare" /\ calm => doctor' # "WARN"]_allVars
=============================================================================
