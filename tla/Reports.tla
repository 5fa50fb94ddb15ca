------------------------------- MODULE Reports -------------------------------
(***************************************************************************)
(* What the relay tells its users: the line atcode status prints, and what *)
(* doctor says of the workflow.  status calls current(), which reads the   *)
(* workflow under the lock, and then reads handoff.json without it; doctor *)
(* reads both under the lock and writes nothing, not even what it would    *)
(* reconcile.  One line and one verdict at a time stand for all of them.   *)
(***************************************************************************)
EXTENDS Workflow

CONSTANT Followed   \* bound: the transfers whose status line is followed to its end

VARIABLES
    line,       \* the transfer in the line that status is about to print
    verdict,    \* what doctor has just said of the workflow
    reset,      \* history: since current() returned the workflow was wiped
    cut         \* history: the step at which a process died between its two
                \* files, until somebody writes one of them

reportVars == <<line, verdict, reset, cut>>
allVars    == <<vars, reportVars>>

ReportAssumption ==
    /\ None \notin {"PASS", "WARN", "advance", "unlink"}
    /\ None \notin Nat
ASSUME ReportConstantsOK == ReportAssumption

ReportInit == Init /\ line = None /\ verdict = None /\ reset = FALSE /\ cut = None

\* The steps between the two files of a delivery, and of a reset.
BetweenFiles == {"advance", "unlink"}

Dies(p) == pc[p] \in BetweenFiles /\ Crash(p)

\* A step of the relay while status and doctor may be at work.
Watched(step) ==
    /\ step
    /\ verdict' = None
    /\ reset' = (reset \/ (line # None /\ workflow' # workflow /\ workflow' = InitialWorkflow))
    /\ IF \E p \in Procs : Dies(p)
       THEN \E p \in Procs : Dies(p) /\ cut' = pc[p]
       ELSE cut' = IF UNCHANGED files THEN cut ELSE None

\* current() has returned to status: the lock is free, the line half made.
Current(p) ==
    /\ line = None
    /\ op[p] = "status"
    /\ Watched(Reconcile(p))
    /\ workflow'.lastTransferId \in Followed
    /\ line' = workflow'.lastTransferId

\* read_handoff, and the line is printed; or status ends before that.
ReadHandoff ==
    /\ line # None
    /\ line' = None
    /\ reset' = FALSE
    /\ UNCHANGED <<vars, verdict, cut>>

\* Mutant: doctor does not take the lock.
ExamineUnlocked ==
    /\ verdict' = IF reconcile_state(workflow, handoff) # workflow THEN "WARN" ELSE "PASS"
    /\ UNCHANGED <<vars, line, reset, cut>>

\* doctor compares the workflow with what reconciling would make of it.
Examine ==
    /\ lock = None
    /\ verdict' = IF reconcile_state(workflow, handoff) # workflow THEN "WARN" ELSE "PASS"
    /\ UNCHANGED <<vars, line, reset, cut>>

ReportNext ==
    \/ Watched(Next) /\ UNCHANGED line
    \/ \E p \in Procs : Current(p)
    \/ ReadHandoff
    \/ Examine

ReportSpec == ReportInit /\ [][ReportNext]_allVars

-----------------------------------------------------------------------------
(* The delivery that status prints is that of the transfer it names, then  *)
(* it is delivered, or of a later one: however many commands run between   *)
(* its two reads, it never shows an older one, or none, unless the relay   *)
(* was reset meanwhile.                                                    *)
LineNotBehind ==
    line # None /\ line > 0 /\ ~reset =>
        /\ handoff # None
        /\ handoff.transferId >= line
        /\ handoff.transferId = line => ~Pending

(* doctor asks for a reconciliation only when a process died between the   *)
(* two files of a delivery or of a reset, and never misses a delivery that *)
(* was cut: a delivery in progress is not taken for one.                   *)
DoctorFindsCut ==
    /\ verdict = "WARN" => cut # None
    /\ verdict = "PASS" => cut # "advance"

(* A pending handoff can always be delivered: it is from the role whose    *)
(* turn it is, to the next one, under the next id.  Only a reset that died *)
(* before it removed the file leaves one that every next refuses, and only *)
(* until somebody writes a file.                                           *)
PendingRetriable ==
    Pending /\ cut # "unlink" /\ (\A p \in Procs : pc[p] # "unlink") =>
        /\ handoff.fromRole = workflow.currentRole
        /\ handoff.toRole = NextRole[workflow.currentRole]
        /\ handoff.transferId = workflow.lastTransferId + 1
=============================================================================
