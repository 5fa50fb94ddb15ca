---------------------------- MODULE ReportsProofs ----------------------------
(***************************************************************************)
(* What status and doctor say of the relay, for any number of processes,   *)
(* bodies and transfers.  Both follow from the invariant over the files,   *)
(* FileInv of WorkflowProofs, and from who may write them.                 *)
(***************************************************************************)
EXTENDS Reports, WorkflowProofs

(* Whatever status prints and doctor says, the relay behaves as Workflow   *)
(* says: all that is proved of it holds with them beside it.               *)
THEOREM ReportsOnlyRead == ReportSpec => Spec
<1>1. ReportInit => Init
  BY DEF ReportInit
<1>2. ASSUME [ReportNext]_allVars PROVE [Next]_vars
  <2>1. ASSUME NEW p \in Procs, Current(p) PROVE Next
    BY <2>1 DEF Current, Watched, Next, Process, LockedStep
  <2> QED BY <1>2, <2>1 DEF ReportNext, Watched, ReadHandoff, Examine, allVars
<1> QED BY <1>1, <1>2, PTL DEF ReportSpec, Spec

-----------------------------------------------------------------------------
(* The line status prints.                                                 *)

\* Without a handoff file there was no transfer.
NoFileInv == handoff = None => workflow.lastTransferId = 0

\* Until a reset the workflow is at or past the transfer of the line.
LineInv == line # None => line \in Nat /\ (~reset => workflow.lastTransferId >= line)

\* How workflow.json moves (the body of AdvancesByDelivery).
Moves == \/ workflow' = workflow
         \/ workflow' = InitialWorkflow
         \/ Unapplied(workflow, handoff) /\ workflow' = Advance(workflow, handoff)

\* Only a reset removes handoff.json, after it has wiped the workflow.
LEMMA HandoffVanishes ==
    ASSUME FileInv, FileInv', [Next]_vars, handoff # None, handoff' = None
    PROVE  workflow' = InitialWorkflow
<1>1. ASSUME NEW p \in Procs, Capture(p) PROVE FALSE
  <2>1. CASE Goto(p, "load")
    <3>1. pc'[p] = "load"
      BY <2>1 DEF Goto, FileInv, TypeInv, TypeOK
    <3> QED BY <3>1 DEF FileInv, StepOK, Pending
  <2> QED BY <1>1, <2>1 DEF Capture
<1>2. ASSUME NEW p \in Procs, Mark(p) PROVE FALSE
  <2>1. pc'[p] = "advance"
    BY <1>2 DEF Mark, Goto, FileInv, TypeInv, TypeOK
  <2> QED BY <2>1 DEF FileInv, StepOK, Unapplied
<1>3. ASSUME NEW p \in Procs, Unlink(p) PROVE workflow' = InitialWorkflow
  BY <1>3 DEF Unlink, FileInv, StepOK
<1>4. ASSUME NEW p \in Procs, Process(p), ~(Capture(p) \/ Mark(p) \/ Unlink(p))
      PROVE  handoff' = handoff
  BY <1>4 DEF Process, LockedStep, files, Invoke, Acquire, Reconcile, Inspect, Load, Paste,
     Submit, AdvanceWorkflow, Focus, Wipe, Launch, Create, Kill, TmuxFails, Check, Confirm,
     Crash
<1>5. Environment \/ UNCHANGED vars => handoff' = handoff
  BY DEF Environment, SessionEnds, PaneDies, UserFocuses, OtherProject, vars, files
<1> QED BY <1>1, <1>2, <1>3, <1>4, <1>5 DEF Next

LEMMA NoFileStep ==
    ASSUME FileInv, FileInv', NoFileInv, [Next]_vars, Moves
    PROVE  NoFileInv'
<1> SUFFICES ASSUME handoff' = None PROVE workflow'.lastTransferId = 0
  BY DEF NoFileInv
<1>1. InitialWorkflow.lastTransferId = 0
  BY DEF InitialWorkflow
<1>2. CASE handoff # None
  BY <1>1, <1>2, HandoffVanishes
<1>3. CASE handoff = None
  BY <1>1, <1>3 DEF NoFileInv, Moves, Unapplied
<1> QED BY <1>2, <1>3

LEMMA LineStep ==
    ASSUME FileInv, FileInv', LineInv, [ReportNext]_allVars, Moves
    PROVE  LineInv'
<1>1. workflow \in WorkflowStates /\ workflow' \in WorkflowStates
  BY DEF FileInv, TypeInv, TypeOK
<1>2. workflow.lastTransferId \in Nat /\ workflow'.lastTransferId \in Nat
  BY <1>1 DEF WorkflowStates
<1>3. ASSUME NEW p \in Procs, Current(p) PROVE LineInv'
  BY <1>2, <1>3 DEF Current, LineInv
<1>4. CASE Watched(Next) /\ UNCHANGED line
  <2> SUFFICES ASSUME line # None PROVE line \in Nat /\ (~reset' => workflow'.lastTransferId >= line)
    BY <1>4 DEF LineInv
  <2> SUFFICES ASSUME ~reset' PROVE workflow'.lastTransferId >= line
    BY DEF LineInv
  <2>1. ~reset /\ (workflow' = workflow \/ workflow' # InitialWorkflow)
    BY <1>4 DEF Watched
  <2>2. line \in Nat /\ workflow.lastTransferId >= line
    BY <2>1 DEF LineInv
  <2>3. CASE Unapplied(workflow, handoff) /\ workflow' = Advance(workflow, handoff)
    <3>1. handoff \in HandoffRecords
      BY <2>3 DEF FileInv, TypeInv, TypeOK, Unapplied
    <3>2. workflow'.lastTransferId = handoff.transferId /\ handoff.transferId \in Nat
      BY <1>1, <2>3, <3>1, AdvanceFacts DEF HandoffRecords
    <3> QED BY <1>2, <2>2, <2>3, <3>2 DEF Unapplied
  <2> QED BY <2>1, <2>2, <2>3 DEF Moves
<1>5. CASE ReadHandoff \/ Examine \/ UNCHANGED allVars
  BY <1>5 DEF ReadHandoff, Examine, allVars, reportVars, vars, files, LineInv
<1> QED BY <1>3, <1>4, <1>5 DEF ReportNext

(* The delivery in a status line is that of the transfer it names, or of a *)
(* later one, although the handoff is read after the lock is gone.         *)
THEOREM LineNotBehindTheorem == ReportSpec => []LineNotBehind
<1>1. ReportInit => NoFileInv /\ LineInv
  BY DEF ReportInit, Init, NoFileInv, LineInv, InitialWorkflow
<1>2. FileInv /\ FileInv' /\ NoFileInv /\ LineInv /\ [Next]_vars /\ [ReportNext]_allVars
        /\ [Moves]_vars => NoFileInv' /\ LineInv'
  <2>1. UNCHANGED vars => Moves
    BY DEF vars, files, Moves
  <2> QED BY <2>1, NoFileStep, LineStep
<1>3. FileInv /\ NoFileInv /\ LineInv => LineNotBehind
  <2> SUFFICES ASSUME FileInv, NoFileInv, LineInv, line # None, line > 0, ~reset
               PROVE  /\ handoff # None
                      /\ handoff.transferId >= line
                      /\ handoff.transferId = line => ~Pending
    BY DEF LineNotBehind
  <2>1. line \in Nat /\ workflow.lastTransferId >= line
    BY DEF LineInv
  <2>2. workflow.lastTransferId \in Nat
    BY DEF FileInv, TypeInv, TypeOK, WorkflowStates
  <2>3. handoff \in HandoffRecords /\ handoff.transferId \in Nat /\ handoff # None
    BY <2>1, <2>2 DEF NoFileInv, FileInv, TypeInv, TypeOK, HandoffRecords
  <2>4. CASE Pending
    BY <2>1, <2>2, <2>3, <2>4 DEF FileInv, FilesOK, PendingIsNew
  <2>5. CASE ~Pending
    <3>1. Effective.lastTransferId = handoff.transferId
      BY <2>3, <2>5 DEF FileInv, FilesOK, DeliveredIsApplied
    <3>2. CASE Unapplied(workflow, handoff)
      BY <2>1, <2>2, <2>3, <2>5, <3>2 DEF Unapplied
    <3>3. CASE ~Unapplied(workflow, handoff)
      BY <2>1, <2>3, <2>5, <3>1, <3>3 DEF Effective, reconcile_state
    <3> QED BY <3>2, <3>3
  <2> QED BY <2>4, <2>5
<1>4. Spec => [][Moves]_vars
  BY AdvancesByDeliveryTheorem DEF AdvancesByDelivery, Moves
<1> QED BY <1>1, <1>2, <1>3, <1>4, FilesCorrect, ReportsOnlyRead, PTL DEF ReportSpec, Spec

-----------------------------------------------------------------------------
(* What doctor says of the workflow.                                       *)

\* A delivered handoff the workflow does not know is in the hands of a process
\* between its two files, or one died there.
CutInv ==
    /\ Unapplied(workflow, handoff) =>
          cut # None \/ \E p \in Procs : pc[p] \in BetweenFiles
    /\ cut = "advance" => Unapplied(workflow, handoff)

LEMMA AdvancedIsApplied ==
    ASSUME NEW state \in WorkflowStates, NEW h \in HandoffRecords \cup {None}
    PROVE  ~Unapplied(reconcile_state(state, h), h)
BY ReconcileFacts, AdvanceFacts DEF reconcile_state, Unapplied, HandoffRecords

\* A step that changes a file, or leaves the place between the two, without dying
\* there.
LEMMA WritersApply ==
    ASSUME FileInv, FileInv', Next, \A p \in Procs : ~Dies(p),
           \A p \in Procs : pc'[p] \notin BetweenFiles,
           ~UNCHANGED files \/ \E p \in Procs : pc[p] \in BetweenFiles
    PROVE  ~Unapplied(workflow, handoff)'
<1> USE DEF BetweenFiles
<1>0. /\ pc \in [Procs -> Locked \cup Unlocked]
      /\ workflow \in WorkflowStates /\ handoff \in HandoffRecords \cup {None}
  BY DEF FileInv, TypeInv, TypeOK
<1>1. ASSUME NEW p \in Procs, Process(p) PROVE ~Unapplied(workflow, handoff)'
  <2>1. CASE Reconcile(p)
    BY <1>0, <2>1, AdvancedIsApplied DEF Reconcile
  <2>2. CASE Capture(p)
    <3>1. pc'[p] = "load" \/ UNCHANGED files
      BY <1>0, <2>2 DEF Capture, Goto, files
    <3>2. pc[p] = "capture"
      BY <2>2 DEF Capture
    <3>3. CASE UNCHANGED files
      <4>1. PICK q \in Procs : pc[q] \in BetweenFiles
        BY <3>3
      <4>2. FALSE
        BY <3>2, <4>1, StepLabels, NoneIsNothing DEF FileInv, TypeInv, CallInv
      <4> QED BY <4>2
    <3>4. CASE pc'[p] = "load"
      BY <3>4 DEF FileInv, StepOK, Pending, Unapplied
    <3> QED BY <3>1, <3>3, <3>4
  <2>3. CASE Mark(p)
    BY <1>0, <2>3 DEF Mark, Goto
  <2>4. CASE AdvanceWorkflow(p)
    <3>1. st[p] = workflow /\ hf[p] = handoff /\ handoff \in HandoffRecords
      BY <1>0, <2>4 DEF AdvanceWorkflow, FileInv, StepOK, HoldingState, Unapplied
    <3>2. workflow' = Advance(workflow, handoff) /\ handoff' = handoff
      BY <2>4, <3>1 DEF AdvanceWorkflow
    <3> QED BY <1>0, <3>1, <3>2, AdvanceFacts DEF Unapplied, HandoffRecords
  <2>5. CASE Wipe(p)
    BY <1>0, <2>5 DEF Wipe, Goto
  <2>6. CASE Unlink(p)
    BY <2>6 DEF Unlink, Unapplied
  <2>7. CASE Launch(p)
    <3>1. CASE workflow' = reconcile_state(workflow, handoff)
      BY <1>0, <2>7, <3>1, AdvancedIsApplied DEF Launch
    <3>2. CASE UNCHANGED workflow
      <4>1. UNCHANGED files /\ pc[p] = "launch"
        BY <2>7, <3>2 DEF Launch, files
      <4>2. PICK q \in Procs : pc[q] \in BetweenFiles
        BY <4>1
      <4>3. FALSE
        BY <4>1, <4>2, StepLabels DEF FileInv, TypeInv, CallInv, Locked
      <4> QED BY <4>3
    <3> QED BY <2>7, <3>1, <3>2 DEF Launch
  <2>8. CASE ~(Reconcile(p) \/ Capture(p) \/ Mark(p) \/ AdvanceWorkflow(p) \/ Wipe(p)
               \/ Unlink(p) \/ Launch(p))
    <3>1. /\ UNCHANGED files
          /\ pc[p] \notin BetweenFiles \/ Crash(p)
          /\ \A q \in Procs : q # p => pc'[q] = pc[q]
      BY <1>0, <1>1, <2>8 DEF Process, LockedStep, files, Invoke, Acquire, Inspect, Load,
         Paste, Submit, Focus, Create, Kill, TmuxFails, Check, Confirm, Crash, Goto, Done,
         Exit, Continue, ThenOrTimeout, UsesTmux
    <3>2. PICK q \in Procs : pc[q] \in BetweenFiles
      BY <3>1
    <3>3. q = p
      BY <3>1, <3>2
    <3> QED BY <3>1, <3>2, <3>3 DEF Dies
  <2> QED BY <2>1, <2>2, <2>3, <2>4, <2>5, <2>6, <2>7, <2>8
<1>2. CASE Environment
  <2>1. UNCHANGED files /\ UNCHANGED pc
    BY <1>2 DEF Environment, SessionEnds, PaneDies, UserFocuses, OtherProject, procs, files
  <2> QED BY <2>1
<1> QED BY <1>1, <1>2 DEF Next

LEMMA CutWatched ==
    ASSUME FileInv, FileInv', CutInv, Next, Watched(Next)
    PROVE  CutInv'
<1>1. CASE \E p \in Procs : Dies(p)
  <2>1. PICK p \in Procs : Dies(p) /\ cut' = pc[p]
    BY <1>1 DEF Watched
  <2>2. cut' # None /\ UNCHANGED files
    BY <2>1, ReportConstantsOK DEF Dies, BetweenFiles, Crash, files, ReportAssumption
  <2>3. pc[p] = "advance" => Unapplied(workflow, handoff)
    BY DEF FileInv, StepOK
  <2> QED BY <2>1, <2>2, <2>3 DEF CutInv, Unapplied, files
<1>2. CASE ~\E p \in Procs : Dies(p)
  <2>1. cut' = IF UNCHANGED files THEN cut ELSE None
    BY <1>2 DEF Watched
  <2>2. cut' = "advance" => Unapplied(workflow, handoff)'
    BY <2>1, ReportConstantsOK DEF ReportAssumption, CutInv, Unapplied, files
  <2>3. ASSUME Unapplied(workflow, handoff)', cut' = None
        PROVE  \E p \in Procs : pc'[p] \in BetweenFiles
    <3> SUFFICES ASSUME \A p \in Procs : pc'[p] \notin BetweenFiles PROVE FALSE
      OBVIOUS
    <3>1. UNCHANGED files /\ \A p \in Procs : pc[p] \notin BetweenFiles
      BY <1>2, <2>3, WritersApply
    <3> QED BY <2>1, <2>3, <3>1 DEF CutInv, Unapplied, files
  <2> QED BY <2>2, <2>3 DEF CutInv
<1> QED BY <1>1, <1>2

(* doctor asks for a reconciliation only after a death between two files,  *)
(* and always after one in a delivery.                                     *)
THEOREM DoctorFindsCutTheorem == ReportSpec => []DoctorFindsCut
<1>1. ReportInit => CutInv /\ DoctorFindsCut
  BY ReportConstantsOK
  DEF ReportInit, ReportAssumption, Init, CutInv, DoctorFindsCut, Unapplied
<1>2. ASSUME FileInv, FileInv', CutInv, DoctorFindsCut, [Next]_vars, [ReportNext]_allVars
      PROVE  CutInv' /\ DoctorFindsCut'
  <2>1. ASSUME Watched(Next) \/ \E p \in Procs : Watched(Reconcile(p))
        PROVE  CutInv' /\ DoctorFindsCut'
    <3>1. Watched(Next)
      BY <2>1 DEF Watched, Next, Process, LockedStep
    <3> QED BY <1>2, <3>1, CutWatched, ReportConstantsOK
            DEF Watched, DoctorFindsCut, ReportAssumption
  <2>2. CASE ReadHandoff
    BY <1>2, <2>2 DEF ReadHandoff, CutInv, DoctorFindsCut, Unapplied, vars, files, procs
  <2>3. CASE Examine
    <3>1. UNCHANGED <<workflow, handoff, pc, cut>>
      BY <2>3 DEF Examine, vars, files, procs
    <3>2. \A p \in Procs : pc[p] \notin BetweenFiles
      BY <1>2, <2>3, ConstantsOK DEF Examine, FileInv, TypeInv, CallInv, ConstantsAssumption,
         BetweenFiles, Locked, Delivering
    <3>3. verdict' = IF reconcile_state(workflow, handoff) # workflow THEN "WARN" ELSE "PASS"
      BY <2>3 DEF Examine
    <3>4. Unapplied(workflow, handoff) => reconcile_state(workflow, handoff) # workflow
      <4> SUFFICES ASSUME Unapplied(workflow, handoff)
                   PROVE  Advance(workflow, handoff) # workflow
        BY DEF reconcile_state
      <4>1. workflow \in WorkflowStates /\ handoff \in HandoffRecords
        BY <1>2 DEF FileInv, TypeInv, TypeOK, Unapplied
      <4> QED BY <4>1, AdvanceFacts DEF Unapplied, HandoffRecords, WorkflowStates
    <3>5. CutInv'
      BY <1>2, <3>1 DEF CutInv, Unapplied
    <3> QED BY <1>2, <3>1, <3>2, <3>3, <3>4, <3>5 DEF CutInv, DoctorFindsCut, reconcile_state
  <2>4. CASE UNCHANGED allVars
    BY <1>2, <2>4 DEF allVars, reportVars, vars, files, procs, CutInv, DoctorFindsCut, Unapplied
  <2> QED BY <1>2, <2>1, <2>2, <2>3, <2>4 DEF ReportNext, Current
<1> QED BY <1>1, <1>2, FilesCorrect, ReportsOnlyRead, PTL DEF ReportSpec, Spec

-----------------------------------------------------------------------------
(* What the files still allow: the role whose turn it is has its transfer, *)
(* and a pending one can be delivered.                                     *)

LEMMA NoFileCorrect == Spec => []NoFileInv
<1>1. Init => NoFileInv
  BY DEF Init, NoFileInv, InitialWorkflow
<1>2. FileInv /\ FileInv' /\ NoFileInv /\ [Next]_vars /\ [Moves]_vars => NoFileInv'
  <2>1. UNCHANGED vars => Moves
    BY DEF vars, files, Moves
  <2> QED BY <2>1, NoFileStep
<1>3. Spec => [][Moves]_vars
  BY AdvancesByDeliveryTheorem DEF AdvancesByDelivery, Moves
<1> QED BY <1>1, <1>2, <1>3, FilesCorrect, PTL DEF Spec

(* On a tmux server of its own the role whose turn it is has been given    *)
(* the transfer that made it so, whatever was killed, restarted or reset   *)
(* in between: without a handoff file there was no transfer, and with a    *)
(* delivered one it is that of the turn and in its target's hands.         *)
THEOREM TurnHasHandoffTheorem ==
    ASSUME SharedServer = FALSE
    PROVE  Spec => []TurnHasHandoff
<1>1. FileInv /\ NoFileInv /\ TargetHasHandoff => TurnHasHandoff
  <2> SUFFICES ASSUME FileInv, NoFileInv, TargetHasHandoff,
                      Effective.lastTransferId > 0, ~Pending,
                      Effective.currentRole \in endpoints
               PROVE  /\ handoff # None /\ handoff.transferId = Effective.lastTransferId
                      /\ Text(handoff) \in inbox[Effective.currentRole]
    BY DEF TurnHasHandoff
  <2>1. handoff # None
    BY DEF NoFileInv, Effective, reconcile_state, Unapplied
  <2>2. Effective.lastTransferId = handoff.transferId /\ Effective.currentRole = handoff.toRole
    BY <2>1 DEF FileInv, FilesOK, DeliveredIsApplied
  <2> QED BY <2>1, <2>2 DEF TargetHasHandoff
<1> QED BY <1>1, FilesCorrect, NoFileCorrect, TargetHasHandoffTheorem, PTL

\* The pending handoff is the next transfer of the turn, or a reset is between its
\* two files, or died there.
RetryInv ==
    Pending =>
        \/ /\ handoff.fromRole = workflow.currentRole
           /\ handoff.transferId = workflow.lastTransferId + 1
        \/ cut = "unlink"
        \/ \E p \in Procs : pc[p] = "unlink"

\* A step of a process that leaves both files alone also leaves a reset where it is.
LEMMA RetryAside ==
    ASSUME FileInv, RetryInv, Watched(Next), \A q \in Procs : ~Dies(q), UNCHANGED files,
           \A q \in Procs : pc[q] = "unlink" => pc'[q] = "unlink"
    PROVE  RetryInv'
<1>1. cut' = cut
  BY DEF Watched
<1> QED BY <1>1 DEF RetryInv, Pending, files

LEMMA RetryWatched ==
    ASSUME FileInv, FileInv', RetryInv, Next, Watched(Next), \A q \in Procs : ~Dies(q)
    PROVE  RetryInv'
<1> SUFFICES ASSUME Pending', \A q \in Procs : pc'[q] # "unlink" PROVE RetryInv'
  BY DEF RetryInv
<1>0. /\ pc \in [Procs -> Locked \cup Unlocked]
      /\ workflow \in WorkflowStates /\ handoff \in HandoffRecords \cup {None}
  BY DEF FileInv, TypeInv, TypeOK
<1>1. ASSUME NEW p \in Procs, Process(p) PROVE RetryInv'
  <2>1. CASE Reconcile(p) \/ Launch(p)
    <3>1. Pending /\ UNCHANGED handoff
      BY <2>1 DEF Pending, Reconcile, Launch
    <3>2. UNCHANGED files
      BY <2>1, <3>1 DEF Pending, Reconcile, Launch, reconcile_state, Unapplied, files
    <3>3. \A q \in Procs : pc[q] = "unlink" => pc'[q] = "unlink"
      BY <1>0, <2>1 DEF Reconcile, Launch, Goto, Done, Exit, Continue
    <3> QED BY <3>2, <3>3, RetryAside
  <2>2. CASE Capture(p)
    <3>1. CASE UNCHANGED handoff /\ Done(p)
      <4>1. UNCHANGED files /\ \A q \in Procs : pc[q] = "unlink" => pc'[q] = "unlink"
        BY <1>0, <2>2, <3>1 DEF Capture, Done, Exit, Goto, files
      <4> QED BY <4>1, RetryAside
    <3>2. CASE handoff'.transferId = st[p].lastTransferId + 1
               /\ handoff'.fromRole = st[p].currentRole
      <4>1. st[p] = workflow /\ UNCHANGED workflow
        BY <2>2 DEF Capture, FileInv, StepOK, HoldingState
      <4> QED BY <3>2, <4>1 DEF RetryInv
    <3> QED BY <2>2, <3>1, <3>2 DEF Capture
  <2>3. CASE Mark(p) \/ Unlink(p)
    <3>1. CASE Unlink(p)
      BY <3>1 DEF Unlink, Pending
    <3>2. CASE Mark(p)
      <4>1. pc'[p] = "advance"
        BY <1>0, <3>2 DEF Mark, Goto
      <4> QED BY <4>1 DEF FileInv, StepOK, Unapplied, Pending
    <3> QED BY <2>3, <3>1, <3>2
  <2>4. CASE AdvanceWorkflow(p)
    BY <2>4 DEF AdvanceWorkflow, FileInv, StepOK, Unapplied, Pending
  <2>5. CASE Wipe(p)
    BY <1>0, <2>5 DEF Wipe, Goto
  <2>6. CASE ~(Reconcile(p) \/ Launch(p) \/ Capture(p) \/ Mark(p) \/ Unlink(p)
               \/ AdvanceWorkflow(p) \/ Wipe(p))
    <3>1. /\ UNCHANGED files
          /\ pc[p] # "unlink" \/ Crash(p)
          /\ \A q \in Procs : q # p => pc'[q] = pc[q]
      BY <1>0, <1>1, <2>6 DEF Process, LockedStep, files, Invoke, Acquire, Inspect, Load,
         Paste, Submit, Focus, Create, Kill, TmuxFails, Check, Confirm, Crash, Goto, Done,
         Exit, Continue, ThenOrTimeout, UsesTmux
    <3>2. pc[p] # "unlink"
      BY <3>1 DEF Dies, BetweenFiles
    <3> QED BY <3>1, <3>2, RetryAside
  <2> QED BY <2>1, <2>2, <2>3, <2>4, <2>5, <2>6
<1>2. CASE Environment
  <2>1. UNCHANGED files /\ UNCHANGED pc
    BY <1>2 DEF Environment, SessionEnds, PaneDies, UserFocuses, OtherProject, procs, files
  <2> QED BY <2>1, RetryAside
<1> QED BY <1>1, <1>2 DEF Next

LEMMA RetryStep ==
    ASSUME FileInv, FileInv', RetryInv, [Next]_vars, [ReportNext]_allVars
    PROVE  RetryInv'
<1>1. ASSUME Watched(Next), NEW p \in Procs, Dies(p) PROVE RetryInv'
  <2>1. PICK q \in Procs : Dies(q) /\ cut' = pc[q]
    BY <1>1 DEF Watched
  <2>2. pc[q] = "unlink" \/ (Unapplied(workflow, handoff) /\ UNCHANGED files)
    BY <2>1 DEF Dies, BetweenFiles, Crash, FileInv, StepOK
  <2> QED BY <2>1, <2>2 DEF RetryInv, Unapplied, Pending, files
<1>2. ASSUME Watched(Next) \/ \E p \in Procs : Watched(Reconcile(p)) PROVE RetryInv'
  <2>1. Watched(Next) /\ Next
    BY <1>2 DEF Watched, Next, Process, LockedStep
  <2> QED BY <1>1, <2>1, RetryWatched
<1>3. CASE ReadHandoff \/ Examine \/ UNCHANGED allVars
  BY <1>3 DEF ReadHandoff, Examine, allVars, reportVars, vars, files, procs, RetryInv, Pending
<1> QED BY <1>2, <1>3 DEF ReportNext, Current

(* A pending handoff can always be delivered, but between the two files of *)
(* a reset, or after it died there and before anybody writes.              *)
THEOREM PendingRetriableTheorem == ReportSpec => []PendingRetriable
<1>1. ReportInit => RetryInv
  BY DEF ReportInit, Init, RetryInv, Pending
<1>2. FileInv /\ RetryInv => PendingRetriable
  <2> SUFFICES ASSUME FileInv, RetryInv, Pending, cut # "unlink",
                      \A p \in Procs : pc[p] # "unlink"
               PROVE  /\ handoff.fromRole = workflow.currentRole
                      /\ handoff.toRole = NextRole[workflow.currentRole]
                      /\ handoff.transferId = workflow.lastTransferId + 1
    BY DEF PendingRetriable
  <2>1. /\ handoff.fromRole = workflow.currentRole
        /\ handoff.transferId = workflow.lastTransferId + 1
    BY DEF RetryInv
  <2> QED BY <2>1 DEF FileInv, FilesOK, HandoffInv, Pending
<1>3. FileInv /\ FileInv' /\ RetryInv /\ [Next]_vars /\ [ReportNext]_allVars => RetryInv'
  BY RetryStep
<1> QED BY <1>1, <1>2, <1>3, FilesCorrect, ReportsOnlyRead, PTL DEF ReportSpec, Spec
=============================================================================
