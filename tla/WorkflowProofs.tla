--------------------------- MODULE WorkflowProofs ---------------------------
(***************************************************************************)
(* Theorems about Workflow, for every number of processes, every set of    *)
(* bodies and either layout.                                               *)
(*                                                                         *)
(* Three invariants, each resting on the one before: the types and the     *)
(* lock (TypeInv); what the two files say about each other and about the   *)
(* processes in between (FileInv); what has reached the panes (PaneInv).   *)
(***************************************************************************)
EXTENDS Workflow, TLAPS

\* A process in a service call knows which, and holds the lock past "lock".
CallInv ==
    \A p \in Procs :
        /\ pc[p] # "idle" => op[p] \in Calls
        /\ pc[p] \in Locked => lock = p
        /\ pc[p] \in HoldingState => st[p] \in WorkflowStates
        /\ pc[p] \in Delivering => hf[p] \in HandoffRecords

TypeInv == TypeOK /\ CallInv

\* The part of TypeInv about the processes, and the part about the rest.
ProcInv ==
    /\ lock \in Procs \cup {None}
    /\ pc \in [Procs -> Locked \cup Unlocked]
    /\ op \in [Procs -> Calls \cup {None}]
    /\ pane \in [Procs -> PaneArgs]
    /\ st \in [Procs -> WorkflowStates \cup {None}]
    /\ hf \in [Procs -> HandoffRecords \cup {None}]
    /\ CallInv

WorldOK ==
    /\ workflow \in WorkflowStates
    /\ handoff \in HandoffRecords \cup {None}
    /\ up \in BOOLEAN
    /\ endpoints \subseteq Roles
    /\ active \in Roles \cup {"other"}
    /\ draft \in [Roles -> SUBSET (Texts \cup {Foreign})]
    /\ inbox \in [Roles -> SUBSET (Texts \cup {Foreign})]
    /\ buffer \in Texts \cup {Foreign, None}

\* Every handoff on file goes from a role to the next one, with a decision that
\* role may take.
HandoffInv ==
    handoff # None =>
        /\ handoff.transferId > 0
        /\ handoff.toRole = NextRole[handoff.fromRole]
        /\ handoff.decision \in Allowed[handoff.fromRole]

\* The id of a pending handoff follows the workflow's, unless a reset was
\* interrupted after it had wiped the workflow.
PendingInv ==
    Pending => \/ handoff.transferId = workflow.lastTransferId + 1
               \/ workflow = InitialWorkflow

\* The two files as a reader finds them, and together.
FilesOK == HandoffInv /\ PendingInv /\ PendingIsNew /\ DeliveredIsApplied

\* What process p knows of the files while it is between two of its steps.
StepOK(p) ==
    /\ pc[p] \in HoldingState => st[p] = workflow
    /\ pc[p] \in {"load", "paste", "submit", "mark"} =>
            /\ Pending /\ hf[p] = handoff
            /\ handoff.fromRole = workflow.currentRole
    /\ pc[p] = "advance" => hf[p] = handoff /\ Unapplied(workflow, handoff)
    /\ pc[p] \in {"inspect", "capture", "create"} => Effective = workflow
    /\ pc[p] = "capture" => ~Pending
    /\ pc[p] = "unlink" => workflow = InitialWorkflow

FileInv == TypeInv /\ FilesOK /\ \A p \in Procs : StepOK(p)

\* How far the text of the delivery p is making has come.
TypingOK(p) ==
    /\ pc[p] = "paste" => buffer \in {None, Text(hf[p])}
    /\ pc[p] = "submit" /\ Target(p) \in endpoints => Text(hf[p]) \in draft[Target(p)]
    /\ pc[p] = "mark" /\ Target(p) \in endpoints => Text(hf[p]) \in inbox[Target(p)]

PaneInv == FileInv /\ TargetHasHandoff /\ \A p \in Procs : TypingOK(p)

USE NoneIsNothing, ConstantsOK
-----------------------------------------------------------------------------
(* The operators of Handoffs.                                              *)

\* The relay order and the digests stay within their types.
LEMMA NextRoleType ==
    /\ \A r \in Roles : NextRole[r] \in Roles
    /\ NextRole["pm"] = "developer"
    /\ NextRole["developer"] = "reviewer"
    /\ NextRole["reviewer"] = "pm"
BY DEF NextRole, Roles

LEMMA InitialType == InitialWorkflow \in WorkflowStates
BY DEF InitialWorkflow, WorkflowStates, Statuses, Roles

\* transition applied to a state and a handoff gives a state, whose last transfer,
\* turn and digest are the handoff's.
LEMMA AdvanceFacts ==
    ASSUME NEW state \in WorkflowStates, NEW h \in HandoffRecords
    PROVE  /\ Advance(state, h) \in WorkflowStates
           /\ Advance(state, h).lastTransferId = h.transferId
           /\ Advance(state, h).currentRole = NextRole[h.fromRole]
           /\ Advance(state, h).lastDigests[h.fromRole] = DigestOf(h)
<1>1. DigestOf(h) \in Digests
  BY DEF DigestOf, Digest, Digests, HandoffRecords
<1>2. StatusAfter(h.fromRole, h.decision) \in Statuses
  BY DEF StatusAfter, Statuses
<1>3. RoundAfter(state, h.fromRole) \in Nat
  BY DEF RoundAfter, WorkflowStates
<1>4. h.fromRole \in Roles /\ h.transferId \in Nat
  BY DEF HandoffRecords
<1>5. state.lastDigests \in [Roles -> Digests \cup {None}]
  BY DEF WorkflowStates
<1> QED
  BY <1>1, <1>2, <1>3, <1>4, <1>5, NextRoleType
  DEF Advance, transition, WorkflowStates

\* Reconciling gives a state that needs no further reconciling.
LEMMA ReconcileFacts ==
    ASSUME NEW state \in WorkflowStates, NEW h \in HandoffRecords \cup {None}
    PROVE  /\ reconcile_state(state, h) \in WorkflowStates
           /\ reconcile_state(reconcile_state(state, h), h) = reconcile_state(state, h)
<1>1. CASE Unapplied(state, h)
  <2>1. h \in HandoffRecords
    BY <1>1 DEF Unapplied
  <2>2. h.transferId \in Nat
    BY <2>1 DEF HandoffRecords
  <2>3. ~Unapplied(Advance(state, h), h)
    BY <2>1, <2>2, AdvanceFacts DEF Unapplied
  <2> QED
    BY <1>1, <2>1, <2>3, AdvanceFacts DEF reconcile_state
<1>2. CASE ~Unapplied(state, h)
  BY <1>2 DEF reconcile_state
<1> QED
  BY <1>1, <1>2

\* A handoff that is pending stays well formed when it is marked delivered.
LEMMA DeliveredType ==
    ASSUME NEW h \in HandoffRecords
    PROVE  /\ [h EXCEPT !.delivery = "delivered"] \in HandoffRecords
           /\ [h EXCEPT !.delivery = "delivered"].delivery = "delivered"
           /\ Text([h EXCEPT !.delivery = "delivered"]) = Text(h)
           /\ DigestOf([h EXCEPT !.delivery = "delivered"]) = DigestOf(h)
BY DEF HandoffRecords, Delivery, Text, DigestOf, Digest

LEMMA TextType ==
    ASSUME NEW h \in HandoffRecords
    PROVE  Text(h) \in Texts
BY DEF HandoffRecords, Text, Texts

-----------------------------------------------------------------------------
(* Processes: where a step leaves pc, the lock and the locals.             *)

LEMMA TypeParts == (TypeInv <=> ProcInv /\ WorldOK) /\ (TypeInv' <=> (ProcInv /\ WorldOK)')
BY DEF TypeInv, TypeOK, ProcInv, WorldOK

\* How the sets of labels lie to each other.
LEMMA LabelFacts ==
    /\ "idle" \in Unlocked /\ "lock" \in Unlocked /\ "check" \in Unlocked
    /\ "confirm" \in Unlocked
    /\ \A l \in Unlocked : l \notin Locked
    /\ HoldingState \subseteq Locked
    /\ Delivering \subseteq Locked
    /\ UsesTmux \subseteq Locked
    /\ FirstStep \in [Calls -> Locked \ (HoldingState \cup Delivering)]
BY DEF Unlocked, Locked, HoldingState, Delivering, UsesTmux, FirstStep, Calls, AllCommands

\* Under the lock, from one label to the next.
LEMMA MoveStep ==
    ASSUME ProcInv, NEW p \in Procs, pc[p] \in Locked, NEW l \in Locked,
           Goto(p, l), Stay,
           st' \in [Procs -> WorkflowStates \cup {None}],
           hf' \in [Procs -> HandoffRecords \cup {None}],
           \A q \in Procs : q # p => st'[q] = st[q] /\ hf'[q] = hf[q],
           l \in HoldingState => st'[p] \in WorkflowStates,
           l \in Delivering => hf'[p] \in HandoffRecords
    PROVE  ProcInv'
<1>1. pc' \in [Procs -> Locked \cup Unlocked] /\ pc'[p] = l
  BY DEF ProcInv, Goto
<1>2. \A q \in Procs : q # p => pc'[q] = pc[q]
  BY DEF ProcInv, Goto
<1>3. pc[p] # "idle"
  BY LabelFacts
<1>4. CallInv'
  BY <1>1, <1>2, <1>3 DEF ProcInv, CallInv, Stay
<1> QED
  BY <1>1, <1>4 DEF ProcInv, Stay

\* Out of the service call, to the end of the process or to an unlocked label.
LEMMA LeaveStep ==
    ASSUME ProcInv, NEW p \in Procs, NEW l \in Unlocked,
           lock' = None \/ lock' = lock, pc[p] \in Locked => lock' = None,
           lock' = None => pc[p] \in Locked \/ lock = None,
           Goto(p, l), Forgets(p),
           op' \in [Procs -> Calls \cup {None}],
           pane' \in [Procs -> PaneArgs],
           \A q \in Procs : q # p => op'[q] = op[q],
           l # "idle" => op'[p] \in Calls
    PROVE  ProcInv'
<1>1. pc' \in [Procs -> Locked \cup Unlocked] /\ pc'[p] = l
  BY DEF ProcInv, Goto
<1>2. \A q \in Procs : q # p => pc'[q] = pc[q] /\ st'[q] = st[q] /\ hf'[q] = hf[q]
  BY DEF ProcInv, Goto, Forgets
<1>3. l \notin Locked /\ l \notin HoldingState /\ l \notin Delivering
  BY LabelFacts
<1>4. \A q \in Procs : q # p /\ pc[q] \in Locked => lock' = q
  BY NoneIsNothing DEF ProcInv, CallInv, ConstantsAssumption
<1>5. CallInv'
  BY <1>1, <1>2, <1>3, <1>4 DEF ProcInv, CallInv
<1> QED
  BY <1>1, <1>5 DEF ProcInv, Forgets

LEMMA DoneStep ==
    ASSUME ProcInv, NEW p \in Procs, pc[p] \in Locked, Done(p)
    PROVE  ProcInv'
BY LeaveStep, LabelFacts DEF Done, Exit, ProcInv, PaneArgs

LEMMA ContinueStep ==
    ASSUME ProcInv, NEW p \in Procs, pc[p] \in Locked, NEW l \in Unlocked,
           NEW c \in Calls, Continue(p, l, c)
    PROVE  ProcInv'
BY LeaveStep DEF Continue, ProcInv

LEMMA ExitStep ==
    ASSUME ProcInv, NEW p \in Procs, pc[p] \in Unlocked, Exit(p), UNCHANGED lock
    PROVE  ProcInv'
BY LeaveStep, LabelFacts DEF Exit, ProcInv, PaneArgs
\* With an unchanged or timed-out command the process is still well typed.
LEMMA TimeoutStep ==
    ASSUME ProcInv, NEW p \in Procs, pc[p] \in Delivering,
           NEW l \in Delivering, ThenOrTimeout(p, l),
           l \in HoldingState => pc[p] \in HoldingState
    PROVE  ProcInv'
<1>1. pc[p] \in Locked /\ l \in Locked
  BY LabelFacts
<1>2. CASE Done(p)
  BY <1>1, <1>2, DoneStep
<1>3. CASE Goto(p, l) /\ Stay /\ UNCHANGED <<st, hf>>
  <2>1. hf'[p] \in HandoffRecords /\ (l \in HoldingState => st'[p] \in WorkflowStates)
    BY <1>3 DEF ProcInv, CallInv
  <2> QED
    BY <1>1, <1>3, <2>1, MoveStep DEF ProcInv
<1> QED
  BY <1>2, <1>3 DEF ThenOrTimeout

-----------------------------------------------------------------------------
(* Types and the lock, action by action.                                   *)

LEMMA InitType == Init => TypeInv
BY InitialType
DEF Init, TypeInv, TypeOK, CallInv, Locked, Unlocked, Delivering, HoldingState,
    PaneArgs

LEMMA StartingType ==
    ASSUME TypeInv, NEW p \in Procs
    PROVE  /\ \A command \in Commands, arg \in PaneArgs :
                    Invoke(p, command, arg) => TypeInv'
           /\ Acquire(p) => TypeInv'
           /\ Check(p) => TypeInv'
           /\ Confirm(p) => TypeInv'
           /\ Crash(p) => TypeInv'
<1> USE TypeParts DEF files, session, panes
<1>1. ASSUME NEW command \in Commands, NEW arg \in PaneArgs, Invoke(p, command, arg)
      PROVE  TypeInv'
  <2>1. WorldOK'
    BY <1>1 DEF Invoke, WorldOK
  <2>2. command \in Calls
    BY ConstantsOK DEF ConstantsAssumption, Calls
  <2>3. \A l : Goto(p, l) /\ l \in {"check", "lock"} => ProcInv'
    <3> SUFFICES ASSUME NEW l \in {"check", "lock"}, Goto(p, l) PROVE ProcInv'
      OBVIOUS
    <3>1. l \in Unlocked /\ l \notin Locked /\ l \notin HoldingState /\ l \notin Delivering
      BY LabelFacts
    <3>2. pc' \in [Procs -> Locked \cup Unlocked] /\ pc'[p] = l
          /\ \A q \in Procs : q # p => pc'[q] = pc[q] /\ op'[q] = op[q]
      BY <1>1, <3>1 DEF Goto, ProcInv, Invoke
    <3>3. CallInv'
      BY <1>1, <2>2, <3>1, <3>2 DEF CallInv, ProcInv, Invoke
    <3> QED
      BY <1>1, <2>2, <3>2, <3>3 DEF ProcInv, Invoke
  <2> QED
    BY <1>1, <2>1, <2>3 DEF Invoke
<1>2. ASSUME Acquire(p) PROVE TypeInv'
  <2>1. WorldOK'
    BY <1>2 DEF Acquire, WorldOK
  <2>2. op[p] \in Calls
    BY <1>2 DEF Acquire, ProcInv, CallInv
  <2>3. PICK l \in Locked : l = FirstStep[op[p]] /\ l \notin HoldingState /\ l \notin Delivering
    BY <2>2, LabelFacts
  <2>4. pc' \in [Procs -> Locked \cup Unlocked] /\ pc'[p] = l
        /\ \A q \in Procs : q # p => pc'[q] = pc[q]
    BY <1>2, <2>3 DEF Goto, ProcInv, Acquire
  <2>5. \A q \in Procs : pc[q] \notin Locked
    BY <1>2, ConstantsOK DEF Acquire, ProcInv, CallInv, ConstantsAssumption
  <2>6. CallInv'
    BY <1>2, <2>2, <2>3, <2>4, <2>5, LabelFacts DEF CallInv, ProcInv, Acquire
  <2> QED
    BY <1>2, <2>1, <2>4, <2>6 DEF ProcInv, Acquire
<1>3. ASSUME Check(p) PROVE TypeInv'
  <2>1. WorldOK'
    BY <1>3 DEF Check, WorldOK
  <2>2. pc[p] \in Unlocked /\ pc[p] # "idle" /\ pc[p] \notin Locked
    BY <1>3, LabelFacts DEF Check
  <2>3. ASSUME Goto(p, "lock"), UNCHANGED <<lock, op, pane, st, hf>> PROVE ProcInv'
    <3>1. pc' \in [Procs -> Locked \cup Unlocked] /\ pc'[p] = "lock"
          /\ \A q \in Procs : q # p => pc'[q] = pc[q]
      BY <2>3, LabelFacts DEF Goto, ProcInv
    <3>2. "lock" \notin Locked /\ "lock" \notin HoldingState /\ "lock" \notin Delivering
      BY LabelFacts
    <3>3. CallInv'
      BY <2>2, <2>3, <3>1, <3>2 DEF CallInv, ProcInv
    <3> QED
      BY <2>3, <3>1, <3>3 DEF ProcInv
  <2> QED
    BY <1>3, <2>1, <2>2, <2>3, ExitStep DEF Check
<1>4. ASSUME Confirm(p) PROVE TypeInv'
  <2>1. WorldOK'
    BY <1>4 DEF Confirm, WorldOK
  <2>2. pc[p] \in Unlocked /\ pc[p] \notin Locked
    BY <1>4, LabelFacts DEF Confirm
  <2>3. ASSUME Goto(p, "lock"), op' = [op EXCEPT ![p] = "reset"],
               UNCHANGED <<lock, pane, st, hf>>
        PROVE  ProcInv'
    <3>1. pc' \in [Procs -> Locked \cup Unlocked] /\ pc'[p] = "lock"
          /\ \A q \in Procs : q # p => pc'[q] = pc[q]
      BY <2>3, LabelFacts DEF Goto, ProcInv
    <3>2. "lock" \notin Locked /\ "lock" \notin HoldingState /\ "lock" \notin Delivering
          /\ "reset" \in Calls
      BY LabelFacts DEF Calls
    <3>3. op' \in [Procs -> Calls \cup {None}] /\ op'[p] = "reset"
          /\ \A q \in Procs : q # p => op'[q] = op[q]
      BY <2>3, <3>2 DEF ProcInv
    <3>4. CallInv'
      BY <2>2, <2>3, <3>1, <3>2, <3>3 DEF CallInv, ProcInv
    <3> QED
      BY <2>3, <3>1, <3>3, <3>4 DEF ProcInv
  <2> QED
    BY <1>4, <2>1, <2>2, <2>3, ExitStep DEF Confirm
<1>5. ASSUME Crash(p) PROVE TypeInv'
  <2>1. WorldOK'
    BY <1>5 DEF Crash, WorldOK
  <2>2. CASE pc[p] \in Locked
    BY <1>5, <2>1, <2>2, DoneStep DEF Crash, Done, ProcInv, CallInv
  <2>3. CASE pc[p] \in Unlocked
    <3>1. lock' = None \/ lock' = lock
      BY <1>5 DEF Crash
    <3>2. \A q \in Procs : pc[q] \in Locked => q # p
      BY <2>3, LabelFacts
    <3>3. pc' \in [Procs -> Locked \cup Unlocked] /\ pc'[p] = "idle"
          /\ \A q \in Procs : q # p => pc'[q] = pc[q] /\ op'[q] = op[q]
                                       /\ st'[q] = st[q] /\ hf'[q] = hf[q]
      BY <1>5, LabelFacts DEF Crash, Exit, Forgets, Goto, ProcInv
    <3>4. "idle" \notin Locked /\ "idle" \notin HoldingState /\ "idle" \notin Delivering
      BY LabelFacts
    <3>5. CallInv'
      BY <1>5, <3>2, <3>3, <3>4 DEF CallInv, ProcInv, Crash
    <3> QED
      BY <1>5, <2>1, <3>1, <3>3, <3>5 DEF ProcInv, Crash, Exit, Forgets, PaneArgs
  <2> QED
    BY <2>2, <2>3 DEF ProcInv
<1> QED
  BY <1>1, <1>2, <1>3, <1>4, <1>5
LEMMA NextCallType ==
    ASSUME TypeInv, NEW p \in Procs
    PROVE  /\ Reconcile(p) => TypeInv'
           /\ Inspect(p) => TypeInv'
           /\ Capture(p) => TypeInv'
<1> USE TypeParts DEF files, session, panes
<1>1. ASSUME Reconcile(p) PROVE TypeInv'
  <2>1. workflow' \in WorkflowStates
    BY <1>1, ReconcileFacts DEF Reconcile, WorldOK
  <2>2. WorldOK'
    BY <1>1, <2>1 DEF Reconcile, WorldOK
  <2>3. pc[p] \in Locked /\ "inspect" \in Locked /\ "inspect" \notin Delivering
        /\ "confirm" \in Unlocked /\ "fresh" \in Calls
    BY <1>1 DEF Reconcile, Locked, Delivering, Unlocked, Calls, AllCommands
  <2>4. CASE /\ Goto(p, "inspect") /\ Stay /\ UNCHANGED hf
             /\ st' = [st EXCEPT ![p] = workflow']
    <3>1. /\ st' \in [Procs -> WorkflowStates \cup {None}]
          /\ st'[p] \in WorkflowStates
          /\ \A q \in Procs : q # p => st'[q] = st[q]
      BY <2>1, <2>4 DEF ProcInv
    <3> QED
      BY <2>2, <2>3, <2>4, <3>1, MoveStep DEF ProcInv
  <2> QED
    BY <1>1, <2>2, <2>3, <2>4, DoneStep, ContinueStep DEF Reconcile
<1>2. ASSUME Inspect(p) PROVE TypeInv'
  <2>1. WorldOK'
    BY <1>2 DEF Inspect, WorldOK
  <2>2. /\ pc[p] \in Locked /\ pc[p] \in HoldingState
        /\ "load" \in Locked /\ "capture" \in Locked /\ "capture" \notin Delivering
    BY <1>2 DEF Inspect, Locked, Delivering, HoldingState
  <2>3. st[p] \in WorkflowStates
    BY <2>2 DEF ProcInv, CallInv
  <2>4. CASE /\ Pending /\ Goto(p, "load") /\ Stay /\ UNCHANGED st
             /\ hf' = [hf EXCEPT ![p] = handoff]
    <3>1. handoff \in HandoffRecords
      BY <2>4 DEF WorldOK, Pending
    <3>2. /\ hf' \in [Procs -> HandoffRecords \cup {None}]
          /\ hf'[p] \in HandoffRecords
          /\ \A q \in Procs : q # p => hf'[q] = hf[q]
      BY <2>4, <3>1 DEF ProcInv
    <3> QED
      BY <2>1, <2>2, <2>3, <2>4, <3>2, MoveStep DEF ProcInv
  <2>5. CASE ~Pending /\ Goto(p, "capture") /\ Stay /\ UNCHANGED <<st, hf>>
    BY <2>1, <2>2, <2>3, <2>5, MoveStep DEF ProcInv
  <2> QED
    BY <1>2, <2>1, <2>2, <2>4, <2>5, DoneStep DEF Inspect
<1>3. ASSUME Capture(p) PROVE TypeInv'
  <2>1. /\ pc[p] \in Locked /\ pc[p] \in HoldingState /\ "load" \in Locked
    BY <1>3 DEF Capture, Locked, HoldingState, Delivering
  <2>2. st[p] \in WorkflowStates
    BY <2>1 DEF ProcInv, CallInv
  <2>3. PICK out \in Outputs :
            \/ /\ Fresh(p, out)
               /\ handoff' =
                    [transferId |-> st[p].lastTransferId + 1,
                     fromRole   |-> st[p].currentRole,
                     toRole     |-> NextRole[st[p].currentRole],
                     decision   |-> out.decision,
                     delivery   |-> "pending",
                     body       |-> out.body]
               /\ hf' = [hf EXCEPT ![p] = handoff']
               /\ Goto(p, "load")
               /\ Stay /\ UNCHANGED st
            \/ ~Fresh(p, out) /\ Done(p) /\ UNCHANGED handoff
    BY <1>3 DEF Capture
  <2>4. CASE Fresh(p, out) /\ ~Done(p)
    <3>1. out.decision \in Decisions /\ out.body \in Bodies
      BY <2>4 DEF Fresh, Parses, Outputs
    <3>2. handoff' \in HandoffRecords
      BY <2>2, <2>3, <2>4, <3>1, NextRoleType DEF WorkflowStates, HandoffRecords, Delivery
    <3>3. /\ hf' \in [Procs -> HandoffRecords \cup {None}]
          /\ hf'[p] \in HandoffRecords
          /\ \A q \in Procs : q # p => hf'[q] = hf[q]
      BY <2>3, <2>4, <3>2 DEF ProcInv
    <3>4. WorldOK'
      BY <1>3, <3>2 DEF Capture, WorldOK
    <3> QED
      BY <2>1, <2>2, <2>3, <2>4, <3>3, <3>4, MoveStep DEF ProcInv
  <2>5. CASE ~Fresh(p, out)
    BY <1>3, <2>1, <2>3, <2>5, DoneStep DEF Capture, WorldOK
  <2>6. CASE Fresh(p, out) /\ Done(p)
    <3>1. out.decision \in Decisions /\ out.body \in Bodies
      BY <2>6 DEF Fresh, Parses, Outputs
    <3>2. handoff' \in HandoffRecords
      BY <2>2, <2>3, <2>6, <3>1, NextRoleType DEF WorkflowStates, HandoffRecords, Delivery
    <3> QED
      BY <1>3, <2>1, <2>6, <3>2, DoneStep DEF Capture, WorldOK
  <2> QED
    BY <2>4, <2>5, <2>6
<1> QED
  BY <1>1, <1>2, <1>3

LEMMA DeliverType ==
    ASSUME TypeInv, NEW p \in Procs
    PROVE  /\ Load(p) => TypeInv'
           /\ Paste(p) => TypeInv'
           /\ Submit(p) => TypeInv'
           /\ Mark(p) => TypeInv'
           /\ AdvanceWorkflow(p) => TypeInv'
           /\ Focus(p) => TypeInv'
<1> USE TypeParts DEF files, session, panes
<1>1. ASSUME pc[p] \in Delivering
      PROVE  /\ pc[p] \in Locked
             /\ hf[p] \in HandoffRecords /\ Target(p) \in Roles
             /\ Text(hf[p]) \in Texts
  BY <1>1, LabelFacts, TextType DEF ProcInv, CallInv, Target, HandoffRecords
<1>2. ASSUME Load(p) PROVE TypeInv'
  <2>1. pc[p] \in Delivering /\ pc[p] \in HoldingState /\ "paste" \in Delivering
    BY <1>2 DEF Load, Delivering, HoldingState
  <2>2. WorldOK'
    BY <1>1, <1>2, <2>1 DEF Load, WorldOK
  <2> QED
    BY <1>1, <1>2, <2>1, <2>2, TimeoutStep, DoneStep DEF Load
<1>3. ASSUME Paste(p) PROVE TypeInv'
  <2>1. pc[p] \in Delivering /\ pc[p] \in HoldingState /\ "submit" \in Delivering
    BY <1>3 DEF Paste, Delivering, HoldingState
  <2>2. WorldOK'
    BY <1>1, <1>3, <2>1 DEF Paste, CanPaste, WorldOK
  <2> QED
    BY <1>1, <1>3, <2>1, <2>2, TimeoutStep, DoneStep DEF Paste
<1>4. ASSUME Submit(p) PROVE TypeInv'
  <2>1. pc[p] \in Delivering /\ pc[p] \in HoldingState /\ "mark" \in Delivering
    BY <1>4 DEF Submit, Delivering, HoldingState
  <2>2. WorldOK'
    BY <1>1, <1>4, <2>1 DEF Submit, WorldOK
  <2> QED
    BY <1>1, <1>4, <2>1, <2>2, TimeoutStep, DoneStep DEF Submit
<1>5. ASSUME Mark(p) PROVE TypeInv'
  <2>1. pc[p] \in Delivering /\ pc[p] \in HoldingState /\ "advance" \in Locked
    BY <1>5 DEF Mark, Delivering, HoldingState, Locked
  <2>2. handoff' \in HandoffRecords
    BY <1>1, <1>5, <2>1, DeliveredType DEF Mark
  <2>3. WorldOK'
    BY <1>5, <2>2 DEF Mark, WorldOK
  <2>4. /\ hf' \in [Procs -> HandoffRecords \cup {None}]
        /\ hf'[p] \in HandoffRecords
        /\ \A q \in Procs : q # p => hf'[q] = hf[q]
    BY <1>5, <2>2 DEF Mark, ProcInv
  <2>5. st[p] \in WorkflowStates
    BY <2>1 DEF ProcInv, CallInv
  <2> QED
    BY <1>1, <1>5, <2>1, <2>3, <2>4, <2>5, MoveStep DEF Mark, ProcInv
<1>6. ASSUME AdvanceWorkflow(p) PROVE TypeInv'
  <2>1. /\ pc[p] \in Delivering /\ pc[p] \in HoldingState
        /\ "focus" \in Locked /\ "focus" \notin HoldingState
    BY <1>6 DEF AdvanceWorkflow, Delivering, HoldingState, Locked
  <2>2. st[p] \in WorkflowStates
    BY <2>1 DEF ProcInv, CallInv
  <2>3. WorldOK'
    BY <1>1, <1>6, <2>1, <2>2, AdvanceFacts DEF AdvanceWorkflow, WorldOK
  <2> QED
    BY <1>1, <1>6, <2>1, <2>3, MoveStep DEF AdvanceWorkflow, ProcInv
<1>7. ASSUME Focus(p) PROVE TypeInv'
  <2>1. pc[p] \in Delivering
    BY <1>7 DEF Focus, Delivering
  <2>2. WorldOK'
    BY <1>1, <1>7, <2>1 DEF Focus, WorldOK
  <2> QED
    BY <1>1, <1>7, <2>1, <2>2, DoneStep DEF Focus
<1> QED
  BY <1>2, <1>3, <1>4, <1>5, <1>6, <1>7
LEMMA LifecycleType ==
    ASSUME TypeInv, NEW p \in Procs
    PROVE  /\ Wipe(p) => TypeInv'
           /\ Unlink(p) => TypeInv'
           /\ Launch(p) => TypeInv'
           /\ Create(p) => TypeInv'
           /\ Kill(p) => TypeInv'
           /\ TmuxFails(p) => TypeInv'
<1> USE TypeParts DEF files, session, panes
<1>1. ASSUME Wipe(p) PROVE TypeInv'
  <2>1. /\ pc[p] \in Locked /\ "unlink" \in Locked
        /\ "unlink" \notin HoldingState /\ "unlink" \notin Delivering
    BY <1>1 DEF Wipe, Locked, HoldingState, Delivering
  <2>2. WorldOK'
    BY <1>1, InitialType DEF Wipe, WorldOK
  <2> QED
    BY <1>1, <2>1, <2>2, MoveStep DEF Wipe, ProcInv
<1>2. ASSUME Unlink(p) PROVE TypeInv'
  <2>1. pc[p] \in Locked /\ "lock" \in Unlocked /\ "start" \in Calls
    BY <1>2 DEF Unlink, Locked, Unlocked, Calls, AllCommands
  <2>2. WorldOK'
    BY <1>2 DEF Unlink, WorldOK
  <2> QED
    BY <1>2, <2>1, <2>2, ContinueStep DEF Unlink
<1>3. ASSUME Launch(p) PROVE TypeInv'
  <2>1. /\ pc[p] \in Locked /\ "create" \in Locked
        /\ "create" \notin HoldingState /\ "create" \notin Delivering
    BY <1>3 DEF Launch, Locked, HoldingState, Delivering
  <2>2. WorldOK'
    BY <1>3, ReconcileFacts DEF Launch, WorldOK
  <2> QED
    BY <1>3, <2>1, <2>2, MoveStep, DoneStep DEF Launch, ProcInv
<1>4. ASSUME Create(p) PROVE TypeInv'
  <2>1. pc[p] \in Locked
    BY <1>4 DEF Create, Locked
  <2>2. endpoints' \subseteq Roles /\ active' \in Roles \cup {"other"}
    BY <1>4 DEF Create, Prefixes, Roles
  <2>3. \A r \in Roles : Brief(r) \subseteq Texts
    BY TextType DEF Brief, WorldOK
  <2>4. inbox' \in [Roles -> SUBSET (Texts \cup {Foreign})]
    BY <1>4, <2>3 DEF Create
  <2>5. draft' \in [Roles -> SUBSET (Texts \cup {Foreign})]
    BY <1>4 DEF Create
  <2>6. WorldOK'
    BY <1>4, <2>2, <2>4, <2>5 DEF Create, WorldOK
  <2> QED
    BY <1>4, <2>1, <2>6, DoneStep DEF Create
<1>5. ASSUME Kill(p) PROVE TypeInv'
  <2>1. pc[p] \in Locked
    BY <1>5 DEF Kill, Locked
  <2>2. WorldOK'
    BY <1>5 DEF Kill, SessionGone, WorldOK
  <2> QED
    BY <1>5, <2>1, <2>2, DoneStep DEF Kill
<1>6. ASSUME TmuxFails(p) PROVE TypeInv'
  <2>1. pc[p] \in Locked
    BY <1>6, LabelFacts DEF TmuxFails
  <2>2. WorldOK'
    BY <1>6 DEF TmuxFails, WorldOK
  <2> QED
    BY <1>6, <2>1, <2>2, DoneStep DEF TmuxFails
<1> QED
  BY <1>1, <1>2, <1>3, <1>4, <1>5, <1>6

LEMMA EnvironmentType ==
    ASSUME TypeInv, Environment
    PROVE  TypeInv'
<1> USE TypeParts DEF files, procs, session, panes
<1>1. ProcInv'
  BY DEF Environment, SessionEnds, PaneDies, UserFocuses, OtherProject, ProcInv, CallInv
<1>2. WorldOK'
  BY DEF Environment, SessionEnds, SessionGone, PaneDies, UserFocuses, OtherProject,
         WorldOK
<1> QED
  BY <1>1, <1>2

LEMMA TypeStep == TypeInv /\ [Next]_vars => TypeInv'
<1> SUFFICES ASSUME TypeInv, [Next]_vars PROVE TypeInv'
  OBVIOUS
<1>1. ASSUME NEW p \in Procs, Process(p) PROVE TypeInv'
  BY <1>1, StartingType, NextCallType, DeliverType, LifecycleType
  DEF Process, LockedStep
<1>2. CASE Environment
  BY <1>2, EnvironmentType
<1>3. CASE UNCHANGED vars
  BY <1>3, TypeParts DEF vars, files, procs, session, panes, ProcInv, CallInv, WorldOK
<1> QED
  BY <1>1, <1>2, <1>3 DEF Next

\* Every variable keeps its type: in particular nothing but a complete handoff ever
\* reaches handoff.json, and ids and rounds stay natural numbers.
THEOREM TypeCorrect == Spec => []TypeOK
<1>1. TypeInv => TypeOK
  BY DEF TypeInv
<1> QED
  BY <1>1, InitType, TypeStep, PTL DEF Spec

\* The lock is never left behind: its holder is inside a service call.
THEOREM LockHasWorkerTheorem == Spec => []LockHasWorker
<1>1. Init => LockHasWorker
  BY DEF Init, LockHasWorker
<1>2. ASSUME TypeInv, LockHasWorker, [Next]_vars PROVE LockHasWorker'
  <2>0. pc \in [Procs -> Locked \cup Unlocked] /\ lock \in Procs \cup {None}
    BY <1>2 DEF TypeInv, TypeOK
  <2>1. ASSUME NEW p \in Procs, NEW l \in Locked, Goto(p, l), lock' \in {lock, p, None}
        PROVE  LockHasWorker'
    BY <1>2, <2>0, <2>1 DEF LockHasWorker, Goto
  <2>2. ASSUME lock' = None PROVE LockHasWorker'
    BY <2>2 DEF LockHasWorker
  <2>3. ASSUME NEW p \in Procs, NEW l, Goto(p, l), lock' = lock, lock # p
        PROVE  LockHasWorker'
    BY <1>2, <2>0, <2>3 DEF LockHasWorker, Goto
  <2>4. ASSUME NEW p \in Procs, LockedStep(p) PROVE LockHasWorker'
    <3>1. ~(lock' = None) => lock' = lock /\ \E l \in Locked : Goto(p, l)
      BY <2>4
      DEF LockedStep, Reconcile, Inspect, Capture, Load, Paste, Submit, Mark,
          AdvanceWorkflow, Focus, Wipe, Unlink, Launch, Create, Kill, TmuxFails,
          ThenOrTimeout, Done, Continue, Stay, Locked, Delivering
    <3> QED
      BY <2>1, <2>2, <3>1
  <2>5. ASSUME NEW p \in Procs, Process(p), ~LockedStep(p) PROVE LockHasWorker'
    <3>1. CASE Acquire(p)
      <4>1. FirstStep[op[p]] \in Locked
        BY <1>2, <3>1, LabelFacts DEF Acquire, TypeInv, CallInv
      <4> QED
        BY <2>1, <3>1, <4>1 DEF Acquire
    <3>2. CASE Check(p) \/ Confirm(p) \/ \E c \in Commands, a \in PaneArgs : Invoke(p, c, a)
      <4>1. lock' = lock /\ \E l : Goto(p, l)
        BY <3>2 DEF Check, Confirm, Invoke, Exit
      <4>2. pc[p] \notin Locked
        BY <3>2, LabelFacts DEF Check, Confirm, Invoke
      <4>3. lock # p
        BY <1>2, <4>2 DEF LockHasWorker, ConstantsAssumption
      <4> QED
        BY <2>3, <4>1, <4>3
    <3>3. CASE Crash(p)
      BY <2>2, <2>3, <3>3 DEF Crash, Exit
    <3> QED
      BY <2>5, <3>1, <3>2, <3>3 DEF Process
  <2>6. CASE Environment \/ UNCHANGED vars
    BY <1>2, <2>6
    DEF Environment, SessionEnds, PaneDies, UserFocuses, OtherProject, vars, procs,
        LockHasWorker
  <2> QED
    BY <1>2, <2>4, <2>5, <2>6 DEF Next
<1> QED
  BY <1>1, <1>2, InitType, TypeStep, PTL DEF Spec
-----------------------------------------------------------------------------
(* The two files and the processes between them.                           *)

LEMMA InitFiles == Init => FileInv
<1> SUFFICES ASSUME Init PROVE FileInv
  OBVIOUS
<1>1. FilesOK
  BY DEF Init, FilesOK, HandoffInv, PendingInv, PendingIsNew, DeliveredIsApplied, Pending
<1>2. \A p \in Procs : StepOK(p)
  BY DEF Init, StepOK, HoldingState
<1> QED
  BY <1>1, <1>2, InitType DEF FileInv

LEMMA FilesUnchanged ==
    ASSUME FilesOK, UNCHANGED files
    PROVE  FilesOK'
BY DEF FilesOK, files, HandoffInv, PendingInv, PendingIsNew, DeliveredIsApplied,
       Pending, Effective

\* The labels at which StepOK says something are all under the lock.
LEMMA StepLabels ==
    {"load", "paste", "submit", "mark", "advance", "inspect", "capture", "create", "unlink"}
        \cup HoldingState \subseteq Locked
BY DEF Locked, HoldingState, Delivering

\* Once nobody holds the lock no process relies on what it read.
LEMMA NobodyInside ==
    ASSUME TypeInv', FilesOK', lock' = None
    PROVE  FileInv'
<1>1. \A q \in Procs : pc'[q] \notin Locked
  BY ConstantsOK DEF TypeInv, CallInv, ConstantsAssumption
<1>2. \A q \in Procs : StepOK(q)'
  BY <1>1, StepLabels DEF StepOK
<1> QED
  BY <1>2 DEF FileInv

\* While p holds the lock only p can rely on what it read.
LEMMA OnlyInside ==
    ASSUME TypeInv', FilesOK', NEW p \in Procs, lock' = p, StepOK(p)'
    PROVE  FileInv'
<1>1. \A q \in Procs : q # p => pc'[q] \notin Locked
  BY DEF TypeInv, CallInv
<1>2. \A q \in Procs : StepOK(q)'
  BY <1>1, StepLabels DEF StepOK
<1> QED
  BY <1>2 DEF FileInv

\* A step that leaves the files and the processes inside their calls alone.
LEMMA FilesAside ==
    ASSUME FileInv, TypeInv', UNCHANGED files,
           \A q \in Procs : pc'[q] \in Locked =>
               pc'[q] = pc[q] /\ st'[q] = st[q] /\ hf'[q] = hf[q]
    PROVE  FileInv'
<1>1. FilesOK'
  BY FilesUnchanged DEF FileInv
<1>2. ASSUME NEW q \in Procs PROVE StepOK(q)'
  <2>1. CASE pc'[q] \in Locked
    BY <2>1 DEF FileInv, StepOK, files, Pending, Effective
  <2>2. CASE pc'[q] \notin Locked
    BY <2>2, StepLabels DEF StepOK
  <2> QED
    BY <2>1, <2>2
<1> QED
  BY <1>1, <1>2 DEF FileInv

\* Releasing the lock over unchanged files.
LEMMA DoneFiles ==
    ASSUME FileInv, TypeInv', UNCHANGED files, lock' = None
    PROVE  FileInv'
BY FilesUnchanged, NobodyInside DEF FileInv

\* The holder of the lock, and what it may still be doing, is known.
LEMMA Holder ==
    ASSUME TypeInv, NEW p \in Procs, pc[p] \in Locked
    PROVE  lock = p
BY DEF TypeInv, CallInv

\* Reconciling the workflow file is invisible to a reader who reconciles.
LEMMA ReconcileFiles ==
    ASSUME FileInv, workflow' = Effective, UNCHANGED handoff
    PROVE  FilesOK' /\ Effective' = Effective /\ Effective' = workflow'
<1>1. workflow \in WorkflowStates /\ handoff \in HandoffRecords \cup {None}
  BY DEF FileInv, TypeInv, TypeOK
<1>2. Effective' = Effective /\ Effective' = workflow'
  BY <1>1, ReconcileFacts DEF Effective
<1>3. Pending => workflow' = workflow
  BY DEF Pending, Effective, reconcile_state, Unapplied
<1> QED
  BY <1>2, <1>3
  DEF FileInv, FilesOK, HandoffInv, PendingInv, PendingIsNew, DeliveredIsApplied, Pending

LEMMA OutsideFiles ==
    ASSUME FileInv, TypeInv', NEW p \in Procs
    PROVE  /\ \A command \in Commands, arg \in PaneArgs :
                    Invoke(p, command, arg) => FileInv'
           /\ Acquire(p) => FileInv'
           /\ Check(p) => FileInv'
           /\ Confirm(p) => FileInv'
           /\ Crash(p) => FileInv'
           /\ TmuxFails(p) => FileInv'
           /\ Kill(p) => FileInv'
           /\ Create(p) => FileInv'
           /\ Focus(p) => FileInv'
<1>1. \A q \in Procs : pc[q] \in Locked \cup Unlocked
  BY DEF FileInv, TypeInv, TypeOK
<1>2. pc \in [Procs -> Locked \cup Unlocked] /\ st \in [Procs -> WorkflowStates \cup {None}]
      /\ hf \in [Procs -> HandoffRecords \cup {None}]
  BY DEF FileInv, TypeInv, TypeOK
<1>3. ASSUME NEW l \in Unlocked, Goto(p, l), UNCHANGED files,
             \A q \in Procs : q # p => st'[q] = st[q] /\ hf'[q] = hf[q]
      PROVE  FileInv'
  <2>1. \A q \in Procs : pc'[q] \in Locked =>
            pc'[q] = pc[q] /\ st'[q] = st[q] /\ hf'[q] = hf[q]
    BY <1>2, <1>3, LabelFacts DEF Goto
  <2> QED
    BY <1>3, <2>1, FilesAside
<1>4. Exit(p) => /\ Goto(p, "idle")
                 /\ \A q \in Procs : q # p => st'[q] = st[q] /\ hf'[q] = hf[q]
  BY <1>2 DEF Exit, Forgets
<1>5. ASSUME NEW command \in Commands, NEW arg \in PaneArgs, Invoke(p, command, arg)
      PROVE  FileInv'
  BY <1>3, <1>5, LabelFacts DEF Invoke
<1>6. ASSUME Acquire(p) PROVE FileInv'
  <2>1. lock' = p /\ FilesOK'
    BY <1>6, FilesUnchanged DEF Acquire, FileInv
  <2>2. op[p] \in Calls
    BY <1>6 DEF Acquire, FileInv, TypeInv, CallInv
  <2>3. pc'[p] \in {"reconcile", "wipe", "launch", "kill"}
    BY <1>2, <1>6, <2>2 DEF Acquire, Goto, FirstStep
  <2>4. StepOK(p)'
    BY <2>3 DEF StepOK, HoldingState
  <2> QED
    BY <2>1, <2>4, OnlyInside
<1>7. Check(p) => FileInv'
  BY <1>3, <1>4, LabelFacts DEF Check
<1>8. Confirm(p) => FileInv'
  BY <1>3, <1>4, LabelFacts DEF Confirm
<1>9. Crash(p) => FileInv'
  BY <1>3, <1>4, LabelFacts DEF Crash
<1>10. TmuxFails(p) \/ Kill(p) \/ Create(p) \/ Focus(p) => FileInv'
  BY DoneFiles DEF TmuxFails, Kill, Create, Focus, Done, files
<1> QED
  BY <1>5, <1>6, <1>7, <1>8, <1>9, <1>10
LEMMA NextCallFiles ==
    ASSUME FileInv, TypeInv', NEW p \in Procs
    PROVE  /\ Reconcile(p) => FileInv'
           /\ Inspect(p) => FileInv'
           /\ Capture(p) => FileInv'
<1>1. /\ pc \in [Procs -> Locked \cup Unlocked]
      /\ st \in [Procs -> WorkflowStates \cup {None}]
      /\ hf \in [Procs -> HandoffRecords \cup {None}]
      /\ workflow \in WorkflowStates /\ handoff \in HandoffRecords \cup {None}
  BY DEF FileInv, TypeInv, TypeOK
<1>2. ASSUME Reconcile(p) PROVE FileInv'
  <2>1. FilesOK' /\ Effective' = workflow'
    BY <1>2, ReconcileFiles DEF Reconcile, Effective
  <2>2. CASE op[p] = "next" /\ Goto(p, "inspect") /\ Stay /\ st' = [st EXCEPT ![p] = workflow']
    <3>1. pc'[p] = "inspect" /\ st'[p] = workflow'
      BY <1>1, <2>2 DEF Goto
    <3>2. lock' = p
      BY <1>2, <2>2, Holder DEF Stay, Reconcile, Locked, FileInv
    <3>3. StepOK(p)'
      BY <2>1, <3>1 DEF StepOK
    <3> QED
      BY <2>1, <3>2, <3>3, OnlyInside
  <2>3. CASE lock' = None
    BY <2>1, <2>3, NobodyInside
  <2> QED
    BY <1>2, <2>2, <2>3 DEF Reconcile, Done, Continue
<1>3. ASSUME Inspect(p) PROVE FileInv'
  <2>1. pc[p] = "inspect" /\ st[p] = workflow /\ Effective = workflow
    BY <1>3 DEF Inspect, FileInv, StepOK, HoldingState
  <2>2. UNCHANGED files /\ UNCHANGED Effective /\ UNCHANGED Pending
    BY <1>3 DEF Inspect, files, Effective, Pending
  <2>3. lock = p
    BY <2>1, Holder DEF Locked, FileInv
  <2>4. CASE /\ Pending /\ ValidPending(p) /\ Goto(p, "load")
             /\ hf' = [hf EXCEPT ![p] = handoff] /\ Stay /\ UNCHANGED st
    <3>1. pc'[p] = "load" /\ st'[p] = workflow' /\ hf'[p] = handoff'
      BY <1>1, <2>1, <2>2, <2>4 DEF Goto, files
    <3>2. handoff'.fromRole = workflow'.currentRole
      BY <2>1, <2>2, <2>4 DEF ValidPending, files
    <3>3. StepOK(p)'
      BY <2>2, <2>4, <3>1, <3>2 DEF StepOK
    <3> QED
      BY <2>2, <2>3, <2>4, <3>3, FilesUnchanged, OnlyInside DEF FileInv, Stay
  <2>5. CASE ~Pending /\ Goto(p, "capture") /\ Stay /\ UNCHANGED <<st, hf>>
    <3>1. pc'[p] = "capture" /\ st'[p] = workflow'
      BY <1>1, <2>1, <2>2, <2>5 DEF Goto, files
    <3>2. StepOK(p)'
      BY <2>1, <2>2, <2>5, <3>1 DEF StepOK, files
    <3> QED
      BY <2>2, <2>3, <2>5, <3>2, FilesUnchanged, OnlyInside DEF FileInv, Stay
  <2>6. Done(p) => FileInv'
    BY <2>2, DoneFiles DEF Done
  <2> QED
    BY <1>3, <2>4, <2>5, <2>6 DEF Inspect
<1>4. ASSUME Capture(p) PROVE FileInv'
  <2>1. pc[p] = "capture" /\ st[p] = workflow /\ Effective = workflow
    BY <1>4 DEF Capture, FileInv, StepOK, HoldingState
  <2>2. lock = p
    BY <2>1, Holder DEF Locked, FileInv
  <2>3. UNCHANGED workflow
    BY <1>4 DEF Capture
  <2>4. PICK out \in Outputs :
            \/ /\ Fresh(p, out)
               /\ handoff' =
                    [transferId |-> st[p].lastTransferId + 1,
                     fromRole   |-> st[p].currentRole,
                     toRole     |-> NextRole[st[p].currentRole],
                     decision   |-> out.decision,
                     delivery   |-> "pending",
                     body       |-> out.body]
               /\ hf' = [hf EXCEPT ![p] = handoff']
               /\ Goto(p, "load")
               /\ Stay /\ UNCHANGED st
            \/ ~Fresh(p, out) /\ Done(p) /\ UNCHANGED handoff
    BY <1>4 DEF Capture
  <2>5. CASE Fresh(p, out)
    <3>1. workflow.lastTransferId \in Nat
      BY <1>1 DEF WorkflowStates
    <3>2. /\ handoff'.transferId = workflow.lastTransferId + 1
          /\ handoff'.fromRole = workflow.currentRole
          /\ handoff'.toRole = NextRole[workflow.currentRole]
          /\ handoff'.decision = out.decision
          /\ handoff'.body = out.body
          /\ handoff'.delivery = "pending"
      BY <2>1, <2>4, <2>5
    <3>3. pc'[p] = "load" /\ st'[p] = workflow' /\ hf'[p] = handoff' /\ lock' = p
      BY <1>1, <2>1, <2>2, <2>3, <2>4, <2>5 DEF Goto, Stay
    <3>4. handoff' # None
      BY <3>3 DEF TypeInv, CallInv, Delivering, NoneAssumption
    <3>5. Pending'
      BY <3>4, <3>2 DEF Pending
    <3>6. /\ out.decision \in Allowed[workflow.currentRole]
          /\ workflow.lastDigests[workflow.currentRole] # DigestOf(handoff')
      BY <2>1, <2>5, <3>2 DEF Fresh, Parses, DigestOf
    <3>7. FilesOK'
      BY <2>3, <3>1, <3>2, <3>5, <3>6
      DEF FilesOK, HandoffInv, PendingInv, PendingIsNew, DeliveredIsApplied
    <3>8. StepOK(p)'
      BY <2>3, <3>2, <3>5, <3>3 DEF StepOK
    <3> QED
      BY <3>7, <3>3, <3>8, OnlyInside
  <2>6. CASE ~Fresh(p, out)
    BY <2>3, <2>4, <2>6, DoneFiles DEF Done, files
  <2> QED
    BY <2>5, <2>6
<1> QED
  BY <1>2, <1>3, <1>4

LEMMA DeliverFiles ==
    ASSUME FileInv, TypeInv', NEW p \in Procs
    PROVE  /\ Load(p) => FileInv'
           /\ Paste(p) => FileInv'
           /\ Submit(p) => FileInv'
           /\ Mark(p) => FileInv'
           /\ AdvanceWorkflow(p) => FileInv'
<1>1. /\ pc \in [Procs -> Locked \cup Unlocked]
      /\ st \in [Procs -> WorkflowStates \cup {None}]
      /\ hf \in [Procs -> HandoffRecords \cup {None}]
      /\ workflow \in WorkflowStates /\ handoff \in HandoffRecords \cup {None}
  BY DEF FileInv, TypeInv, TypeOK
<1>2. ASSUME pc[p] \in {"load", "paste", "submit", "mark"}
      PROVE  /\ st[p] = workflow /\ hf[p] = handoff /\ Pending
             /\ handoff \in HandoffRecords
             /\ handoff.fromRole = workflow.currentRole
             /\ lock = p
  BY <1>1, <1>2, Holder
  DEF FileInv, StepOK, HoldingState, Locked, Delivering, Pending
<1>3. ASSUME pc[p] \in {"load", "paste", "submit"},
             NEW l \in {"paste", "submit", "mark"}, ThenOrTimeout(p, l), UNCHANGED files
      PROVE  FileInv'
  <2>1. CASE Goto(p, l) /\ Stay /\ UNCHANGED <<st, hf>>
    <3>1. pc'[p] = l /\ lock' = p
      BY <1>1, <1>2, <1>3, <2>1 DEF Goto, Stay
    <3>2. StepOK(p)'
      BY <1>2, <1>3, <2>1, <3>1 DEF StepOK, files, Pending
    <3> QED
      BY <1>3, <3>1, <3>2, FilesUnchanged, OnlyInside DEF FileInv
  <2>2. CASE Done(p)
    BY <1>3, <2>2, DoneFiles DEF Done
  <2> QED
    BY <1>3, <2>1, <2>2 DEF ThenOrTimeout
<1>4. Load(p) => FileInv'
  BY <1>3, DoneFiles DEF Load, Done
<1>5. Paste(p) => FileInv'
  BY <1>3, DoneFiles DEF Paste, Done
<1>6. Submit(p) => FileInv'
  BY <1>3, DoneFiles DEF Submit, Done
<1>7. ASSUME Mark(p) PROVE FileInv'
  <2>1. /\ st[p] = workflow /\ hf[p] = handoff /\ Pending /\ handoff \in HandoffRecords
        /\ handoff.fromRole = workflow.currentRole /\ lock = p
    BY <1>2, <1>7 DEF Mark
  <2>2. /\ handoff' = [handoff EXCEPT !.delivery = "delivered"]
        /\ UNCHANGED <<workflow, lock>>
    BY <1>7, <2>1 DEF Mark, Stay
  <2>3. /\ handoff' \in HandoffRecords /\ handoff'.delivery = "delivered"
        /\ DigestOf(handoff') = DigestOf(handoff) /\ ~Pending' /\ handoff' # None
    BY <2>1, <2>2, DeliveredType, NoneIsNothing DEF Pending, NoneAssumption
  <2>4. /\ handoff'.transferId = handoff.transferId
        /\ handoff'.fromRole = handoff.fromRole /\ handoff'.toRole = handoff.toRole
        /\ handoff'.decision = handoff.decision
    BY <2>1, <2>2 DEF HandoffRecords
  <2>5. Unapplied(workflow, handoff')
    BY <2>1, <2>3, <2>4 DEF Unapplied, FileInv, FilesOK, PendingIsNew
  <2>6. Effective' = Advance(workflow, handoff')
    BY <2>2, <2>5 DEF Effective, reconcile_state
  <2>7. FilesOK'
    <3>1. handoff # None
      BY <2>1 DEF Pending
    <3>2. HandoffInv'
      BY <2>3, <2>4, <3>1 DEF FileInv, FilesOK, HandoffInv
    <3>3. PendingInv' /\ PendingIsNew'
      BY <2>3 DEF PendingInv, PendingIsNew
    <3>4. /\ Effective'.lastTransferId = handoff'.transferId
          /\ Effective'.currentRole = NextRole[handoff'.fromRole]
          /\ Effective'.lastDigests[handoff'.fromRole] = DigestOf(handoff')
      BY <1>1, <2>3, <2>6, AdvanceFacts
    <3>5. DeliveredIsApplied'
      BY <2>3, <3>2, <3>4 DEF DeliveredIsApplied, HandoffInv
    <3> QED
      BY <3>2, <3>3, <3>5 DEF FilesOK
  <2>8. pc'[p] = "advance" /\ st'[p] = workflow' /\ hf'[p] = handoff'
    BY <1>1, <1>7, <2>1, <2>2 DEF Mark, Goto
  <2>9. StepOK(p)'
    BY <2>2, <2>5, <2>8 DEF StepOK
  <2> QED
    BY <2>1, <2>2, <2>7, <2>9, OnlyInside
<1>8. ASSUME AdvanceWorkflow(p) PROVE FileInv'
  <2>1. /\ st[p] = workflow /\ hf[p] = handoff /\ handoff \in HandoffRecords
        /\ handoff # None /\ ~Pending /\ lock = p
    BY <1>1, <1>8, Holder
    DEF AdvanceWorkflow, FileInv, StepOK, HoldingState, Locked, Delivering,
        Unapplied, Pending
  <2>2. workflow' = Advance(workflow, handoff) /\ UNCHANGED <<handoff, lock>>
    BY <1>8, <2>1 DEF AdvanceWorkflow, Stay
  <2>3. workflow'.lastTransferId = handoff.transferId
    BY <1>1, <2>1, <2>2, AdvanceFacts
  <2>4. Effective' = workflow'
    BY <2>1, <2>2, <2>3 DEF Effective, reconcile_state, Unapplied, HandoffRecords
  <2>5. FilesOK'
    BY <1>1, <2>1, <2>2, <2>4, AdvanceFacts
    DEF FileInv, FilesOK, HandoffInv, PendingInv, PendingIsNew, DeliveredIsApplied, Pending
  <2>6. pc'[p] = "focus"
    BY <1>1, <1>8 DEF AdvanceWorkflow, Goto
  <2>7. StepOK(p)'
    BY <2>6 DEF StepOK, HoldingState
  <2> QED
    BY <2>1, <2>2, <2>5, <2>7, OnlyInside
<1> QED
  BY <1>4, <1>5, <1>6, <1>7, <1>8

LEMMA LifecycleFiles ==
    ASSUME FileInv, TypeInv', NEW p \in Procs
    PROVE  /\ Wipe(p) => FileInv'
           /\ Unlink(p) => FileInv'
           /\ Launch(p) => FileInv'
<1>1. /\ pc \in [Procs -> Locked \cup Unlocked]
      /\ workflow \in WorkflowStates /\ handoff \in HandoffRecords \cup {None}
  BY DEF FileInv, TypeInv, TypeOK
<1>2. ASSUME Wipe(p) PROVE FileInv'
  <2>1. workflow' = InitialWorkflow /\ UNCHANGED handoff /\ lock' = p /\ pc'[p] = "unlink"
    BY <1>1, <1>2, Holder DEF Wipe, Stay, Goto, Locked, FileInv
  <2>2. StepOK(p)'
    BY <2>1 DEF StepOK, HoldingState
  <2>3. HandoffInv' /\ PendingInv'
    BY <2>1 DEF FileInv, FilesOK, HandoffInv, PendingInv
  <2>4. InitialWorkflow.lastTransferId = 0
        /\ \A r \in Roles : InitialWorkflow.lastDigests[r] = None
    BY DEF InitialWorkflow
  <2>5. PendingIsNew'
    <3> SUFFICES ASSUME Pending' PROVE PendingIsNew'
      BY DEF PendingIsNew
    <3>1. handoff \in HandoffRecords /\ Pending /\ handoff # None
      BY <1>1, <2>1 DEF Pending
    <3>2. DigestOf(handoff) # None /\ handoff.fromRole \in Roles
      BY <3>1, NoneIsNothing
      DEF NoneAssumption, DigestOf, Digest, Digests, HandoffRecords
    <3>3. handoff.transferId > 0 /\ handoff.toRole = NextRole[handoff.fromRole]
      BY <3>1 DEF FileInv, FilesOK, HandoffInv
    <3>4. /\ handoff'.transferId > workflow'.lastTransferId
          /\ handoff'.toRole = NextRole[handoff'.fromRole]
          /\ workflow'.lastDigests[handoff'.fromRole] # DigestOf(handoff')
      BY <2>1, <2>4, <3>2, <3>3
    <3> QED
      BY <3>4 DEF PendingIsNew
  <2>6. DeliveredIsApplied'
    <3> SUFFICES ASSUME handoff' # None, ~Pending' PROVE DeliveredIsApplied'
      BY DEF DeliveredIsApplied
    <3>1. handoff \in HandoffRecords /\ handoff.delivery = "delivered"
      BY <1>1, <2>1 DEF Pending, HandoffRecords, Delivery
    <3>2. Unapplied(InitialWorkflow, handoff)
      BY <2>1, <2>4, <3>1 DEF Unapplied, FileInv, FilesOK, HandoffInv
    <3>3. Effective' = Advance(InitialWorkflow, handoff)
      BY <2>1, <3>2 DEF Effective, reconcile_state
    <3> QED
      BY <2>1, <3>1, <3>3, InitialType, AdvanceFacts
      DEF DeliveredIsApplied, FileInv, FilesOK, HandoffInv
  <2> QED
    BY <2>1, <2>2, <2>3, <2>5, <2>6, OnlyInside DEF FilesOK
<1>3. ASSUME Unlink(p) PROVE FileInv'
  <2>1. handoff' = None /\ lock' = None
    BY <1>3 DEF Unlink, Continue
  <2>2. FilesOK'
    BY <2>1 DEF FilesOK, HandoffInv, PendingInv, PendingIsNew, DeliveredIsApplied, Pending
  <2> QED
    BY <2>1, <2>2, NobodyInside
<1>4. ASSUME Launch(p) PROVE FileInv'
  <2>1. CASE Done(p) /\ UNCHANGED workflow
    BY <1>4, <2>1, DoneFiles DEF Launch, Done, files
  <2>2. CASE workflow' = Effective /\ Goto(p, "create") /\ Stay
    <3>1. FilesOK' /\ Effective' = workflow'
      BY <1>4, <2>2, ReconcileFiles DEF Launch
    <3>2. lock' = p /\ pc'[p] = "create"
      BY <1>1, <1>4, <2>2, Holder DEF Launch, Stay, Goto, Locked, FileInv
    <3>3. StepOK(p)'
      BY <3>1, <3>2 DEF StepOK, HoldingState
    <3> QED
      BY <3>1, <3>2, <3>3, OnlyInside
  <2> QED
    BY <1>4, <2>1, <2>2 DEF Launch, Effective
<1> QED
  BY <1>2, <1>3, <1>4

LEMMA FileStep == FileInv /\ [Next]_vars => FileInv'
<1> SUFFICES ASSUME FileInv, [Next]_vars PROVE FileInv'
  OBVIOUS
<1>1. TypeInv'
  BY TypeStep DEF FileInv
<1>2. ASSUME NEW p \in Procs, Process(p) PROVE FileInv'
  BY <1>1, <1>2, OutsideFiles, NextCallFiles, DeliverFiles, LifecycleFiles
  DEF Process, LockedStep
<1>3. Environment => UNCHANGED <<files, pc, st, hf>>
  BY DEF Environment, SessionEnds, PaneDies, UserFocuses, OtherProject, procs
<1>4. UNCHANGED vars => UNCHANGED <<files, pc, st, hf>>
  BY DEF vars, procs
<1>5. UNCHANGED <<files, pc, st, hf>> => FileInv'
  BY <1>1, FilesAside
<1> QED
  BY <1>2, <1>3, <1>4, <1>5 DEF Next

\* The files and the processes between their steps are consistent at all times.
THEOREM FilesCorrect == Spec => []FileInv
BY InitFiles, FileStep, PTL DEF Spec

\* What next read before its tmux calls is still true when it uses it: no other
\* process, crash or timeout gets between its read and its writes.
THEOREM ReadsStayCurrentTheorem == Spec => []ReadsStayCurrent
<1>1. FileInv => ReadsStayCurrent
  BY DEF FileInv, StepOK, ReadsStayCurrent
<1> QED
  BY <1>1, FilesCorrect, PTL

\* A crash between the two file writes of a delivery loses and repeats nothing.
THEOREM DeliveredIsAppliedTheorem == Spec => []DeliveredIsApplied
<1>1. FileInv => DeliveredIsApplied
  BY DEF FileInv, FilesOK
<1> QED
  BY <1>1, FilesCorrect, PTL

\* A pending handoff keeps an unused id and a new digest until it is delivered.
THEOREM PendingIsNewTheorem == Spec => []PendingIsNew
<1>1. FileInv => PendingIsNew
  BY DEF FileInv, FilesOK
<1> QED
  BY <1>1, FilesCorrect, PTL
-----------------------------------------------------------------------------
(* What a step does to the workflow.                                       *)

\* Only four actions write workflow.json.
LEMMA WorkflowWriters ==
    ASSUME [Next]_vars,
           \A p \in Procs : ~(Reconcile(p) \/ AdvanceWorkflow(p) \/ Wipe(p) \/ Launch(p))
    PROVE  UNCHANGED workflow
BY DEF Next, Process, Environment, LockedStep, vars, files, Invoke, Acquire, Inspect,
       Capture, Load, Paste, Submit, Mark, Focus, Unlink, Create, Kill, TmuxFails, Check,
       Confirm, Crash, SessionEnds, PaneDies, UserFocuses, OtherProject

\* The workflow file moves by one transfer already on file, or to the start.
THEOREM AdvancesByDeliveryTheorem == Spec => AdvancesByDelivery
<1> DEFINE Moves == \/ workflow' = workflow
                    \/ workflow' = InitialWorkflow
                    \/ Unapplied(workflow, handoff) /\ workflow' = Advance(workflow, handoff)
<1>1. ASSUME FileInv, [Next]_vars PROVE Moves
  <2>1. ASSUME NEW p \in Procs, Reconcile(p) PROVE Moves
    BY <2>1 DEF Reconcile, reconcile_state
  <2>2. ASSUME NEW p \in Procs, AdvanceWorkflow(p) PROVE Moves
    BY <1>1, <2>2 DEF AdvanceWorkflow, FileInv, StepOK, HoldingState
  <2>3. ASSUME NEW p \in Procs, Wipe(p) PROVE Moves
    BY <2>3 DEF Wipe
  <2>4. ASSUME NEW p \in Procs, Launch(p) PROVE Moves
    BY <2>4 DEF Launch, reconcile_state
  <2> QED
    BY <1>1, <2>1, <2>2, <2>3, <2>4, WorkflowWriters
<1>2. UNCHANGED vars => Moves
  BY DEF vars, files
<1> QED
  BY <1>1, <1>2, FilesCorrect, PTL DEF Spec, AdvancesByDelivery

\* A captured handoff stays on file until it is delivered or reset.
THEOREM KeepsPendingTheorem == Spec => KeepsPending
<1> DEFINE Keeps == Pending => \/ handoff' = handoff
                               \/ handoff' = [handoff EXCEPT !.delivery = "delivered"]
                               \/ handoff' = None /\ workflow = InitialWorkflow
<1>1. ASSUME FileInv, [Next]_vars PROVE Keeps
  <2>1. ASSUME NEW p \in Procs, Capture(p) PROVE Keeps
    BY <1>1, <2>1 DEF Capture, FileInv, StepOK
  <2>2. ASSUME NEW p \in Procs, Mark(p) PROVE Keeps
    BY <1>1, <2>2 DEF Mark, FileInv, StepOK
  <2>3. ASSUME NEW p \in Procs, Unlink(p) PROVE Keeps
    BY <1>1, <2>3 DEF Unlink, FileInv, StepOK
  <2>4. ASSUME NEW p \in Procs, Process(p), ~(Capture(p) \/ Mark(p) \/ Unlink(p))
        PROVE  handoff' = handoff
    BY <2>4 DEF Process, LockedStep, files, Invoke, Acquire, Reconcile, Inspect, Load, Paste,
       Submit, AdvanceWorkflow, Focus, Wipe, Launch, Create, Kill, TmuxFails, Check, Confirm,
       Crash
  <2>5. Environment \/ UNCHANGED vars => handoff' = handoff
    BY DEF Environment, SessionEnds, PaneDies, UserFocuses, OtherProject, vars, files
  <2> QED
    BY <1>1, <2>1, <2>2, <2>3, <2>4, <2>5 DEF Next
<1> QED
  BY <1>1, FilesCorrect, PTL DEF Spec, KeepsPending
-----------------------------------------------------------------------------
(* The relay is implemented.                                               *)

\* Within the instance the helpers mean what they mean outside.
LEMMA SameTransition ==
    \A state, source, decision, id, digest :
        R!transition(state, source, decision, id, digest)
            = transition(state, source, decision, id, digest)
BY DEF R!transition, transition, R!StatusAfter, StatusAfter, R!RoundAfter, RoundAfter,
       R!NextRole, NextRole, R!Roles, Roles

LEMMA SameInitial == R!InitialWorkflow = InitialWorkflow
BY DEF R!InitialWorkflow, InitialWorkflow, R!Roles, Roles

LEMMA InitRelay == Init => R!Init
BY SameInitial DEF Init, R!Init, Effective, reconcile_state, Unapplied

\* Steps that leave both files alone leave the relay alone.
LEMMA FilesRelay ==
    ASSUME UNCHANGED files
    PROVE  UNCHANGED Effective
BY DEF files, Effective

\* Recording a delivery is accepting the transfer.
LEMMA MarkRelay ==
    ASSUME FileInv, NEW p \in Procs, Mark(p)
    PROVE  R!Next
<1>1. workflow \in WorkflowStates /\ handoff \in HandoffRecords \cup {None}
  BY DEF FileInv, TypeInv, TypeOK
<1>2. /\ hf[p] = handoff /\ Pending /\ handoff.fromRole = workflow.currentRole
  BY DEF Mark, FileInv, StepOK, HoldingState
<1>3. handoff \in HandoffRecords /\ handoff # None
  BY <1>1, <1>2 DEF Pending
<1> DEFINE h == [handoff EXCEPT !.delivery = "delivered"]
<1>4. handoff' = h /\ UNCHANGED workflow
  BY <1>2 DEF Mark
<1>5. /\ h.transferId = handoff.transferId /\ h.fromRole = handoff.fromRole
      /\ h.toRole = handoff.toRole /\ h.decision = handoff.decision
      /\ h.body = handoff.body /\ h.delivery = "delivered" /\ h \in HandoffRecords
  BY <1>3 DEF HandoffRecords, Delivery
<1>6. /\ handoff.transferId > workflow.lastTransferId
      /\ workflow.lastDigests[handoff.fromRole] # DigestOf(handoff)
      /\ handoff.decision \in Allowed[handoff.fromRole]
      /\ \/ handoff.transferId = workflow.lastTransferId + 1
         \/ workflow = InitialWorkflow /\ handoff.transferId \in Nat \ {0}
  BY <1>2, <1>3 DEF FileInv, FilesOK, HandoffInv, PendingInv, PendingIsNew, HandoffRecords
<1>7. Effective = workflow
  BY <1>2 DEF Effective, reconcile_state, Unapplied, Pending
<1>8. Effective' = Advance(workflow, h)
  <2>1. h # None
    BY <1>5 DEF NoneAssumption
  <2>2. Unapplied(workflow, h)
    BY <1>5, <1>6, <2>1 DEF Unapplied
  <2> QED
    BY <1>4, <2>2 DEF Effective, reconcile_state
<1>9. Effective'.lastTransferId = handoff.transferId
  BY <1>1, <1>5, <1>8, AdvanceFacts
<1>10. Effective' = transition(Effective, handoff.fromRole, handoff.decision,
                               handoff.transferId, DigestOf(handoff))
  BY <1>5, <1>7, <1>8 DEF Advance, DigestOf
<1>11. /\ handoff.fromRole \in Roles /\ handoff.decision \in Decisions
       /\ handoff.body \in Bodies
  BY <1>3 DEF HandoffRecords
<1>12. R!Digest(handoff.fromRole, handoff.decision, handoff.body) = DigestOf(handoff)
  BY DEF R!Digest, DigestOf, Digest
<1>13. R!Accept(handoff.fromRole, handoff.decision, handoff.body, Effective'.lastTransferId)
  BY <1>2, <1>6, <1>7, <1>9, <1>10, <1>12, SameTransition, SameInitial
  DEF R!Accept, R!NextId, R!Allowed, Allowed, R!Roles, Roles
<1> QED
  BY <1>11, <1>13 DEF R!Next, R!Roles, Roles, R!Decisions, Decisions
\* Wiping the workflow file forgets everything but the last transfer, if that is
\* still on file.
LEMMA WipeRelay ==
    ASSUME FileInv, NEW p \in Procs, Wipe(p)
    PROVE  R!Next
<1>1. workflow \in WorkflowStates /\ handoff \in HandoffRecords \cup {None}
  BY DEF FileInv, TypeInv, TypeOK
<1>2. workflow' = InitialWorkflow /\ UNCHANGED handoff
  BY DEF Wipe
<1>3. CASE handoff # None /\ ~Pending
  <2>1. handoff \in HandoffRecords /\ handoff.delivery = "delivered"
    BY <1>1, <1>3 DEF Pending, HandoffRecords, Delivery
  <2>2. /\ handoff.transferId > 0
        /\ Effective.lastTransferId = handoff.transferId
        /\ Effective.currentRole = NextRole[handoff.fromRole]
        /\ Effective.lastDigests[handoff.fromRole] = DigestOf(handoff)
    BY <1>3 DEF FileInv, FilesOK, HandoffInv, DeliveredIsApplied
  <2>3. Effective' = Advance(InitialWorkflow, handoff)
    BY <1>2, <1>3, <2>1, <2>2
    DEF Effective, reconcile_state, Unapplied, InitialWorkflow
  <2>4. DigestOf(handoff) \in Digests /\ DigestOf(handoff).decision = handoff.decision
        /\ handoff.fromRole \in Roles
    BY <2>1 DEF HandoffRecords, DigestOf, Digest, Digests
  <2>5. Effective' = transition(InitialWorkflow, handoff.fromRole,
                                DigestOf(handoff).decision, Effective.lastTransferId,
                                DigestOf(handoff))
    BY <2>2, <2>3, <2>4 DEF Advance
  <2>6. R!ForgetAllButLast
    BY <2>2, <2>4, <2>5, SameTransition, SameInitial
    DEF R!ForgetAllButLast, R!Roles, Roles, R!NextRole, NextRole, R!Digests, Digests,
        R!Decisions, Decisions
  <2> QED
    BY <2>6 DEF R!Next
<1>4. CASE handoff = None \/ Pending
  <2>1. Effective' = InitialWorkflow
    BY <1>2, <1>4 DEF Effective, reconcile_state, Unapplied, Pending
  <2> QED
    BY <2>1, SameInitial DEF R!Next, R!Forget
<1> QED
  BY <1>3, <1>4

LEMMA UnlinkRelay ==
    ASSUME FileInv, NEW p \in Procs, Unlink(p)
    PROVE  R!Next
<1>1. handoff' = None /\ UNCHANGED workflow /\ workflow = InitialWorkflow
  BY DEF Unlink, FileInv, StepOK
<1>2. Effective' = InitialWorkflow
  BY <1>1 DEF Effective, reconcile_state, Unapplied
<1> QED
  BY <1>2, SameInitial DEF R!Next, R!Forget

\* The other steps that write a file are invisible after reconciliation.
LEMMA HiddenRelay ==
    ASSUME FileInv, NEW p \in Procs,
           Reconcile(p) \/ Launch(p) \/ Capture(p) \/ AdvanceWorkflow(p)
    PROVE  UNCHANGED Effective
<1>1. workflow \in WorkflowStates /\ handoff \in HandoffRecords \cup {None}
  BY DEF FileInv, TypeInv, TypeOK
<1>2. CASE workflow' = Effective /\ UNCHANGED handoff
  BY <1>2, ReconcileFiles
<1>3. CASE UNCHANGED <<workflow, handoff>>
  BY <1>3 DEF Effective
<1>4. CASE Reconcile(p)
  BY <1>2, <1>4 DEF Reconcile, Effective
<1>5. CASE Launch(p)
  BY <1>2, <1>3, <1>5 DEF Launch, Effective
<1>6. ASSUME Capture(p), handoff' # handoff PROVE UNCHANGED Effective
  <2>1. Effective = workflow /\ UNCHANGED workflow
    BY <1>6 DEF Capture, FileInv, StepOK
  <2>2. handoff'.delivery = "pending"
    BY <1>6 DEF Capture
  <2> QED
    BY <2>1, <2>2 DEF Effective, reconcile_state, Unapplied
<1>7. CASE AdvanceWorkflow(p)
  <2>1. Unapplied(workflow, handoff) /\ UNCHANGED handoff
        /\ workflow' = Advance(workflow, handoff)
    BY <1>7 DEF AdvanceWorkflow, FileInv, StepOK, HoldingState
  <2>2. workflow' = Effective
    BY <2>1 DEF Effective, reconcile_state
  <2> QED
    BY <1>2, <2>1, <2>2
<1> QED
  BY <1>3, <1>4, <1>5, <1>6, <1>7 DEF Capture

LEMMA RelayStep == FileInv /\ [Next]_vars => [R!Next]_Effective
<1> SUFFICES ASSUME FileInv, [Next]_vars PROVE R!Next \/ UNCHANGED Effective
  OBVIOUS
<1>1. ASSUME NEW p \in Procs, LockedStep(p) PROVE R!Next \/ UNCHANGED Effective
  <2>1. CASE \/ Inspect(p) \/ Load(p) \/ Paste(p) \/ Submit(p) \/ Focus(p)
             \/ Create(p) \/ Kill(p) \/ TmuxFails(p)
    BY <2>1, FilesRelay DEF Inspect, Load, Paste, Submit, Focus, Create, Kill, TmuxFails
  <2> QED
    BY <1>1, <2>1, HiddenRelay, MarkRelay, WipeRelay, UnlinkRelay DEF LockedStep
<1>2. ASSUME NEW p \in Procs, Process(p), ~LockedStep(p) PROVE UNCHANGED Effective
  BY <1>2, FilesRelay DEF Process, Invoke, Acquire, Check, Confirm, Crash
<1>3. Environment => UNCHANGED Effective
  BY FilesRelay DEF Environment, SessionEnds, PaneDies, UserFocuses, OtherProject
<1>4. UNCHANGED vars => UNCHANGED Effective
  BY FilesRelay DEF vars
<1> QED
  BY <1>1, <1>2, <1>3, <1>4 DEF Next

\* The files, processes and panes together implement the relay: seen by a reader who
\* reconciles, only the role whose turn it is hands over, one new transfer at a time,
\* under every interleaving, failure and crash.
THEOREM RelayImplemented == Spec => ImplementsRelay
BY InitRelay, RelayStep, FilesCorrect, PTL DEF Spec, ImplementsRelay, R!Spec

\* What a transfer by a role whose digest is d makes of a state.
LEMMA AfterTransfer ==
    ASSUME NEW s \in WorkflowStates, NEW source \in Roles, NEW d \in Digests, NEW id
    PROVE  LET t == transition(s, source, d.decision, id, d) IN
           /\ t.currentRole = NextRole[source]
           /\ t.status = StatusAfter(source, d.decision)
           /\ t.round = RoundAfter(s, source)
           /\ t.lastDigests[source] = d
           /\ \A r \in Roles : r # source => t.lastDigests[r] = s.lastDigests[r]
BY DEF transition, WorkflowStates

\* The status, the turn and the round are those of the transfers that were made.
THEOREM RelayHistoryTheorem == Spec => []RelayHistory
<1> USE DEF Roles
<1>1. R!Init => RelayHistory
  BY SameInitial DEF R!Init, RelayHistory, R!StateShowsHistory, InitialWorkflow
<1>2. FileInv => Effective \in WorkflowStates
  BY ReconcileFacts DEF FileInv, TypeInv, TypeOK, Effective
<1> DEFINE After(source) ==
        /\ Effective.currentRole = NextRole[source]
        /\ Effective.lastDigests[source] # None
        /\ Effective.lastDigests[source].decision \in Allowed[source]
        /\ Effective.status = StatusAfter(source, Effective.lastDigests[source].decision)
<1> DEFINE Reworking ==
        Effective.round > 1 /\ Effective.status = "active" =>
            /\ Effective.lastDigests["reviewer"] # None
            /\ Effective.lastDigests["reviewer"].decision = "rejected"
<1>3. RelayHistory =>
        (Effective = InitialWorkflow \/ \E source \in Roles : After(source)) /\ Reworking
  BY SameInitial
  DEF RelayHistory, R!StateShowsHistory, R!Roles, R!NextRole, NextRole, R!Allowed, Allowed,
      R!StatusAfter, StatusAfter
<1>4. ASSUME NEW source \in Roles, After(source)', Reworking' PROVE RelayHistory'
  BY <1>4
  DEF RelayHistory, R!StateShowsHistory, R!Roles, R!NextRole, NextRole, R!Allowed, Allowed,
      R!StatusAfter, StatusAfter
<1>5. ASSUME FileInv, RelayHistory, [R!Next]_Effective PROVE RelayHistory'
  <2>1. CASE UNCHANGED Effective
    BY <1>5, <2>1 DEF RelayHistory, R!StateShowsHistory
  <2>2. CASE R!Forget
    BY <2>2, SameInitial DEF R!Forget, RelayHistory, R!StateShowsHistory, InitialWorkflow
  <2>3. ASSUME NEW source \in Roles, NEW d \in Digests, NEW id,
               d.decision \in Allowed[source], R!ForgetAllButLast,
               Effective' = transition(InitialWorkflow, source, d.decision, id, d)
        PROVE  RelayHistory'
    <3>1. InitialWorkflow.status = "idle" /\ InitialWorkflow.round = 0
      BY DEF InitialWorkflow
    <3>2. Effective'.round \in {0, 1}
      BY <2>3, <3>1, InitialType, AfterTransfer DEF RoundAfter
    <3>3. After(source)' /\ Reworking'
      BY <2>3, <3>2, InitialType, AfterTransfer DEF NoneAssumption
    <3> QED
      BY <1>4, <3>3
  <2>4. CASE R!ForgetAllButLast
    <3>1. PICK source \in Roles, d \in Digests :
            /\ Effective.currentRole = NextRole[source]
            /\ Effective.lastDigests[source] = d
            /\ Effective' = transition(InitialWorkflow, source, d.decision,
                                       Effective.lastTransferId, d)
      BY <2>4, SameTransition, SameInitial
      DEF R!ForgetAllButLast, R!Roles, R!NextRole, NextRole, R!Digests, Digests,
          R!Decisions, Decisions
    <3>2. Effective # InitialWorkflow
      BY <3>1 DEF InitialWorkflow, NoneAssumption
    <3>3. After(source)
      BY <1>3, <1>5, <3>1, <3>2, NextRoleType
    <3> QED
      BY <2>3, <2>4, <3>1, <3>3
  <2>5. ASSUME NEW source \in Roles, NEW decision \in Decisions, NEW body \in Bodies,
               NEW id, R!Accept(source, decision, body, id)
        PROVE  RelayHistory'
    <3> DEFINE d == Digest(source, decision, body)
    <3>1. /\ source = Effective.currentRole /\ decision \in Allowed[source]
          /\ Effective' = transition(Effective, source, d.decision, id, d)
          /\ d \in Digests /\ d.decision = decision
      BY <2>5, SameTransition
      DEF R!Accept, R!Allowed, Allowed, R!Digest, Digest, Digests, R!Roles
    <3>2. Effective \in WorkflowStates
      BY <1>2, <1>5
    <3>3. After(source)'
      BY <3>1, <3>2, AfterTransfer DEF NoneAssumption
    <3>4. CASE source = "reviewer"
      <4>1. Effective'.status # "active"
        BY <3>1, <3>2, <3>4, AfterTransfer DEF StatusAfter
      <4> QED
        BY <1>4, <3>3, <4>1
    <3>5. CASE source = "developer"
      <4>1. Effective.status = "active"
        <5>1. InitialWorkflow.currentRole = "pm" /\ Effective.currentRole = "developer"
          BY <3>1, <3>5 DEF InitialWorkflow
        <5>2. Effective # InitialWorkflow
          BY <5>1
        <5>3. PICK other \in Roles : After(other)
          BY <1>3, <1>5, <5>2
        <5>4. other = "pm"
          BY <3>1, <3>5, <5>3, NextRoleType
        <5> QED
          BY <5>3, <5>4 DEF StatusAfter
      <4>2. /\ Effective'.round = Effective.round
            /\ Effective'.lastDigests["reviewer"] = Effective.lastDigests["reviewer"]
        BY <3>1, <3>2, <3>5, AfterTransfer DEF RoundAfter
      <4> QED
        BY <1>3, <1>4, <1>5, <3>3, <4>1, <4>2
    <3>6. CASE source = "pm"
      <4>1. CASE Effective.status # "rework"
        <5>1. Effective'.round = 1
          BY <3>1, <3>2, <3>6, <4>1, AfterTransfer DEF RoundAfter
        <5> QED
          BY <1>4, <3>3, <5>1
      <4>2. CASE Effective.status = "rework"
        <5>1. After("reviewer")
          BY <1>3, <1>5, <3>1, <3>6, <4>2, NextRoleType DEF InitialWorkflow
        <5>2. Effective.lastDigests["reviewer"].decision = "rejected"
          BY <4>2, <5>1 DEF Allowed, StatusAfter
        <5>3. Effective'.lastDigests["reviewer"] = Effective.lastDigests["reviewer"]
          BY <3>1, <3>2, <3>6, AfterTransfer
        <5> QED
          BY <1>4, <3>3, <5>1, <5>2, <5>3
      <4> QED
        BY <4>1, <4>2
    <3> QED
      BY <3>4, <3>5, <3>6
  <2> QED
    BY <1>5, <2>1, <2>2, <2>4, <2>5 DEF R!Next, R!Roles, R!Decisions, Decisions
<1> QED
  BY <1>1, <1>5, RelayImplemented, FilesCorrect, PTL DEF ImplementsRelay, R!Spec
-----------------------------------------------------------------------------
(* The panes, on a tmux server that no other project uses.                 *)

\* A step that writes no handoff file, keeps the panes that live as they are and at
\* most deletes the buffer.
LEMMA PanesAside ==
    ASSUME PaneInv, FileInv', UNCHANGED handoff,
           endpoints' \subseteq endpoints, buffer' \in {buffer, None},
           \A r \in endpoints' : draft'[r] = draft[r] /\ inbox'[r] = inbox[r],
           \A q \in Procs : pc'[q] \in {"paste", "submit", "mark"} =>
               pc'[q] = pc[q] /\ hf'[q] = hf[q]
    PROVE  PaneInv'
<1>1. TargetHasHandoff'
  BY DEF PaneInv, TargetHasHandoff, Pending
<1>2. ASSUME NEW q \in Procs PROVE TypingOK(q)'
  BY DEF PaneInv, TypingOK, Target
<1> QED
  BY <1>1, <1>2 DEF PaneInv

\* While p holds the lock only p is typing.
LEMMA OnlyTyping ==
    ASSUME FileInv', TargetHasHandoff', NEW p \in Procs, lock' = p, TypingOK(p)'
    PROVE  PaneInv'
<1>1. \A q \in Procs : q # p => pc'[q] \notin Locked
  BY DEF FileInv, TypeInv, CallInv
<1>2. \A q \in Procs : TypingOK(q)'
  BY <1>1, StepLabels DEF TypingOK
<1> QED
  BY <1>2 DEF PaneInv

LEMMA NobodyTyping ==
    ASSUME FileInv', TargetHasHandoff', lock' = None
    PROVE  PaneInv'
<1>1. \A q \in Procs : pc'[q] \notin Locked
  BY DEF FileInv, TypeInv, CallInv, ConstantsAssumption
<1>2. \A q \in Procs : TypingOK(q)'
  BY <1>1, StepLabels DEF TypingOK
<1> QED
  BY <1>2 DEF PaneInv
LEMMA InitPanes == Init => PaneInv
<1>1. Init => TargetHasHandoff /\ \A p \in Procs : TypingOK(p)
  BY DEF Init, TargetHasHandoff, TypingOK
<1> QED
  BY <1>1, InitFiles DEF PaneInv

\* Load, Paste, Submit and Mark: from the buffer into the input line, from there to
\* the role, and only then into the handoff file.
LEMMA DeliverPanes ==
    ASSUME PaneInv, FileInv', NEW p \in Procs
    PROVE  /\ Load(p) => PaneInv'
           /\ Paste(p) => PaneInv'
           /\ Submit(p) => PaneInv'
           /\ Mark(p) => PaneInv'
<1>1. /\ pc \in [Procs -> Locked \cup Unlocked]
      /\ hf \in [Procs -> HandoffRecords \cup {None}]
      /\ draft \in [Roles -> SUBSET (Texts \cup {Foreign})]
      /\ inbox \in [Roles -> SUBSET (Texts \cup {Foreign})]
      /\ endpoints \subseteq Roles
  BY DEF PaneInv, FileInv, TypeInv, TypeOK
<1>2. ASSUME pc[p] \in {"load", "paste", "submit", "mark"}
      PROVE  lock = p /\ hf[p] = handoff /\ Pending
  BY <1>2, Holder DEF PaneInv, FileInv, StepOK, Locked, Delivering
<1>3. ASSUME Done(p), UNCHANGED handoff, Pending PROVE PaneInv'
  BY <1>3, NobodyTyping DEF Done, TargetHasHandoff, Pending
<1>4. ASSUME Load(p) PROVE PaneInv'
  <2>1. Pending /\ UNCHANGED handoff /\ lock = p
    BY <1>2, <1>4 DEF Load, files
  <2>2. CASE Goto(p, "paste") /\ Stay /\ UNCHANGED <<st, hf>> /\ buffer' = Text(hf[p])
    <3>1. pc'[p] = "paste" /\ lock' = p
      BY <1>1, <2>1, <2>2 DEF Goto, Stay
    <3>2. TypingOK(p)'
      BY <2>2, <3>1 DEF TypingOK
    <3> QED
      BY <2>1, <3>1, <3>2, OnlyTyping DEF TargetHasHandoff, Pending
  <2> QED
    BY <1>3, <1>4, <2>1, <2>2 DEF Load, ThenOrTimeout
<1>5. ASSUME Paste(p) PROVE PaneInv'
  <2>1. Pending /\ UNCHANGED handoff /\ lock = p
    BY <1>2, <1>5 DEF Paste, files
  <2>2. CASE /\ CanPaste(p) /\ Goto(p, "submit") /\ Stay /\ UNCHANGED <<st, hf>>
             /\ draft' = [draft EXCEPT ![Target(p)] = @ \cup {buffer}]
    <3>1. pc'[p] = "submit" /\ lock' = p
      BY <1>1, <2>1, <2>2 DEF Goto, Stay
    <3>2. buffer = Text(hf[p])
      BY <1>5, <2>2 DEF Paste, CanPaste, PaneInv, TypingOK
    <3>3. Target(p)' = Target(p) /\ Text(hf'[p]) = Text(hf[p])
      BY <2>2 DEF Target
    <3>4. Text(hf[p]) \in draft'[Target(p)]
      BY <1>1, <2>2, <3>2 DEF CanPaste
    <3>5. TypingOK(p)'
      BY <3>1, <3>3, <3>4 DEF TypingOK
    <3> QED
      BY <2>1, <3>1, <3>5, OnlyTyping DEF TargetHasHandoff, Pending
  <2> QED
    BY <1>3, <1>5, <2>1, <2>2 DEF Paste, ThenOrTimeout
<1>6. ASSUME Submit(p) PROVE PaneInv'
  <2>1. Pending /\ UNCHANGED handoff /\ lock = p
    BY <1>2, <1>6 DEF Submit, files
  <2>2. CASE /\ Target(p) \in endpoints /\ Goto(p, "mark") /\ Stay /\ UNCHANGED <<st, hf>>
             /\ inbox' = [inbox EXCEPT ![Target(p)] = draft[Target(p)]]
    <3>1. pc'[p] = "mark" /\ lock' = p
      BY <1>1, <2>1, <2>2 DEF Goto, Stay
    <3>2. Text(hf[p]) \in draft[Target(p)]
      BY <1>6, <2>2 DEF Submit, PaneInv, TypingOK
    <3>3. Target(p)' = Target(p) /\ Text(hf'[p]) = Text(hf[p])
      BY <2>2 DEF Target
    <3>4. Text(hf[p]) \in inbox'[Target(p)]
      BY <1>1, <2>2, <3>2
    <3>5. TypingOK(p)'
      BY <3>1, <3>3, <3>4 DEF TypingOK
    <3> QED
      BY <2>1, <3>1, <3>5, OnlyTyping DEF TargetHasHandoff, Pending
  <2> QED
    BY <1>3, <1>6, <2>1, <2>2 DEF Submit, ThenOrTimeout
<1>7. ASSUME Mark(p) PROVE PaneInv'
  <2>1. hf[p] = handoff /\ Pending /\ lock = p /\ handoff \in HandoffRecords
    BY <1>2, <1>7 DEF Mark, Pending, PaneInv, FileInv, TypeInv, TypeOK
  <2>2. handoff' = [handoff EXCEPT !.delivery = "delivered"] /\ pc'[p] = "advance"
        /\ lock' = p
    BY <1>1, <1>7, <2>1 DEF Mark, Goto, Stay
  <2>3. handoff'.toRole = handoff.toRole /\ Text(handoff') = Text(handoff)
    BY <2>1, <2>2 DEF HandoffRecords, Text
  <2>4. handoff.toRole \in endpoints => Text(handoff) \in inbox[handoff.toRole]
    BY <1>7, <2>1 DEF Mark, PaneInv, TypingOK, Target
  <2>5. TargetHasHandoff'
    BY <1>7, <2>3, <2>4 DEF TargetHasHandoff, Mark, session, panes
  <2>6. TypingOK(p)'
    BY <2>2 DEF TypingOK
  <2> QED
    BY <2>2, <2>5, <2>6, OnlyTyping
<1> QED
  BY <1>4, <1>5, <1>6, <1>7

\* A session is created with the delivered handoff in its target's prompt.
LEMMA CreatePanes ==
    ASSUME PaneInv, FileInv', NEW p \in Procs, Create(p)
    PROVE  PaneInv'
<1>1. Effective = workflow
  BY DEF Create, PaneInv, FileInv, StepOK
<1>2. UNCHANGED <<workflow, handoff>> /\ lock' = None
  BY DEF Create, Done, files
<1>3. ASSUME handoff # None, ~Pending, handoff.toRole \in endpoints'
      PROVE  Text(handoff) \in inbox'[handoff.toRole]
  <2>1. handoff \in HandoffRecords /\ handoff.delivery = "delivered"
    BY <1>3 DEF Pending, HandoffRecords, Delivery, PaneInv, FileInv, TypeInv, TypeOK
  <2>2. handoff.toRole = workflow.currentRole
    BY <1>1, <1>3 DEF PaneInv, FileInv, FilesOK, DeliveredIsApplied
  <2>3. Text(handoff) \in Brief(handoff.toRole) /\ handoff.toRole \in Roles
    BY <1>3, <2>1, <2>2 DEF Brief, HandoffRecords
  <2> QED
    BY <1>3, <2>3 DEF Create
<1>4. TargetHasHandoff'
  BY <1>2, <1>3 DEF TargetHasHandoff, Pending
<1> QED
  BY <1>2, <1>4, NobodyTyping
\* The steps that touch neither the handoff file nor a living pane.
LEMMA AsidePanes ==
    ASSUME PaneInv, FileInv', SharedServer = FALSE
    PROVE  /\ \A p \in Procs : ~LockedStep(p) /\ Process(p) => PaneInv'
           /\ \A p \in Procs :
                (\/ Reconcile(p) \/ Inspect(p) \/ AdvanceWorkflow(p) \/ Focus(p)
                 \/ Wipe(p) \/ Launch(p) \/ Kill(p) \/ TmuxFails(p)) => PaneInv'
           /\ Environment => PaneInv'
           /\ UNCHANGED vars => PaneInv'
<1>1. /\ pc \in [Procs -> Locked \cup Unlocked]
      /\ st \in [Procs -> WorkflowStates \cup {None}]
      /\ hf \in [Procs -> HandoffRecords \cup {None}]
      /\ draft \in [Roles -> SUBSET (Texts \cup {Foreign})]
      /\ inbox \in [Roles -> SUBSET (Texts \cup {Foreign})]
  BY DEF PaneInv, FileInv, TypeInv, TypeOK
<1> DEFINE Typing == {"paste", "submit", "mark"}
<1>2. ASSUME NEW p \in Procs, NEW l, l \notin Typing, Goto(p, l), UNCHANGED handoff,
             \A q \in Procs : q # p => hf'[q] = hf[q],
             endpoints' \subseteq endpoints, buffer' \in {buffer, None},
             \A r \in endpoints' : draft'[r] = draft[r] /\ inbox'[r] = inbox[r]
      PROVE  PaneInv'
  <2>1. \A q \in Procs : pc'[q] \in Typing => pc'[q] = pc[q] /\ hf'[q] = hf[q]
    BY <1>1, <1>2 DEF Goto
  <2> QED
    BY <1>2, <2>1, PanesAside
<1>3. ASSUME UNCHANGED <<handoff, pc, hf>>,
             endpoints' \subseteq endpoints, buffer' \in {buffer, None},
             \A r \in endpoints' : draft'[r] = draft[r] /\ inbox'[r] = inbox[r]
      PROVE  PaneInv'
  BY <1>3, PanesAside
<1>4. ASSUME NEW p \in Procs, Exit(p)
      PROVE  Goto(p, "idle") /\ \A q \in Procs : q # p => hf'[q] = hf[q]
  BY <1>1, <1>4 DEF Exit, Forgets
<1>5. ASSUME NEW p \in Procs, NEW l, NEW c, Continue(p, l, c)
      PROVE  Goto(p, l) /\ \A q \in Procs : q # p => hf'[q] = hf[q]
  BY <1>1, <1>5 DEF Continue, Forgets
<1>6. ASSUME NEW p \in Procs, Process(p), ~LockedStep(p) PROVE PaneInv'
  <2>1. CASE \E command \in Commands, arg \in PaneArgs : Invoke(p, command, arg)
    BY <1>2, <2>1 DEF Invoke, files, session, panes
  <2>2. CASE Acquire(p)
    <3>1. op[p] \in Calls
      BY <2>2 DEF Acquire, PaneInv, FileInv, TypeInv, CallInv
    <3>2. FirstStep[op[p]] \notin Typing
      BY <3>1 DEF FirstStep
    <3> QED
      BY <1>2, <2>2, <3>2 DEF Acquire, files, session, panes
  <2>3. CASE Check(p) \/ Confirm(p)
    BY <1>2, <1>4, <2>3 DEF Check, Confirm, files, session, panes
  <2>4. CASE Crash(p)
    BY <1>2, <1>4, <2>4 DEF Crash, files, session, panes
  <2> QED
    BY <1>6, <2>1, <2>2, <2>3, <2>4 DEF Process
<1>7. ASSUME NEW p \in Procs,
             \/ Reconcile(p) \/ Inspect(p) \/ AdvanceWorkflow(p) \/ Focus(p)
             \/ Wipe(p) \/ Launch(p) \/ Kill(p) \/ TmuxFails(p)
      PROVE  PaneInv'
  <2>1. CASE Reconcile(p)
    BY <1>2, <1>4, <1>5, <2>1 DEF Reconcile, Done, session, panes
  <2>2. ASSUME Inspect(p), hf' # [hf EXCEPT ![p] = handoff] PROVE PaneInv'
    BY <1>2, <1>4, <2>2 DEF Inspect, Done, files, session, panes
  <2>3. ASSUME Inspect(p), hf' = [hf EXCEPT ![p] = handoff] PROVE PaneInv'
    BY <1>1, <1>2, <1>4, <2>3 DEF Inspect, Done, files, session, panes
  <2>4. CASE AdvanceWorkflow(p) \/ Wipe(p)
    BY <1>2, <2>4 DEF AdvanceWorkflow, Wipe, session, panes
  <2>5. CASE Focus(p) \/ Launch(p) \/ TmuxFails(p)
    BY <1>2, <1>4, <2>5 DEF Focus, Launch, TmuxFails, Done, files, session, panes
  <2>6. CASE Kill(p)
    BY <1>2, <1>4, <2>6 DEF Kill, SessionGone, Done, files, session, panes
  <2> QED
    BY <1>7, <2>1, <2>2, <2>3, <2>4, <2>5, <2>6
<1>8. ASSUME Environment PROVE PaneInv'
  <2>1. CASE SessionEnds
    BY <1>3, <2>1 DEF SessionEnds, SessionGone, files, procs
  <2>2. ASSUME NEW r \in Roles, PaneDies(r) PROVE PaneInv'
    BY <1>1, <1>3, <2>2 DEF PaneDies, files, procs
  <2>3. ASSUME NEW x, UserFocuses(x) PROVE PaneInv'
    BY <1>3, <2>3 DEF UserFocuses, files, procs, panes
  <2> QED
    BY <1>8, <2>1, <2>2, <2>3 DEF Environment, OtherProject
<1>9. UNCHANGED vars => PaneInv'
  BY <1>3 DEF vars, files, procs, session, panes
<1> QED
  BY <1>6, <1>7, <1>8, <1>9
LEMMA PaneStep ==
    ASSUME PaneInv, [Next]_vars, SharedServer = FALSE
    PROVE  PaneInv'
<1>1. FileInv'
  BY FileStep DEF PaneInv
<1>2. ASSUME NEW p \in Procs, Capture(p) PROVE PaneInv'
  <2>1. CASE handoff' = handoff /\ Done(p)
    BY <1>1, <1>2, <2>1, NobodyTyping
    DEF Capture, Done, PaneInv, TargetHasHandoff, Pending, session, panes
  <2>2. CASE handoff'.delivery = "pending" /\ Goto(p, "load") /\ Stay
    <3>1. TargetHasHandoff'
      BY <2>2 DEF TargetHasHandoff, Pending
    <3>2. pc'[p] = "load" /\ lock' = p
      BY <1>2, <2>2, Holder
      DEF Capture, Goto, Stay, PaneInv, FileInv, TypeInv, TypeOK, Locked
    <3>3. TypingOK(p)'
      BY <3>2 DEF TypingOK
    <3> QED
      BY <1>1, <3>1, <3>2, <3>3, OnlyTyping
  <2> QED
    BY <1>2, <2>1, <2>2 DEF Capture
<1>3. ASSUME NEW p \in Procs, Unlink(p) PROVE PaneInv'
  BY <1>1, <1>3, NobodyTyping DEF Unlink, Continue, TargetHasHandoff
<1>4. ASSUME NEW p \in Procs, LockedStep(p) PROVE PaneInv'
  BY <1>1, <1>2, <1>3, <1>4, AsidePanes, DeliverPanes, CreatePanes DEF LockedStep
<1>5. ASSUME NEW p \in Procs, Process(p) PROVE PaneInv'
  BY <1>1, <1>4, <1>5, AsidePanes
<1> QED
  BY <1>1, <1>5, AsidePanes DEF Next

\* At-least-once delivery, on a tmux server of its own: what is recorded as delivered
\* has reached its target, through every crash, timeout and restart.
THEOREM TargetHasHandoffTheorem ==
    ASSUME SharedServer = FALSE
    PROVE  Spec => []TargetHasHandoff
<1>1. PaneInv /\ [Next]_vars => PaneInv'
  BY PaneStep
<1>2. PaneInv => TargetHasHandoff
  BY DEF PaneInv
<1> QED
  BY <1>1, <1>2, InitPanes, PTL DEF Spec

\* Only the pending handoff is typed, and only at its target.
THEOREM TypesOnlyPendingTheorem ==
    ASSUME SharedServer = FALSE
    PROVE  Spec => TypesOnlyPending
<1> DEFINE Types(r) ==
        \/ draft'[r] \subseteq draft[r]
        \/ Pending /\ r = handoff.toRole /\ draft'[r] \ draft[r] = {Text(handoff)}
<1>1. ASSUME PaneInv, [Next]_vars, NEW r \in Roles PROVE Types(r)
  <2>1. draft \in [Roles -> SUBSET (Texts \cup {Foreign})]
    BY <1>1 DEF PaneInv, FileInv, TypeInv, TypeOK
  <2>2. ASSUME NEW p \in Procs, Paste(p) PROVE Types(r)
    <3>1. CASE UNCHANGED draft
      BY <3>1
    <3>2. CASE /\ CanPaste(p)
               /\ draft' = [draft EXCEPT ![Target(p)] = @ \cup {buffer}]
      <4>1. buffer = Text(handoff) /\ Pending /\ Target(p) = handoff.toRole
        BY <1>1, <2>2, <3>2
        DEF Paste, CanPaste, PaneInv, FileInv, StepOK, TypingOK, Target
      <4> QED
        BY <2>1, <3>2, <4>1
    <3> QED
      BY <2>2, <3>1, <3>2 DEF Paste
  <2>3. ASSUME NEW p \in Procs, Submit(p) PROVE draft'[r] \subseteq draft[r]
    BY <2>1, <2>3 DEF Submit, panes
  <2>4. ASSUME NEW p \in Procs, LockedStep(p), ~Paste(p) PROVE draft'[r] \subseteq draft[r]
    BY <2>3, <2>4
    DEF LockedStep, Reconcile, Inspect, Capture, Load, Mark, AdvanceWorkflow, Focus, Wipe,
        Unlink, Launch, Create, Kill, TmuxFails, SessionGone, panes
  <2>5. ASSUME NEW p \in Procs, Process(p), ~LockedStep(p) PROVE draft'[r] \subseteq draft[r]
    BY <2>5 DEF Process, Invoke, Acquire, Check, Confirm, Crash, panes
  <2>6. ASSUME Environment PROVE draft'[r] \subseteq draft[r]
    BY <2>1, <2>6
    DEF Environment, SessionEnds, SessionGone, PaneDies, UserFocuses, OtherProject, panes
  <2> QED
    BY <1>1, <2>2, <2>4, <2>5, <2>6 DEF Next, vars, panes
<1> DEFINE TypesAll ==
        \A r \in Roles : draft'[r] \subseteq draft[r]
            \/ (Pending /\ r = handoff.toRole /\ draft'[r] \ draft[r] = {Text(handoff)})
<1>2. PaneInv /\ [Next]_vars => TypesAll
  BY <1>1
<1>3. PaneInv /\ [Next]_vars => PaneInv'
  BY PaneStep
<1>4. UNCHANGED vars => TypesAll
  BY DEF vars, panes
<1> QED
  BY <1>2, <1>3, <1>4, InitPanes, PTL DEF Spec, TypesOnlyPending
=============================================================================
