------------------------------ MODULE Workflow ------------------------------
(***************************************************************************)
(* One project's relay as the code runs it: CLI processes that take the    *)
(* project lock and then read and write workflow.json and handoff.json and *)
(* drive tmux, one system call after the other.  Any process may die       *)
(* between two of its steps (the kernel then drops its lock), any tmux     *)
(* command may fail or time out, panes and the session may disappear.      *)
(*                                                                         *)
(* Every label of pc is a place where the process can be interrupted: a    *)
(* step between two labels has at most one effect outside the process.     *)
(***************************************************************************)
EXTENDS Handoffs

CONSTANTS
    Procs,          \* CLI processes that can be alive at once
    Commands,       \* the commands users issue
    Layout,         \* the session's layout, "panes" or "windows"
    SharedServer,   \* another project uses the same tmux server
    Foreign,        \* a text that belongs to that other project
    UserPanes,      \* bound: the panes the user moves the focus to
    FragilePanes,   \* bound: the roles whose program may exit on its own
    MaxTransfers    \* bound: no next is issued once this id is used

VARIABLES
    workflow,       \* workflow.json
    handoff,        \* handoff.json, None when there is no file
    lock,           \* the process that holds state.lock, None when free
    pc,             \* where each process is
    op,             \* the service call it is in
    pane,           \* the --pane of its next, None from a shell
    st,             \* its local state (WorkflowState)
    hf,             \* its local handoff
    up,             \* the tmux session exists
    endpoints,      \* the roles that have a pane in it
    active,         \* the pane tmux marks active
    draft,          \* texts in each role's input line, pasted and not submitted
    inbox,          \* what each role was last given, by a submission or at startup
    buffer          \* tmux buffer "atcode-transfer"

files   == <<workflow, handoff>>
procs   == <<pc, op, pane, st, hf>>
session == <<up, endpoints, active>>
panes   == <<draft, inbox>>
vars    == <<files, lock, procs, session, panes, buffer>>

AllCommands == {"next", "status", "fresh", "start", "stop"}
Calls       == AllCommands \cup {"reset"}

\* The first step under the lock, per service call.
FirstStep == [c \in Calls |->
    IF c = "reset" THEN "wipe" ELSE IF c = "start" THEN "launch"
    ELSE IF c = "stop" THEN "kill" ELSE "reconcile"]

Delivering   == {"load", "paste", "submit", "mark", "advance", "focus"}
\* Steps of next that still rely on the state read at its start.
HoldingState == {"inspect", "capture", "load", "paste", "submit", "mark", "advance"}
Locked       == {"reconcile", "inspect", "capture", "wipe", "unlink", "launch",
                 "create", "kill"} \cup Delivering
Unlocked     == {"idle", "check", "confirm", "lock"}
\* Steps that run a tmux command, so that can fail without any effect.
UsesTmux     == {"inspect", "capture", "load", "paste", "submit", "launch",
                 "create", "kill"}

PaneArgs == Roles \cup {"other", None}

ConstantsAssumption ==
    /\ None \notin Procs
    /\ Commands \subseteq AllCommands
    /\ Layout \in {"panes", "windows"}
    /\ SharedServer \in BOOLEAN
    /\ MaxTransfers \in Nat
    /\ UserPanes \subseteq Roles \cup {"other"}
    /\ FragilePanes \subseteq Roles
    /\ None \notin PaneArgs \ {None}
    /\ Foreign # None
    /\ None \notin WorkflowStates
ASSUME ConstantsOK == ConstantsAssumption

Init ==
    /\ workflow = InitialWorkflow
    /\ handoff = None
    /\ lock = None
    /\ pc = [p \in Procs |-> "idle"]
    /\ op = [p \in Procs |-> None]
    /\ pane = [p \in Procs |-> None]
    /\ st = [p \in Procs |-> None]
    /\ hf = [p \in Procs |-> None]
    /\ up = FALSE
    /\ endpoints = {}
    /\ active = "other"
    /\ draft = [r \in Roles |-> {}]
    /\ inbox = [r \in Roles |-> {}]
    /\ buffer = None

-----------------------------------------------------------------------------
(* Leaving a service call: the with block releases the lock on every path. *)

Goto(p, label) == pc' = [pc EXCEPT ![p] = label]

Forgets(p) ==
    /\ st' = [st EXCEPT ![p] = None]
    /\ hf' = [hf EXCEPT ![p] = None]

\* The process ends, with or without an error.
Exit(p) ==
    /\ Goto(p, "idle")
    /\ op' = [op EXCEPT ![p] = None]
    /\ pane' = [pane EXCEPT ![p] = None]
    /\ Forgets(p)

\* The call returns or raises: its lock is released and the process ends.
Done(p) == lock' = None /\ Exit(p)

\* The call returns and the CLI goes on with another one.
Continue(p, label, call) ==
    /\ lock' = None
    /\ Goto(p, label)
    /\ op' = [op EXCEPT ![p] = call]
    /\ Forgets(p)
    /\ UNCHANGED pane

Stay == UNCHANGED <<lock, op, pane>>

-----------------------------------------------------------------------------
(* A command starts and takes the project lock.                            *)

IdsLeft ==
    /\ reconcile_state(workflow, handoff).lastTransferId < MaxTransfers
    /\ handoff # None => handoff.transferId <= MaxTransfers

Invoke(p, command, arg) ==
    /\ pc[p] = "idle"
    /\ command \in Commands
    /\ command # "next" => arg = None
    /\ command = "next" => IdsLeft
    /\ arg # None => up /\ arg = active    \* the key binding names the active pane
    /\ Goto(p, IF command = "fresh" THEN "check" ELSE "lock")
    /\ op' = [op EXCEPT ![p] = command]
    /\ pane' = [pane EXCEPT ![p] = arg]
    /\ UNCHANGED <<files, lock, st, hf, session, panes, buffer>>

\* Mutant: the lock does not exclude.
AcquireShared(p) ==
    /\ pc[p] = "lock"
    /\ lock' = p
    /\ Goto(p, FirstStep[op[p]])
    /\ UNCHANGED <<files, op, pane, st, hf, session, panes, buffer>>

Acquire(p) ==
    /\ pc[p] = "lock"
    /\ lock = None
    /\ lock' = p
    /\ Goto(p, FirstStep[op[p]])
    /\ UNCHANGED <<files, op, pane, st, hf, session, panes, buffer>>

\* Mutant: --fresh keeps the lock while it waits for the user's answer.
ReconcileKeepsLock(p) ==
    /\ pc[p] = "reconcile"
    /\ workflow' = reconcile_state(workflow, handoff)
    /\ \/ op[p] = "next" /\ Goto(p, "inspect") /\ st' = [st EXCEPT ![p] = workflow']
          /\ Stay /\ UNCHANGED hf
       \/ op[p] = "status" /\ Done(p)
       \/ op[p] = "fresh" /\ Goto(p, "confirm") /\ Stay /\ UNCHANGED <<st, hf>>
    /\ UNCHANGED <<handoff, session, panes, buffer>>

\* _reconcile_unlocked, the first thing next and current do.
Reconcile(p) ==
    /\ pc[p] = "reconcile"
    /\ workflow' = reconcile_state(workflow, handoff)
    /\ \/ /\ op[p] = "next"
          /\ Goto(p, "inspect")
          /\ st' = [st EXCEPT ![p] = workflow']
          /\ Stay /\ UNCHANGED hf
       \/ op[p] = "status" /\ Done(p)
       \/ op[p] = "fresh" /\ Continue(p, "confirm", "fresh")
    /\ UNCHANGED <<handoff, session, panes, buffer>>

-----------------------------------------------------------------------------
(* next: find the source role, then retry the pending handoff or capture.  *)

Healthy == up /\ endpoints = Roles

\* The roles whose endpoint matches --pane or, without it, is marked active;
\* tmux marks one pane per window, so with three windows all of them.
ResolveSource(arg) ==
    IF arg # None THEN endpoints \cap {arg}
    ELSE IF Layout = "panes" THEN endpoints \cap {active} ELSE endpoints

IsTurn(p) == Healthy /\ ResolveSource(pane[p]) = {st[p].currentRole}

Pending == handoff # None /\ handoff.delivery = "pending"

ValidPending(p) ==
    /\ handoff.fromRole = st[p].currentRole
    /\ handoff.toRole = NextRole[st[p].currentRole]
    /\ handoff.transferId > st[p].lastTransferId

\* Mutant: a pending handoff is not retried but captured over.
InspectCapturesAlways(p) ==
    /\ pc[p] = "inspect"
    /\ \/ IsTurn(p) /\ Goto(p, "capture") /\ Stay /\ UNCHANGED <<st, hf>>
       \/ ~IsTurn(p) /\ Done(p)
    /\ UNCHANGED <<files, session, panes, buffer>>

Inspect(p) ==
    /\ pc[p] = "inspect"
    /\ \/ /\ IsTurn(p) /\ Pending /\ ValidPending(p)
          /\ Goto(p, "load")
          /\ hf' = [hf EXCEPT ![p] = handoff]
          /\ Stay /\ UNCHANGED st
       \/ /\ IsTurn(p) /\ ~Pending
          /\ Goto(p, "capture")
          /\ Stay /\ UNCHANGED <<st, hf>>
       \/ /\ ~IsTurn(p) \/ (Pending /\ ~ValidPending(p))
          /\ Done(p)
    /\ UNCHANGED <<files, session, panes, buffer>>

\* Mutant: the digest of the last handoff is not compared.
FreshAny(p, out) ==
    st[p].currentRole \in endpoints /\ Parses(out, st[p].currentRole)

\* The output is whatever the role has printed by now.
Fresh(p, out) ==
    LET source == st[p].currentRole IN
    /\ source \in endpoints
    /\ Parses(out, source)
    /\ st[p].lastDigests[source] # Digest(source, out.decision, out.body)

Capture(p) ==
    /\ pc[p] = "capture"
    /\ \E out \in Outputs :
        \/ /\ Fresh(p, out)
           /\ handoff' =
                [transferId |-> st[p].lastTransferId + 1,
                 fromRole   |-> st[p].currentRole,
                 toRole     |-> NextRole[st[p].currentRole],
                 decision   |-> out.decision,
                 delivery   |-> "pending",
                 body       |-> out.body]
           /\ hf' = [hf EXCEPT ![p] = handoff']
           /\ Goto(p, "load")
           /\ Stay /\ UNCHANGED st
        \/ ~Fresh(p, out) /\ Done(p) /\ UNCHANGED handoff
    /\ UNCHANGED <<workflow, session, panes, buffer>>

-----------------------------------------------------------------------------
(* _deliver: three tmux commands, two files, and the focus.  A command     *)
(* that times out may have taken effect although the call raises.          *)

\* Mutant: the text goes to the pane that has the focus.
TargetActive(p) == active

Target(p) == hf[p].toRole

\* The call returned, or it timed out after the effect.
ThenOrTimeout(p, label) ==
    \/ Goto(p, label) /\ Stay /\ UNCHANGED <<st, hf>>
    \/ Done(p)

Load(p) ==
    /\ pc[p] = "load"
    /\ \/ /\ Target(p) \in endpoints
          /\ buffer' = Text(hf[p])
          /\ ThenOrTimeout(p, "paste")
       \/ Target(p) \notin endpoints /\ Done(p) /\ UNCHANGED buffer
    /\ UNCHANGED <<files, session, panes>>

\* paste-buffer -d: whatever is in the buffer, which is then deleted.
CanPaste(p) == buffer # None /\ Target(p) \in endpoints

Paste(p) ==
    /\ pc[p] = "paste"
    /\ \/ /\ CanPaste(p)
          /\ draft' = [draft EXCEPT ![Target(p)] = @ \cup {buffer}]
          /\ buffer' = None
          /\ ThenOrTimeout(p, "submit")
       \/ ~CanPaste(p) /\ Done(p) /\ UNCHANGED <<draft, buffer>>
    /\ UNCHANGED <<files, session, inbox>>

\* send-keys Enter.
Submit(p) ==
    /\ pc[p] = "submit"
    /\ \/ /\ Target(p) \in endpoints
          /\ inbox' = [inbox EXCEPT ![Target(p)] = draft[Target(p)]]
          /\ draft' = [draft EXCEPT ![Target(p)] = {}]
          /\ ThenOrTimeout(p, "mark")
       \/ Target(p) \notin endpoints /\ Done(p) /\ UNCHANGED panes
    /\ UNCHANGED <<files, session, buffer>>

\* Mutant: the workflow file is written before the handoff file.
MarkAdvancesFirst(p) ==
    /\ pc[p] = "mark"
    /\ workflow' = Advance(st[p], hf[p])
    /\ Goto(p, "advance")
    /\ Stay /\ UNCHANGED <<handoff, st, hf, session, panes, buffer>>

Mark(p) ==
    /\ pc[p] = "mark"
    /\ handoff' = [hf[p] EXCEPT !.delivery = "delivered"]
    /\ hf' = [hf EXCEPT ![p] = handoff']
    /\ Goto(p, "advance")
    /\ Stay /\ UNCHANGED <<workflow, st, session, panes, buffer>>

AdvanceWorkflow(p) ==
    /\ pc[p] = "advance"
    /\ workflow' = Advance(st[p], hf[p])
    /\ Goto(p, "focus")
    /\ Stay /\ UNCHANGED <<handoff, st, hf, session, panes, buffer>>

\* focus_role; a failure is only a warning.
Focus(p) ==
    /\ pc[p] = "focus"
    /\ active' \in {active} \cup (endpoints \cap {Target(p)})
    /\ Done(p)
    /\ UNCHANGED <<files, up, endpoints, panes, buffer>>

-----------------------------------------------------------------------------
(* start --fresh: an unlocked check, current(), a question, then reset().  *)

Check(p) ==
    /\ pc[p] = "check"
    /\ \/ ~up /\ Goto(p, "lock") /\ UNCHANGED <<op, pane, st, hf>>
       \/ Exit(p)           \* the session is running, or tmux failed
    /\ UNCHANGED <<files, lock, session, panes, buffer>>

Confirm(p) ==
    /\ pc[p] = "confirm"
    /\ \/ /\ Goto(p, "lock")
          /\ op' = [op EXCEPT ![p] = "reset"]
          /\ UNCHANGED <<pane, st, hf>>
       \/ Exit(p)           \* cancelled
    /\ UNCHANGED <<files, lock, session, panes, buffer>>

\* Mutant: reset begins with the handoff file.
WipeHandoffFirst(p) ==
    /\ pc[p] = "wipe"
    /\ handoff' = None
    /\ Goto(p, "unlink")
    /\ Stay /\ UNCHANGED <<workflow, st, hf, session, panes, buffer>>

Wipe(p) ==
    /\ pc[p] = "wipe"
    /\ workflow' = InitialWorkflow
    /\ Goto(p, "unlink")
    /\ Stay /\ UNCHANGED <<handoff, st, hf, session, panes, buffer>>

\* delete_handoff; the CLI goes on with an ordinary start.
Unlink(p) ==
    /\ pc[p] = "unlink"
    /\ handoff' = None
    /\ Continue(p, "lock", "start")
    /\ UNCHANGED <<workflow, session, panes, buffer>>

-----------------------------------------------------------------------------
(* start and stop, as far as the relay sees them (state.json is left out). *)

\* Mutant: start builds the prompts from the workflow file as it is.
LaunchUnreconciled(p) ==
    /\ pc[p] = "launch"
    /\ \/ up /\ Done(p)
       \/ ~up /\ Goto(p, "create") /\ Stay /\ UNCHANGED <<st, hf>>
    /\ UNCHANGED <<files, session, panes, buffer>>

\* A live session is only reported; without one the workflow is reconciled.
Launch(p) ==
    /\ pc[p] = "launch"
    /\ \/ up /\ Done(p) /\ UNCHANGED workflow
       \/ /\ ~up
          /\ workflow' = reconcile_state(workflow, handoff)
          /\ Goto(p, "create")
          /\ Stay /\ UNCHANGED <<st, hf>>
    /\ UNCHANGED <<handoff, session, panes, buffer>>

\* StartupPromptBuilder.build: what a role finds in its first prompt.
Brief(role) ==
    IF /\ role = workflow.currentRole
       /\ handoff # None
       /\ handoff.delivery = "delivered"
       /\ handoff.toRole = role
    THEN {Text(handoff)} ELSE {}

\* The panes are made in this order, PM first; what is left when creation or its
\* rollback is interrupted is a prefix.
Prefixes == {{}, {"pm"}, {"pm", "developer"}, Roles}

Create(p) ==
    /\ pc[p] = "create"
    /\ ~up
    /\ up' = TRUE
    /\ endpoints' \in Prefixes
    /\ active' = IF endpoints' = {} THEN "other" ELSE "pm"
    /\ inbox' = [r \in Roles |-> IF r \in endpoints' THEN Brief(r) ELSE {}]
    /\ draft' = [r \in Roles |-> {}]
    /\ Done(p)
    /\ UNCHANGED <<files, buffer>>

\* The session is gone, and with it the server's buffer if it was the last one.
SessionGone ==
    /\ up' = FALSE
    /\ endpoints' = {}
    /\ active' = "other"
    /\ draft' = [r \in Roles |-> {}]
    /\ inbox' = [r \in Roles |-> {}]
    /\ buffer' \in {buffer, None}

Kill(p) ==
    /\ pc[p] = "kill"
    /\ \/ up /\ SessionGone
       \/ ~up /\ UNCHANGED <<session, panes, buffer>>
    /\ Done(p)
    /\ UNCHANGED files

-----------------------------------------------------------------------------
(* Failures and the world around the processes.                            *)

\* A tmux command fails, or times out before it had an effect.
TmuxFails(p) ==
    /\ pc[p] \in UsesTmux
    /\ Done(p)
    /\ UNCHANGED <<files, session, panes, buffer>>

\* The process dies: killed, an uncaught OSError, the machine going down.
Crash(p) ==
    /\ pc[p] # "idle"
    /\ lock' = IF lock = p THEN None ELSE lock
    /\ Exit(p)
    /\ UNCHANGED <<files, session, panes, buffer>>

SessionEnds ==
    /\ up
    /\ SessionGone
    /\ UNCHANGED <<files, lock, procs>>

\* A role's program exits and tmux closes its pane.
PaneDies(r) ==
    /\ r \in FragilePanes
    /\ r \in endpoints /\ endpoints # {r}
    /\ endpoints' = endpoints \ {r}
    /\ active' \in IF active = r THEN endpoints' ELSE {active}
    /\ draft' = [draft EXCEPT ![r] = {}]
    /\ inbox' = [inbox EXCEPT ![r] = {}]
    /\ UNCHANGED <<files, lock, procs, up, buffer>>

UserFocuses(x) ==
    /\ x \in UserPanes
    /\ up /\ x \in endpoints \cup {"other"}
    /\ active' = x
    /\ UNCHANGED <<files, lock, procs, up, endpoints, panes, buffer>>

\* A next of another project loads its own text, or pastes and deletes it.
OtherProject ==
    /\ SharedServer
    /\ buffer' \in {Foreign, None}
    /\ UNCHANGED <<files, lock, procs, session, panes>>

-----------------------------------------------------------------------------
\* A step of a process inside its service call.
LockedStep(p) ==
    \/ Reconcile(p) \/ Inspect(p) \/ Capture(p)
    \/ Load(p) \/ Paste(p) \/ Submit(p)
    \/ Mark(p) \/ AdvanceWorkflow(p) \/ Focus(p)
    \/ Wipe(p) \/ Unlink(p)
    \/ Launch(p) \/ Create(p) \/ Kill(p)
    \/ TmuxFails(p)

Process(p) ==
    \/ \E command \in Commands, arg \in PaneArgs : Invoke(p, command, arg)
    \/ Acquire(p) \/ LockedStep(p)
    \/ Check(p) \/ Confirm(p)
    \/ Crash(p)

Environment ==
    \/ SessionEnds
    \/ \E r \in Roles : PaneDies(r)
    \/ \E x \in Roles \cup {"other"} : UserFocuses(x)
    \/ OtherProject

Next == (\E p \in Procs : Process(p)) \/ Environment

Spec == Init /\ [][Next]_vars

\* The kernel runs a process that holds the lock (every tmux call times out after
\* 15 s), and flock serves its queue of waiters.  The user's answer is not assumed.
Fairness == \A p \in Procs : WF_vars(LockedStep(p)) /\ SF_vars(Acquire(p))

FairSpec == Spec /\ Fairness
-----------------------------------------------------------------------------
(* Properties.                                                             *)

TypeOK ==
    /\ workflow \in WorkflowStates
    /\ handoff \in HandoffRecords \cup {None}
    /\ lock \in Procs \cup {None}
    /\ pc \in [Procs -> Locked \cup Unlocked]
    /\ op \in [Procs -> Calls \cup {None}]
    /\ pane \in [Procs -> PaneArgs]
    /\ st \in [Procs -> WorkflowStates \cup {None}]
    /\ hf \in [Procs -> HandoffRecords \cup {None}]
    /\ up \in BOOLEAN
    /\ endpoints \subseteq Roles
    /\ active \in Roles \cup {"other"}
    /\ draft \in [Roles -> SUBSET (Texts \cup {Foreign})]
    /\ inbox \in [Roles -> SUBSET (Texts \cup {Foreign})]
    /\ buffer \in Texts \cup {Foreign, None}

\* next reads the workflow once, then makes up to eight tmux calls and two file
\* writes with it: what it read, and the handoff it is sending, are still what the
\* files say when it uses them, whatever the other processes did meanwhile.
ReadsStayCurrent ==
    \A p \in Procs :
        /\ pc[p] \in HoldingState => st[p] = workflow
        /\ pc[p] \in {"load", "paste", "submit", "mark"} => Pending /\ hf[p] = handoff
        /\ pc[p] = "advance" => hf[p] = handoff

\* The workflow as every reader sees it, after reconciliation.
Effective == reconcile_state(workflow, handoff)

\* Between any two steps, crashes included, a handoff recorded as delivered is the
\* last transfer of the (reconciled) workflow and it is its target's turn: a crash
\* between the two files of _deliver neither loses nor repeats a transition.
DeliveredIsApplied ==
    handoff # None /\ ~Pending =>
        /\ Effective.lastTransferId = handoff.transferId
        /\ Effective.currentRole = handoff.toRole
        /\ Effective.lastDigests[handoff.fromRole] = DigestOf(handoff)

\* A pending handoff that survives a crash, a restart or an interrupted reset is
\* never taken for an old one: its id is unused and its digest not yet recorded.
PendingIsNew ==
    Pending =>
        /\ handoff.transferId > workflow.lastTransferId
        /\ handoff.toRole = NextRole[handoff.fromRole]
        /\ workflow.lastDigests[handoff.fromRole] # DigestOf(handoff)

\* A captured handoff that was not delivered is never captured over: it stays on file
\* until it is delivered, or until --fresh removes it after wiping the workflow.
KeepsPending ==
    [][Pending => \/ handoff' = handoff
                  \/ handoff' = [handoff EXCEPT !.delivery = "delivered"]
                  \/ handoff' = None /\ workflow = InitialWorkflow]_vars

\* At-least-once delivery: while the target's pane lives, a handoff recorded as
\* delivered is in the last thing that role was given, submitted into its pane or
\* in the startup prompt of a later session.
TargetHasHandoff ==
    handoff # None /\ ~Pending /\ handoff.toRole \in endpoints =>
        Text(handoff) \in inbox[handoff.toRole]

\* The role whose turn it is has been given the transfer that made it its turn, through
\* every crash, restart and reset; only a pending handoff, its own, takes that one's place
\* on file, and then a restart has nothing to restore (RestartRestoresHandoff).
TurnHasHandoff ==
    LET turn == Effective.currentRole IN
    Effective.lastTransferId > 0 /\ ~Pending /\ turn \in endpoints =>
        /\ handoff # None /\ handoff.transferId = Effective.lastTransferId
        /\ Text(handoff) \in inbox[turn]

\* A transfer that is recorded as delivered is never typed again: into an input
\* line goes only the pending handoff, and only at its target.
TypesOnlyPending ==
    [][\A r \in Roles : draft'[r] \subseteq draft[r]
        \/ (Pending /\ r = handoff.toRole /\ draft'[r] \ draft[r] = {Text(handoff)})]_vars

\* The workflow file moves only by a handoff already on file as delivered, one
\* transfer at a time, or to the initial state by --fresh.
AdvancesByDelivery ==
    [][\/ workflow' = workflow
       \/ workflow' = InitialWorkflow
       \/ Unapplied(workflow, handoff) /\ workflow' = Advance(workflow, handoff)]_vars

\* The files, processes and panes together implement the abstract relay.
R == INSTANCE Relay WITH state <- Effective
ImplementsRelay == R!Spec
RelayHistory == R!StateShowsHistory

\* The lock is never left behind, not by a call that raises, a death, the question of
\* --fresh or the calls that follow it: whoever has it is inside its service call, at a
\* step that waits neither for the user nor for another process.
LockHasWorker == lock # None => pc[lock] \in Locked

\* Every command that waits for the project lock gets it, whoever crashes, and
\* whoever is asked to confirm --fresh and never answers.
LockIsGranted == \A p \in Procs : pc[p] = "lock" ~> pc[p] # "lock"

-----------------------------------------------------------------------------
(* What the documents say and the code does not do.                        *)

\* "Stop the project session before using --fresh.": nothing is reset while the
\* session runs.
FreshOnlyWhenStopped ==
    [][\A p \in Procs : pc[p] = "wipe" /\ pc'[p] = "unlink" => ~up]_vars

\* "The next atcode next retries the same pending transfer first", and the relay
\* "stays at the source role": with no command running, a pending handoff is from
\* the role whose turn it is.
PendingFromTurn ==
    Pending /\ lock = None => handoff.fromRole = workflow.currentRole

\* "atcode next in a shell uses the current role of workflow.json": with a healthy
\* session it finds that role.
ShellNextUsesTurn ==
    \A p \in Procs :
        pc[p] = "inspect" /\ pane[p] = None /\ Healthy => IsTurn(p)

\* "After a session is created again the current role and the latest delivered
\* handoff are restored."
RestartRestoresHandoff ==
    [][\A p \in Procs :
        /\ pc[p] = "create" /\ up' /\ endpoints' = Roles
        /\ workflow.lastTransferId > 0
        => inbox'[workflow.currentRole] # {}]_vars
=============================================================================
