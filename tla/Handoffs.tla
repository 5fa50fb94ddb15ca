------------------------------ MODULE Handoffs ------------------------------
(***************************************************************************)
(* The value objects of the relay and the pure functions over them: roles, *)
(* decisions, handoffs, the workflow state, and the two functions that     *)
(* every service shares, transition and reconcile_state.                   *)
(*                                                                         *)
(* A body is an opaque value.  A digest is SHA-256 over role, decision and *)
(* body, so it is modelled by that triple: two digests are equal exactly   *)
(* when the triples are (no collisions).  Timestamps are left out.         *)
(***************************************************************************)
EXTENDS Integers

CONSTANTS
    Bodies,     \* the texts a role can put between the handoff markers
    None        \* "nothing there": no file, no digest, no buffer, no process

Roles     == {"pm", "developer", "reviewer"}
Decisions == {"ready", "approved", "rejected"}
Statuses  == {"idle", "active", "rework", "complete"}
Delivery  == {"pending", "delivered"}

\* The fixed relay order.
NextRole == [r \in Roles |->
    IF r = "pm" THEN "developer" ELSE IF r = "developer" THEN "reviewer" ELSE "pm"]

\* What each role may put on its STATUS line.
Allowed == [r \in Roles |->
    IF r = "reviewer" THEN {"approved", "rejected"} ELSE {"ready"}]

\* The latest block in a role's pane, as the parser sees it: None when there is
\* no complete block; body None when the body is empty or above 32 KiB.
Outputs == [decision: Decisions, body: Bodies \cup {None}] \cup {None}

\* Mutant: an empty or oversize body is let through.
ParsesAnyBody(out, role) == out # None /\ out.decision \in Allowed[role]

\* HandoffParser.parse: which outputs it accepts from which role.
Parses(out, role) ==
    /\ out # None
    /\ out.decision \in Allowed[role]
    /\ out.body # None

Digests == [role: Roles, decision: Decisions, body: Bodies]
Digest(role, decision, body) == [role |-> role, decision |-> decision, body |-> body]

WorkflowStates ==
    [status: Statuses, currentRole: Roles, round: Nat, lastTransferId: Nat,
     lastDigests: [Roles -> Digests \cup {None}]]

InitialWorkflow ==
    [status |-> "idle", currentRole |-> "pm", round |-> 0, lastTransferId |-> 0,
     lastDigests |-> [r \in Roles |-> None]]

HandoffRecords ==
    [transferId: Nat, fromRole: Roles, toRole: Roles, decision: Decisions,
     delivery: Delivery, body: Bodies]

DigestOf(h) == Digest(h.fromRole, h.decision, h.body)

\* The text pasted into a pane: envelope and body.  The decision is not in it.
Text(h) == [id |-> h.transferId, from |-> h.fromRole, to |-> h.toRole, body |-> h.body]
Texts   == [id: Nat, from: Roles, to: Roles, body: Bodies]

StatusAfter(source, decision) ==
    IF source # "reviewer" THEN "active"
    ELSE IF decision = "approved" THEN "complete" ELSE "rework"

\* Mutant: every handoff of the PM opens a further round.
RoundAfterGrows(state, source) == IF source # "pm" THEN state.round ELSE state.round + 1

RoundAfter(state, source) ==
    IF source # "pm" THEN state.round
    ELSE IF state.status = "rework" THEN state.round + 1 ELSE 1

transition(state, source, decision, transferId, digest) ==
    [status         |-> StatusAfter(source, decision),
     currentRole    |-> NextRole[source],
     round          |-> RoundAfter(state, source),
     lastTransferId |-> transferId,
     lastDigests    |-> [state.lastDigests EXCEPT ![source] = digest]]

\* transition applied to a whole handoff record.
Advance(state, h) ==
    transition(state, h.fromRole, h.decision, h.transferId, DigestOf(h))

\* Mutant: >= lets an applied handoff be applied a second time.
UnappliedOrEqual(state, h) ==
    h # None /\ h.delivery = "delivered" /\ h.transferId >= state.lastTransferId

\* Mutant: off by one, the very next transfer is not applied.
UnappliedLater(state, h) ==
    h # None /\ h.delivery = "delivered" /\ h.transferId > state.lastTransferId + 1

\* A handoff file says something the workflow file does not know yet.
Unapplied(state, h) ==
    /\ h # None
    /\ h.delivery = "delivered"
    /\ h.transferId > state.lastTransferId

reconcile_state(state, h) ==
    IF Unapplied(state, h) THEN Advance(state, h) ELSE state

NoneAssumption ==
    None \notin Bodies \cup Roles \cup Digests \cup Texts \cup HandoffRecords
                \cup [decision: Decisions, body: Bodies \cup {None}]
ASSUME NoneIsNothing == NoneAssumption
=============================================================================
