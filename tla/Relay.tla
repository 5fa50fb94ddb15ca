------------------------------- MODULE Relay --------------------------------
(***************************************************************************)
(* What the relay promises, without files, locks, panes or processes: one  *)
(* state, changed by accepting a transfer from the role whose turn it is.  *)
(*                                                                         *)
(* The state is the workflow a reader would see after reconciliation, so   *)
(* a transfer counts from the moment its handoff is recorded as delivered. *)
(***************************************************************************)
EXTENDS Handoffs

VARIABLE state

Init == state = InitialWorkflow

\* Ids are consecutive.  The first transfer after a reset may instead keep the
\* id of a pending handoff that an interrupted reset left behind.
NextId(id) == id = state.lastTransferId + 1 \/ (state = InitialWorkflow /\ id \in Nat \ {0})

\* The role whose turn it is hands over something it did not hand over last time.
Accept(source, decision, body, id) ==
    /\ source = state.currentRole
    /\ decision \in Allowed[source]
    /\ state.lastDigests[source] # Digest(source, decision, body)
    /\ NextId(id)
    /\ state' = transition(state, source, decision, id, Digest(source, decision, body))

\* start --fresh forgets everything ...
Forget == state' = InitialWorkflow

\* ... or, seen between its two file operations or interrupted there, everything
\* but the last transfer, which is then applied to the initial state.
ForgetAllButLast ==
    \E source \in Roles, d \in Digests :
        /\ state.currentRole = NextRole[source]
        /\ state.lastDigests[source] = d
        /\ state' = transition(InitialWorkflow, source, d.decision,
                               state.lastTransferId, d)

\* The id is the new state's, so that no step ranges over the naturals.
Next ==
    \/ \E source \in Roles, decision \in Decisions, body \in Bodies :
            Accept(source, decision, body, state'.lastTransferId)
    \/ Forget
    \/ ForgetAllButLast

Spec == Init /\ [][Next]_state

-----------------------------------------------------------------------------
\* The state shows its history: whose turn it is and the status are those that the
\* last transfer's decision calls for, and a round above the first is under way only
\* while the reviewer's last word is a rejection.
StateShowsHistory ==
    /\ \/ state = InitialWorkflow
       \/ \E source \in Roles :
            /\ state.currentRole = NextRole[source]
            /\ state.lastDigests[source] # None
            /\ state.lastDigests[source].decision \in Allowed[source]
            /\ state.status = StatusAfter(source, state.lastDigests[source].decision)
    /\ state.round > 1 /\ state.status = "active" =>
            /\ state.lastDigests["reviewer"] # None
            /\ state.lastDigests["reviewer"].decision = "rejected"
=============================================================================
