------------------------------ MODULE Session -------------------------------
(***************************************************************************)
(* The life of one project's tmux session: start, stop and status of the   *)
(* session service, the tmux commands a creation consists of with its      *)
(* rollback, and state.json, the cache of what was last observed.          *)
(*                                                                         *)
(* Besides the processes of this installation, which share the project     *)
(* lock, the session name can be taken by a rival: the user, or another    *)
(* installation, whose lock is another file.  Timestamps are left out.     *)
(***************************************************************************)
EXTENDS Naturals

CONSTANTS
    Procs,      \* CLI processes that can be alive at once
    Rival,      \* who else may create a session of this name
    None        \* no session, no record, no process

VARIABLES
    config,     \* the configured layout
    sess,       \* the tmux session: its creator, layout and panes per role
    recorded,   \* the status in state.json, None without the file
    lock,       \* the process that holds state.lock
    pc, op,     \* where each process is, and in which call
    layout,     \* the layout each process read
    seen,       \* the status each process is about to record
    stale,      \* history: the session or the layout changed and no observation followed
    damaged     \* history: this session lost a pane, or the process making it died

local   == <<pc, op, layout, seen>>
history == <<stale, damaged>>
vars    == <<config, sess, recorded, lock, local, history>>

Roles      == {"pm", "developer", "reviewer"}
Layouts    == {"panes", "windows"}
Lifecycles == {"stopped", "running", "degraded"}

\* A creation: the session, then one pane or window per role, then a look at it.
Building == {"new", "pm", "developer", "reviewer", "verify"}
Following == [l \in Building \ {"verify"} |->
    IF l = "new" THEN "pm" ELSE IF l = "pm" THEN "developer"
    ELSE IF l = "developer" THEN "reviewer" ELSE "verify"]
Labels == {"idle", "lock", "look", "preflight", "exists", "rollback", "kill",
           "observe", "record"} \cup Building

\* Where a process holds the lock, and where a call may have changed the session already.
Inside  == Labels \ {"idle", "lock"}
Touched == (Building \ {"new"}) \cup {"rollback", "observe", "record"}

\* At most one pane of a role is added to a session that has one already.
Sessions == [by: Procs \cup {Rival}, layout: Layouts \cup {None}, panes: [Roles -> 0..2]]
NoPanes  == [r \in Roles |-> 0]
AllPanes == [r \in Roles |-> 1]

ConstantsAssumption ==
    /\ None \notin Procs \cup {Rival} \cup Layouts \cup Lifecycles \cup Sessions
    /\ Rival \notin Procs
ASSUME ConstantsOK == ConstantsAssumption

Init ==
    /\ config \in Layouts
    /\ sess = None
    /\ recorded = None
    /\ lock = None
    /\ pc = [p \in Procs |-> "idle"]
    /\ op = [p \in Procs |-> None]
    /\ layout = [p \in Procs |-> None]
    /\ seen = [p \in Procs |-> None]
    /\ stale = FALSE
    /\ damaged = FALSE

\* _state_from_snapshot: the status of what tmux shows.
Complete(s) == s # None /\ s.panes = AllPanes
Lifecycle(s, l) ==
    IF s = None THEN "stopped"
    ELSE IF Complete(s) /\ s.layout = l THEN "running" ELSE "degraded"

-----------------------------------------------------------------------------
Goto(p, label) == pc' = [pc EXCEPT ![p] = label]
Holds(p) == UNCHANGED <<lock, op>>

\* The call returns or raises: lock released, process gone.
Done(p) ==
    /\ lock' = None
    /\ Goto(p, "idle")
    /\ op' = [op EXCEPT ![p] = None]
    /\ layout' = [layout EXCEPT ![p] = None]
    /\ seen' = [seen EXCEPT ![p] = None]

Invoke(p, call) ==
    /\ pc[p] = "idle"
    /\ Goto(p, "lock")
    /\ op' = [op EXCEPT ![p] = call]
    /\ UNCHANGED <<config, sess, recorded, lock, layout, seen, history>>

\* Mutant: the lock does not exclude.
AcquireShared(p) ==
    /\ pc[p] = "lock"
    /\ lock' = p
    /\ Goto(p, IF op[p] = "status" THEN "observe" ELSE "look")
    /\ layout' = [layout EXCEPT ![p] = config]
    /\ UNCHANGED <<config, sess, recorded, op, seen, history>>

\* The lock, then the configuration.
Acquire(p) ==
    /\ pc[p] = "lock"
    /\ lock = None
    /\ lock' = p
    /\ Goto(p, IF op[p] = "status" THEN "observe" ELSE "look")
    /\ layout' = [layout EXCEPT ![p] = config]
    /\ UNCHANGED <<config, sess, recorded, op, seen, history>>

\* What p sees is what it will record, measured against the layout it read.
Sees(p) ==
    /\ seen' = [seen EXCEPT ![p] = Lifecycle(sess, layout[p])]
    /\ stale' = (layout[p] # config)
    /\ Goto(p, "record")

\* The first inspection: a session that exists is recorded by start, killed by stop.
Look(p) ==
    /\ pc[p] = "look"
    /\ \/ op[p] = "start" /\ sess # None /\ Sees(p)
       \/ op[p] = "start" /\ sess = None /\ Goto(p, "preflight") /\ UNCHANGED <<seen, stale>>
       \/ op[p] = "stop" /\ sess # None /\ Goto(p, "kill") /\ UNCHANGED <<seen, stale>>
       \/ op[p] = "stop" /\ sess = None /\ Goto(p, "observe") /\ UNCHANGED <<seen, stale>>
    /\ Holds(p) /\ UNCHANGED <<config, sess, recorded, layout, damaged>>

\* Probes, workflow, prompts and adapters: everything that can fail before tmux is asked.
Preflight(p) ==
    /\ pc[p] = "preflight"
    /\ \/ Goto(p, "exists") /\ Holds(p) /\ UNCHANGED <<layout, seen>>
       \/ Done(p)
    /\ UNCHANGED <<config, sess, recorded, history>>

\* create_session refuses a session that exists, before it would roll anything back.
Exists(p) ==
    /\ pc[p] = "exists"
    /\ \/ sess = None /\ Goto(p, "new") /\ Holds(p) /\ UNCHANGED <<layout, seen>>
       \/ sess # None /\ Done(p)
    /\ UNCHANGED <<config, sess, recorded, history>>

-----------------------------------------------------------------------------
\* A tmux command works, fails, or times out with its effect or without.
Continue(p) == Goto(p, Following[pc[p]])
GiveUp(p) == Goto(p, "rollback")
Keeps(p) == Holds(p) /\ UNCHANGED <<config, recorded, layout, seen, history>>

\* new-session: duplicate names are refused.
New(p) ==
    /\ pc[p] = "new"
    /\ \/ /\ sess = None
          /\ sess' = [by |-> p, layout |-> layout[p], panes |-> NoPanes]
          /\ Continue(p) \/ GiveUp(p)
       \/ GiveUp(p) /\ UNCHANGED sess
    /\ Keeps(p)

\* A window can be added to any session of that name, a pane only to a window "team".
Fits(p, r) == sess # None /\ (sess.layout = layout[p] \/ (layout[p] = "windows" /\ r # "pm"))
Grown(p, r) ==
    [sess EXCEPT !.layout = IF @ = layout[p] THEN @ ELSE None,
                 !.panes[r] = IF r = "pm" \/ @ = 0 THEN 1 ELSE 2]

\* Mutant: created becomes true only once the session has been built.
AddUnrolled(p, r) ==
    /\ pc[p] = r
    /\ \/ Fits(p, r) /\ sess' = Grown(p, r) /\ Continue(p) /\ Keeps(p)
       \/ Done(p) /\ UNCHANGED <<config, sess, recorded, history>>

\* Mutant: a command that timed out is tried once more.
AddRetried(p, r) ==
    /\ pc[p] = r
    /\ \/ Fits(p, r) /\ sess' = Grown(p, r) /\ (Continue(p) \/ UNCHANGED pc)
       \/ GiveUp(p) /\ UNCHANGED sess
    /\ Keeps(p)

\* set-option @atcode_role for pm; split-window or new-window, then set-option, for the others.
Add(p, r) ==
    /\ pc[p] = r
    /\ \/ Fits(p, r) /\ sess' = Grown(p, r) /\ (Continue(p) \/ GiveUp(p))
       \/ GiveUp(p) /\ UNCHANGED sess
    /\ Keeps(p)

\* create_session looks at what it made.
Verify(p) ==
    /\ pc[p] = "verify"
    /\ \/ Complete(sess) /\ sess.layout = layout[p] /\ Goto(p, "observe")
       \/ GiveUp(p)
    /\ UNCHANGED sess /\ Keeps(p)

\* kill-session by name, its result ignored; then the error is raised.
Rollback(p) ==
    /\ pc[p] = "rollback"
    /\ \/ sess' = None /\ damaged' = FALSE /\ UNCHANGED stale
       \/ sess # None /\ damaged' = TRUE /\ stale' = TRUE /\ UNCHANGED sess
    /\ Done(p) /\ UNCHANGED <<config, recorded>>

-----------------------------------------------------------------------------
\* Mutant: stop records the snapshot it took before it killed the session.
KillRecordsOld(p) ==
    /\ pc[p] = "kill"
    /\ sess' = None /\ damaged' = FALSE
    /\ seen' = [seen EXCEPT ![p] = Lifecycle(sess, layout[p])]
    /\ stale' = (layout[p] # config)
    /\ Goto(p, "record")
    /\ Holds(p) /\ UNCHANGED <<config, recorded, layout>>

\* terminate_session; a timeout raises although the session may be gone.
Kill(p) ==
    /\ pc[p] = "kill"
    /\ sess' = None /\ damaged' = FALSE
    /\ \/ Goto(p, "observe") /\ Holds(p) /\ UNCHANGED <<layout, seen, stale>>
       \/ Done(p) /\ stale' = TRUE
    /\ UNCHANGED <<config, recorded>>

\* The inspection whose result is recorded.
Observe(p) ==
    /\ pc[p] = "observe"
    /\ Sees(p) /\ Holds(p)
    /\ UNCHANGED <<config, sess, recorded, layout, damaged>>

\* state.json is replaced, the call returns.
Record(p) ==
    /\ pc[p] = "record"
    /\ recorded' = seen[p]
    /\ Done(p)
    /\ UNCHANGED <<config, sess, history>>

\* tmux fails outside a creation: the error is raised, nothing is recorded.
TmuxFails(p) ==
    /\ pc[p] \in {"look", "exists", "kill", "observe"}
    /\ Done(p)
    /\ stale' = (stale \/ (pc[p] = "observe" /\ op[p] # "status"))
    /\ UNCHANGED <<config, sess, recorded, damaged>>

Crash(p) ==
    /\ pc[p] \in Inside
    /\ Done(p)
    /\ stale' = (stale \/ pc[p] \in Touched)
    /\ damaged' = (damaged \/ (pc[p] \in Building \cup {"rollback"} /\ sess # None))
    /\ UNCHANGED <<config, sess, recorded>>

-----------------------------------------------------------------------------
Outside == UNCHANGED <<recorded, lock, local>> /\ stale' = TRUE

\* Killed from outside, by a rival or by the last pane that closes.
SessionEnds ==
    /\ sess # None
    /\ sess' = None /\ damaged' = FALSE
    /\ Outside /\ UNCHANGED config

\* What is left of a mixed session may look like either layout.
PaneDies(r) ==
    /\ sess # None /\ sess.panes[r] > 0
    /\ \E l \in IF sess.layout = None THEN Layouts \cup {None} ELSE {sess.layout} :
          sess' = [sess EXCEPT !.panes[r] = @ - 1, !.layout = l]
    /\ damaged' = TRUE
    /\ Outside /\ UNCHANGED config

RivalCreates(l) ==
    /\ sess = None
    /\ sess' = [by |-> Rival, layout |-> l, panes |-> AllPanes]
    /\ damaged' = FALSE
    /\ Outside /\ UNCHANGED config

\* config set layout takes no lock.
ConfigSet(l) ==
    /\ l # config
    /\ config' = l
    /\ Outside /\ UNCHANGED <<sess, damaged>>

Step(p) ==
    \/ \E call \in {"start", "stop", "status"} : Invoke(p, call)
    \/ Acquire(p) \/ Look(p) \/ Preflight(p) \/ Exists(p)
    \/ New(p) \/ (\E r \in Roles : Add(p, r)) \/ Verify(p) \/ Rollback(p)
    \/ Kill(p) \/ Observe(p) \/ Record(p) \/ TmuxFails(p) \/ Crash(p)

Environment ==
    \/ SessionEnds
    \/ \E r \in Roles : PaneDies(r)
    \/ \E l \in Layouts : RivalCreates(l) \/ ConfigSet(l)

Next == (\E p \in Procs : Step(p)) \/ Environment
Spec == Init /\ [][Next]_vars

-----------------------------------------------------------------------------
(* Types, and the lock: exactly the process between locked() and its exit  *)
(* holds state.lock, and it has read the configuration.                    *)
TypeOK ==
    /\ config \in Layouts
    /\ sess \in Sessions \cup {None}
    /\ recorded \in Lifecycles \cup {None}
    /\ lock \in Procs \cup {None}
    /\ pc \in [Procs -> Labels]
    /\ op \in [Procs -> {"start", "stop", "status", None}]
    /\ layout \in [Procs -> Layouts \cup {None}]
    /\ seen \in [Procs -> Lifecycles \cup {None}]
    /\ stale \in BOOLEAN /\ damaged \in BOOLEAN
    /\ \A p \in Procs : (pc[p] \in Inside <=> lock = p) /\ (layout[p] = None <=> lock # p)

(* A creation is all or nothing: when nobody is at work on the session, a  *)
(* session that exists has one pane of each role, unless a pane died, its  *)
(* creator did, or tmux would not remove what was half made.               *)
NoPartialSession == lock = None /\ ~damaged => sess = None \/ Complete(sess)

(* state.json is a cache of what tmux shows: when nobody is at work and    *)
(* nothing happened behind the service's back since the last observation,  *)
(* it holds the status an observation would find.  A creation that failed  *)
(* and was rolled back is no change.                                       *)
CacheIsCurrent ==
    lock = None /\ ~stale =>
        IF recorded = None THEN sess = None ELSE recorded = Lifecycle(sess, config)

(* docs/superpowers/specs/2026-07-15-atcode-phase1-design.md:291: "Removes *)
(* only the newly created session if partial creation fails."  A rollback  *)
(* takes away a session only from the process that created it.             *)
RollsBackOwn ==
    [][\A p \in Procs :
          pc[p] = "rollback" /\ sess # None /\ Rollback(p) /\ sess' = None => sess.by = p]_vars

(* A rollback that goes wrong goes wrong on a rival's session only: never  *)
(* does it take away one that another process of this installation made,   *)
(* however the name came and went while it was building.                   *)
RollsBackNoPeer ==
    [][\A p \in Procs :
          pc[p] = "rollback" /\ sess # None /\ Rollback(p) /\ sess' = None
             => sess.by \in {p, Rival}]_vars

-----------------------------------------------------------------------------
(* What everybody but its builder meets.                                   *)

\* A session is its builder's own until it is verified, removed or left behind.
Making == (Building \ {"new"}) \cup {"rollback"}
Hidden == lock # None /\ pc[lock] \in Making /\ sess.by = lock
Shown == sess # None /\ ~Hidden

(* The seven commands of a creation, its rollback, the timeouts and deaths *)
(* in between are one step to everybody else: the session service is a     *)
(* Team.                                                                   *)
T == INSTANCE Team WITH
        up      <- Shown,
        foreign <- sess # None /\ sess.by = Rival,
        panes   <- IF Shown THEN sess.panes ELSE NoPanes,
        damaged <- Shown /\ damaged
ImplementsTeam == T!Spec

(* A session of this installation that another command can meet has one    *)
(* pane of each role unless it was damaged, and never two: next, status    *)
(* and doctor find each role at most once, whoever is at work.             *)
OnePaneEach == T!OnePaneEach
=============================================================================
