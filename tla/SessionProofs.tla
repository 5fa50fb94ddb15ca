---------------------------- MODULE SessionProofs ----------------------------
(***************************************************************************)
(* For any number of processes: the types and the lock of Session, that no *)
(* half-made session outlives its creation, and that state.json never lags *)
(* behind an observation.                                                  *)
(***************************************************************************)
EXTENDS Session, TLAPS

-----------------------------------------------------------------------------
(* The inductive invariant.                                                *)

\* status never starts or stops anything.
OpInv == \A p \in Procs :
    pc[p] \in {"look", "preflight", "exists", "kill", "rollback"} \cup Building => op[p] # "status"

\* An incomplete session is in somebody's hands.
PartialInv ==
    ~damaged /\ sess # None /\ ~Complete(sess)
        => \E p \in Procs : pc[p] \in Building \cup {"rollback"}

\* What state.json says is what tmux shows.
Current == IF recorded = None THEN sess = None ELSE recorded = Lifecycle(sess, config)

\* Until the call changes the session the file is right; a creation starts from nothing;
\* what is about to be recorded is right.
CacheStepOK(p) ==
    /\ pc[p] \in {"look", "preflight", "exists", "kill", "new"} => Current
    /\ pc[p] = "observe" /\ op[p] = "status" => Current
    /\ pc[p] \in Building \cup {"rollback"} => recorded \in {None, "stopped"}
    /\ pc[p] = "record" => seen[p] = Lifecycle(sess, config)

CacheInv == ~stale => (lock = None => Current) /\ \A p \in Procs : CacheStepOK(p)

Inv == TypeOK /\ OpInv /\ PartialInv /\ CacheInv

-----------------------------------------------------------------------------
(* The status of a session is one of the three.                            *)
LEMMA LifecycleType ==
    ASSUME NEW s, NEW l
    PROVE  Lifecycle(s, l) \in Lifecycles /\ Lifecycle(s, l) # None
BY ConstantsOK DEF Lifecycle, Lifecycles, ConstantsAssumption

(* A call that ends frees the lock and leaves the others where they are.   *)
LEMMA DoneTypes ==
    ASSUME TypeOK, NEW p \in Procs, pc[p] \in Inside, Done(p)
    PROVE  /\ lock' = None
           /\ pc' \in [Procs -> Labels]
           /\ op' \in [Procs -> {"start", "stop", "status", None}]
           /\ layout' \in [Procs -> Layouts \cup {None}]
           /\ seen' \in [Procs -> Lifecycles \cup {None}]
           /\ \A q \in Procs : /\ pc'[q] \notin Inside /\ lock' # q
                               /\ layout'[q] = None
BY ConstantsOK DEF TypeOK, Done, Goto, Inside, Labels, Building, ConstantsAssumption

(* What was seen is a status.                                              *)
LEMMA SeesTypes ==
    ASSUME TypeOK, NEW p \in Procs, Sees(p)
    PROVE  seen' \in [Procs -> Lifecycles \cup {None}] /\ stale' \in BOOLEAN
<1>1. seen \in [Procs -> Lifecycles \cup {None}]
  BY DEF TypeOK
<1>2. seen' = [seen EXCEPT ![p] = Lifecycle(sess, layout[p])]
  BY DEF Sees
<1>3. seen' \in [Procs -> Lifecycles \cup {None}]
  BY <1>1, <1>2, LifecycleType
<1>4. stale' \in BOOLEAN
  BY DEF Sees
<1> QED
  BY <1>3, <1>4

(* Moving on inside the lock.                                              *)
LEMMA GotoTypes ==
    ASSUME TypeOK, NEW p \in Procs, NEW label \in Inside, pc[p] \in Inside, Goto(p, label),
           lock' = lock, layout' = layout
    PROVE  /\ pc' \in [Procs -> Labels]
           /\ \A q \in Procs : /\ pc'[q] \in Inside <=> lock' = q
                               /\ layout'[q] = None <=> lock' # q
BY DEF TypeOK, Goto, Inside, Labels, Building

(* A building step is followed by another place inside the lock.           *)
LEMMA FollowingType ==
    ASSUME NEW b \in {"new", "pm", "developer", "reviewer"}
    PROVE  Following[b] \in Building /\ Following[b] \in Inside /\ Following[b] # "new"
BY DEF Following, Building, Inside, Labels

(* What a session grows to is a session.                                   *)
LEMMA GrownType ==
    ASSUME TypeOK, NEW p \in Procs, NEW r \in Roles, sess # None, layout[p] \in Layouts
    PROVE  Grown(p, r) \in Sessions
<1>1. sess \in Sessions
  BY DEF TypeOK
<1>2. sess.panes \in [Roles -> 0..2] /\ sess.layout \in Layouts \cup {None}
  BY <1>1 DEF Sessions
<1>3. [sess.panes EXCEPT ![r] = IF r = "pm" \/ @ = 0 THEN 1 ELSE 2] \in [Roles -> 0..2]
  BY <1>2
<1> QED
  BY <1>1, <1>2, <1>3 DEF Grown, Sessions

-----------------------------------------------------------------------------
LEMMA InitInv == Init => Inv
BY ConstantsOK DEF Init, Inv, TypeOK, OpInv, PartialInv, CacheInv, CacheStepOK, Current,
    Inside, Labels, Building, Roles, Layouts, Lifecycles, ConstantsAssumption

-----------------------------------------------------------------------------
(* Types and the lock survive every step of a process.                     *)
LEMMA ProcessTypes ==
    ASSUME TypeOK, NEW p \in Procs, Step(p)
    PROVE  TypeOK'
<1> USE DEF TypeOK
<1>1. ASSUME NEW call \in {"start", "stop", "status"}, Invoke(p, call)
      PROVE  TypeOK'
  BY <1>1 DEF Invoke, Goto, Inside, Labels, Building, history
<1>2. CASE Acquire(p)
  BY <1>2, ConstantsOK
     DEF Acquire, Goto, Inside, Labels, Building, Layouts, history, ConstantsAssumption
<1>3. CASE Look(p)
  <2>1. pc[p] \in Inside /\ lock' = lock /\ layout' = layout
    BY <1>3 DEF Look, Holds, Inside, Labels
  <2>2. \E label \in {"record", "preflight", "kill", "observe"} : Goto(p, label)
    BY <1>3 DEF Look, Sees
  <2>3. PICK label \in {"record", "preflight", "kill", "observe"} : Goto(p, label)
    BY <2>2
  <2>4. label \in Inside
    BY DEF Inside, Labels
  <2>5. seen' \in [Procs -> Lifecycles \cup {None}] /\ stale' \in BOOLEAN
    BY <1>3, SeesTypes DEF Look
  <2> QED
    BY <1>3, <2>1, <2>3, <2>4, <2>5, GotoTypes DEF Look, Holds
<1>4. CASE Preflight(p)
  <2>1. pc[p] \in Inside /\ "exists" \in Inside
    BY <1>4 DEF Preflight, Inside, Labels
  <2>2. CASE Done(p)
    BY <1>4, <2>1, <2>2, DoneTypes DEF Preflight, history
  <2>3. CASE Goto(p, "exists") /\ Holds(p) /\ UNCHANGED <<layout, seen>>
    BY <1>4, <2>1, <2>3, GotoTypes DEF Preflight, Holds, history
  <2> QED
    BY <1>4, <2>2, <2>3 DEF Preflight
<1>5. CASE Exists(p)
  <2>1. pc[p] \in Inside /\ "new" \in Inside
    BY <1>5 DEF Exists, Inside, Labels, Building
  <2>2. CASE Done(p)
    BY <1>5, <2>1, <2>2, DoneTypes DEF Exists, history
  <2>3. CASE Goto(p, "new") /\ Holds(p) /\ UNCHANGED <<layout, seen>>
    BY <1>5, <2>1, <2>3, GotoTypes DEF Exists, Holds, history
  <2> QED
    BY <1>5, <2>2, <2>3 DEF Exists
<1>6. CASE New(p)
  <2>1. pc[p] \in Inside /\ "rollback" \in Inside /\ Following["new"] \in Inside
    BY <1>6, FollowingType DEF New, Inside, Labels, Building
  <2>2. Goto(p, "rollback") \/ Goto(p, Following["new"])
    BY <1>6 DEF New, Continue, GiveUp
  <2>3. layout[p] \in Layouts
    BY <2>1
  <2>4. sess' \in Sessions \cup {None}
    BY <1>6, <2>3 DEF New, Sessions, NoPanes
  <2> QED
    BY <1>6, <2>1, <2>2, <2>4, GotoTypes DEF New, Keeps, Holds, history
<1>7. ASSUME NEW r \in Roles, Add(p, r)
      PROVE  TypeOK'
  <2>1. pc[p] \in Inside /\ "rollback" \in Inside /\ Following[r] \in Inside /\ pc[p] = r
    BY <1>7, FollowingType DEF Add, Roles, Inside, Labels, Building
  <2>2. Goto(p, "rollback") \/ Goto(p, Following[r])
    BY <1>7, <2>1 DEF Add, Continue, GiveUp
  <2>3. layout[p] \in Layouts
    BY <2>1
  <2>4. sess' \in Sessions \cup {None}
    BY <1>7, <2>3, GrownType DEF Add, Fits
  <2> QED
    BY <1>7, <2>1, <2>2, <2>4, GotoTypes DEF Add, Keeps, Holds, history
<1>8. CASE Verify(p)
  <2>1. pc[p] \in Inside /\ "rollback" \in Inside /\ "observe" \in Inside
    BY <1>8 DEF Verify, Inside, Labels, Building
  <2>2. Goto(p, "rollback") \/ Goto(p, "observe")
    BY <1>8 DEF Verify, GiveUp
  <2> QED
    BY <1>8, <2>1, <2>2, GotoTypes DEF Verify, Keeps, Holds, history
<1>9. CASE Rollback(p)
  <2>1. pc[p] \in Inside
    BY <1>9 DEF Rollback, Inside, Labels
  <2> QED
    BY <1>9, <2>1, DoneTypes DEF Rollback
<1>10. CASE Kill(p)
  <2>1. pc[p] \in Inside /\ "observe" \in Inside
    BY <1>10 DEF Kill, Inside, Labels
  <2>2. CASE Done(p)
    BY <1>10, <2>1, <2>2, DoneTypes DEF Kill
  <2>3. CASE Goto(p, "observe") /\ Holds(p) /\ UNCHANGED <<layout, seen, stale>>
    BY <1>10, <2>1, <2>3, GotoTypes DEF Kill, Holds
  <2> QED
    BY <1>10, <2>2, <2>3 DEF Kill
<1>11. CASE Observe(p)
  <2>1. pc[p] \in Inside /\ "record" \in Inside
    BY <1>11 DEF Observe, Inside, Labels
  <2>2. seen' \in [Procs -> Lifecycles \cup {None}] /\ stale' \in BOOLEAN
    BY <1>11, SeesTypes DEF Observe
  <2> QED
    BY <1>11, <2>1, <2>2, GotoTypes DEF Observe, Sees, Holds
<1>12. CASE Record(p)
  <2>1. pc[p] \in Inside
    BY <1>12 DEF Record, Inside, Labels
  <2> QED
    BY <1>12, <2>1, DoneTypes DEF Record, history
<1>13. CASE TmuxFails(p)
  <2>1. pc[p] \in Inside
    BY <1>13 DEF TmuxFails, Inside, Labels
  <2> QED
    BY <1>13, <2>1, DoneTypes DEF TmuxFails
<1>14. CASE Crash(p)
  <2> QED
    BY <1>14, DoneTypes DEF Crash
<1> QED
  BY <1>1, <1>2, <1>3, <1>4, <1>5, <1>6, <1>7, <1>8, <1>9, <1>10, <1>11, <1>12, <1>13, <1>14
     DEF Step

(* And every step of tmux, the user and the rival.                         *)
LEMMA EnvironmentTypes ==
    ASSUME TypeOK, Environment
    PROVE  TypeOK'
<1> USE DEF TypeOK, Outside, local
<1>1. CASE SessionEnds
  BY <1>1 DEF SessionEnds
<1>2. ASSUME NEW r \in Roles, PaneDies(r)
      PROVE  TypeOK'
  <2>1. sess \in Sessions /\ sess.panes[r] > 0
    BY <1>2 DEF PaneDies
  <2>2. PICK l \in Layouts \cup {None} : sess' = [sess EXCEPT !.panes[r] = @ - 1, !.layout = l]
    BY <1>2, <2>1 DEF PaneDies, Sessions
  <2>3. sess.panes \in [Roles -> 0..2] /\ sess.by \in Procs \cup {Rival}
    BY <2>1 DEF Sessions
  <2>4. [sess.panes EXCEPT ![r] = @ - 1] \in [Roles -> 0..2]
    BY <2>1, <2>3
  <2>5. sess' \in Sessions
    BY <2>1, <2>2, <2>4 DEF Sessions
  <2> QED
    BY <1>2, <2>5 DEF PaneDies
<1>3. ASSUME NEW l \in Layouts, RivalCreates(l)
      PROVE  TypeOK'
  <2>1. AllPanes \in [Roles -> 0..2]
    BY DEF AllPanes
  <2>2. sess' \in Sessions
    BY <1>3, <2>1 DEF RivalCreates, Sessions
  <2> QED
    BY <1>3, <2>2 DEF RivalCreates
<1>4. ASSUME NEW l \in Layouts, ConfigSet(l)
      PROVE  TypeOK'
  BY <1>4 DEF ConfigSet
<1> QED
  BY <1>1, <1>2, <1>3, <1>4 DEF Environment

-----------------------------------------------------------------------------
(* One process at a time is inside, so whoever is there is p.              *)
LEMMA Alone ==
    ASSUME TypeOK, NEW p \in Procs, pc[p] \in Inside
    PROVE  \A q \in Procs : q # p => pc[q] \in {"idle", "lock"}
BY DEF TypeOK, Inside

(* What a step of a process may leave to the others.                       *)
LEMMA OthersStay ==
    ASSUME TypeOK, NEW p \in Procs, Step(p)
    PROVE  \A q \in Procs : q # p => pc'[q] = pc[q] /\ op'[q] = op[q] /\ seen'[q] = seen[q]
<1> USE DEF TypeOK, Goto, Holds, Done, Keeps, Continue, GiveUp
<1>1. ASSUME NEW call \in {"start", "stop", "status"}, Invoke(p, call)
      PROVE  \A q \in Procs : q # p => pc'[q] = pc[q] /\ op'[q] = op[q] /\ seen'[q] = seen[q]
  BY <1>1 DEF Invoke
<1>2. CASE Acquire(p)
  BY <1>2 DEF Acquire
<1>3. CASE Look(p) \/ Observe(p)
  BY <1>3 DEF Look, Observe, Sees
<1>4. CASE Preflight(p) \/ Exists(p)
  BY <1>4 DEF Preflight, Exists
<1>5. CASE New(p) \/ Verify(p)
  BY <1>5 DEF New, Verify
<1>6. ASSUME NEW r \in Roles, Add(p, r)
      PROVE  \A q \in Procs : q # p => pc'[q] = pc[q] /\ op'[q] = op[q] /\ seen'[q] = seen[q]
  BY <1>6 DEF Add
<1>7. CASE Rollback(p) \/ Kill(p) \/ Record(p) \/ TmuxFails(p) \/ Crash(p)
  BY <1>7 DEF Rollback, Kill, Record, TmuxFails, Crash
<1> QED
  BY <1>1, <1>2, <1>3, <1>4, <1>5, <1>6, <1>7 DEF Step

(* status stays out of start and stop.                                     *)
LEMMA OpStep ==
    ASSUME TypeOK, OpInv, [Next]_vars
    PROVE  OpInv'
<1>1. ASSUME NEW p \in Procs, Step(p)
      PROVE  OpInv'
  <2> SUFFICES ASSUME pc'[p] \in {"look", "preflight", "exists", "kill", "rollback"} \cup Building
               PROVE  op'[p] # "status"
    BY <1>1, OthersStay DEF OpInv
  <2> USE DEF TypeOK, OpInv, Goto, Building
  <2>1. CASE \E call \in {"start", "stop", "status"} : Invoke(p, call)
    BY <2>1 DEF Invoke
  <2>2. CASE Acquire(p)
    BY <2>2 DEF Acquire
  <2>3. CASE Look(p) \/ Observe(p) \/ Verify(p)
    BY <2>3 DEF Look, Observe, Sees, Verify, Holds, Keeps, GiveUp
  <2>4. CASE Preflight(p) \/ Exists(p) \/ Kill(p)
    BY <2>4 DEF Preflight, Exists, Kill, Done, Holds
  <2>5. CASE New(p) \/ \E r \in Roles : Add(p, r)
    BY <2>5 DEF New, Add, Roles, Keeps, Holds, Continue, GiveUp
  <2>6. CASE Rollback(p) \/ Record(p) \/ TmuxFails(p) \/ Crash(p)
    BY <2>6 DEF Rollback, Record, TmuxFails, Crash, Done
  <2> QED
    BY <1>1, <2>1, <2>2, <2>3, <2>4, <2>5, <2>6 DEF Step
<1>2. CASE Environment \/ UNCHANGED vars
  BY <1>2 DEF OpInv, Environment, SessionEnds, PaneDies, RivalCreates, ConfigSet, Outside,
      vars, local
<1> QED
  BY <1>1, <1>2 DEF Next

(* A creation ends with a complete session, without one, or with damage.   *)
LEMMA PartialStep ==
    ASSUME TypeOK, PartialInv, [Next]_vars
    PROVE  PartialInv'
<1>1. ASSUME NEW p \in Procs, Step(p)
      PROVE  PartialInv'
  <2> DEFINE Busy == Building \cup {"rollback"}
  <2>0. pc \in [Procs -> Labels] /\ \A q \in Procs : q # p => pc'[q] = pc[q]
    BY <1>1, OthersStay DEF TypeOK
  <2>1. CASE pc'[p] \in Busy
    BY <2>1 DEF PartialInv
  <2>2. CASE UNCHANGED <<sess, damaged>> /\ pc[p] \notin Busy
    <3>1. Complete(sess)' <=> Complete(sess)
      BY <2>2 DEF Complete
    <3> QED
      BY <2>0, <2>2, <3>1 DEF PartialInv
  <2>3. CASE Verify(p)
    BY <2>1, <2>3 DEF Verify, GiveUp, Goto, TypeOK, Keeps, PartialInv, Complete, history
  <2>4. CASE Rollback(p)
    BY <2>4 DEF Rollback, PartialInv
  <2>5. CASE Kill(p)
    BY <2>5 DEF Kill, PartialInv
  <2>6. CASE Crash(p)
    BY <2>0, <2>2, <2>6 DEF Crash, PartialInv
  <2>7. CASE New(p) \/ \E r \in Roles : Add(p, r)
    <3>1. pc'[p] \in Busy
      BY <2>7, FollowingType, <2>0
         DEF New, Add, Roles, Building, Continue, GiveUp, Goto
    <3> QED
      BY <2>1, <3>1
  <2>8. CASE Preflight(p) \/ Exists(p) \/ Look(p) \/ Observe(p) \/ Record(p) \/ TmuxFails(p)
    BY <2>2, <2>8 DEF Preflight, Exists, Look, Observe, Record, TmuxFails, history, Building
  <2>9. CASE Acquire(p) \/ \E call \in {"start", "stop", "status"} : Invoke(p, call)
    BY <2>2, <2>9 DEF Acquire, Invoke, history, Building
  <2> QED
    BY <1>1, <2>3, <2>4, <2>5, <2>6, <2>7, <2>8, <2>9 DEF Step
<1>2. CASE SessionEnds \/ \E r \in Roles : PaneDies(r)
  BY <1>2 DEF SessionEnds, PaneDies, PartialInv
<1>3. CASE \E l \in Layouts : RivalCreates(l)
  BY <1>3 DEF RivalCreates, PartialInv, Complete
<1>4. CASE UNCHANGED vars \/ \E l \in Layouts : ConfigSet(l)
  BY <1>4 DEF ConfigSet, Outside, vars, local, history, PartialInv, Complete
<1> QED
  BY <1>1, <1>2, <1>3, <1>4 DEF Next, Environment

-----------------------------------------------------------------------------
(* A process outside the lock has nothing to do with the cache.            *)
LEMMA IdleCacheOK ==
    ASSUME NEW q, pc[q] \in {"idle", "lock"}
    PROVE  CacheStepOK(q)
BY DEF CacheStepOK, Building

(* When a call leaves the lock with a true file, the cache is right.       *)
LEMMA CacheAfterDone ==
    ASSUME TypeOK, NEW p \in Procs, Step(p), pc[p] \in Inside, Done(p), ~stale' => Current'
    PROVE  CacheInv'
<1>1. \A q \in Procs : pc'[q] \in {"idle", "lock"}
  BY Alone, OthersStay DEF Done, Goto, TypeOK
<1>2. \A q \in Procs : CacheStepOK(q)'
  BY <1>1 DEF CacheStepOK, Building
<1> QED
  BY <1>2 DEF CacheInv

(* When it moves on inside, only its own step counts.                      *)
LEMMA CacheInside ==
    ASSUME TypeOK, NEW p \in Procs, Step(p), pc[p] \in Inside, lock' = lock,
           ~stale' => CacheStepOK(p)'
    PROVE  CacheInv'
<1>1. \A q \in Procs : q # p => pc'[q] \in {"idle", "lock"}
  BY Alone, OthersStay
<1>2. \A q \in Procs : q # p => CacheStepOK(q)'
  BY <1>1 DEF CacheStepOK, Building
<1>3. lock' # None
  BY ConstantsOK DEF TypeOK, ConstantsAssumption
<1> QED
  BY <1>2, <1>3 DEF CacheInv

(* state.json stays right, or its being wrong is known.                    *)
LEMMA CacheStep ==
    ASSUME Inv, [Next]_vars
    PROVE  CacheInv'
<1> USE DEF Inv
<1>0. ASSUME UNCHANGED <<config, sess, recorded>>
      PROVE  Current' <=> Current
  BY <1>0 DEF Current, Lifecycle, Complete
<1>1. ASSUME NEW p \in Procs, Step(p)
      PROVE  CacheInv'
  <2>0. pc \in [Procs -> Labels] /\ op \in [Procs -> {"start", "stop", "status", None}]
        /\ seen \in [Procs -> Lifecycles \cup {None}]
    BY DEF TypeOK
  <2>a. pc[p] \in Inside => (~stale => CacheStepOK(p))
    BY DEF CacheInv
  <2>1. ASSUME NEW call \in {"start", "stop", "status"}, Invoke(p, call)
        PROVE  CacheInv'
    <3>1. pc'[p] = "lock" /\ UNCHANGED <<config, sess, recorded, lock, stale, seen>>
      BY <2>0, <2>1 DEF Invoke, Goto, history
    <3>2. CacheStepOK(p)'
      BY <3>1 DEF CacheStepOK, Building
    <3>3. ASSUME NEW q \in Procs, q # p, CacheStepOK(q)
          PROVE  CacheStepOK(q)'
      BY <1>0, <1>1, <3>1, <3>3, OthersStay DEF CacheStepOK, Lifecycle, Complete
    <3> QED
      BY <1>0, <3>1, <3>2, <3>3 DEF CacheInv
  <2>2. CASE Acquire(p)
    <3>1. pc'[p] = (IF op[p] = "status" THEN "observe" ELSE "look") /\ op' = op
      BY <2>0, <2>2 DEF Acquire, Goto
    <3>2. UNCHANGED <<config, sess, recorded, stale>> /\ lock = None /\ lock' = p
      BY <2>2 DEF Acquire, history
    <3>3. \A q \in Procs : q # p => pc'[q] \in {"idle", "lock"}
      BY <1>1, <3>2, OthersStay, ConstantsOK DEF TypeOK, Inside, ConstantsAssumption
    <3>4. \A q \in Procs : q # p => CacheStepOK(q)'
      BY <3>3 DEF CacheStepOK, Building
    <3>5. ~stale' => Current'
      BY <1>0, <3>2 DEF CacheInv
    <3>6. ~stale' => CacheStepOK(p)'
      BY <3>1, <3>5 DEF CacheStepOK, Building
    <3>7. lock' # None
      BY <3>2, ConstantsOK DEF ConstantsAssumption
    <3> QED
      BY <3>4, <3>6, <3>7 DEF CacheInv
  <2>3. CASE Sees(p) /\ pc[p] \in Inside /\ UNCHANGED <<config, sess, lock>>
    <3>1. pc'[p] = "record" /\ seen'[p] = Lifecycle(sess, layout[p])
      BY <2>0, <2>3 DEF Sees, Goto
    <3>2. ~stale' => layout[p] = config
      BY <2>3 DEF Sees
    <3>3. ~stale' => seen'[p] = Lifecycle(sess, config)'
      BY <2>3, <3>1, <3>2 DEF Lifecycle, Complete
    <3>4. ~stale' => CacheStepOK(p)'
      BY <3>1, <3>3 DEF CacheStepOK, Building
    <3> QED
      BY <1>1, <2>3, <3>4, CacheInside
  <2>4. CASE Look(p)
    <3>1. CASE Sees(p)
      BY <2>3, <2>4, <3>1 DEF Look, Holds, Inside, Labels
    <3>2. CASE ~Sees(p)
      <4>1. pc'[p] \in {"preflight", "kill", "observe"} /\ op'[p] = op[p] /\ op[p] # "status"
        BY <2>0, <2>4, <3>2 DEF Look, Goto, Holds, OpInv
      <4>2. UNCHANGED <<config, sess, recorded, stale, lock>> /\ pc[p] = "look"
        BY <2>4, <3>2 DEF Look, Holds
      <4>3. pc[p] \in Inside
        BY <4>2 DEF Inside, Labels
      <4>4. ~stale' => CacheStepOK(p)'
        BY <1>0, <2>a, <4>1, <4>2, <4>3 DEF CacheStepOK, Building
      <4> QED
        BY <1>1, <4>2, <4>3, <4>4, CacheInside
    <3> QED
      BY <3>1, <3>2
  <2>5. CASE Preflight(p) \/ Exists(p)
    <3>1. pc[p] \in {"preflight", "exists"} /\ UNCHANGED <<config, sess, recorded, stale>>
      BY <2>5 DEF Preflight, Exists, history
    <3>2. pc[p] \in Inside
      BY <3>1 DEF Inside, Labels
    <3>3. ~stale' => Current /\ Current'
      BY <1>0, <2>a, <3>1, <3>2 DEF CacheStepOK
    <3>4. CASE Done(p)
      BY <1>1, <3>2, <3>3, <3>4, CacheAfterDone
    <3>5. CASE ~Done(p)
      <4>1. lock' = lock /\ pc'[p] \in {"exists", "new"} /\ (pc'[p] = "new" => sess = None)
        BY <2>0, <2>5, <3>5 DEF Preflight, Exists, Holds, Goto
      <4>2. sess = None => Lifecycle(sess, config) = "stopped"
        BY DEF Lifecycle
      <4>3. ~stale' /\ sess = None => recorded' \in {None, "stopped"}
        BY <3>1, <3>3, <4>2 DEF Current
      <4>4. ~stale' => CacheStepOK(p)'
        BY <3>3, <4>1, <4>3 DEF CacheStepOK, Building
      <4> QED
        BY <1>1, <3>2, <4>1, <4>4, CacheInside
    <3> QED
      BY <3>4, <3>5
  <2>6. CASE New(p) \/ Verify(p) \/ \E r \in Roles : Add(p, r)
    <3>1. pc[p] \in Building /\ UNCHANGED <<config, recorded, stale, lock, op>>
      BY <2>6 DEF New, Verify, Add, Keeps, Holds, history, Building, Roles
    <3>2. pc[p] \in Inside
      BY <3>1 DEF Building, Inside, Labels
    <3>3. pc'[p] \in (Building \ {"new"}) \cup {"rollback", "observe"}
      BY <2>0, <2>6, FollowingType
         DEF New, Verify, Add, Continue, GiveUp, Goto, Building, Roles
    <3>4. op'[p] # "status"
      BY <3>1 DEF OpInv
    <3>5. ~stale' => recorded' \in {None, "stopped"}
      BY <2>a, <3>1, <3>2 DEF CacheStepOK
    <3>6. ~stale' => CacheStepOK(p)'
      BY <3>3, <3>4, <3>5 DEF CacheStepOK, Building
    <3> QED
      BY <1>1, <3>1, <3>2, <3>6, CacheInside
  <2>7. CASE Rollback(p)
    <3>1. pc[p] \in Inside /\ pc[p] = "rollback" /\ Done(p) /\ recorded' = recorded
      BY <2>7 DEF Rollback, Inside, Labels
    <3>2. ~stale' => sess' = None /\ ~stale
      BY <2>7 DEF Rollback
    <3>3. ~stale => recorded \in {None, "stopped"}
      BY <2>a, <3>1 DEF CacheStepOK
    <3>4. ~stale' => Current'
      BY <3>1, <3>2, <3>3 DEF Current, Lifecycle
    <3> QED
      BY <1>1, <3>1, <3>4, CacheAfterDone
  <2>8. CASE Kill(p)
    <3>1. pc[p] \in Inside /\ pc[p] = "kill"
      BY <2>8 DEF Kill, Inside, Labels
    <3>2. CASE Done(p) /\ stale' = TRUE
      BY <1>1, <3>1, <3>2, CacheAfterDone
    <3>3. CASE Goto(p, "observe") /\ Holds(p)
      <4>1. pc'[p] = "observe" /\ op'[p] # "status" /\ lock' = lock
        BY <2>0, <3>1, <3>3 DEF Goto, Holds, OpInv
      <4>2. CacheStepOK(p)'
        BY <4>1 DEF CacheStepOK, Building
      <4> QED
        BY <1>1, <3>1, <4>1, <4>2, CacheInside
    <3> QED
      BY <2>8, <3>2, <3>3 DEF Kill
  <2>9. CASE Observe(p)
    BY <2>3, <2>9 DEF Observe, Holds, Inside, Labels
  <2>10. CASE Record(p)
    <3>1. pc[p] \in Inside /\ pc[p] = "record" /\ Done(p) /\ recorded' = seen[p]
          /\ UNCHANGED <<config, sess, stale>>
      BY <2>10 DEF Record, Inside, Labels, history
    <3>2. ~stale' => recorded' = Lifecycle(sess, config)
      BY <2>a, <3>1 DEF CacheStepOK
    <3>3. ~stale' => Current'
      BY <3>1, <3>2, LifecycleType DEF Current, Lifecycle, Complete
    <3> QED
      BY <1>1, <3>1, <3>3, CacheAfterDone
  <2>11. CASE TmuxFails(p)
    <3>1. /\ pc[p] \in {"look", "exists", "kill", "observe"} /\ pc[p] \in Inside
          /\ Done(p) /\ UNCHANGED <<config, sess, recorded>>
          /\ ~stale' => ~stale /\ (pc[p] = "observe" => op[p] = "status")
      BY <2>11 DEF TmuxFails, Inside, Labels
    <3>2. ~stale' => Current'
      BY <1>0, <2>a, <3>1 DEF CacheStepOK
    <3> QED
      BY <1>1, <3>1, <3>2, CacheAfterDone
  <2>12. CASE Crash(p)
    <3>1. /\ pc[p] \in Inside /\ Done(p) /\ UNCHANGED <<config, sess, recorded>>
          /\ ~stale' => ~stale /\ pc[p] \in {"look", "preflight", "exists", "kill", "new"}
      BY <2>0, <2>12 DEF Crash, Inside, Labels, Touched
    <3>2. ~stale' => Current'
      BY <1>0, <2>a, <3>1 DEF CacheStepOK
    <3> QED
      BY <1>1, <3>1, <3>2, CacheAfterDone
  <2> QED
    BY <1>1, <2>1, <2>2, <2>4, <2>5, <2>6, <2>7, <2>8, <2>9, <2>10, <2>11, <2>12 DEF Step
<1>2. CASE Environment
  <2>1. stale' = TRUE
    BY <1>2 DEF Environment, SessionEnds, PaneDies, RivalCreates, ConfigSet, Outside
  <2> QED
    BY <2>1 DEF CacheInv
<1>3. CASE UNCHANGED vars
  BY <1>3 DEF CacheInv, CacheStepOK, Current, Lifecycle, Complete, vars, local, history
<1> QED
  BY <1>1, <1>2, <1>3 DEF Next

-----------------------------------------------------------------------------
LEMMA TypeStep ==
    ASSUME TypeOK, [Next]_vars
    PROVE  TypeOK'
<1>1. CASE UNCHANGED vars
  BY <1>1 DEF vars, local, history, TypeOK
<1> QED
  BY <1>1, ProcessTypes, EnvironmentTypes DEF Next

LEMMA SpecInv == Spec => []Inv
<1>1. Inv /\ [Next]_vars => Inv'
  BY TypeStep, OpStep, PartialStep, CacheStep DEF Inv
<1> QED
  BY <1>1, InitInv, PTL DEF Spec

(* However many processes run, state.lock is held by exactly the one       *)
(* between locked() and its exit, and every variable keeps its type.       *)
THEOREM TypeCorrect == Spec => []TypeOK
BY SpecInv, PTL DEF Inv

(* A creation is all or nothing: its rollback, or the damage the history   *)
(* admits, leaves nobody a half-made session.                              *)
THEOREM NoPartialSessionTheorem == Spec => []NoPartialSession
<1>1. Inv => NoPartialSession
  BY ConstantsOK
     DEF Inv, TypeOK, PartialInv, NoPartialSession, Inside, Labels, Building, ConstantsAssumption
<1> QED
  BY <1>1, SpecInv, PTL

(* state.json says what an observation would find, as long as nothing      *)
(* happened outside a call that records.                                   *)
THEOREM CacheIsCurrentTheorem == Spec => []CacheIsCurrent
<1>1. Inv => CacheIsCurrent
  BY DEF Inv, CacheInv, CacheIsCurrent, Current
<1> QED
  BY <1>1, SpecInv, PTL

-----------------------------------------------------------------------------
(* Whose session it is that is being made, and what others meet of it.     *)

\* The roles that a creation has still to add.
ToCome(label) ==
    IF label \in {"new", "pm"} THEN Roles
    ELSE IF label = "developer" THEN {"developer", "reviewer"}
    ELSE IF label = "reviewer" THEN {"reviewer"} ELSE {}

\* The session p is making, or one that a rival put in its place; its own has one
\* pane at most of each role, none of those to come, and what it lost is missing.
MakingOK(p) ==
    pc[p] \in Building \cup {"rollback"} /\ sess # None =>
        /\ sess.by \in {p, Rival}
        /\ pc[p] = "new" => sess.by = Rival
        /\ sess.by = p =>
              /\ sess.panes \in [Roles -> 0..1]
              /\ \A r \in ToCome(pc[p]) : sess.panes[r] = 0
              /\ damaged => \E r \in Roles \ ToCome(pc[p]) : sess.panes[r] = 0

OwnInv == (sess = None => ~damaged) /\ \A p \in Procs : MakingOK(p)

\* A step of p inside the lock: only what it is making counts.
LEMMA OwnInside ==
    ASSUME TypeOK, NEW p \in Procs, Step(p), pc[p] \in Inside,
           sess' = None => ~damaged', MakingOK(p)'
    PROVE  OwnInv'
<1>1. \A q \in Procs : q # p => pc'[q] \in {"idle", "lock"}
  BY Alone, OthersStay
<1>2. \A q \in Procs : q # p => MakingOK(q)'
  BY <1>1 DEF MakingOK, Building
<1> QED
  BY <1>2 DEF OwnInv

LEMMA OwnStep ==
    ASSUME TypeOK, OwnInv, [Next]_vars
    PROVE  OwnInv'
<1>0. /\ pc \in [Procs -> Labels]
      /\ sess # None => sess \in Sessions
      /\ \A p \in Procs : pc[p] \in Inside <=> lock = p
      /\ sess = None => ~damaged
  BY DEF TypeOK, OwnInv
<1>1. ASSUME NEW p \in Procs, Step(p) PROVE OwnInv'
  <2>0. MakingOK(p) /\ \A q \in Procs : q # p => pc'[q] = pc[q]
    BY <1>1, OthersStay DEF OwnInv
  <2>1. CASE Acquire(p) \/ \E call \in {"start", "stop", "status"} : Invoke(p, call)
    <3>1. UNCHANGED <<sess, damaged>> /\ pc'[p] \in {"lock", "look", "observe"}
      BY <1>0, <2>1 DEF Acquire, Invoke, Goto, history
    <3>2. ASSUME NEW q \in Procs PROVE MakingOK(q)'
      BY <2>0, <3>1, <3>2 DEF OwnInv, MakingOK, Building
    <3> QED
      BY <1>0, <3>1, <3>2 DEF OwnInv
  <2>2. ASSUME pc[p] \in Inside, sess' = None => ~damaged',
               pc'[p] \notin Building \cup {"rollback"} \/ sess' = None
        PROVE  OwnInv'
    BY <1>1, <2>2, OwnInside DEF MakingOK
  <2>3. CASE Look(p) \/ Observe(p) \/ Record(p) \/ TmuxFails(p) \/ Preflight(p) \/ Exists(p)
    <3>1. pc[p] \in Inside /\ UNCHANGED <<sess, damaged>>
      BY <2>3 DEF Look, Observe, Record, TmuxFails, Preflight, Exists, Inside, Labels, history
    <3>2. pc'[p] \notin Building \cup {"rollback"} \/ sess = None
      BY <1>0, <2>3 DEF Look, Sees, Observe, Record, TmuxFails, Preflight, Exists, Goto, Done,
         Building
    <3> QED
      BY <1>0, <2>2, <3>1, <3>2
  <2>4. CASE Kill(p) \/ Rollback(p) \/ Crash(p)
    <3>1. pc[p] \in Inside /\ (sess' = None => ~damaged')
      BY <1>0, <2>4 DEF Kill, Rollback, Crash, Inside, Labels
    <3>2. pc'[p] \in {"idle", "observe"}
      BY <1>0, <2>4 DEF Kill, Rollback, Crash, Done, Goto
    <3> QED
      BY <2>2, <3>1, <3>2 DEF Building
  <2>5. CASE New(p)
    <3>1. pc[p] = "new" /\ pc[p] \in Inside /\ pc'[p] \in {"pm", "rollback"}
          /\ UNCHANGED damaged
      BY <1>0, <2>5
         DEF New, Continue, GiveUp, Following, Building, Goto, Inside, Labels, Keeps, history
    <3>2. CASE UNCHANGED sess
      BY <1>0, <1>1, <2>0, <3>1, <3>2, OwnInside, ConstantsOK
         DEF MakingOK, Building, ConstantsAssumption
    <3>3. CASE sess = None /\ sess' = [by |-> p, layout |-> layout[p], panes |-> NoPanes]
      <4>1. sess' # None => sess'.by = p /\ sess'.panes = NoPanes /\ ~damaged'
        BY <1>0, <3>1, <3>3
      <4>2. MakingOK(p)'
        BY <3>1, <4>1 DEF MakingOK, NoPanes, ToCome, Roles
      <4> QED
        BY <1>0, <1>1, <3>1, <3>3, <4>2, OwnInside
    <3> QED
      BY <2>5, <3>2, <3>3 DEF New
  <2>6. ASSUME NEW r \in Roles, Add(p, r) PROVE OwnInv'
    <3>1. /\ pc[p] = r /\ pc[p] \in Inside /\ UNCHANGED damaged
          /\ pc'[p] \in {Following[r], "rollback"}
          /\ pc'[p] # "new" /\ r \in Building \ {"new"}
      BY <1>0, <2>6
         DEF Add, Roles, Continue, GiveUp, Following, Building, Goto, Inside, Labels, Keeps,
             history
    <3>2. /\ ToCome(pc'[p]) \subseteq ToCome(r) /\ r \notin ToCome(pc'[p])
          /\ r \in ToCome(r)
      BY <3>1 DEF ToCome, Roles, Following, Building
    <3>3. CASE UNCHANGED sess
      <4>1. MakingOK(p)'
        BY <2>0, <3>1, <3>2, <3>3 DEF MakingOK
      <4> QED
        BY <1>0, <1>1, <3>1, <3>3, <4>1, OwnInside
    <3>4. CASE Fits(p, r) /\ sess' = Grown(p, r)
      <4>1. sess # None /\ sess \in Sessions
        BY <1>0, <3>4 DEF Fits
      <4>2. sess.panes \in [Roles -> 0..2]
        BY <4>1 DEF Sessions
      <4>3. sess'.by = sess.by
            /\ sess'.panes = [sess.panes EXCEPT ![r] = IF r = "pm" \/ @ = 0 THEN 1 ELSE 2]
        BY <3>4, <4>1 DEF Grown, Sessions
      <4>4. sess.by \in {p, Rival}
        BY <2>0, <3>1, <4>1 DEF MakingOK
      <4>5. ASSUME sess.by = p
            PROVE  /\ sess'.panes \in [Roles -> 0..1]
                   /\ \A x \in ToCome(pc'[p]) : sess'.panes[x] = 0
                   /\ damaged => \E x \in Roles \ ToCome(pc'[p]) : sess'.panes[x] = 0
        <5>1. /\ sess.panes \in [Roles -> 0..1]
              /\ \A x \in ToCome(r) : sess.panes[x] = 0
              /\ damaged => \E x \in Roles \ ToCome(r) : sess.panes[x] = 0
          BY <2>0, <3>1, <4>1, <4>5 DEF MakingOK
        <5>2. sess'.panes = [sess.panes EXCEPT ![r] = 1]
          BY <3>2, <4>3, <5>1
        <5>3. sess'.panes \in [Roles -> 0..1] /\ \A x \in Roles : x # r => sess'.panes[x] = sess.panes[x]
          BY <5>1, <5>2
        <5>4. ToCome(r) \subseteq Roles
          BY DEF ToCome, Roles
        <5> QED
          BY <3>2, <5>1, <5>3, <5>4
      <4>6. MakingOK(p)'
        BY <3>1, <4>3, <4>4, <4>5 DEF MakingOK
      <4>7. sess' # None
        BY <1>0, <3>1, <3>4, <4>1, GrownType, ConstantsOK
           DEF TypeOK, ConstantsAssumption
      <4> QED
        BY <1>1, <3>1, <4>6, <4>7, OwnInside
    <3> QED
      BY <2>6, <3>3, <3>4 DEF Add
  <2>7. CASE Verify(p)
    <3>1. /\ pc[p] = "verify" /\ pc[p] \in Inside /\ UNCHANGED <<sess, damaged>>
          /\ pc'[p] \in {"observe", "rollback"}
      BY <1>0, <2>7 DEF Verify, GiveUp, Goto, Inside, Labels, Building, Keeps, history
    <3>2. MakingOK(p)'
      BY <2>0, <3>1 DEF MakingOK, Building, ToCome
    <3> QED
      BY <1>0, <1>1, <3>1, <3>2, OwnInside
  <2> QED
    BY <1>1, <2>1, <2>3, <2>4, <2>5, <2>6, <2>7 DEF Step
<1>2. CASE SessionEnds
  BY <1>2 DEF SessionEnds, OwnInv, MakingOK
<1>3. ASSUME NEW l \in Layouts, RivalCreates(l) PROVE OwnInv'
  <2>1. sess'.by = Rival /\ ~damaged' /\ UNCHANGED pc
    BY <1>3 DEF RivalCreates, Outside, local
  <2> QED
    BY <2>1, ConstantsOK DEF OwnInv, MakingOK, ConstantsAssumption
<1>4. ASSUME NEW r \in Roles, PaneDies(r) PROVE OwnInv'
  <2>1. sess # None /\ sess \in Sessions /\ sess.panes[r] > 0 /\ damaged' /\ UNCHANGED pc
    BY <1>0, <1>4 DEF PaneDies, Outside, local
  <2>2. PICK l \in Layouts \cup {None} : sess' = [sess EXCEPT !.panes[r] = @ - 1, !.layout = l]
    BY <1>4, <2>1 DEF PaneDies, Sessions
  <2>3. sess'.by = sess.by /\ sess'.panes = [sess.panes EXCEPT ![r] = @ - 1]
    BY <2>1, <2>2 DEF Sessions
  <2>4. ASSUME NEW p \in Procs PROVE MakingOK(p)'
    <3> SUFFICES ASSUME pc[p] \in Building \cup {"rollback"}, sess.by = p
                 PROVE  /\ sess'.panes \in [Roles -> 0..1]
                        /\ \A x \in ToCome(pc[p]) : sess'.panes[x] = 0
                        /\ \E x \in Roles \ ToCome(pc[p]) : sess'.panes[x] = 0
      BY <2>1, <2>3 DEF MakingOK, OwnInv
    <3>1. sess.panes \in [Roles -> 0..1] /\ \A x \in ToCome(pc[p]) : sess.panes[x] = 0
      BY <2>1 DEF OwnInv, MakingOK
    <3>2. r \notin ToCome(pc[p]) /\ sess'.panes[r] = 0
      BY <2>1, <2>3, <3>1
    <3>3. ToCome(pc[p]) \subseteq Roles
      BY DEF ToCome, Roles
    <3> QED
      BY <2>3, <3>1, <3>2, <3>3
  <2>5. sess' # None
    <3>1. sess.panes \in [Roles -> 0..2]
      BY <2>1 DEF Sessions
    <3>2. [sess.panes EXCEPT ![r] = @ - 1] \in [Roles -> 0..2]
      BY <2>1, <3>1
    <3>3. sess' \in Sessions
      BY <2>1, <2>2, <3>2 DEF Sessions
    <3> QED
      BY <3>3, ConstantsOK DEF ConstantsAssumption
  <2> QED
    BY <2>4, <2>5 DEF OwnInv
<1>5. CASE UNCHANGED vars \/ \E l \in Layouts : ConfigSet(l)
  BY <1>5 DEF ConfigSet, Outside, vars, local, history, OwnInv, MakingOK
<1> QED
  BY <1>1, <1>2, <1>3, <1>4, <1>5 DEF Next, Environment

LEMMA OwnCorrect == Spec => [](TypeOK /\ OwnInv)
<1>1. Init => OwnInv
  BY DEF Init, OwnInv, MakingOK
<1>2. TypeOK /\ OwnInv /\ [Next]_vars => OwnInv'
  BY OwnStep
<1> QED
  BY <1>1, <1>2, TypeCorrect, PTL DEF Spec

(* A rollback takes away a session of its own process or of a rival, never *)
(* one that another process of this installation made.                     *)
THEOREM RollsBackNoPeerTheorem == Spec => RollsBackNoPeer
<1>1. OwnInv => \A p \in Procs :
          pc[p] = "rollback" /\ sess # None /\ Rollback(p) /\ sess' = None
             => sess.by \in {p, Rival}
  BY DEF OwnInv, MakingOK
<1> QED
  BY <1>1, OwnCorrect, PTL DEF RollsBackNoPeer

-----------------------------------------------------------------------------
(* The session service is a Team.                                          *)

\* The process at work decides what is hidden.
LEMMA HiddenBy ==
    ASSUME NEW p \in Procs
    PROVE  /\ lock = p => (Hidden <=> pc[p] \in Making /\ sess.by = p)
           /\ lock' = p => (Hidden' <=> pc'[p] \in Making /\ sess'.by = p)
           /\ lock' = None => ~Hidden'
BY ConstantsOK DEF Hidden, ConstantsAssumption

\* What is not shown is no team.
LEMMA NothingShown ==
    ASSUME lock \in Procs \cup {None}, ~Shown
    PROVE  T!Down
BY ConstantsOK DEF Shown, Hidden, T!Down, T!Roles, NoPanes, Roles, ConstantsAssumption

LEMMA NothingShownNext ==
    ASSUME lock' \in Procs \cup {None}, ~Shown'
    PROVE  T!Down'
BY ConstantsOK DEF Shown, Hidden, T!Down, T!Roles, NoPanes, Roles, ConstantsAssumption

LEMMA SameTeam ==
    ASSUME UNCHANGED <<sess, damaged>>, Shown, Shown'
    PROVE  UNCHANGED T!team
BY DEF T!team

\* Nothing hidden before, and nothing done: nothing changes, if anything is shown.
LEMMA TeamAside ==
    ASSUME NEW p \in Procs, TypeOK, OwnInv, Shown', Step(p),
           \/ Acquire(p) \/ Look(p) \/ Preflight(p) \/ Exists(p) \/ Observe(p)
           \/ Record(p) \/ TmuxFails(p)
           \/ \E call \in {"start", "stop", "status"} : Invoke(p, call)
    PROVE  UNCHANGED T!team
<1>1. UNCHANGED <<sess, damaged>>
  BY DEF Acquire, Look, Preflight, Exists, Observe, Record, TmuxFails, Invoke, history
<1>2. CASE Acquire(p)
  BY <1>1, <1>2, SameTeam DEF Acquire, Shown, Hidden
<1>3. CASE \E call \in {"start", "stop", "status"} : Invoke(p, call)
  <2>1. lock' = lock /\ lock # p /\ lock \in Procs \cup {None}
    BY <1>3 DEF Invoke, TypeOK, Inside, Labels
  <2>2. \A q \in Procs : q # p => pc'[q] = pc[q]
    BY OthersStay
  <2>3. Hidden' <=> Hidden
    BY <1>1, <2>1, <2>2 DEF Hidden
  <2> QED
    BY <1>1, <2>3, SameTeam DEF Shown
<1>4. CASE Look(p) \/ Preflight(p) \/ Exists(p) \/ Observe(p) \/ Record(p) \/ TmuxFails(p)
  <2>1. pc[p] \in Inside \ Making
    BY <1>4 DEF Look, Preflight, Exists, Observe, Record, TmuxFails, Inside, Labels, Making,
       Building
  <2>2. ~Hidden
    BY <2>1, HiddenBy DEF TypeOK
  <2> QED
    BY <1>1, <2>2, SameTeam DEF Shown
<1> QED
  BY <1>2, <1>3, <1>4

\* Building, verifying, rolling back or dying while something is shown afterwards.
LEMMA TeamBuilding ==
    ASSUME NEW p \in Procs, TypeOK, OwnInv, Shown',
           New(p) \/ (\E r \in Roles : Add(p, r)) \/ Verify(p) \/ Rollback(p) \/ Crash(p)
    PROVE  [T!Next]_(T!team)
<1> USE DEF Shown
<1>0. /\ pc \in [Procs -> Labels] /\ damaged \in BOOLEAN
      /\ sess \in Sessions \cup {None} /\ p # Rival
  BY ConstantsOK DEF TypeOK, ConstantsAssumption
<1>1. pc[p] \in Inside /\ lock = p
  BY DEF TypeOK, New, Add, Verify, Rollback, Crash, Inside, Labels, Building, Roles
<1>2. MakingOK(p)
  BY DEF OwnInv
<1>3. Hidden <=> pc[p] \in Making /\ sess.by = p
  BY <1>1, HiddenBy
<1>4. CASE New(p)
  <2>1. pc[p] = "new" /\ pc'[p] \in Making /\ lock' = p /\ UNCHANGED damaged
    BY <1>0, <1>1, <1>4
       DEF New, Continue, GiveUp, Following, Building, Goto, Making, Keeps, Holds, history
  <2>2. sess'.by # p
    BY <2>1, HiddenBy
  <2>3. UNCHANGED sess
    BY <1>4, <2>2 DEF New
  <2>4. ~Hidden
    BY <1>3, <2>1 DEF Making
  <2> QED
    BY <2>1, <2>3, <2>4, SameTeam
<1>5. ASSUME NEW r \in Roles, Add(p, r) PROVE [T!Next]_(T!team)
  <2>1. /\ pc[p] = r /\ pc'[p] \in Making /\ lock' = p /\ UNCHANGED damaged
        /\ pc[p] \in Building
    BY <1>0, <1>1, <1>5
       DEF Add, Roles, Continue, GiveUp, Following, Building, Goto, Making, Keeps, Holds, history
  <2>2. sess'.by # p
    BY <2>1, HiddenBy
  <2>3. CASE UNCHANGED sess
    BY <1>3, <2>1, <2>2, <2>3, SameTeam
  <2>4. CASE Fits(p, r) /\ sess' = Grown(p, r)
    <3>1. sess # None /\ sess \in Sessions
      BY <1>0, <2>4 DEF Fits
    <3>2. sess'.by = sess.by
          /\ sess'.panes = [sess.panes EXCEPT ![r] = IF r = "pm" \/ @ = 0 THEN 1 ELSE 2]
      BY <2>4, <3>1 DEF Grown, Sessions
    <3>3. sess.by = Rival /\ sess'.by = Rival
      BY <1>2, <2>1, <2>2, <3>1, <3>2 DEF MakingOK
    <3>4. Shown
      BY <1>0, <1>3, <3>1, <3>3
    <3>5. T!Grafted
      BY <2>1, <3>1, <3>2, <3>3, <3>4 DEF T!Grafted, T!Roles, Roles
    <3> QED
      BY <3>1, <3>3, <3>4, <3>5 DEF T!Next
  <2> QED
    BY <1>5, <2>3, <2>4 DEF Add
<1>6. CASE Verify(p)
  <2>1. /\ pc[p] = "verify" /\ pc[p] \in Making \cap Building /\ lock' = p
        /\ UNCHANGED <<sess, damaged>>
    BY <1>1, <1>6 DEF Verify, Making, Building, Keeps, Holds, history
  <2>2. CASE sess.by # p
    BY <1>3, <2>1, <2>2, SameTeam
  <2>3. CASE sess.by = p
    <3>1. pc'[p] \notin Making
      BY <2>1, <2>3, HiddenBy
    <3>2. sess # None /\ sess.panes = AllPanes
      BY <1>0, <1>6, <3>1 DEF Verify, GiveUp, Goto, Making, Complete
    <3>3. ~damaged
      BY <1>2, <2>1, <2>3, <3>2 DEF MakingOK, AllPanes
    <3>4. ~Shown
      BY <1>3, <2>1, <2>3
    <3>5. T!Built
      BY <1>0, <2>1, <2>3, <3>2, <3>3 DEF T!Built, T!Whole, T!Roles, AllPanes, Roles
    <3> QED
      BY <3>4, <3>5 DEF T!Next
  <2> QED
    BY <2>2, <2>3
<1>7. ASSUME UNCHANGED sess, damaged', pc[p] \in Building \cup {"rollback"}
      PROVE  [T!Next]_(T!team)
  <2>1. sess # None /\ sess.by \in {p, Rival}
    BY <1>2, <1>7 DEF MakingOK
  <2>2. CASE sess.by = p
    <3>1. ~Shown
      BY <1>0, <1>2, <1>3, <1>7, <2>1, <2>2 DEF MakingOK, Making
    <3>2. sess.panes \in [Roles -> 0..1]
      BY <1>2, <1>7, <2>1, <2>2 DEF MakingOK
    <3>3. T!LeftBehind
      BY <1>0, <1>7, <2>2, <3>2 DEF T!LeftBehind, T!Roles, Roles
    <3> QED
      BY <3>1, <3>3 DEF T!Next
  <2>3. CASE sess.by = Rival
    <3>1. Shown
      BY <1>0, <1>3, <2>1, <2>3
    <3>2. T!Abandoned
      BY <1>7, <2>1, <2>3, <3>1 DEF T!Abandoned
    <3> QED
      BY <1>7, <3>1, <3>2 DEF T!Next
  <2> QED
    BY <2>1, <2>2, <2>3
<1>8. CASE Rollback(p)
  BY <1>7, <1>8 DEF Rollback
<1>9. CASE Crash(p)
  <2>1. CASE pc[p] \in Building \cup {"rollback"}
    BY <1>7, <1>9, <2>1 DEF Crash
  <2>2. CASE pc[p] \notin Building \cup {"rollback"}
    <3>1. UNCHANGED <<sess, damaged>> /\ ~Hidden
      BY <1>0, <1>3, <1>9, <2>2 DEF Crash, Making
    <3> QED
      BY <3>1, SameTeam
  <2> QED
    BY <2>1, <2>2
<1> QED
  BY <1>4, <1>5, <1>6, <1>8, <1>9

LEMMA TeamStep ==
    ASSUME TypeOK, TypeOK', OwnInv, [Next]_vars
    PROVE  [T!Next]_(T!team)
<1>0. lock \in Procs \cup {None} /\ lock' \in Procs \cup {None}
  BY DEF TypeOK
<1>1. CASE ~Shown'
  <2>1. T!Down'
    BY <1>0, <1>1, NothingShownNext
  <2>2. CASE Shown
    BY <2>1, <2>2 DEF T!Next
  <2>3. CASE ~Shown
    <3>1. T!Down
      BY <1>0, <2>3, NothingShown
    <3>2. (IF Shown THEN sess.panes ELSE NoPanes)' = IF Shown THEN sess.panes ELSE NoPanes
      BY <1>1, <2>3
    <3>3. /\ (sess # None /\ sess.by = Rival)' = (sess # None /\ sess.by = Rival)
          /\ (Shown /\ damaged)' = (Shown /\ damaged)
          /\ Shown' = Shown
      BY <1>1, <2>1, <2>3, <3>1 DEF T!Down, Shown
    <3> QED
      BY <3>2, <3>3 DEF T!team
  <2> QED
    BY <2>2, <2>3
<1>2. ASSUME Shown', NEW p \in Procs, Step(p) PROVE [T!Next]_(T!team)
  <2>1. CASE Kill(p)
    BY <1>2, <2>1 DEF Kill, Shown
  <2> QED
    BY <1>2, <2>1, TeamAside, TeamBuilding DEF Step
<1>3. ASSUME Shown', NEW l \in Layouts, RivalCreates(l) PROVE [T!Next]_(T!team)
  <2>1. ~Shown /\ sess' # None /\ sess'.by = Rival /\ sess'.panes = AllPanes /\ ~damaged'
    BY <1>3 DEF RivalCreates, Shown
  <2>2. T!Taken
    BY <1>3, <2>1 DEF T!Taken, T!Whole, T!Roles, AllPanes, Roles
  <2> QED
    BY <1>3, <2>1, <2>2 DEF T!Next
<1>4. ASSUME Shown', NEW r \in Roles, PaneDies(r) PROVE [T!Next]_(T!team)
  <2>1. /\ sess # None /\ sess \in Sessions /\ sess.panes[r] > 0 /\ damaged'
        /\ UNCHANGED <<pc, lock>>
    BY <1>4 DEF PaneDies, Outside, local, TypeOK
  <2>2. PICK l : sess' = [sess EXCEPT !.panes[r] = @ - 1, !.layout = l]
    BY <1>4, <2>1 DEF PaneDies
  <2>3. sess'.by = sess.by /\ sess'.panes = [sess.panes EXCEPT ![r] = @ - 1]
    BY <2>1, <2>2 DEF Sessions
  <2>4. Shown /\ sess' # None
    BY <1>4, <2>1, <2>3 DEF Shown, Hidden
  <2>5. T!Loses
    BY <1>4, <2>1, <2>3, <2>4 DEF T!Loses, T!Roles, Roles
  <2> QED
    BY <1>4, <2>1, <2>3, <2>4, <2>5 DEF T!Next
<1>5. ASSUME Shown', UNCHANGED vars \/ \E l \in Layouts : ConfigSet(l)
      PROVE  UNCHANGED T!team
  <2>1. UNCHANGED <<sess, damaged, lock, pc>>
    BY <1>5 DEF ConfigSet, Outside, vars, local, history
  <2> QED
    BY <1>5, <2>1, SameTeam DEF Shown, Hidden
<1>6. ASSUME Shown', SessionEnds PROVE FALSE
  BY <1>6 DEF SessionEnds, Shown
<1> QED
  BY <1>1, <1>2, <1>3, <1>4, <1>5, <1>6 DEF Next, Environment

(* The commands of a creation, its rollback, the timeouts and the deaths   *)
(* are one step to everybody else: a session appears whole, or damaged.    *)
THEOREM TeamImplemented == Spec => ImplementsTeam
<1>1. Init => T!Init
  BY DEF Init, T!Init, T!Down, T!Roles, Shown, NoPanes, Roles
<1>2. TypeOK /\ TypeOK' /\ OwnInv /\ [Next]_vars => [T!Next]_(T!team)
  BY TeamStep
<1> QED
  BY <1>1, <1>2, OwnCorrect, PTL DEF Spec, ImplementsTeam, T!Spec

(* A session of this installation that others can meet has one pane of     *)
(* each role unless it was damaged, and never two.                         *)
THEOREM OnePaneEachTheorem == Spec => []OnePaneEach
BY TeamImplemented, T!OnePaneEachTheorem, PTL DEF ImplementsTeam, OnePaneEach
=============================================================================
