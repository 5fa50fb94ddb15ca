-------------------------- MODULE DiagnosticsProofs -------------------------
(***************************************************************************)
(* doctor leaves Session what it is, and never warns without a reason, for *)
(* any number of processes.                                                *)
(***************************************************************************)
EXTENDS Diagnostics, SessionProofs

(* Whatever doctor does, the session service behaves as Session says: all  *)
(* that is proved of Session holds with doctor beside it.                  *)
THEOREM DoctorOnlyReads == DoctorSpec => Spec
<1>1. DoctorInit => Init
  BY DEF DoctorInit
<1>2. [DoctorNext]_allVars => [Next]_vars
  BY DEF DoctorNext, ReadState, Inspect, Compare, Fails, Concludes, Watched, allVars
<1> QED BY <1>1, <1>2, PTL DEF DoctorSpec, Spec

LEMMA SnapshotType == ASSUME NEW s PROVE Snapshot(s) \in Snapshots
BY DEF Snapshot, Snapshots

LEMMA SnapshotTells ==
    ASSUME NEW s, NEW l \in Layouts
    PROVE  Actual(Snapshot(s), l) = Lifecycle(s, l)
<1>1. CASE s = None
  BY <1>1 DEF Snapshot, Actual, Lifecycle
<1>2. CASE s # None /\ Complete(s) /\ s.layout \in Layouts
  BY <1>2 DEF Snapshot, Actual, Lifecycle, Layouts
<1>3. CASE s # None /\ ~(Complete(s) /\ s.layout \in Layouts)
  BY <1>3 DEF Snapshot, Actual, Lifecycle, Layouts
<1> QED BY <1>1, <1>2, <1>3

(* What doctor holds keeps its type.                                       *)
THEOREM DoctorTypeCorrect == DoctorSpec => []DoctorTypeOK
<1>1. DoctorInit => DoctorTypeOK
  BY DEF DoctorInit, DoctorTypeOK
<1>2. TypeOK /\ TypeOK' /\ DoctorTypeOK /\ [DoctorNext]_allVars => DoctorTypeOK'
  <2> SUFFICES ASSUME TypeOK, TypeOK', DoctorTypeOK, [DoctorNext]_allVars PROVE DoctorTypeOK'
    OBVIOUS
  <2>1. CASE ReadState
    BY <2>1 DEF ReadState, Quiet, Levels, TypeOK, DoctorTypeOK
  <2>2. CASE Inspect
    BY <2>2, SnapshotType DEF Inspect, DoctorTypeOK
  <2>3. CASE Compare
    BY <2>3 DEF Compare, Concludes, Level, Levels, DoctorTypeOK
  <2>4. CASE Fails
    BY <2>4 DEF Fails, Concludes, Levels, DoctorTypeOK
  <2>5. CASE Watched(Next)
    BY <2>5 DEF Watched, Quiet, TypeOK, DoctorTypeOK
  <2>6. CASE UNCHANGED allVars
    BY <2>6 DEF allVars, doctorVars, DoctorTypeOK
  <2> QED BY <2>1, <2>2, <2>3, <2>4, <2>5, <2>6 DEF DoctorNext
<1>3. Spec => []TypeOK
  BY TypeCorrect
<1> QED BY <1>1, <1>2, <1>3, DoctorOnlyReads, PTL DEF DoctorSpec

\* While it is calm, what doctor has read is still so.
Remembers ==
    doctor \in {"inspect", "compare"} /\ calm =>
        /\ Quiet
        /\ stored = recorded
        /\ doctor = "compare" => shown = Snapshot(sess)

\* Nothing changes while nobody holds the lock and nothing happens outside.
LEMMA QuietStep ==
    ASSUME TypeOK, Next, Quiet, Quiet'
    PROVE  UNCHANGED <<config, sess, recorded>>
<1>1. \A p \in Procs : pc[p] \notin Inside
  BY ConstantsOK DEF TypeOK, Quiet, ConstantsAssumption
<1>2. CASE Environment
  BY <1>2 DEF Environment, SessionEnds, PaneDies, RivalCreates, ConfigSet, Outside, Quiet
<1>3. ASSUME NEW p \in Procs, Step(p) PROVE UNCHANGED <<config, sess, recorded>>
  <2>1. pc[p] \in {"idle", "lock"}
    BY <1>1 DEF TypeOK, Inside, Labels
  <2>2. CASE \E call \in {"start", "stop", "status"} : Invoke(p, call)
    BY <2>2 DEF Invoke
  <2>3. CASE Acquire(p)
    BY <2>3 DEF Acquire
  <2>4. CASE \/ Look(p) \/ Preflight(p) \/ Exists(p)
             \/ New(p) \/ (\E r \in Roles : Add(p, r)) \/ Verify(p) \/ Rollback(p)
             \/ Kill(p) \/ Observe(p) \/ Record(p) \/ TmuxFails(p) \/ Crash(p)
    BY <1>1, <2>1, <2>4
       DEF Look, Preflight, Exists, New, Add, Verify, Rollback, Kill, Observe, Record,
           TmuxFails, Crash, Roles, Inside
  <2> QED BY <1>3, <2>2, <2>3, <2>4 DEF Step
<1> QED BY <1>2, <1>3 DEF Next

LEMMA RemembersStep == TypeOK /\ Remembers /\ [DoctorNext]_allVars => Remembers'
<1> SUFFICES ASSUME TypeOK, Remembers, [DoctorNext]_allVars PROVE Remembers'
  OBVIOUS
<1>1. CASE ReadState
  BY <1>1 DEF ReadState, Remembers, Quiet, vars, history
<1>2. CASE Inspect
  BY <1>2 DEF Inspect, Remembers, Quiet, Snapshot, Complete, vars, history
<1>3. CASE Compare
  BY <1>3 DEF Compare, Concludes, Remembers
<1>4. CASE Fails
  BY <1>4 DEF Fails, Concludes, Remembers
<1>5. CASE Watched(Next)
  <2> SUFFICES ASSUME doctor' \in {"inspect", "compare"}, calm'
               PROVE  /\ Quiet' /\ stored' = recorded'
                      /\ doctor' = "compare" => shown' = Snapshot(sess)'
    BY DEF Remembers
  <2>1. Next /\ calm /\ Quiet' /\ UNCHANGED <<doctor, stored, shown>>
    BY <1>5 DEF Watched
  <2>2. Quiet /\ stored = recorded /\ (doctor = "compare" => shown = Snapshot(sess))
    BY <2>1 DEF Remembers
  <2>3. UNCHANGED <<config, sess, recorded>>
    BY <2>1, <2>2, QuietStep
  <2> QED BY <2>1, <2>2, <2>3 DEF Snapshot, Complete
<1>6. CASE UNCHANGED allVars
  BY <1>6 DEF allVars, doctorVars, vars, history, Remembers, Quiet, Snapshot, Complete
<1> QED BY <1>1, <1>2, <1>3, <1>4, <1>5, <1>6 DEF DoctorNext

(* doctor warns of state.json only when somebody was at work on the        *)
(* session, or something happened outside, while it read or before it.     *)
THEOREM WarnsWithReasonTheorem == DoctorSpec => WarnsWithReason
<1>1. DoctorInit => Remembers
  BY DEF DoctorInit, Remembers
<1>2. TypeOK /\ CacheIsCurrent /\ Remembers /\ [DoctorNext]_allVars
        => [doctor = "compare" /\ calm => doctor' # "WARN"]_allVars
  <2> SUFFICES ASSUME TypeOK, CacheIsCurrent, Remembers, DoctorNext, doctor = "compare", calm
               PROVE  doctor' # "WARN"
    OBVIOUS
  <2>1. Quiet /\ stored = recorded /\ shown = Snapshot(sess)
    BY DEF Remembers
  <2>2. Actual(shown, config) = Lifecycle(sess, config)
    BY <2>1, SnapshotTells DEF TypeOK
  <2>3. IF recorded = None THEN sess = None ELSE recorded = Lifecycle(sess, config)
    BY <2>1 DEF CacheIsCurrent, Quiet
  <2>4. Level(stored, Actual(shown, config)) = "PASS"
    BY <2>1, <2>2, <2>3 DEF Level, Lifecycle
  <2> QED BY <2>4 DEF DoctorNext, ReadState, Inspect, Compare, Fails, Concludes, Watched, Levels
<1>3. Spec => []TypeOK /\ []CacheIsCurrent
  BY TypeCorrect, CacheIsCurrentTheorem
<1> QED BY <1>1, <1>2, <1>3, RemembersStep, DoctorOnlyReads, PTL
       DEF DoctorSpec, WarnsWithReason
=============================================================================
