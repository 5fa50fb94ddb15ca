-------------------------------- MODULE Home --------------------------------
(***************************************************************************)
(* The runtime home, ATCODE_HOME: which directories are registered as      *)
(* projects, and the configuration layers, one global and one of each      *)
(* project.  init and config read and write them without a lock, so every  *)
(* read and every write is a step of its own; write_json_atomic makes a    *)
(* write one step.  The user edits config.json by hand, too.               *)
(*                                                                         *)
(* A layer is a function from the names it holds to their values: "pm"     *)
(* stands for roles.pm.adapter, and a role left without its adapter has    *)
(* the value Bare.  A project is its root: its id is made from the root.   *)
(***************************************************************************)
CONSTANTS
    Procs,      \* commands that run at a time
    Dirs,       \* directories
    Above,      \* Above[d]: d and the directories it lies in
    GitRoot,    \* GitRoot[d]: the top of the git work tree of d, None if in none
    Keys,       \* the names config set takes
    Legacy,     \* names of roles that are no more
    Allowed,    \* the values each of these may have
    Default,    \* _DEFAULT
    Commands,   \* bound: the commands that are run
    Configured, \* bound: the scopes that are configured
    HandWritten,\* the layers users write into config.json
    Bare,       \* the value {} of a role
    None

VARIABLES
    projects,   \* roots with a project.json
    layers,     \* config.json of every scope
    pc,         \* where each process is
    call,       \* its command
    scope,      \* the scope or root it acts on
    copy,       \* what it holds of what it read
    before,     \* history: the projects there were when it looked for its root
    first,      \* history: the effective configuration when it began to read it
    moved,      \* history: the scopes written since it read them
    broken      \* history: scopes with a layer that a user broke

vars == <<projects, layers, pc, call, scope, copy, before, first, moved, broken>>

Scopes == Dirs \cup {"global"}
Texts == UNION {Allowed[k] : k \in Keys \cup Legacy} \cup {Bare}
LayersOver(names) == UNION {[S -> Texts] : S \in SUBSET names}
Empty == [k \in {} |-> Bare]

Inits == [cmd: {"init"}, explicit: BOOLEAN]
Sets == UNION {[cmd: {"set"}, key: {k}, value: Allowed[k]] : k \in Keys}
Unsets == [cmd: {"unset"}, key: Keys]
Shows == [cmd: {"show"}]
Calls == Inits \cup Sets \cup Unsets \cup Shows

HomeAssumption ==
    /\ "global" \notin Dirs
    /\ None \notin Dirs \cup {"global"}
    /\ Above \in [Dirs -> SUBSET Dirs]
    /\ \A d \in Dirs : d \in Above[d] /\ \A a \in Above[d] : Above[a] \subseteq Above[d]
    \* The directories above one are nested: of some of them one is the deepest.
    /\ \A d \in Dirs : \A S \in SUBSET Above[d] :
            S # {} => \E r \in S : \A q \in S : q \in Above[r]
    /\ GitRoot \in [Dirs -> Dirs \cup {None}]
    /\ \A d \in Dirs : GitRoot[d] # None => GitRoot[d] \in Above[d]
    /\ Keys \cap Legacy = {}
    /\ Keys \cup Legacy \subseteq DOMAIN Allowed
    /\ \A k \in Keys \cup Legacy : Bare \notin Allowed[k]
    /\ Default \in [Keys -> Texts] /\ \A k \in Keys : Default[k] \in Allowed[k]
    /\ Commands \subseteq Calls
    /\ Configured \subseteq Scopes
    /\ HandWritten \subseteq LayersOver(Keys \cup Legacy)
ASSUME HomeOK == HomeAssumption

-----------------------------------------------------------------------------
(* Configuration layers.                                                   *)

\* _normalize_legacy_roles: legacy roles must be sound, and are dropped.
Readable(l) == \A k \in DOMAIN l \cap Legacy : l[k] \in Allowed[k]
Normalized(l) == [k \in DOMAIN l \ Legacy |-> l[k]]

\* _validate_layer
Valid(l) == DOMAIN l \subseteq Keys /\ \A k \in DOMAIN l : l[k] \in Allowed[k]
Loads(l) == Readable(l) /\ Valid(Normalized(l))

\* Mutant: unset takes the adapter and leaves the role.
WithBare(l, key) == [k \in DOMAIN l |-> IF k = key THEN Bare ELSE l[k]]

Without(l, key) == [k \in DOMAIN l \ {key} |-> l[k]]

\* Mutant: set starts from nothing.
ChangedAlone(l, c) ==
    IF c.cmd = "set" THEN [k \in {c.key} |-> c.value] ELSE Without(l, c.key)

\* What set and unset make of a layer.
Changed(l, c) ==
    IF c.cmd = "set"
    THEN [k \in DOMAIN l \cup {c.key} |-> IF k = c.key THEN c.value ELSE l[k]]
    ELSE Without(l, c.key)

\* Mutant: what was there is kept.
MergedUnder(low, high) ==
    [k \in DOMAIN low \cup DOMAIN high |-> IF k \in DOMAIN low THEN low[k] ELSE high[k]]

\* _merge
Merged(low, high) ==
    [k \in DOMAIN low \cup DOMAIN high |-> IF k \in DOMAIN high THEN high[k] ELSE low[k]]

-----------------------------------------------------------------------------
(* Project roots.                                                          *)

Matches(d) == projects \cap Above[d]

\* Mutant: the first registration wins, the outermost one.
OutermostFound(d) ==
    IF Matches(d) = {} THEN None ELSE CHOOSE r \in Matches(d) : \A q \in Matches(d) : r \in Above[q]

\* find_containing: the deepest one.
Found(d) ==
    IF Matches(d) = {} THEN None ELSE CHOOSE r \in Matches(d) : \A q \in Matches(d) : q \in Above[r]

\* Mutant: git is asked first.
GitResolved(cwd, git) ==
    IF git # None THEN git ELSE IF Found(cwd) # None THEN Found(cwd) ELSE cwd

\* resolve_root without --project.
Resolved(cwd, git) ==
    IF Found(cwd) # None THEN Found(cwd) ELSE IF git # None THEN git ELSE cwd

-----------------------------------------------------------------------------
Init ==
    /\ projects = {}
    /\ layers = [s \in Scopes |-> Empty]
    /\ pc = [p \in Procs |-> "idle"]
    /\ call = [p \in Procs |-> None]
    /\ scope = [p \in Procs |-> None]
    /\ copy = [p \in Procs |-> Empty]
    /\ before = [p \in Procs |-> {}]
    /\ first = [p \in Procs |-> Empty]
    /\ moved = [p \in Procs |-> {}]
    /\ broken = {}

Forget(p) ==
    /\ pc' = [pc EXCEPT ![p] = "idle"]
    /\ call' = [call EXCEPT ![p] = None]
    /\ scope' = [scope EXCEPT ![p] = None]
    /\ copy' = [copy EXCEPT ![p] = Empty]
    /\ before' = [before EXCEPT ![p] = {}]
    /\ first' = [first EXCEPT ![p] = Empty]

\* The command ends, with its result or an error; files stay.
Return(p) == Forget(p) /\ moved' = [moved EXCEPT ![p] = {}]

GoesOn(p, at) == pc' = [pc EXCEPT ![p] = at] /\ UNCHANGED <<call, scope>>

\* A command for the project of --project, or of the working directory; git may be
\* missing, fail or time out.
Invoke(p, c, root) ==
    /\ pc[p] = "idle"
    /\ c.cmd # "init" => root \in Configured
    /\ pc' = [pc EXCEPT ![p] = "find"]
    /\ call' = [call EXCEPT ![p] = c]
    /\ scope' = [scope EXCEPT ![p] = root]
    /\ before' = [before EXCEPT ![p] = IF c.cmd = "init" THEN projects ELSE {}]
    /\ UNCHANGED <<projects, layers, copy, first, moved, broken>>

InvokeHere(p, c, cwd, git) ==
    /\ c.cmd = "init" => ~c.explicit
    /\ Invoke(p, c, Resolved(cwd, git))

InvokeThere(p, c, root) ==
    /\ c.cmd = "init" => c.explicit
    /\ Invoke(p, c, root)

InvokeGlobal(p, c) ==
    /\ pc[p] = "idle"
    /\ c.cmd # "init" /\ "global" \in Configured
    /\ pc' = [pc EXCEPT ![p] = "read"]
    /\ call' = [call EXCEPT ![p] = c]
    /\ scope' = [scope EXCEPT ![p] = "global"]
    /\ UNCHANGED <<projects, layers, copy, before, first, moved, broken>>

\* Mutant: config takes any directory for a project.
FindAny(p) ==
    /\ pc[p] = "find"
    /\ IF call[p].cmd = "init" /\ scope[p] \in projects
       THEN Return(p)
       ELSE /\ GoesOn(p, IF call[p].cmd = "init" THEN "save" ELSE "read")
            /\ UNCHANGED <<copy, before, first, moved>>
    /\ UNCHANGED <<projects, layers, broken>>

\* find_by_root: init is done when there is a project, config when there is none.
Find(p) ==
    /\ pc[p] = "find"
    /\ IF (scope[p] \in projects) = (call[p].cmd = "init")
       THEN Return(p)
       ELSE /\ GoesOn(p, IF call[p].cmd = "init" THEN "save" ELSE "read")
            /\ UNCHANGED <<copy, before, first, moved>>
    /\ UNCHANGED <<projects, layers, broken>>

Save(p) ==
    /\ pc[p] = "save"
    /\ projects' = projects \cup {scope[p]}
    /\ Return(p)
    /\ UNCHANGED <<layers, broken>>

\* set and unset read the layer; set validates what it makes of it.
Read(p) ==
    /\ pc[p] = "read" /\ call[p].cmd # "show"
    /\ LET layer == layers[scope[p]]
           changed == Changed(Normalized(layer), call[p])
       IN  IF ~Readable(layer) \/ (call[p].cmd = "set" /\ ~Valid(changed))
           THEN Return(p)
           ELSE /\ copy' = [copy EXCEPT ![p] = changed]
                /\ moved' = [moved EXCEPT ![p] = {}]
                /\ GoesOn(p, "write")
                /\ UNCHANGED <<before, first>>
    /\ UNCHANGED <<projects, layers, broken>>

\* Whoever holds something of a layer that is written holds something old.
Moved(s) ==
    [q \in Procs |-> IF pc[q] \in {"write", "merge"} /\ s \in {"global", scope[q]}
                     THEN moved[q] \cup {s} ELSE moved[q]]

Write(p) ==
    /\ pc[p] = "write"
    /\ layers' = [layers EXCEPT ![scope[p]] = copy[p]]
    /\ moved' = [Moved(scope[p]) EXCEPT ![p] = {}]
    /\ Forget(p)
    /\ UNCHANGED <<projects, broken>>

\* effective (config show and get, start, doctor): the global layer first,
EffectiveOf(s) ==
    [k \in Keys |->
        IF s # "global" /\ k \in DOMAIN layers[s] THEN layers[s][k]
        ELSE IF k \in DOMAIN layers["global"] THEN layers["global"][k]
        ELSE Default[k]]

ReadGlobal(p) ==
    /\ pc[p] = "read" /\ call[p].cmd = "show"
    /\ IF ~Loads(layers["global"])
       THEN Return(p)
       ELSE /\ copy' = [copy EXCEPT ![p] = Merged(Default, Normalized(layers["global"]))]
            /\ first' = [first EXCEPT ![p] =
                            IF scope[p] = "global" THEN Empty ELSE EffectiveOf(scope[p])]
            /\ moved' = [moved EXCEPT ![p] = {}]
            /\ GoesOn(p, IF scope[p] = "global" THEN "shown" ELSE "merge")
            /\ UNCHANGED before
    /\ UNCHANGED <<projects, layers, broken>>

\* ... then the project's over it,
ReadProject(p) ==
    /\ pc[p] = "merge"
    /\ IF ~Loads(layers[scope[p]])
       THEN Return(p)
       ELSE /\ copy' = [copy EXCEPT ![p] = Merged(copy[p], Normalized(layers[scope[p]]))]
            /\ first' = [first EXCEPT ![p] = Empty]
            /\ moved' = [moved EXCEPT ![p] = {}]
            /\ GoesOn(p, "shown")
            /\ UNCHANGED before
    /\ UNCHANGED <<projects, layers, broken>>

\* ... and it is used.
Show(p) == pc[p] = "shown" /\ Return(p) /\ UNCHANGED <<projects, layers, broken>>

\* A process may die at any point.
Die(p) == pc[p] # "idle" /\ Return(p) /\ UNCHANGED <<projects, layers, broken>>

\* A user may break a layer and repair it; until then, and while a command holds
\* what it read of it, it is broken.
HandEdit(s, l) ==
    /\ s \in (projects \cup {"global"}) \cap Configured
    /\ layers' = [layers EXCEPT ![s] = l]
    /\ moved' = Moved(s)
    /\ broken' = IF ~Loads(l) THEN broken \cup {s}
                 ELSE IF \E p \in Procs : pc[p] = "write" /\ scope[p] = s THEN broken
                 ELSE broken \ {s}
    /\ UNCHANGED <<projects, pc, call, scope, copy, before, first>>

Next ==
    \/ \E p \in Procs :
        \/ \E c \in Commands :
            \/ \E cwd \in Dirs : \E git \in {GitRoot[cwd], None} : InvokeHere(p, c, cwd, git)
            \/ \E root \in Dirs : InvokeThere(p, c, root)
            \/ InvokeGlobal(p, c)
        \/ Find(p) \/ Save(p) \/ Read(p) \/ Write(p)
        \/ ReadGlobal(p) \/ ReadProject(p) \/ Show(p) \/ Die(p)
    \/ \E s \in Scopes, l \in HandWritten : HandEdit(s, l)

Spec == Init /\ [][Next]_vars
-----------------------------------------------------------------------------
TypeOK ==
    /\ projects \subseteq Dirs
    /\ layers \in [Scopes -> LayersOver(Keys \cup Legacy)]
    /\ \A d \in Dirs : layers[d] # Empty => d \in projects
    /\ pc \in [Procs -> {"idle", "find", "save", "read", "write", "merge", "shown"}]
    /\ call \in [Procs -> Calls \cup {None}]
    /\ scope \in [Procs -> Scopes \cup {None}]
    /\ copy \in [Procs -> LayersOver(Keys \cup Legacy)]
    /\ before \in [Procs -> SUBSET Dirs]
    /\ first \in [Procs -> LayersOver(Keys)]
    /\ moved \in [Procs -> SUBSET Scopes]
    /\ broken \subseteq Scopes

(* No interleaving of commands breaks a configuration: a layer that does   *)
(* not load was broken by hand, and not repaired since with no unset       *)
(* holding the broken one.                                                 *)
ConfigLoads == \A s \in Scopes : Loads(layers[s]) \/ s \in broken

(* set and unset change one key: when nobody wrote the layer between their *)
(* read and their write, every other key has the value it had.             *)
SameEntry(l, m, k) == (k \in DOMAIN l <=> k \in DOMAIN m) /\ (k \in DOMAIN l => l[k] = m[k])
ChangesOneKey ==
    [][\A p \in Procs : Write(p) /\ scope[p] \notin moved[p] =>
          LET c == call[p]  s == scope[p]
          IN  /\ \A k \in Keys \ {c.key} : SameEntry(layers[s], layers'[s], k)
              /\ c.cmd = "set" => c.key \in DOMAIN layers'[s] /\ layers'[s][c.key] = c.value
              /\ c.cmd = "unset" => c.key \notin DOMAIN layers'[s]]_vars

(* What config show prints, and start uses, was the effective              *)
(* configuration when it was read, or when the reading began, unless both  *)
(* layers were written in between.                                         *)
ShowsEffective ==
    [][\A p \in Procs : ReadProject(p) /\ pc'[p] = "shown" =>
          \/ copy'[p] \in {EffectiveOf(scope[p]), first[p]}
          \/ {"global", scope[p]} \subseteq moved[p]]_vars

(* A directory stays with its project: registering another one takes it    *)
(* over only from further inside.                                          *)
FoundStays ==
    [][\A d \in Dirs : Found(d) # None =>
          Found(d)' # None /\ Found(d) \in Above[Found(d)']]_vars

(* init registers only what was not registered, and without --project      *)
(* nothing inside a project there was when it looked.                      *)
RegistersNew ==
    [][\A p \in Procs : Save(p) =>
          /\ scope[p] \notin before[p]
          /\ ~call[p].explicit => before[p] \cap Above[scope[p]] = {}]_vars
=============================================================================
