----------------------------- MODULE HomeProofs -----------------------------
(***************************************************************************)
(* Proofs about Home, for any number of commands, directories, keys and    *)
(* values: the invariant over the layers and every command between two of  *)
(* its steps, and the properties that follow from it.                      *)
(***************************************************************************)
EXTENDS Home, TLAPS

Names == Keys \cup Legacy
AllLayers == LayersOver(Names)

-----------------------------------------------------------------------------
(* Layers.                                                                 *)

LEMMA LayerIs ==
    ASSUME NEW names, NEW l
    PROVE  l \in LayersOver(names) <=> DOMAIN l \subseteq names /\ l \in [DOMAIN l -> Texts]
<1>1. ASSUME l \in LayersOver(names)
      PROVE  DOMAIN l \subseteq names /\ l \in [DOMAIN l -> Texts]
  <2>1. PICK S \in SUBSET names : l \in [S -> Texts]
    BY <1>1 DEF LayersOver
  <2> QED BY <2>1
<1>2. ASSUME DOMAIN l \subseteq names, l \in [DOMAIN l -> Texts]
      PROVE  l \in LayersOver(names)
  BY <1>2 DEF LayersOver
<1> QED BY <1>1, <1>2

LEMMA AllowedTexts == \A k \in Names : Allowed[k] \subseteq Texts
BY DEF Texts, Names

LEMMA EmptyLayer == ASSUME NEW names PROVE Empty \in LayersOver(names)
<1>1. DOMAIN Empty = {} /\ Empty \in [{} -> Texts]
  BY DEF Empty
<1> QED BY <1>1, LayerIs

LEMMA NormalizedLayer ==
    ASSUME NEW l \in AllLayers
    PROVE  /\ Normalized(l) \in LayersOver(Keys)
           /\ DOMAIN Normalized(l) = DOMAIN l \cap Keys
           /\ \A k \in DOMAIN l \cap Keys : Normalized(l)[k] = l[k]
<1>1. DOMAIN l \subseteq Keys \cup Legacy /\ l \in [DOMAIN l -> Texts]
  BY LayerIs DEF AllLayers, Names
<1>2. Keys \cap Legacy = {}
  BY HomeOK DEF HomeAssumption
<1>3. DOMAIN Normalized(l) = DOMAIN l \ Legacy
  BY DEF Normalized
<1>4. \A k \in DOMAIN l \ Legacy : Normalized(l)[k] = l[k]
  BY DEF Normalized
<1>5. Normalized(l) \in [DOMAIN l \ Legacy -> Texts]
  BY <1>1 DEF Normalized
<1>6. DOMAIN l \ Legacy = DOMAIN l \cap Keys
  BY <1>1, <1>2
<1> QED BY <1>3, <1>4, <1>5, <1>6, LayerIs

LEMMA KeyLayer == ASSUME NEW l \in LayersOver(Keys) PROVE l \in AllLayers
BY LayerIs DEF AllLayers, Names

\* A valid layer holds no legacy name, so it loads.
LEMMA ValidLoads ==
    ASSUME NEW l \in AllLayers, Valid(l)
    PROVE  Loads(l)
<1>1. DOMAIN l \subseteq Keys /\ \A k \in DOMAIN l : l[k] \in Allowed[k]
  BY DEF Valid
<1>2. Keys \cap Legacy = {}
  BY HomeOK DEF HomeAssumption
<1>3. Readable(l)
  BY <1>1, <1>2 DEF Readable
<1>4. Valid(Normalized(l))
  BY <1>1, NormalizedLayer DEF Valid
<1> QED BY <1>3, <1>4 DEF Loads

LEMMA ChangedLayer ==
    ASSUME NEW l \in LayersOver(Keys), NEW c \in Sets \cup Unsets
    PROVE  /\ c.key \in Keys
           /\ Changed(l, c) \in LayersOver(Keys)
           /\ \A k \in Keys \ {c.key} : SameEntry(l, Changed(l, c), k)
           /\ c.cmd = "set" => /\ c.key \in DOMAIN Changed(l, c)
                               /\ Changed(l, c)[c.key] = c.value
           /\ c.cmd = "unset" => c.key \notin DOMAIN Changed(l, c)
           /\ Valid(l) => Valid(Changed(l, c))
<1>0. DOMAIN l \subseteq Keys /\ l \in [DOMAIN l -> Texts]
  BY LayerIs
<1>1. CASE c \in Sets
  <2>1. c.cmd = "set" /\ c.key \in Keys /\ c.value \in Allowed[c.key]
    BY <1>1 DEF Sets
  <2>2. c.value \in Texts
    BY <2>1, AllowedTexts DEF Names
  <2> DEFINE m == [k \in DOMAIN l \cup {c.key} |-> IF k = c.key THEN c.value ELSE l[k]]
  <2>3. Changed(l, c) = m
    BY <2>1 DEF Changed
  <2>4. DOMAIN m = DOMAIN l \cup {c.key} /\ m \in [DOMAIN l \cup {c.key} -> Texts]
    BY <1>0, <2>2
  <2>5. m[c.key] = c.value /\ \A k \in DOMAIN l \ {c.key} : m[k] = l[k]
    OBVIOUS
  <2> HIDE DEF m
  <2>6. m \in LayersOver(Keys)
    BY <1>0, <2>1, <2>4, LayerIs
  <2>7. \A k \in Keys \ {c.key} : SameEntry(l, m, k)
    BY <2>4, <2>5 DEF SameEntry
  <2>8. ASSUME Valid(l) PROVE Valid(m)
    BY <2>1, <2>4, <2>5, <2>8 DEF Valid
  <2> QED BY <2>1, <2>3, <2>4, <2>5, <2>6, <2>7, <2>8
<1>2. CASE c \in Unsets
  <2>1. c.cmd = "unset" /\ c.key \in Keys
    BY <1>2 DEF Unsets
  <2> DEFINE m == [k \in DOMAIN l \ {c.key} |-> l[k]]
  <2>3. Changed(l, c) = m
    BY <2>1 DEF Changed, Without
  <2>4. DOMAIN m = DOMAIN l \ {c.key} /\ m \in [DOMAIN l \ {c.key} -> Texts]
    BY <1>0
  <2>5. \A k \in DOMAIN l \ {c.key} : m[k] = l[k]
    OBVIOUS
  <2> HIDE DEF m
  <2>6. m \in LayersOver(Keys)
    BY <1>0, <2>1, <2>4, LayerIs
  <2>7. \A k \in Keys \ {c.key} : SameEntry(l, m, k)
    BY <2>4, <2>5 DEF SameEntry
  <2>8. ASSUME Valid(l) PROVE Valid(m)
    BY <2>1, <2>4, <2>5, <2>8 DEF Valid
  <2> QED BY <2>1, <2>3, <2>4, <2>5, <2>6, <2>7, <2>8
<1> QED BY <1>1, <1>2

LEMMA MergedLayer ==
    ASSUME NEW low \in [Keys -> Texts], NEW high \in LayersOver(Keys)
    PROVE  /\ Merged(low, high) \in [Keys -> Texts]
           /\ Merged(low, high) = [k \in Keys |-> IF k \in DOMAIN high THEN high[k] ELSE low[k]]
<1>1. DOMAIN high \subseteq Keys /\ high \in [DOMAIN high -> Texts]
  BY LayerIs
<1>2. DOMAIN low \cup DOMAIN high = Keys
  BY <1>1
<1>3. Merged(low, high) = [k \in Keys |-> IF k \in DOMAIN high THEN high[k] ELSE low[k]]
  BY <1>2 DEF Merged
<1> QED BY <1>1, <1>3

-----------------------------------------------------------------------------
(* Roots.                                                                  *)

LEMMA FoundFacts ==
    ASSUME projects \subseteq Dirs, NEW d \in Dirs
    PROVE  /\ Found(d) = None => projects \cap Above[d] = {}
           /\ Found(d) # None => /\ Found(d) \in projects \cap Above[d]
                                 /\ \A q \in projects \cap Above[d] : q \in Above[Found(d)]
<1>1. Above \in [Dirs -> SUBSET Dirs] /\ None \notin Dirs
  BY HomeOK DEF HomeAssumption
<1>2. CASE Matches(d) = {}
  BY <1>2 DEF Found, Matches
<1>3. CASE Matches(d) # {}
  <2>1. \E r \in Matches(d) : \A q \in Matches(d) : q \in Above[r]
    <3>1. Matches(d) \in SUBSET Above[d]
      BY DEF Matches
    <3>2. \A S \in SUBSET Above[d] : S # {} => \E r \in S : \A q \in S : q \in Above[r]
      BY HomeOK DEF HomeAssumption
    <3> QED BY <1>3, <3>1, <3>2
  <2>2. Found(d) \in Matches(d) /\ \A q \in Matches(d) : q \in Above[Found(d)]
    BY <1>3, <2>1 DEF Found
  <2>3. Found(d) # None
    BY <1>1, <2>2 DEF Matches
  <2> QED BY <2>2, <2>3 DEF Matches
<1> QED BY <1>2, <1>3

\* resolve_root finds a project, or a root that no project contains.
LEMMA ResolvedFacts ==
    ASSUME projects \subseteq Dirs, NEW cwd \in Dirs, NEW git \in {GitRoot[cwd], None}
    PROVE  /\ Resolved(cwd, git) \in Dirs
           /\ \/ Resolved(cwd, git) \in projects
              \/ projects \cap Above[Resolved(cwd, git)] = {}
<1>1. /\ Above \in [Dirs -> SUBSET Dirs] /\ None \notin Dirs
      /\ \A a \in Above[cwd] : Above[a] \subseteq Above[cwd]
      /\ git # None => git \in Above[cwd]
  BY HomeOK DEF HomeAssumption
<1>2. CASE Found(cwd) # None
  <2>1. Resolved(cwd, git) = Found(cwd)
    BY <1>2 DEF Resolved
  <2> QED BY <1>2, <2>1, FoundFacts
<1>3. CASE Found(cwd) = None
  <2>1. projects \cap Above[cwd] = {}
    BY <1>3, FoundFacts
  <2>2. CASE git # None
    <3>1. Resolved(cwd, git) = git
      BY <1>3, <2>2 DEF Resolved
    <3> QED BY <1>1, <2>1, <2>2, <3>1
  <2>3. CASE git = None
    <3>1. Resolved(cwd, git) = cwd
      BY <1>3, <2>3 DEF Resolved
    <3> QED BY <2>1, <3>1
  <2> QED BY <2>2, <2>3
<1> QED BY <1>2, <1>3

-----------------------------------------------------------------------------
(* What a step leaves alone.                                               *)

Local(p) == <<pc[p], call[p], scope[p], copy[p], before[p], first[p]>>

OthersKeep(p) == \A q \in Procs \ {p} : UNCHANGED Local(q)

LEMMA ForgetFacts ==
    ASSUME TypeOK, NEW p \in Procs, Forget(p)
    PROVE  /\ OthersKeep(p)
           /\ pc'[p] = "idle"
           /\ pc' \in [Procs -> {"idle", "find", "save", "read", "write", "merge", "shown"}]
           /\ call' \in [Procs -> Calls \cup {None}]
           /\ scope' \in [Procs -> Scopes \cup {None}]
           /\ copy' \in [Procs -> AllLayers]
           /\ before' \in [Procs -> SUBSET Dirs]
           /\ first' \in [Procs -> LayersOver(Keys)]
<1>1. Empty \in AllLayers /\ Empty \in LayersOver(Keys)
  BY EmptyLayer DEF AllLayers
<1>2. OthersKeep(p) /\ pc'[p] = "idle"
  BY DEF TypeOK, Forget, OthersKeep, Local
<1>3. /\ pc' \in [Procs -> {"idle", "find", "save", "read", "write", "merge", "shown"}]
      /\ call' \in [Procs -> Calls \cup {None}]
      /\ scope' \in [Procs -> Scopes \cup {None}]
  BY DEF TypeOK, Forget
<1>4. copy' \in [Procs -> AllLayers] /\ first' \in [Procs -> LayersOver(Keys)]
  BY <1>1 DEF TypeOK, Forget, AllLayers, Names
<1>5. before' \in [Procs -> SUBSET Dirs]
  BY DEF TypeOK, Forget
<1> QED BY <1>2, <1>3, <1>4, <1>5

LEMMA ReturnTypes ==
    ASSUME TypeOK, NEW p \in Procs, Return(p), UNCHANGED <<projects, layers, broken>>
    PROVE  TypeOK'
<1>1. moved' \in [Procs -> SUBSET Scopes]
  BY DEF TypeOK, Return
<1> QED BY <1>1, ForgetFacts DEF TypeOK, Return, AllLayers, Names

-----------------------------------------------------------------------------
(* Where a command stands, and what it holds.                              *)

Place(p) ==
    /\ pc[p] = "find" => scope[p] \in Dirs /\ call[p] \in Calls
    /\ pc[p] = "save" => scope[p] \in Dirs /\ call[p] \in Inits
    /\ pc[p] = "read" => scope[p] \in projects \cup {"global"} /\ call[p] \in Calls \ Inits
    /\ pc[p] = "write" => scope[p] \in projects \cup {"global"} /\ call[p] \in Sets \cup Unsets
    /\ pc[p] = "merge" => scope[p] \in projects /\ call[p] \in Shows

\* For RegistersNew.
Looked(p) ==
    pc[p] \in {"find", "save"} /\ call[p] \in Inits =>
        /\ before[p] \subseteq projects
        /\ pc[p] = "save" => scope[p] \notin before[p]
        /\ call[p].explicit \/ scope[p] \in before[p] \/ before[p] \cap Above[scope[p]] = {}

\* For ConfigLoads and ChangesOneKey.
Holds(p) ==
    pc[p] = "write" =>
        /\ Valid(copy[p]) \/ scope[p] \in broken
        /\ scope[p] \notin moved[p] => copy[p] = Changed(Normalized(layers[scope[p]]), call[p])

\* For ShowsEffective.
Merges(p) ==
    pc[p] = "merge" =>
        /\ copy[p] \in [Keys -> Texts]
        /\ "global" \notin moved[p] => copy[p] = Merged(Default, Normalized(layers["global"]))
        /\ scope[p] \notin moved[p] => first[p] = Merged(copy[p], Normalized(layers[scope[p]]))

Inv ==
    /\ TypeOK
    /\ ConfigLoads
    /\ \A p \in Procs : Place(p) /\ Looked(p) /\ Holds(p) /\ Merges(p)

LEMMA CallKinds ==
    /\ \A c \in Inits : c.cmd = "init" /\ c.explicit \in BOOLEAN
    /\ \A c \in Sets : c.cmd = "set"
    /\ \A c \in Unsets : c.cmd = "unset"
    /\ \A c \in Shows : c.cmd = "show"
BY DEF Inits, Sets, Unsets, Shows

\* A process that stands still keeps what it has, whoever registers a project.
LEMMA StandsStill ==
    ASSUME Inv, NEW q \in Procs, UNCHANGED Local(q), UNCHANGED <<layers, broken>>,
           projects \subseteq projects', moved'[q] = moved[q]
    PROVE  Place(q)' /\ Looked(q)' /\ Holds(q)' /\ Merges(q)'
<1>1. /\ pc'[q] = pc[q] /\ call'[q] = call[q] /\ scope'[q] = scope[q]
      /\ copy'[q] = copy[q] /\ before'[q] = before[q] /\ first'[q] = first[q]
      /\ layers' = layers /\ broken' = broken
  BY DEF Local
<1>2. Place(q) /\ Looked(q) /\ Holds(q) /\ Merges(q)
  BY DEF Inv
<1>3. Place(q)'
  BY <1>1, <1>2 DEF Place
<1>4. Looked(q)'
  BY <1>1, <1>2 DEF Looked
<1>5. Holds(q)'
  BY <1>1, <1>2 DEF Holds
<1>6. Merges(q)'
  BY <1>1, <1>2 DEF Merges
<1> QED BY <1>3, <1>4, <1>5, <1>6

LEMMA IdleHolds ==
    ASSUME NEW q \in Procs, pc'[q] \in {"idle", "shown"}
    PROVE  Place(q)' /\ Looked(q)' /\ Holds(q)' /\ Merges(q)'
BY DEF Place, Looked, Holds, Merges

LEMMA ReturnKeeps ==
    ASSUME Inv, NEW p \in Procs, Return(p), UNCHANGED <<projects, layers, broken>>
    PROVE  Inv'
<1>1. TypeOK'
  BY ReturnTypes DEF Inv
<1>2. ConfigLoads'
  BY DEF Inv, ConfigLoads
<1>3. ASSUME NEW q \in Procs PROVE Place(q)' /\ Looked(q)' /\ Holds(q)' /\ Merges(q)'
  <2>1. CASE q = p
    BY <2>1, ForgetFacts, IdleHolds DEF Inv, Return
  <2>2. CASE q # p
    <3>1. UNCHANGED Local(q) /\ moved'[q] = moved[q]
      BY <2>2, ForgetFacts DEF Inv, TypeOK, Return, OthersKeep
    <3> QED BY <3>1, StandsStill
  <2> QED BY <2>1, <2>2
<1> QED BY <1>1, <1>2, <1>3 DEF Inv

\* A step of one process that writes no layer: only its own part is in question.
LEMMA OwnStep ==
    ASSUME Inv, NEW p \in Procs, OthersKeep(p), UNCHANGED <<layers, broken>>,
           projects \subseteq projects', \A q \in Procs \ {p} : moved'[q] = moved[q],
           TypeOK', (Place(p) /\ Looked(p) /\ Holds(p) /\ Merges(p))'
    PROVE  Inv'
<1>1. ConfigLoads'
  BY DEF Inv, ConfigLoads
<1>2. ASSUME NEW q \in Procs \ {p} PROVE Place(q)' /\ Looked(q)' /\ Holds(q)' /\ Merges(q)'
  BY StandsStill DEF OthersKeep
<1> QED BY <1>1, <1>2 DEF Inv

-----------------------------------------------------------------------------
(* The steps.                                                              *)

LEMMA CommandKinds ==
    ASSUME NEW c \in Commands
    PROVE  /\ c \in Calls
           /\ c.cmd = "init" <=> c \in Inits
           /\ c.cmd = "show" <=> c \in Shows
BY HomeOK, CallKinds DEF HomeAssumption, Calls

LEMMA CallCmds ==
    ASSUME NEW c \in Calls
    PROVE  /\ c.cmd = "init" <=> c \in Inits
           /\ c.cmd = "show" <=> c \in Shows
BY CallKinds DEF Calls

LEMMA InvokeKeeps ==
    ASSUME Inv, NEW p \in Procs, NEW c \in Commands, NEW root \in Dirs, Invoke(p, c, root),
           c \in Inits => \/ c.explicit
                          \/ root \in projects
                          \/ projects \cap Above[root] = {}
    PROVE  Inv'
<1>1. c \in Calls /\ (c.cmd = "init" <=> c \in Inits)
  BY CommandKinds
<1>2. TypeOK /\ projects \subseteq Dirs
  BY DEF Inv, TypeOK
<1>3. TypeOK'
  <2>1. /\ pc' \in [Procs -> {"idle", "find", "save", "read", "write", "merge", "shown"}]
        /\ call' \in [Procs -> Calls \cup {None}]
        /\ scope' \in [Procs -> Scopes \cup {None}]
        /\ before' \in [Procs -> SUBSET Dirs]
    BY <1>1, <1>2 DEF Invoke, TypeOK, Scopes
  <2> QED BY <1>2, <2>1 DEF Invoke, TypeOK
<1>4. /\ pc'[p] = "find" /\ call'[p] = c /\ scope'[p] = root
      /\ c \in Inits => before'[p] = projects
      /\ projects' = projects
  BY <1>1, <1>2 DEF Invoke, TypeOK
<1>5. (Place(p) /\ Looked(p) /\ Holds(p) /\ Merges(p))'
  BY <1>1, <1>4 DEF Place, Looked, Holds, Merges
<1>6. OthersKeep(p)
  BY <1>2 DEF Invoke, TypeOK, OthersKeep, Local
<1> QED BY <1>3, <1>5, <1>6, OwnStep DEF Invoke

LEMMA InvokeGlobalKeeps ==
    ASSUME Inv, NEW p \in Procs, NEW c \in Commands, InvokeGlobal(p, c)
    PROVE  Inv'
<1>1. c \in Calls \ Inits
  BY CommandKinds DEF InvokeGlobal
<1>2. TypeOK
  BY DEF Inv
<1>3. TypeOK'
  <2>1. /\ pc' \in [Procs -> {"idle", "find", "save", "read", "write", "merge", "shown"}]
        /\ call' \in [Procs -> Calls \cup {None}]
        /\ scope' \in [Procs -> Scopes \cup {None}]
    BY <1>1, <1>2 DEF InvokeGlobal, TypeOK, Scopes
  <2> QED BY <1>2, <2>1 DEF InvokeGlobal, TypeOK
<1>4. /\ pc'[p] = "read" /\ call'[p] = c /\ scope'[p] = "global"
  BY <1>2 DEF InvokeGlobal, TypeOK
<1>5. (Place(p) /\ Looked(p) /\ Holds(p) /\ Merges(p))'
  BY <1>1, <1>4 DEF Place, Looked, Holds, Merges
<1>6. OthersKeep(p)
  BY <1>2 DEF InvokeGlobal, TypeOK, OthersKeep, Local
<1> QED BY <1>3, <1>5, <1>6, OwnStep DEF InvokeGlobal

LEMMA FindKeeps == ASSUME Inv, NEW p \in Procs, Find(p) PROVE Inv'
<1>1. CASE (scope[p] \in projects) = (call[p].cmd = "init")
  BY <1>1, ReturnKeeps DEF Find
<1>2. CASE (scope[p] \in projects) # (call[p].cmd = "init")
  <2>1. /\ TypeOK /\ pc[p] = "find" /\ scope[p] \in Dirs /\ call[p] \in Calls
        /\ Looked(p)
    BY DEF Find, Inv, Place
  <2>2. call[p].cmd = "init" <=> call[p] \in Inits
    BY <2>1, CallCmds
  <2>3. /\ GoesOn(p, IF call[p].cmd = "init" THEN "save" ELSE "read")
        /\ UNCHANGED <<copy, before, first, moved, projects, layers, broken>>
    BY <1>2 DEF Find
  <2>4. /\ pc'[p] = IF call[p] \in Inits THEN "save" ELSE "read"
        /\ call' = call /\ scope' = scope /\ before' = before /\ projects' = projects
    BY <2>1, <2>2, <2>3 DEF GoesOn, TypeOK
  <2>5. TypeOK'
    <3>1. pc' \in [Procs -> {"idle", "find", "save", "read", "write", "merge", "shown"}]
      BY <2>1, <2>3 DEF GoesOn, TypeOK
    <3> QED BY <2>1, <2>3, <2>4, <3>1 DEF TypeOK
  <2>6. OthersKeep(p)
    BY <2>1, <2>3 DEF GoesOn, TypeOK, OthersKeep, Local
  <2>7. CASE call[p] \in Inits
    <3>1. scope[p] \notin projects
      BY <1>2, <2>2, <2>7
    <3>2. (Place(p) /\ Looked(p) /\ Holds(p) /\ Merges(p))'
      BY <2>1, <2>4, <2>7, <3>1 DEF Place, Looked, Holds, Merges
    <3> QED BY <2>3, <2>5, <2>6, <3>2, OwnStep
  <2>8. CASE call[p] \notin Inits
    <3>1. scope[p] \in projects
      BY <1>2, <2>2, <2>8
    <3>2. (Place(p) /\ Looked(p) /\ Holds(p) /\ Merges(p))'
      BY <2>1, <2>4, <2>8, <3>1 DEF Place, Looked, Holds, Merges
    <3> QED BY <2>3, <2>5, <2>6, <3>2, OwnStep
  <2> QED BY <2>7, <2>8
<1> QED BY <1>1, <1>2

LEMMA SaveKeeps == ASSUME Inv, NEW p \in Procs, Save(p) PROVE Inv'
<1>1. TypeOK /\ Place(p)
  BY DEF Inv
<1>2. scope[p] \in Dirs
  BY <1>1 DEF Save, Place
<1>3. /\ projects' = projects \cup {scope[p]} /\ Return(p) /\ Forget(p)
      /\ UNCHANGED <<layers, broken>>
  BY DEF Save, Return
<1>4. TypeOK'
  <2>1. moved' \in [Procs -> SUBSET Scopes]
    BY <1>1, <1>3 DEF TypeOK, Return
  <2>2. projects' \subseteq Dirs /\ \A d \in Dirs : layers'[d] # Empty => d \in projects'
    BY <1>1, <1>2, <1>3 DEF TypeOK
  <2> QED BY <1>1, <1>3, <2>1, <2>2, ForgetFacts DEF TypeOK, AllLayers, Names
<1>5. OthersKeep(p) /\ pc'[p] = "idle"
  BY <1>1, <1>3, ForgetFacts
<1>6. \A q \in Procs \ {p} : moved'[q] = moved[q]
  BY <1>1, <1>3 DEF Return, TypeOK
<1>7. (Place(p) /\ Looked(p) /\ Holds(p) /\ Merges(p))'
  BY <1>5, IdleHolds
<1> QED BY <1>3, <1>4, <1>5, <1>6, <1>7, OwnStep

LEMMA ReadKeeps == ASSUME Inv, NEW p \in Procs, Read(p) PROVE Inv'
<1> DEFINE layer == layers[scope[p]]
           changed == Changed(Normalized(layer), call[p])
<1>1. /\ TypeOK /\ pc[p] = "read" /\ call[p] \in Sets \cup Unsets
      /\ scope[p] \in projects \cup {"global"} /\ scope[p] \in Scopes
  <2>1. TypeOK /\ Place(p) /\ pc[p] = "read" /\ call[p].cmd # "show"
    BY DEF Read, Inv
  <2>2. call[p] \in Calls \ Inits /\ scope[p] \in projects \cup {"global"}
    BY <2>1 DEF Place
  <2> QED BY <2>1, <2>2, CallCmds DEF Calls, TypeOK, Scopes
<1>2. layer \in AllLayers /\ Normalized(layer) \in LayersOver(Keys)
  BY <1>1, NormalizedLayer DEF TypeOK, AllLayers, Names
<1>3. /\ changed \in LayersOver(Keys) /\ changed \in AllLayers
      /\ Valid(Normalized(layer)) => Valid(changed)
  BY <1>1, <1>2, ChangedLayer, KeyLayer
<1>4. CASE ~Readable(layer) \/ (call[p].cmd = "set" /\ ~Valid(changed))
  BY <1>4, ReturnKeeps DEF Read
<1>5. CASE ~(~Readable(layer) \/ (call[p].cmd = "set" /\ ~Valid(changed)))
  <2>1. /\ copy' = [copy EXCEPT ![p] = changed]
        /\ moved' = [moved EXCEPT ![p] = {}]
        /\ GoesOn(p, "write")
        /\ UNCHANGED <<before, first, projects, layers, broken>>
    BY <1>5 DEF Read
  <2> HIDE DEF changed, layer
  <2>2. /\ pc'[p] = "write" /\ call'[p] = call[p] /\ scope'[p] = scope[p]
        /\ copy'[p] = changed
    BY <1>1, <2>1 DEF GoesOn, TypeOK
  <2>3. TypeOK'
    <3>1. /\ pc' \in [Procs -> {"idle", "find", "save", "read", "write", "merge", "shown"}]
          /\ copy' \in [Procs -> AllLayers]
          /\ moved' \in [Procs -> SUBSET Scopes]
      BY <1>1, <1>3, <2>1 DEF GoesOn, TypeOK, AllLayers, Names
    <3> QED BY <1>1, <2>1, <3>1 DEF TypeOK, GoesOn, AllLayers, Names
  <2>4. OthersKeep(p) /\ \A q \in Procs \ {p} : moved'[q] = moved[q]
    BY <1>1, <2>1 DEF GoesOn, TypeOK, OthersKeep, Local
  <2>5. Valid(changed) \/ scope[p] \in broken
    <3> SUFFICES ASSUME scope[p] \notin broken PROVE Valid(changed)
      OBVIOUS
    <3>1. Loads(layer)
      BY <1>1 DEF Inv, ConfigLoads, layer
    <3> QED BY <1>3, <3>1 DEF Loads
  <2>6. Holds(p)'
    BY <2>1, <2>2, <2>5 DEF Holds, changed, layer
  <2>7. (Place(p) /\ Looked(p) /\ Merges(p))'
    BY <1>1, <2>1, <2>2 DEF Place, Looked, Merges
  <2> QED BY <2>1, <2>3, <2>4, <2>6, <2>7, OwnStep
<1> QED BY <1>4, <1>5

LEMMA EffectiveIs ==
    ASSUME TypeOK, NEW s \in Scopes
    PROVE  LET global == Merged(Default, Normalized(layers["global"]))
           IN  /\ global \in [Keys -> Texts]
               /\ s = "global" => EffectiveOf(s) = global
               /\ s # "global" => EffectiveOf(s) = Merged(global, Normalized(layers[s]))
               /\ EffectiveOf(s) \in [Keys -> Texts]
<1> DEFINE top == Normalized(layers["global"])
           own == Normalized(layers[s])
           global == Merged(Default, top)
<1>1. /\ top \in LayersOver(Keys) /\ own \in LayersOver(Keys)
      /\ DOMAIN top = DOMAIN layers["global"] \cap Keys
      /\ \A k \in DOMAIN layers["global"] \cap Keys : top[k] = layers["global"][k]
      /\ DOMAIN own = DOMAIN layers[s] \cap Keys
      /\ \A k \in DOMAIN layers[s] \cap Keys : own[k] = layers[s][k]
  <2>1. layers["global"] \in AllLayers /\ layers[s] \in AllLayers
    BY DEF TypeOK, Scopes, AllLayers, Names
  <2> QED BY <2>1, NormalizedLayer
<1>2. Default \in [Keys -> Texts]
  BY HomeOK DEF HomeAssumption
<1> HIDE DEF top, own
<1>3. /\ global \in [Keys -> Texts]
      /\ global = [k \in Keys |-> IF k \in DOMAIN top THEN top[k] ELSE Default[k]]
  BY <1>1, <1>2, MergedLayer
<1> HIDE DEF global
<1>4. /\ Merged(global, own) \in [Keys -> Texts]
      /\ Merged(global, own) = [k \in Keys |-> IF k \in DOMAIN own THEN own[k] ELSE global[k]]
  BY <1>1, <1>3, MergedLayer
<1>5. CASE s = "global"
  <2>1. EffectiveOf(s) = [k \in Keys |->
            IF k \in DOMAIN layers["global"] THEN layers["global"][k] ELSE Default[k]]
    BY <1>5 DEF EffectiveOf
  <2>2. EffectiveOf(s) = global
    BY <1>1, <1>3, <2>1
  <2> QED BY <1>3, <1>5, <2>2 DEF global, top
<1>6. CASE s # "global"
  <2>1. EffectiveOf(s) = [k \in Keys |->
            IF k \in DOMAIN layers[s] THEN layers[s][k]
            ELSE IF k \in DOMAIN layers["global"] THEN layers["global"][k] ELSE Default[k]]
    BY <1>6 DEF EffectiveOf
  <2>2. \A k \in Keys :
            (IF k \in DOMAIN layers[s] THEN layers[s][k]
             ELSE IF k \in DOMAIN layers["global"] THEN layers["global"][k] ELSE Default[k])
            = (IF k \in DOMAIN own THEN own[k] ELSE global[k])
    BY <1>1, <1>3
  <2>3. EffectiveOf(s) = Merged(global, own)
    BY <1>4, <2>1, <2>2
  <2> QED BY <1>3, <1>4, <1>6, <2>3 DEF global, top, own
<1> QED BY <1>5, <1>6

LEMMA FullLayer == [Keys -> Texts] \subseteq LayersOver(Keys) /\ [Keys -> Texts] \subseteq AllLayers
BY DEF LayersOver, AllLayers, Names

LEMMA ReadGlobalKeeps == ASSUME Inv, NEW p \in Procs, ReadGlobal(p) PROVE Inv'
<1> DEFINE global == Merged(Default, Normalized(layers["global"]))
<1>1. /\ TypeOK /\ pc[p] = "read" /\ call[p] \in Shows
      /\ scope[p] \in projects \cup {"global"} /\ scope[p] \in Scopes
  <2>1. TypeOK /\ Place(p) /\ pc[p] = "read" /\ call[p].cmd = "show"
    BY DEF ReadGlobal, Inv
  <2>2. call[p] \in Calls /\ scope[p] \in projects \cup {"global"}
    BY <2>1 DEF Place
  <2> QED BY <2>1, <2>2, CallCmds DEF TypeOK, Scopes
<1>2. CASE ~Loads(layers["global"])
  BY <1>2, ReturnKeeps DEF ReadGlobal
<1>3. CASE Loads(layers["global"])
  <2>1. /\ copy' = [copy EXCEPT ![p] = global]
        /\ first' = [first EXCEPT ![p] =
                        IF scope[p] = "global" THEN Empty ELSE EffectiveOf(scope[p])]
        /\ moved' = [moved EXCEPT ![p] = {}]
        /\ GoesOn(p, IF scope[p] = "global" THEN "shown" ELSE "merge")
        /\ UNCHANGED <<before, projects, layers, broken>>
    BY <1>3 DEF ReadGlobal
  <2>2. /\ global \in [Keys -> Texts] /\ EffectiveOf(scope[p]) \in [Keys -> Texts]
        /\ scope[p] # "global" =>
              EffectiveOf(scope[p]) = Merged(global, Normalized(layers[scope[p]]))
    BY <1>1, EffectiveIs
  <2>3. Empty \in LayersOver(Keys)
    BY EmptyLayer
  <2> HIDE DEF global
  <2>4. TypeOK'
    <3>1. pc' \in [Procs -> {"idle", "find", "save", "read", "write", "merge", "shown"}]
      BY <1>1, <2>1 DEF GoesOn, TypeOK
    <3>2. copy' \in [Procs -> AllLayers]
      BY <1>1, <2>1, <2>2, FullLayer DEF TypeOK, AllLayers, Names
    <3>3. first' \in [Procs -> LayersOver(Keys)]
      BY <1>1, <2>1, <2>2, <2>3, FullLayer DEF TypeOK
    <3>4. moved' \in [Procs -> SUBSET Scopes]
      BY <1>1, <2>1 DEF TypeOK
    <3> QED BY <1>1, <2>1, <3>1, <3>2, <3>3, <3>4 DEF TypeOK, GoesOn, AllLayers, Names
  <2>5. OthersKeep(p) /\ \A q \in Procs \ {p} : moved'[q] = moved[q]
    BY <1>1, <2>1 DEF GoesOn, TypeOK, OthersKeep, Local
  <2>6. /\ pc'[p] = IF scope[p] = "global" THEN "shown" ELSE "merge"
        /\ call'[p] = call[p] /\ scope'[p] = scope[p] /\ copy'[p] = global
        /\ first'[p] = IF scope[p] = "global" THEN Empty ELSE EffectiveOf(scope[p])
        /\ layers' = layers /\ projects' = projects
    BY <1>1, <2>1 DEF GoesOn, TypeOK
  <2>7. (Place(p) /\ Looked(p) /\ Holds(p))'
    BY <1>1, <2>6 DEF Place, Looked, Holds
  <2>8. Merges(p)'
    <3>1. CASE scope[p] = "global"
      BY <2>6, <3>1 DEF Merges
    <3>2. CASE scope[p] # "global"
      BY <2>2, <2>6, <3>2 DEF Merges, global
    <3> QED BY <3>1, <3>2
  <2> QED BY <2>1, <2>4, <2>5, <2>7, <2>8, OwnStep
<1> QED BY <1>2, <1>3

LEMMA ReadProjectKeeps == ASSUME Inv, NEW p \in Procs, ReadProject(p) PROVE Inv'
<1> DEFINE result == Merged(copy[p], Normalized(layers[scope[p]]))
<1>1. /\ TypeOK /\ pc[p] = "merge" /\ scope[p] \in Scopes /\ copy[p] \in [Keys -> Texts]
  BY DEF ReadProject, Inv, Place, Merges, TypeOK, Scopes
<1>2. CASE ~Loads(layers[scope[p]])
  BY <1>2, ReturnKeeps DEF ReadProject
<1>3. CASE Loads(layers[scope[p]])
  <2>1. /\ copy' = [copy EXCEPT ![p] = result]
        /\ first' = [first EXCEPT ![p] = Empty]
        /\ moved' = [moved EXCEPT ![p] = {}]
        /\ GoesOn(p, "shown")
        /\ UNCHANGED <<before, projects, layers, broken>>
    BY <1>3 DEF ReadProject
  <2>2. result \in AllLayers
    <3>1. layers[scope[p]] \in AllLayers
      BY <1>1 DEF TypeOK, AllLayers, Names
    <3>2. result \in [Keys -> Texts]
      BY <1>1, <3>1, NormalizedLayer, MergedLayer
    <3> QED BY <3>2, FullLayer
  <2>3. Empty \in LayersOver(Keys)
    BY EmptyLayer
  <2> HIDE DEF result
  <2>4. TypeOK'
    <3>1. pc' \in [Procs -> {"idle", "find", "save", "read", "write", "merge", "shown"}]
      BY <1>1, <2>1 DEF GoesOn, TypeOK
    <3>2. copy' \in [Procs -> AllLayers]
      BY <1>1, <2>1, <2>2 DEF TypeOK, AllLayers, Names
    <3>3. first' \in [Procs -> LayersOver(Keys)] /\ moved' \in [Procs -> SUBSET Scopes]
      BY <1>1, <2>1, <2>3 DEF TypeOK
    <3> QED BY <1>1, <2>1, <3>1, <3>2, <3>3 DEF TypeOK, GoesOn, AllLayers, Names
  <2>5. OthersKeep(p) /\ (\A q \in Procs \ {p} : moved'[q] = moved[q]) /\ pc'[p] = "shown"
    BY <1>1, <2>1 DEF GoesOn, TypeOK, OthersKeep, Local
  <2>6. (Place(p) /\ Looked(p) /\ Holds(p) /\ Merges(p))'
    BY <2>5, IdleHolds
  <2> QED BY <2>1, <2>4, <2>5, <2>6, OwnStep
<1> QED BY <1>2, <1>3

\* Who holds something of the layer that is written has it among moved.
LEMMA WrittenUnder ==
    ASSUME Inv, NEW q \in Procs, UNCHANGED Local(q), UNCHANGED projects,
           NEW s \in Scopes, NEW l, layers' = [layers EXCEPT ![s] = l],
           moved'[q] = Moved(s)[q],
           pc[q] = "write" /\ scope[q] \in broken => scope[q] \in broken'
    PROVE  Place(q)' /\ Looked(q)' /\ Holds(q)' /\ Merges(q)'
<1>1. /\ pc'[q] = pc[q] /\ call'[q] = call[q] /\ scope'[q] = scope[q]
      /\ copy'[q] = copy[q] /\ before'[q] = before[q] /\ first'[q] = first[q]
      /\ projects' = projects
  BY DEF Local
<1>2. Place(q) /\ Looked(q) /\ Holds(q) /\ Merges(q)
  BY DEF Inv
<1>3. \A t \in Scopes : t # s => layers'[t] = layers[t]
  BY DEF Inv, TypeOK
<1>4. moved'[q] = IF pc[q] \in {"write", "merge"} /\ s \in {"global", scope[q]}
                  THEN moved[q] \cup {s} ELSE moved[q]
  BY DEF Moved
<1>5. Place(q)'
  BY <1>1, <1>2 DEF Place
<1>6. Looked(q)'
  BY <1>1, <1>2 DEF Looked
<1>7. projects \subseteq Dirs
  BY DEF Inv, TypeOK
<1>8. Holds(q)'
  <2> SUFFICES ASSUME pc[q] = "write" PROVE Holds(q)'
    BY <1>1 DEF Holds
  <2>1. scope[q] \in Scopes
    BY <1>2, <1>7 DEF Place, Scopes
  <2>2. Valid(copy'[q]) \/ scope'[q] \in broken'
    BY <1>1, <1>2 DEF Holds
  <2>3. ASSUME scope[q] \notin moved'[q]
        PROVE  copy[q] = Changed(Normalized(layers'[scope[q]]), call[q])
    <3>1. scope[q] # s /\ scope[q] \notin moved[q]
      BY <1>4, <2>3
    <3> QED BY <1>2, <1>3, <2>1, <3>1 DEF Holds
  <2> QED BY <1>1, <2>2, <2>3 DEF Holds
<1>9. Merges(q)'
  <2> SUFFICES ASSUME pc[q] = "merge" PROVE Merges(q)'
    BY <1>1 DEF Merges
  <2>1. scope[q] \in Scopes /\ "global" \in Scopes
    BY <1>2, <1>7 DEF Place, Scopes
  <2>2. ASSUME "global" \notin moved'[q]
        PROVE  copy[q] = Merged(Default, Normalized(layers'["global"]))
    <3>1. "global" # s /\ "global" \notin moved[q]
      BY <1>4, <2>2
    <3> QED BY <1>2, <1>3, <2>1, <3>1 DEF Merges
  <2>3. ASSUME scope[q] \notin moved'[q]
        PROVE  first[q] = Merged(copy[q], Normalized(layers'[scope[q]]))
    <3>1. scope[q] # s /\ scope[q] \notin moved[q]
      BY <1>4, <2>3
    <3> QED BY <1>2, <1>3, <2>1, <3>1 DEF Merges
  <2>4. copy[q] \in [Keys -> Texts]
    BY <1>2 DEF Merges
  <2> QED BY <1>1, <2>2, <2>3, <2>4 DEF Merges
<1> QED BY <1>5, <1>6, <1>8, <1>9

LEMMA MovedType ==
    ASSUME TypeOK, NEW s \in Scopes
    PROVE  Moved(s) \in [Procs -> SUBSET Scopes]
BY DEF TypeOK, Moved

LEMMA WriteKeeps == ASSUME Inv, NEW p \in Procs, Write(p) PROVE Inv'
<1> DEFINE s == scope[p]
<1>1. /\ TypeOK /\ pc[p] = "write" /\ s \in projects \cup {"global"} /\ s \in Scopes
      /\ Holds(p) /\ copy[p] \in AllLayers
  BY DEF Write, Inv, Place, TypeOK, Scopes, AllLayers, Names
<1>2. /\ layers' = [layers EXCEPT ![s] = copy[p]]
      /\ moved' = [Moved(s) EXCEPT ![p] = {}]
      /\ Forget(p) /\ projects' = projects /\ broken' = broken
  BY DEF Write
<1> HIDE DEF s
<1>3. layers' \in [Scopes -> AllLayers] /\ layers'[s] = copy[p]
      /\ \A t \in Scopes : t # s => layers'[t] = layers[t]
  BY <1>1, <1>2 DEF TypeOK, AllLayers, Names
<1>4. TypeOK'
  <2>1. moved' \in [Procs -> SUBSET Scopes]
    BY <1>1, <1>2, MovedType
  <2>2. ASSUME NEW d \in Dirs, layers'[d] # Empty PROVE d \in projects
    <3>1. CASE d = s
      BY <1>1, <3>1, HomeOK DEF HomeAssumption
    <3>2. CASE d # s
      BY <1>1, <1>3, <2>2, <3>2 DEF TypeOK, Scopes
    <3> QED BY <3>1, <3>2
  <2> QED BY <1>1, <1>2, <1>3, <2>1, <2>2, ForgetFacts DEF TypeOK, AllLayers, Names
<1>5. ConfigLoads'
  <2> SUFFICES ASSUME NEW t \in Scopes PROVE Loads(layers'[t]) \/ t \in broken'
    BY DEF ConfigLoads
  <2>1. CASE t # s
    BY <1>2, <1>3, <2>1 DEF Inv, ConfigLoads
  <2>2. CASE t = s
    <3>1. Valid(copy[p]) \/ s \in broken
      BY <1>1 DEF Holds, s
    <3> QED BY <1>1, <1>2, <1>3, <2>2, <3>1, ValidLoads
  <2> QED BY <2>1, <2>2
<1>6. OthersKeep(p) /\ pc'[p] = "idle"
  BY <1>1, <1>2, ForgetFacts
<1>7. ASSUME NEW q \in Procs PROVE Place(q)' /\ Looked(q)' /\ Holds(q)' /\ Merges(q)'
  <2>1. CASE q = p
    BY <1>6, <2>1, IdleHolds
  <2>2. CASE q # p
    <3>1. UNCHANGED Local(q)
      BY <1>6, <2>2 DEF OthersKeep
    <3>2. moved'[q] = Moved(s)[q]
      BY <1>1, <1>2, <2>2, MovedType
    <3> QED BY <1>1, <1>2, <3>1, <3>2, WrittenUnder
  <2> QED BY <2>1, <2>2
<1> QED BY <1>4, <1>5, <1>7 DEF Inv

LEMMA HandEditKeeps ==
    ASSUME Inv, NEW s \in Scopes, NEW l \in HandWritten, HandEdit(s, l)
    PROVE  Inv'
<1>1. /\ TypeOK /\ s \in projects \cup {"global"}
      /\ layers' = [layers EXCEPT ![s] = l] /\ moved' = Moved(s)
      /\ UNCHANGED <<projects, pc, call, scope, copy, before, first>>
  BY DEF HandEdit, Inv
<1>2. l \in AllLayers
  BY HomeOK DEF HomeAssumption, AllLayers, Names
<1>3. layers' \in [Scopes -> AllLayers] /\ layers'[s] = l
      /\ \A t \in Scopes : t # s => layers'[t] = layers[t]
  BY <1>1, <1>2 DEF TypeOK, AllLayers, Names
<1>4. /\ broken' \subseteq Scopes
      /\ \A t \in broken : t # s => t \in broken'
      /\ ~Loads(l) => s \in broken'
      /\ \A q \in Procs : pc[q] = "write" /\ scope[q] \in broken => scope[q] \in broken'
  <2>1. broken' = IF ~Loads(l) THEN broken \cup {s}
                  ELSE IF \E p \in Procs : pc[p] = "write" /\ scope[p] = s THEN broken
                  ELSE broken \ {s}
    BY DEF HandEdit
  <2>2. broken \subseteq Scopes
    BY <1>1 DEF TypeOK
  <2>3. CASE ~Loads(l)
    BY <2>1, <2>2, <2>3
  <2>4. CASE Loads(l) /\ \E p \in Procs : pc[p] = "write" /\ scope[p] = s
    BY <2>1, <2>2, <2>4
  <2>5. CASE Loads(l) /\ ~\E p \in Procs : pc[p] = "write" /\ scope[p] = s
    BY <2>1, <2>2, <2>5
  <2> QED BY <2>3, <2>4, <2>5
<1>5. TypeOK'
  <2>1. ASSUME NEW d \in Dirs, layers'[d] # Empty PROVE d \in projects
    <3>1. CASE d = s
      BY <1>1, <3>1, HomeOK DEF HomeAssumption
    <3>2. CASE d # s
      BY <1>1, <1>3, <2>1, <3>2 DEF TypeOK, Scopes
    <3> QED BY <3>1, <3>2
  <2> QED BY <1>1, <1>3, <1>4, <2>1, MovedType DEF TypeOK, AllLayers, Names
<1>6. ConfigLoads'
  <2> SUFFICES ASSUME NEW t \in Scopes PROVE Loads(layers'[t]) \/ t \in broken'
    BY DEF ConfigLoads
  <2>1. CASE t # s
    BY <1>3, <1>4, <2>1 DEF Inv, ConfigLoads
  <2>2. CASE t = s
    BY <1>3, <1>4, <2>2
  <2> QED BY <2>1, <2>2
<1>7. ASSUME NEW q \in Procs PROVE Place(q)' /\ Looked(q)' /\ Holds(q)' /\ Merges(q)'
  <2>1. UNCHANGED Local(q) /\ moved'[q] = Moved(s)[q]
    BY <1>1 DEF Local
  <2> QED BY <1>1, <1>4, <2>1, WrittenUnder
<1> QED BY <1>5, <1>6, <1>7 DEF Inv

LEMMA Step == Inv /\ [Next]_vars => Inv'
<1> SUFFICES ASSUME Inv, [Next]_vars PROVE Inv'
  OBVIOUS
<1>1. ASSUME NEW p \in Procs, NEW c \in Commands, NEW cwd \in Dirs,
             NEW git \in {GitRoot[cwd], None}, InvokeHere(p, c, cwd, git)
      PROVE  Inv'
  <2>1. /\ Resolved(cwd, git) \in Dirs
        /\ \/ Resolved(cwd, git) \in projects
           \/ projects \cap Above[Resolved(cwd, git)] = {}
    BY ResolvedFacts DEF Inv, TypeOK
  <2> QED BY <1>1, <2>1, InvokeKeeps DEF InvokeHere
<1>2. ASSUME NEW p \in Procs, NEW c \in Commands, NEW root \in Dirs, InvokeThere(p, c, root)
      PROVE  Inv'
  BY <1>2, InvokeKeeps, CommandKinds DEF InvokeThere
<1>3. ASSUME NEW p \in Procs, NEW c \in Commands, InvokeGlobal(p, c) PROVE Inv'
  BY <1>3, InvokeGlobalKeeps
<1>4. ASSUME NEW p \in Procs,
             Find(p) \/ Save(p) \/ Read(p) \/ Write(p) \/ ReadGlobal(p) \/ ReadProject(p)
      PROVE  Inv'
  BY <1>4, FindKeeps, SaveKeeps, ReadKeeps, WriteKeeps, ReadGlobalKeeps, ReadProjectKeeps
<1>5. ASSUME NEW p \in Procs, Show(p) \/ Die(p) PROVE Inv'
  BY <1>5, ReturnKeeps DEF Show, Die
<1>6. ASSUME NEW s \in Scopes, NEW l \in HandWritten, HandEdit(s, l) PROVE Inv'
  BY <1>6, HandEditKeeps
<1>7. CASE UNCHANGED vars
  <2>1. /\ TypeOK' /\ ConfigLoads'
    BY <1>7 DEF vars, Inv, TypeOK, ConfigLoads
  <2>2. ASSUME NEW q \in Procs PROVE Place(q)' /\ Looked(q)' /\ Holds(q)' /\ Merges(q)'
    BY <1>7, StandsStill DEF vars, Local
  <2> QED BY <2>1, <2>2 DEF Inv
<1> QED BY <1>1, <1>2, <1>3, <1>4, <1>5, <1>6, <1>7 DEF Next

LEMMA Start == Init => Inv
<1> SUFFICES ASSUME Init PROVE Inv
  OBVIOUS
<1>1. TypeOK
  <2>1. Empty \in LayersOver(Keys \cup Legacy) /\ Empty \in LayersOver(Keys)
    BY EmptyLayer
  <2>2. layers \in [Scopes -> LayersOver(Keys \cup Legacy)] /\ \A d \in Dirs : layers[d] = Empty
    BY <2>1 DEF Init, Scopes
  <2> QED BY <2>1, <2>2 DEF Init, TypeOK
<1>2. ConfigLoads
  <2>1. DOMAIN Empty = {}
    BY DEF Empty
  <2>2. Empty \in AllLayers
    BY EmptyLayer DEF AllLayers
  <2>3. Loads(Empty)
    BY <2>1, <2>2, ValidLoads DEF Valid
  <2> QED BY <2>3 DEF Init, ConfigLoads
<1>3. ASSUME NEW q \in Procs PROVE Place(q) /\ Looked(q) /\ Holds(q) /\ Merges(q)
  BY DEF Init, Place, Looked, Holds, Merges
<1> QED BY <1>1, <1>2, <1>3 DEF Inv

LEMMA Always == Spec => []Inv
BY Start, Step, PTL DEF Spec

-----------------------------------------------------------------------------
(* Registrations, layers and commands keep their types, and only a         *)
(* registered project has a layer.                                         *)
THEOREM TypeCorrect == Spec => []TypeOK
<1>1. Inv => TypeOK
  BY DEF Inv
<1> QED BY <1>1, Always, PTL

(* No interleaving of set, unset and init breaks a configuration.          *)
THEOREM ConfigLoadsTheorem == Spec => []ConfigLoads
<1>1. Inv => ConfigLoads
  BY DEF Inv
<1> QED BY <1>1, Always, PTL

(* A set or unset that nobody wrote under changes its own key, and no      *)
(* other.                                                                  *)
THEOREM ChangesOneKeyTheorem == Spec => ChangesOneKey
<1> DEFINE One(p) ==
        LET c == call[p]  s == scope[p]
        IN  /\ \A k \in Keys \ {c.key} : SameEntry(layers[s], layers'[s], k)
            /\ c.cmd = "set" => c.key \in DOMAIN layers'[s] /\ layers'[s][c.key] = c.value
            /\ c.cmd = "unset" => c.key \notin DOMAIN layers'[s]
<1>1. ASSUME Inv, NEW p \in Procs, Write(p), scope[p] \notin moved[p] PROVE One(p)
  <2> DEFINE s == scope[p]
             l == layers[s]
             c == call[p]
  <2>1. /\ c \in Sets \cup Unsets /\ s \in Scopes
        /\ copy[p] = Changed(Normalized(l), c) /\ l \in AllLayers
    BY <1>1 DEF Write, Inv, Place, Holds, TypeOK, Scopes, AllLayers, Names
  <2>2. layers'[s] = copy[p]
    BY <1>1, <2>1 DEF Write, Inv, TypeOK
  <2>3. /\ Normalized(l) \in LayersOver(Keys)
        /\ \A k \in Keys : SameEntry(l, Normalized(l), k)
    BY <2>1, NormalizedLayer DEF SameEntry
  <2> HIDE DEF s, l, c
  <2>4. /\ c.key \in Keys
        /\ \A k \in Keys \ {c.key} : SameEntry(Normalized(l), layers'[s], k)
        /\ c.cmd = "set" => c.key \in DOMAIN layers'[s] /\ layers'[s][c.key] = c.value
        /\ c.cmd = "unset" => c.key \notin DOMAIN layers'[s]
    BY <2>1, <2>2, <2>3, ChangedLayer
  <2>5. \A k \in Keys \ {c.key} : SameEntry(l, layers'[s], k)
    BY <2>3, <2>4 DEF SameEntry
  <2> QED BY <2>4, <2>5 DEF s, l, c
<1>2. Inv => [\A p \in Procs : Write(p) /\ scope[p] \notin moved[p] => One(p)]_vars
  BY <1>1
<1> QED BY <1>2, Always, PTL DEF ChangesOneKey

(* A reading of both layers shows a configuration that was in effect       *)
(* during it, unless both were written.                                    *)
THEOREM ShowsEffectiveTheorem == Spec => ShowsEffective
<1> DEFINE Was(p) == \/ copy'[p] \in {EffectiveOf(scope[p]), first[p]}
                     \/ {"global", scope[p]} \subseteq moved[p]
<1>1. ASSUME Inv, NEW p \in Procs, ReadProject(p), pc'[p] = "shown" PROVE Was(p)
  <2>1. /\ TypeOK /\ pc[p] = "merge" /\ scope[p] \in Scopes /\ scope[p] # "global" /\ Merges(p)
    <3>1. TypeOK /\ pc[p] = "merge" /\ Place(p) /\ Merges(p)
      BY <1>1 DEF ReadProject, Inv
    <3>2. scope[p] \in Dirs
      BY <3>1 DEF Place, TypeOK
    <3> QED BY <3>1, <3>2, HomeOK DEF Scopes, HomeAssumption
  <2>2. Loads(layers[scope[p]])
    BY <1>1, <2>1 DEF ReadProject, Return, Forget, TypeOK
  <2>3. copy'[p] = Merged(copy[p], Normalized(layers[scope[p]]))
    BY <1>1, <2>1, <2>2 DEF ReadProject, TypeOK
  <2>4. CASE "global" \notin moved[p]
    BY <2>1, <2>3, <2>4, EffectiveIs DEF Merges
  <2>5. CASE scope[p] \notin moved[p]
    BY <2>1, <2>3, <2>5 DEF Merges
  <2> QED BY <2>4, <2>5
<1>2. Inv => [\A p \in Procs : ReadProject(p) /\ pc'[p] = "shown" => Was(p)]_vars
  BY <1>1
<1> QED BY <1>2, Always, PTL DEF ShowsEffective

(* A directory leaves its project only for one further inside.             *)
THEOREM FoundStaysTheorem == Spec => FoundStays
<1>1. ASSUME Inv, [Next]_vars, Inv', NEW d \in Dirs, Found(d) # None
      PROVE  Found(d)' # None /\ Found(d) \in Above[Found(d)']
  <2>1. projects \subseteq projects'
    BY <1>1 DEF Next, vars, InvokeHere, InvokeThere, Invoke, InvokeGlobal, Find, Save, Read,
                Write, ReadGlobal, ReadProject, Show, Die, HandEdit
  <2>2. projects \subseteq Dirs /\ projects' \subseteq Dirs
    BY <1>1 DEF Inv, TypeOK
  <2>3. Found(d) \in projects \cap Above[d]
    BY <1>1, <2>2, FoundFacts
  <2>4. /\ Found(d)' = None => projects' \cap Above[d] = {}
        /\ Found(d)' # None => \A q \in projects' \cap Above[d] : q \in Above[Found(d)']
    <3>1. Found(d)' = IF projects' \cap Above[d] = {} THEN None
                      ELSE CHOOSE r \in projects' \cap Above[d] :
                              \A q \in projects' \cap Above[d] : q \in Above[r]
      BY DEF Found, Matches
    <3>2. projects' \cap Above[d] # {} =>
              \E r \in projects' \cap Above[d] : \A q \in projects' \cap Above[d] : q \in Above[r]
      <4>1. projects' \cap Above[d] \in SUBSET Above[d]
        OBVIOUS
      <4>2. \A S \in SUBSET Above[d] : S # {} => \E r \in S : \A q \in S : q \in Above[r]
        BY HomeOK DEF HomeAssumption
      <4> QED BY <4>1, <4>2
    <3>3. None \notin projects' \cap Above[d]
      BY <2>2, HomeOK DEF HomeAssumption
    <3> QED BY <3>1, <3>2, <3>3
  <2> QED BY <2>1, <2>3, <2>4
<1>2. Inv /\ Inv' /\ [Next]_vars =>
        [\A d \in Dirs : Found(d) # None =>
            Found(d)' # None /\ Found(d) \in Above[Found(d)']]_vars
  BY <1>1
<1> QED BY <1>2, Always, PTL DEF FoundStays, Spec

(* init writes no registration it saw, and without --project none inside a *)
(* project it saw.                                                         *)
THEOREM RegistersNewTheorem == Spec => RegistersNew
<1>1. ASSUME Inv, NEW p \in Procs, Save(p)
      PROVE  /\ scope[p] \notin before[p]
             /\ ~call[p].explicit => before[p] \cap Above[scope[p]] = {}
  BY <1>1 DEF Save, Inv, Place, Looked
<1>2. Inv => [\A p \in Procs : Save(p) =>
                /\ scope[p] \notin before[p]
                /\ ~call[p].explicit => before[p] \cap Above[scope[p]] = {}]_vars
  BY <1>1
<1> QED BY <1>2, Always, PTL DEF RegistersNew
=============================================================================
