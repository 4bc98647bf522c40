-------------------------- MODULE ConfigStoreProofs --------------------------
(***************************************************************************)
(* Proofs about ConfigStore, for every set of files and every number of    *)
(* loads.  TypeOK is inductive; the others are inductive together with     *)
(* what the locals of the parser say of the nodes read so far.             *)
(*                                                                         *)
(* And about GroupStore, for every set of groups and entries: what callers *)
(* were told is followed entry by entry (ToldInv).                         *)
(***************************************************************************)
EXTENDS ConfigStore, GroupStore, WellFoundedInduction, TLAPS

\* A set of numbers that is not empty has a least element.
LEMMA Least ==
  ASSUME NEW S \in SUBSET Nat, S # {}
  PROVE  \E i \in S : \A j \in S : i <= j
<1>1. \E i \in S : \A j \in S : ~(<<j, i>> \in OpToRel(<, Nat))
  BY WFMin, NatLessThanWellFounded, Zenon
<1>2. PICK i \in S : \A j \in S : ~(<<j, i>> \in OpToRel(<, Nat))
  BY <1>1
<1>3. \A j \in S : i <= j
  <2> SUFFICES ASSUME NEW j \in S PROVE i <= j
    OBVIOUS
  <2>1. i \in Nat /\ j \in Nat
    OBVIOUS
  <2>2. ~(j < i)
    BY <1>2, <2>1 DEF OpToRel
  <2> QED BY <2>1, <2>2
<1> QED BY <1>3

\* What the types say of the nodes of a file.
LEMMA NodeType ==
  ASSUME NEW n \in GroupNode
  PROVE  /\ n.ignore \in BOOLEAN /\ n.id \in GIds /\ n.hasShm \in BOOLEAN
         /\ n.procs \in Seq(ProcNode)
         /\ \A i \in DOMAIN n.procs : n.procs[i] \in ProcNode
  BY DEF GroupNode

\* A copy of a copy is the same, for it has no environment left to move.
LEMMA CopyAgain ==
  ASSUME NEW d \in ProcDef
  PROVE  Copy(d) = d
<1>1. d.args \in Seq(Words) /\ d.envs = <<>>
  BY DEF ProcDef
<1>2. d.args \o d.envs = d.args
  BY <1>1
<1> QED BY <1>1, <1>2 DEF Copy, ProcDef

\* The copy of what the parser makes of a node it accepts is a definition.
LEMMA CopyOfParsed ==
  ASSUME NEW n \in ProcNode, Accepted(n)
  PROVE  Copy(ParseProcess(n)) \in ProcDef
<1> DEFINE d == ParseProcess(n)
<1>1. /\ n.enable \in BOOLEAN /\ n.path \in Words /\ n.other \in Others
      /\ n.depends \in SUBSET ProcIds /\ n.args \in Seq(Words) /\ n.envs \in Seq(Words)
  BY DEF ProcNode, Accepted
<1>2. ParseFlags(n) \in SUBSET FlagNames
  BY DEF ParseFlags
<1>3. d.path \in Words
  BY <1>1, PathsAssumption DEF ParseProcess
<1>4. d.args = <<d.path>> \o n.args /\ d.envs = n.envs
  BY DEF ParseProcess, ParseVariables
<1>5. d.args \o d.envs \in Seq(Words)
  BY <1>1, <1>3, <1>4
<1>6. d \in [enable : BOOLEAN, flags : SUBSET FlagNames, path : Words,
              args : Seq(Words), envs : Seq(Words), depends : SUBSET ProcIds, other : Others]
  <2>1. d.args \in Seq(Words) /\ d.envs \in Seq(Words)
    BY <1>1, <1>3, <1>4
  <2> QED BY <1>1, <1>2, <1>3, <2>1 DEF ParseProcess
<1> HIDE DEF d
<1>7. Copy(d) \in ProcDef
  <2>1. \A t \in Seq(Words), v \in {<<>>} : [d EXCEPT !.args = t, !.envs = v] \in ProcDef
    BY <1>6 DEF ProcDef
  <2> QED BY <1>5, <2>1 DEF Copy
<1> QED BY <1>7 DEF d

\* What a node of a file makes of a group is a ProcessGroup.
LEMMA NewGroupType ==
  ASSUME NEW n \in GroupNode, NEW load \in Nat
  PROVE  NewGroup(n, load) \in ProcessGroup
<1> DEFINE G == [p \in ProcIds |->
     IF n.id = NoId \/ AcceptedAs(n, p) = {} THEN NoDef
     ELSE Copy(ParseProcess(
            n.procs[CHOOSE i \in AcceptedAs(n, p) : \A j \in AcceptedAs(n, p) : i <= j]))]
<1>1. G \in [ProcIds -> ProcDef \union {NoDef}]
  <2> SUFFICES ASSUME NEW p \in ProcIds PROVE G[p] \in ProcDef \union {NoDef}
    OBVIOUS
  <2>1. CASE n.id = NoId \/ AcceptedAs(n, p) = {}
    BY <2>1
  <2>2. CASE ~(n.id = NoId \/ AcceptedAs(n, p) = {})
    <3>1. AcceptedAs(n, p) \subseteq DOMAIN n.procs /\ DOMAIN n.procs \subseteq Nat
      BY DEF AcceptedAs, GroupNode
    <3>2. \E i \in AcceptedAs(n, p) : \A j \in AcceptedAs(n, p) : i <= j
      BY <2>2, <3>1, Least
    <3>3. PICK i \in AcceptedAs(n, p) :
            i = CHOOSE k \in AcceptedAs(n, p) : \A j \in AcceptedAs(n, p) : k <= j
      BY <3>2
    <3>4. n.procs[i] \in ProcNode /\ Accepted(n.procs[i])
      BY <3>1, NodeType DEF AcceptedAs
    <3>5. G[p] = Copy(ParseProcess(n.procs[i]))
      BY <2>2, <3>3
    <3> QED BY <3>4, <3>5, CopyOfParsed
  <2> QED BY <2>1, <2>2
<1> QED BY <1>1 DEF NewGroup, ProcessGroup

\* A file's group nodes are a sequence of group nodes, whatever its status.
LEMMA FileGroups ==
  ASSUME NEW f \in Files
  PROVE  /\ f.groups \in Seq(GroupNode) /\ f.status \in {"ok", "unreadable", "noRoot", "noGroups"}
         /\ f.status # "ok" => f.groups = <<>>
<1>1. f \in File
  BY FilesAssumption
<1>2. ASSUME f \in [status : {"ok"}, groups : Seq(GroupNode)]
      PROVE  f.groups \in Seq(GroupNode) /\ f.status = "ok"
  BY <1>2
<1>3. ASSUME f \in [status : {"unreadable", "noRoot", "noGroups"}, groups : {<<>>}]
      PROVE  f.groups = <<>> /\ f.status \in {"unreadable", "noRoot", "noGroups"}
  BY <1>3
<1>4. <<>> \in Seq(GroupNode)
  OBVIOUS
<1> QED BY <1>1, <1>2, <1>3, <1>4 DEF File

\* While a load is under way, the file is one of Files.
LEMMA CurrentFile ==
  ASSUME TypeOK, parsing
  PROVE  /\ Len(loads) \in DOMAIN loads /\ loads[Len(loads)] \in Files
         /\ CurrentGroups \in Seq(GroupNode) /\ Len(CurrentGroups) \in Nat
<1>1. Len(loads) \in DOMAIN loads /\ loads[Len(loads)] \in Files
  BY DEF TypeOK
<1> QED BY <1>1, FileGroups DEF CurrentGroups

-----------------------------------------------------------------------------
(* What is started.                                                        *)

\* c is a copy of what the object group has for it.
FromGroup(c, group, g) ==
  c.gid = g /\ c.group = group /\ group.procs[c.pid] = c.def

\* The copy of a definition that a group has equals it.
LEMMA CopyIsDefinition ==
  ASSUME NEW group \in ProcessGroup, NEW g \in GIds, NEW p \in ProcIds, NEW asked \in BOOLEAN,
         group.procs[p] # NoDef
  PROVE  /\ CopyOf(group, g, p, asked) \in ProcessCopy
         /\ FromGroup(CopyOf(group, g, p, asked), group, g)
         /\ CopyOf(group, g, p, asked).asked = asked
         /\ CopyOf(group, g, p, asked).def = group.procs[p]
         /\ CopyOf(group, g, p, asked).pid = p
<1>1. group.procs[p] \in ProcDef
  BY DEF ProcessGroup
<1>2. Copy(group.procs[p]) = group.procs[p]
  BY <1>1, CopyAgain
<1>3. CopyOf(group, g, p, asked) =
        [gid |-> g, pid |-> p, def |-> group.procs[p], group |-> group, asked |-> asked]
  BY <1>2 DEF CopyOf
<1> QED BY <1>1, <1>3 DEF FromGroup, ProcessCopy

\* A start adds the copies it is for and dependencies of theirs, of the same group.
LEMMA Started ==
  ASSUME NEW group \in ProcessGroup, NEW g \in GIds, NEW copies \in SUBSET ProcessCopy,
         Start(group, g, copies)
  PROVE  /\ held' \subseteq held \union ProcessCopy /\ held \union copies \subseteq held'
         /\ \A c \in held' : c \notin held \union copies =>
              /\ FromGroup(c, group, g) /\ ~c.asked
              /\ \E d \in copies : c.pid \in d.def.depends
<1>1. PICK deps \in SUBSET UNION {Dependencies(group, c.def) : c \in copies} :
        held' = held \union copies \union {CopyOf(group, g, q, FALSE) : q \in deps}
  BY DEF Start
<1>2. ASSUME NEW q \in deps
      PROVE  q \in ProcIds /\ group.procs[q] # NoDef /\ \E d \in copies : q \in d.def.depends
  <2>1. PICK d \in copies : q \in Dependencies(group, d.def)
    BY <1>2
  <2>2. d.def.depends \subseteq ProcIds
    BY DEF ProcessCopy, ProcDef
  <2> QED BY <2>1, <2>2 DEF Dependencies, Startable
<1>3. ASSUME NEW q \in deps
      PROVE  /\ CopyOf(group, g, q, FALSE) \in ProcessCopy
             /\ FromGroup(CopyOf(group, g, q, FALSE), group, g)
             /\ CopyOf(group, g, q, FALSE).asked = FALSE
             /\ CopyOf(group, g, q, FALSE).pid = q
  <2>1. q \in ProcIds /\ group.procs[q] # NoDef /\ FALSE \in BOOLEAN
    BY <1>2, <1>3
  <2> QED BY ONLY <2>1, group \in ProcessGroup, g \in GIds, CopyIsDefinition, Zenon
<1>4. ASSUME NEW c \in held', c \notin held \union copies
      PROVE  /\ FromGroup(c, group, g) /\ ~c.asked /\ c \in ProcessCopy
             /\ \E d \in copies : c.pid \in d.def.depends
  <2>1. PICK q \in deps : c = CopyOf(group, g, q, FALSE)
    BY <1>1, <1>4
  <2> QED BY <1>2, <1>3, <2>1
<1>5. held \union copies \subseteq held'
  BY <1>1
<1>6. held' \subseteq held \union ProcessCopy
  BY <1>4
<1> QED BY <1>4, <1>5, <1>6

\* The copies a command asks for are of enabled definitions the store has.
LEMMA AskedFor ==
  ASSUME TypeOK, NEW g \in GIds, StartAll(g) \/ \E p \in ProcIds : StartById(g, p)
  PROVE  /\ store[g] \in ProcessGroup
         /\ \E copies \in SUBSET ProcessCopy :
              /\ Start(store[g], g, copies)
              /\ \A c \in copies : FromGroup(c, store[g], g) /\ c.asked /\ c.def.enable
<1>1. store[g] \in ProcessGroup
  <2>1. store[g] # NoGroup
    BY DEF StartAll, StartById, ProcessError
  <2> QED BY <2>1 DEF TypeOK
<1>2. PICK asked \in SUBSET ProcIds :
        /\ \A p \in asked : store[g].procs[p] # NoDef /\ store[g].procs[p].enable
        /\ Start(store[g], g, {CopyOf(store[g], g, p, TRUE) : p \in asked})
  <2>1. CASE StartAll(g)
    <3>1. PICK asked \in SUBSET {p \in AllProcesses(g) : Startable(store[g].procs[p])} :
            Start(store[g], g, {CopyOf(store[g], g, p, TRUE) : p \in asked})
      BY <2>1 DEF StartAll
    <3>2. asked \in SUBSET ProcIds
          /\ \A p \in asked : store[g].procs[p] # NoDef /\ store[g].procs[p].enable
      BY DEF AllProcesses
    <3> QED BY <3>1, <3>2
  <2>2. ASSUME NEW p \in ProcIds, StartById(g, p)
        PROVE  \E asked \in SUBSET ProcIds :
                 /\ \A q \in asked : store[g].procs[q] # NoDef /\ store[g].procs[q].enable
                 /\ Start(store[g], g, {CopyOf(store[g], g, q, TRUE) : q \in asked})
    <3>1. ProcessError(g, p) = "SUCCESS" /\ Start(store[g], g, {CopyOf(store[g], g, p, TRUE)})
      BY <2>2 DEF StartById
    <3>2. store[g].procs[p] # NoDef /\ store[g].procs[p].enable
      BY <3>1 DEF ProcessError
    <3>3. {CopyOf(store[g], g, p, TRUE)} = {CopyOf(store[g], g, q, TRUE) : q \in {p}}
      OBVIOUS
    <3>4. {p} \in SUBSET ProcIds
      OBVIOUS
    <3> QED BY <3>1, <3>2, <3>3, <3>4
  <2> QED BY <2>1, <2>2
<1>3. ASSUME NEW p \in asked
      PROVE  /\ CopyOf(store[g], g, p, TRUE) \in ProcessCopy
             /\ FromGroup(CopyOf(store[g], g, p, TRUE), store[g], g)
             /\ CopyOf(store[g], g, p, TRUE).asked
             /\ CopyOf(store[g], g, p, TRUE).def.enable
  <2>1. p \in ProcIds /\ store[g].procs[p] # NoDef /\ store[g].procs[p].enable /\ TRUE \in BOOLEAN
    BY <1>2, <1>3
  <2> QED BY ONLY <1>1, <2>1, g \in GIds, CopyIsDefinition, Zenon
<1>4. {CopyOf(store[g], g, p, TRUE) : p \in asked} \in SUBSET ProcessCopy
  BY <1>3
<1> QED BY <1>1, <1>2, <1>3, <1>4

\* A replacement is started with what the instance before it had.
LEMMA Replaced ==
  ASSUME TypeOK, NEW c \in held, Replace(c)
  PROVE  c.group \in ProcessGroup /\ c.gid \in GIds /\ Start(c.group, c.gid, {c})
<1>1. c \in ProcessCopy
  BY DEF TypeOK
<1>2. c.group \in ProcessGroup /\ c.gid \in GIds /\ c.def \in ProcDef
  BY <1>1 DEF ProcessCopy
<1>3. [c EXCEPT !.def = c.def] = c
  BY <1>1 DEF ProcessCopy
<1> QED BY <1>2, <1>3, CopyAgain DEF Replace

-----------------------------------------------------------------------------
\* The variables keep their types whatever files are loaded, in whatever order,
\* and whatever commands come in between.
THEOREM TypeCorrect == Spec => []TypeOK
<1>1. Init => TypeOK
  <2> SUFFICES ASSUME Init PROVE TypeOK
    OBVIOUS
  <2>1. loads \in Seq(Files) /\ read \in Nat /\ held \subseteq ProcessCopy
    BY DEF Init
  <2>2. store \in [GIds -> ProcessGroup \union {NoGroup}]
    BY DEF Init
  <2> QED BY <2>1, <2>2 DEF Init, TypeOK, Errors
<1>2. TypeOK /\ [Next]_vars => TypeOK'
  <2> SUFFICES ASSUME TypeOK, [Next]_vars PROVE TypeOK'
    OBVIOUS
  <2>1. ASSUME NEW f \in Files, BeginLoad(f) PROVE TypeOK'
    <3>1. loads' \in Seq(Files) /\ Len(loads') = Len(loads) + 1 /\ loads'[Len(loads) + 1] = f
      BY <2>1 DEF BeginLoad, TypeOK
    <3>2. StatusError(f) \in Errors
      BY FileGroups DEF StatusError, Errors
    <3>3. loads' # <<>> /\ read' = 0 /\ Len(CurrentGroups') \in Nat
      <4>1. CurrentGroups' = f.groups /\ f.groups \in Seq(GroupNode)
        BY <3>1, FileGroups DEF CurrentGroups
      <4>2. loads \in Seq(Files) /\ loads' = Append(loads, f) /\ read' = 0
        BY <2>1 DEF BeginLoad, TypeOK
      <4> QED BY <4>1, <4>2
    <3>4. read' \in Nat /\ (parsing' => loads' # <<>> /\ read' <= Len(CurrentGroups'))
      BY <3>3
    <3>5. /\ UNCHANGED <<phase, store, loaded, held>> /\ error' \in Errors
          /\ parsing' = TRUE /\ hasGroup' = FALSE /\ hasProcess' = FALSE
      BY <2>1, <3>2 DEF BeginLoad
    <3>6. /\ phase' \in {"boot", "serve", "stopped"} /\ loaded' \in BOOLEAN
          /\ store' \in [GIds -> ProcessGroup \union {NoGroup}] /\ held' \subseteq ProcessCopy
          /\ parsing' \in BOOLEAN /\ hasGroup' \in BOOLEAN /\ hasProcess' \in BOOLEAN
      BY <3>5 DEF TypeOK
    <3> QED BY <3>1, <3>4, <3>5, <3>6 DEF TypeOK
  <2>2. CASE ParseGroup
    <3> DEFINE n == CurrentGroups[read + 1]
    <3>1. n \in GroupNode /\ n.id \in GIds
      <4>1. CurrentGroups \in Seq(GroupNode) /\ read + 1 \in 1..Len(CurrentGroups)
        BY <2>2, CurrentFile DEF ParseGroup, TypeOK
      <4> QED BY <4>1, NodeType
    <3>2. NewGroup(n, Len(loads)) \in ProcessGroup
      BY <3>1, NewGroupType DEF TypeOK
    <3>3. store' \in [GIds -> ProcessGroup \union {NoGroup}]
      BY <2>2, <3>1, <3>2 DEF ParseGroup, AddGroup, TypeOK
    <3>4. GroupParsed(n) \in BOOLEAN
      BY <3>1 DEF GroupParsed, GroupNode
    <3>5. hasGroup' \in BOOLEAN /\ hasProcess' \in BOOLEAN
      BY <2>2, <3>4 DEF ParseGroup, TypeOK
    <3>6. read' \in Nat /\ (parsing' => loads' # <<>> /\ read' <= Len(CurrentGroups'))
      BY <2>2, CurrentFile DEF ParseGroup, TypeOK, CurrentGroups
    <3> QED BY <2>2, <3>3, <3>5, <3>6 DEF ParseGroup, TypeOK
  <2>3. CASE EndLoad
    <3>1. ParseError \in Errors
      BY DEF ParseError, Errors, TypeOK
    <3> QED BY <2>3, <3>1 DEF EndLoad, TypeOK
  <2>4. ASSUME NEW g \in GIds, StartAll(g) \/ \E p \in ProcIds : StartById(g, p) PROVE TypeOK'
    <3>1. held' \subseteq ProcessCopy
      BY <2>4, AskedFor, Started DEF TypeOK
    <3>2. UNCHANGED <<phase, loadVars, store, loaded>>
      BY <2>4 DEF StartAll, StartById
    <3> QED BY <3>1, <3>2 DEF loadVars, TypeOK, CurrentGroups
  <2>5. ASSUME NEW c \in held, Replace(c) PROVE TypeOK'
    <3>1. held' \subseteq ProcessCopy
      <4>1. {c} \in SUBSET ProcessCopy /\ held \subseteq ProcessCopy
        BY <2>5 DEF TypeOK
      <4> QED BY <2>5, <4>1, Replaced, Started
    <3>2. UNCHANGED <<phase, loadVars, store, loaded>>
      BY <2>5 DEF Replace
    <3> QED BY <3>1, <3>2 DEF loadVars, TypeOK, CurrentGroups
  <2>6. CASE UNCHANGED vars
    BY <2>6 DEF vars, TypeOK, CurrentGroups
  <2> QED BY <2>1, <2>2, <2>3, <2>4, <2>5, <2>6 DEF Next
<1> QED BY <1>1, <1>2, PTL DEF Spec
-----------------------------------------------------------------------------
(* The group objects.  AddGroup is the only change to the store, and it     *)
(* leaves what is there alone.                                              *)

\* A step changes no group the store has.
LEMMA GroupsStay ==
  ASSUME TypeOK, [Next]_vars
  PROVE  \A g \in GIds : store[g] # NoGroup => store'[g] = store[g]
<1>1. CASE ParseGroup
  BY <1>1 DEF ParseGroup, AddGroup, TypeOK
<1>2. CASE UNCHANGED store
  BY <1>2
<1> QED BY <1>1, <1>2
        DEF Next, vars, BeginLoad, EndLoad, StartById, StartAll, Replace

\* The pointer in a copy that was handed out stays good, and the definitions
\* behind it stay as they were, through every later load.
THEOREM CopiesStay == Spec => []HandedOutStays
<1>1. Init => HandedOutStays
  BY DEF Init, HandedOutStays
<1>2. TypeOK /\ HandedOutStays /\ [Next]_vars => HandedOutStays'
  <2> SUFFICES ASSUME TypeOK, HandedOutStays, [Next]_vars,
                      NEW c \in held'
               PROVE  store'[c.gid] = c.group /\ c.group.procs[c.pid] = c.def
    BY DEF HandedOutStays
  <2>1. CASE c \in held
    <3>1. c.gid \in GIds /\ c.group \in ProcessGroup
      BY <2>1 DEF TypeOK, ProcessCopy
    <3>2. store[c.gid] # NoGroup
      BY <2>1, <3>1, AbsentAssumption DEF HandedOutStays
    <3> QED BY <2>1, <3>1, <3>2, GroupsStay DEF HandedOutStays
  <2>2. ASSUME c \notin held, NEW g \in GIds, StartAll(g) \/ \E p \in ProcIds : StartById(g, p)
        PROVE  store'[c.gid] = c.group /\ c.group.procs[c.pid] = c.def
    <3>1. FromGroup(c, store[g], g)
      BY <2>2, AskedFor, Started
    <3>2. store' = store
      BY <2>2 DEF StartAll, StartById
    <3> QED BY <3>1, <3>2 DEF FromGroup
  <2>3. ASSUME c \notin held, NEW d \in held, Replace(d)
        PROVE  store'[c.gid] = c.group /\ c.group.procs[c.pid] = c.def
    <3>1. FromGroup(c, d.group, d.gid)
      <4>1. {d} \in SUBSET ProcessCopy
        BY DEF TypeOK
      <4> QED BY <2>3, <4>1, Replaced, Started
    <3>2. store' = store
      BY <2>3 DEF Replace
    <3> QED BY <3>1, <3>2 DEF FromGroup, HandedOutStays
  <2>4. CASE UNCHANGED held
    BY <2>1, <2>4
  <2> QED BY <2>1, <2>2, <2>3, <2>4
          DEF Next, vars, BeginLoad, ParseGroup, EndLoad
<1> QED BY <1>1, <1>2, TypeCorrect, PTL DEF Spec

\* What commands ask for, by id or by group, is enabled, and everything else that was
\* started is a dependency of something that was.
THEOREM OnlyEnabledStarted == Spec => []HandedOutEnabled
<1> DEFINE Needed(c) == \E d \in held : d.gid = c.gid /\ d.group = c.group /\ c.pid \in d.def.depends
           Fit(c) == IF c.asked THEN c.def.enable ELSE Needed(c)
<1>1. Init => HandedOutEnabled
  BY DEF Init, HandedOutEnabled
<1>2. TypeOK /\ HandedOutEnabled /\ [Next]_vars => HandedOutEnabled'
  <2> SUFFICES ASSUME TypeOK, HandedOutEnabled, [Next]_vars, NEW c \in held'
               PROVE  Fit(c)'
    BY DEF HandedOutEnabled
  <2>1. CASE UNCHANGED held
    BY <2>1 DEF HandedOutEnabled
  <2>2. ASSUME held \subseteq held', c \in held PROVE Fit(c)'
    BY <2>2 DEF HandedOutEnabled
  <2>3. ASSUME NEW g \in GIds, StartAll(g) \/ \E p \in ProcIds : StartById(g, p)
        PROVE  Fit(c)'
    <3>1. store[g] \in ProcessGroup
      BY <2>3, AskedFor
    <3>2. PICK copies \in SUBSET ProcessCopy :
            /\ Start(store[g], g, copies)
            /\ \A d \in copies : FromGroup(d, store[g], g) /\ d.asked /\ d.def.enable
      BY <2>3, AskedFor
    <3>3. /\ held \union copies \subseteq held'
          /\ c \notin held \union copies =>
               /\ FromGroup(c, store[g], g) /\ ~c.asked
               /\ \E d \in copies : c.pid \in d.def.depends
      BY <3>1, <3>2, Started
    <3>4. CASE c \in copies
      BY <3>2, <3>4
    <3>5. CASE c \notin held \union copies
      BY <3>2, <3>3, <3>5 DEF FromGroup
    <3> QED BY <2>2, <3>3, <3>4, <3>5
  <2>4. ASSUME NEW d \in held, Replace(d) PROVE Fit(c)'
    <3>1. {d} \in SUBSET ProcessCopy
      BY DEF TypeOK
    <3>2. /\ held \subseteq held'
          /\ c \notin held =>
               FromGroup(c, d.group, d.gid) /\ ~c.asked /\ c.pid \in d.def.depends
      BY <2>4, <3>1, Replaced, Started
    <3>3. CASE c \notin held
      BY <3>2, <3>3 DEF FromGroup
    <3> QED BY <2>2, <3>2, <3>3
  <2> QED BY <2>1, <2>3, <2>4
          DEF Next, vars, BeginLoad, ParseGroup, EndLoad
<1> QED BY <1>1, <1>2, TypeCorrect, PTL DEF Spec

\* Both of these: what a running process was started with was enabled then, or needed by
\* something that was started, and is there to be read until the server ends.
THEOREM HandedOutStaysGood == Spec => []HandedOutGood
<1>1. HandedOutStays /\ HandedOutEnabled => HandedOutGood
  BY DEF HandedOutGood
<1> QED BY <1>1, CopiesStay, OnlyEnabledStarted, PTL

-----------------------------------------------------------------------------
(* Loaded.                                                                 *)

\* The locals of the parser while a load is under way: what the nodes read so
\* far were, and the error the file itself gave.
ParsedSoFar ==
  parsing =>
    /\ hasGroup <=> \E i \in 1..read : ~CurrentGroups[i].ignore
    /\ hasProcess <=> \E i \in 1..read : Useful(CurrentGroups[i])
    /\ error = StatusError(loads[Len(loads)])

\* The next node is added to what is known of those before it.
LEMMA ParseGroupAdds ==
  ASSUME TypeOK, ParsedSoFar, ParseGroup
  PROVE  ParsedSoFar'
<1> DEFINE n == CurrentGroups[read + 1]
<1>1. CurrentGroups' = CurrentGroups /\ parsing' = parsing /\ error' = error /\ loads' = loads
  BY DEF ParseGroup, CurrentGroups
<1>2. read \in Nat /\ read' = read + 1 /\ 1..read' = (1..read) \union {read + 1}
  BY DEF ParseGroup, TypeOK
<1>3. /\ hasGroup' <=> (hasGroup \/ ~n.ignore)
      /\ hasProcess' <=> (hasProcess \/ Useful(n))
  BY DEF ParseGroup, Useful, TypeOK
<1> QED BY <1>1, <1>2, <1>3 DEF ParsedSoFar, ParseGroup

\* At the end of a load the result is SUCCESS exactly for a good file.
LEMMA ParseErrorRight ==
  ASSUME TypeOK, ParsedSoFar, EndLoad
  PROVE  ParseError = "SUCCESS" <=> Good(loads[Len(loads)])
<1> DEFINE f == loads[Len(loads)]
<1>1. f \in Files /\ f.groups = CurrentGroups /\ CurrentGroups \in Seq(GroupNode)
  BY CurrentFile DEF EndLoad, CurrentGroups
<1>2. 1..read = DOMAIN f.groups
  BY <1>1 DEF EndLoad
<1>3. hasProcess <=> Good(f)
  BY <1>1, <1>2 DEF ParsedSoFar, Good, EndLoad
<1>4. hasProcess => hasGroup
  BY DEF ParsedSoFar, EndLoad, Useful
<1>5. hasProcess => error = "SUCCESS"
  <2>1. hasProcess => f.groups # <<>>
    BY <1>2, <1>3 DEF Good
  <2>2. f.groups # <<>> => StatusError(f) = "SUCCESS"
    BY <1>1, FileGroups DEF StatusError
  <2> QED BY <2>1, <2>2 DEF ParsedSoFar, EndLoad
<1> QED BY <1>3, <1>4, <1>5 DEF ParseError

\* Loaded says of the last load alone whether it was good.
THEOREM LoadedRight == Spec => []LoadedMeansGood
<1> DEFINE LoadedInv == ParsedSoFar /\ LoadedMeansGood
<1>1. Init => LoadedInv
  BY DEF Init, ParsedSoFar, LoadedMeansGood
<1>2. TypeOK /\ LoadedInv /\ [Next]_vars => LoadedInv'
  <2> SUFFICES ASSUME TypeOK, LoadedInv, [Next]_vars PROVE LoadedInv'
    OBVIOUS
  <2>1. ASSUME NEW f \in Files, BeginLoad(f) PROVE LoadedInv'
    <3>1. loads' # <<>> /\ loads'[Len(loads')] = f /\ 1..read' = {}
      BY <2>1 DEF BeginLoad, TypeOK
    <3>2. parsing' = TRUE /\ hasGroup' = FALSE /\ hasProcess' = FALSE /\ error' = StatusError(f)
      BY <2>1 DEF BeginLoad
    <3> QED BY <3>1, <3>2 DEF ParsedSoFar, LoadedMeansGood
  <2>2. CASE ParseGroup
    BY <2>2, ParseGroupAdds DEF ParseGroup, LoadedMeansGood
  <2>3. CASE EndLoad
    BY <2>3, ParseErrorRight DEF EndLoad, ParsedSoFar, LoadedMeansGood
  <2>4. CASE UNCHANGED <<phase, parsing, loads, read, hasGroup, hasProcess, error, loaded>>
    BY <2>4 DEF ParsedSoFar, LoadedMeansGood, CurrentGroups
  <2> QED BY <2>1, <2>2, <2>3, <2>4 DEF Next, vars, StartById, StartAll, Replace, loadVars
<1> QED BY <1>1, <1>2, TypeCorrect, PTL DEF Spec

-----------------------------------------------------------------------------
(* The store as a function of the files loaded.                            *)

\* A load that has only begun, or one that ends, changes no node that has been
\* parsed and parses none.
LEMMA SameNodes ==
  ASSUME TypeOK, (\E f \in Files : BeginLoad(f)) \/ EndLoad,
         NEW l, NEW i, NEW g
  PROVE  /\ Defines(l, i, g)' <=> Defines(l, i, g)
         /\ Defines(l, i, g) => loads'[l].groups[i] = loads[l].groups[i]
<1>1. ASSUME NEW f \in Files, BeginLoad(f)
      PROVE  /\ Defines(l, i, g)' <=> Defines(l, i, g)
             /\ Defines(l, i, g) => loads'[l].groups[i] = loads[l].groups[i]
  <2>1. /\ loads \in Seq(Files) /\ loads' = Append(loads, f) /\ ~parsing /\ parsing' /\ read' = 0
    BY <1>1 DEF BeginLoad, TypeOK
  <2>2. CASE l \in DOMAIN loads
    <3>1. l \in DOMAIN loads' /\ loads'[l] = loads[l] /\ l # Len(loads')
      BY <2>1, <2>2
    <3>2. NodesRead(l)' = NodesRead(l)
      BY <2>1, <3>1 DEF NodesRead
    <3> QED BY <2>2, <3>1, <3>2 DEF Defines
  <2>3. CASE l \notin DOMAIN loads
    <3>1. l \in DOMAIN loads' => l = Len(loads')
      BY <2>1, <2>3
    <3>2. l \in DOMAIN loads' => 1..NodesRead(l)' = {}
      BY <2>1, <3>1 DEF NodesRead
    <3> QED BY <2>3, <3>2 DEF Defines
  <2> QED BY <2>2, <2>3
<1>2. CASE EndLoad
  <2>1. loads' = loads /\ parsing /\ ~parsing' /\ read = Len(CurrentGroups)
    BY <1>2 DEF EndLoad
  <2>2. NodesRead(l)' = NodesRead(l)
    BY <2>1 DEF NodesRead, CurrentGroups
  <2> QED BY <2>1, <2>2 DEF Defines
<1> QED BY <1>1, <1>2

\* One round of the loop parses one node more, the last so far.
LEMMA OneNodeMore ==
  ASSUME TypeOK, ParseGroup, NEW l, NEW i, NEW g
  PROVE  /\ Defines(l, i, g)' <=>
              \/ Defines(l, i, g)
              \/ /\ l = Len(loads) /\ i = read + 1
                 /\ ~CurrentGroups[i].ignore /\ CurrentGroups[i].id = g
         /\ Defines(l, i, g) => NotAfter(l, i, Len(loads), read + 1)
<1>1. /\ loads \in Seq(Files) /\ Len(loads) \in DOMAIN loads /\ loads' = loads
      /\ parsing /\ parsing' /\ read \in Nat /\ read' = read + 1
  BY CurrentFile DEF ParseGroup, TypeOK
<1>2. CASE l = Len(loads)
  <2>1. NodesRead(l) = read /\ NodesRead(l)' = read + 1 /\ loads[l].groups = CurrentGroups
    BY <1>1, <1>2 DEF NodesRead, CurrentGroups
  <2>2. 1..(read + 1) = (1..read) \union {read + 1} /\ \A k \in 1..read : k <= read + 1
    BY <1>1
  <2> QED BY <1>1, <1>2, <2>1, <2>2 DEF Defines, NotAfter
<1>3. CASE l # Len(loads)
  <2>1. NodesRead(l)' = NodesRead(l)
    BY <1>1, <1>3 DEF NodesRead
  <2>2. l \in DOMAIN loads => l < Len(loads)
    BY <1>1, <1>3
  <2> QED BY <1>1, <1>3, <2>1, <2>2 DEF Defines, NotAfter
<1> QED BY <1>2, <1>3

\* The store is what the first nodes of each id say, whatever was loaded after
\* them and whether or not the loads succeeded.
THEOREM FirstDefinitionsStay == Spec => []StoreIsFirstDefinitions
<1>1. Init => StoreIsFirstDefinitions
  BY DEF Init, StoreIsFirstDefinitions
<1>2. TypeOK /\ StoreIsFirstDefinitions /\ [Next]_vars => StoreIsFirstDefinitions'
  <2> SUFFICES ASSUME TypeOK, StoreIsFirstDefinitions, [Next]_vars
               PROVE  StoreIsFirstDefinitions'
    OBVIOUS
  <2> DEFINE Undefined(g) == \A m, j : ~Defines(m, j, g)
             FirstAt(g, l, i) ==
               /\ Defines(l, i, g) /\ store[g] = NewGroup(loads[l].groups[i], l)
               /\ \A m, j : Defines(m, j, g) => NotAfter(l, i, m, j)
  <2>1. ASSUME NEW g \in GIds
        PROVE  IF store[g] = NoGroup THEN Undefined(g) ELSE \E l, i : FirstAt(g, l, i)
    BY <2>1 DEF StoreIsFirstDefinitions, Defines
  <2>2. ASSUME \A g \in GIds :
                 IF store'[g] = NoGroup THEN Undefined(g)' ELSE \E l, i : FirstAt(g, l, i)'
        PROVE  StoreIsFirstDefinitions'
    BY <2>2 DEF StoreIsFirstDefinitions, Defines
  <2>3. CASE (\E f \in Files : BeginLoad(f)) \/ EndLoad
    <3> SUFFICES ASSUME NEW g \in GIds
                 PROVE  IF store'[g] = NoGroup THEN Undefined(g)'
                        ELSE \E l, i : FirstAt(g, l, i)'
      BY <2>2
    <3>1. store'[g] = store[g]
      BY <2>3 DEF BeginLoad, EndLoad
    <3> QED BY <2>1, <2>3, <3>1, SameNodes DEF NotAfter
  <2>4. CASE ParseGroup
    <3> DEFINE n == CurrentGroups[read + 1]
    <3> SUFFICES ASSUME NEW g \in GIds
                 PROVE  IF store'[g] = NoGroup THEN Undefined(g)'
                        ELSE \E l, i : FirstAt(g, l, i)'
      BY <2>2
    <3>1. loads' = loads /\ n = loads[Len(loads)].groups[read + 1]
      BY <2>4 DEF ParseGroup, CurrentGroups
    <3>2. CASE store[g] # NoGroup
      <4>1. store'[g] = store[g]
        BY <3>2, GroupsStay
      <4>2. PICK l, i : FirstAt(g, l, i)
        BY <2>1, <3>2
      <4>3. FirstAt(g, l, i)'
        BY <2>4, <3>1, <4>1, <4>2, OneNodeMore DEF NotAfter
      <4> QED BY <3>2, <4>1, <4>3
    <3>3. CASE store[g] = NoGroup /\ ~n.ignore /\ n.id = g
      <4>1. store'[g] = NewGroup(n, Len(loads)) /\ store'[g] # NoGroup
        <5>1. n \in GroupNode /\ Len(loads) \in Nat
          <6>1. CurrentGroups \in Seq(GroupNode) /\ read + 1 \in 1..Len(CurrentGroups)
            BY <2>4, CurrentFile DEF ParseGroup, TypeOK
          <6> QED BY <6>1 DEF TypeOK
        <5> QED BY <2>4, <3>3, <5>1, NewGroupType, AbsentAssumption
                DEF ParseGroup, AddGroup, TypeOK
      <4>2. PICK l, i : l = Len(loads) /\ i = read + 1
        OBVIOUS
      <4>3. \A m, j : Defines(m, j, g)' <=> m = l /\ j = i
        BY <2>1, <2>4, <3>3, <4>2, OneNodeMore
      <4>4. NotAfter(l, i, l, i)
        BY <4>2 DEF NotAfter, TypeOK
      <4>5. store'[g] = NewGroup(loads'[l].groups[i], l)
        BY <3>1, <4>1, <4>2
      <4>6. FirstAt(g, l, i)'
        BY <4>3, <4>4, <4>5 DEF NotAfter
      <4> QED BY <4>1, <4>6
    <3>4. CASE store[g] = NoGroup /\ (n.ignore \/ n.id # g)
      <4>1. store'[g] = NoGroup
        BY <2>4, <3>4 DEF ParseGroup, AddGroup, TypeOK
      <4>2. Undefined(g)'
        BY <2>1, <2>4, <3>4, OneNodeMore
      <4> QED BY <4>1, <4>2
    <3> QED BY <3>2, <3>3, <3>4
  <2>5. CASE UNCHANGED <<parsing, loads, read, store>>
    BY <2>5 DEF StoreIsFirstDefinitions, Defines, NodesRead, NotAfter
  <2> QED BY <2>3, <2>4, <2>5 DEF Next, vars, StartById, StartAll, Replace, loadVars
<1> QED BY <1>1, <1>2, TypeCorrect, PTL DEF Spec

\* Both of what the loads amount to: the answer is about the last of them, the
\* store about the first that defined each group.
THEOREM StoreFollowsLoads == Spec => []StoreAsLoaded
<1>1. LoadedMeansGood /\ StoreIsFirstDefinitions => StoreAsLoaded
  BY DEF StoreAsLoaded
<1> QED BY <1>1, LoadedRight, FirstDefinitionsStay, PTL

-----------------------------------------------------------------------------
(* The store of the groups and their entries.                              *)

\* Every object the table leads to has been made, and has not been deleted; it is in
\* the table once.
TableInv ==
  /\ objects \in 0 .. MaxGroups /\ freed \subseteq 1 .. objects
  /\ groupOf \in [GroupNames -> 0 .. objects]
  /\ TableAlive

\* No entry is stored under an empty id.
EntriesInv ==
  /\ entries \in [GroupObjects -> SUBSET Entry]
  /\ \A o \in GroupObjects : \A e \in entries[o] : e.id # NoName

\* What the maps of the groups in the table hold, and that it is what callers were told.
Stored(t) == \E g \in GroupNames : groupOf[g] # Absent /\ \E e \in entries[groupOf[g]] : t = <<g, e>>
ToldInv == ~selfRead => \A t : t \in told <=> Stored(t)

StoreInv == TableInv /\ EntriesInv /\ ToldInv

LEMMA StoreInitInv == StoreInit => StoreInv
BY StoreAssumption DEF StoreInit, StoreInv, TableInv, TableAlive, Present, EntriesInv, ToldInv,
   Stored, Absent

LEMMA ToldIsAnswersTrue == StoreInv => StoreTruthful
<1> SUFFICES ASSUME StoreInv, ~selfRead PROVE told = UNION {{g} \X Of(g) : g \in Present}
  BY DEF StoreInv, TableInv, StoreTruthful, AnswersTrue
<1>1. \A t : t \in UNION {{g} \X Of(g) : g \in Present} <=> Stored(t)
  BY DEF Stored, Present, Of
<1> QED BY <1>1 DEF StoreInv, ToldInv

\* A group in the table has entries, with ids.
LEMMA OfIs ==
  ASSUME StoreInv, NEW g \in GroupNames, groupOf[g] # Absent
  PROVE  /\ groupOf[g] \in 1 .. objects /\ groupOf[g] \in GroupObjects
         /\ Of(g) \subseteq Entry /\ \A e \in Of(g) : e.id # NoName
<1>1. groupOf[g] \in 1 .. objects /\ groupOf[g] \in GroupObjects
  BY StoreAssumption DEF StoreInv, TableInv, Absent, GroupObjects
<1> QED BY <1>1 DEF StoreInv, EntriesInv, Of

\* Of the told pairs, those of other groups are what is stored of other groups.
OfOthers(t, g) == t \in told /\ t[1] # g

\* A change to the maps of one group, of which the caller is told.
LEMMA StoreKeeps ==
  ASSUME StoreInv, NEW g \in GroupNames, groupOf[g] # Absent,
         NEW set \in SUBSET Entry, \A e \in set : e.id # NoName,
         NEW believed, Store(g, set, believed),
         ~selfRead => \A t : t \in believed <=> OfOthers(t, g) \/ \E e \in set : t = <<g, e>>
  PROVE  StoreInv'
<1>1. /\ entries' = [entries EXCEPT ![groupOf[g]] = set] /\ told' = believed
      /\ UNCHANGED <<groupOf, objects, freed, selfRead>>
  BY DEF Store, groupVars
<1>2. TableInv'
  BY <1>1 DEF StoreInv, TableInv, TableAlive, Present
<1>3. groupOf[g] \in GroupObjects
  BY OfIs
<1>4. EntriesInv'
  BY <1>1, <1>3 DEF StoreInv, EntriesInv
<1>5. \A h \in GroupNames : groupOf[h] # Absent =>
        entries'[groupOf[h]] = IF h = g THEN set ELSE entries[groupOf[h]]
  <2>1. SUFFICES ASSUME NEW h \in GroupNames, groupOf[h] # Absent
                 PROVE  entries'[groupOf[h]] = IF h = g THEN set ELSE entries[groupOf[h]]
    OBVIOUS
  <2>2. groupOf[h] \in GroupObjects
    BY <2>1, OfIs
  <2>3. h # g => groupOf[h] # groupOf[g]
    BY <2>1 DEF StoreInv, TableInv, TableAlive, Present
  <2> QED BY <1>1, <1>3, <2>2, <2>3 DEF StoreInv, EntriesInv
<1>6. ASSUME ~selfRead', NEW t PROVE t \in told' <=> Stored(t)'
  <2>1. OfOthers(t, g) <=> \E h \in GroupNames \ {g} :
          groupOf[h] # Absent /\ \E e \in entries[groupOf[h]] : t = <<h, e>>
    BY <1>1, <1>6 DEF OfOthers, StoreInv, ToldInv, Stored
  <2>2. Stored(t)' <=> \/ \E e \in set : t = <<g, e>>
                       \/ \E h \in GroupNames \ {g} :
                            groupOf[h] # Absent /\ \E e \in entries[groupOf[h]] : t = <<h, e>>
    BY <1>1, <1>5 DEF Stored
  <2> QED BY <1>1, <1>6, <2>1, <2>2
<1> QED BY <1>2, <1>4, <1>6 DEF StoreInv, ToldInv

\* What was told of one group, and what of the others.
LEMMA ToldOthers ==
  ASSUME StoreInv, ~selfRead, NEW g \in GroupNames, groupOf[g] # Absent,
         NEW e \in Entry
  PROVE  /\ \A t : t \in Forgotten(g, e) <=>
                     OfOthers(t, g) \/ \E d \in Without(Of(g), e) : t = <<g, d>>
         /\ \A t : t \in told <=> OfOthers(t, g) \/ \E d \in Of(g) : t = <<g, d>>
<1>1. \A t : t \in told <=> Stored(t)
  BY DEF StoreInv, ToldInv
<1>2. \A t : t \in told /\ t[1] = g <=> \E d \in Of(g) : t = <<g, d>>
  BY <1>1 DEF Stored, Of
<1>3. \A t : t \in told <=> OfOthers(t, g) \/ \E d \in Of(g) : t = <<g, d>>
  BY <1>2 DEF OfOthers
<1>4. ASSUME NEW t
      PROVE  t \in Forgotten(g, e) <=> OfOthers(t, g) \/ \E d \in Without(Of(g), e) : t = <<g, d>>
  BY <1>3 DEF Forgotten, OfOthers, Without
<1> QED BY <1>3, <1>4

\* What the caller learns or unlearns is what the maps gain or lose.
LEMMA Learned ==
  ASSUME StoreInv, NEW g \in GroupNames, groupOf[g] # Absent, NEW e \in Entry,
         NEW set \in SUBSET Entry, \A d \in set : d.id # NoName, NEW believed,
         \/ set = Of(g) /\ believed = told
         \/ set = Without(Of(g), e) \union {e} /\ believed = Forgotten(g, e) \union {<<g, e>>}
         \/ set = Without(Of(g), e) /\ believed = Forgotten(g, e),
         Store(g, set, believed)
  PROVE  StoreInv'
<1>1. ASSUME ~selfRead, NEW t
      PROVE  t \in believed <=> OfOthers(t, g) \/ \E d \in set : t = <<g, d>>
  BY <1>1, ToldOthers
<1> QED BY <1>1, StoreKeeps

\* What is left of a map without an entry.
LEMMA SetsAre ==
  ASSUME StoreInv, NEW g \in GroupNames, groupOf[g] # Absent, NEW e \in Entry
  PROVE  /\ Without(Of(g), e) \subseteq Of(g)
         /\ ~Has(Of(g), e) => Without(Of(g), e) = Of(g) /\ e \notin Of(g)
         /\ Has(Of(g), e) => e.id # NoName
<1>1. \A d \in Of(g) : d.id # NoName
  BY OfIs
<1> QED BY <1>1 DEF Without, Has, Same

\* AddProcessConfig, RemoveProcessConfig and UpdateProcessConfig.
LEMMA ProcessKeeps ==
  ASSUME StoreInv, NEW g \in GroupNames, NEW e \in Entry, NEW orAdd \in BOOLEAN,
         AddProcessConfig(g, e) \/ RemoveProcessConfig(g, e) \/ UpdateProcessConfig(g, e, orAdd)
  PROVE  StoreInv'
<1>1. groupOf[g] # Absent /\ e.kind = "process"
  BY DEF AddProcessConfig, RemoveProcessConfig, UpdateProcessConfig
<1>2. /\ Without(Of(g), e) \subseteq Of(g)
      /\ ~Has(Of(g), e) => Without(Of(g), e) = Of(g) /\ e \notin Of(g)
      /\ Has(Of(g), e) => e.id # NoName
      /\ Of(g) \subseteq Entry /\ \A d \in Of(g) : d.id # NoName
  BY <1>1, SetsAre, OfIs
<1>3. PICK set, believed :
        /\ Store(g, set, believed)
        /\ \/ set = Of(g) /\ believed = told
           \/ e.id # NoName /\ set = Without(Of(g), e) \union {e}
              /\ believed = Forgotten(g, e) \union {<<g, e>>}
           \/ set = Without(Of(g), e) /\ believed = Forgotten(g, e)
  <2>1. CASE AddProcessConfig(g, e)
    <3>1. CASE Has(Of(g), e)
      BY <2>1, <3>1 DEF AddProcessConfig, Learn
    <3>2. CASE ~Has(Of(g), e) /\ e.id = NoName
      BY <2>1, <3>2 DEF AddProcessConfig, Learn, MapAdd
    <3>3. CASE ~Has(Of(g), e) /\ e.id # NoName
      <4>1. MapAdd(Of(g), e) = Without(Of(g), e) \union {e}
        BY <1>1, <1>2, <3>3 DEF MapAdd
      <4> QED BY <2>1, <3>3, <4>1 DEF AddProcessConfig, Learn
    <3> QED BY <3>1, <3>2, <3>3
  <2>2. CASE RemoveProcessConfig(g, e)
    <3>1. CASE Has(Of(g), e)
      BY <1>2, <2>2, <3>1 DEF RemoveProcessConfig, Unlearn, MapRemove
    <3>2. CASE ~Has(Of(g), e)
      BY <2>2, <3>2 DEF RemoveProcessConfig, Unlearn
    <3> QED BY <3>1, <3>2
  <2>3. CASE UpdateProcessConfig(g, e, orAdd)
    <3>1. CASE Has(Of(g), e)
      BY <1>2, <2>3, <3>1 DEF UpdateProcessConfig, Learn, MapUpdate
    <3>2. CASE ~Has(Of(g), e) /\ orAdd /\ e.id # NoName
      <4>1. MapAdd(Of(g), e) = Without(Of(g), e) \union {e}
        BY <1>1, <1>2, <3>2 DEF MapAdd
      <4> QED BY <2>3, <3>2, <4>1 DEF UpdateProcessConfig, Learn
    <3>3. CASE ~Has(Of(g), e) /\ (~orAdd \/ e.id = NoName)
      BY <2>3, <3>3 DEF UpdateProcessConfig, Learn, MapAdd
    <3> QED BY <3>1, <3>2, <3>3
  <2> QED BY <2>1, <2>2, <2>3
<1>4. set \in SUBSET Entry /\ \A d \in set : d.id # NoName
  BY <1>2, <1>3
<1> QED BY <1>1, <1>3, <1>4, Learned

\* The same operations for the shared memory of a group.
LEMMA ShmKeeps ==
  ASSUME StoreInv, NEW g \in GroupNames, NEW e \in Entry, NEW orAdd \in BOOLEAN,
         ShmOperation(g, e, orAdd)
  PROVE  StoreInv'
<1>1. groupOf[g] # Absent
  BY DEF ShmOperation
<1>2. /\ Without(Of(g), e) \subseteq Of(g)
      /\ ~Has(Of(g), e) => Without(Of(g), e) = Of(g) /\ e \notin Of(g)
      /\ Has(Of(g), e) => e.id # NoName
      /\ Of(g) \subseteq Entry /\ \A d \in Of(g) : d.id # NoName
  BY <1>1, SetsAre, OfIs
<1>3. PICK set, believed :
        /\ Store(g, set, believed)
        /\ \/ set = Of(g) /\ believed = told
           \/ e.id # NoName /\ set = Without(Of(g), e) \union {e}
              /\ believed = Forgotten(g, e) \union {<<g, e>>}
           \/ set = Without(Of(g), e) /\ believed = Forgotten(g, e)
  <2>1. CASE Store(g, MapAdd(Of(g), e), Learn(g, e, MapAdd(Of(g), e) # Of(g)))
    <3>1. CASE MapAdd(Of(g), e) = Of(g)
      BY <2>1, <3>1 DEF Learn
    <3>2. CASE MapAdd(Of(g), e) # Of(g)
      <4>1. e.id # NoName /\ MapAdd(Of(g), e) = Without(Of(g), e) \union {e}
        BY <1>2, <3>2 DEF MapAdd
      <4> QED BY <2>1, <3>2, <4>1 DEF Learn
    <3> QED BY <3>1, <3>2
  <2>2. CASE Store(g, MapRemove(Of(g), e), Unlearn(g, e, Has(Of(g), e)))
    <3>1. CASE Has(Of(g), e)
      BY <1>2, <2>2, <3>1 DEF Unlearn, MapRemove
    <3>2. CASE ~Has(Of(g), e)
      BY <1>2, <2>2, <3>2 DEF Unlearn, MapRemove
    <3> QED BY <3>1, <3>2
  <2>3. CASE Store(g, MapUpdate(Of(g), e, orAdd), Learn(g, e, Has(Of(g), e) \/ orAdd))
    BY <2>3 DEF Learn, MapUpdate
  <2> QED BY <2>1, <2>2, <2>3 DEF ShmOperation
<1>4. set \in SUBSET Entry /\ \A d \in set : d.id # NoName
  BY <1>2, <1>3
<1> QED BY <1>1, <1>3, <1>4, Learned

\* What the caller fills a group with before he adds it.
LEMMA PreparedSets ==
  ASSUME NEW set \in Prepared
  PROVE  set \subseteq Entry /\ \A e \in set : e.id # NoName
<1> DEFINE Fit(s) == s \subseteq Entry /\ \A e \in s : e.id # NoName
<1>1. ASSUME NEW s, Fit(s), NEW e \in Entry PROVE Fit(MapAdd(s, e))
  BY <1>1 DEF MapAdd
<1>2. PICK p \in Entry, s \in Entry : set = MapAdd(MapAdd({}, p), s)
  BY DEF Prepared
<1>3. Fit({})
  OBVIOUS
<1>h. HIDE DEF Fit
<1>4. Fit(MapAdd({}, p))
  BY <1>1, <1>3
<1>5. Fit(set)
  BY <1>1, <1>2, <1>4
<1> QED BY <1>5 DEF Fit

\* A new object for the group takes the place of its old one.
LEMMA NewObjectKeeps ==
  ASSUME StoreInv, NEW g \in GroupNames, NEW set \in SUBSET Entry, \A e \in set : e.id # NoName,
         NewObject(g, set), freed' = freed \union ({groupOf[g]} \ {Absent}),
         ~selfRead' => ~selfRead /\ \A t : t \in told' <=> OfOthers(t, g) \/ \E e \in set : t = <<g, e>>
  PROVE  StoreInv'
<1>1. /\ objects < MaxGroups /\ objects' = objects + 1
      /\ groupOf' = [groupOf EXCEPT ![g] = objects + 1]
      /\ entries' = [o \in GroupObjects |->
                       IF o = objects + 1 THEN set ELSE IF o = groupOf[g] THEN {} ELSE entries[o]]
  BY DEF NewObject
<1>2. /\ objects \in Nat /\ MaxGroups \in Nat /\ objects + 1 \in GroupObjects
      /\ groupOf \in [GroupNames -> 0 .. objects] /\ freed \subseteq 1 .. objects
  BY <1>1, StoreAssumption DEF StoreInv, TableInv, GroupObjects
<1>3. /\ groupOf'[g] = objects + 1
      /\ \A h \in GroupNames : h # g => groupOf'[h] = groupOf[h]
  BY <1>1, <1>2
<1>4. TableInv'
  <2>1. objects' \in 0 .. MaxGroups /\ groupOf' \in [GroupNames -> 0 .. objects']
    BY <1>1, <1>2
  <2>2. freed' \subseteq 1 .. objects /\ freed' \subseteq 1 .. objects'
    <3>1. groupOf[g] \in 0 .. objects
      BY <1>2
    <3>2. {groupOf[g]} \ {Absent} \subseteq 1 .. objects
      BY <1>2, <3>1 DEF Absent
    <3>3. 1 .. objects \subseteq 1 .. objects + 1
      BY <1>2
    <3> QED BY <1>1, <1>2, <3>2, <3>3
  <2>3. TableAlive'
    <3>1. SUFFICES ASSUME NEW h \in GroupNames, NEW k \in GroupNames,
                          groupOf'[h] # Absent, groupOf'[k] # Absent
                   PROVE  groupOf'[h] \notin freed' /\ (groupOf'[h] = groupOf'[k] => h = k)
      BY DEF TableAlive, Present
    <3>2. CASE h = g
      BY <1>2, <1>3, <2>2, <3>2
    <3>3. CASE h # g
      <4>1. groupOf'[h] = groupOf[h] /\ groupOf[h] \in 0 .. objects /\ groupOf[h] # Absent
        BY <1>2, <1>3, <3>1, <3>3
      <4>2. groupOf[h] \notin freed
            /\ \A m \in GroupNames : groupOf[m] # Absent /\ groupOf[h] = groupOf[m] => h = m
        BY <4>1 DEF StoreInv, TableInv, TableAlive, Present
      <4>3. groupOf[h] \notin freed'
        BY <3>3, <4>1, <4>2
      <4>4. groupOf'[h] = groupOf'[k] => h = k
        BY <1>2, <1>3, <3>1, <4>1, <4>2
      <4> QED BY <4>1, <4>3, <4>4
    <3> QED BY <3>2, <3>3
  <2> QED BY <2>1, <2>2, <2>3 DEF TableInv
<1>5. EntriesInv'
  BY <1>1 DEF StoreInv, EntriesInv
<1>6. \A h \in GroupNames : groupOf'[h] # Absent =>
        entries'[groupOf'[h]] = IF h = g THEN set ELSE entries[groupOf[h]]
  <2>1. SUFFICES ASSUME NEW h \in GroupNames, groupOf'[h] # Absent
                 PROVE  entries'[groupOf'[h]] = IF h = g THEN set ELSE entries[groupOf[h]]
    OBVIOUS
  <2>2. CASE h = g
    BY <1>1, <1>2, <1>3, <2>2
  <2>3. CASE h # g
    <3>1. groupOf'[h] = groupOf[h] /\ groupOf[h] # Absent
      BY <1>3, <2>1, <2>3
    <3>2. groupOf[h] \in 1 .. objects /\ groupOf[h] \in GroupObjects
      BY <3>1, OfIs
    <3>3. groupOf[h] # groupOf[g] /\ groupOf[h] # objects + 1
      BY <1>2, <2>3, <3>1, <3>2 DEF StoreInv, TableInv, TableAlive, Present
    <3> QED BY <1>1, <2>3, <3>1, <3>2, <3>3
  <2> QED BY <2>2, <2>3
<1>7. ASSUME ~selfRead', NEW t PROVE t \in told' <=> Stored(t)'
  <2>1. OfOthers(t, g) <=> \E h \in GroupNames \ {g} :
          groupOf[h] # Absent /\ \E e \in entries[groupOf[h]] : t = <<h, e>>
    BY <1>7 DEF OfOthers, StoreInv, ToldInv, Stored
  <2>2. groupOf'[g] # Absent
    BY <1>2, <1>3 DEF Absent
  <2>3. Stored(t)' <=> \/ \E e \in set : t = <<g, e>>
                       \/ \E h \in GroupNames \ {g} :
                            groupOf[h] # Absent /\ \E e \in entries[groupOf[h]] : t = <<h, e>>
    BY <1>3, <1>6, <2>2 DEF Stored
  <2> QED BY <1>7, <2>1, <2>3
<1> QED BY <1>4, <1>5, <1>7 DEF StoreInv, ToldInv

\* The operations on a whole group that leave it in the table.
LEMMA GroupKeeps ==
  ASSUME StoreInv, NEW g \in GroupNames,
         \/ \E set \in Prepared : \/ AddStoredGroup(g, set)
                                  \/ \E orAdd \in BOOLEAN : UpdateGroup(g, set, orAdd)
         \/ UpdateGroupWithItself(g)
  PROVE  StoreInv'
<1>1. ~selfRead => \A t : t \in told \ ToldOfGroup(g) <=> OfOthers(t, g)
  BY DEF ToldOfGroup, OfOthers
<1>2. ASSUME NEW set \in Prepared, AddStoredGroup(g, set) PROVE StoreInv'
  <2>1. /\ groupOf[g] = Absent /\ NewObject(g, set)
        /\ told' = told \union {<<g, e>> : e \in set} /\ freed' = freed /\ selfRead' = selfRead
    BY <1>2 DEF AddStoredGroup
  <2>2. freed' = freed \union ({groupOf[g]} \ {Absent})
    BY <2>1
  <2>3. ~selfRead => \A t \in told : t[1] # g
    BY <2>1 DEF StoreInv, ToldInv, Stored
  <2>4. ASSUME ~selfRead, NEW t
        PROVE  t \in told' <=> OfOthers(t, g) \/ \E e \in set : t = <<g, e>>
    BY <2>1, <2>3, <2>4 DEF OfOthers
  <2> QED BY <2>1, <2>2, <2>4, PreparedSets, NewObjectKeeps
<1>3. ASSUME NEW set \in Prepared, NEW orAdd \in BOOLEAN, UpdateGroup(g, set, orAdd) PROVE StoreInv'
  <2> DEFINE c == CopiedMaps(set)
  <2>1. /\ NewObject(g, c)
        /\ told' = (told \ ToldOfGroup(g)) \union {<<g, e>> : e \in c}
        /\ freed' = freed \union ({groupOf[g]} \ {Absent}) /\ selfRead' = selfRead
    BY <1>3 DEF UpdateGroup
  <2>2. c \in SUBSET Entry /\ \A e \in c : e.id # NoName
    BY PreparedSets DEF CopiedMaps
  <2> HIDE DEF c
  <2>3. ASSUME ~selfRead, NEW t
        PROVE  t \in told' <=> OfOthers(t, g) \/ \E e \in c : t = <<g, e>>
    BY <1>1, <2>1, <2>3
  <2> QED BY <2>1, <2>2, <2>3, NewObjectKeeps
<1>4. ASSUME UpdateGroupWithItself(g) PROVE StoreInv'
  <2>1. PICK set \in SUBSET CopiedMaps(Of(g)) : NewObject(g, set)
    BY <1>4 DEF UpdateGroupWithItself
  <2>2. groupOf[g] # Absent /\ freed' = freed \union {groupOf[g]} /\ selfRead' = TRUE
    BY <1>4 DEF UpdateGroupWithItself
  <2>3. set \in SUBSET Entry /\ \A e \in set : e.id # NoName
    BY <2>2, OfIs DEF CopiedMaps
  <2>4. freed' = freed \union ({groupOf[g]} \ {Absent})
    BY <2>2
  <2> QED BY <2>1, <2>2, <2>3, <2>4, NewObjectKeeps
<1> QED BY <1>2, <1>3, <1>4

\* A group that leaves the table.
LEMMA RemoveGroupKeeps ==
  ASSUME StoreInv, NEW g \in GroupNames, RemoveGroup(g)
  PROVE  StoreInv'
<1>1. /\ groupOf[g] # Absent /\ groupOf' = [groupOf EXCEPT ![g] = Absent]
      /\ freed' = freed \union {groupOf[g]}
      /\ entries' = [entries EXCEPT ![groupOf[g]] = {}]
      /\ told' = told \ ToldOfGroup(g) /\ objects' = objects /\ selfRead' = selfRead
  BY DEF RemoveGroup
<1>2. groupOf[g] \in 1 .. objects /\ groupOf[g] \in GroupObjects
  BY <1>1, OfIs
<1>3. groupOf'[g] = Absent /\ \A h \in GroupNames : h # g => groupOf'[h] = groupOf[h]
  BY <1>1 DEF StoreInv, TableInv
<1>4. TableInv'
  <2>1. /\ objects' \in 0 .. MaxGroups /\ freed' \subseteq 1 .. objects'
        /\ groupOf' \in [GroupNames -> 0 .. objects']
    <3>1. objects \in 0 .. MaxGroups /\ freed \subseteq 1 .. objects
          /\ groupOf \in [GroupNames -> 0 .. objects] /\ MaxGroups \in Nat
      BY StoreAssumption DEF StoreInv, TableInv
    <3>2. 0 \in 0 .. objects
      BY <3>1
    <3> QED BY <1>1, <1>2, <3>1, <3>2 DEF Absent
  <2>2. TableAlive'
    BY <1>1, <1>3 DEF StoreInv, TableInv, TableAlive, Present
  <2> QED BY <2>1, <2>2 DEF TableInv
<1>5. EntriesInv'
  BY <1>1, <1>2 DEF StoreInv, EntriesInv
<1>6. \A h \in GroupNames : groupOf'[h] # Absent =>
        h # g /\ groupOf[h] # Absent /\ entries'[groupOf'[h]] = entries[groupOf[h]]
  <2>1. SUFFICES ASSUME NEW h \in GroupNames, groupOf'[h] # Absent
                 PROVE  h # g /\ groupOf[h] # Absent /\ entries'[groupOf'[h]] = entries[groupOf[h]]
    OBVIOUS
  <2>2. h # g /\ groupOf'[h] = groupOf[h] /\ groupOf[h] # Absent
    BY <1>3, <2>1
  <2>3. groupOf[h] \in GroupObjects /\ groupOf[h] # groupOf[g]
    BY <1>1, <2>2, OfIs DEF StoreInv, TableInv, TableAlive, Present
  <2> QED BY <1>1, <1>2, <2>2, <2>3 DEF StoreInv, EntriesInv
<1>7. ASSUME ~selfRead', NEW t PROVE t \in told' <=> Stored(t)'
  <2>1. t \in told' <=> \E h \in GroupNames \ {g} :
          groupOf[h] # Absent /\ \E e \in entries[groupOf[h]] : t = <<h, e>>
    BY <1>1, <1>7 DEF ToldOfGroup, StoreInv, ToldInv, Stored
  <2>2. Stored(t)' <=> \E h \in GroupNames \ {g} :
          groupOf[h] # Absent /\ \E e \in entries[groupOf[h]] : t = <<h, e>>
    BY <1>3, <1>6 DEF Stored
  <2> QED BY <2>1, <2>2
<1> QED BY <1>4, <1>5, <1>7 DEF StoreInv, ToldInv

LEMMA StoreStep == StoreInv /\ [StoreNext]_storeVars => StoreInv'
<1> SUFFICES ASSUME StoreInv, [StoreNext]_storeVars PROVE StoreInv'
  OBVIOUS
<1>1. CASE UNCHANGED storeVars
  BY <1>1 DEF storeVars, StoreInv, TableInv, TableAlive, Present, EntriesInv, ToldInv, Stored
<1>2. ASSUME NEW g \in GroupNames, NEW e \in Entry, AddProcessConfig(g, e) \/ RemoveProcessConfig(g, e)
      PROVE  StoreInv'
  <2>1. TRUE \in BOOLEAN
    OBVIOUS
  <2> QED BY <1>2, <2>1, ProcessKeeps
<1>3. ASSUME NEW g \in GroupNames, NEW e \in Entry, NEW orAdd \in BOOLEAN,
             UpdateProcessConfig(g, e, orAdd) \/ ShmOperation(g, e, orAdd)
      PROVE  StoreInv'
  BY <1>3, ProcessKeeps, ShmKeeps
<1>4. ASSUME NEW g \in GroupNames, NEW set \in Prepared,
             AddStoredGroup(g, set) \/ \E orAdd \in BOOLEAN : UpdateGroup(g, set, orAdd)
      PROVE  StoreInv'
  BY <1>4, GroupKeeps
<1>5. ASSUME NEW g \in GroupNames, RemoveGroup(g) \/ UpdateGroupWithItself(g) PROVE StoreInv'
  BY <1>5, GroupKeeps, RemoveGroupKeeps
<1> QED BY <1>1, <1>2, <1>3, <1>4, <1>5 DEF StoreNext

\* ProcessConfigStoreManager, ProcessConfigurationStore and ProcessGroup: what a caller has
\* been told is what is stored, and the table leads to no deleted group, for any groups,
\* entries and series of operations.
THEOREM StoreStaysTruthful == StoreSpec => []StoreTruthful
BY StoreInitInv, StoreStep, ToldIsAnswersTrue, PTL DEF StoreSpec
=============================================================================
