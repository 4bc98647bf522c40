----------------------------- MODULE ConfigStore -----------------------------
(***************************************************************************)
(* The configuration of processes: what ProcessConfigurationParser         *)
(* (server/xmlconfig_parser.cpp) makes of the file it is given, how it     *)
(* fills ProcessConfigurationStore, and what ProcessConfigStoreManager     *)
(* (server/config_manager.cpp) hands out of it.                            *)
(*                                                                         *)
(* A reload does not take ProcConfigLock.  While it runs, and ever after,  *)
(* the instances that were started keep a ProcessInfo whose GroupId points *)
(* into the store, and the poll thread follows that pointer to find        *)
(* dependencies.  The file may be edited between any two loads.            *)
(***************************************************************************)
EXTENDS Naturals, Sequences

CONSTANTS
  GroupIds, ProcIds,
  NoId,       \* an empty or missing id attribute
  Words,      \* paths, arguments and environment strings
  NoPath,     \* an empty or missing path attribute
  RootPath,   \* Utils::ResolveRootPath: the home directory in front of a path
  Others,     \* the rest of a definition: name, delay, limit
  NoDef, NoGroup,
  Files,      \* the contents the configuration file may have
  MaxLoads    \* bound: how often the file is loaded

GIds == GroupIds \union {NoId}

FlagNames ==
  {"IsSystemCommand", "IsKillMultiple", "IsRestartAll", "IsMonitor", "IsSharedProcess"}
DefaultFlags == {"IsSystemCommand", "IsKillMultiple"}

\* depends: the ids in its Process dependencies.  A shared-memory dependency starts
\* nothing.  Of its Arg and Env nodes those that are not ignored and have a value.  There
\* are at most MAX_ARG_COUNT - 2 of them, the path included: with more, addArg, addEnv
\* and the copy of an entry leave their arrays (ProcessVariables.tla).
ProcNode ==
  [ignore : BOOLEAN, id : ProcIds \union {NoId}, enable : BOOLEAN, path : Words \union {NoPath},
   flags : Seq([name : STRING, value : BOOLEAN]), args : Seq(Words), envs : Seq(Words),
   depends : SUBSET ProcIds, other : Others]

\* The ProcessInfo objects there are when a node has been parsed.  All of them are
\* copies, and a copy has no environment, see Copy.
ProcDef ==
  [enable : BOOLEAN, flags : SUBSET FlagNames, path : Words,
   args : Seq(Words), envs : {<<>>}, depends : SUBSET ProcIds, other : Others]
GroupNode == [ignore : BOOLEAN, id : GIds, hasShm : BOOLEAN, procs : Seq(ProcNode)]

\* A file that cannot be parsed, or lacks the root or the Groups node, has no
\* group nodes.
File == [status : {"ok"}, groups : Seq(GroupNode)]
          \union [status : {"unreadable", "noRoot", "noGroups"}, groups : {<<>>}]

\* A ProcessGroup object: born tells it from another one with the same id.
ProcessGroup == [born : Nat, procs : [ProcIds -> ProcDef \union {NoDef}]]

ASSUME IdsAssumption == NoId \notin GroupIds \union ProcIds
ASSUME PathsAssumption == NoPath \notin Words /\ RootPath \in [Words -> Words]
ASSUME AbsentAssumption == NoDef \notin ProcDef /\ NoGroup \notin ProcessGroup
ASSUME FilesAssumption == Files \subseteq File
ASSUME MaxLoadsAssumption == MaxLoads \in Nat

VARIABLES
  phase,      \* of main: loading the file at "boot", "serve", "stopped"
  parsing,    \* a load is under way
  loads,      \* the files loaded so far, the one being parsed last
  read,       \* how many group nodes of that file have been parsed
  hasGroup, hasProcess,  \* the locals of _ParseGroups
  error,      \* the _err of the load
  store,      \* ProcessConfigurationStore, NoGroup where an id has no group
  loaded,     \* ProcessConfigStoreManager::Loaded
  held        \* the ProcessInfo copies that processes were started with, asked for by
              \* a command or as dependencies of others

loadVars == <<parsing, loads, read, hasGroup, hasProcess, error>>
vars == <<phase, parsing, loads, read, hasGroup, hasProcess, error, store, loaded, held>>

Init ==
  /\ phase = "boot" /\ parsing = FALSE /\ loads = <<>> /\ read = 0
  /\ hasGroup = FALSE /\ hasProcess = FALSE /\ error = "SUCCESS"
  /\ store = [g \in GIds |-> NoGroup]
  /\ loaded = FALSE
  /\ held = {}

-----------------------------------------------------------------------------
(* What a node of the file means.                                          *)

\* _ParseProcess accepts a node with an id and a path.
Accepted(n) == ~n.ignore /\ n.id # NoId /\ n.path # NoPath

\* The flags that are set: of several nodes for one flag the last counts, and
\* nodes with another name are skipped.
ParseFlags(n) ==
  {f \in FlagNames :
     LET given == {i \in DOMAIN n.flags : n.flags[i].name = f} IN
     IF given = {} THEN f \in DefaultFlags
     ELSE \E i \in given : n.flags[i].value /\ \A j \in given : j <= i}

ParseVariables(n, path) == [args |-> <<path>> \o n.args, envs |-> n.envs]

\* The path is the first argument.
ParseProcess(n) ==
  LET flags == ParseFlags(n)
      path == IF "IsSystemCommand" \in flags THEN n.path ELSE RootPath[n.path]
  IN  [enable |-> n.enable, flags |-> flags, path |-> path,
       args |-> ParseVariables(n, path).args, envs |-> ParseVariables(n, path).envs,
       depends |-> n.depends, other |-> n.other]

\* Mutant of Copy: the environment stays where it was, too.
CopyKeepsEnvs(d) == [d EXCEPT !.args = d.args \o d.envs]

\* What the copy constructors and the assignments make of a definition:
\* ProcessVariables adds the environment to the arguments.
Copy(d) == [d EXCEPT !.args = d.args \o d.envs, !.envs = <<>>]

AcceptedAs(n, p) == {i \in DOMAIN n.procs : Accepted(n.procs[i]) /\ n.procs[i].id = p}

\* ProcessGroup::add keeps the first process of an id, and a copy of it.  A group
\* without an id is left before its processes are read.
NewGroup(n, load) ==
  [born |-> load,
   procs |-> [p \in ProcIds |->
     IF n.id = NoId \/ AcceptedAs(n, p) = {} THEN NoDef
     ELSE Copy(ParseProcess(
            n.procs[CHOOSE i \in AcceptedAs(n, p) : \A j \in AcceptedAs(n, p) : i <= j]))]]

\* What _ParseGroup returns: the group has an id and a valid process or segment.
GroupParsed(n) ==
  n.id # NoId /\ (n.hasShm \/ \E i \in DOMAIN n.procs : Accepted(n.procs[i]))

StatusError(f) ==
  CASE f.status = "unreadable" -> "INVALID_CONFIG_FILE"
    [] f.status = "noRoot" -> "ROOT_NOT_FOUND"
    [] f.status = "noGroups" -> "GROUPS_NOT_FOUND"
    [] OTHER -> "SUCCESS"

-----------------------------------------------------------------------------
(* Loading: main before it serves, and the command config -reload.         *)

CurrentGroups == loads[Len(loads)].groups

\* ReloadConfiguration, as far as the nodes above the groups.  _clear is FALSE.
BeginLoad(f) ==
  /\ phase # "stopped" /\ ~parsing /\ Len(loads) < MaxLoads
  /\ phase = "boot" => loads = <<>>
  /\ parsing' = TRUE /\ loads' = Append(loads, f) /\ read' = 0
  /\ hasGroup' = FALSE /\ hasProcess' = FALSE
  /\ error' = StatusError(f)
  /\ UNCHANGED <<phase, store, loaded, held>>

\* Mutant of AddGroup: a group that exists is replaced.
AddGroupReplaces(n) == store' = [store EXCEPT ![n.id] = NewGroup(n, Len(loads))]

\* Mutant of AddGroup: the processes a group does not have are added to it.
AddGroupMerges(n) ==
  store' = [store EXCEPT ![n.id] =
              IF @ = NoGroup THEN NewGroup(n, Len(loads))
              ELSE [@ EXCEPT !.procs =
                      [p \in ProcIds |-> IF @[p] = NoDef THEN NewGroup(n, Len(loads)).procs[p]
                                         ELSE @[p]]]]

\* ProcessConfigurationStore::add.
AddGroup(n) ==
  store' = IF store[n.id] = NoGroup
           THEN [store EXCEPT ![n.id] = NewGroup(n, Len(loads))]
           ELSE store

\* One round of the loop in _ParseGroups.
ParseGroup ==
  /\ parsing /\ read < Len(CurrentGroups)
  /\ read' = read + 1
  /\ LET n == CurrentGroups[read + 1]
     IN  IF n.ignore THEN UNCHANGED <<hasGroup, hasProcess, store>>
         ELSE /\ hasGroup' = TRUE
              /\ hasProcess' = (hasProcess \/ GroupParsed(n))
              /\ AddGroup(n)
  /\ UNCHANGED <<phase, parsing, loads, error, loaded, held>>

ParseError ==
  CASE error # "SUCCESS" -> error
    [] ~hasGroup -> "GROUPS_NOT_FOUND"
    [] ~hasProcess -> "PROCESS_NOT_FOUND"
    [] OTHER -> "SUCCESS"

\* Mutant of EndLoad: Loaded is only ever set.
EndLoadKeepsLoaded ==
  /\ parsing /\ read = Len(CurrentGroups)
  /\ parsing' = FALSE
  /\ error' = ParseError
  /\ loaded' = (loaded \/ error' = "SUCCESS")
  /\ phase' = IF phase = "boot" /\ ~loaded' THEN "stopped" ELSE "serve"
  /\ UNCHANGED <<loads, read, hasGroup, hasProcess, store, held>>

\* _Load stores the result in Loaded; main exits when its load has failed.
EndLoad ==
  /\ parsing /\ read = Len(CurrentGroups)
  /\ parsing' = FALSE
  /\ error' = ParseError
  /\ loaded' = (error' = "SUCCESS")
  /\ phase' = IF phase = "boot" /\ ~loaded' THEN "stopped" ELSE "serve"
  /\ UNCHANGED <<loads, read, hasGroup, hasProcess, store, held>>

-----------------------------------------------------------------------------
(* Lookups, by the same thread as reloads.                                 *)

\* Mutant of AllProcesses: the argument _enabled is not passed on.
AllProcessesOrDisabled(g) == {p \in ProcIds : store[g].procs[p] # NoDef}

\* ProcessGroup::getAllProcesses with _enable.
AllProcesses(g) ==
  {p \in ProcIds : store[g].procs[p] # NoDef /\ store[g].procs[p].enable}

\* A copy of the ProcessInfo that object group has for p.  The copy's GroupId points to
\* that object.
CopyOf(group, g, p, asked) ==
  [gid |-> g, pid |-> p, def |-> Copy(group.procs[p]), group |-> group, asked |-> asked]

\* GetProcessConfigById with _enabled, the error it gives.
ProcessError(g, p) ==
  CASE ~loaded -> "CONFIG_NOT_LOADED"
    [] store[g] = NoGroup -> "PGROUP_NOT_FOUND"
    [] store[g].procs[p] = NoDef -> "PINFO_NOT_FOUND"
    [] ~store[g].procs[p].enable -> "CONFIG_DISABLED"
    [] OTHER -> "SUCCESS"

-----------------------------------------------------------------------------
(* Starting processes.                                                     *)

\* VerifyRunningInstanceCount refuses a system command.
Startable(d) == d # NoDef /\ "IsSystemCommand" \notin d.flags

\* What ResolveDependency finds through GroupId of a process with definition d.
\* ProcessGroup::get does not look at Enable.
Dependencies(group, d) == {q \in d.depends : Startable(group.procs[q])}

\* Processes are started, and dependencies of theirs: how many depends on the instances
\* that run already.  A dependency's own dependencies are not resolved.
Start(group, g, copies) ==
  \E deps \in SUBSET UNION {Dependencies(group, c.def) : c \in copies} :
    held' = held \union copies \union {CopyOf(group, g, q, FALSE) : q \in deps}

\* A command on one process that ends with it started, under a copy of its info.
StartById(g, p) ==
  /\ phase = "serve" /\ ~parsing
  /\ ProcessError(g, p) = "SUCCESS"
  /\ Startable(store[g].procs[p])
  /\ Start(store[g], g, {CopyOf(store[g], g, p, TRUE)})
  /\ UNCHANGED <<phase, loadVars, store, loaded>>

\* A command on all processes of a group; some may run as often as they may.
StartAll(g) ==
  /\ phase = "serve" /\ ~parsing
  /\ loaded /\ store[g] # NoGroup
  /\ \E asked \in SUBSET {p \in AllProcesses(g) : Startable(store[g].procs[p])} :
       Start(store[g], g, {CopyOf(store[g], g, p, TRUE) : p \in asked})
  /\ UNCHANGED <<phase, loadVars, store, loaded>>

\* MonitorProcess finds an instance of c dead, at any moment of a load: the next one
\* gets a copy of what c has, and this time the dependencies of c are resolved also
\* where c is a dependency itself.
Replace(c) ==
  /\ phase = "serve"
  /\ "IsMonitor" \in c.def.flags
  /\ Start(c.group, c.gid, {[c EXCEPT !.def = Copy(c.def)]})
  /\ UNCHANGED <<phase, loadVars, store, loaded>>

-----------------------------------------------------------------------------
Next ==
  \/ \E f \in Files : BeginLoad(f)
  \/ ParseGroup \/ EndLoad
  \/ \E g \in GIds : StartAll(g) \/ \E p \in ProcIds : StartById(g, p)
  \/ \E c \in held : Replace(c)

Spec == Init /\ [][Next]_vars

-----------------------------------------------------------------------------
(* Properties.                                                             *)

Errors == {"SUCCESS", "INVALID_CONFIG_FILE", "ROOT_NOT_FOUND", "GROUPS_NOT_FOUND",
           "PROCESS_NOT_FOUND"}

ProcessCopy ==
  [gid : GIds, pid : ProcIds, def : ProcDef, group : ProcessGroup, asked : BOOLEAN]

\* Types of the load, the store and the copies.
TypeOK ==
  /\ phase \in {"boot", "serve", "stopped"} /\ parsing \in BOOLEAN
  /\ loads \in Seq(Files) /\ read \in Nat
  /\ parsing => loads # <<>> /\ read <= Len(CurrentGroups)
  /\ hasGroup \in BOOLEAN /\ hasProcess \in BOOLEAN /\ error \in Errors
  /\ store \in [GIds -> ProcessGroup \union {NoGroup}]
  /\ loaded \in BOOLEAN
  /\ held \subseteq ProcessCopy

\* The group a copy's GroupId points to is still the object in the store, with
\* the definitions it had when the copy was made: the poll thread may follow the
\* pointer at any moment of any reload, and ProcessManager may take what it looks
\* up as a constant.  That the copy equals the original, though copying moves the
\* environment to the arguments, is so because the original is a copy already:
\* restarts and replacements get the arguments of the first start.
HandedOutStays == \A c \in held : store[c.gid] = c.group /\ c.group.procs[c.pid] = c.def

\* A command starts no process that it asks for by id or with its group while the
\* definition is disabled.  Whatever else runs, disabled or not, some process of its
\* group that was started depends on it.
HandedOutEnabled ==
  \A c \in held :
    IF c.asked THEN c.def.enable
    ELSE \E d \in held : d.gid = c.gid /\ d.group = c.group /\ c.pid \in d.def.depends

\* What a running process was started with was asked for and enabled, or is needed, and
\* stays what it was whatever is loaded afterwards (GetProcessConfigById,
\* getAllProcesses, ResolveDependency, MonitorProcess, ReloadConfiguration).
HandedOutGood == HandedOutStays /\ HandedOutEnabled

\* A file with at least one group that can be used.
Useful(n) == ~n.ignore /\ GroupParsed(n)
Good(f) == \E i \in DOMAIN f.groups : Useful(f.groups[i])

\* Commands are answered exactly when the file loaded last was good, however the
\* loads before it went and whatever the store still has.
LoadedMeansGood ==
  phase = "serve" /\ ~parsing => (loaded <=> Good(loads[Len(loads)]))

NodesRead(l) == IF l = Len(loads) /\ parsing THEN read ELSE Len(loads[l].groups)

\* The i-th group node of the l-th load, parsed already, is one for group g.
Defines(l, i, g) ==
  /\ l \in DOMAIN loads /\ i \in 1..NodesRead(l)
  /\ ~loads[l].groups[i].ignore /\ loads[l].groups[i].id = g

NotAfter(l, i, m, j) == l < m \/ (l = m /\ i <= j)

\* Each group is what the first node ever parsed for its id says, complete or
\* not: neither a later file nor a later node of the same file adds to it.
StoreIsFirstDefinitions ==
  \A g \in GIds :
    IF store[g] = NoGroup
    THEN \A m \in DOMAIN loads : \A j \in 1..NodesRead(m) : ~Defines(m, j, g)
    ELSE \E l \in DOMAIN loads : \E i \in 1..NodesRead(l) :
           /\ Defines(l, i, g) /\ store[g] = NewGroup(loads[l].groups[i], l)
           /\ \A m \in DOMAIN loads : \A j \in 1..NodesRead(m) :
                Defines(m, j, g) => NotAfter(l, i, m, j)

\* What any series of loads, good and bad, comes to: Loaded is about the last of them,
\* the store about the first that defined each group (_Load, _ParseGroups, add).
StoreAsLoaded == LoadedMeansGood /\ StoreIsFirstDefinitions

-----------------------------------------------------------------------------
(* What the program says of itself and does not keep.                      *)

\* pmc help, of config -reload: "this will load any additional new
\* processes/groups(i.e. new pid/gid) added in the file".
ReloadAddsNew ==
  phase = "serve" /\ ~parsing /\ loaded =>
    \A i \in DOMAIN CurrentGroups :
      LET n == CurrentGroups[i]
      IN  ~n.ignore /\ n.id # NoId =>
            \A p \in ProcIds : AcceptedAs(n, p) # {} => store[n.id].procs[p] # NoDef

\* The error for a disabled process is "Requested configurtion is disabled.", and the
\* lookups leave disabled definitions out unless they are told not to: nothing that
\* is disabled is started.
DisabledNotStarted == \A c \in held : c.def.enable
=============================================================================
