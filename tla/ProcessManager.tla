--------------------------- MODULE ProcessManager ---------------------------
(***************************************************************************)
(* The supervisor of the server: the request thread that executes start,   *)
(* stop, restart and ping (server/command_handlers/proc_cmd_handler.cpp),  *)
(* the poll thread that replaces dead instances (common/                   *)
(* base_poll_manager.cpp), the bookkeeping both change (ProcessMonitorStore*)
(* and ProcessManager in server/proc_manager.cpp) and the child processes, *)
(* which end when they like and whose pids the kernel uses again.          *)
(*                                                                         *)
(* The two threads share ProcConfigLock, here PriorityLock: the one inside *)
(* runs a program of several steps (signals, sleeps, waitpid, fork), and   *)
(* between any two of them a child may end.                                *)
(***************************************************************************)
EXTENDS Naturals, Sequences, FiniteSets

CONSTANTS
  Procs,     \* the processes of the configuration (a ProcessInfo each)
  NoProc,
  Entries,   \* the identities ProcessMonitorStore tells apart
  Config,    \* Config[p]: the fields of p's ProcessInfo
  Pids,      \* the pids the kernel gives to children of the server
  NoPid,
  Requests,  \* what clients may ask for
  StatusWhenUnset,   \* what WIFEXITED || WIFSIGNALED may say of an unset status
  ErrorWhenUnset,    \* whether an unset RequestData::Error may read as SUCCESS
  FreedInfoMatches   \* whether a freed ProcessInfo may still match its poll task

NoRequest == [op |-> "none", procs |-> <<>>, pid |-> NoPid]

\* Entry is (GroupId, Id) for a process of its own, (Id, Path) for one that is
\* IsSharedProcess.  Dependency lists the PD_Process dependencies that exist in
\* the group; a shared-memory dependency changes no state here.
ProcessInfo ==
  [Entry : Entries, MaxAllowedInstance : Nat \ {0}, IsMonitor : BOOLEAN,
   IsKillMultiple : BOOLEAN, IsSystemCommand : BOOLEAN, Dependency : Seq(Procs)]

Request == [op : {"start", "stop", "restart", "ping"}, procs : Seq(Procs), pid : {NoPid}]
             \union [op : {"stopPid"}, procs : {<<>>}, pid : Pids]

ASSUME ConfigAssumption ==
  /\ NoProc \notin Procs
  /\ Config \in [Procs -> ProcessInfo]
ASSUME PidsAssumption ==
  /\ NoPid \notin Pids
  /\ IsFiniteSet(Pids)
ASSUME RequestsAssumption == Requests \subseteq Request
ASSUME OutcomesAssumption ==
  /\ StatusWhenUnset \subseteq BOOLEAN
  /\ ErrorWhenUnset \subseteq BOOLEAN
  /\ FreedInfoMatches \subseteq BOOLEAN

\* No process depends on itself.  The configuration parser does not check it.
NoSelfDependency ==
  \A p \in Procs : \A i \in DOMAIN Config[p].Dependency :
    Config[Config[p].Dependency[i]].Entry # Config[p].Entry

VARIABLES
  holder, waiting, admitted,  \* ProcConfigLock
  request,   \* the command the request thread serves, or NoRequest
  todo,      \* the calls it has still to make for that command
  cursor,    \* the poll loop: how many of the tasks it has taken
  loop,      \* the last loop over instances that was entered, and its process
  victims,   \* the instances of that loop's copy of the map still to come
  dying,     \* the instance StopProcess(pid) works on, or NoPid
  killed,    \* SIGKILL has been sent to it
  starting,  \* the process StartProcess works on, or NoProc
  deps,      \* the dependencies it has still to resolve
  inner,     \* the dependency whose own StartProcess runs, or NoProc
  creator,   \* per entry, the ProcessInfo it was created with, or NoProc
  inst,      \* per entry, the pids in its instance map
  tasks,     \* the poll manager's task list
  os         \* what the kernel knows of each pid as a child of the server

lockVars == <<holder, waiting, admitted>>
startVars == <<starting, deps, inner>>
stopVars == <<loop, victims, dying, killed>>
storeVars == <<creator, inst, tasks>>
vars == <<holder, waiting, admitted, request, todo, cursor, loop, victims, dying,
          killed, starting, deps, inner, creator, inst, tasks, os>>

ProcConfigLock ==
  INSTANCE PriorityLock WITH Primaries <- {"handler"}, Secondaries <- {"poller"},
                             NoOne <- "nobody"

NoLoop == [kind |-> "none", proc |-> NoProc]

Init ==
  /\ ProcConfigLock!LockInit
  /\ request = NoRequest /\ todo = <<>> /\ cursor = 0
  /\ loop = NoLoop /\ victims = {} /\ dying = NoPid /\ killed = FALSE
  /\ starting = NoProc /\ deps = <<>> /\ inner = NoProc
  /\ creator = [e \in Entries |-> NoProc]
  /\ inst = [e \in Entries |-> {}]
  /\ tasks = <<>>
  /\ os = [k \in Pids |-> "none"]

-----------------------------------------------------------------------------
(* ProcessMonitorStore and ProcessPollManager.                             *)

Entry(p) == Config[p].Entry

\* GetInstanceMapCopy and GetInstanceCount: nothing for a system command.
Instances(p) == IF Config[p].IsSystemCommand THEN {} ELSE inst[Entry(p)]

\* ProcessPollManager::remove: the first task of p, if there is one.
RemoveTask(p) ==
  \/ \E i \in DOMAIN tasks :
       /\ tasks[i] = p /\ \A j \in 1..(i - 1) : tasks[j] # p
       /\ tasks' = SubSeq(tasks, 1, i - 1) \o SubSeq(tasks, i + 1, Len(tasks))
  \/ (\A i \in DOMAIN tasks : tasks[i] # p) /\ tasks' = tasks

\* Mutant of AddInstance: every start adds a poll task.
AddInstanceTaskAlways(p, k) ==
  /\ inst' = [inst EXCEPT ![Entry(p)] = @ \union {k}]
  /\ creator' = [creator EXCEPT ![Entry(p)] = IF @ = NoProc THEN p ELSE @]
  /\ tasks' = IF Config[p].IsMonitor THEN Append(tasks, p) ELSE tasks

\* AddInstance(create): the first instance creates the entry, and its poll task
\* when the process is monitored.
AddInstance(p, k) ==
  /\ inst' = [inst EXCEPT ![Entry(p)] = @ \union {k}]
  /\ IF creator[Entry(p)] = NoProc
     THEN /\ creator' = [creator EXCEPT ![Entry(p)] = p]
          /\ tasks' = IF Config[p].IsMonitor THEN Append(tasks, p) ELSE tasks
     ELSE UNCHANGED <<creator, tasks>>

\* Mutant of RemoveInstance: the entry is found the way GetInstanceMapCopy finds
\* it, the task by Id and GroupId.
RemoveInstanceAnyCreator(p, k) ==
  /\ inst' = [inst EXCEPT ![Entry(p)] = @ \ {k}]
  /\ IF inst[Entry(p)] \subseteq {k}
     THEN creator' = [creator EXCEPT ![Entry(p)] = NoProc] /\ RemoveTask(p)
     ELSE UNCHANGED <<creator, tasks>>

\* Mutant of RemoveInstance: the last instance of an entry is not erased.
RemoveInstanceLeavesLast(p, k) ==
  /\ inst' = [inst EXCEPT ![Entry(p)] = IF @ = {k} THEN @ ELSE @ \ {k}]
  /\ UNCHANGED <<creator, tasks>>

\* RemoveInstance with removeEntry.  _RemoveMonitorInfo compares Id and GroupId
\* only, so a shared entry goes away only through the process that created it.
RemoveInstance(p, k) ==
  /\ inst' = [inst EXCEPT ![Entry(p)] = @ \ {k}]
  /\ IF inst[Entry(p)] \subseteq {k} /\ creator[Entry(p)] = p
     THEN /\ creator' = [creator EXCEPT ![Entry(p)] = NoProc]
          /\ RemoveTask(p)
     ELSE UNCHANGED <<creator, tasks>>

\* Mutant of RemoveInstanceKeepEntry: removeEntry is set.
MonitorRemovesEntry(p, k) == RemoveInstance(p, k)

\* Mutant of RemoveInstanceKeepEntry: left out, as in the handler of ping.
MonitorRemovesNothing(p, k) == UNCHANGED storeVars

\* RemoveInstance without removeEntry: the entry stays when it is empty.
RemoveInstanceKeepEntry(p, k) ==
  /\ inst' = [inst EXCEPT ![Entry(p)] = @ \ {k}]
  /\ UNCHANGED <<creator, tasks>>

\* RemoveInstanceByPid takes an entry that has the pid.  When the entry becomes
\* empty its ProcessInfo is deleted and then used to look for the poll task.
RemoveInstanceByPid(k) ==
  IF \E e \in Entries : k \in inst[e]
  THEN \E e \in Entries :
         /\ k \in inst[e]
         /\ inst' = [inst EXCEPT ![e] = @ \ {k}]
         /\ IF inst[e] = {k}
            THEN /\ creator' = [creator EXCEPT ![e] = NoProc]
                 /\ \E found \in FreedInfoMatches :
                      IF found THEN RemoveTask(creator[e]) ELSE tasks' = tasks
            ELSE UNCHANGED <<creator, tasks>>
  ELSE UNCHANGED storeVars

-----------------------------------------------------------------------------
(* StartProcess.                                                           *)

\* Nothing is running inside StartProcess or StopProcess, and the last loop over
\* instances has ended: the thread is back in its command or task loop.
Quiet == starting = NoProc /\ dying = NoPid /\ victims = {}

\* Mutant of MayStart: one instance too many.
MayStartInclusive(p, n) ==
  ~Config[p].IsSystemCommand /\ n <= Config[p].MaxAllowedInstance

\* VerifyRunningInstanceCount with n instances tracked.  StartProcess calls it a
\* second time after the start delay; the caller has held the lock since, so
\* the answer is the same.
MayStart(p, n) ==
  /\ ~Config[p].IsSystemCommand
  /\ n < Config[p].MaxAllowedInstance \/ n = 0

BeginStart(p, n) ==
  IF MayStart(p, n)
  THEN /\ starting' = p
       /\ deps' = Config[p].Dependency
       /\ UNCHANGED inner
  ELSE UNCHANGED startVars

\* Mutant of ResolveNext: a dependency is started without the check of its count.
ResolveNextUnchecked ==
  /\ starting # NoProc /\ inner = NoProc /\ deps # <<>>
  /\ deps' = Tail(deps)
  /\ inner' = IF Instances(starting) = {} THEN Head(deps) ELSE NoProc
  /\ UNCHANGED <<lockVars, request, todo, cursor, stopVars, starting, storeVars, os>>

\* One round of ResolveDependency.  The count it looks at is the dependent's;
\* the dependency is started without resolving its own dependencies.
ResolveNext ==
  /\ starting # NoProc /\ inner = NoProc /\ deps # <<>>
  /\ deps' = Tail(deps)
  /\ inner' = LET d == Head(deps)
              IN  IF /\ Instances(starting) = {}
                     /\ MayStart(d, Cardinality(Instances(d)))
                  THEN d ELSE NoProc
  /\ UNCHANGED <<lockVars, request, todo, cursor, stopVars, starting, storeVars, os>>

\* The process ForkNewProcess is about to be called for.
Forking == IF inner # NoProc THEN inner ELSE starting

StartReturns ==
  IF inner # NoProc
  THEN inner' = NoProc /\ UNCHANGED <<starting, deps>>
  ELSE starting' = NoProc /\ UNCHANGED <<deps, inner>>

ReadyToFork == starting # NoProc /\ (inner # NoProc \/ deps = <<>>)

\* fork gives a child a pid that no other child, dead or alive, has.
Fork(k) ==
  /\ ReadyToFork
  /\ os[k] = "none"
  /\ os' = [os EXCEPT ![k] = "running"]
  /\ AddInstance(Forking, k)
  /\ StartReturns
  /\ UNCHANGED <<lockVars, request, todo, cursor, stopVars>>

\* The binary is not there or fork fails: StartProcess returns without a change.
ForkFails ==
  /\ ReadyToFork
  /\ StartReturns
  /\ UNCHANGED <<lockVars, request, todo, cursor, stopVars, storeVars, os>>

-----------------------------------------------------------------------------
(* StopProcess.                                                            *)

\* The next instance of the copied map: SIGTERM, which a child may obey or not.
StopNext(k) ==
  /\ loop.kind \in {"stop", "stopPid"} /\ dying = NoPid
  /\ k \in victims
  /\ victims' = victims \ {k}
  /\ dying' = k /\ killed' = FALSE
  /\ UNCHANGED <<lockVars, request, todo, cursor, loop, startVars, storeVars, os>>

\* waitpid(WNOHANG): a dead child is reaped.
Reaped(k) == IF os[k] = "zombie" THEN [os EXCEPT ![k] = "none"] ELSE os

\* The pid leaves the store, whatever StopProcess(pid) returned.
Forget(k) ==
  /\ IF loop.kind = "stop" THEN RemoveInstance(loop.proc, k) ELSE RemoveInstanceByPid(k)
  /\ dying' = NoPid
  /\ UNCHANGED <<lockVars, request, todo, cursor, loop, victims, killed, startVars>>

\* Mutant of StopJudgedDone: the instance is given up without SIGKILL.
StopJudgedDoneAnyway ==
  /\ dying # NoPid
  /\ os' = Reaped(dying)
  /\ Forget(dying)

\* After a second: the child is dead, or not a child any more, or it runs and
\* the status nobody has set says that it has exited.
StopJudgedDone ==
  /\ dying # NoPid
  /\ os[dying] = "running" => ~killed /\ TRUE \in StatusWhenUnset
  /\ os' = Reaped(dying)
  /\ Forget(dying)

\* The child runs and the unset status says so: SIGKILL, and it is dead before
\* the next look at it a second later.
Kill ==
  /\ dying # NoPid /\ ~killed
  /\ os[dying] = "running" /\ FALSE \in StatusWhenUnset
  /\ killed' = TRUE
  /\ os' = [os EXCEPT ![dying] = "zombie"]
  /\ UNCHANGED <<lockVars, request, todo, cursor, loop, victims, dying, startVars, storeVars>>

-----------------------------------------------------------------------------
(* The request thread: ProcCmdHandler.                                     *)

Call(f, ps) == [i \in DOMAIN ps |-> [call |-> f, proc |-> ps[i]]]

\* Restarting one process stops and starts it; restarting several stops them all
\* and then starts them all.
Calls(r) ==
  CASE r.op = "restart" -> Call("stop", r.procs) \o Call("start", r.procs)
    [] r.op = "stopPid" -> <<>>
    [] OTHER -> Call(r.op, r.procs)

\* A client sends a process command and the thread that serves it asks for the
\* lock.  The server serves one client at a time.
ReceiveRequest(r) ==
  /\ request = NoRequest
  /\ request' = r
  /\ ProcConfigLock!Ask("handler")
  /\ UNCHANGED <<todo, cursor, stopVars, startVars, storeVars, os>>

\* Mutant of BeginExecute: every command is taken for a stop by pid.
BeginExecuteAnyOp ==
  /\ ProcConfigLock!Grant("handler")
  /\ todo' = Calls(request)
  /\ victims' = {request.pid}
  /\ loop' = [kind |-> "stopPid", proc |-> NoProc]
  /\ UNCHANGED <<request, cursor, dying, killed, startVars, storeVars, os>>

\* _Execute looks the processes up.  Stopping by pid looks nothing up, so
\* whether it goes on depends on an Error that nothing has set.
BeginExecute ==
  /\ ProcConfigLock!Grant("handler")
  /\ todo' = Calls(request)
  /\ IF request.op = "stopPid"
     THEN /\ \E success \in ErrorWhenUnset :
               victims' = {k \in {request.pid} :
                             success /\ \E e \in Entries : k \in inst[e]}
          /\ loop' = [kind |-> "stopPid", proc |-> NoProc]
     ELSE UNCHANGED <<victims, loop>>
  /\ UNCHANGED <<request, cursor, dying, killed, startVars, storeVars, os>>

\* StopProcess refuses several instances unless IsKillMultiple is set.
StopRefused(p) ==
  ~Config[p].IsKillMultiple /\ Cardinality(Instances(p)) > 1

\* The next call of the command's loop.
NextCall ==
  /\ Quiet /\ todo # <<>>
  /\ todo' = Tail(todo)
  /\ LET f == Head(todo).call
         p == Head(todo).proc
     IN  \/ /\ f = "start"
            /\ BeginStart(p, Cardinality(Instances(p)))
            /\ UNCHANGED stopVars
         \/ /\ f \in {"stop", "ping"}
            /\ loop' = [kind |-> f, proc |-> p]
            /\ victims' = IF f = "stop" /\ StopRefused(p) THEN {} ELSE Instances(p)
            /\ UNCHANGED <<dying, killed, startVars>>
  /\ UNCHANGED <<lockVars, request, cursor, storeVars, os>>

\* ping reaps a dead instance and leaves it in the store.
PingNext(k) ==
  /\ loop.kind = "ping" /\ k \in victims
  /\ victims' = victims \ {k}
  /\ os' = Reaped(k)
  /\ UNCHANGED <<lockVars, request, todo, cursor, loop, dying, killed, startVars, storeVars>>

EndExecute ==
  /\ Quiet /\ todo = <<>>
  /\ ProcConfigLock!Release("handler")
  /\ request' = NoRequest /\ loop' = NoLoop /\ killed' = FALSE
  /\ UNCHANGED <<todo, cursor, victims, dying, startVars, storeVars, os>>

-----------------------------------------------------------------------------
(* The poll thread: BasePollManager::_poll and MonitorProcess.             *)

\* Mutant of PollCheck: lockSecondary does not look for a waiting primary.
PollCheckGreedy ==
  /\ holder # "poller"
  /\ admitted' = {"poller"}
  /\ UNCHANGED <<holder, waiting, request, todo, cursor, stopVars, startVars,
                 storeVars, os>>

\* lockSecondary finds nobody waiting.  A poll thread that is turned away only
\* comes back later, so Renounce is not needed.
PollCheck ==
  /\ ProcConfigLock!Admit("poller")
  /\ UNCHANGED <<request, todo, cursor, stopVars, startVars, storeVars, os>>

PollBegin ==
  /\ ProcConfigLock!Enter("poller")
  /\ UNCHANGED <<request, todo, cursor, stopVars, startVars, storeVars, os>>

\* The next task: MonitorProcess copies the instance map.
PollTask ==
  /\ holder = "poller" /\ Quiet
  /\ waiting = {} /\ cursor < Len(tasks)
  /\ cursor' = cursor + 1
  /\ loop' = [kind |-> "monitor", proc |-> tasks[cursor + 1]]
  /\ victims' = Instances(tasks[cursor + 1])
  /\ UNCHANGED <<lockVars, request, todo, dying, killed, startVars, storeVars, os>>

\* MonitorProcess pings an instance that runs.
MonitorRunning(k) ==
  /\ loop.kind = "monitor" /\ starting = NoProc
  /\ k \in victims /\ os[k] = "running"
  /\ victims' = victims \ {k}
  /\ UNCHANGED <<lockVars, request, todo, cursor, loop, dying, killed, startVars,
                 storeVars, os>>

\* Mutant of MonitorDead: the result of waitpid is not looked at.
MonitorDeadOrNot(k) ==
  /\ loop.kind = "monitor" /\ starting = NoProc
  /\ k \in victims
  /\ victims' = victims \ {k}
  /\ os' = Reaped(k)
  /\ RemoveInstanceKeepEntry(loop.proc, k)
  /\ BeginStart(loop.proc, Cardinality(Instances(loop.proc) \ {k}))
  /\ UNCHANGED <<lockVars, request, todo, cursor, loop, dying, killed>>

\* It pings one that does not: reaped, removed from the store, started anew.
\* The AddInstance after StartProcess only repeats what StartProcess did.
MonitorDead(k) ==
  /\ loop.kind = "monitor" /\ starting = NoProc
  /\ k \in victims /\ os[k] # "running"
  /\ victims' = victims \ {k}
  /\ os' = Reaped(k)
  /\ RemoveInstanceKeepEntry(loop.proc, k)
  /\ BeginStart(loop.proc, Cardinality(Instances(loop.proc) \ {k}))
  /\ UNCHANGED <<lockVars, request, todo, cursor, loop, dying, killed>>

\* Mutant of PollEnd: the next round goes on where this one ended.
PollEndNoReset ==
  /\ Quiet
  /\ waiting # {} \/ cursor >= Len(tasks)
  /\ ProcConfigLock!Release("poller")
  /\ loop' = NoLoop
  /\ UNCHANGED <<request, todo, cursor, victims, dying, killed, startVars, storeVars, os>>

\* The loop ends after the last task, or before the next one when the request
\* thread waits.
PollEnd ==
  /\ Quiet
  /\ waiting # {} \/ cursor >= Len(tasks)
  /\ ProcConfigLock!Release("poller")
  /\ cursor' = 0 /\ loop' = NoLoop
  /\ UNCHANGED <<request, todo, victims, dying, killed, startVars, storeVars, os>>

-----------------------------------------------------------------------------
\* A child ends, by itself or by a signal.
ChildExit(k) ==
  /\ os[k] = "running"
  /\ os' = [os EXCEPT ![k] = "zombie"]
  /\ UNCHANGED <<lockVars, request, todo, cursor, stopVars, startVars, storeVars>>

\* The program of whichever thread is inside the lock.
Work ==
  \/ NextCall \/ ResolveNext \/ ForkFails \/ StopJudgedDone \/ Kill
  \/ \E k \in Pids : Fork(k) \/ StopNext(k) \/ PingNext(k)
                       \/ MonitorRunning(k) \/ MonitorDead(k)

Next ==
  \/ \E r \in Requests : ReceiveRequest(r)
  \/ BeginExecute \/ EndExecute
  \/ PollCheck \/ PollBegin \/ PollTask \/ PollEnd
  \/ Work
  \/ \E k \in Pids : ChildExit(k)

Spec == Init /\ [][Next]_vars

\* Neither clients nor the ends of children are fair.  The request thread goes
\* on once it has a command, the poll thread loops for ever; that the mutex is
\* taken under weak fairness alone is PrimaryServed and PollNotLockedOut of
\* MasterSlaveMutex.
Fairness ==
  /\ WF_vars(BeginExecute) /\ WF_vars(EndExecute)
  /\ WF_vars(holder = "nobody" /\ PollCheck) /\ WF_vars(PollBegin)
  /\ WF_vars(PollTask) /\ WF_vars(PollEnd)
  /\ WF_vars(Work)

FairSpec == Spec /\ Fairness

-----------------------------------------------------------------------------
(* Properties.                                                             *)

CallKinds == {"start", "stop", "ping"}
LoopKinds == {"none", "stop", "stopPid", "ping", "monitor"}

\* Types of the lock, the threads' programs, the store and the children.
TypeOK ==
  /\ ProcConfigLock!LockTypeOK
  /\ request \in Requests \union {NoRequest}
  /\ todo \in Seq([call : CallKinds, proc : Procs])
  /\ cursor \in Nat
  /\ loop \in [kind : LoopKinds, proc : Procs \union {NoProc}]
  /\ victims \subseteq Pids /\ dying \in Pids \union {NoPid} /\ killed \in BOOLEAN
  /\ starting \in Procs \union {NoProc} /\ inner \in Procs \union {NoProc}
  /\ deps \in Seq(Procs)
  /\ creator \in [Entries -> Procs \union {NoProc}]
  /\ inst \in [Entries -> SUBSET Pids]
  /\ tasks \in Seq(Procs)
  /\ os \in [Pids -> {"none", "running", "zombie"}]

\* No entry ever tracks more instances than one of its processes allows, however
\* starts by hand, replacements by the monitor and dependencies mix.
InstanceLimit ==
  \A e \in Entries : inst[e] # {} =>
    \E p \in Procs : /\ Entry(p) = e
                     /\ Cardinality(inst[e]) <= Config[p].MaxAllowedInstance

\* A monitored entry has exactly one poll task and a task has its entry: a start
\* does not add a second task, a stop does not leave one behind.
TaskPerEntry ==
  /\ \A i, j \in DOMAIN tasks : tasks[i] = tasks[j] => i = j
  /\ {tasks[i] : i \in DOMAIN tasks} =
       {p \in Procs : creator[Entry(p)] = p /\ Config[p].IsMonitor}

\* A pid is in one instance map at most, so the status of a child is never taken
\* for another process's.
TrackedOnce ==
  \A e, f \in Entries : inst[e] \intersect inst[f] # {} => e = f

\* StopProcess signals pids of the server's own children only: a pid that has
\* been reaped may belong to anybody.
SignalsOwnChildren ==
  loop.kind \in {"stop", "stopPid"} =>
    \A k \in victims \union ({dying} \ {NoPid}) : os[k] # "none"

\* Every child, dead or alive, is tracked by some entry until it is reaped: none
\* is left to run, or to stay a zombie, where no command and no poll finds it.
NoChildLost ==
  \A k \in Pids : os[k] # "none" => \E e \in Entries : k \in inst[e]

\* The poll thread iterates over the task list without the list's own mutex.
\* Whatever MonitorProcess does, the list only grows at its end meanwhile, so
\* the iterator stays valid.
IterationSafe ==
  [][holder = "poller" => /\ Len(tasks') >= Len(tasks)
                          /\ SubSeq(tasks', 1, Len(tasks)) = tasks]_vars

\* Only a stop command takes a running instance out of the store.
MonitorKeepsRunning ==
  [][\A e \in Entries : \A k \in inst[e] \ inst'[e] :
       os[k] = "running" => loop.kind \in {"stop", "stopPid"}]_vars

\* Once no command comes, a dead instance of a monitored process does not stay
\* in the store: the poll thread reaches every task and replaces or drops it.
DeadInstanceNoticed ==
  <>[](request = NoRequest) =>
    \A e \in Entries : \A k \in Pids :
      (k \in inst[e] /\ os[k] # "running" /\ creator[e] # NoProc
                     /\ Config[creator[e]].IsMonitor)
        ~> (k \notin inst[e] \/ os[k] = "running")

\* A command is served to its end, the poll thread and dying children
\* notwithstanding.
CommandServed == request # NoRequest ~> request = NoRequest

-----------------------------------------------------------------------------
(* What the program says of itself and does not keep.                      *)

\* "Process exited succesfully." and "Process killed succesfully.": when
\* StopProcess is done with an instance, the instance does not run.
StoppedMeansDead ==
  [][\A k \in Pids : dying = k /\ dying' = NoPid => os[k] # "running"]_vars

\* pmc help: "With pid as an argument to stop the single process matching the pid
\* from the spawned process store."
StopByPidStops ==
  [][(/\ holder # "handler" /\ holder' = "handler"
      /\ request.op = "stopPid" /\ \E e \in Entries : request.pid \in inst[e])
        => victims' = {request.pid}]_vars

\* "Skipping to start dependency process [...] Already instance is running": a
\* dependency that runs is not started again.
RunningDependencySkipped ==
  [][inner = NoProc /\ inner' # NoProc => Instances(inner') = {}]_vars

\* pmc help: "start the single process matching the identifier": a process of
\* which nothing runs is started.
StartStarts ==
  [][todo # <<>> /\ todo' = Tail(todo) /\ Head(todo).call = "start"
       /\ Instances(Head(todo).proc) = {}
       => starting' = Head(todo).proc]_vars
=============================================================================
