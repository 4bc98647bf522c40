------------------------ MODULE ProcessManagerProofs ------------------------
(* Proofs about ProcessManager for any configuration, pids and requests.   *)
EXTENDS ProcessManager, FiniteSetTheorems, SequenceTheorems, TLAPS

\* Where the two threads can be, and what they are in the middle of.
ControlOK ==
  /\ loop.kind \in {"stop", "ping", "monitor"} => loop.proc \in Procs
  /\ loop.kind \in {"stop", "stopPid", "ping"} => holder = "handler"
  /\ loop.kind = "monitor" => holder = "poller"
  /\ todo # <<>> => holder = "handler"
  /\ victims # {} => loop.kind # "none"
  /\ dying # NoPid => loop.kind \in {"stop", "stopPid"} /\ starting = NoProc
  /\ starting # NoProc => \/ holder = "handler" /\ victims = {}
                          \/ loop.kind = "monitor"
  /\ starting = NoProc => inner = NoProc
  /\ request = NoRequest \/ holder = "handler" => waiting = {}

\* The fields of a configured process have their types.
LEMMA ConfigTypes ==
  ASSUME NEW p \in Procs
  PROVE  /\ Entry(p) \in Entries
         /\ Config[p].MaxAllowedInstance \in Nat \ {0}
         /\ Config[p].IsMonitor \in BOOLEAN
         /\ Config[p].IsKillMultiple \in BOOLEAN
         /\ Config[p].IsSystemCommand \in BOOLEAN
         /\ Config[p].Dependency \in Seq(Procs)
BY ConfigAssumption DEF ProcessInfo, Entry

\* A process has finitely many instances, all of them pids of the kernel.
LEMMA InstancesType ==
  ASSUME TypeOK, NEW p \in Procs
  PROVE  /\ Instances(p) \subseteq Pids /\ IsFiniteSet(Instances(p))
         /\ Cardinality(Instances(p)) \in Nat
<1>1. Instances(p) \subseteq Pids
  BY ConfigTypes DEF TypeOK, Instances
<1> QED BY <1>1, PidsAssumption, FS_Subset, FS_CardinalityType

\* Call makes a sequence of calls of one kind.
LEMMA CallType ==
  ASSUME NEW K, NEW f \in K, NEW ps \in Seq(Procs)
  PROVE  Call(f, ps) \in Seq([call : K, proc : Procs])
<1>1. DOMAIN ps = 1..Len(ps) /\ Len(ps) \in Nat
  OBVIOUS
<1>2. Call(f, ps) \in [1..Len(ps) -> [call : K, proc : Procs]]
  BY <1>1 DEF Call
<1>3. Call(f, ps) \in UNION {[1..n -> [call : K, proc : Procs]] : n \in Nat}
  BY <1>1, <1>2
<1> QED BY <1>3, SeqDef, Zenon

\* The calls of a command are of the kinds K when restart's are and its own is.
LEMMA CallsType ==
  ASSUME NEW r \in Requests, NEW K, {"start", "stop"} \subseteq K,
         r.op \in K \union {"restart", "stopPid"}
  PROVE  Calls(r) \in Seq([call : K, proc : Procs])
<1>1. r \in Request
  BY RequestsAssumption
<1>2. CASE r.op = "restart"
  <2>1. /\ Call("stop", r.procs) \in Seq([call : K, proc : Procs])
        /\ Call("start", r.procs) \in Seq([call : K, proc : Procs])
    BY <1>1, <1>2, CallType DEF Request
  <2> QED BY <1>2, <2>1, ConcatProperties DEF Calls
<1>3. CASE r.op = "stopPid"
  BY <1>3 DEF Calls
<1>4. CASE r.op # "restart" /\ r.op # "stopPid"
  <2>1. r.op \in K /\ r.procs \in Seq(Procs)
    BY <1>1, <1>4 DEF Request
  <2> QED BY <1>4, <2>1, CallType DEF Calls
<1> QED BY <1>2, <1>3, <1>4

\* Removing a task leaves a sequence of tasks.
LEMMA RemoveTaskType ==
  ASSUME tasks \in Seq(Procs), NEW p, RemoveTask(p)
  PROVE  tasks' \in Seq(Procs)
<1>1. ASSUME NEW i \in DOMAIN tasks
      PROVE  SubSeq(tasks, 1, i - 1) \o SubSeq(tasks, i + 1, Len(tasks)) \in Seq(Procs)
  <2>1. i \in 1..Len(tasks) /\ Len(tasks) \in Nat
    OBVIOUS
  <2>2. SubSeq(tasks, 1, i - 1) \in Seq(Procs)
    BY <2>1, SubSeqProperties
  <2>3. SubSeq(tasks, i + 1, Len(tasks)) \in Seq(Procs)
    BY <2>1, SubSeqProperties
  <2> QED BY <2>2, <2>3, ConcatProperties
<1> QED BY <1>1 DEF RemoveTask

-----------------------------------------------------------------------------
(* Type correctness.                                                       *)

\* AddInstance and RemoveInstance keep the types of the store.
LEMMA StoreTypes ==
  ASSUME TypeOK, NEW p \in Procs, NEW k \in Pids,
         \/ AddInstance(p, k) \/ RemoveInstance(p, k)
         \/ RemoveInstanceKeepEntry(p, k)
  PROVE  /\ creator' \in [Entries -> Procs \union {NoProc}]
         /\ inst' \in [Entries -> SUBSET Pids]
         /\ tasks' \in Seq(Procs)
<1> USE DEF TypeOK
<1>1. CASE AddInstance(p, k)
  <2>1. Append(tasks, p) \in Seq(Procs)
    OBVIOUS
  <2> QED BY <1>1, <2>1, ConfigTypes DEF AddInstance
<1>2. CASE RemoveInstance(p, k)
  BY <1>2, ConfigTypes, RemoveTaskType DEF RemoveInstance
<1>3. CASE RemoveInstanceKeepEntry(p, k)
  BY <1>3 DEF RemoveInstanceKeepEntry
<1> QED BY <1>1, <1>2, <1>3

\* So does RemoveInstanceByPid, whatever the freed ProcessInfo still says.
LEMMA ByPidTypes ==
  ASSUME TypeOK, NEW k \in Pids, RemoveInstanceByPid(k)
  PROVE  /\ creator' \in [Entries -> Procs \union {NoProc}]
         /\ inst' \in [Entries -> SUBSET Pids]
         /\ tasks' \in Seq(Procs)
<1> USE DEF TypeOK
<1>1. CASE UNCHANGED storeVars
  BY <1>1 DEF storeVars
<1>2. CASE ~UNCHANGED storeVars
  <2>1. PICK e \in Entries :
          /\ k \in inst[e]
          /\ inst' = [inst EXCEPT ![e] = @ \ {k}]
          /\ IF inst[e] = {k}
             THEN /\ creator' = [creator EXCEPT ![e] = NoProc]
                  /\ \E found \in FreedInfoMatches :
                       IF found THEN RemoveTask(creator[e]) ELSE tasks' = tasks
             ELSE UNCHANGED <<creator, tasks>>
    BY <1>2 DEF RemoveInstanceByPid
  <2>2. /\ creator' \in [Entries -> Procs \union {NoProc}]
        /\ inst' \in [Entries -> SUBSET Pids]
    BY <2>1
  <2>3. tasks' \in Seq(Procs)
    BY <2>1, RemoveTaskType
  <2> QED BY <2>2, <2>3
<1> QED BY <1>1, <1>2

\* Entering StartProcess keeps the types of its registers.
LEMMA BeginStartTypes ==
  ASSUME TypeOK, NEW p \in Procs, NEW n, BeginStart(p, n)
  PROVE  /\ starting' \in Procs \union {NoProc}
         /\ inner' \in Procs \union {NoProc}
         /\ deps' \in Seq(Procs)
BY ConfigTypes DEF BeginStart, TypeOK, startVars

\* Every step of the threads and of the children keeps the types.
LEMMA TypeStep == TypeOK /\ ControlOK /\ [Next]_vars => TypeOK'
<1> SUFFICES ASSUME TypeOK, ControlOK, [Next]_vars PROVE TypeOK'
  OBVIOUS
<1> USE DEF ProcConfigLock!LockTypeOK, lockVars, startVars, stopVars, storeVars
<1>1. ASSUME NEW r \in Requests, ReceiveRequest(r) PROVE TypeOK'
  BY <1>1 DEF ReceiveRequest, ProcConfigLock!Ask, TypeOK
<1>2. CASE BeginExecute
  <2>1. request \in Requests
    BY <1>2 DEF BeginExecute, ProcConfigLock!Grant, ControlOK, TypeOK
  <2>2. todo' \in Seq([call : CallKinds, proc : Procs])
    <3>1. request.op \in CallKinds \union {"restart", "stopPid"}
      BY <2>1, RequestsAssumption DEF Request, CallKinds
    <3> QED BY <1>2, <2>1, <3>1, CallsType DEF BeginExecute, CallKinds
  <2>3. /\ victims' \subseteq Pids
        /\ loop' \in [kind : LoopKinds, proc : Procs \union {NoProc}]
    <3>1. CASE request.op = "stopPid"
      <4>1. request.pid \in Pids
        BY <2>1, <3>1, RequestsAssumption DEF Request
      <4> QED BY <1>2, <3>1, <4>1 DEF BeginExecute, LoopKinds
    <3> QED BY <1>2, <3>1 DEF BeginExecute, TypeOK
  <2> QED BY <1>2, <2>2, <2>3 DEF BeginExecute, ProcConfigLock!Grant, TypeOK
<1>3. CASE EndExecute
  BY <1>3 DEF EndExecute, ProcConfigLock!Release, NoLoop, LoopKinds, TypeOK
<1>4. CASE PollCheck
  BY <1>4 DEF PollCheck, ProcConfigLock!Admit, TypeOK
<1>5. CASE PollBegin
  BY <1>5 DEF PollBegin, ProcConfigLock!Enter, TypeOK
<1>6. CASE PollTask
  <2>1. tasks[cursor + 1] \in Procs
    BY <1>6 DEF PollTask, TypeOK
  <2>2. Instances(tasks[cursor + 1]) \subseteq Pids
    BY <2>1, InstancesType
  <2> QED BY <1>6, <2>1, <2>2 DEF PollTask, LoopKinds, TypeOK
<1>7. CASE PollEnd
  BY <1>7 DEF PollEnd, ProcConfigLock!Release, NoLoop, LoopKinds, TypeOK
<1>8. CASE NextCall
  <2> DEFINE f == Head(todo).call
             p == Head(todo).proc
  <2>1. /\ f \in CallKinds /\ p \in Procs
        /\ todo' \in Seq([call : CallKinds, proc : Procs])
    <3>1. todo \in Seq([call : CallKinds, proc : Procs]) /\ todo # <<>>
      BY <1>8 DEF NextCall, TypeOK
    <3>2. /\ Head(todo) \in [call : CallKinds, proc : Procs]
          /\ Tail(todo) \in Seq([call : CallKinds, proc : Procs])
      BY <3>1, HeadTailProperties
    <3> QED BY <1>8, <3>2 DEF NextCall
  <2>2. Instances(p) \subseteq Pids
    BY <2>1, InstancesType
  <2>3. CASE BeginStart(p, Cardinality(Instances(p))) /\ UNCHANGED stopVars
    BY <1>8, <2>1, <2>3, BeginStartTypes DEF NextCall, TypeOK
  <2>4. CASE /\ f \in {"stop", "ping"}
             /\ loop' = [kind |-> f, proc |-> p]
             /\ victims' = IF f = "stop" /\ StopRefused(p) THEN {} ELSE Instances(p)
             /\ UNCHANGED <<dying, killed, startVars>>
    <3>1. victims' \subseteq Pids
      BY <2>2, <2>4
    <3>2. loop' \in [kind : LoopKinds, proc : Procs \union {NoProc}]
      BY <2>1, <2>4 DEF LoopKinds
    <3> QED BY <1>8, <2>1, <2>4, <3>1, <3>2 DEF NextCall, TypeOK
  <2> QED BY <1>8, <2>3, <2>4 DEF NextCall
<1>9. CASE ResolveNext
  <2>1. Head(deps) \in Procs /\ Tail(deps) \in Seq(Procs)
    BY <1>9 DEF ResolveNext, TypeOK
  <2>2. inner' \in Procs \union {NoProc}
    BY <1>9, <2>1 DEF ResolveNext
  <2> QED BY <1>9, <2>1, <2>2 DEF ResolveNext, TypeOK
<1>10. CASE ForkFails
  BY <1>10 DEF ForkFails, StartReturns, TypeOK
<1>11. CASE StopJudgedDone
  <2>1. dying \in Pids
    BY <1>11 DEF StopJudgedDone, TypeOK
  <2>2. os' \in [Pids -> {"none", "running", "zombie"}]
    BY <1>11 DEF StopJudgedDone, Reaped, TypeOK
  <2>3. \/ RemoveInstanceByPid(dying)
        \/ loop.proc \in Procs /\ RemoveInstance(loop.proc, dying)
    BY <1>11 DEF StopJudgedDone, Forget, ControlOK
  <2>4. /\ creator' \in [Entries -> Procs \union {NoProc}]
        /\ inst' \in [Entries -> SUBSET Pids]
        /\ tasks' \in Seq(Procs)
    BY <2>1, <2>3, StoreTypes, ByPidTypes
  <2> QED BY <1>11, <2>2, <2>4 DEF StopJudgedDone, Forget, TypeOK
<1>12. CASE Kill
  BY <1>12 DEF Kill, TypeOK
<1>13. ASSUME NEW k \in Pids, Fork(k) PROVE TypeOK'
  <2>1. Forking \in Procs
    BY <1>13 DEF Fork, ReadyToFork, Forking, TypeOK
  <2>2. /\ creator' \in [Entries -> Procs \union {NoProc}]
        /\ inst' \in [Entries -> SUBSET Pids]
        /\ tasks' \in Seq(Procs)
    BY <1>13, <2>1, StoreTypes DEF Fork
  <2> QED BY <1>13, <2>2 DEF Fork, StartReturns, TypeOK
<1>14. ASSUME NEW k \in Pids, StopNext(k) PROVE TypeOK'
  BY <1>14 DEF StopNext, TypeOK
<1>15. ASSUME NEW k \in Pids, PingNext(k) PROVE TypeOK'
  BY <1>15 DEF PingNext, Reaped, TypeOK
<1>16. ASSUME NEW k \in Pids, MonitorRunning(k) PROVE TypeOK'
  BY <1>16 DEF MonitorRunning, TypeOK
<1>17. ASSUME NEW k \in Pids, MonitorDead(k) PROVE TypeOK'
  <2>1. loop.proc \in Procs
    BY <1>17 DEF MonitorDead, ControlOK
  <2>2. /\ starting' \in Procs \union {NoProc}
        /\ inner' \in Procs \union {NoProc}
        /\ deps' \in Seq(Procs)
    BY <1>17, <2>1, BeginStartTypes DEF MonitorDead
  <2>3. /\ creator' \in [Entries -> Procs \union {NoProc}]
        /\ inst' \in [Entries -> SUBSET Pids]
        /\ tasks' \in Seq(Procs)
    BY <1>17, <2>1, StoreTypes DEF MonitorDead
  <2>4. os' \in [Pids -> {"none", "running", "zombie"}]
    BY <1>17 DEF MonitorDead, Reaped, TypeOK
  <2> QED BY <1>17, <2>2, <2>3, <2>4 DEF MonitorDead, TypeOK
<1>18. ASSUME NEW k \in Pids, ChildExit(k) PROVE TypeOK'
  BY <1>18 DEF ChildExit, TypeOK
<1>19. CASE UNCHANGED vars
  BY <1>19 DEF vars, TypeOK
<1> QED BY <1>1, <1>2, <1>3, <1>4, <1>5, <1>6, <1>7, <1>8, <1>9, <1>10, <1>11, <1>12,
           <1>13, <1>14, <1>15, <1>16, <1>17, <1>18, <1>19 DEF Next, Work

\* Every step keeps the holder of the lock inside a program it can be in.
LEMMA ControlStep == TypeOK /\ ControlOK /\ [Next]_vars => ControlOK'
<1> SUFFICES ASSUME TypeOK, ControlOK, [Next]_vars PROVE ControlOK'
  OBVIOUS
<1> USE DEF ControlOK, ProcConfigLock!LockTypeOK, lockVars, startVars, stopVars, storeVars
<1>1. ASSUME NEW r \in Requests, ReceiveRequest(r) PROVE ControlOK'
  <2>1. r # NoRequest /\ holder # "handler"
    BY <1>1, RequestsAssumption DEF ReceiveRequest, ProcConfigLock!Ask, Request, NoRequest
  <2> QED BY <1>1, <2>1 DEF ReceiveRequest, ProcConfigLock!Ask
<1>2. CASE BeginExecute
  <2>1. waiting' = {} /\ holder = "nobody" /\ holder' = "handler"
    BY <1>2 DEF BeginExecute, ProcConfigLock!Grant, TypeOK
  <2>2. loop.kind \notin {"stop", "stopPid", "ping", "monitor"}
    BY <2>1
  <2>3. \/ loop' = loop /\ victims' = victims
        \/ loop'.kind = "stopPid"
    BY <1>2 DEF BeginExecute
  <2> QED BY <1>2, <2>1, <2>2, <2>3 DEF BeginExecute
<1>3. CASE EndExecute
  BY <1>3 DEF EndExecute, Quiet, ProcConfigLock!Release, NoLoop
<1>4. CASE PollCheck
  BY <1>4 DEF PollCheck, ProcConfigLock!Admit
<1>5. CASE PollBegin
  BY <1>5 DEF PollBegin, ProcConfigLock!Enter
<1>6. CASE PollTask
  <2>1. tasks[cursor + 1] \in Procs
    BY <1>6 DEF PollTask, TypeOK
  <2> QED BY <1>6, <2>1 DEF PollTask, Quiet
<1>7. CASE PollEnd
  BY <1>7 DEF PollEnd, Quiet, ProcConfigLock!Release, NoLoop
<1>8. CASE NextCall
  <2>1. Head(todo).proc \in Procs
    <3>1. Head(todo) \in [call : CallKinds, proc : Procs]
      BY <1>8, HeadTailProperties DEF NextCall, TypeOK
    <3> QED BY <3>1
  <2> QED BY <1>8, <2>1 DEF NextCall, Quiet, BeginStart
<1>9. CASE ResolveNext
  BY <1>9 DEF ResolveNext
<1>10. CASE ForkFails
  BY <1>10 DEF ForkFails, StartReturns, ReadyToFork
<1>11. CASE StopJudgedDone
  BY <1>11 DEF StopJudgedDone, Forget
<1>12. CASE Kill
  BY <1>12 DEF Kill
<1>13. ASSUME NEW k \in Pids, Fork(k) PROVE ControlOK'
  BY <1>13 DEF Fork, StartReturns, ReadyToFork
<1>14. ASSUME NEW k \in Pids, StopNext(k) PROVE ControlOK'
  BY <1>14 DEF StopNext
<1>15. ASSUME NEW k \in Pids, PingNext(k) PROVE ControlOK'
  BY <1>15 DEF PingNext
<1>16. ASSUME NEW k \in Pids, MonitorRunning(k) PROVE ControlOK'
  BY <1>16 DEF MonitorRunning
<1>17. ASSUME NEW k \in Pids, MonitorDead(k) PROVE ControlOK'
  BY <1>17 DEF MonitorDead, BeginStart
<1>18. ASSUME NEW k \in Pids, ChildExit(k) PROVE ControlOK'
  BY <1>18 DEF ChildExit
<1>19. CASE UNCHANGED vars
  BY <1>19 DEF vars
<1> QED BY <1>1, <1>2, <1>3, <1>4, <1>5, <1>6, <1>7, <1>8, <1>9, <1>10, <1>11, <1>12,
           <1>13, <1>14, <1>15, <1>16, <1>17, <1>18, <1>19 DEF Next, Work

-----------------------------------------------------------------------------
(* The limit on instances.                                                 *)

\* InstanceLimit holds because a process that is about to be forked was found
\* below its limit, and what is forked before it has an entry of its own.
StartOK ==
  /\ starting # NoProc =>
       /\ MayStart(starting, Cardinality(Instances(starting)))
       /\ \A i \in DOMAIN deps : Entry(deps[i]) # Entry(starting)
  /\ inner # NoProc =>
       /\ MayStart(inner, Cardinality(Instances(inner)))
       /\ Entry(inner) # Entry(starting)

\* An entry that loses instances stays within the limit.
LEMMA LimitShrinks ==
  ASSUME TypeOK, InstanceLimit, \A e \in Entries : inst'[e] \subseteq inst[e]
  PROVE  InstanceLimit'
<1> SUFFICES ASSUME NEW e \in Entries, inst'[e] # {}
             PROVE  \E p \in Procs : /\ Entry(p) = e
                                     /\ Cardinality(inst'[e]) <= Config[p].MaxAllowedInstance
  BY DEF InstanceLimit, Entry
<1>1. PICK p \in Procs : /\ Entry(p) = e
                         /\ Cardinality(inst[e]) <= Config[p].MaxAllowedInstance
  BY DEF InstanceLimit
<1>2. IsFiniteSet(inst[e])
  BY PidsAssumption, FS_Subset DEF TypeOK
<1>3. Cardinality(inst'[e]) <= Cardinality(inst[e])
  BY <1>2, FS_Subset
<1>4. Cardinality(inst'[e]) \in Nat /\ Cardinality(inst[e]) \in Nat
  BY <1>2, FS_Subset, FS_CardinalityType
<1> QED BY <1>1, <1>3, <1>4, ConfigTypes

\* A start that is entered has room for one more instance.
LEMMA BeginStartOK ==
  ASSUME NoSelfDependency, TypeOK, NEW p \in Procs, NEW n,
         starting = NoProc, inner = NoProc,
         BeginStart(p, n), n = Cardinality(Instances(p)')
  PROVE  StartOK'
<1>1. CASE MayStart(p, n)
  BY <1>1, ConfigAssumption
     DEF BeginStart, StartOK, NoSelfDependency, Entry, MayStart, Instances
<1>2. CASE ~MayStart(p, n)
  BY <1>2 DEF BeginStart, StartOK, startVars
<1> QED BY <1>1, <1>2

\* A fork for which there is room keeps its entry within the limit.
LEMMA ForkWithinLimit ==
  ASSUME TypeOK, InstanceLimit, NEW p \in Procs, NEW k \in Pids,
         MayStart(p, Cardinality(Instances(p))), AddInstance(p, k)
  PROVE  InstanceLimit'
<1>1. /\ Entry(p) \in Entries /\ Instances(p) = inst[Entry(p)]
      /\ inst' = [inst EXCEPT ![Entry(p)] = Instances(p) \union {k}]
  BY ConfigTypes DEF MayStart, Instances, AddInstance, TypeOK
<1>2. Cardinality(Instances(p) \union {k}) <= Config[p].MaxAllowedInstance
  <2>1. IsFiniteSet(Instances(p)) /\ Cardinality(Instances(p)) \in Nat
    BY InstancesType
  <2>2. Cardinality(Instances(p) \union {k})
          = IF k \in Instances(p) THEN Cardinality(Instances(p))
                                  ELSE Cardinality(Instances(p)) + 1
    BY <2>1, FS_AddElement
  <2> QED BY <2>1, <2>2, ConfigTypes DEF MayStart
<1> QED BY <1>1, <1>2 DEF InstanceLimit, Entry, TypeOK

\* Every step keeps the limit, and the room a start in progress has found.
LEMMA LimitStep ==
  ASSUME NoSelfDependency, TypeOK, ControlOK, InstanceLimit, StartOK, [Next]_vars
  PROVE  InstanceLimit' /\ StartOK'
<1> USE DEF startVars, storeVars
<1>1. CASE UNCHANGED <<inst, startVars>>
  BY <1>1 DEF InstanceLimit, StartOK, MayStart, Instances, Entry
<1>2. CASE NextCall
  <2>1. PICK p \in Procs : p = Head(todo).proc
    <3>1. Head(todo) \in [call : CallKinds, proc : Procs]
      BY <1>2, HeadTailProperties DEF NextCall, TypeOK
    <3> QED BY <3>1
  <2>2. inst' = inst /\ starting = NoProc /\ inner = NoProc
    BY <1>2 DEF NextCall, Quiet, ControlOK
  <2>3. CASE BeginStart(p, Cardinality(Instances(p)))
    <3>1. Instances(p)' = Instances(p)
      BY <2>2 DEF Instances, Entry
    <3>2. StartOK'
      BY <2>2, <2>3, <3>1, BeginStartOK
    <3>3. InstanceLimit'
      BY <2>2, LimitShrinks
    <3> QED BY <3>2, <3>3
  <2> QED BY <1>1, <1>2, <2>1, <2>2, <2>3 DEF NextCall
<1>3. CASE ResolveNext
  <2>1. inst' = inst /\ starting' = starting
    BY <1>3 DEF ResolveNext
  <2>2. /\ Head(deps) \in Procs /\ Entry(Head(deps)) # Entry(starting)
        /\ \A i \in DOMAIN Tail(deps) : Entry(Tail(deps)[i]) # Entry(starting)
    <3>1. deps \in Seq(Procs) /\ deps # <<>>
      BY <1>3 DEF ResolveNext, TypeOK
    <3>2. \A i \in DOMAIN deps : Entry(deps[i]) # Entry(starting)
      BY <1>3 DEF ResolveNext, StartOK
    <3>3. Head(deps) = deps[1] /\ 1 \in DOMAIN deps
      BY <3>1
    <3>4. \A i \in DOMAIN Tail(deps) : i + 1 \in DOMAIN deps /\ Tail(deps)[i] = deps[i + 1]
      BY <3>1
    <3> QED BY <3>1, <3>2, <3>3, <3>4
  <2>3. inner' # NoProc => /\ inner' = Head(deps)
                           /\ MayStart(Head(deps), Cardinality(Instances(Head(deps))))
    BY <1>3 DEF ResolveNext
  <2>4. StartOK'
    BY <1>3, <2>1, <2>2, <2>3 DEF ResolveNext, StartOK, MayStart, Instances, Entry
  <2> QED BY <2>1, <2>4, LimitShrinks
<1>4. CASE ForkFails
  <2>1. inst' = inst
    BY <1>4 DEF ForkFails
  <2>2. StartOK'
    BY <1>4, <2>1 DEF ForkFails, StartReturns, StartOK, MayStart, Instances, Entry
  <2> QED BY <2>1, <2>2, LimitShrinks
<1>5. CASE StopJudgedDone
  <2>1. starting = NoProc /\ inner = NoProc
    BY <1>5 DEF StopJudgedDone, ControlOK
  <2>2. StartOK'
    BY <1>5, <2>1 DEF StopJudgedDone, Forget, StartOK
  <2>3. \A e \in Entries : inst'[e] \subseteq inst[e]
    BY <1>5 DEF StopJudgedDone, Forget, RemoveInstance, RemoveInstanceByPid, TypeOK
  <2> QED BY <2>2, <2>3, LimitShrinks
<1>6. ASSUME NEW k \in Pids, Fork(k) PROVE InstanceLimit' /\ StartOK'
  <2>1. PICK p \in Procs : p = Forking
    BY <1>6 DEF Fork, ReadyToFork, Forking, TypeOK
  <2>2. MayStart(p, Cardinality(Instances(p))) /\ AddInstance(p, k)
    BY <1>6, <2>1 DEF Fork, ReadyToFork, Forking, StartOK
  <2>3. InstanceLimit'
    BY <2>2, ForkWithinLimit
  <2>4. CASE inner # NoProc
    <3>1. starting' = starting /\ inner' = NoProc /\ deps' = deps /\ p = inner
      BY <1>6, <2>1, <2>4 DEF Fork, StartReturns, Forking
    <3>2. starting \in Procs /\ Entry(p) # Entry(starting)
      BY <2>4, <3>1 DEF StartOK, ControlOK, TypeOK
    <3>3. inst'[Entry(starting)] = inst[Entry(starting)]
      BY <2>2, <3>2, ConfigTypes DEF AddInstance, TypeOK
    <3> QED BY <2>3, <3>1, <3>2, <3>3 DEF StartOK, MayStart, Instances, Entry
  <2>5. CASE inner = NoProc
    BY <1>6, <2>3, <2>5 DEF Fork, StartReturns, StartOK
  <2> QED BY <2>4, <2>5
<1>7. ASSUME NEW k \in Pids, MonitorDead(k) PROVE InstanceLimit' /\ StartOK'
  <2>1. PICK p \in Procs : p = loop.proc
    BY <1>7 DEF MonitorDead, ControlOK
  <2>2. starting = NoProc /\ inner = NoProc
    BY <1>7 DEF MonitorDead, ControlOK
  <2>3. /\ inst' = [inst EXCEPT ![Entry(p)] = @ \ {k}]
        /\ BeginStart(p, Cardinality(Instances(p) \ {k}))
    BY <1>7, <2>1 DEF MonitorDead, RemoveInstanceKeepEntry
  <2>4. Instances(p)' = Instances(p) \ {k}
    BY <2>3, ConfigTypes DEF Instances, Entry, TypeOK
  <2>5. StartOK'
    BY <2>2, <2>3, <2>4, BeginStartOK
  <2>6. \A e \in Entries : inst'[e] \subseteq inst[e]
    BY <2>3 DEF TypeOK
  <2> QED BY <2>5, <2>6, LimitShrinks
<1> QED
  BY <1>1, <1>2, <1>3, <1>4, <1>5, <1>6, <1>7
     DEF Next, Work, vars, ReceiveRequest, BeginExecute, EndExecute, PollCheck,
         PollBegin, PollTask, PollEnd, Kill, StopNext, PingNext, MonitorRunning, ChildExit

-----------------------------------------------------------------------------
(* The theorems about types and the limit.                                 *)

\* The server starts with everybody outside the lock and an empty store.
LEMMA InitControl == Init => TypeOK /\ ControlOK
<1> SUFFICES ASSUME Init PROVE TypeOK /\ ControlOK
  OBVIOUS
<1>1. ProcConfigLock!LockTypeOK
  BY DEF Init, ProcConfigLock!LockInit, ProcConfigLock!LockTypeOK
<1>2. loop \in [kind : LoopKinds, proc : Procs \union {NoProc}] /\ loop.kind = "none"
  BY DEF Init, NoLoop, LoopKinds
<1>3. TypeOK
  <2>1. /\ todo \in Seq([call : CallKinds, proc : Procs])
        /\ deps \in Seq(Procs) /\ tasks \in Seq(Procs)
    BY DEF Init
  <2>2. /\ creator \in [Entries -> Procs \union {NoProc}]
        /\ inst \in [Entries -> SUBSET Pids]
        /\ os \in [Pids -> {"none", "running", "zombie"}]
    BY DEF Init
  <2>3. request \in Requests \union {NoRequest} /\ cursor \in Nat
    BY DEF Init
  <2>4. victims \subseteq Pids /\ dying \in Pids \union {NoPid} /\ killed \in BOOLEAN
    BY DEF Init
  <2>5. starting \in Procs \union {NoProc} /\ inner \in Procs \union {NoProc}
    BY DEF Init
  <2> QED BY <1>1, <1>2, <2>1, <2>2, <2>3, <2>4, <2>5 DEF TypeOK
<1>4. ControlOK
  BY <1>2 DEF Init, ProcConfigLock!LockInit, ControlOK
<1> QED BY <1>3, <1>4

\* Types and control are invariants together.
LEMMA ControlInvariance == Spec => [](TypeOK /\ ControlOK)
BY InitControl, TypeStep, ControlStep, PTL DEF Spec

\* The variables of the supervisor have their types, and the program the lock's
\* holder is in the middle of is one it can be in.
THEOREM TypeCorrect == Spec => []TypeOK
BY ControlInvariance, PTL

\* Whatever the configuration, provided no process depends on itself, no entry
\* tracks more instances than MaxAllowedInstance: neither starts by hand, nor
\* replacements by the monitor, nor dependencies started on the way exceed it.
THEOREM LimitKept ==
  ASSUME NoSelfDependency
  PROVE  Spec => []InstanceLimit
<1>1. Init => InstanceLimit /\ StartOK
  BY DEF Init, InstanceLimit, StartOK
<1>2. TypeOK /\ ControlOK /\ InstanceLimit /\ StartOK /\ [Next]_vars
        => InstanceLimit' /\ StartOK'
  BY LimitStep
<1> QED BY ControlInvariance, <1>1, <1>2, PTL DEF Spec

-----------------------------------------------------------------------------
(* What the poll thread may do to the store.                               *)

\* While the poll thread walks the task list, every step keeps the tasks it has:
\* the iterator of BasePollManager::_poll stays valid without _Locker.
THEOREM IterationKept == Spec => IterationSafe
<1>1. TypeOK /\ ControlOK /\ [Next]_vars
        => (holder = "poller" => /\ Len(tasks') >= Len(tasks)
                                 /\ SubSeq(tasks', 1, Len(tasks)) = tasks)
  <2> SUFFICES ASSUME TypeOK, ControlOK, [Next]_vars, holder = "poller"
               PROVE  /\ Len(tasks') >= Len(tasks)
                      /\ SubSeq(tasks', 1, Len(tasks)) = tasks
    OBVIOUS
  <2>1. CASE tasks' = tasks
    <3>1. tasks \in Seq(Procs)
      BY DEF TypeOK
    <3> QED BY <2>1, <3>1
  <2>2. ASSUME NEW k \in Pids, Fork(k), tasks' # tasks
        PROVE  /\ Len(tasks') >= Len(tasks)
               /\ SubSeq(tasks', 1, Len(tasks)) = tasks
    <3>1. PICK p : tasks' = Append(tasks, p)
      BY <2>2 DEF Fork, AddInstance
    <3>2. tasks \in Seq(Procs)
      BY DEF TypeOK
    <3>3. /\ Len(tasks') = Len(tasks) + 1 /\ Len(tasks) \in Nat
          /\ \A i \in 1..Len(tasks) : tasks'[i] = tasks[i]
      BY <3>1, <3>2
    <3> QED BY <3>2, <3>3
  <2>3. ~StopJudgedDone
    BY DEF StopJudgedDone, ControlOK
  <2> QED
    BY <2>1, <2>2, <2>3
       DEF Next, Work, vars, storeVars, ReceiveRequest, BeginExecute, EndExecute,
           PollCheck, PollBegin, PollTask, PollEnd, NextCall, ResolveNext, ForkFails,
           Kill, StopNext, PingNext, MonitorRunning, MonitorDead,
           RemoveInstanceKeepEntry, ChildExit
<1> QED BY ControlInvariance, <1>1, PTL DEF Spec, IterationSafe

\* Only a stop command takes a running instance out of the store: what the poll
\* thread removes, it has reaped or found gone.
THEOREM RunningKept == Spec => MonitorKeepsRunning
<1>1. TypeOK /\ ControlOK /\ [Next]_vars
        => \A e \in Entries : \A k \in inst[e] \ inst'[e] :
             os[k] = "running" => loop.kind \in {"stop", "stopPid"}
  <2> SUFFICES ASSUME TypeOK, ControlOK, [Next]_vars, NEW e \in Entries,
                      NEW k \in inst[e] \ inst'[e], os[k] = "running"
               PROVE  loop.kind \in {"stop", "stopPid"}
    OBVIOUS
  <2>1. CASE StopJudgedDone
    BY <2>1 DEF StopJudgedDone, ControlOK
  <2>2. ~\E j \in Pids : Fork(j)
    BY DEF Fork, AddInstance, TypeOK
  <2>3. ASSUME NEW j \in Pids, MonitorDead(j) PROVE FALSE
    <3>1. os[j] # "running" /\ inst' = [inst EXCEPT ![Entry(loop.proc)] = @ \ {j}]
      BY <2>3 DEF MonitorDead, RemoveInstanceKeepEntry
    <3>2. inst[e] \ inst'[e] \subseteq {j}
      BY <3>1 DEF TypeOK
    <3> QED BY <3>1, <3>2
  <2> QED
    BY <2>1, <2>2, <2>3
       DEF Next, Work, vars, storeVars, ReceiveRequest, BeginExecute, EndExecute,
           PollCheck, PollBegin, PollTask, PollEnd, NextCall, ResolveNext, ForkFails,
           Kill, StopNext, PingNext, MonitorRunning, ChildExit
<1> QED BY ControlInvariance, <1>1, PTL DEF Spec, MonitorKeepsRunning

-----------------------------------------------------------------------------
(* Pids.  A pid that is tracked is a child's as long as nothing reaps it   *)
(* without taking it out of the store, which only ping does.               *)

NoPing == \A r \in Requests : r.op # "ping"

\* What is tracked is not reaped, and what a loop over instances has still to
\* visit is tracked by the entry it was copied from.
PidInv ==
  /\ todo \in Seq([call : {"start", "stop"}, proc : Procs])
  /\ loop.kind # "ping"
  /\ \A e \in Entries : \A k \in inst[e] : os[k] # "none"
  /\ TrackedOnce
  /\ dying \notin victims
  /\ loop.kind \in {"stop", "monitor"} =>
       victims \union ({dying} \ {NoPid}) \subseteq inst[Entry(loop.proc)]
  /\ loop.kind = "stopPid" =>
       \A k \in victims \union ({dying} \ {NoPid}) : \E e \in Entries : k \in inst[e]

\* What StopProcess is to signal is tracked, and what is tracked is a child.
LEMMA PidInvSignals ==
  ASSUME TypeOK, ControlOK, PidInv
  PROVE  SignalsOwnChildren
BY ConfigTypes DEF PidInv, SignalsOwnChildren, ControlOK

\* Without ping, every step that reaps a child also takes it out of the store.
LEMMA PidStep ==
  ASSUME NoPing, TypeOK, ControlOK, PidInv, [Next]_vars
  PROVE  PidInv'
<1> USE DEF lockVars, startVars, stopVars, storeVars
<1>1. CASE UNCHANGED <<todo, inst, os, victims, dying, loop>>
  BY <1>1 DEF PidInv, TrackedOnce, Entry
<1>2. CASE BeginExecute
  <2>1. request \in Requests
    BY <1>2 DEF BeginExecute, ProcConfigLock!Grant, ControlOK, TypeOK
  <2>2. todo' \in Seq([call : {"start", "stop"}, proc : Procs])
    <3>1. request.op \in {"start", "stop"} \union {"restart", "stopPid"}
      BY <2>1, RequestsAssumption DEF Request, NoPing
    <3>2. Calls(request) \in Seq([call : {"start", "stop"}, proc : Procs])
      BY <2>1, <3>1, CallsType
    <3> QED BY <1>2, <3>2 DEF BeginExecute
  <2>3. dying = NoPid /\ dying' = NoPid /\ inst' = inst /\ os' = os
    BY <1>2 DEF BeginExecute, ProcConfigLock!Grant, ControlOK
  <2>4. CASE request.op = "stopPid"
    <3>1. request.pid \in Pids
      BY <2>1, <2>4, RequestsAssumption DEF Request
    <3>2. loop'.kind = "stopPid" /\ \A k \in victims' : k \in Pids /\ \E e \in Entries : k \in inst[e]
      BY <1>2, <2>4, <3>1 DEF BeginExecute
    <3>3. NoPid \notin victims'
      BY <3>2, PidsAssumption
    <3> QED BY <2>2, <2>3, <3>2, <3>3 DEF PidInv, TrackedOnce
  <2>5. CASE request.op # "stopPid"
    <3>1. victims' = victims /\ loop' = loop
      BY <1>2, <2>5 DEF BeginExecute
    <3> QED BY <2>2, <2>3, <3>1 DEF PidInv, TrackedOnce, Entry
  <2> QED BY <2>4, <2>5
<1>3. CASE EndExecute \/ PollEnd
  BY <1>3, PidsAssumption DEF EndExecute, PollEnd, Quiet, NoLoop, PidInv, TrackedOnce
<1>4. CASE PollTask
  <2>1. PICK p \in Procs : p = tasks[cursor + 1]
    BY <1>4 DEF PollTask, TypeOK
  <2>2. /\ dying = NoPid /\ dying' = NoPid /\ inst' = inst /\ os' = os /\ todo' = todo
        /\ loop' = [kind |-> "monitor", proc |-> p] /\ victims' = Instances(p)
    BY <1>4, <2>1 DEF PollTask, Quiet
  <2>3. Instances(p) \subseteq inst[Entry(p)] /\ NoPid \notin Instances(p)
    BY InstancesType, PidsAssumption DEF Instances
  <2> QED BY <2>2, <2>3 DEF PidInv, TrackedOnce, Entry
<1>5. CASE NextCall
  <2>1. PICK c \in [call : {"start", "stop"}, proc : Procs] :
          c = Head(todo) /\ Tail(todo) \in Seq([call : {"start", "stop"}, proc : Procs])
    BY <1>5, HeadTailProperties DEF NextCall, PidInv
  <2>2. dying = NoPid /\ dying' = NoPid /\ inst' = inst /\ os' = os /\ todo' = Tail(todo)
    BY <1>5 DEF NextCall, Quiet
  <2>3. Instances(c.proc) \subseteq inst[Entry(c.proc)] /\ NoPid \notin Instances(c.proc)
    BY InstancesType, PidsAssumption DEF Instances
  <2>4. \/ victims' = victims /\ loop' = loop
        \/ /\ loop' = [kind |-> "stop", proc |-> c.proc]
           /\ victims' \subseteq Instances(c.proc)
    BY <1>5, <2>1 DEF NextCall
  <2> QED BY <2>1, <2>2, <2>3, <2>4 DEF PidInv, TrackedOnce, Entry
<1>6. CASE ResolveNext \/ ForkFails
  BY <1>1, <1>6 DEF ResolveNext, ForkFails
<1>7. CASE StopJudgedDone
  <2>1. /\ dying \in Pids /\ dying' = NoPid /\ victims' = victims /\ loop' = loop
        /\ todo' = todo
    BY <1>7 DEF StopJudgedDone, Forget, TypeOK
  <2>2. PICK e \in Entries : dying \in inst[e] /\ inst' = [inst EXCEPT ![e] = @ \ {dying}]
    <3>1. CASE loop.kind = "stop"
      <4>1. RemoveInstance(loop.proc, dying) /\ loop.proc \in Procs
        BY <1>7, <3>1 DEF StopJudgedDone, Forget, ControlOK
      <4>2. dying \in inst[Entry(loop.proc)] /\ Entry(loop.proc) \in Entries
        BY <2>1, <3>1, <4>1, ConfigTypes, PidsAssumption DEF PidInv
      <4> QED BY <4>1, <4>2 DEF RemoveInstance
    <3>2. CASE loop.kind = "stopPid"
      <4>1. RemoveInstanceByPid(dying)
        BY <1>7, <3>2 DEF StopJudgedDone, Forget
      <4>2. \E e \in Entries : dying \in inst[e]
        BY <2>1, <3>2, PidsAssumption DEF PidInv
      <4> QED BY <4>1, <4>2 DEF RemoveInstanceByPid
    <3> QED BY <1>7, <3>1, <3>2 DEF StopJudgedDone, ControlOK
  <2>3. \A k \in Pids \ {dying} : os'[k] = os[k]
    BY <1>7 DEF StopJudgedDone, Reaped, TypeOK
  <2>4. \A f \in Entries : inst'[f] = inst[f] \ {dying}
    BY <2>2 DEF PidInv, TrackedOnce, TypeOK
  <2>5. \A f \in Entries : \A k \in inst'[f] : os'[k] # "none"
    BY <2>3, <2>4 DEF PidInv, TypeOK
  <2>6. TrackedOnce'
    BY <2>4 DEF PidInv, TrackedOnce
  <2>7. dying' \notin victims'
    BY <2>1, PidsAssumption DEF TypeOK
  <2>8. loop'.kind \in {"stop", "monitor"} =>
          victims' \union ({dying'} \ {NoPid}) \subseteq inst'[Entry(loop'.proc)]
    BY <2>1, <2>4, ConfigTypes DEF PidInv, ControlOK
  <2>9. loop'.kind = "stopPid" =>
          \A k \in victims' \union ({dying'} \ {NoPid}) : \E f \in Entries : k \in inst'[f]
    BY <2>1, <2>4 DEF PidInv
  <2> QED BY <2>1, <2>5, <2>6, <2>7, <2>8, <2>9 DEF PidInv, Entry
<1>8. CASE Kill
  <2>1. \A k \in Pids : os'[k] = "none" => os[k] = "none"
    BY <1>8 DEF Kill, TypeOK
  <2> QED BY <1>8, <2>1 DEF Kill, PidInv, TrackedOnce, Entry, TypeOK
<1>9. ASSUME NEW k \in Pids, Fork(k) PROVE PidInv'
  <2>1. PICK p \in Procs : p = Forking
    BY <1>9 DEF Fork, ReadyToFork, Forking, TypeOK
  <2>2. /\ os[k] = "none" /\ os' = [os EXCEPT ![k] = "running"]
        /\ inst' = [inst EXCEPT ![Entry(p)] = @ \union {k}]
        /\ UNCHANGED <<todo, loop, victims, dying>>
    BY <1>9, <2>1 DEF Fork, AddInstance
  <2>3. \A e \in Entries : k \notin inst[e]
    BY <2>2 DEF PidInv
  <2>4. \A e \in Entries : inst'[e] = IF e = Entry(p) THEN inst[e] \union {k} ELSE inst[e]
    BY <2>2 DEF TypeOK
  <2>5. TrackedOnce'
    <3>1. SUFFICES ASSUME NEW e \in Entries, NEW f \in Entries, NEW j,
                          j \in inst'[e], j \in inst'[f]
                   PROVE  e = f
      BY DEF TrackedOnce
    <3>2. CASE j = k
      BY <2>3, <2>4, <3>1, <3>2
    <3>3. CASE j # k
      <4>1. /\ inst'[e] = inst[e] \/ inst'[e] = inst[e] \union {k}
            /\ inst'[f] = inst[f] \/ inst'[f] = inst[f] \union {k}
        BY <2>4
      <4>2. j \in inst[e]
        BY <4>1, <3>1, <3>3
      <4>3. j \in inst[f]
        BY <4>1, <3>1, <3>3
      <4> QED BY <4>2, <4>3 DEF PidInv, TrackedOnce
    <3> QED BY <3>2, <3>3
  <2>6. \A e \in Entries : \A j \in inst'[e] : os'[j] # "none"
    BY <2>2, <2>4 DEF PidInv, TypeOK
  <2>7. \A e \in Entries : inst[e] \subseteq inst'[e]
    BY <2>4
  <2>8. loop'.kind \in {"stop", "monitor"} =>
          victims' \union ({dying'} \ {NoPid}) \subseteq inst'[Entry(loop'.proc)]
    BY <2>2, <2>7, ConfigTypes DEF PidInv, ControlOK
  <2>9. loop'.kind = "stopPid" =>
          \A j \in victims' \union ({dying'} \ {NoPid}) : \E e \in Entries : j \in inst'[e]
    BY <2>2, <2>7 DEF PidInv
  <2> QED BY <2>2, <2>5, <2>6, <2>8, <2>9 DEF PidInv, Entry
<1>10. ASSUME NEW k \in Pids, StopNext(k) PROVE PidInv'
  BY <1>10 DEF StopNext, PidInv, TrackedOnce, Entry
<1>11. ASSUME NEW k \in Pids, PingNext(k) PROVE PidInv'
  BY <1>11 DEF PingNext, PidInv
<1>12. ASSUME NEW k \in Pids, MonitorRunning(k) PROVE PidInv'
  BY <1>12 DEF MonitorRunning, PidInv, TrackedOnce, Entry
<1>13. ASSUME NEW k \in Pids, MonitorDead(k) PROVE PidInv'
  <2>1. PICK p \in Procs : p = loop.proc
    BY <1>13 DEF MonitorDead, ControlOK
  <2>2. /\ inst' = [inst EXCEPT ![Entry(p)] = @ \ {k}]
        /\ os' = Reaped(k) /\ victims' = victims \ {k} /\ k \in victims
        /\ UNCHANGED <<todo, loop, dying>> /\ loop.kind = "monitor" /\ dying = NoPid
    BY <1>13, <2>1 DEF MonitorDead, RemoveInstanceKeepEntry, ControlOK
  <2>3. k \in inst[Entry(p)] /\ Entry(p) \in Entries
    BY <2>1, <2>2, ConfigTypes DEF PidInv
  <2>4. \A e \in Entries : inst'[e] = inst[e] \ {k}
    BY <2>2, <2>3 DEF PidInv, TrackedOnce, TypeOK
  <2>5. \A j \in Pids \ {k} : os'[j] = os[j]
    BY <2>2 DEF Reaped, TypeOK
  <2>6. \A e \in Entries : \A j \in inst'[e] : os'[j] # "none"
    BY <2>4, <2>5 DEF PidInv, TypeOK
  <2>7. TrackedOnce'
    <3>1. SUFFICES ASSUME NEW e \in Entries, NEW f \in Entries,
                          inst'[e] \intersect inst'[f] # {}
                   PROVE  e = f
      BY DEF TrackedOnce
    <3>2. inst[e] \intersect inst[f] # {}
      BY <2>4, <3>1
    <3> QED BY <3>2 DEF PidInv, TrackedOnce
  <2>8. victims' \subseteq inst'[Entry(loop'.proc)]
    BY <2>1, <2>2, <2>3, <2>4 DEF PidInv
  <2> QED BY <2>2, <2>6, <2>7, <2>8 DEF PidInv, Entry
<1>14. ASSUME NEW k \in Pids, ChildExit(k) PROVE PidInv'
  <2>1. \A j \in Pids : os'[j] = "none" => os[j] = "none"
    BY <1>14 DEF ChildExit, TypeOK
  <2> QED BY <1>14, <2>1 DEF ChildExit, PidInv, TrackedOnce, Entry, TypeOK
<1> QED
  BY <1>1, <1>2, <1>3, <1>4, <1>5, <1>6, <1>7, <1>8, <1>9, <1>10, <1>11, <1>12,
     <1>13, <1>14
     DEF Next, Work, vars, ReceiveRequest, PollCheck, PollBegin

\* Hence both hold in every state a server that is never pinged can reach.
LEMMA PidInvariance ==
  ASSUME NoPing
  PROVE  Spec => [](TypeOK /\ ControlOK /\ PidInv)
<1>1. Init => PidInv
  BY DEF Init, PidInv, TrackedOnce, NoLoop
<1>2. TypeOK /\ ControlOK /\ PidInv /\ [Next]_vars => PidInv'
  BY PidStep
<1> QED BY ControlInvariance, <1>1, <1>2, PTL DEF Spec

\* Without ping, no pid is ever in two instance maps: what waitpid says of it is
\* said of the right process.
THEOREM TrackedByOne ==
  ASSUME NoPing
  PROVE  Spec => []TrackedOnce
<1>1. PidInv => TrackedOnce
  BY DEF PidInv
<1> QED BY PidInvariance, <1>1, PTL

\* Without ping, StopProcess signals children of the server only: the pid it is
\* given has not been reaped, so the kernel has not given it to another process.
THEOREM OwnChildrenOnly ==
  ASSUME NoPing
  PROVE  Spec => []SignalsOwnChildren
<1>1. TypeOK /\ ControlOK /\ PidInv => SignalsOwnChildren
  BY PidInvSignals
<1> QED BY PidInvariance, <1>1, PTL
-----------------------------------------------------------------------------
(* Children and poll tasks.                                                *)

\* In a build whose unset status says that a child runs, what leaves the store has been
\* reaped: no child is left to itself, whatever stops, replacements and pings mix.
THEOREM NoneLost ==
  ASSUME TRUE \notin StatusWhenUnset
  PROVE  Spec => []NoChildLost
<1> USE DEF lockVars, startVars, stopVars, storeVars
<1>1. Init => NoChildLost
  BY DEF Init, NoChildLost
<1>2. ASSUME TypeOK, ControlOK, NoChildLost, [Next]_vars
      PROVE  NoChildLost'
  <2>1. ASSUME UNCHANGED inst, \A j \in Pids : os'[j] # "none" => os[j] # "none"
        PROVE  NoChildLost'
    BY <1>2, <2>1 DEF NoChildLost
  <2>2. ASSUME NEW k \in Pids, os'[k] = "none",
               \A j \in Pids : j # k => os'[j] = os[j],
               \A e \in Entries : inst[e] \ {k} \subseteq inst'[e]
        PROVE  NoChildLost'
    BY <1>2, <2>2 DEF NoChildLost
  <2>3. CASE StopJudgedDone
    <3>1. dying \in Pids /\ os[dying] # "running"
      BY <1>2, <2>3 DEF StopJudgedDone, TypeOK
    <3>2. os'[dying] = "none" /\ \A j \in Pids : j # dying => os'[j] = os[j]
      BY <1>2, <2>3, <3>1 DEF StopJudgedDone, Reaped, TypeOK
    <3>3. RemoveInstance(loop.proc, dying) \/ RemoveInstanceByPid(dying)
      BY <2>3 DEF StopJudgedDone, Forget
    <3>4. \A e \in Entries : inst[e] \ {dying} \subseteq inst'[e]
      BY <1>2, <3>3 DEF RemoveInstance, RemoveInstanceByPid, TypeOK
    <3> QED BY <2>2, <3>1, <3>2, <3>4
  <2>4. ASSUME NEW k \in Pids, MonitorDead(k) PROVE NoChildLost'
    <3>1. os'[k] = "none" /\ \A j \in Pids : j # k => os'[j] = os[j]
      BY <1>2, <2>4 DEF MonitorDead, Reaped, TypeOK
    <3>2. \A e \in Entries : inst[e] \ {k} \subseteq inst'[e]
      BY <1>2, <2>4 DEF MonitorDead, RemoveInstanceKeepEntry, TypeOK
    <3> QED BY <2>2, <3>1, <3>2
  <2>5. ASSUME NEW k \in Pids, Fork(k) PROVE NoChildLost'
    <3>1. PICK p \in Procs : AddInstance(p, k)
      BY <1>2, <2>5 DEF Fork, Forking, ReadyToFork, TypeOK
    <3>2. /\ Entry(p) \in Entries /\ k \in inst'[Entry(p)]
          /\ \A e \in Entries : inst[e] \subseteq inst'[e]
      BY <1>2, <3>1, ConfigTypes DEF AddInstance, TypeOK
    <3>3. \A j \in Pids : j # k => os'[j] = os[j]
      BY <1>2, <2>5 DEF Fork, TypeOK
    <3> QED BY <1>2, <3>2, <3>3 DEF NoChildLost
  <2>6. ASSUME NEW k \in Pids, PingNext(k) PROVE NoChildLost'
    BY <1>2, <2>1, <2>6 DEF PingNext, Reaped, TypeOK
  <2>7. ASSUME NEW k \in Pids, ChildExit(k) PROVE NoChildLost'
    BY <1>2, <2>1, <2>7 DEF ChildExit, TypeOK
  <2>8. CASE Kill
    BY <1>2, <2>1, <2>8 DEF Kill, TypeOK
  <2>9. CASE UNCHANGED <<inst, os>>
    BY <1>2, <2>9 DEF NoChildLost
  <2> QED
    BY <1>2, <2>3, <2>4, <2>5, <2>6, <2>7, <2>8, <2>9
       DEF Next, Work, vars, ReceiveRequest, BeginExecute, EndExecute, PollCheck, PollBegin,
           PollTask, PollEnd, NextCall, ResolveNext, ForkFails, StopNext, MonitorRunning
<1> QED BY ControlInvariance, <1>1, <1>2, PTL DEF Spec

\* The tasks and the entries, each of which was created with a process of its own.
TaskInv ==
  /\ TaskPerEntry
  /\ \A e \in Entries : creator[e] # NoProc => Entry(creator[e]) = e

TaskSet == {tasks[i] : i \in DOMAIN tasks}

\* Without doubles, removing the first task of p removes p.
LEMMA RemoveTaskRemoves ==
  ASSUME tasks \in Seq(Procs), \A i, j \in DOMAIN tasks : tasks[i] = tasks[j] => i = j,
         NEW p, RemoveTask(p)
  PROVE  /\ \A i, j \in DOMAIN tasks' : tasks'[i] = tasks'[j] => i = j
         /\ TaskSet' = TaskSet \ {p}
<1>1. CASE \A i \in DOMAIN tasks : tasks[i] # p
  BY <1>1 DEF RemoveTask, TaskSet
<1>2. CASE \E i \in DOMAIN tasks : tasks[i] = p
  <2>1. PICK i \in DOMAIN tasks :
          tasks[i] = p /\ tasks' = SubSeq(tasks, 1, i - 1) \o SubSeq(tasks, i + 1, Len(tasks))
    BY <1>2 DEF RemoveTask
  <2> DEFINE n == Len(tasks)
             f(j) == IF j < i THEN j ELSE j + 1
  <2>2. i \in 1..n /\ n \in Nat /\ DOMAIN tasks = 1..n
    OBVIOUS
  <2>3. /\ Len(SubSeq(tasks, 1, i - 1)) = i - 1 /\ SubSeq(tasks, 1, i - 1) \in Seq(Procs)
        /\ \A j \in 1..(i - 1) : SubSeq(tasks, 1, i - 1)[j] = tasks[j]
    BY <2>2
  <2>4. /\ Len(SubSeq(tasks, i + 1, n)) = n - i /\ SubSeq(tasks, i + 1, n) \in Seq(Procs)
        /\ \A j \in 1..(n - i) : SubSeq(tasks, i + 1, n)[j] = tasks[i + j]
    BY <2>2
  <2>5. DOMAIN tasks' = 1..(n - 1) /\ \A j \in 1..(n - 1) : tasks'[j] = tasks[f(j)]
    <3>1. Len(tasks') = n - 1 /\ tasks' \in Seq(Procs)
      BY <2>1, <2>2, <2>3, <2>4, ConcatProperties
    <3>2. ASSUME NEW j \in 1..(n - 1) PROVE tasks'[j] = tasks[f(j)]
      <4>1. CASE j < i
        BY <2>1, <2>2, <2>3, <2>4, <4>1, ConcatProperties
      <4>2. CASE ~(j < i)
        <5>1. tasks'[j] = SubSeq(tasks, i + 1, n)[j - (i - 1)]
          <6> DEFINE s == SubSeq(tasks, 1, i - 1)
                     r == SubSeq(tasks, i + 1, n)
          <6>1. s \in Seq(Procs) /\ r \in Seq(Procs) /\ Len(s) = i - 1 /\ Len(r) = n - i
            BY <2>3, <2>4
          <6>2. j \in 1..(Len(s) + Len(r)) /\ ~(j <= Len(s))
            BY <2>2, <4>2, <6>1
          <6> HIDE DEF s, r
          <6>3. (s \o r)[j] = r[j - Len(s)]
            BY <6>1, <6>2, ConcatProperties
          <6>4. tasks' = s \o r
            BY <2>1 DEF s, r
          <6> QED BY <6>1, <6>3, <6>4 DEF s, r
        <5>2. j - (i - 1) \in 1..(n - i) /\ i + (j - (i - 1)) = j + 1
          BY <2>2, <4>2
        <5> QED BY <2>4, <4>2, <5>1, <5>2
      <4> QED BY <4>1, <4>2
    <3> QED BY <3>1, <3>2
  <2>6. \A j \in 1..(n - 1) : f(j) \in 1..n /\ f(j) # i
    BY <2>2
  <2>7. ASSUME NEW j \in DOMAIN tasks', NEW k \in DOMAIN tasks', tasks'[j] = tasks'[k]
        PROVE  j = k
    <3>1. f(j) = f(k)
      BY <2>2, <2>5, <2>6, <2>7
    <3> QED BY <2>2, <2>5, <3>1
  <2>8. ASSUME NEW x \in TaskSet' PROVE x \in TaskSet \ {p}
    <3>1. PICK j \in 1..(n - 1) : x = tasks[f(j)]
      BY <2>5, <2>8 DEF TaskSet
    <3>2. tasks[f(j)] # p
      BY <2>1, <2>2, <2>6
    <3> QED BY <2>2, <2>6, <3>1, <3>2 DEF TaskSet
  <2>9. ASSUME NEW x \in TaskSet \ {p} PROVE x \in TaskSet'
    <3>1. PICK m \in 1..n : x = tasks[m] /\ m # i
      BY <2>1, <2>2, <2>9 DEF TaskSet
    <3>2. PICK j \in 1..(n - 1) : f(j) = m
      <4>1. CASE m < i
        BY <2>2, <4>1
      <4>2. CASE m > i
        <5>1. m - 1 \in 1..(n - 1) /\ f(m - 1) = m
          BY <2>2, <4>2
        <5> QED BY <5>1
      <4> QED BY <2>2, <3>1, <4>1, <4>2
    <3> QED BY <2>5, <3>1, <3>2 DEF TaskSet
  <2> QED BY <2>7, <2>8, <2>9
<1> QED BY <1>1, <1>2

\* An entry goes away with its task.
LEMMA EntryAndTaskGo ==
  ASSUME TypeOK, TaskInv, NEW e \in Entries,
         creator' = [creator EXCEPT ![e] = NoProc], RemoveTask(creator[e])
  PROVE  TaskInv'
<1> USE DEF TypeOK
<1>1. /\ \A i, j \in DOMAIN tasks' : tasks'[i] = tasks'[j] => i = j
      /\ TaskSet' = TaskSet \ {creator[e]}
  BY RemoveTaskRemoves DEF TaskInv, TaskPerEntry
<1>2. TaskSet = {p \in Procs : creator[Entry(p)] = p /\ Config[p].IsMonitor}
  BY DEF TaskInv, TaskPerEntry, TaskSet
<1>3. \A p \in Procs : creator'[Entry(p)] = p <=> creator[Entry(p)] = p /\ p # creator[e]
  BY ConfigTypes, ConfigAssumption DEF TaskInv
<1>4. TaskSet' = {p \in Procs : creator'[Entry(p)] = p /\ Config[p].IsMonitor}
  BY <1>1, <1>2, <1>3
<1>5. \A f \in Entries : creator'[f] # NoProc => Entry(creator'[f]) = f
  BY DEF TaskInv
<1> QED BY <1>1, <1>4, <1>5 DEF TaskInv, TaskPerEntry, TaskSet, Entry

\* An entry that is made gets its task.
LEMMA EntryAndTaskCome ==
  ASSUME TypeOK, TaskInv, NEW p \in Procs, NEW k \in Pids, AddInstance(p, k)
  PROVE  TaskInv'
<1> USE DEF TypeOK
<1>1. CASE creator[Entry(p)] # NoProc
  BY <1>1 DEF AddInstance, TaskInv, TaskPerEntry, Entry
<1>2. CASE creator[Entry(p)] = NoProc
  <2>1. /\ Entry(p) \in Entries
        /\ creator' = [creator EXCEPT ![Entry(p)] = p]
        /\ tasks' = IF Config[p].IsMonitor THEN Append(tasks, p) ELSE tasks
    BY <1>2, ConfigTypes DEF AddInstance
  <2>2. TaskSet = {q \in Procs : creator[Entry(q)] = q /\ Config[q].IsMonitor}
    BY DEF TaskInv, TaskPerEntry, TaskSet
  <2>3. p \notin TaskSet
    BY <1>2, <2>2, ConfigAssumption
  <2>4. \A q \in Procs : creator'[Entry(q)] = q <=> creator[Entry(q)] = q \/ q = p
    BY <1>2, <2>1, ConfigTypes, ConfigAssumption
  <2>5. \A f \in Entries : creator'[f] # NoProc => Entry(creator'[f]) = f
    BY <2>1 DEF TaskInv
  <2>6. /\ \A i, j \in DOMAIN tasks' : tasks'[i] = tasks'[j] => i = j
        /\ TaskSet' = TaskSet \union {q \in {p} : Config[p].IsMonitor}
    <3>1. CASE ~Config[p].IsMonitor
      BY <2>1, <3>1 DEF TaskInv, TaskPerEntry, TaskSet
    <3>2. CASE Config[p].IsMonitor
      <4>1. /\ Len(tasks) \in Nat /\ DOMAIN tasks = 1..Len(tasks)
            /\ DOMAIN tasks' = 1..(Len(tasks) + 1)
            /\ tasks'[Len(tasks) + 1] = p
            /\ \A i \in 1..Len(tasks) : tasks'[i] = tasks[i]
        BY <2>1, <3>2
      <4>2. \A i \in 1..Len(tasks) : tasks[i] # p
        BY <2>3, <4>1 DEF TaskSet
      <4>3. \A i \in 1..(Len(tasks) + 1) : i \in 1..Len(tasks) \/ i = Len(tasks) + 1
        BY <4>1
      <4>4. \A i, j \in DOMAIN tasks' : tasks'[i] = tasks'[j] => i = j
        BY <4>1, <4>2, <4>3 DEF TaskInv, TaskPerEntry
      <4>5. TaskSet' \subseteq TaskSet \union {p}
        BY <4>1, <4>3 DEF TaskSet
      <4>6. TaskSet \union {p} \subseteq TaskSet'
        <5>1. \A i \in 1..Len(tasks) : i \in 1..(Len(tasks) + 1)
          BY <4>1
        <5>2. Len(tasks) + 1 \in 1..(Len(tasks) + 1)
          BY <4>1
        <5> QED BY <4>1, <5>1, <5>2 DEF TaskSet
      <4> QED BY <3>2, <4>4, <4>5, <4>6
    <3> QED BY <3>1, <3>2
  <2>7. TaskSet' = {q \in Procs : creator'[Entry(q)] = q /\ Config[q].IsMonitor}
    BY <2>2, <2>4, <2>6
  <2> QED BY <2>5, <2>6, <2>7 DEF TaskInv, TaskPerEntry, TaskSet, Entry
<1> QED BY <1>1, <1>2

\* In a build in which a deleted ProcessInfo still compares equal, a monitored entry has
\* one poll task and a task has its entry, though tasks are made and removed from inside
\* the loop over them.
THEOREM TasksFollowEntries ==
  ASSUME FALSE \notin FreedInfoMatches
  PROVE  Spec => []TaskPerEntry
<1> USE DEF lockVars, startVars, stopVars, storeVars
<1>1. Init => TaskInv
  BY ConfigTypes, ConfigAssumption DEF Init, TaskInv, TaskPerEntry
<1>2. ASSUME TypeOK, ControlOK, TaskInv, [Next]_vars
      PROVE  TaskInv'
  <2>1. CASE UNCHANGED <<creator, tasks>>
    BY <1>2, <2>1 DEF TaskInv, TaskPerEntry, Entry
  <2>2. CASE StopJudgedDone
    <3>1. CASE loop.kind = "stop"
      <4>1. loop.proc \in Procs /\ RemoveInstance(loop.proc, dying)
        BY <1>2, <2>2, <3>1 DEF StopJudgedDone, Forget, ControlOK
      <4>2. CASE UNCHANGED <<creator, tasks>>
        BY <2>1, <4>2
      <4>3. CASE ~UNCHANGED <<creator, tasks>>
        <5>1. /\ creator[Entry(loop.proc)] = loop.proc /\ RemoveTask(loop.proc)
              /\ creator' = [creator EXCEPT ![Entry(loop.proc)] = NoProc]
          BY <4>1, <4>3 DEF RemoveInstance
        <5> QED BY <1>2, <4>1, <5>1, ConfigTypes, EntryAndTaskGo
      <4> QED BY <4>2, <4>3
    <3>2. CASE loop.kind # "stop"
      <4>1. RemoveInstanceByPid(dying)
        BY <2>2, <3>2 DEF StopJudgedDone, Forget
      <4>2. CASE UNCHANGED <<creator, tasks>>
        BY <2>1, <4>2
      <4>3. CASE ~UNCHANGED <<creator, tasks>>
        <5>1. PICK e \in Entries : /\ creator' = [creator EXCEPT ![e] = NoProc]
                                   /\ RemoveTask(creator[e])
          BY <4>1, <4>3, OutcomesAssumption DEF RemoveInstanceByPid
        <5> QED BY <1>2, <5>1, EntryAndTaskGo
      <4> QED BY <4>2, <4>3
    <3> QED BY <3>1, <3>2
  <2>3. ASSUME NEW k \in Pids, Fork(k) PROVE TaskInv'
    <3>1. PICK p \in Procs : AddInstance(p, k)
      BY <1>2, <2>3 DEF Fork, Forking, ReadyToFork, TypeOK
    <3> QED BY <1>2, <3>1, EntryAndTaskCome
  <2> QED
    BY <1>2, <2>1, <2>2, <2>3
       DEF Next, Work, vars, ReceiveRequest, BeginExecute, EndExecute, PollCheck, PollBegin,
           PollTask, PollEnd, NextCall, ResolveNext, ForkFails, StopNext, MonitorRunning,
           MonitorDead, RemoveInstanceKeepEntry, PingNext, ChildExit, Kill
<1>3. TaskInv => TaskPerEntry
  BY DEF TaskInv
<1> QED BY ControlInvariance, <1>1, <1>2, <1>3, PTL DEF Spec
=============================================================================
