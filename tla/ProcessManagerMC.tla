--------------------------- MODULE ProcessManagerMC ---------------------------
(* Small instances of ProcessManager for TLC.                               *)
EXTENDS ProcessManager, TLC

Info(entry, max, monitor, many, system, dependency) ==
  [Entry |-> entry, MaxAllowedInstance |-> max, IsMonitor |-> monitor,
   IsKillMultiple |-> many, IsSystemCommand |-> system, Dependency |-> dependency]

Ask(op, procs) == [op |-> op, procs |-> procs, pid |-> NoPid]
AskPid(k) == [op |-> "stopPid", procs |-> <<>>, pid |-> k]


\* web depends on db; db takes two instances and refuses to stop both at once.
CONSTANTS web, db
WebDbConfig ==
  [p \in {web, db} |->
     CASE p = web -> Info("web", 1, TRUE, FALSE, FALSE, <<db>>)
       [] p = db -> Info("db", 2, TRUE, FALSE, FALSE, <<>>)]
WebDbRequests ==
  {Ask(op, ps) : op \in {"start", "stop", "restart"}, ps \in {<<web>>, <<db>>, <<db, web>>}}
WebDbPidRequests == WebDbRequests \union {AskPid(k) : k \in Pids}

\* The process "app" belongs to two groups and is IsSharedProcess in both; web,
\* in the first of them, depends on it.
CONSTANTS appA, appB
SharedConfig ==
  [p \in {appA, appB, web} |->
     CASE p = appA -> Info("app", 2, TRUE, TRUE, FALSE, <<>>)
       [] p = appB -> Info("app", 1, FALSE, TRUE, FALSE, <<>>)
       [] p = web -> Info("web", 1, TRUE, TRUE, FALSE, <<appA>>)]
SharedRequests ==
  {Ask(op, <<p>>) : op \in {"start", "stop", "restart", "ping"}, p \in {appA, appB, web}}
    \union {AskPid(k) : k \in Pids}

\* A process with the parser's default flags, and nothing else.
SystemConfig == [p \in {web} |-> Info("web", 1, FALSE, FALSE, TRUE, <<>>)]

WebRequests == {Ask(op, <<web>>) : op \in {"start", "stop", "restart"}}
=============================================================================
