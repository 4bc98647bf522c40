CONSTANTS
  web = web
  db = db
  appA = appA
  appB = appB
  Procs = {web, db}
  NoProc = NoProc
  Entries = {"web", "db"}
  Config <- WebDbConfig
  Pids = {k1, k2, k3}
  NoPid = NoPid
  Requests <- WebDbPidRequests
  StatusWhenUnset = {TRUE, FALSE}
  ErrorWhenUnset = {TRUE, FALSE}
  FreedInfoMatches = {TRUE}
SPECIFICATION FairSpec
INVARIANTS TypeOK InstanceLimit TrackedOnce SignalsOwnChildren
PROPERTIES IterationSafe MonitorKeepsRunning DeadInstanceNoticed
