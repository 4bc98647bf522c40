CONSTANTS
  web = web
  db = db
  appA = appA
  appB = appB
  Procs = {web, db}
  NoProc = NoProc
  Entries = {"web", "db"}
  Config <- WebDbConfig
  Pids = {k1, k2, k3}
  NoPid = NoPid
  Requests <- WebDbRequests
  StatusWhenUnset = {TRUE}
  ErrorWhenUnset = {TRUE}
  FreedInfoMatches = {TRUE}
SPECIFICATION Spec
PROPERTIES RunningDependencySkipped
