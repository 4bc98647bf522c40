CONSTANTS
  web = web
  db = db
  appA = appA
  appB = appB
  Procs = {web, db}
  NoProc = NoProc
  Entries = {"web", "db"}
  Config <- WebDbConfig
  Pids = {k1, k2}
  NoPid = NoPid
  Requests <- WebDbRequests
  StatusWhenUnset = {TRUE, FALSE}
  ErrorWhenUnset = {TRUE}
  FreedInfoMatches = {TRUE}
SPECIFICATION Spec
PROPERTIES StoppedMeansDead
