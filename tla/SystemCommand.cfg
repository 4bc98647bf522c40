CONSTANTS
  web = web
  db = db
  appA = appA
  appB = appB
  Procs = {web}
  NoProc = NoProc
  Entries = {"web"}
  Config <- SystemConfig
  Pids = {k1, k2}
  NoPid = NoPid
  Requests <- WebRequests
  StatusWhenUnset = {TRUE}
  ErrorWhenUnset = {TRUE}
  FreedInfoMatches = {TRUE}
SPECIFICATION Spec
PROPERTIES StartStarts
