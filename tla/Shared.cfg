CONSTANTS
  web = web
  db = db
  appA = appA
  appB = appB
  Procs = {appA, appB, web}
  NoProc = NoProc
  Entries = {"app", "web"}
  Config <- SharedConfig
  Pids = {k1, k2, k3}
  NoPid = NoPid
  Requests <- SharedRequests
  StatusWhenUnset = {FALSE}
  ErrorWhenUnset = {TRUE, FALSE}
  FreedInfoMatches = {TRUE}
SPECIFICATION FairSpec
INVARIANTS TaskPerEntry NoChildLost
PROPERTIES CommandServed
