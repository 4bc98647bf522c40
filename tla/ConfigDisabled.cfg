CONSTANTS
  g1 = g1
  g2 = g2
  web = web
  db = db
  v1 = v1
  v2 = v2
  GroupIds = {g1, g2}
  ProcIds = {web, db}
  NoId = NoId
  Words <- MCWords
  NoPath = NoPath
  RootPath <- MCRootPath
  Others = {v1, v2}
  NoDef = NoDef
  NoGroup = NoGroup
  Files <- EditedFiles
  MaxLoads = 2
  GroupNames = {g1, g2}
  ProcNames = {web}
  ShmNames = {"test1", "other"}
  NoName = NoName
  Registered = {"test1"}
  Contents = {v1, v2}
  MaxGroups = 2
  CharBits = 3
  ShortBits = 4
  IntBits = 5
  Operands <- MCOperands
  MaxOps = 3
  MaxNodes = 4
  MaxAttributes = 2
  Holders = {1, 2}
  Texts <- MCTexts
  PageSize = 16
  HolderSize = 4
  StringHeader = 1
  BlockAlignment = 2
  MaxEncoded = 18
  ReuseThreshold = 2
  MaxPages = 2
  MaxParsed = 1
  Primaries = {p1, p2}
  Secondaries = {s1, s2}
  NoOne = NoOne
  Machines = {"config"}
SPECIFICATION MCSpec
INVARIANTS DisabledNotStarted
CHECK_DEADLOCK FALSE
