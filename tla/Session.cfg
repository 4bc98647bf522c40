CONSTANTS
  c1 = c1
  c2 = c2
  old = old
  s1 = s1
  s2 = s2
  k1 = k1
  k2 = k2
  Clients = {c1, c2, old}
  OldClients = {old}
  MaxOutputs = 2
  QueueLength = 2
  Base = 3
  Bodies <- MCBodies
  MaxPosted = 3
  Room = 4
  ByteBase = 16
  BufLen = 32
  Pdus <- MCPdus
  Servers = {s1, s2}
  Children = {k1, k2}
SPECIFICATION MCSpec
INVARIANTS TypeOK OneAtATime ServerSurvives WholeOutput
INVARIANTS CodecHonest EndedServerLetsGo
PROPERTIES ClientServed ImplementsChannel Delivered
CHECK_DEADLOCK FALSE
