CONSTANTS
  Primaries = {p1}
  Secondaries = {s1, s2}
  NoOne = NoOne
SPECIFICATION MutexFairSpec
PROPERTIES ImplementsPriorityLock PrimaryServed PollNotLockedOut
