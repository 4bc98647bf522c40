CONSTANTS
  Lines <- MCLines
  Number <- MCNumber
  SettingFiles <- MCFiles
  ErrorWhenUnset = {TRUE, FALSE}
  Tags <- MCTags
  Pieces <- MCPieces
  Escapes <- MCEscapes
  NameChars = {"a", "b"}
  MaxPieces = 4
  WordBits = 8
  Typed = {"0", "1", "2", "8", "x", "f", "-", " "}
  MaxTyped = 5
  Objects = {1, 2}
  Strings = {"x", "y"}
  NULL = NULL
  Junk = Junk
  MAX_ARG_COUNT = 4
  MaxAdded = 2
  Producers = {p, q}
  Consumers = {c, d}
  Keeping = {q}
  Hasty = {d}
  MaxSegments = 2
  MaxWrites = 2
  MaxAttached = 2
SPECIFICATION MCSpec
INVARIANTS TypeOK DoneAsMeant SettingsInEffect IntervalInRange
INVARIANTS DocumentsOnly NumbersExact
INVARIANTS StringsKept SegmentsReliable
