SPECIFICATION Spec
CONSTANTS
  Short = Short
  Medium = Medium
  Long = Long
  Huge = Huge
  Texts = {Short, Medium, Long, Huge}
  TextLen <- Lengths
  Rows = {1, 2}
  MaxBuffer = 3
  Pages = {p1, p2}
  Data = {d1, d2}
  MaxVersion = 3
  MaxRefs = 2
  PoolPages = {g1, g2, g3}
  Contents = {c1, c2}
  Frames = 2
  MaxPins = 2
  Keys = {k1, k2, k3, k4}
  Items = {v1, v2}
  Room = 3
  TreePairs <- SixKeys
  Fanout = 2
  h1 = h1
  h2 = h2
  HashKeys = {h1, h2}
  HashRows = {1, 2}
  HashOf <- Hashes
  BucketCapacity = 1
  BucketCounts = {4, 5}
  MaxPairs = 3
  ListKeys = {1, 2, 3}
  ListValues = {w1, w2}
  MaxLevel = 3
  Waiters = {1, 2, 3}
  MaxEdges = 5
  WordBits = 3
  Bits = {0, 1, 2, 3, 4, 5, 6}
  ArrayMax = 2
  ChunkSize = 4
  Lowest = 0
  Highest = 6
  Nodes = 3
  SecondSets <- OtherSets
  IndexedValues = {1, 2}
  MaxRows = 5
  StoredValues = {1, 2}
  Slots = 3
  Generations = 2
  MaxHandles = 4
  Capacities = {0, 1, 2, 3}
  QueueKeys = {1, 2, 3, 4}
  Priorities = {1, 2, 3}
  MaxRaised = 1
  MaxElements = 4
  MaxVertices = 3
  MaxArcs = 4
  TrieKeys <- ByteKeys
  MaxTrieKeys = 3
  Observed = {1, 2, 3}
  MaxObserved = 6
  ObjectNames = {1, 2}
  ColumnLists <- TableColumns
  IndexColumns <- SomeColumns
  SequenceRules <- Rules
  FirstValue = 0
  LastValue = 3
  MaxObjects = 3
  MaxValues = 3
  StatementTexts <- Sources
  MaxPrepared = 2
  MaxExecuted = 2
INVARIANTS
  DeadlocksAreCycles
  SetsMeanMembers
  ContainersMeanModels
  MirrorDescribesPage
  GenerationTellsStale
  ReadsAsOf
  NoWriteLost
PROPERTIES
  ImplementsKeyedRows
  ImplementsPairBag
  ImplementsKeyedValues
  ProbeIsExact
  PinsRespected
  ImplementsRecencyCache
CHECK_DEADLOCK FALSE
