SPECIFICATION Spec
CONSTANTS
  SqlTrees <- Trees
  VmRows <- Inputs
  BatchSize = 5
  Operators <- Pipelines
  LeftTables <- LeftInputs
  RightTables <- RightInputs
  SourceSizes = {1, 2, 4}
  MaxRuns = 2
  Tables <- SmallTables
  Selects <- SelectStatements
  BuiltPlans <- HandMade
  NodePlans <- NodeQueries
  TableRows = 100
  IndexedCols = {1, 2}
  DistinctOf = 10
  SmallSide = 20
  MergeLimit = 150
  Scripts <- SqlScripts
  ExprTexts <- TextExprs
  MergeJobs <- SortsAndMerges
  MaxKey = 9
  Radix = 4
  Digits = 3
  AlgorithmJobs <- WholeInputs
  HashOfKey <- Scattered
  CodecJobs <- CodecInputs
  HalfRange = 32
  VarintBase = 8
  ShortBits = 4
  ByteBase = 2
  RleHalf = 2
  Window = 4
  MinMatch = 2
  MaxMatch = 5
  Continuation = {5, 6}
  CharCode <- Ascii
INVARIANTS
  MachineMeansTree
  OperatorsMatchRelations
  PlansKeepMeaning
  ParsersRebuildTrees
  MergesAreExact
  AlgorithmsMeetDefinitions
  CodecsRoundTrip
PROPERTIES
  PipelinesDrain
CHECK_DEADLOCK FALSE
