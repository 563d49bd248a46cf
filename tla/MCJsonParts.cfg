SPECIFICATION Spec
CONSTANTS
  Parts = {"dom", "pool", "streams", "scan", "bytes", "points", "pieces", "numbers", "words",
           "digits", "values", "limbs", "decimals", "reals", "doubles", "shown",
           "pointers", "indices", "names", "orders", "paths"}
  Slots = {s1, s2, s3}
  HeapBlocks = {1, 2, 3}
  DefaultCapacity = 1
  MaxCells = 4
  MaxCalls = 4
  Align = 2
  ChunkCapacity = 6
  UserCapacities = {0, 4}
  Sizes = {0, 1, 2, 3, 5}
  MaxBlocks = 3
  MaxChunks = 3
  BufferSizes = {4, 5}
  InitialCapacities = {0, 2}
  MaxLength = 8
  MaxCapacity = 9
  Width = 4
  TextsOfKinds <- ShortAndLongRows
  Starts = {4, 5, 6, 7}
  Beyond = {"space", "quote"}
  Gaps = {0, 1, 4}
  Bytes <- Quads
  Points <- ShortTexts
SYMMETRY Perms
INVARIANTS
  DomOwns
  DomCompares
  BuffersKeep
  BlocksAreLoops
  CodesComeBack
  TextsSurvive
  NumbersSurvive
  DoublesSurvive
  PointersLead
PROPERTY DomKeepsTrees
\* A client may stop at any call, and a function is called once.
CHECK_DEADLOCK FALSE
