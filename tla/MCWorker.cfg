SPECIFICATION Spec
CONSTANTS
  PROXY_STRICT_JSONAPI = FALSE
  Requests = {r1, r2, r3, r4}
  Bodies <- MCAllVerdicts
  Limit = 1
  Retries = 1
  OutBatch = 2
  FirstGeneration = 0
  GenerationCap = 1
INVARIANTS
  TypeOK
  TransactionsKept
  SendQueueBound
  CountersKept
PROPERTIES
  BacklogMoves
  KeepsPromise
  ActsAsThread
SYMMETRY Symmetric
