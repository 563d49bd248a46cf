SPECIFICATION Spec
CONSTANTS
  PROXY_STRICT_JSONAPI = FALSE
  Requests = {r1, r2, r3}
  Bodies <- MCSendOnly
  Limit = 1
  Retries = 1
  OutBatch = 2
  FirstGeneration = 0
  GenerationCap = 1
INVARIANTS
  QueueWithinLimit
