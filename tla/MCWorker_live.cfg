SPECIFICATION FairSpec
CONSTANTS
  PROXY_STRICT_JSONAPI = FALSE
  Requests = {r1, r2}
  Bodies <- MCGoodOrBad
  Limit = 1
  Retries = 1
  OutBatch = 1
  FirstGeneration = 0
  GenerationCap = 1
PROPERTIES
  ParkedIsResent
  TimersCatchUp
  StopEndsLoop
  AcceptedIsSettled
