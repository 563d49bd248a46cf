SPECIFICATION FairSpec
CONSTANTS
  Threads = {t1, t2}
  StatsSend = TRUE
  Kinds <- MCKinds
  RequestCap = 2
INVARIANTS
  NothingLost
  TotalLeads
PROPERTIES
  EverythingReported
