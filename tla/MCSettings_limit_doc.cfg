SPECIFICATION Spec
CONSTANTS
  a1 = a1
  a2 = a2
  name = name
  blank = blank
  Cores <- MCCores
  Number <- MCNumber
  Address <- MCAddress
  Other <- MCOther
  Blank = blank
  MaxLines = 2
INVARIANT NoLimitIsZero
