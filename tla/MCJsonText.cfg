SPECIFICATION Spec
CONSTANTS
  Jobs <- MCJobs
  Leftover <- MCLeftover
  IndentCharCount = 2
INVARIANTS
  ReaderFollowsGrammar
  ParsersAgree
  DocumentHoldsText
  WritersKeepText
