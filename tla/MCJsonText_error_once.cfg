SPECIFICATION Spec
CONSTANTS
  Jobs <- MCBroken
  Leftover <- MCLeftover
  IndentCharCount = 2
INVARIANT ErrorAssignedOnce
