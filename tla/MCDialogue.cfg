SPECIFICATION Spec
CONSTANTS
  Bodies <- MCBodies
  Limit = 1
INVARIANTS
  EchoesId
  SuccessIffValid
  RepliesTell
