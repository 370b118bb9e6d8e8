\* One file that says all that a file can say, loaded and saved again.
SPECIFICATION Spec
CONSTANTS
  Built <- NoModels
  Foreign <- MCDetailed
  I32Size = 64
  UsizeMax = 63
INVARIANT DetailsSurvive
CHECK_DEADLOCK FALSE
