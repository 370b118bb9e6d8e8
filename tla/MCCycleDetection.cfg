\* The depth-first search on every dependency table of four nodes.
SPECIFICATION Spec
CONSTANTS
  NumNodes = 4
  DepTables <- MCDepTables
INVARIANTS
  TypeOK
  StackIsGrayPath
  DoneIsClosed
  AnswerIsRight
PROPERTIES
  ImplementsCycleReport
  Returns
CHECK_DEADLOCK FALSE
