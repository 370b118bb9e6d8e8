\* Whole models: files of other producers loaded, imported and saved again; models built.
SPECIFICATION Spec
CONSTANTS
  Built <- MCBuilt
  Foreign <- MCForeign
  I32Size = 64
  UsizeMax = 63
INVARIANTS
  TypeOK
  LoadedSurvives
  ResavedKeeps
  ImportKeepsNodes
  OpaquePartsAreReported
CHECK_DEADLOCK FALSE
