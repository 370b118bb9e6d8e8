\* Tensors saved, loaded and resolved in any order, the external file being rewritten.
SPECIFICATION Spec
CONSTANTS
  Built <- MCBuilt
  Foreign <- MCForeign
  FileSizes = {0, 4, 8, 12}
  UsizeMax = 63
INVARIANTS
  TypeOK
  LoadedSurvives
  InitializersLoad
  CheckedTypesFitShape
PROPERTY ResolvedIsAnnounced
