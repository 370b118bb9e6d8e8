\* Attributes set, saved, received and loaded in any order.
SPECIFICATION Spec
CONSTANTS
  Built <- MCBuilt
  Foreign <- MCForeign
INVARIANTS
  TypeOK
  LoadedSurvives
  SavedIsNeverMisread
PROPERTY OneValueOnly
